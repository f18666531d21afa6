------------------------- MODULE NexusState_proofs -------------------------
(***************************************************************************)
(* Proofs about NexusState, for any threads, transactions and microblocks, *)
(* and before them about the Merkle tree it calls, for any leaf list.      *)
(*                                                                         *)
(* The argument is about versions of the leaf list.  Who holds the leaves  *)
(* mutex, and how far it has come, says which version the state root, the  *)
(* tree levels and the Mountain Range are of: the newest, or, while an     *)
(* update is under way, the one before it.  Those three versions only ever *)
(* go forward, so what a call has read, of a version it names, stays true  *)
(* of that version until the call returns.                                 *)
(***************************************************************************)
EXTENDS NexusState, MMR_proofs

-----------------------------------------------------------------------------
(* The levels of the Merkle tree: rebuild_tree's loop over current_level.  *)

IsLevels(f, n, list) ==
  f = [k \in 1..n |-> IF k = 1 THEN LeafLevel(list) ELSE ParentLevel(f[k - 1])]

LEMMA LevelsExist ==
  ASSUME NEW n \in Nat, NEW list
  PROVE  \E f : IsLevels(f, n, list)
<1> DEFINE Bad == {m \in Nat : ~\E f : IsLevels(f, m, list)}
<1> SUFFICES ASSUME Bad # {} PROVE FALSE
  BY Zenon
<1>1. PICK m \in Bad : \A j \in Bad : m <= j
  BY LeastNatural, Zenon
<1>2. m # 0
  <2> DEFINE f == [k \in 1..0 |-> LeafLevel(list)]
  <2>1. f = [k \in 1..0 |-> IF k = 1 THEN LeafLevel(list) ELSE ParentLevel(f[k - 1])]
    OBVIOUS
  <2> QED
    BY <1>1, <2>1, Zenon DEF IsLevels
<1>3. m - 1 \in Nat /\ m - 1 \notin Bad
  BY <1>1, <1>2
<1>4. PICK f : IsLevels(f, m - 1, list)
  BY <1>3, Zenon
<1> DEFINE last == IF m = 1 THEN LeafLevel(list) ELSE ParentLevel(f[m - 1])
           g == [k \in 1..m |-> IF k = m THEN last ELSE f[k]]
<1>5. \A k \in 1..(m - 1) :
        f[k] = IF k = 1 THEN LeafLevel(list) ELSE ParentLevel(f[k - 1])
  BY <1>4, Zenon DEF IsLevels
<1>6. \A k \in 1..m : g[k] = IF k = 1 THEN LeafLevel(list) ELSE ParentLevel(g[k - 1])
  BY <1>1, <1>2, <1>3, <1>5
<1>7. IsLevels(g, m, list)
  BY <1>6, Zenon DEF IsLevels
<1> QED
  BY <1>1, <1>7, Zenon

Layers(f, list) ==
  /\ Len(list) > 0 => f[1] = LeafLevel(list)
  /\ \A k \in 2..Len(list) : f[k] = ParentLevel(f[k - 1])

LEMMA LevelsAre ==
  ASSUME NEW list, Len(list) \in Nat
  PROVE  Layers(Levels(list), list)
<1>1. Levels(list) = CHOOSE f : IsLevels(f, Len(list), list)
  BY Zenon DEF Levels, IsLevels
<1>2. IsLevels(Levels(list), Len(list), list)
  BY <1>1, LevelsExist, Zenon
<1>3. PICK f : f = Levels(list)
  BY Zenon
<1>4. \A k \in 1..Len(list) :
        f[k] = IF k = 1 THEN LeafLevel(list) ELSE ParentLevel(f[k - 1])
  BY <1>2, <1>3, Zenon DEF IsLevels
<1>5. Layers(f, list)
  BY <1>4 DEF Layers
<1> QED
  BY <1>3, <1>5, Zenon

(* Every level is half of the one below, rounded up, and so the last of    *)
(* Len(list) levels at most has one hash.                                  *)
Halves(f, n) ==
  /\ Len(f[1]) = n
  /\ \A k \in 1..n : Len(f[k]) \in Nat \ {0}
  /\ \A k \in 2..n : Len(f[k]) = (Len(f[k - 1]) + 1) \div 2
  /\ \E k \in 1..n : Len(f[k]) = 1

LEMMA HalfIsLess ==
  ASSUME NEW x \in Nat \ {0}
  PROVE  (x + 1) \div 2 \in Nat \ {0} /\ (x # 1 => (x + 1) \div 2 <= x - 1)
OBVIOUS

LEMMA LevelsHalve ==
  ASSUME NEW list, Len(list) \in Nat \ {0}
  PROVE  Halves(Levels(list), Len(list))
<1> DEFINE n == Len(list)
<1>1. PICK f : f = Levels(list)
  BY Zenon
<1>2. n \in Nat /\ n > 0
  OBVIOUS
<1>3. f[1] = LeafLevel(list) /\ \A k \in 2..n : f[k] = ParentLevel(f[k - 1])
  <2>1. Layers(f, list)
    BY <1>1, <1>2, LevelsAre, Zenon
  <2> QED
    BY <1>2, <2>1, Zenon DEF Layers
<1>4. Len(f[1]) = n
  BY <1>2, <1>3 DEF LeafLevel
<1>5. ASSUME NEW k \in 2..n, Len(f[k - 1]) \in Nat
      PROVE  Len(f[k]) = (Len(f[k - 1]) + 1) \div 2
  <2>1. ASSUME NEW l, Len(l) \in Nat PROVE Len(ParentLevel(l)) = (Len(l) + 1) \div 2
    BY <2>1 DEF ParentLevel
  <2>2. f[k] = ParentLevel(f[k - 1])
    BY <1>3, Zenon
  <2> QED
    BY <1>5, <2>1, <2>2, Zenon
<1> HIDE DEF n
<1>6. \A k \in 1..n : Len(f[k]) \in Nat \ {0}
  <2> DEFINE Bad == {k \in 1..n : Len(f[k]) \notin Nat \ {0}}
  <2> SUFFICES ASSUME Bad # {} PROVE FALSE
    BY Zenon
  <2>1. PICK k \in Bad : \A j \in Bad : k <= j
    <3>1. Bad \in SUBSET Nat
      BY <1>2
    <3> QED
      BY <3>1, LeastNatural, Zenon
  <2>2. k # 1
    BY <1>2, <1>4, <2>1
  <2>3. k \in 2..n /\ k - 1 \in 1..n /\ k - 1 \notin Bad
    BY <1>2, <2>1, <2>2
  <2>4. Len(f[k - 1]) \in Nat \ {0}
    BY <2>3, Zenon
  <2>5. Len(f[k]) = (Len(f[k - 1]) + 1) \div 2
    BY <1>5, <2>3, <2>4, Zenon
  <2> QED
    BY <2>1, <2>4, <2>5, HalfIsLess, Zenon
<1>7. \A k \in 2..n : Len(f[k]) = (Len(f[k - 1]) + 1) \div 2
  <2> SUFFICES ASSUME NEW k \in 2..n PROVE Len(f[k]) = (Len(f[k - 1]) + 1) \div 2
    BY Zenon
  <2>1. k - 1 \in 1..n
    BY <1>2
  <2>2. Len(f[k - 1]) \in Nat
    BY <1>6, <2>1
  <2> QED
    BY <1>5, <2>2, Zenon
<1>8. \E k \in 1..n : Len(f[k]) = 1
  <2> SUFFICES ASSUME \A k \in 1..n : Len(f[k]) # 1 PROVE FALSE
    BY Zenon
  <2> DEFINE Bad == {k \in 1..n : Len(f[k]) > n - k + 1}
  <2>1. ASSUME Bad # {} PROVE FALSE
    <3>1. PICK k \in Bad : \A j \in Bad : k <= j
      <4>1. Bad \in SUBSET Nat
        BY <1>2
      <4> QED
        BY <2>1, <4>1, LeastNatural, Zenon
    <3>2. k # 1
      BY <1>2, <1>4, <3>1
    <3>3. k \in 2..n /\ k - 1 \in 1..n /\ k - 1 \notin Bad
      BY <1>2, <3>1, <3>2
    <3>4. Len(f[k - 1]) \in Nat \ {0} /\ Len(f[k - 1]) # 1
      BY <1>6, <3>3, Zenon
    <3>5. ~(Len(f[k - 1]) > n - (k - 1) + 1)
      BY <3>3, Zenon
    <3>6. Len(f[k]) = (Len(f[k - 1]) + 1) \div 2
      BY <1>7, <3>3, Zenon
    <3>7. PICK x : x = Len(f[k - 1])
      BY Zenon
    <3>8. PICK y : y = Len(f[k])
      BY Zenon
    <3>9. y \in Nat /\ y <= x - 1
      BY <3>4, <3>6, <3>7, <3>8, HalfIsLess, Zenon
    <3>10. x \in Nat /\ ~(x > n - (k - 1) + 1) /\ y > n - k + 1
      BY <3>1, <3>4, <3>5, <3>7, <3>8, Zenon
    <3> QED
      BY <1>2, <3>3, <3>9, <3>10
  <2>2. n \in 1..n
    BY <1>2
  <2>3. Len(f[n]) \in Nat \ {0} /\ Len(f[n]) # 1 /\ ~(Len(f[n]) > n - n + 1)
    BY <1>6, <2>1, <2>2, Zenon
  <2>4. PICK x : x = Len(f[n])
    BY Zenon
  <2>5. x \in Nat \ {0} /\ x # 1 /\ ~(x > n - n + 1)
    BY <2>3, <2>4, Zenon
  <2> QED
    BY <1>2, <2>5
<1> QED
  BY <1>1, <1>4, <1>6, <1>7, <1>8, Zenon DEF Halves, n

(* tree_levels: as many of the levels as it takes to come down to one hash.*)
Tree(levels, f, n) ==
  \E d \in 1..n : /\ levels = [k \in 1..d |-> f[k]]
                  /\ Len(levels) = d
                  /\ Len(f[d]) = 1

LEMMA TreeIs ==
  ASSUME NEW list, Len(list) \in Nat \ {0}, list # <<>>
  PROVE  Tree(merkle_levels(list), Levels(list), Len(list))
<1> DEFINE n == Len(list)
           f == Levels(list)
           I == {k \in 1..n : Len(f[k]) = 1}
           d == Least(I)
<1>1. Halves(f, n)
  BY LevelsHalve, Zenon
<1>2. I \in SUBSET Nat /\ I # {}
  BY <1>1 DEF Halves
<1>3. d \in I
  BY <1>2, LeastNatural, Zenon
<1>4. merkle_levels(list) = [k \in 1..d |-> f[k]]
  BY Zenon DEF merkle_levels
<1> HIDE DEF d, f
<1>5. d \in 1..n /\ Len(f[d]) = 1
  BY <1>3, Zenon
<1>6. Len([k \in 1..d |-> f[k]]) = d
  BY <1>5
<1> QED
  BY <1>4, <1>5, <1>6, Zenon DEF Tree, f

LEMMA TreeOfNothing == merkle_levels(<<>>) = <<>> /\ merkle_root(<<>>) = ZeroHash
BY Zenon DEF merkle_levels, merkle_root

LEMMA TreeOfSome ==
  ASSUME NEW list, Len(list) \in Nat \ {0}, list # <<>>
  PROVE  merkle_levels(list) # <<>>
<1>1. PICK d \in 1..Len(list) : Len(merkle_levels(list)) = d
  BY TreeIs, Zenon DEF Tree
<1>2. Len(<<>>) = 0
  OBVIOUS
<1>3. d # 0
  BY <1>1
<1> QED
  BY <1>1, <1>2, <1>3, Zenon

-----------------------------------------------------------------------------
(* generate_merkle_proof's idx and verify_merkle_proof's current_hash.     *)

IsAncestors(f, n, index) ==
  f = [k \in 1..n |-> IF k = 1 THEN index ELSE f[k - 1] \div 2]

LEMMA AncestorsExist ==
  ASSUME NEW n \in Nat, NEW index
  PROVE  \E f : IsAncestors(f, n, index)
<1> DEFINE Bad == {m \in Nat : ~\E f : IsAncestors(f, m, index)}
<1> SUFFICES ASSUME Bad # {} PROVE FALSE
  BY Zenon
<1>1. PICK m \in Bad : \A j \in Bad : m <= j
  BY LeastNatural, Zenon
<1>2. m # 0
  <2> DEFINE f == [k \in 1..0 |-> index]
  <2>1. f = [k \in 1..0 |-> IF k = 1 THEN index ELSE f[k - 1] \div 2]
    OBVIOUS
  <2> QED
    BY <1>1, <2>1, Zenon DEF IsAncestors
<1>3. m - 1 \in Nat /\ m - 1 \notin Bad
  BY <1>1, <1>2
<1>4. PICK f : IsAncestors(f, m - 1, index)
  BY <1>3, Zenon
<1> DEFINE last == IF m = 1 THEN index ELSE f[m - 1] \div 2
           g == [k \in 1..m |-> IF k = m THEN last ELSE f[k]]
<1>5. \A k \in 1..(m - 1) : f[k] = IF k = 1 THEN index ELSE f[k - 1] \div 2
  BY <1>4, Zenon DEF IsAncestors
<1>6. \A k \in 1..m : g[k] = IF k = 1 THEN index ELSE g[k - 1] \div 2
  BY <1>1, <1>2, <1>3, <1>5
<1>7. IsAncestors(g, m, index)
  BY <1>6, Zenon DEF IsAncestors
<1> QED
  BY <1>1, <1>7, Zenon

LEMMA AncestorsAre ==
  ASSUME NEW levels, Len(levels) \in Nat, NEW index
  PROVE  IsAncestors(Ancestors(levels, index), Len(levels), index)
<1>1. Ancestors(levels, index) = CHOOSE f : IsAncestors(f, Len(levels), index)
  BY Zenon DEF Ancestors, IsAncestors
<1> QED
  BY <1>1, AncestorsExist, Zenon

Hashed(current, step) ==
  IF step.is_left THEN NodeHash(current, step.hash) ELSE NodeHash(step.hash, current)

IsClimbed(f, n, leaf, path) ==
  f = [k \in 0..n |-> IF k = 0 THEN LeafHash(leaf) ELSE Hashed(f[k - 1], path[k])]

LEMMA ClimbedExists ==
  ASSUME NEW n \in Nat, NEW leaf, NEW path
  PROVE  \E f : IsClimbed(f, n, leaf, path)
<1> DEFINE Bad == {m \in Nat : ~\E f : IsClimbed(f, m, leaf, path)}
<1> SUFFICES ASSUME Bad # {} PROVE FALSE
  BY Zenon
<1>1. PICK m \in Bad : \A j \in Bad : m <= j
  BY LeastNatural, Zenon
<1>2. m # 0
  <2> DEFINE f == [k \in 0..0 |-> LeafHash(leaf)]
  <2>1. \A k \in 0..0 : k = 0
    OBVIOUS
  <2>2. f = [k \in 0..0 |-> IF k = 0 THEN LeafHash(leaf) ELSE Hashed(f[k - 1], path[k])]
    BY <2>1, Zenon
  <2> QED
    BY <1>1, <2>2, Zenon DEF IsClimbed
<1>3. m - 1 \in Nat /\ m - 1 \notin Bad
  BY <1>1, <1>2
<1>4. PICK f : IsClimbed(f, m - 1, leaf, path)
  BY <1>3, Zenon
<1> DEFINE g == [k \in 0..m |-> IF k = m THEN Hashed(f[m - 1], path[m]) ELSE f[k]]
<1>5. \A k \in 0..(m - 1) : f[k] = IF k = 0 THEN LeafHash(leaf) ELSE Hashed(f[k - 1], path[k])
  BY <1>4, Zenon DEF IsClimbed
<1>6. \A k \in 0..m : g[k] = IF k = 0 THEN LeafHash(leaf) ELSE Hashed(g[k - 1], path[k])
  BY <1>1, <1>2, <1>3, <1>5
<1>7. IsClimbed(g, m, leaf, path)
  BY <1>6, Zenon DEF IsClimbed
<1> QED
  BY <1>1, <1>7, Zenon

LEMMA ClimbedIs ==
  ASSUME NEW proof, Len(proof.path) \in Nat
  PROVE  /\ Climbed(proof)[0] = LeafHash(proof.leaf)
         /\ \A k \in 1..Len(proof.path) :
              Climbed(proof)[k] = Hashed(Climbed(proof)[k - 1], proof.path[k])
<1>1. Climbed(proof) = CHOOSE f : IsClimbed(f, Len(proof.path), proof.leaf, proof.path)
  BY Zenon DEF Climbed, IsClimbed, Hashed
<1>2. IsClimbed(Climbed(proof), Len(proof.path), proof.leaf, proof.path)
  BY <1>1, ClimbedExists, Zenon
<1>3. PICK f : f = Climbed(proof)
  BY Zenon
<1>4. \A k \in 0..Len(proof.path) :
        f[k] = IF k = 0 THEN LeafHash(proof.leaf) ELSE Hashed(f[k - 1], proof.path[k])
  BY <1>2, <1>3, Zenon DEF IsClimbed
<1>5. /\ f[0] = LeafHash(proof.leaf)
      /\ \A k \in 1..Len(proof.path) : f[k] = Hashed(f[k - 1], proof.path[k])
  BY <1>4
<1> QED
  BY <1>3, <1>5, Zenon

(* A step of the path takes the hash at idx of a level to the one at half  *)
(* idx of the level above, whichever side it is on.                        *)
PathStep(level, idx) ==
  LET sibling == IF idx % 2 = 1 THEN idx - 1
                 ELSE IF idx + 1 < Len(level) THEN idx + 1 ELSE idx
  IN [hash |-> level[sibling + 1], is_left |-> idx % 2 = 0]

LEMMA StepLeadsUp ==
  ASSUME NEW level, Len(level) \in Nat, NEW idx \in 0..(Len(level) - 1)
  PROVE  /\ idx \div 2 \in 0..((Len(level) + 1) \div 2 - 1)
         /\ Hashed(level[idx + 1], PathStep(level, idx)) = ParentLevel(level)[idx \div 2 + 1]
<1> DEFINE j == idx \div 2 + 1
           n == Len(level)
<1>1. j \in 1..((n + 1) \div 2) /\ idx \div 2 \in 0..((n + 1) \div 2 - 1)
  OBVIOUS
<1>2. ParentLevel(level)[j] =
        NodeHash(level[2 * j - 1], IF 2 * j <= n THEN level[2 * j] ELSE level[2 * j - 1])
  BY <1>1, Zenon DEF ParentLevel
<1>3. CASE idx % 2 = 1
  <2>1. 2 * j - 1 = idx - 1 + 1 /\ 2 * j = idx + 1 /\ 2 * j <= n /\ ~(idx % 2 = 0)
    BY <1>3
  <2>2. PathStep(level, idx) = [hash |-> level[idx - 1 + 1], is_left |-> FALSE]
    BY <1>3, <2>1, Zenon DEF PathStep
  <2>3. PathStep(level, idx).is_left = FALSE /\ PathStep(level, idx).hash = level[idx - 1 + 1]
    BY <2>2
  <2>4. Hashed(level[idx + 1], PathStep(level, idx)) = NodeHash(level[idx - 1 + 1], level[idx + 1])
    BY <2>3, Zenon DEF Hashed
  <2> HIDE DEF j
  <2> QED
    BY <1>1, <1>2, <2>1, <2>4, Zenon DEF j
<1>4. CASE idx % 2 # 1
  <2>1. 2 * j - 1 = idx + 1 /\ 2 * j = idx + 1 + 1 /\ idx % 2 = 0 /\ (2 * j <= n <=> idx + 1 < n)
    BY <1>4
  <2>2. PathStep(level, idx) =
          [hash |-> IF 2 * j <= n THEN level[2 * j] ELSE level[2 * j - 1], is_left |-> TRUE]
    BY <1>4, <2>1, Zenon DEF PathStep
  <2>3. /\ PathStep(level, idx).is_left = TRUE
        /\ PathStep(level, idx).hash = IF 2 * j <= n THEN level[2 * j] ELSE level[2 * j - 1]
    BY <2>2
  <2>4. Hashed(level[idx + 1], PathStep(level, idx)) =
          NodeHash(level[idx + 1], IF 2 * j <= n THEN level[2 * j] ELSE level[2 * j - 1])
    BY <2>3, Zenon DEF Hashed
  <2> HIDE DEF j
  <2> QED
    BY <1>1, <1>2, <2>1, <2>4, Zenon DEF j
<1> QED
  BY <1>3, <1>4, Zenon

(* What generate_merkle_proof makes of any leaf of any list is accepted by *)
(* verify_merkle_proof: the path leads to the root.                        *)
THEOREM PathsLeadToTheRoot ==
  ASSUME NEW S, NEW list \in Seq(S), NEW index \in 0..(Len(list) - 1), NEW proof,
         proof.leaf = list[index + 1],
         proof.path = merkle_path(merkle_levels(list), index),
         proof.root = merkle_root(list)
  PROVE  verify_merkle_proof(proof)
<1> DEFINE n == Len(list)
           levels == merkle_levels(list)
           f == Levels(list)
           idx == Ancestors(levels, index)
           current == Climbed(proof)
<1>1. n \in Nat \ {0} /\ list # <<>> /\ n \in Nat
  OBVIOUS
<1>2. PICK d \in 1..n : levels = [k \in 1..d |-> f[k]] /\ Len(levels) = d /\ Len(f[d]) = 1
  BY <1>1, TreeIs, Zenon DEF Tree
<1>3. /\ f[1] = LeafLevel(list) /\ \A k \in 2..n : f[k] = ParentLevel(f[k - 1])
      /\ Len(f[1]) = n
      /\ \A k \in 1..n : Len(f[k]) \in Nat \ {0}
      /\ \A k \in 2..n : Len(f[k]) = (Len(f[k - 1]) + 1) \div 2
  <2>1. Layers(f, list) /\ Halves(f, n)
    BY <1>1, LevelsAre, LevelsHalve, Zenon
  <2>2. n > 0
    BY <1>1
  <2> QED
    BY <2>1, <2>2, Zenon DEF Layers, Halves
<1>4. d \in Nat \ {0} /\ d <= n /\ 1 \in 1..d /\ d \in 1..d
  BY <1>1, <1>2
<1>5. \A k \in 1..d : idx[k] = IF k = 1 THEN index ELSE idx[k - 1] \div 2
  <2>1. Len(levels) \in Nat
    BY <1>2, <1>4
  <2>2. IsAncestors(idx, d, index)
    BY <1>2, <2>1, AncestorsAre, Zenon
  <2> HIDE DEF idx
  <2> QED
    BY <2>2, Zenon DEF IsAncestors
<1>6. /\ Len(proof.path) = d - 1
      /\ \A k \in 1..(d - 1) : proof.path[k] = PathStep(f[k], idx[k])
  <2>1. \A k \in 1..(d - 1) : levels[k] = f[k]
    BY <1>2, <1>4
  <2>2. proof.path = [k \in 1..(d - 1) |-> PathStep(levels[k], idx[k])]
    BY <1>2, Zenon DEF merkle_path, PathStep
  <2> HIDE DEF levels, f, idx
  <2>3. Len(proof.path) = d - 1
    BY <1>4, <2>2
  <2> QED
    BY <2>1, <2>2, <2>3, Zenon
<1>7. /\ current[0] = LeafHash(proof.leaf)
      /\ \A k \in 1..(d - 1) : current[k] = Hashed(current[k - 1], proof.path[k])
  <2>1. Len(proof.path) \in Nat
    BY <1>4, <1>6
  <2> QED
    BY <1>6, <2>1, ClimbedIs, Zenon
<1>8. merkle_root(list) = f[d][1]
  BY <1>1, <1>2, <1>4, Zenon DEF merkle_root
<1>9. verify_merkle_proof(proof) <=> current[d - 1] = f[d][1]
  BY <1>6, <1>8, Zenon DEF verify_merkle_proof
<1> HIDE DEF n, levels, f, idx, current
<1> DEFINE Good(k) == idx[k + 1] \in 0..(Len(f[k + 1]) - 1)
                      /\ current[k] = f[k + 1][idx[k + 1] + 1]
<1>10. Good(0)
  <2>1. idx[1] = index /\ index \in 0..(Len(f[1]) - 1)
    BY <1>3, <1>4, <1>5, Zenon DEF n
  <2>2. LeafLevel(list)[index + 1] = LeafHash(list[index + 1])
    BY DEF LeafLevel
  <2>3. 0 + 1 = 1
    OBVIOUS
  <2> QED
    BY <1>3, <1>7, <2>1, <2>2, <2>3, Zenon
<1>11. ASSUME NEW k \in 1..(d - 1), Good(k - 1) PROVE Good(k)
  <2>1. k - 1 + 1 = k /\ k + 1 - 1 = k /\ k \in 1..n /\ k + 1 \in 2..n /\ k + 1 \in 1..d /\ k + 1 # 1
    BY <1>1, <1>4 DEF n
  <2>2. Len(f[k]) \in Nat /\ idx[k] \in 0..(Len(f[k]) - 1) /\ current[k - 1] = f[k][idx[k] + 1]
    BY <1>3, <1>11, <2>1
  <2>3. f[k + 1] = ParentLevel(f[k]) /\ Len(f[k + 1]) = (Len(f[k]) + 1) \div 2
    <3>1. PICK m : m = k + 1
      BY Zenon
    <3>2. m \in 2..n /\ m - 1 = k
      BY <2>1, <3>1
    <3>3. f[m] = ParentLevel(f[m - 1]) /\ Len(f[m]) = (Len(f[m - 1]) + 1) \div 2
      BY <1>3, <3>2, Zenon
    <3> QED
      BY <3>1, <3>2, <3>3, Zenon
  <2>4. idx[k + 1] = idx[k] \div 2
    BY <1>5, <2>1
  <2>5. current[k] = Hashed(f[k][idx[k] + 1], PathStep(f[k], idx[k]))
    BY <1>6, <1>7, <2>2, Zenon
  <2> QED
    BY <2>2, <2>3, <2>4, <2>5, StepLeadsUp, Zenon
<1>12. \A k \in 0..(d - 1) : Good(k)
  <2> DEFINE Bad == {k \in 0..(d - 1) : ~Good(k)}
  <2> SUFFICES ASSUME Bad # {} PROVE FALSE
    BY Zenon
  <2> HIDE DEF Good
  <2>1. PICK k \in Bad : \A j \in Bad : k <= j
    <3>1. Bad \in SUBSET Nat
      BY <1>4
    <3> QED
      BY <3>1, LeastNatural, Zenon
  <2>2. k # 0
    BY <1>10, <2>1, Zenon
  <2>3. k \in 1..(d - 1) /\ k - 1 \in 0..(d - 1) /\ k - 1 \notin Bad
    BY <1>4, <2>1, <2>2
  <2> QED
    BY <1>11, <2>1, <2>3, Zenon
<1>13. d - 1 \in 0..(d - 1) /\ d - 1 + 1 = d
  BY <1>4
<1>14. idx[d] \in 0..(Len(f[d]) - 1) /\ current[d - 1] = f[d][idx[d] + 1]
  BY <1>12, <1>13, Zenon
<1>15. idx[d] + 1 = 1
  BY <1>2, <1>14
<1> QED
  BY <1>9, <1>14, <1>15, Zenon

(* position answers with a place where the key is, and with NoIndex only   *)
(* when there is none.                                                     *)
LEMMA PositionIs ==
  ASSUME NEW txs, Len(txs) \in Nat, NEW key
  PROVE  \/ /\ position(txs, key) = NoIndex
            /\ \A i \in 1..Len(txs) : txs[i] # key
         \/ /\ position(txs, key) \in 0..(Len(txs) - 1)
            /\ position(txs, key) # NoIndex
            /\ txs[position(txs, key) + 1] = key
<1> DEFINE hits == {i \in 1..Len(txs) : txs[i] = key}
<1>1. position(txs, key) = (IF hits = {} THEN 0 ELSE Least(hits)) - 1
  BY Zenon DEF position, FirstIndex
<1>2. CASE hits = {}
  <2>1. position(txs, key) = 0 - 1
    BY <1>1, <1>2, Zenon
  <2>2. position(txs, key) = NoIndex
    BY <2>1 DEF NoIndex
  <2>3. \A i \in 1..Len(txs) : txs[i] # key
    BY <1>2, Zenon
  <2> QED
    BY <2>2, <2>3, Zenon
<1>3. CASE hits # {}
  <2>1. hits \in SUBSET Nat
    OBVIOUS
  <2>2. Least(hits) \in hits
    BY <1>3, <2>1, LeastNatural, Zenon
  <2>3. PICK i : i = Least(hits)
    BY Zenon
  <2>4. i \in 1..Len(txs) /\ txs[i] = key /\ position(txs, key) = i - 1
    BY <1>1, <1>3, <2>2, <2>3, Zenon
  <2>5. i - 1 \in 0..(Len(txs) - 1) /\ i - 1 # NoIndex /\ i - 1 + 1 = i
    BY <2>4 DEF NoIndex
  <2> QED
    BY <2>4, <2>5, Zenon
<1> QED
  BY <1>2, <1>3, Zenon

-----------------------------------------------------------------------------
(* The invariant.                                                          *)

Writers == {"set_root", "set_levels", "lock_mmr", "feed_mmr"}

HoldLeaves == Writers \cup {"lock_levels", "proof_root", "metadata_mmr"}

(* How far the holder of the leaves mutex has come.                        *)
phase == IF holder["leaves"] \in Threads THEN pc[holder["leaves"]] ELSE "idle"

newest == Len(versions)

(* The version each of the derived fields is of.                           *)
rootVersion == IF phase = "set_root" THEN newest - 1 ELSE newest
levelsVersion == IF phase \in {"set_root", "set_levels"} THEN newest - 1 ELSE newest
rangeVersion == IF phase \in Writers THEN newest - 1 ELSE newest

Locks ==
  /\ DOMAIN pc = Threads /\ DOMAIN local = Threads /\ DOMAIN since = Threads
  /\ holder \in [Mutexes -> Threads \cup {NoThread}]
  /\ \A u \in Threads : /\ pc[u] \in HoldLeaves <=> holder["leaves"] = u
                        /\ pc[u] = "proof_root" <=> holder["tree_levels"] = u
                        /\ pc[u] = "feed_mmr" <=> holder["mmr"] = u

Fields ==
  /\ versions \in Seq(Seq(Txs)) /\ newest >= 1
  /\ phase \in Writers => newest > 1
  /\ leaves = versions[newest]
  /\ state_root = merkle_root(versions[rootVersion])
  /\ tree_levels = merkle_levels(versions[levelsVersion])
  /\ mmr = FeedMMR(EmptyMMR, versions[rangeVersion])

(* What a thread in the middle of a call can rely on.                      *)
Extends(u) ==
  \E batch \in Batches :
    /\ versions[newest] = versions[newest - 1] \o batch
    /\ local[u].kind = "update" => local[u].batch = batch

PathRead(u) ==
  /\ position(leaves, local[u].key) # NoIndex
  /\ local[u].path = merkle_path(merkle_levels(leaves), position(leaves, local[u].key))

AbsenceSeen(u) ==
  \E v \in since[u]..rootVersion :
    \A i \in DOMAIN versions[v] : versions[v][i] # local[u].key

LeafRead(u) ==
  /\ local[u].index \in 0..(Len(leaves) - 1)
  /\ local[u].leaf = leaves[local[u].index + 1]

PlaceRead(u) ==
  /\ since[u] <= rangeVersion
  /\ \E i \in 0..(Len(versions[rangeVersion]) - 1) :
       /\ versions[rangeVersion][i + 1] = local[u].leaf
       /\ get_mmr_node_pos(i) = local[u].pos
  /\ local[u].pos < mmr.node_count

RootRead(u) ==
  \E i \in (since[u] - 1)..rootVersion :
    i > 0 /\ local[u].root = merkle_root(versions[i])

RangeRead(u, last) ==
  \E j \in 1..last : /\ since[u] - 1 <= j
                     /\ local[u].peaks = FeedMMR(EmptyMMR, versions[j]).peaks
                     /\ local[u].size = Len(versions[j])

InCall(u) ==
  /\ pc[u] # "idle" => since[u] \in 1..newest
  /\ pc[u] \in Writers => Extends(u)
  /\ pc[u] = "proof_root" => PathRead(u)
  /\ pc[u] = "absent_root" => AbsenceSeen(u)
  /\ pc[u] = "get_leaf" => local[u].index \in Nat
  /\ pc[u] \in {"metadata", "metadata_mmr"} => LeafRead(u)
  /\ pc[u] = "assemble" => PlaceRead(u)
  /\ pc[u] = "status_mmr" => RootRead(u)
  /\ pc[u] = "manifest_lookup" => RangeRead(u, newest)
  /\ pc[u] = "manifest_root" => RangeRead(u, rootVersion) /\ since[u] <= rootVersion

(* What the last answer said, of versions there have been.                 *)
Answered ==
  /\ asked \in Nat
  /\ asked = 0 => reply = Nothing
  /\ ProofsAreOfOneVersion
  /\ AbsenceIsNotStale
  /\ MmrProofNamesItsLeaf
  /\ StatusLagsByOneBatch
  /\ ManifestRootIsNotOlder

StateInv == Locks /\ Fields /\ (\A u \in Threads : InCall(u)) /\ Answered

-----------------------------------------------------------------------------
(* Versions.                                                               *)

(* The versions the fields are of exist, and are one apart at most.        *)
Between(v) == v \in 1..newest /\ newest - 1 <= v

LEMMA VersionsExist ==
  ASSUME Fields
  PROVE  /\ newest \in Nat \ {0}
         /\ Between(rootVersion) /\ Between(levelsVersion) /\ Between(rangeVersion)
         /\ rangeVersion <= rootVersion
         /\ phase \notin Writers =>
              rootVersion = newest /\ levelsVersion = newest /\ rangeVersion = newest
         /\ versions[newest] \in Seq(Txs) /\ versions[rangeVersion] \in Seq(Txs)
<1>1. newest \in Nat \ {0}
  BY DEF Fields, newest
<1>2. /\ phase = "set_root" => phase \in Writers /\ phase \in {"set_root", "set_levels"}
      /\ phase \in {"set_root", "set_levels"} => phase \in Writers
  BY DEF Writers
<1>3. rootVersion = newest \/ (rootVersion = newest - 1 /\ phase \in Writers)
  BY <1>2, Zenon DEF rootVersion
<1>4. levelsVersion = newest \/ (levelsVersion = newest - 1 /\ phase \in Writers)
  BY <1>2, Zenon DEF levelsVersion
<1>5. \/ rangeVersion = newest /\ phase \notin Writers
      \/ rangeVersion = newest - 1 /\ phase \in Writers
  BY Zenon DEF rangeVersion
<1>6. phase \in Writers => newest > 1
  BY Zenon DEF Fields
<1>7. Between(rootVersion) /\ Between(levelsVersion) /\ Between(rangeVersion)
      /\ rangeVersion <= rootVersion
  BY <1>1, <1>3, <1>4, <1>5, <1>6 DEF Between
<1>8. phase \notin Writers =>
              rootVersion = newest /\ levelsVersion = newest /\ rangeVersion = newest
  BY <1>3, <1>4, <1>5, Zenon
<1>9. \A v \in 1..newest : versions[v] \in Seq(Txs)
  BY DEF Fields, newest
<1>10. newest \in 1..newest
  BY <1>1
<1> QED
  BY <1>1, <1>7, <1>8, <1>9, <1>10, Zenon DEF Between

(* Between two steps of whoever holds the leaves mutex nothing is undone:  *)
(* the versions stay, the fields' versions do not go back, and a list that *)
(* takes the place of another begins with it.                              *)
Begins(list, longer) ==
  \A i \in 1..Len(list) : i \in 1..Len(longer) /\ longer[i] = list[i]

Later ==
  /\ newest' >= newest
  /\ \A v \in 1..newest : versions'[v] = versions[v]
  /\ rootVersion' >= rootVersion
  /\ rangeVersion' >= rangeVersion
  /\ Begins(leaves, leaves')
  /\ Begins(versions[rangeVersion], versions'[rangeVersion'])
  /\ mmr'.node_count >= mmr.node_count
  /\ Free("leaves") \/ UNCHANGED <<leaves, versions>>

LEMMA BeginsItself == ASSUME NEW list PROVE Begins(list, list)
BY Zenon DEF Begins

LEMMA BeginsLonger ==
  ASSUME NEW S, NEW list \in Seq(S), NEW batch \in Seq(S)
  PROVE  Begins(list, list \o batch)
BY DEF Begins

LEMMA NodesCounted ==
  ASSUME Fields
  PROVE  mmr.node_count \in Nat /\ mmr.size = Len(versions[rangeVersion])
<1>1. Counted(EmptyMMR) /\ EmptyMMR.size = 0
  BY DEF EmptyMMR, Counted
<1>2. PICK txs : txs = versions[rangeVersion]
  BY Zenon
<1>3. Len(txs) \in Nat
  BY <1>2, VersionsExist
<1>4. mmr = FeedMMR(EmptyMMR, txs)
  BY <1>2, Zenon DEF Fields
<1>5. Counted(mmr) /\ mmr.size = 0 + Len(txs)
  BY <1>1, <1>3, <1>4, LeavesAreCounted, Zenon
<1>6. mmr.node_count \in Nat
  BY <1>5, Zenon DEF Counted
<1>7. mmr.size = Len(txs)
  BY <1>3, <1>5
<1> QED
  BY <1>2, <1>6, <1>7, Zenon

-----------------------------------------------------------------------------
(* What the steps do to the fields, by what they do to the phase.          *)

(* Nothing is written.                                                     *)
LEMMA Quiet ==
  ASSUME Fields, UNCHANGED fields,
         phase' = phase \/ (phase \notin Writers /\ phase' \notin Writers)
  PROVE  Fields' /\ Later
<1>1. newest' = newest /\ UNCHANGED <<leaves, state_root, tree_levels, mmr, versions>>
  BY DEF newest, fields
<1>2. rootVersion' = rootVersion /\ levelsVersion' = levelsVersion /\ rangeVersion' = rangeVersion
  <2>1. phase = "set_root" => phase \in Writers
    BY DEF Writers
  <2>2. phase' = "set_root" => phase' \in Writers
    BY DEF Writers
  <2>3. phase \in {"set_root", "set_levels"} => phase \in Writers
    BY DEF Writers
  <2>4. phase' \in {"set_root", "set_levels"} => phase' \in Writers
    BY DEF Writers
  <2> QED
    BY <1>1, <2>1, <2>2, <2>3, <2>4, Zenon DEF rootVersion, levelsVersion, rangeVersion
<1>3. Fields'
  <2>1. phase' \in Writers => phase \in Writers
    BY Zenon
  <2> QED
    BY <1>1, <1>2, <2>1, Zenon DEF Fields
<1>4. Begins(leaves, leaves') /\ Begins(versions[rangeVersion], versions'[rangeVersion'])
  BY <1>1, <1>2, BeginsItself, Zenon
<1>5. /\ newest' >= newest /\ rootVersion' >= rootVersion /\ rangeVersion' >= rangeVersion
      /\ mmr'.node_count >= mmr.node_count
  <2>1. newest \in Nat /\ rootVersion \in 1..newest /\ rangeVersion \in 1..newest
    BY VersionsExist, Zenon DEF Between
  <2>2. mmr.node_count \in Nat
    BY NodesCounted, Zenon
  <2> QED
    BY <1>1, <1>2, <2>1, <2>2
<1> QED
  BY <1>1, <1>3, <1>4, <1>5, Zenon DEF Later

(* The leaves are changed.                                                 *)
LEMMA Extended ==
  ASSUME Fields, phase \notin Writers, phase' = "set_root", Free("leaves"),
         NEW batch \in Seq(Txs),
         leaves' = leaves \o batch, versions' = Append(versions, leaves \o batch),
         UNCHANGED <<state_root, tree_levels, mmr>>
  PROVE  /\ Fields' /\ Later
         /\ newest' - 1 = newest
         /\ versions'[newest'] = versions'[newest' - 1] \o batch
<1>1. newest \in Nat \ {0} /\ leaves \in Seq(Txs) /\ leaves = versions[newest]
  BY VersionsExist, Zenon DEF Fields
<1>2. rootVersion = newest /\ levelsVersion = newest /\ rangeVersion = newest
  BY VersionsExist, Zenon
<1>3. /\ versions' \in Seq(Seq(Txs)) /\ newest' = newest + 1
      /\ versions'[newest + 1] = leaves \o batch
      /\ \A v \in 1..newest : versions'[v] = versions[v]
  <2>1. leaves \o batch \in Seq(Txs)
    BY <1>1
  <2>2. versions \in Seq(Seq(Txs))
    BY Zenon DEF Fields
  <2>3. PICK next \in Seq(Txs) : next = leaves \o batch
    BY <2>1, Zenon
  <2>4. versions' = Append(versions, next)
    BY <2>3, Zenon
  <2> HIDE <2>3
  <2>5. /\ versions' \in Seq(Seq(Txs)) /\ Len(versions') = Len(versions) + 1
        /\ versions'[Len(versions) + 1] = next
        /\ \A v \in 1..Len(versions) : versions'[v] = versions[v]
    BY <2>2, <2>4
  <2> USE <2>3
  <2> QED
    BY <2>5, Zenon DEF newest
<1>4. newest' - 1 = newest /\ newest' >= 1 /\ newest' > 1 /\ newest \in 1..newest
  BY <1>1, <1>3
<1>5. rootVersion' = newest /\ levelsVersion' = newest /\ rangeVersion' = newest
  <2>1. "set_root" \in Writers /\ "set_root" \in {"set_root", "set_levels"}
    BY DEF Writers
  <2> QED
    BY <1>4, <2>1, Zenon DEF rootVersion, levelsVersion, rangeVersion
<1>6. versions'[newest'] = leaves' /\ versions'[newest] = versions[newest]
  BY <1>3, <1>4, Zenon
<1>7. Fields'
  BY <1>2, <1>3, <1>4, <1>5, <1>6, Zenon DEF Fields
<1>8. Begins(leaves, leaves')
  BY <1>1, BeginsLonger, Zenon
<1>9. Begins(versions[rangeVersion], versions'[rangeVersion'])
  BY <1>2, <1>5, <1>6, BeginsItself, Zenon
<1>10. /\ newest' >= newest /\ rootVersion' >= rootVersion /\ rangeVersion' >= rangeVersion
       /\ mmr'.node_count >= mmr.node_count
  BY <1>1, <1>2, <1>3, <1>5, NodesCounted
<1>11. Later
  BY <1>3, <1>8, <1>9, <1>10, Zenon DEF Later
<1> QED
  BY <1>1, <1>4, <1>6, <1>7, <1>11, Zenon

(* The state root is assigned.                                             *)
LEMMA RootPublished ==
  ASSUME Fields, phase = "set_root", phase' = "set_levels",
         state_root' = merkle_root(leaves),
         UNCHANGED <<leaves, tree_levels, mmr, versions>>
  PROVE  Fields' /\ Later /\ rangeVersion' = rangeVersion
<1>1. newest' = newest /\ newest \in Nat \ {0} /\ leaves = versions[newest]
  BY VersionsExist, Zenon DEF newest, Fields
<1>2. /\ "set_root" \in Writers /\ "set_root" \in {"set_root", "set_levels"}
      /\ "set_levels" \in Writers /\ "set_levels" \in {"set_root", "set_levels"}
      /\ "set_levels" # "set_root"
  BY DEF Writers
<1>3. /\ rootVersion' = newest /\ levelsVersion' = newest - 1 /\ rangeVersion' = newest - 1
      /\ rootVersion = newest - 1 /\ levelsVersion = newest - 1 /\ rangeVersion = newest - 1
  BY <1>1, <1>2, Zenon DEF rootVersion, levelsVersion, rangeVersion
<1>4. Fields'
  BY <1>1, <1>2, <1>3, Zenon DEF Fields
<1>5. Begins(leaves, leaves') /\ Begins(versions[rangeVersion], versions'[rangeVersion'])
  BY <1>3, BeginsItself, Zenon
<1>6. /\ newest' >= newest /\ rootVersion' >= rootVersion /\ rangeVersion' >= rangeVersion
      /\ mmr'.node_count >= mmr.node_count
  <2>1. mmr.node_count \in Nat
    BY NodesCounted, Zenon
  <2> QED
    BY <1>1, <1>3, <2>1
<1>7. Later
  BY <1>5, <1>6, Zenon DEF Later
<1> QED
  BY <1>3, <1>4, <1>7, Zenon

(* The levels are stored.                                                  *)
LEMMA LevelsStored ==
  ASSUME Fields, phase = "set_levels", phase' = "lock_mmr",
         tree_levels' = merkle_levels(leaves),
         UNCHANGED <<leaves, state_root, mmr, versions>>
  PROVE  Fields' /\ Later
<1>1. newest' = newest /\ newest \in Nat \ {0} /\ leaves = versions[newest]
  BY VersionsExist, Zenon DEF newest, Fields
<1>2. /\ "set_levels" \in Writers /\ "set_levels" \in {"set_root", "set_levels"}
      /\ "lock_mmr" \in Writers /\ "lock_mmr" \notin {"set_root", "set_levels"}
      /\ "set_levels" # "set_root" /\ "lock_mmr" # "set_root"
  BY DEF Writers
<1>3. /\ rootVersion' = newest /\ levelsVersion' = newest /\ rangeVersion' = newest - 1
      /\ rootVersion = newest /\ rangeVersion = newest - 1
  BY <1>1, <1>2, Zenon DEF rootVersion, levelsVersion, rangeVersion
<1>4. Fields'
  BY <1>1, <1>2, <1>3, Zenon DEF Fields
<1>5. Begins(leaves, leaves') /\ Begins(versions[rangeVersion], versions'[rangeVersion'])
  BY <1>3, BeginsItself, Zenon
<1>6. /\ newest' >= newest /\ rootVersion' >= rootVersion /\ rangeVersion' >= rangeVersion
      /\ mmr'.node_count >= mmr.node_count
  <2>1. mmr.node_count \in Nat
    BY NodesCounted, Zenon
  <2> QED
    BY <1>1, <1>3, <2>1
<1>7. Later
  BY <1>5, <1>6, Zenon DEF Later
<1> QED
  BY <1>4, <1>7, Zenon

(* The mmr mutex is taken.                                                 *)
LEMMA RangeLocked ==
  ASSUME Fields, phase = "lock_mmr", phase' = "feed_mmr", UNCHANGED fields
  PROVE  Fields' /\ Later
<1>1. newest' = newest /\ newest \in Nat \ {0}
      /\ UNCHANGED <<leaves, state_root, tree_levels, mmr, versions>>
  BY VersionsExist DEF newest, fields
<1>2. /\ "lock_mmr" \in Writers /\ "lock_mmr" \notin {"set_root", "set_levels"}
      /\ "feed_mmr" \in Writers /\ "feed_mmr" \notin {"set_root", "set_levels"}
      /\ "lock_mmr" # "set_root" /\ "feed_mmr" # "set_root"
  BY DEF Writers
<1>3. /\ rootVersion' = newest /\ levelsVersion' = newest /\ rangeVersion' = newest - 1
      /\ rootVersion = newest /\ levelsVersion = newest /\ rangeVersion = newest - 1
  BY <1>1, <1>2, Zenon DEF rootVersion, levelsVersion, rangeVersion
<1>4. Fields'
  BY <1>1, <1>2, <1>3, Zenon DEF Fields
<1>5. Begins(leaves, leaves') /\ Begins(versions[rangeVersion], versions'[rangeVersion'])
  BY <1>1, <1>3, BeginsItself, Zenon
<1>6. /\ newest' >= newest /\ rootVersion' >= rootVersion /\ rangeVersion' >= rangeVersion
      /\ mmr'.node_count >= mmr.node_count
  <2>1. mmr.node_count \in Nat
    BY NodesCounted, Zenon
  <2> QED
    BY <1>1, <1>3, <2>1
<1>7. Later
  BY <1>1, <1>5, <1>6, Zenon DEF Later
<1> QED
  BY <1>4, <1>7, Zenon

(* The Mountain Range is fed, and the leaves mutex dropped.                *)
LEMMA RangeFed ==
  ASSUME Fields, phase = "feed_mmr", phase' = "idle",
         NEW batch \in Seq(Txs),
         versions[newest] = versions[newest - 1] \o batch,
         \/ mmr' = FeedMMR(mmr, batch)
         \/ mmr' = FeedMMR(EmptyMMR, leaves),
         UNCHANGED <<leaves, state_root, tree_levels, versions>>
  PROVE  Fields' /\ Later /\ mmr' = FeedMMR(EmptyMMR, leaves)
<1>1. newest' = newest /\ newest \in Nat \ {0} /\ leaves = versions[newest]
  BY VersionsExist, Zenon DEF newest, Fields
<1>2. /\ "feed_mmr" \in Writers /\ "feed_mmr" \notin {"set_root", "set_levels"}
      /\ "idle" \notin Writers /\ "idle" \notin {"set_root", "set_levels"}
      /\ "feed_mmr" # "set_root" /\ "idle" # "set_root"
  BY DEF Writers
<1>3. /\ rootVersion' = newest /\ levelsVersion' = newest /\ rangeVersion' = newest
      /\ rootVersion = newest /\ levelsVersion = newest /\ rangeVersion = newest - 1
  BY <1>1, <1>2, Zenon DEF rootVersion, levelsVersion, rangeVersion
<1>4. PICK before \in Seq(Txs) : before = versions[newest - 1]
  BY <1>3, VersionsExist, Zenon
<1>5. mmr = FeedMMR(EmptyMMR, before) /\ leaves = before \o batch
  BY <1>1, <1>3, <1>4, Zenon DEF Fields
<1>6. FeedMMR(EmptyMMR, before \o batch) = FeedMMR(FeedMMR(EmptyMMR, before), batch)
  BY FeedInTurns, Zenon
<1>7. mmr' = FeedMMR(EmptyMMR, leaves) /\ mmr' = FeedMMR(mmr, batch)
  BY <1>5, <1>6, Zenon
<1>8. Fields'
  BY <1>1, <1>2, <1>3, <1>7, Zenon DEF Fields
<1>9. Begins(before, leaves)
  BY <1>5, BeginsLonger, Zenon
<1>10. Begins(leaves, leaves') /\ Begins(versions[rangeVersion], versions'[rangeVersion'])
  BY <1>1, <1>3, <1>4, <1>9, BeginsItself, Zenon
<1>11. mmr'.node_count >= mmr.node_count
  <2>1. Counted(EmptyMMR)
    BY DEF EmptyMMR, Counted
  <2>2. Len(before) \in Nat /\ Len(batch) \in Nat
    OBVIOUS
  <2>3. Counted(mmr)
    BY <1>5, <2>1, <2>2, LeavesAreCounted, Zenon
  <2> QED
    BY <1>7, <2>2, <2>3, LeavesAreCounted, Zenon
<1>12. newest' >= newest /\ rootVersion' >= rootVersion /\ rangeVersion' >= rangeVersion
  BY <1>1, <1>3
<1>13. Later
  BY <1>10, <1>11, <1>12, Zenon DEF Later
<1> QED
  BY <1>7, <1>8, <1>13, Zenon

-----------------------------------------------------------------------------
(* Who holds the leaves mutex.                                             *)

LEMMA HolderPhase ==
  ASSUME Locks, NEW t \in Threads, pc[t] \in HoldLeaves
  PROVE  phase = pc[t]
BY Zenon DEF Locks, phase

LEMMA FreePhase ==
  ASSUME Free("leaves")
  PROVE  phase = "idle" /\ phase \notin Writers
<1>1. phase = "idle"
  BY NoThreadAssumption, Zenon DEF Free, phase
<1> QED
  BY <1>1 DEF Writers

(* t takes it, or goes on holding it.                                      *)
LEMMA TakenPhase ==
  ASSUME Locks, NEW t \in Threads, NEW step,
         pc' = [pc EXCEPT ![t] = step], holder'["leaves"] = t
  PROVE  phase' = step
BY Zenon DEF Locks, phase

(* t drops it.                                                             *)
LEMMA DroppedPhase ==
  ASSUME holder'["leaves"] = NoThread
  PROVE  phase' = "idle" /\ phase' \notin Writers
<1>1. phase' = "idle"
  BY NoThreadAssumption, Zenon DEF phase
<1> QED
  BY <1>1 DEF Writers

(* t has nothing to do with it.                                            *)
LEMMA OtherPhase ==
  ASSUME Locks, NEW t \in Threads, NEW step, pc[t] \notin HoldLeaves,
         pc' = [pc EXCEPT ![t] = step], holder'["leaves"] = holder["leaves"]
  PROVE  phase' = phase
BY Zenon DEF Locks, phase

(* The mutex m is held exactly at the steps of a call that are in held.    *)
Moves(m, t, step, held) ==
  \/ step \in held /\ holder'[m] = t /\ holder[m] \in {t, NoThread}
  \/ step \notin held /\ holder'[m] = NoThread /\ holder[m] = t
  \/ step \notin held /\ holder'[m] = holder[m] /\ holder[m] # t

LEMMA LocksKept ==
  ASSUME Locks, NEW t \in Threads, NEW step,
         pc' = [pc EXCEPT ![t] = step],
         DOMAIN local' = Threads, DOMAIN since' = Threads,
         holder' \in [Mutexes -> Threads \cup {NoThread}],
         Moves("leaves", t, step, HoldLeaves),
         Moves("tree_levels", t, step, {"proof_root"}),
         Moves("mmr", t, step, {"feed_mmr"})
  PROVE  Locks'
<1>1. DOMAIN pc' = Threads /\ pc'[t] = step
  BY Zenon DEF Locks
<1>2. \A u \in Threads : u # t => pc'[u] = pc[u]
  BY Zenon DEF Locks
<1>3. NoThread \notin Threads
  BY NoThreadAssumption, Zenon
<1>4. ASSUME NEW u \in Threads PROVE pc'[u] \in HoldLeaves <=> holder'["leaves"] = u
  <2>1. pc[u] \in HoldLeaves <=> holder["leaves"] = u
    BY Zenon DEF Locks
  <2>2. CASE u = t
    BY <1>1, <1>3, <2>2 DEF Moves
  <2>3. CASE u # t
    BY <1>2, <1>3, <2>1, <2>3 DEF Moves
  <2> QED
    BY <2>2, <2>3, Zenon
<1>5. ASSUME NEW u \in Threads PROVE pc'[u] = "proof_root" <=> holder'["tree_levels"] = u
  <2>1. pc[u] = "proof_root" <=> holder["tree_levels"] = u
    BY Zenon DEF Locks
  <2>2. CASE u = t
    BY <1>1, <1>3, <2>2 DEF Moves
  <2>3. CASE u # t
    BY <1>2, <1>3, <2>1, <2>3 DEF Moves
  <2> QED
    BY <2>2, <2>3, Zenon
<1>6. ASSUME NEW u \in Threads PROVE pc'[u] = "feed_mmr" <=> holder'["mmr"] = u
  <2>1. pc[u] = "feed_mmr" <=> holder["mmr"] = u
    BY Zenon DEF Locks
  <2>2. CASE u = t
    BY <1>1, <1>3, <2>2 DEF Moves
  <2>3. CASE u # t
    BY <1>2, <1>3, <2>1, <2>3 DEF Moves
  <2> QED
    BY <2>2, <2>3, Zenon
<1> QED
  BY <1>1, <1>4, <1>5, <1>6, Zenon DEF Locks

-----------------------------------------------------------------------------
(* Another thread's step takes nothing from what a call has read.          *)

Same(u) == pc'[u] = pc[u] /\ local'[u] = local[u] /\ since'[u] = since[u]

Typed ==
  /\ newest \in Nat \ {0} /\ rootVersion \in 1..newest /\ rangeVersion \in 1..newest
  /\ Len(leaves) \in Nat /\ Len(versions[rangeVersion]) \in Nat
  /\ mmr.node_count \in Nat

LEMMA FieldsTyped == Fields => Typed
<1> SUFFICES ASSUME Fields PROVE Typed
  BY Zenon
<1>1. newest \in Nat \ {0} /\ rootVersion \in 1..newest /\ rangeVersion \in 1..newest
  BY VersionsExist, Zenon DEF Between
<1>2. leaves \in Seq(Txs) /\ versions[rangeVersion] \in Seq(Txs)
  BY VersionsExist, Zenon DEF Fields
<1>3. Len(leaves) \in Nat /\ Len(versions[rangeVersion]) \in Nat
  BY <1>2
<1>4. mmr.node_count \in Nat
  BY NodesCounted, Zenon
<1> QED
  BY <1>1, <1>3, <1>4, Zenon DEF Typed

LEMMA FieldsStayTyped == Fields' => Typed'
BY FieldsTyped, PTL

LEMMA OthersKeep ==
  ASSUME Locks, Fields, Fields', Later, NEW u \in Threads, InCall(u), Same(u)
  PROVE  InCall(u)'
<1>1. /\ newest \in Nat \ {0} /\ newest' \in Nat \ {0} /\ newest' >= newest
      /\ rootVersion \in 1..newest /\ rangeVersion \in 1..newest
      /\ rootVersion' \in 1..newest' /\ rangeVersion' \in 1..newest'
      /\ rootVersion' >= rootVersion /\ rangeVersion' >= rangeVersion
  <2>1. Typed /\ Typed'
    BY FieldsTyped, FieldsStayTyped, Zenon
  <2> QED
    BY <2>1, Zenon DEF Typed, Later
<1>2. pc[u] # "idle" => since[u] \in 1..newest
  BY Zenon DEF InCall
<1>3. pc'[u] # "idle" => since'[u] \in 1..newest'
  BY <1>1, <1>2 DEF Same
<1>4. pc[u] \in HoldLeaves => UNCHANGED <<leaves, versions>>
  <2>1. pc[u] \in HoldLeaves => ~Free("leaves")
    BY NoThreadAssumption, Zenon DEF Locks, Free
  <2> QED
    BY <2>1, Zenon DEF Later
<1>5. pc'[u] \in Writers => Extends(u)'
  <2> SUFFICES ASSUME pc[u] \in Writers PROVE Extends(u)'
    BY Zenon DEF Same
  <2>1. UNCHANGED versions
    BY <1>4 DEF HoldLeaves
  <2>2. newest' = newest
    BY <2>1, Zenon DEF newest
  <2>3. Extends(u)
    BY Zenon DEF InCall
  <2> QED
    BY <2>1, <2>2, <2>3, Zenon DEF Extends, Same
<1>6. pc'[u] = "proof_root" => PathRead(u)'
  <2> SUFFICES ASSUME pc[u] = "proof_root" PROVE PathRead(u)'
    BY Zenon DEF Same
  <2>1. UNCHANGED leaves
    BY <1>4 DEF HoldLeaves
  <2>2. PathRead(u)
    BY Zenon DEF InCall
  <2> QED
    BY <2>1, <2>2, Zenon DEF PathRead, Same
<1>7. pc'[u] = "absent_root" => AbsenceSeen(u)'
  <2> SUFFICES ASSUME pc[u] = "absent_root" PROVE AbsenceSeen(u)'
    BY Zenon DEF Same
  <2>1. PICK v \in since[u]..rootVersion :
          \A i \in DOMAIN versions[v] : versions[v][i] # local[u].key
    BY Zenon DEF InCall, AbsenceSeen
  <2>2. v \in 1..newest /\ v \in since[u]..rootVersion'
    BY <1>1, <1>2, <2>1
  <2>3. versions'[v] = versions[v]
    BY <2>2, Zenon DEF Later
  <2> QED
    BY <2>1, <2>2, <2>3, Zenon DEF AbsenceSeen, Same
<1>8. pc'[u] = "get_leaf" => local'[u].index \in Nat
  BY Zenon DEF InCall, Same
<1>9. pc'[u] \in {"metadata", "metadata_mmr"} => LeafRead(u)'
  <2> SUFFICES ASSUME pc[u] \in {"metadata", "metadata_mmr"} PROVE LeafRead(u)'
    BY Zenon DEF Same
  <2>1. LeafRead(u)
    BY Zenon DEF InCall
  <2>2. PICK i : i = local[u].index
    BY Zenon
  <2>3. i \in 0..(Len(leaves) - 1) /\ local[u].leaf = leaves[i + 1]
    BY <2>1, <2>2, Zenon DEF LeafRead
  <2>4. Len(leaves) \in Nat /\ Len(leaves') \in Nat
    BY FieldsTyped, FieldsStayTyped, Zenon DEF Typed
  <2>5. i + 1 \in 1..Len(leaves)
    BY <2>3, <2>4
  <2>6. i + 1 \in 1..Len(leaves') /\ leaves'[i + 1] = leaves[i + 1]
    BY <2>5, Zenon DEF Later, Begins
  <2>7. i \in 0..(Len(leaves') - 1)
    BY <2>3, <2>4, <2>6
  <2> QED
    BY <2>2, <2>3, <2>6, <2>7, Zenon DEF LeafRead, Same
<1>10. pc'[u] = "assemble" => PlaceRead(u)'
  <2> SUFFICES ASSUME pc[u] = "assemble" PROVE PlaceRead(u)'
    BY Zenon DEF Same
  <2>1. PlaceRead(u)
    BY Zenon DEF InCall
  <2>2. since'[u] <= rangeVersion'
    <3>1. since[u] <= rangeVersion /\ since'[u] = since[u] /\ since[u] \in 1..newest
      BY <1>2, <2>1 DEF PlaceRead, Same
    <3> QED
      BY <1>1, <3>1
  <2>3. PICK before : before = versions[rangeVersion]
    BY Zenon
  <2>4. PICK after : after = versions'[rangeVersion']
    BY Zenon
  <2>5. Len(before) \in Nat /\ Len(after) \in Nat
    BY <2>3, <2>4, FieldsTyped, FieldsStayTyped, Zenon DEF Typed
  <2>6. PICK i \in 0..(Len(before) - 1) :
          before[i + 1] = local[u].leaf /\ get_mmr_node_pos(i) = local[u].pos
    BY <2>1, <2>3, Zenon DEF PlaceRead
  <2>7. i + 1 \in 1..Len(before)
    BY <2>5, <2>6
  <2>8. i + 1 \in 1..Len(after) /\ after[i + 1] = before[i + 1]
    BY <2>3, <2>4, <2>7, Zenon DEF Later, Begins
  <2>9. i \in 0..(Len(after) - 1)
    BY <2>5, <2>6, <2>8
  <2>10. local'[u].pos < mmr'.node_count
    <3>1. PICK p : p = local[u].pos
      BY Zenon
    <3>2. p \in Int
      <4>1. i \in Nat
        BY <2>6
      <4>2. CountOnes[i] \in Nat
        BY <4>1, CountOnesNat, Zenon
      <4> QED
        BY <2>6, <3>1, <4>1, <4>2 DEF get_mmr_node_pos
    <3>3. PICK c : c = mmr.node_count
      BY Zenon
    <3>4. PICK d : d = mmr'.node_count
      BY Zenon
    <3>5. c \in Nat /\ d \in Nat
      BY <3>3, <3>4, FieldsTyped, FieldsStayTyped, Zenon DEF Typed
    <3>6. p < c /\ d >= c
      BY <2>1, <3>1, <3>3, <3>4, Zenon DEF PlaceRead, Later
    <3>7. p < d
      BY <3>2, <3>5, <3>6
    <3> QED
      BY <3>1, <3>4, <3>7, Zenon DEF Same
  <2>11. /\ before[i + 1] = local'[u].leaf /\ get_mmr_node_pos(i) = local'[u].pos
    BY <2>6, Zenon DEF Same
  <2> QED
    BY <2>2, <2>4, <2>8, <2>9, <2>10, <2>11, Zenon DEF PlaceRead
<1>11. pc'[u] = "status_mmr" => RootRead(u)'
  <2> SUFFICES ASSUME pc[u] = "status_mmr" PROVE RootRead(u)'
    BY Zenon DEF Same
  <2>1. PICK i \in (since[u] - 1)..rootVersion :
          i > 0 /\ local[u].root = merkle_root(versions[i])
    BY Zenon DEF InCall, RootRead
  <2>2. i \in 1..newest /\ i \in (since[u] - 1)..rootVersion'
    BY <1>1, <1>2, <2>1
  <2>3. versions'[i] = versions[i]
    BY <2>2, Zenon DEF Later
  <2> QED
    BY <2>1, <2>2, <2>3, Zenon DEF RootRead, Same
<1>12. ASSUME NEW last \in 1..newest, NEW next \in 1..newest', next >= last,
              RangeRead(u, last)
       PROVE  \E j \in 1..next : /\ since'[u] - 1 <= j
                                 /\ local'[u].peaks = FeedMMR(EmptyMMR, versions'[j]).peaks
                                 /\ local'[u].size = Len(versions'[j])
  <2>1. PICK j \in 1..last : /\ since[u] - 1 <= j
                             /\ local[u].peaks = FeedMMR(EmptyMMR, versions[j]).peaks
                             /\ local[u].size = Len(versions[j])
    BY <1>12, Zenon DEF RangeRead
  <2>2. j \in 1..next /\ j \in 1..newest
    BY <1>1, <1>12, <2>1
  <2>3. versions'[j] = versions[j]
    BY <2>2, Zenon DEF Later
  <2> QED
    BY <2>1, <2>2, <2>3, Zenon DEF Same
<1>13. pc'[u] = "manifest_lookup" => RangeRead(u, newest)'
  <2> SUFFICES ASSUME pc[u] = "manifest_lookup" PROVE RangeRead(u, newest)'
    BY Zenon DEF Same
  <2>1. newest \in 1..newest /\ newest' \in 1..newest' /\ newest' >= newest
    BY <1>1
  <2>2. RangeRead(u, newest)
    BY Zenon DEF InCall
  <2> QED
    BY <1>12, <2>1, <2>2, Zenon DEF RangeRead
<1>14. pc'[u] = "manifest_root" => RangeRead(u, rootVersion)' /\ since'[u] <= rootVersion'
  <2> SUFFICES ASSUME pc[u] = "manifest_root"
               PROVE  RangeRead(u, rootVersion)' /\ since'[u] <= rootVersion'
    BY Zenon DEF Same
  <2>1. RangeRead(u, rootVersion) /\ since[u] <= rootVersion
    BY Zenon DEF InCall
  <2>2. since[u] \in 1..newest
    BY <1>2
  <2>3. since[u] <= rootVersion'
    BY <1>1, <2>1, <2>2
  <2> QED
    BY <1>1, <1>12, <2>1, <2>3, Zenon DEF RangeRead, Same
<1> QED
  BY <1>3, <1>5, <1>6, <1>7, <1>8, <1>9, <1>10, <1>11, <1>13, <1>14, Zenon DEF InCall

(* Nor does it make an answer that was given less true.                    *)
LEMMA AnswerKept ==
  ASSUME Fields, Fields', Later, Answered, UNCHANGED <<reply, asked>>
  PROVE  Answered'
<1>1. newest \in Nat /\ newest' \in Nat /\ newest' >= newest /\ asked \in Nat
  BY FieldsTyped, FieldsStayTyped, Zenon DEF Typed, Later, Answered
<1>2. reply.kind # "nothing" => asked >= 1
  <2>1. asked = 0 => reply.kind = "nothing"
    BY DEF Answered, Nothing
  <2> QED
    BY <1>1, <2>1
<1>3. ASSUME NEW v \in asked..newest, asked >= 1
      PROVE  /\ v \in 1..newest /\ v \in asked..newest'
             /\ versions'[v] = versions[v]
  <2>1. v \in 1..newest /\ v \in asked..newest'
    BY <1>1, <1>3
  <2> QED
    BY <2>1, Zenon DEF Later
<1>4. ProofsAreOfOneVersion'
  <2> SUFFICES ASSUME reply.kind = "merkle" PROVE ProofsAreOfOneVersion'
    BY Zenon DEF ProofsAreOfOneVersion
  <2>1. asked >= 1
    BY <1>2
  <2>2. PICK v \in asked..newest : /\ position(versions[v], reply.leaf) # NoIndex
                                   /\ reply = ProofOf(versions[v], reply.leaf)
    BY Zenon DEF Answered, ProofsAreOfOneVersion, SinceAsked, newest
  <2>3. v \in asked'..newest' /\ versions'[v] = versions[v]
    BY <1>3, <2>1, <2>2, Zenon
  <2>4. verify_merkle_proof(reply)
    BY Zenon DEF Answered, ProofsAreOfOneVersion
  <2> QED
    BY <2>2, <2>3, <2>4, Zenon DEF ProofsAreOfOneVersion, SinceAsked, newest
<1>5. AbsenceIsNotStale'
  <2> SUFFICES ASSUME reply.kind = "absent" PROVE AbsenceIsNotStale'
    BY Zenon DEF AbsenceIsNotStale
  <2>1. asked >= 1
    BY <1>2
  <2>2. PICK v \in asked..newest :
          /\ \A i \in DOMAIN versions[v] : versions[v][i] # reply.leaf
          /\ \E w \in v..newest : reply.root = merkle_root(versions[w])
    BY Zenon DEF Answered, AbsenceIsNotStale, SinceAsked, newest
  <2>3. PICK w \in v..newest : reply.root = merkle_root(versions[w])
    BY <2>2, Zenon
  <2>4. w \in asked..newest /\ w \in v..newest'
    BY <1>1, <2>2, <2>3
  <2>5. v \in asked'..newest' /\ versions'[v] = versions[v] /\ versions'[w] = versions[w]
    BY <1>3, <2>1, <2>2, <2>4, Zenon
  <2>6. \E x \in v..newest' : reply'.root = merkle_root(versions'[x])
    BY <2>3, <2>4, <2>5, Zenon
  <2>7. \A i \in DOMAIN versions'[v] : versions'[v][i] # reply'.leaf
    BY <2>2, <2>5, Zenon
  <2> QED
    BY <2>5, <2>6, <2>7, Zenon DEF AbsenceIsNotStale, SinceAsked, newest
<1>6. MmrProofNamesItsLeaf'
  <2> SUFFICES ASSUME reply.kind = "mmr" PROVE MmrProofNamesItsLeaf'
    BY Zenon DEF MmrProofNamesItsLeaf
  <2>1. asked >= 1
    BY <1>2
  <2>2. PICK v \in asked..newest :
          LET range == FeedMMR(EmptyMMR, versions[v])
          IN /\ reply.peaks = range.peaks
             /\ reply.root = get_root(range)
             /\ \E i \in 0..(Len(versions[v]) - 1) :
                  /\ versions[v][i + 1] = reply.leaf
                  /\ get_mmr_node_pos(i) = reply.pos
             /\ reply.pos < range.node_count
    BY Zenon DEF Answered, MmrProofNamesItsLeaf, SinceAsked, newest
  <2>3. v \in asked'..newest' /\ versions'[v] = versions[v]
    BY <1>3, <2>1, <2>2, Zenon
  <2> QED
    BY <2>2, <2>3, Zenon DEF MmrProofNamesItsLeaf, SinceAsked, newest
<1>7. StatusLagsByOneBatch'
  <2> SUFFICES ASSUME reply.kind = "status" PROVE StatusLagsByOneBatch'
    BY Zenon DEF StatusLagsByOneBatch
  <2>1. PICK i, j \in (asked - 1)..newest :
          /\ i > 0 /\ j > 0 /\ j >= i - 1
          /\ reply.state_root = merkle_root(versions[i])
          /\ reply.mmr_root = get_root(FeedMMR(EmptyMMR, versions[j]))
    BY Zenon DEF Answered, StatusLagsByOneBatch, newest
  <2>2. /\ i \in (asked - 1)..newest' /\ j \in (asked - 1)..newest'
        /\ i \in 1..newest /\ j \in 1..newest
    BY <1>1, <2>1
  <2>3. versions'[i] = versions[i] /\ versions'[j] = versions[j]
    BY <2>2, Zenon DEF Later
  <2> QED
    BY <2>1, <2>2, <2>3, Zenon DEF StatusLagsByOneBatch, newest
<1>8. ManifestRootIsNotOlder'
  <2> SUFFICES ASSUME reply.kind = "manifest" PROVE ManifestRootIsNotOlder'
    BY Zenon DEF ManifestRootIsNotOlder
  <2>1. asked >= 1
    BY <1>2
  <2>2. PICK i \in asked..newest, j \in 1..newest :
          /\ asked - 1 <= j /\ j <= i
          /\ reply.root = merkle_root(versions[i])
          /\ reply.peaks = FeedMMR(EmptyMMR, versions[j]).peaks
          /\ reply.size = Len(versions[j])
    BY Zenon DEF Answered, ManifestRootIsNotOlder, SinceAsked, newest
  <2>3. i \in asked'..newest' /\ versions'[i] = versions[i]
    BY <1>3, <2>1, <2>2, Zenon
  <2>4. j \in 1..newest'
    BY <1>1, <2>2
  <2>5. versions'[j] = versions[j]
    BY <2>2, Zenon DEF Later
  <2> QED
    BY <2>2, <2>3, <2>4, <2>5, Zenon DEF ManifestRootIsNotOlder, SinceAsked, newest
<1>9. asked' \in Nat /\ (asked' = 0 => reply' = Nothing)
  BY Zenon DEF Answered
<1> QED
  BY <1>4, <1>5, <1>6, <1>7, <1>8, <1>9, Zenon DEF Answered

-----------------------------------------------------------------------------
(* The bookkeeping of a call.                                              *)

Others(t) == \A u \in Threads \ {t} : Same(u)

LEMMA WentOn ==
  ASSUME Locks, NEW t \in Threads, NEW step, Goto(t, step),
         (\E value : Keep(t, value)) \/ UNCHANGED local,
         Pending \/ Called(t)
  PROVE  /\ pc' = [pc EXCEPT ![t] = step] /\ pc'[t] = step
         /\ DOMAIN local' = Threads /\ DOMAIN since' = Threads
         /\ Others(t)
         /\ UNCHANGED <<reply, asked>>
<1>1. pc' = [pc EXCEPT ![t] = step] /\ UNCHANGED <<reply, asked>>
  BY Zenon DEF Goto, Pending, Called
<1>2. DOMAIN pc = Threads /\ DOMAIN local = Threads /\ DOMAIN since = Threads
  BY Zenon DEF Locks
<1>3. DOMAIN local' = Threads /\ \A u \in Threads \ {t} : local'[u] = local[u]
  BY <1>2, Zenon DEF Keep
<1>4. DOMAIN since' = Threads /\ \A u \in Threads \ {t} : since'[u] = since[u]
  BY <1>2, Zenon DEF Pending, Called
<1>5. pc'[t] = step /\ \A u \in Threads \ {t} : pc'[u] = pc[u]
  BY <1>1, <1>2, Zenon
<1> QED
  BY <1>1, <1>3, <1>4, <1>5, Zenon DEF Others, Same

LEMMA Returned ==
  ASSUME Locks, NEW t \in Threads, NEW value, Return(t, value)
  PROVE  /\ pc' = [pc EXCEPT ![t] = "idle"] /\ pc'[t] = "idle"
         /\ DOMAIN local' = Threads /\ DOMAIN since' = Threads
         /\ Others(t)
         /\ reply' = value
         /\ asked' = IF pc[t] = "idle" THEN newest ELSE since[t]
<1>1. /\ pc' = [pc EXCEPT ![t] = "idle"] /\ reply' = value
      /\ asked' = IF pc[t] = "idle" THEN newest ELSE since[t]
  BY Zenon DEF Goto, Return, newest
<1>2. DOMAIN pc = Threads /\ DOMAIN local = Threads /\ DOMAIN since = Threads
  BY Zenon DEF Locks
<1>3. DOMAIN local' = Threads /\ \A u \in Threads \ {t} : local'[u] = local[u]
  BY <1>2, Zenon DEF Return
<1>4. DOMAIN since' = Threads /\ \A u \in Threads \ {t} : since'[u] = since[u]
  BY <1>2, Zenon DEF Return
<1>5. pc'[t] = "idle" /\ \A u \in Threads \ {t} : pc'[u] = pc[u]
  BY <1>1, <1>2, Zenon
<1> QED
  BY <1>1, <1>3, <1>4, <1>5, Zenon DEF Others, Same

LEMMA NotInCall ==
  ASSUME NEW t, pc'[t] = "idle"
  PROVE  InCall(t)'
<1>1. "idle" \notin Writers
  BY DEF Writers
<1> QED
  BY <1>1 DEF InCall

LEMMA AnswerGiven ==
  ASSUME asked' \in Nat \ {0},
         reply'.kind = "merkle" => ProofsAreOfOneVersion',
         reply'.kind = "absent" => AbsenceIsNotStale',
         reply'.kind = "mmr" => MmrProofNamesItsLeaf',
         reply'.kind = "status" => StatusLagsByOneBatch',
         reply'.kind = "manifest" => ManifestRootIsNotOlder'
  PROVE  Answered'
<1>1. ProofsAreOfOneVersion' /\ AbsenceIsNotStale' /\ MmrProofNamesItsLeaf'
  BY Zenon DEF ProofsAreOfOneVersion, AbsenceIsNotStale, MmrProofNamesItsLeaf
<1>2. StatusLagsByOneBatch' /\ ManifestRootIsNotOlder'
  BY Zenon DEF StatusLagsByOneBatch, ManifestRootIsNotOlder
<1>3. asked' \in Nat /\ asked' # 0
  OBVIOUS
<1> QED
  BY <1>1, <1>2, <1>3, Zenon DEF Answered

LEMMA Together ==
  ASSUME StateInv, NEW t \in Threads, Locks', Fields', Later, Others(t), InCall(t)',
         UNCHANGED <<reply, asked>> \/ Answered'
  PROVE  StateInv'
<1>1. \A u \in Threads : InCall(u)'
  <2> SUFFICES ASSUME NEW u \in Threads PROVE InCall(u)'
    BY Zenon
  <2>1. CASE u = t
    BY <2>1, Zenon
  <2>2. CASE u # t
    <3>1. Same(u) /\ InCall(u) /\ Locks /\ Fields
      BY <2>2, Zenon DEF Others, StateInv
    <3> QED
      BY <3>1, OthersKeep, Zenon
  <2> QED
    BY <2>1, <2>2, Zenon
<1>2. Answered'
  BY AnswerKept, Zenon DEF StateInv
<1> QED
  BY <1>1, <1>2, Zenon DEF StateInv

-----------------------------------------------------------------------------
(* Steps that write no field, by what they do with the leaves mutex.       *)

LEMMA Bystander ==
  ASSUME Locks, Fields, NEW t \in Threads, NEW step,
         pc[t] \notin HoldLeaves, step \notin HoldLeaves,
         pc' = [pc EXCEPT ![t] = step],
         DOMAIN local' = Threads, DOMAIN since' = Threads,
         UNCHANGED <<fields, holder>>
  PROVE  Locks' /\ Fields' /\ Later
<1>1. holder' = holder /\ UNCHANGED fields
  OBVIOUS
<1>2. step # "proof_root" /\ step # "feed_mmr" /\ pc[t] # "proof_root" /\ pc[t] # "feed_mmr"
  BY DEF HoldLeaves, Writers
<1>3. /\ holder \in [Mutexes -> Threads \cup {NoThread}]
      /\ holder["leaves"] # t /\ holder["tree_levels"] # t /\ holder["mmr"] # t
  BY <1>2, Zenon DEF Locks
<1>4. Moves("leaves", t, step, HoldLeaves)
  BY <1>1, <1>3, Zenon DEF Moves
<1>5. Moves("tree_levels", t, step, {"proof_root"}) /\ Moves("mmr", t, step, {"feed_mmr"})
  BY <1>1, <1>2, <1>3, Zenon DEF Moves
<1>6. Locks'
  BY <1>1, <1>3, <1>4, <1>5, LocksKept, Zenon
<1>7. phase' = phase
  BY <1>1, OtherPhase, Zenon
<1> QED
  BY <1>1, <1>6, <1>7, Quiet, Zenon

LEMMA TakesLeaves ==
  ASSUME Locks, Fields, NEW t \in Threads, NEW step, Free("leaves"),
         step \in {"lock_levels", "metadata_mmr"},
         pc' = [pc EXCEPT ![t] = step],
         DOMAIN local' = Threads, DOMAIN since' = Threads,
         holder' = [holder EXCEPT !["leaves"] = t],
         UNCHANGED fields
  PROVE  Locks' /\ Fields' /\ Later
<1>1. /\ step \in HoldLeaves /\ step # "proof_root" /\ step # "feed_mmr" /\ step \notin Writers
  BY DEF HoldLeaves, Writers
<1>2. pc[t] \notin HoldLeaves /\ holder["leaves"] = NoThread
  BY NoThreadAssumption, Zenon DEF Locks, Free
<1>3. pc[t] # "proof_root" /\ pc[t] # "feed_mmr"
  BY <1>2 DEF HoldLeaves, Writers
<1>4. holder \in [Mutexes -> Threads \cup {NoThread}] /\ holder["tree_levels"] # t /\ holder["mmr"] # t
  BY <1>3, Zenon DEF Locks
<1>5. /\ holder' \in [Mutexes -> Threads \cup {NoThread}]
      /\ holder'["leaves"] = t /\ holder'["tree_levels"] = holder["tree_levels"]
      /\ holder'["mmr"] = holder["mmr"]
  BY <1>4 DEF Mutexes
<1>6. Moves("leaves", t, step, HoldLeaves)
  BY <1>1, <1>2, <1>5, Zenon DEF Moves
<1>7. Moves("tree_levels", t, step, {"proof_root"}) /\ Moves("mmr", t, step, {"feed_mmr"})
  BY <1>1, <1>4, <1>5, Zenon DEF Moves
<1>8. Locks'
  BY <1>5, <1>6, <1>7, LocksKept, Zenon
<1>9. phase \notin Writers /\ phase' = step
  BY <1>5, FreePhase, TakenPhase, Zenon
<1> QED
  BY <1>1, <1>8, <1>9, Quiet, Zenon

(* Where a reader holds the leaves mutex and waits for another.            *)
Waiters == {"lock_levels", "metadata_mmr"}

LEMMA DropsLeaves ==
  ASSUME Locks, Fields, NEW t \in Threads, NEW step,
         pc[t] \in Waiters, step \notin HoldLeaves,
         pc' = [pc EXCEPT ![t] = step],
         DOMAIN local' = Threads, DOMAIN since' = Threads,
         holder' = [holder EXCEPT !["leaves"] = NoThread],
         UNCHANGED fields
  PROVE  Locks' /\ Fields' /\ Later
<1>1. /\ pc[t] \in HoldLeaves /\ pc[t] # "proof_root" /\ pc[t] # "feed_mmr" /\ pc[t] \notin Writers
      /\ step # "proof_root" /\ step # "feed_mmr"
  BY DEF HoldLeaves, Writers, Waiters
<1>2. /\ holder \in [Mutexes -> Threads \cup {NoThread}]
      /\ holder["leaves"] = t /\ holder["tree_levels"] # t /\ holder["mmr"] # t
  BY <1>1, Zenon DEF Locks
<1>3. /\ holder' \in [Mutexes -> Threads \cup {NoThread}]
      /\ holder'["leaves"] = NoThread /\ holder'["tree_levels"] = holder["tree_levels"]
      /\ holder'["mmr"] = holder["mmr"]
  BY <1>2 DEF Mutexes
<1>4. Moves("leaves", t, step, HoldLeaves)
  BY <1>2, <1>3, Zenon DEF Moves
<1>5. Moves("tree_levels", t, step, {"proof_root"}) /\ Moves("mmr", t, step, {"feed_mmr"})
  BY <1>1, <1>2, <1>3, Zenon DEF Moves
<1>6. Locks'
  BY <1>3, <1>4, <1>5, LocksKept, Zenon
<1>7. phase \notin Writers /\ phase' \notin Writers
  BY <1>1, <1>3, HolderPhase, DroppedPhase, Zenon
<1> QED
  BY <1>6, <1>7, Quiet, Zenon

-----------------------------------------------------------------------------
(* Updates.                                                                *)

LEMMA OneLess == ASSUME NEW a \in Nat \ {0}, NEW b \in Nat, b - 1 = a PROVE a \in 1..b
OBVIOUS

(* A thread takes the free leaves mutex and appends a batch.               *)
LEMMA Appends ==
  ASSUME StateInv, NEW t \in Threads, NEW batch \in Batches, NEW value,
         Free("leaves"),
         value.kind = "update" => value.batch = batch,
         holder' = [holder EXCEPT !["leaves"] = t],
         leaves' = leaves \o batch,
         versions' = Append(versions, leaves \o batch),
         Keep(t, value), Goto(t, "set_root"),
         UNCHANGED <<state_root, tree_levels, mmr>>,
         Called(t)
  PROVE  StateInv'
<1>1. Locks /\ Fields
  BY Zenon DEF StateInv
<1>2. /\ pc' = [pc EXCEPT ![t] = "set_root"] /\ pc'[t] = "set_root"
      /\ DOMAIN local' = Threads /\ DOMAIN since' = Threads
      /\ Others(t) /\ UNCHANGED <<reply, asked>>
  BY <1>1, WentOn, Zenon
<1>3. /\ "set_root" \in HoldLeaves /\ "set_root" # "proof_root" /\ "set_root" # "feed_mmr"
      /\ "set_root" \in Writers
  BY DEF HoldLeaves, Writers
<1>4. pc[t] \notin HoldLeaves /\ holder["leaves"] = NoThread
  BY <1>1, NoThreadAssumption, Zenon DEF Locks, Free
<1>5. pc[t] # "proof_root" /\ pc[t] # "feed_mmr"
  BY <1>4 DEF HoldLeaves, Writers
<1>6. holder \in [Mutexes -> Threads \cup {NoThread}] /\ holder["tree_levels"] # t /\ holder["mmr"] # t
  BY <1>1, <1>5, Zenon DEF Locks
<1>7. /\ holder' \in [Mutexes -> Threads \cup {NoThread}]
      /\ holder'["leaves"] = t /\ holder'["tree_levels"] = holder["tree_levels"]
      /\ holder'["mmr"] = holder["mmr"]
  BY <1>6 DEF Mutexes
<1>8. Moves("leaves", t, "set_root", HoldLeaves)
  BY <1>3, <1>4, <1>7, Zenon DEF Moves
<1>9. Moves("tree_levels", t, "set_root", {"proof_root"}) /\ Moves("mmr", t, "set_root", {"feed_mmr"})
  BY <1>3, <1>6, <1>7, Zenon DEF Moves
<1>10. Locks'
  BY <1>1, <1>2, <1>7, <1>8, <1>9, LocksKept, Zenon
<1>11. phase \notin Writers /\ phase' = "set_root"
  BY <1>1, <1>2, <1>7, FreePhase, TakenPhase, Zenon
<1>12. batch \in Seq(Txs)
  BY BatchesAssumption, Zenon
<1>13. /\ Fields' /\ Later
       /\ newest' - 1 = newest
       /\ versions'[newest'] = versions'[newest' - 1] \o batch
  BY <1>1, <1>11, <1>12, Extended, Zenon
<1>14. local'[t] = value /\ since'[t] = newest
  BY <1>1, Zenon DEF Keep, Called, Locks, newest
<1>15. since'[t] \in 1..newest'
  <2>1. newest \in Nat \ {0} /\ newest' \in Nat
    BY <1>1, <1>13, FieldsTyped, FieldsStayTyped, Zenon DEF Typed
  <2>2. newest' - 1 = newest /\ since'[t] = newest
    BY <1>13, <1>14, Zenon
  <2> QED
    BY <2>1, <2>2, OneLess, Zenon
<1>16. Extends(t)'
  BY <1>13, <1>14, Zenon DEF Extends
<1>17. InCall(t)'
  BY <1>2, <1>15, <1>16 DEF InCall
<1> QED
  BY <1>2, <1>10, <1>13, <1>17, Together, Zenon

LEMMA UpdateKeeps ==
  ASSUME StateInv, NEW t \in Threads, NEW batch \in Batches, update_state_batch(t, batch)
  PROVE  StateInv'
<1>1. PICK value : value = [kind |-> "update", batch |-> batch]
  BY Zenon
<1>2. value.kind = "update" => value.batch = batch
  BY <1>1
<1>3. /\ Free("leaves") /\ holder' = [holder EXCEPT !["leaves"] = t]
      /\ leaves' = leaves \o batch /\ versions' = Append(versions, leaves \o batch)
      /\ Keep(t, value) /\ Goto(t, "set_root")
      /\ UNCHANGED <<state_root, tree_levels, mmr>> /\ Called(t)
  BY <1>1, Zenon DEF update_state_batch
<1> QED
  BY <1>2, <1>3, Appends, Zenon

(* set_initial_leaves appends to nothing.                                  *)
LEMMA InitialIsAppended ==
  ASSUME Fields, NEW batch \in Batches, versions = <<<<>>>>
  PROVE  leaves = <<>> /\ batch = leaves \o batch
<1>1. newest = 1 /\ versions[1] = <<>>
  BY DEF newest
<1>2. leaves = <<>>
  BY <1>1, Zenon DEF Fields
<1>3. batch \in Seq(Txs)
  BY BatchesAssumption, Zenon
<1> QED
  BY <1>2, <1>3

LEMMA InitialKeeps ==
  ASSUME StateInv, NEW t \in Threads, NEW batch \in Batches, set_initial_leaves(t, batch)
  PROVE  StateInv'
<1>1. PICK value : value = [kind |-> "initial"]
  BY Zenon
<1>2. value.kind = "update" => value.batch = batch
  BY <1>1
<1>3. /\ Free("leaves") /\ holder' = [holder EXCEPT !["leaves"] = t]
      /\ leaves' = batch /\ versions' = Append(versions, batch)
      /\ Keep(t, value) /\ Goto(t, "set_root")
      /\ UNCHANGED <<state_root, tree_levels, mmr>> /\ Called(t)
  BY <1>1, Zenon DEF set_initial_leaves
<1>4. batch = leaves \o batch
  BY InitialIsAppended, Zenon DEF StateInv, set_initial_leaves
<1>5. leaves' = leaves \o batch /\ versions' = Append(versions, leaves \o batch)
  BY <1>3, <1>4, Zenon
<1> QED
  BY <1>2, <1>3, <1>5, Appends, Zenon

(* From one step of an update to the next but the last.                    *)
LEMMA UpdateGoesOn ==
  ASSUME Locks, NEW t \in Threads, NEW step \in {"set_levels", "lock_mmr", "feed_mmr"},
         InCall(t), pc[t] \in Writers \ {"feed_mmr"},
         pc' = [pc EXCEPT ![t] = step],
         UNCHANGED <<local, since, versions>>,
         \/ step # "feed_mmr" /\ UNCHANGED holder
         \/ step = "feed_mmr" /\ Free("mmr") /\ holder' = [holder EXCEPT !["mmr"] = t]
  PROVE  Locks' /\ phase = pc[t] /\ phase' = step /\ InCall(t)'
<1>1. pc[t] \in HoldLeaves /\ pc[t] # "feed_mmr" /\ pc[t] # "proof_root" /\ pc[t] # "idle"
      /\ pc[t] \in Writers
      /\ step \in HoldLeaves /\ step \in Writers /\ step # "proof_root"
  BY DEF HoldLeaves, Writers
<1>2. /\ holder \in [Mutexes -> Threads \cup {NoThread}]
      /\ holder["leaves"] = t /\ holder["tree_levels"] # t /\ holder["mmr"] # t
      /\ DOMAIN local' = Threads /\ DOMAIN since' = Threads
  BY <1>1, Zenon DEF Locks
<1>3. /\ holder' \in [Mutexes -> Threads \cup {NoThread}]
      /\ holder'["leaves"] = t /\ holder'["tree_levels"] = holder["tree_levels"]
      /\ \/ step # "feed_mmr" /\ holder'["mmr"] = holder["mmr"]
         \/ step = "feed_mmr" /\ holder'["mmr"] = t /\ holder["mmr"] = NoThread
  BY <1>2 DEF Mutexes, Free
<1>4. Moves("leaves", t, step, HoldLeaves)
  BY <1>1, <1>2, <1>3, Zenon DEF Moves
<1>5. Moves("tree_levels", t, step, {"proof_root"})
  BY <1>1, <1>2, <1>3, Zenon DEF Moves
<1>6. Moves("mmr", t, step, {"feed_mmr"})
  BY <1>2, <1>3, Zenon DEF Moves
<1>7. Locks'
  BY <1>2, <1>3, <1>4, <1>5, <1>6, LocksKept, Zenon
<1>8. phase = pc[t] /\ phase' = step
  BY <1>1, <1>3, HolderPhase, TakenPhase, Zenon
<1>9. pc'[t] = step
  BY Zenon DEF Locks
<1>10. newest' = newest
  BY Zenon DEF newest
<1>11. Extends(t) /\ since[t] \in 1..newest
  BY <1>1, Zenon DEF InCall
<1>12. Extends(t)' /\ since'[t] \in 1..newest'
  BY <1>10, <1>11, Zenon DEF Extends
<1>13. InCall(t)'
  BY <1>9, <1>12 DEF InCall
<1> QED
  BY <1>7, <1>8, <1>13, Zenon

LEMMA SetRootKeeps ==
  ASSUME StateInv, NEW t \in Threads, SetRoot(t)
  PROVE  StateInv'
<1>1. Locks /\ Fields /\ InCall(t) /\ pc[t] = "set_root"
  BY Zenon DEF StateInv, SetRoot
<1>2. /\ pc' = [pc EXCEPT ![t] = "set_levels"] /\ Others(t) /\ UNCHANGED <<reply, asked>>
  BY <1>1, WentOn, Zenon DEF SetRoot
<1>3. UNCHANGED <<leaves, tree_levels, mmr, holder, local, since, versions>>
      /\ state_root' = merkle_root(leaves)
  BY Zenon DEF SetRoot, Pending
<1>4. pc[t] \in Writers \ {"feed_mmr"} /\ "set_levels" # "feed_mmr"
  BY <1>1 DEF Writers
<1>5. Locks' /\ phase = "set_root" /\ phase' = "set_levels" /\ InCall(t)'
  BY <1>1, <1>2, <1>3, <1>4, UpdateGoesOn, Zenon
<1>6. Fields' /\ Later
  BY <1>1, <1>3, <1>5, RootPublished, Zenon
<1> QED
  BY <1>2, <1>5, <1>6, Together, Zenon

LEMMA SetLevelsKeeps ==
  ASSUME StateInv, NEW t \in Threads, SetLevels(t)
  PROVE  StateInv'
<1>1. Locks /\ Fields /\ InCall(t) /\ pc[t] = "set_levels"
  BY Zenon DEF StateInv, SetLevels
<1>2. /\ pc' = [pc EXCEPT ![t] = "lock_mmr"] /\ Others(t) /\ UNCHANGED <<reply, asked>>
  BY <1>1, WentOn, Zenon DEF SetLevels
<1>3. UNCHANGED <<leaves, state_root, mmr, holder, local, since, versions>>
      /\ tree_levels' = merkle_levels(leaves)
  BY Zenon DEF SetLevels, Pending
<1>4. pc[t] \in Writers \ {"feed_mmr"} /\ "lock_mmr" # "feed_mmr"
  BY <1>1 DEF Writers
<1>5. Locks' /\ phase = "set_levels" /\ phase' = "lock_mmr" /\ InCall(t)'
  BY <1>1, <1>2, <1>3, <1>4, UpdateGoesOn, Zenon
<1>6. Fields' /\ Later
  BY <1>1, <1>3, <1>5, LevelsStored, Zenon
<1> QED
  BY <1>2, <1>5, <1>6, Together, Zenon

LEMMA LockMmrKeeps ==
  ASSUME StateInv, NEW t \in Threads, LockMmr(t)
  PROVE  StateInv'
<1>1. Locks /\ Fields /\ InCall(t) /\ pc[t] = "lock_mmr"
  BY Zenon DEF StateInv, LockMmr
<1>2. UNCHANGED fields /\ UNCHANGED <<local, since, versions>>
      /\ Free("mmr") /\ holder' = [holder EXCEPT !["mmr"] = t]
  BY DEF LockMmr, Pending, fields
<1>3. /\ pc' = [pc EXCEPT ![t] = "feed_mmr"] /\ Others(t) /\ UNCHANGED <<reply, asked>>
  BY <1>1, <1>2, WentOn, Zenon DEF LockMmr
<1>4. pc[t] \in Writers \ {"feed_mmr"}
  BY <1>1 DEF Writers
<1>5. Locks' /\ phase = "lock_mmr" /\ phase' = "feed_mmr" /\ InCall(t)'
  <2>1. PICK step : step = "feed_mmr"
    BY Zenon
  <2>2. step \in {"set_levels", "lock_mmr", "feed_mmr"}
    BY <2>1, Zenon
  <2>3. \/ step # "feed_mmr" /\ UNCHANGED holder
        \/ step = "feed_mmr" /\ Free("mmr") /\ holder' = [holder EXCEPT !["mmr"] = t]
    BY <1>2, <2>1, Zenon
  <2>4. pc' = [pc EXCEPT ![t] = step]
    BY <1>3, <2>1, Zenon
  <2>5. Locks' /\ phase = pc[t] /\ phase' = step /\ InCall(t)'
    BY <1>1, <1>2, <1>4, <2>2, <2>3, <2>4, UpdateGoesOn, Zenon
  <2> QED
    BY <1>1, <2>1, <2>5, Zenon
<1>6. Fields' /\ Later
  BY <1>1, <1>2, <1>5, RangeLocked, Zenon
<1> QED
  BY <1>3, <1>5, <1>6, Together, Zenon

LEMMA FeedMmrDoes ==
  ASSUME StateInv, NEW t \in Threads, FeedMmr(t)
  PROVE  Locks' /\ Fields' /\ Later /\ mmr' = FeedMMR(EmptyMMR, leaves)
<1>1. Locks /\ Fields /\ InCall(t) /\ pc[t] = "feed_mmr" /\ Return(t, Nothing)
  BY Zenon DEF StateInv, FeedMmr
<1>2. /\ pc' = [pc EXCEPT ![t] = "idle"] /\ DOMAIN local' = Threads /\ DOMAIN since' = Threads
  BY <1>1, Returned, Zenon
<1>3. /\ pc[t] \in HoldLeaves /\ pc[t] \in Writers /\ pc[t] # "proof_root"
      /\ "idle" \notin HoldLeaves /\ "idle" # "proof_root" /\ "idle" # "feed_mmr"
  BY <1>1 DEF HoldLeaves, Writers
<1>4. /\ holder \in [Mutexes -> Threads \cup {NoThread}]
      /\ holder["leaves"] = t /\ holder["tree_levels"] # t /\ holder["mmr"] = t
  BY <1>1, <1>3, Zenon DEF Locks
<1>5. holder' = [holder EXCEPT !["mmr"] = NoThread, !["leaves"] = NoThread]
      /\ UNCHANGED <<leaves, state_root, tree_levels, versions>>
  BY Zenon DEF FeedMmr
<1>6. /\ holder' \in [Mutexes -> Threads \cup {NoThread}]
      /\ holder'["leaves"] = NoThread /\ holder'["tree_levels"] = holder["tree_levels"]
      /\ holder'["mmr"] = NoThread
  BY <1>4, <1>5 DEF Mutexes
<1>7. Moves("leaves", t, "idle", HoldLeaves)
  BY <1>3, <1>4, <1>6, Zenon DEF Moves
<1>8. Moves("tree_levels", t, "idle", {"proof_root"}) /\ Moves("mmr", t, "idle", {"feed_mmr"})
  BY <1>3, <1>4, <1>6, Zenon DEF Moves
<1>9. Locks'
  BY <1>1, <1>2, <1>6, <1>7, <1>8, LocksKept, Zenon
<1>10. phase = "feed_mmr" /\ phase' = "idle"
  BY <1>1, <1>3, <1>6, HolderPhase, DroppedPhase, Zenon
<1>11. PICK batch \in Batches : /\ versions[newest] = versions[newest - 1] \o batch
                                /\ local[t].kind = "update" => local[t].batch = batch
  BY <1>1, <1>3, Zenon DEF InCall, Extends
<1>12. batch \in Seq(Txs)
  BY BatchesAssumption, Zenon
<1>13. mmr' = FeedMMR(mmr, batch) \/ mmr' = FeedMMR(EmptyMMR, leaves)
  BY <1>11, Zenon DEF FeedMmr
<1> QED
  BY <1>1, <1>5, <1>9, <1>10, <1>11, <1>12, <1>13, RangeFed, Zenon

LEMMA FeedMmrKeeps ==
  ASSUME StateInv, NEW t \in Threads, FeedMmr(t)
  PROVE  StateInv'
<1>1. Locks /\ InCall(t) /\ pc[t] = "feed_mmr" /\ Return(t, Nothing)
  BY Zenon DEF StateInv, FeedMmr
<1>2. pc'[t] = "idle" /\ Others(t) /\ reply' = Nothing /\ asked' = since[t]
  BY <1>1, Returned
<1>3. asked' \in Nat \ {0}
  <2>1. since[t] \in 1..newest
    BY <1>1 DEF InCall
  <2> QED
    BY <1>2, <2>1
<1>4. reply'.kind = "nothing"
  BY <1>2 DEF Nothing
<1>5. Answered'
  BY <1>3, <1>4, AnswerGiven
<1> QED
  BY <1>2, <1>5, FeedMmrDoes, NotInCall, Together, Zenon

-----------------------------------------------------------------------------
(* The readers.                                                            *)

LEMMA NoMutexAt ==
  \A step \in {"idle", "absent_root", "get_leaf", "metadata", "assemble", "status_mmr",
               "manifest_lookup", "manifest_root"} :
    step \notin HoldLeaves /\ step \notin Writers
BY DEF HoldLeaves, Writers

(* What the fields are while nobody writes the leaves.                     *)
LEMMA Settled ==
  ASSUME Fields, phase \notin Writers
  PROVE  /\ leaves = versions[newest] /\ leaves \in Seq(Txs)
         /\ state_root = merkle_root(leaves)
         /\ tree_levels = merkle_levels(leaves)
         /\ mmr = FeedMMR(EmptyMMR, leaves)
         /\ rootVersion = newest /\ rangeVersion = newest
         /\ newest \in Nat \ {0}
BY VersionsExist, Zenon DEF Fields

(* A call that goes on holding no mutex.                                   *)
LEMMA ReaderGoesOn ==
  ASSUME StateInv, NEW t \in Threads, NEW step,
         pc[t] \notin HoldLeaves, step \notin HoldLeaves,
         Goto(t, step), (\E value : Keep(t, value)) \/ UNCHANGED local,
         Pending \/ Called(t),
         UNCHANGED <<fields, holder>>
  PROVE  /\ Locks' /\ Fields' /\ Later /\ Others(t) /\ pc'[t] = step
         /\ UNCHANGED <<reply, asked>>
         /\ rootVersion' = rootVersion /\ rangeVersion' = rangeVersion /\ newest' = newest
         /\ UNCHANGED <<leaves, versions, mmr>>
<1>1. Locks /\ Fields
  BY Zenon DEF StateInv
<1>2. /\ pc' = [pc EXCEPT ![t] = step] /\ pc'[t] = step
      /\ DOMAIN local' = Threads /\ DOMAIN since' = Threads
      /\ Others(t) /\ UNCHANGED <<reply, asked>>
  BY <1>1, WentOn, Zenon
<1>3. Locks' /\ Fields' /\ Later
  BY <1>1, <1>2, Bystander, Zenon
<1>4. holder' = holder /\ UNCHANGED <<leaves, versions, mmr>>
  BY DEF fields
<1>5. phase' = phase
  BY <1>1, <1>2, <1>4, OtherPhase, Zenon
<1>6. newest' = newest
  BY <1>4, Zenon DEF newest
<1>7. rootVersion' = rootVersion /\ rangeVersion' = rangeVersion
  BY <1>5, <1>6, Zenon DEF rootVersion, rangeVersion
<1> QED
  BY <1>2, <1>3, <1>4, <1>6, <1>7, Zenon

(* A call that returns holding no mutex.                                   *)
LEMMA ReaderReturns ==
  ASSUME StateInv, NEW t \in Threads, NEW value,
         pc[t] \notin HoldLeaves, Return(t, value), UNCHANGED <<fields, holder>>
  PROVE  /\ Locks' /\ Fields' /\ Later /\ Others(t) /\ InCall(t)'
         /\ UNCHANGED versions /\ newest' = newest
         /\ reply' = value
         /\ asked' = (IF pc[t] = "idle" THEN newest ELSE since[t])
         /\ asked' \in 1..newest /\ asked' \in Nat \ {0}
<1>1. Locks /\ Fields /\ InCall(t)
  BY Zenon DEF StateInv
<1>2. /\ pc' = [pc EXCEPT ![t] = "idle"] /\ pc'[t] = "idle"
      /\ DOMAIN local' = Threads /\ DOMAIN since' = Threads
      /\ Others(t) /\ reply' = value
      /\ asked' = (IF pc[t] = "idle" THEN newest ELSE since[t])
  BY <1>1, Returned, Zenon
<1>3. Locks' /\ Fields' /\ Later
  BY <1>1, <1>2, NoMutexAt, Bystander, Zenon
<1>4. UNCHANGED versions
  BY DEF fields
<1>5. newest' = newest
  BY <1>4, Zenon DEF newest
<1>6. newest \in Nat \ {0}
  BY <1>1, FieldsTyped, Zenon DEF Typed
<1>7. newest \in 1..newest
  BY <1>6
<1>8. asked' \in 1..newest
  BY <1>1, <1>2, <1>7, Zenon DEF InCall
<1>9. asked' \in Nat \ {0}
  BY <1>6, <1>8
<1> QED
  BY <1>2, <1>3, <1>4, <1>5, <1>8, <1>9, NotInCall, Zenon

LEMMA GenerateProofKeeps ==
  ASSUME StateInv, NEW t \in Threads, NEW key, generate_proof(t, key)
  PROVE  StateInv'
<1>1. Locks /\ Fields
  BY Zenon DEF StateInv
<1>2. /\ pc' = [pc EXCEPT ![t] = "lock_levels"] /\ pc'[t] = "lock_levels"
      /\ DOMAIN local' = Threads /\ DOMAIN since' = Threads
      /\ Others(t) /\ UNCHANGED <<reply, asked>>
  BY <1>1, WentOn, Zenon DEF generate_proof
<1>3. Locks' /\ Fields' /\ Later
  <2>1. "lock_levels" \in {"lock_levels", "metadata_mmr"}
    BY Zenon
  <2>2. Free("leaves") /\ holder' = [holder EXCEPT !["leaves"] = t] /\ UNCHANGED fields
    BY Zenon DEF generate_proof
  <2> QED
    BY <1>1, <1>2, <2>1, <2>2, TakesLeaves, Zenon
<1>4. since'[t] = newest /\ newest' = newest
  <2>1. since' = [since EXCEPT ![t] = newest] /\ UNCHANGED versions
    BY DEF generate_proof, Called, newest, fields
  <2> QED
    BY <1>1, <2>1, Zenon DEF Locks, newest
<1>5. newest \in Nat \ {0}
  BY <1>1, FieldsTyped, Zenon DEF Typed
<1>6. since'[t] \in 1..newest'
  BY <1>4, <1>5
<1>7. InCall(t)'
  BY <1>2, <1>6 DEF InCall, Writers
<1> QED
  BY <1>2, <1>3, <1>7, Together, Zenon

LEMMA FindPathKeeps ==
  ASSUME StateInv, NEW t \in Threads, FindPath(t)
  PROVE  StateInv'
<1>1. Locks /\ Fields /\ InCall(t) /\ pc[t] = "lock_levels" /\ Free("tree_levels")
  BY Zenon DEF StateInv, FindPath
<1>2. /\ pc[t] \in HoldLeaves /\ pc[t] \notin Writers /\ pc[t] \in Waiters
      /\ pc[t] # "idle" /\ pc[t] # "proof_root" /\ pc[t] # "feed_mmr"
  BY <1>1 DEF HoldLeaves, Writers, Waiters
<1>3. phase = "lock_levels" /\ phase \notin Writers
  BY <1>1, <1>2, HolderPhase, Zenon
<1>4. /\ leaves = versions[newest] /\ leaves \in Seq(Txs) /\ tree_levels = merkle_levels(leaves)
      /\ rootVersion = newest /\ newest \in Nat \ {0}
  BY <1>1, <1>3, Settled, Zenon
<1>5. UNCHANGED fields /\ Pending /\ UNCHANGED <<leaves, versions>> /\ UNCHANGED since
  BY DEF FindPath, fields, Pending
<1>6. newest' = newest /\ since[t] \in 1..newest /\ since'[t] = since[t]
  BY <1>1, <1>2, <1>5, Zenon DEF newest, InCall
<1> DEFINE key == local[t].key
           index == position(leaves, key)
<1>7. CASE index = NoIndex \/ tree_levels = <<>>
  <2>1. /\ holder' = [holder EXCEPT !["leaves"] = NoThread]
        /\ Goto(t, "absent_root") /\ UNCHANGED local
    BY <1>7, Zenon DEF FindPath
  <2>2. /\ pc' = [pc EXCEPT ![t] = "absent_root"] /\ pc'[t] = "absent_root"
        /\ DOMAIN local' = Threads /\ DOMAIN since' = Threads
        /\ Others(t) /\ UNCHANGED <<reply, asked>>
    BY <1>1, <1>5, <2>1, WentOn, Zenon
  <2>3. Locks' /\ Fields' /\ Later
    <3>1. "absent_root" \notin HoldLeaves
      BY NoMutexAt, Zenon
    <3>2. /\ Locks /\ Fields /\ pc[t] \in Waiters /\ UNCHANGED fields
          /\ holder' = [holder EXCEPT !["leaves"] = NoThread]
      BY <1>1, <1>2, <1>5, <2>1, Zenon
    <3>3. PICK step : step = "absent_root"
      BY Zenon
    <3>4. /\ step \notin HoldLeaves /\ pc' = [pc EXCEPT ![t] = step]
          /\ DOMAIN local' = Threads /\ DOMAIN since' = Threads
      BY <2>2, <3>1, <3>3, Zenon
    <3> QED
      BY <3>2, <3>4, DropsLeaves, Zenon
  <2>4. \A i \in DOMAIN versions[newest] : versions[newest][i] # key
    <3>1. DOMAIN leaves = 1..Len(leaves) /\ Len(leaves) \in Nat
      BY <1>4
    <3>2. CASE index = NoIndex
      <4>1. \A i \in 1..Len(leaves) : leaves[i] # key
        <5>1. PICK txs : txs = leaves
          BY Zenon
        <5>2. position(txs, key) = NoIndex /\ Len(txs) \in Nat
          BY <3>1, <3>2, <5>1, Zenon
        <5>3. \A i \in 1..Len(txs) : txs[i] # key
          BY <5>2, PositionIs, Zenon
        <5> QED
          BY <5>1, <5>3, Zenon
      <4> QED
        BY <1>4, <3>1, <4>1, Zenon
    <3>3. CASE tree_levels = <<>>
      <4>1. leaves = <<>>
        <5>1. leaves # <<>> => Len(leaves) \in Nat \ {0}
          BY <1>4
        <5> QED
          BY <1>4, <3>3, <5>1, TreeOfSome, Zenon
      <4>2. 1..Len(leaves) = {}
        BY <4>1
      <4> QED
        BY <1>4, <3>1, <4>2, Zenon
    <3> QED
      BY <1>7, <3>2, <3>3, Zenon
  <2>5. phase' = "idle" /\ rootVersion' = newest
    <3>1. holder'["leaves"] = NoThread
      BY <1>1, <2>1 DEF Locks, Mutexes
    <3>2. phase' = "idle"
      BY <3>1, DroppedPhase, Zenon
    <3> QED
      BY <1>6, <3>2 DEF rootVersion
  <2>6. newest \in since'[t]..rootVersion'
    BY <1>4, <1>6, <2>5
  <2>7. AbsenceSeen(t)'
    BY <1>5, <2>1, <2>4, <2>6, Zenon DEF AbsenceSeen
  <2>8. InCall(t)'
    BY <1>6, <2>2, <2>7 DEF InCall, Writers
  <2> QED
    BY <2>2, <2>3, <2>8, Together, Zenon
<1>8. CASE ~(index = NoIndex \/ tree_levels = <<>>)
  <2>1. PICK value : value = [kind |-> "path", key |-> key, path |-> merkle_path(tree_levels, index)]
    BY Zenon
  <2>2. /\ holder' = [holder EXCEPT !["tree_levels"] = t]
        /\ Goto(t, "proof_root") /\ Keep(t, value)
    BY <1>8, <2>1, Zenon DEF FindPath
  <2>3. /\ pc' = [pc EXCEPT ![t] = "proof_root"] /\ pc'[t] = "proof_root"
        /\ DOMAIN local' = Threads /\ DOMAIN since' = Threads
        /\ Others(t) /\ UNCHANGED <<reply, asked>>
    BY <1>1, <1>5, <2>2, WentOn, Zenon
  <2>4. /\ holder \in [Mutexes -> Threads \cup {NoThread}]
        /\ holder["leaves"] = t /\ holder["tree_levels"] = NoThread /\ holder["mmr"] # t
    BY <1>1, <1>2, Zenon DEF Locks, Free
  <2>5. /\ holder' \in [Mutexes -> Threads \cup {NoThread}]
        /\ holder'["leaves"] = t /\ holder'["tree_levels"] = t /\ holder'["mmr"] = holder["mmr"]
    BY <2>2, <2>4 DEF Mutexes
  <2>6. "proof_root" \in HoldLeaves /\ "proof_root" # "feed_mmr" /\ "proof_root" \notin Writers
    BY DEF HoldLeaves, Writers
  <2>7. Moves("leaves", t, "proof_root", HoldLeaves)
    BY <2>4, <2>5, <2>6, Zenon DEF Moves
  <2>8. Moves("tree_levels", t, "proof_root", {"proof_root"})
        /\ Moves("mmr", t, "proof_root", {"feed_mmr"})
    BY <2>4, <2>5, <2>6, Zenon DEF Moves
  <2>9. Locks'
    BY <1>1, <2>3, <2>5, <2>7, <2>8, LocksKept, Zenon
  <2>10. phase' = "proof_root"
    BY <1>1, <2>3, <2>5, TakenPhase, Zenon
  <2>11. Fields' /\ Later
    BY <1>1, <1>3, <1>5, <2>6, <2>10, Quiet, Zenon
  <2>12. local'[t] = value
    BY <1>1, <2>2, Zenon DEF Keep, Locks
  <2>13. local'[t].key = key /\ local'[t].path = merkle_path(tree_levels, index)
    BY <2>1, <2>12
  <2>14. PathRead(t)'
    BY <1>4, <1>5, <1>8, <2>13, Zenon DEF PathRead
  <2>15. InCall(t)'
    BY <1>6, <2>3, <2>14 DEF InCall, Writers
  <2> QED
    BY <2>3, <2>9, <2>11, <2>15, Together, Zenon
<1> QED
  BY <1>7, <1>8, Zenon

(* The proof is put together under both mutexes, of the newest leaves.     *)
LEMMA ProofRootKeeps ==
  ASSUME StateInv, NEW t \in Threads, ProofRoot(t)
  PROVE  StateInv'
<1>1. Locks /\ Fields /\ InCall(t) /\ pc[t] = "proof_root"
  BY Zenon DEF StateInv, ProofRoot
<1>2. PICK value : value = [kind |-> "merkle", leaf |-> local[t].key,
                            path |-> local[t].path, root |-> state_root]
  BY Zenon
<1>3. /\ Return(t, value) /\ UNCHANGED fields
      /\ holder' = [holder EXCEPT !["tree_levels"] = NoThread, !["leaves"] = NoThread]
  BY <1>2, Zenon DEF ProofRoot
<1>4. /\ pc' = [pc EXCEPT ![t] = "idle"] /\ pc'[t] = "idle"
      /\ DOMAIN local' = Threads /\ DOMAIN since' = Threads
      /\ Others(t) /\ reply' = value /\ asked' = since[t]
  <2>1. pc[t] # "idle"
    BY <1>1
  <2> QED
    BY <1>1, <1>3, <2>1, Returned, Zenon
<1>5. /\ pc[t] \in HoldLeaves /\ pc[t] \notin Writers /\ pc[t] # "feed_mmr" /\ pc[t] # "idle"
      /\ "idle" \notin HoldLeaves /\ "idle" # "proof_root" /\ "idle" # "feed_mmr"
  BY <1>1 DEF HoldLeaves, Writers
<1>6. /\ holder \in [Mutexes -> Threads \cup {NoThread}]
      /\ holder["leaves"] = t /\ holder["tree_levels"] = t /\ holder["mmr"] # t
  BY <1>1, <1>5, Zenon DEF Locks
<1>7. /\ holder' \in [Mutexes -> Threads \cup {NoThread}]
      /\ holder'["leaves"] = NoThread /\ holder'["tree_levels"] = NoThread
      /\ holder'["mmr"] = holder["mmr"]
  BY <1>3, <1>6 DEF Mutexes
<1>8. Moves("leaves", t, "idle", HoldLeaves)
  BY <1>5, <1>6, <1>7, Zenon DEF Moves
<1>9. Moves("tree_levels", t, "idle", {"proof_root"}) /\ Moves("mmr", t, "idle", {"feed_mmr"})
  BY <1>5, <1>6, <1>7, Zenon DEF Moves
<1>10. Locks'
  BY <1>1, <1>4, <1>7, <1>8, <1>9, LocksKept, Zenon
<1>11. phase \notin Writers /\ phase' \notin Writers
  BY <1>1, <1>5, <1>7, HolderPhase, DroppedPhase, Zenon
<1>12. Fields' /\ Later
  BY <1>1, <1>3, <1>11, Quiet, Zenon
<1>13. /\ leaves = versions[newest] /\ leaves \in Seq(Txs) /\ state_root = merkle_root(leaves)
       /\ newest \in Nat \ {0}
  BY <1>1, <1>11, Settled, Zenon
<1> DEFINE key == local[t].key
           index == position(leaves, key)
<1>14. index # NoIndex /\ local[t].path = merkle_path(merkle_levels(leaves), index)
  BY <1>1, Zenon DEF InCall, PathRead
<1>15. index \in 0..(Len(leaves) - 1) /\ leaves[index + 1] = key
  <2>1. Len(leaves) \in Nat
    BY <1>13
  <2> QED
    BY <1>14, <2>1, PositionIs, Zenon
<1>16. value = ProofOf(leaves, key)
  BY <1>2, <1>13, <1>14, Zenon DEF ProofOf
<1>17. verify_merkle_proof(value)
  <2>1. value.leaf = leaves[index + 1] /\ value.root = merkle_root(leaves)
        /\ value.path = merkle_path(merkle_levels(leaves), index)
    BY <1>2, <1>13, <1>14, <1>15
  <2> QED
    BY <1>13, <1>15, <2>1, PathsLeadToTheRoot, Zenon
<1>18. value.kind = "merkle" /\ value.leaf = key
  BY <1>2
<1>19. UNCHANGED versions /\ since[t] \in 1..newest
  BY <1>1, <1>3, <1>5 DEF fields, InCall
<1>20. newest' = newest /\ newest \in asked'..newest' /\ asked' \in Nat \ {0}
  <2>1. newest' = newest
    BY <1>19, Zenon DEF newest
  <2> QED
    BY <1>4, <1>13, <1>19, <2>1
<1>21. ProofsAreOfOneVersion'
  <2>1. /\ position(versions'[newest], reply'.leaf) # NoIndex
        /\ reply' = ProofOf(versions'[newest], reply'.leaf)
    BY <1>4, <1>13, <1>14, <1>16, <1>18, <1>19, Zenon
  <2> QED
    BY <1>4, <1>17, <1>20, <2>1, Zenon DEF ProofsAreOfOneVersion, SinceAsked, newest
<1>22. Answered'
  BY <1>4, <1>18, <1>20, <1>21, AnswerGiven
<1> QED
  BY <1>4, <1>10, <1>12, <1>22, NotInCall, Together, Zenon

LEMMA AbsentRootKeeps ==
  ASSUME StateInv, NEW t \in Threads, AbsentRoot(t)
  PROVE  StateInv'
<1>1. Fields /\ InCall(t) /\ pc[t] = "absent_root"
  BY Zenon DEF StateInv, AbsentRoot
<1>2. PICK value : value = [kind |-> "absent", leaf |-> local[t].key, root |-> state_root]
  BY Zenon
<1>3. Return(t, value) /\ UNCHANGED <<fields, holder>> /\ pc[t] \notin HoldLeaves
  BY <1>1, <1>2, NoMutexAt, Zenon DEF AbsentRoot
<1>4. /\ Locks' /\ Fields' /\ Later /\ Others(t) /\ InCall(t)'
      /\ UNCHANGED versions /\ newest' = newest /\ reply' = value
      /\ asked' \in 1..newest /\ asked' \in Nat \ {0}
  BY <1>3, ReaderReturns, Zenon
<1>5. asked' = since[t]
  BY <1>1, <1>3, ReaderReturns
<1>6. PICK v \in since[t]..rootVersion :
        \A i \in DOMAIN versions[v] : versions[v][i] # local[t].key
  BY <1>1, Zenon DEF InCall, AbsenceSeen
<1>7. rootVersion \in 1..newest /\ newest \in Nat /\ state_root = merkle_root(versions[rootVersion])
  BY <1>1, FieldsTyped DEF Typed, Fields
<1>8. v \in asked'..newest' /\ rootVersion \in v..newest'
  <2>1. asked' \in Int
    BY <1>4
  <2> QED
    BY <1>4, <1>5, <1>6, <1>7, <2>1
<1>9. value.kind = "absent" /\ value.leaf = local[t].key /\ value.root = state_root
  BY <1>2
<1>10. AbsenceIsNotStale'
  <2>1. \A i \in DOMAIN versions'[v] : versions'[v][i] # reply'.leaf
    BY <1>4, <1>6, <1>9, Zenon
  <2>2. reply'.root = merkle_root(versions'[rootVersion])
    BY <1>4, <1>7, <1>9, Zenon
  <2> QED
    BY <1>8, <2>1, <2>2, Zenon DEF AbsenceIsNotStale, SinceAsked, newest
<1>11. Answered'
  BY <1>4, <1>9, <1>10, AnswerGiven
<1> QED
  BY <1>4, <1>11, Together, Zenon

(* A call answers that it found nothing.                                   *)
LEMMA OtherAnswerKeeps ==
  ASSUME StateInv, NEW t \in Threads, NEW value, pc[t] \notin HoldLeaves,
         value.kind \in {"not_found", "failed"},
         Return(t, value), UNCHANGED <<fields, holder>>
  PROVE  StateInv'
<1>1. /\ Locks' /\ Fields' /\ Later /\ Others(t) /\ InCall(t)'
      /\ reply' = value /\ asked' \in Nat \ {0}
  BY ReaderReturns, Zenon
<1>2. Answered'
  BY <1>1, AnswerGiven
<1> QED
  BY <1>1, <1>2, Together, Zenon

(* A call begins that holds no mutex.                                      *)
LEMMA ReaderBegins ==
  ASSUME StateInv, NEW t \in Threads, NEW step, NEW value, pc[t] = "idle",
         step \notin HoldLeaves,
         Goto(t, step), Keep(t, value), Called(t), UNCHANGED <<fields, holder>>
  PROVE  /\ Locks' /\ Fields' /\ Later /\ Others(t) /\ pc'[t] = step
         /\ UNCHANGED <<reply, asked>>
         /\ rootVersion' = rootVersion /\ rangeVersion' = rangeVersion /\ newest' = newest
         /\ UNCHANGED <<leaves, versions, mmr>>
         /\ local'[t] = value /\ since'[t] = newest /\ since'[t] \in 1..newest'
<1>1. pc[t] \notin HoldLeaves
  BY NoMutexAt, Zenon
<1>2. /\ Locks' /\ Fields' /\ Later /\ Others(t) /\ pc'[t] = step
      /\ UNCHANGED <<reply, asked>>
      /\ rootVersion' = rootVersion /\ rangeVersion' = rangeVersion /\ newest' = newest
      /\ UNCHANGED <<leaves, versions, mmr>>
  BY <1>1, ReaderGoesOn, Zenon
<1>3. local'[t] = value /\ since'[t] = newest
  BY Zenon DEF StateInv, Locks, Keep, Called, newest
<1>4. newest \in Nat \ {0}
  BY FieldsTyped, Zenon DEF StateInv, Typed
<1>5. newest \in 1..newest
  BY <1>4
<1> QED
  BY <1>2, <1>3, <1>5, Zenon

LEMMA ByTxKeeps ==
  ASSUME StateInv, NEW t \in Threads, NEW tx, get_mmr_proof_by_tx(t, tx)
  PROVE  StateInv'
<1>1. pc[t] = "idle" /\ Free("leaves") /\ UNCHANGED <<fields, holder>>
  BY Zenon DEF get_mmr_proof_by_tx
<1>2. CASE position(leaves, tx) = NoIndex
  <2>1. PICK value : value = [kind |-> "not_found"]
    BY Zenon
  <2>2. Return(t, value) /\ pc[t] \notin HoldLeaves
    BY <1>1, <1>2, <2>1, NoMutexAt, Zenon DEF get_mmr_proof_by_tx
  <2>3. value.kind \in {"not_found", "failed"}
    BY <2>1
  <2> QED
    BY <1>1, <2>2, <2>3, OtherAnswerKeeps, Zenon
<1>3. CASE position(leaves, tx) # NoIndex
  <2>1. PICK index : index = position(leaves, tx)
    BY Zenon
  <2>2. PICK value : value = [kind |-> "index", index |-> index]
    BY Zenon
  <2>3. Keep(t, value) /\ Goto(t, "get_leaf") /\ Called(t)
    BY <1>3, <2>1, <2>2, Zenon DEF get_mmr_proof_by_tx
  <2>4. "get_leaf" \notin HoldLeaves
    BY NoMutexAt, Zenon
  <2>5. /\ Locks' /\ Fields' /\ Later /\ Others(t) /\ pc'[t] = "get_leaf"
        /\ UNCHANGED <<reply, asked>> /\ local'[t] = value /\ since'[t] \in 1..newest'
    BY <1>1, <2>3, <2>4, ReaderBegins, Zenon
  <2>6. index \in Nat
    <3>1. Len(leaves) \in Nat
      BY FieldsTyped, Zenon DEF StateInv, Typed
    <3>2. index \in 0..(Len(leaves) - 1)
      BY <1>3, <2>1, <3>1, PositionIs, Zenon
    <3> QED
      BY <3>1, <3>2
  <2>7. local'[t].index \in Nat
    BY <2>2, <2>5, <2>6
  <2>8. InCall(t)'
    BY <2>5, <2>7 DEF InCall, Writers
  <2> QED
    BY <2>5, <2>8, Together, Zenon
<1> QED
  BY <1>2, <1>3, Zenon

LEMMA ByIndexKeeps ==
  ASSUME StateInv, NEW t \in Threads, NEW index \in 0..MaxLeaves,
         get_mmr_proof_by_index(t, index)
  PROVE  StateInv'
<1>1. PICK value : value = [kind |-> "index", index |-> index]
  BY Zenon
<1>2. /\ pc[t] = "idle" /\ UNCHANGED <<fields, holder>>
      /\ Keep(t, value) /\ Goto(t, "get_leaf") /\ Called(t)
  BY <1>1, Zenon DEF get_mmr_proof_by_index
<1>3. "get_leaf" \notin HoldLeaves
  BY NoMutexAt, Zenon
<1>4. /\ Locks' /\ Fields' /\ Later /\ Others(t) /\ pc'[t] = "get_leaf"
      /\ UNCHANGED <<reply, asked>> /\ local'[t] = value /\ since'[t] \in 1..newest'
  BY <1>2, <1>3, ReaderBegins, Zenon
<1>5. index \in Nat
  OBVIOUS
<1>6. local'[t].index \in Nat
  BY <1>1, <1>4, <1>5
<1>7. InCall(t)'
  BY <1>4, <1>6 DEF InCall, Writers
<1> QED
  BY <1>4, <1>7, Together, Zenon

LEMMA GetLeafKeeps ==
  ASSUME StateInv, NEW t \in Threads, GetLeaf(t)
  PROVE  StateInv'
<1>1. /\ InCall(t) /\ pc[t] = "get_leaf" /\ pc[t] \notin HoldLeaves
      /\ UNCHANGED <<fields, holder>>
  BY NoMutexAt, Zenon DEF StateInv, GetLeaf
<1>2. PICK i \in Nat : i = local[t].index
  BY <1>1, Zenon DEF InCall
<1>3. CASE i >= Len(leaves)
  <2>1. PICK value : value = [kind |-> "failed"]
    BY Zenon
  <2>2. Return(t, value)
    BY <1>2, <1>3, <2>1, Zenon DEF GetLeaf
  <2>3. value.kind \in {"not_found", "failed"}
    BY <2>1
  <2> QED
    BY <1>1, <2>2, <2>3, OtherAnswerKeeps, Zenon
<1>4. CASE ~(i >= Len(leaves))
  <2>1. PICK value : value = [kind |-> "leaf", index |-> i, leaf |-> leaves[i + 1]]
    BY Zenon
  <2>2. Keep(t, value) /\ Goto(t, "metadata") /\ Pending
    BY <1>2, <1>4, <2>1, Zenon DEF GetLeaf
  <2>3. "metadata" \notin HoldLeaves
    BY NoMutexAt, Zenon
  <2>4. /\ Locks' /\ Fields' /\ Later /\ Others(t) /\ pc'[t] = "metadata"
        /\ UNCHANGED <<reply, asked>> /\ newest' = newest /\ UNCHANGED <<leaves, versions>>
    BY <1>1, <2>2, <2>3, ReaderGoesOn, Zenon
  <2>5. local'[t] = value /\ since'[t] = since[t]
    BY <2>2, Zenon DEF StateInv, Locks, Keep, Pending
  <2>6. i \in 0..(Len(leaves) - 1)
    <3>1. Len(leaves) \in Nat
      BY FieldsTyped, Zenon DEF StateInv, Typed
    <3> QED
      BY <1>4, <3>1
  <2>7. local'[t].index = i /\ local'[t].leaf = leaves[i + 1]
    BY <2>1, <2>5
  <2>8. LeafRead(t)'
    BY <2>4, <2>6, <2>7, Zenon DEF LeafRead
  <2>9. since'[t] \in 1..newest'
    BY <1>1, <2>4, <2>5 DEF InCall
  <2>10. InCall(t)'
    BY <2>4, <2>8, <2>9 DEF InCall, Writers
  <2> QED
    BY <2>4, <2>10, Together, Zenon
<1> QED
  BY <1>3, <1>4, Zenon

LEMMA MetadataLeavesKeeps ==
  ASSUME StateInv, NEW t \in Threads, MetadataLeaves(t)
  PROVE  StateInv'
<1>1. Locks /\ Fields /\ InCall(t) /\ pc[t] = "metadata"
  BY Zenon DEF StateInv, MetadataLeaves
<1>2. /\ Free("leaves") /\ holder' = [holder EXCEPT !["leaves"] = t] /\ UNCHANGED fields
      /\ UNCHANGED local /\ UNCHANGED since /\ UNCHANGED leaves /\ UNCHANGED versions
      /\ Goto(t, "metadata_mmr") /\ Pending
  BY DEF MetadataLeaves, fields, Pending
<1>3. /\ pc' = [pc EXCEPT ![t] = "metadata_mmr"] /\ pc'[t] = "metadata_mmr"
      /\ DOMAIN local' = Threads /\ DOMAIN since' = Threads
      /\ Others(t) /\ UNCHANGED <<reply, asked>>
  BY <1>1, <1>2, WentOn, Zenon
<1>4. Locks' /\ Fields' /\ Later
  <2>1. "metadata_mmr" \in {"lock_levels", "metadata_mmr"}
    BY Zenon
  <2> QED
    BY <1>1, <1>2, <1>3, <2>1, TakesLeaves, Zenon
<1>5. LeafRead(t) /\ since[t] \in 1..newest /\ newest' = newest
  BY <1>1, <1>2 DEF InCall, newest
<1>6. LeafRead(t)' /\ since'[t] \in 1..newest'
  BY <1>2, <1>5, Zenon DEF LeafRead
<1>7. InCall(t)'
  BY <1>3, <1>6 DEF InCall, Writers
<1> QED
  BY <1>3, <1>4, <1>7, Together, Zenon

(* The position is that of the leaf in the Mountain Range of the newest    *)
(* leaves: the thread holds the leaves mutex, so nobody is updating them.  *)
LEMMA MetadataMmrKeeps ==
  ASSUME StateInv, NEW t \in Threads, MetadataMmr(t)
  PROVE  StateInv'
<1>1. Locks /\ Fields /\ InCall(t) /\ pc[t] = "metadata_mmr"
  BY Zenon DEF StateInv, MetadataMmr
<1>2. /\ pc[t] \in Waiters /\ pc[t] \in HoldLeaves /\ pc[t] \notin Writers /\ pc[t] # "idle"
  BY <1>1 DEF HoldLeaves, Writers, Waiters
<1>3. holder' = [holder EXCEPT !["leaves"] = NoThread] /\ UNCHANGED fields
  BY Zenon DEF MetadataMmr
<1>4. phase \notin Writers
  BY <1>1, <1>2, HolderPhase, Zenon
<1>5. /\ leaves = versions[newest] /\ leaves \in Seq(Txs) /\ rangeVersion = newest
      /\ newest \in Nat \ {0}
  BY <1>1, <1>4, Settled, Zenon
<1>6. LeafRead(t) /\ since[t] \in 1..newest
  BY <1>1, <1>2 DEF InCall
<1>7. PICK i : i = local[t].index
  BY Zenon
<1>8. i \in 0..(Len(leaves) - 1) /\ local[t].leaf = leaves[i + 1]
  BY <1>6, <1>7, Zenon DEF LeafRead
<1>9. i \in Nat /\ ~(i >= Len(leaves))
  BY <1>5, <1>8
<1>10. PICK pos : pos = get_mmr_node_pos(i)
  BY Zenon
<1>11. pos \in Int
  <2>1. CountOnes[i] \in Nat
    BY <1>9, CountOnesNat, Zenon
  <2> QED
    BY <1>9, <1>10, <2>1 DEF get_mmr_node_pos
<1>12. mmr.node_count \in Nat
  BY <1>1, NodesCounted, Zenon
<1>13. CASE pos >= mmr.node_count
  <2>1. PICK value : value = [kind |-> "failed"]
    BY Zenon
  <2>2. Return(t, value)
    BY <1>7, <1>10, <1>13, <2>1, Zenon DEF MetadataMmr
  <2>3. /\ pc' = [pc EXCEPT ![t] = "idle"] /\ pc'[t] = "idle"
        /\ DOMAIN local' = Threads /\ DOMAIN since' = Threads
        /\ Others(t) /\ reply' = value /\ asked' = since[t]
    BY <1>1, <1>2, <2>2, Returned, Zenon
  <2>4. Locks' /\ Fields' /\ Later
    BY <1>1, <1>2, <1>3, <2>3, NoMutexAt, DropsLeaves, Zenon
  <2>5. asked' \in Nat \ {0}
    BY <1>6, <2>3
  <2>6. reply'.kind = "failed"
    BY <2>1, <2>3
  <2>7. Answered'
    BY <2>5, <2>6, AnswerGiven
  <2> QED
    BY <2>3, <2>4, <2>7, NotInCall, Together, Zenon
<1>14. CASE ~(pos >= mmr.node_count)
  <2>1. PICK value : value = [kind |-> "position", pos |-> pos, leaf |-> local[t].leaf]
    BY Zenon
  <2>2. Keep(t, value) /\ Goto(t, "assemble") /\ Pending
    BY <1>7, <1>9, <1>10, <1>14, <2>1, Zenon DEF MetadataMmr
  <2>3. /\ pc' = [pc EXCEPT ![t] = "assemble"] /\ pc'[t] = "assemble"
        /\ DOMAIN local' = Threads /\ DOMAIN since' = Threads
        /\ Others(t) /\ UNCHANGED <<reply, asked>>
    BY <1>1, <2>2, WentOn, Zenon
  <2>4. Locks' /\ Fields' /\ Later
    BY <1>1, <1>2, <1>3, <2>3, NoMutexAt, DropsLeaves, Zenon
  <2>5. local'[t] = value /\ since'[t] = since[t]
    BY <1>1, <2>2, Zenon DEF Locks, Keep, Pending
  <2>6. local'[t].pos = pos /\ local'[t].leaf = leaves[i + 1]
    BY <1>8, <2>1, <2>5
  <2>7. UNCHANGED <<leaves, versions, mmr>>
    BY <1>3 DEF fields
  <2>8. newest' = newest /\ rangeVersion' = newest
    <3>1. holder'["leaves"] = NoThread
      BY <1>1, <1>3 DEF Locks, Mutexes
    <3>2. phase' \notin Writers
      BY <3>1, DroppedPhase, Zenon
    <3> QED
      BY <2>7, <3>2, Zenon DEF newest, rangeVersion
  <2>9. pos < mmr.node_count /\ since[t] <= newest
    BY <1>5, <1>6, <1>11, <1>12, <1>14
  <2>10. PlaceRead(t)'
    <3>1. versions'[rangeVersion'] = leaves
      BY <1>5, <2>7, <2>8, Zenon
    <3>2. since'[t] <= rangeVersion' /\ local'[t].pos < mmr'.node_count
      BY <2>5, <2>6, <2>7, <2>8, <2>9, Zenon
    <3>3. leaves[i + 1] = local'[t].leaf /\ get_mmr_node_pos(i) = local'[t].pos
      BY <1>10, <2>6, Zenon
    <3> QED
      BY <1>8, <3>1, <3>2, <3>3, Zenon DEF PlaceRead
  <2>11. since'[t] \in 1..newest'
    BY <1>6, <2>5, <2>8, Zenon
  <2>12. InCall(t)'
    BY <2>3, <2>10, <2>11 DEF InCall, Writers
  <2> QED
    BY <2>3, <2>4, <2>12, Together, Zenon
<1> QED
  BY <1>13, <1>14, Zenon

LEMMA AssembleKeeps ==
  ASSUME StateInv, NEW t \in Threads, assemble_mmr_proof(t)
  PROVE  StateInv'
<1>1. Fields /\ InCall(t) /\ pc[t] = "assemble"
  BY Zenon DEF StateInv, assemble_mmr_proof
<1>2. PICK value : value = [kind |-> "mmr", leaf |-> local[t].leaf, pos |-> local[t].pos,
                            peaks |-> mmr.peaks, root |-> get_root(mmr)]
  BY Zenon
<1>3. Return(t, value) /\ UNCHANGED <<fields, holder>> /\ pc[t] \notin HoldLeaves
  BY <1>1, <1>2, NoMutexAt, Zenon DEF assemble_mmr_proof
<1>4. /\ Locks' /\ Fields' /\ Later /\ Others(t) /\ InCall(t)'
      /\ UNCHANGED versions /\ newest' = newest /\ reply' = value
      /\ asked' \in 1..newest /\ asked' \in Nat \ {0}
  BY <1>3, ReaderReturns, Zenon
<1>5. asked' = since[t]
  BY <1>1, <1>3, ReaderReturns
<1>6. PlaceRead(t)
  BY <1>1, Zenon DEF InCall
<1>7. PICK v : v = rangeVersion
  BY Zenon
<1>8. v \in asked'..newest'
  <2>1. v \in 1..newest /\ newest \in Nat
    BY <1>1, <1>7, FieldsTyped, Zenon DEF Typed
  <2>2. since[t] <= v /\ asked' \in Nat
    BY <1>4, <1>6, <1>7 DEF PlaceRead
  <2> QED
    BY <1>4, <1>5, <2>1, <2>2
<1>9. /\ value.kind = "mmr" /\ value.leaf = local[t].leaf /\ value.pos = local[t].pos
      /\ value.peaks = mmr.peaks /\ value.root = get_root(mmr)
  BY <1>2
<1>10. mmr = FeedMMR(EmptyMMR, versions'[v])
  BY <1>1, <1>4, <1>7, Zenon DEF Fields
<1>11. MmrProofNamesItsLeaf'
  <2>1. \E i \in 0..(Len(versions'[v]) - 1) :
          versions'[v][i + 1] = reply'.leaf /\ get_mmr_node_pos(i) = reply'.pos
    BY <1>4, <1>6, <1>7, <1>9, Zenon DEF PlaceRead
  <2>2. reply'.pos < mmr.node_count
    BY <1>4, <1>6, <1>9, Zenon DEF PlaceRead
  <2>3. reply'.peaks = mmr.peaks /\ reply'.root = get_root(mmr)
    BY <1>4, <1>9, Zenon
  <2> QED
    BY <1>8, <1>10, <2>1, <2>2, <2>3, Zenon DEF MmrProofNamesItsLeaf, SinceAsked, newest
<1>12. Answered'
  BY <1>4, <1>9, <1>11, AnswerGiven
<1> QED
  BY <1>4, <1>12, Together, Zenon

LEMMA GetStatusKeeps ==
  ASSUME StateInv, NEW t \in Threads, get_status(t)
  PROVE  StateInv'
<1>1. PICK value : value = [kind |-> "root", root |-> state_root]
  BY Zenon
<1>2. /\ pc[t] = "idle" /\ UNCHANGED <<fields, holder>>
      /\ Keep(t, value) /\ Goto(t, "status_mmr") /\ Called(t)
  BY <1>1, Zenon DEF get_status
<1>3. "status_mmr" \notin HoldLeaves
  BY NoMutexAt, Zenon
<1>4. /\ Locks' /\ Fields' /\ Later /\ Others(t) /\ pc'[t] = "status_mmr"
      /\ UNCHANGED <<reply, asked>> /\ rootVersion' = rootVersion /\ newest' = newest
      /\ UNCHANGED <<leaves, versions, mmr>>
      /\ local'[t] = value /\ since'[t] = newest /\ since'[t] \in 1..newest'
  BY <1>2, <1>3, ReaderBegins, Zenon
<1>5. /\ Between(rootVersion) /\ newest \in Nat
      /\ state_root = merkle_root(versions[rootVersion])
  BY VersionsExist, Zenon DEF StateInv, Fields
<1>6. rootVersion \in (since'[t] - 1)..rootVersion' /\ rootVersion > 0
  BY <1>4, <1>5 DEF Between
<1>7. local'[t].root = state_root
  BY <1>1, <1>4
<1>8. local'[t].root = merkle_root(versions'[rootVersion])
  BY <1>4, <1>5, <1>7, Zenon
<1>9. RootRead(t)'
  BY <1>6, <1>8, Zenon DEF RootRead
<1>10. InCall(t)'
  BY <1>4, <1>9 DEF InCall, Writers
<1> QED
  BY <1>4, <1>10, Together, Zenon

LEMMA OneBatchApart ==
  ASSUME NEW n \in Nat, NEW s \in Nat, s <= n, NEW r \in 1..n,
         NEW i \in (s - 1)..r, NEW j \in 1..n, n - 1 <= j
  PROVE  i \in (s - 1)..n /\ j \in (s - 1)..n /\ j > 0 /\ j >= i - 1
OBVIOUS

LEMMA StatusMmrKeeps ==
  ASSUME StateInv, NEW t \in Threads, StatusMmr(t)
  PROVE  StateInv'
<1>1. Fields /\ InCall(t) /\ pc[t] = "status_mmr"
  BY Zenon DEF StateInv, StatusMmr
<1>2. PICK value : value = [kind |-> "status", state_root |-> local[t].root,
                            mmr_root |-> get_root(mmr)]
  BY Zenon
<1>3. Return(t, value) /\ UNCHANGED <<fields, holder>> /\ pc[t] \notin HoldLeaves
  BY <1>1, <1>2, NoMutexAt, Zenon DEF StatusMmr
<1>4. /\ Locks' /\ Fields' /\ Later /\ Others(t) /\ InCall(t)'
      /\ UNCHANGED versions /\ newest' = newest /\ reply' = value
      /\ asked' \in 1..newest /\ asked' \in Nat \ {0}
  BY <1>3, ReaderReturns, Zenon
<1>5. asked' = since[t]
  BY <1>1, <1>3, ReaderReturns
<1>6. PICK i \in (since[t] - 1)..rootVersion : i > 0 /\ local[t].root = merkle_root(versions[i])
  BY <1>1, Zenon DEF InCall, RootRead
<1>7. PICK j : j = rangeVersion
  BY Zenon
<1>8. /\ Between(rootVersion) /\ Between(j) /\ newest \in Nat
      /\ mmr = FeedMMR(EmptyMMR, versions[j])
  BY <1>1, <1>7, VersionsExist, Zenon DEF Fields
<1>9. /\ i \in (asked' - 1)..newest' /\ j \in (asked' - 1)..newest'
      /\ i > 0 /\ j > 0 /\ j >= i - 1
  <2>1. PICK s \in Nat : s = asked' /\ s <= newest
    BY <1>4
  <2>2. i \in (s - 1)..rootVersion
    BY <1>5, <1>6, <2>1, Zenon
  <2>3. rootVersion \in 1..newest /\ j \in 1..newest /\ newest - 1 <= j
    BY <1>8, Zenon DEF Between
  <2>4. i \in (s - 1)..newest /\ j \in (s - 1)..newest /\ j > 0 /\ j >= i - 1
    BY <1>8, <2>1, <2>2, <2>3, OneBatchApart, Zenon
  <2> QED
    BY <1>4, <1>6, <2>1, <2>4, Zenon
<1>10. /\ value.kind = "status" /\ value.state_root = local[t].root
       /\ value.mmr_root = get_root(mmr)
  BY <1>2
<1>11. StatusLagsByOneBatch'
  <2>1. /\ reply'.state_root = merkle_root(versions'[i])
        /\ reply'.mmr_root = get_root(FeedMMR(EmptyMMR, versions'[j]))
    BY <1>4, <1>6, <1>8, <1>10, Zenon
  <2> QED
    BY <1>9, <2>1, Zenon DEF StatusLagsByOneBatch, newest
<1>12. Answered'
  BY <1>4, <1>10, <1>11, AnswerGiven
<1> QED
  BY <1>4, <1>12, Together, Zenon

LEMMA GetManifestKeeps ==
  ASSUME StateInv, NEW t \in Threads, get_proof_manifest(t)
  PROVE  StateInv'
<1>1. PICK value : value = [kind |-> "mmr_state", peaks |-> mmr.peaks, size |-> mmr.size]
  BY Zenon
<1>2. /\ pc[t] = "idle" /\ UNCHANGED <<fields, holder>>
      /\ Keep(t, value) /\ Goto(t, "manifest_lookup") /\ Called(t)
  BY <1>1, Zenon DEF get_proof_manifest
<1>3. "manifest_lookup" \notin HoldLeaves
  BY NoMutexAt, Zenon
<1>4. /\ Locks' /\ Fields' /\ Later /\ Others(t) /\ pc'[t] = "manifest_lookup"
      /\ UNCHANGED <<reply, asked>> /\ newest' = newest
      /\ UNCHANGED <<leaves, versions, mmr>>
      /\ local'[t] = value /\ since'[t] = newest /\ since'[t] \in 1..newest'
  BY <1>2, <1>3, ReaderBegins, Zenon
<1>5. PICK j : j = rangeVersion
  BY Zenon
<1>6. Fields /\ Between(j) /\ newest \in Nat
  BY <1>5, VersionsExist, Zenon DEF StateInv
<1>7. mmr = FeedMMR(EmptyMMR, versions[j]) /\ mmr.size = Len(versions[j])
  BY <1>5, <1>6, NodesCounted, Zenon DEF Fields
<1>8. j \in 1..newest' /\ since'[t] - 1 <= j
  BY <1>4, <1>6 DEF Between
<1>9. local'[t].peaks = mmr.peaks /\ local'[t].size = mmr.size
  BY <1>1, <1>4
<1>10. /\ local'[t].peaks = FeedMMR(EmptyMMR, versions'[j]).peaks
       /\ local'[t].size = Len(versions'[j])
  BY <1>4, <1>7, <1>9, Zenon
<1>11. RangeRead(t, newest)'
  BY <1>8, <1>10, Zenon DEF RangeRead
<1>12. InCall(t)'
  BY <1>4, <1>11 DEF InCall, Writers
<1> QED
  BY <1>4, <1>12, Together, Zenon

(* Once the leaves mutex has been free, the state root is of the newest    *)
(* version.                                                                *)
LEMMA ManifestLookupKeeps ==
  ASSUME StateInv, NEW t \in Threads, ManifestLookup(t)
  PROVE  StateInv'
<1>1. /\ Fields /\ InCall(t) /\ pc[t] = "manifest_lookup" /\ pc[t] \notin HoldLeaves
      /\ Free("leaves") /\ UNCHANGED <<fields, holder>> /\ Goto(t, "manifest_root")
      /\ Pending /\ UNCHANGED local
  BY NoMutexAt, Zenon DEF StateInv, ManifestLookup
<1>2. "manifest_root" \notin HoldLeaves
  BY NoMutexAt, Zenon
<1>3. /\ Locks' /\ Fields' /\ Later /\ Others(t) /\ pc'[t] = "manifest_root"
      /\ UNCHANGED <<reply, asked>> /\ newest' = newest /\ rootVersion' = rootVersion
      /\ UNCHANGED <<leaves, versions, mmr>>
  BY <1>1, <1>2, ReaderGoesOn, Zenon
<1>4. rootVersion = newest /\ newest \in Nat \ {0}
  BY <1>1, FreePhase, Settled, Zenon
<1>5. RangeRead(t, newest) /\ since[t] \in 1..newest
  BY <1>1 DEF InCall
<1>6. UNCHANGED since
  BY <1>1, Zenon DEF Pending
<1>7. since'[t] \in 1..newest' /\ since'[t] <= rootVersion'
  BY <1>3, <1>4, <1>5, <1>6
<1>8. RangeRead(t, rootVersion)'
  <2>1. RangeRead(t, newest)'
    BY <1>1, <1>3, <1>5, <1>6, Zenon DEF RangeRead
  <2> QED
    BY <1>3, <1>4, <2>1, Zenon DEF RangeRead
<1>9. InCall(t)'
  BY <1>3, <1>7, <1>8 DEF InCall, Writers
<1> QED
  BY <1>3, <1>9, Together, Zenon

LEMMA ManifestRootKeeps ==
  ASSUME StateInv, NEW t \in Threads, ManifestRoot(t)
  PROVE  StateInv'
<1>1. Fields /\ InCall(t) /\ pc[t] = "manifest_root"
  BY Zenon DEF StateInv, ManifestRoot
<1>2. PICK value : value = [kind |-> "manifest", peaks |-> local[t].peaks,
                            size |-> local[t].size, root |-> state_root]
  BY Zenon
<1>3. Return(t, value) /\ UNCHANGED <<fields, holder>> /\ pc[t] \notin HoldLeaves
  BY <1>1, <1>2, NoMutexAt, Zenon DEF ManifestRoot
<1>4. /\ Locks' /\ Fields' /\ Later /\ Others(t) /\ InCall(t)'
      /\ UNCHANGED versions /\ newest' = newest /\ reply' = value
      /\ asked' \in 1..newest /\ asked' \in Nat \ {0}
  BY <1>3, ReaderReturns, Zenon
<1>5. asked' = since[t]
  BY <1>1, <1>3, ReaderReturns
<1>6. RangeRead(t, rootVersion) /\ since[t] <= rootVersion
  BY <1>1, Zenon DEF InCall
<1>7. PICK i : i = rootVersion
  BY Zenon
<1>8. PICK j \in 1..i : /\ since[t] - 1 <= j
                        /\ local[t].peaks = FeedMMR(EmptyMMR, versions[j]).peaks
                        /\ local[t].size = Len(versions[j])
  BY <1>6, <1>7, Zenon DEF RangeRead
<1>9. i \in 1..newest /\ newest \in Nat /\ state_root = merkle_root(versions[i])
  BY <1>1, <1>7, FieldsTyped, Zenon DEF Typed, Fields
<1>10. i \in asked'..newest' /\ j \in 1..newest' /\ asked' - 1 <= j /\ j <= i
  <2>1. PICK s \in Nat : s = asked' /\ s = since[t]
    BY <1>4, <1>5
  <2>2. s <= i /\ s - 1 <= j
    BY <1>6, <1>7, <1>8, <2>1, Zenon
  <2>3. i \in s..newest /\ j \in 1..newest /\ j <= i
    BY <1>8, <1>9, <2>1, <2>2
  <2> QED
    BY <1>4, <2>1, <2>2, <2>3, Zenon
<1>11. /\ value.kind = "manifest" /\ value.peaks = local[t].peaks
       /\ value.size = local[t].size /\ value.root = state_root
  BY <1>2
<1>12. ManifestRootIsNotOlder'
  <2>1. /\ reply'.root = merkle_root(versions'[i])
        /\ reply'.peaks = FeedMMR(EmptyMMR, versions'[j]).peaks
        /\ reply'.size = Len(versions'[j])
    BY <1>4, <1>8, <1>9, <1>11, Zenon
  <2> QED
    BY <1>10, <2>1, Zenon DEF ManifestRootIsNotOlder, SinceAsked, newest
<1>13. Answered'
  BY <1>4, <1>11, <1>12, AnswerGiven
<1> QED
  BY <1>4, <1>13, Together, Zenon

-----------------------------------------------------------------------------
(* The invariant.                                                          *)

LEMMA StateStart == Init => StateInv
<1> SUFFICES ASSUME Init PROVE StateInv
  BY Zenon
<1> USE DEF Init
<1>1. /\ "idle" \notin HoldLeaves /\ "idle" \notin Writers /\ "idle" # "proof_root"
      /\ "idle" # "feed_mmr"
  BY DEF HoldLeaves, Writers
<1>2. holder["leaves"] = NoThread /\ holder["tree_levels"] = NoThread /\ holder["mmr"] = NoThread
      /\ holder \in [Mutexes -> Threads \cup {NoThread}]
  BY DEF Mutexes
<1>3. Locks
  BY <1>1, <1>2, NoThreadAssumption, Zenon DEF Locks
<1>4. phase = "idle"
  BY <1>2, NoThreadAssumption, Zenon DEF phase
<1>5. newest = 1 /\ versions[1] = <<>> /\ versions \in Seq(Seq(Txs))
  BY DEF newest
<1>6. rootVersion = 1 /\ levelsVersion = 1 /\ rangeVersion = 1
  BY <1>1, <1>4, <1>5 DEF rootVersion, levelsVersion, rangeVersion
<1>7. /\ merkle_root(<<>>) = ZeroHash /\ merkle_levels(<<>>) = <<>>
      /\ FeedMMR(EmptyMMR, <<>>) = EmptyMMR
  BY FeedNothing, Zenon DEF merkle_root, merkle_levels
<1>8. Fields
  <2>1. newest >= 1
    BY <1>5
  <2> QED
    BY <1>1, <1>4, <1>5, <1>6, <1>7, <2>1, Zenon DEF Fields
<1>9. \A u \in Threads : InCall(u)
  BY <1>1 DEF InCall
<1>10. Answered
  <2>1. reply.kind = "nothing" /\ asked \in Nat
    BY DEF Nothing
  <2> QED
    BY <2>1 DEF Answered, ProofsAreOfOneVersion, AbsenceIsNotStale, MmrProofNamesItsLeaf,
                StatusLagsByOneBatch, ManifestRootIsNotOlder
<1> QED
  BY <1>3, <1>8, <1>9, <1>10, Zenon DEF StateInv

LEMMA StateStutter ==
  ASSUME StateInv, UNCHANGED vars
  PROVE  StateInv'
<1>1. /\ UNCHANGED <<leaves, state_root, tree_levels, mmr, holder, pc, local, reply>>
      /\ UNCHANGED <<versions, since, asked>> /\ UNCHANGED fields
  BY DEF vars, fields
<1>2. Locks' /\ phase' = phase
  BY <1>1, Zenon DEF StateInv, Locks, phase
<1>3. Fields' /\ Later
  BY <1>1, <1>2, Quiet, Zenon DEF StateInv
<1>4. \A u \in Threads : InCall(u)'
  BY <1>1, <1>3, OthersKeep, Zenon DEF StateInv, Same
<1>5. Answered'
  BY <1>1, <1>3, AnswerKept, Zenon DEF StateInv
<1> QED
  BY <1>2, <1>3, <1>4, <1>5, Zenon DEF StateInv

LEMMA StateStep == StateInv /\ [Next]_vars => StateInv'
<1> SUFFICES ASSUME StateInv, [Next]_vars PROVE StateInv'
  BY Zenon
<1>1. CASE UNCHANGED vars
  BY <1>1, StateStutter, Zenon
<1>2. CASE Next
  <2>1. PICK t \in Threads : Step(t) \/ Begin(t)
    BY <1>2, Zenon DEF Next
  <2>2. CASE Step(t)
    <3>1. CASE SetRoot(t) \/ SetLevels(t) \/ LockMmr(t) \/ FeedMmr(t)
      BY <3>1, SetRootKeeps, SetLevelsKeeps, LockMmrKeeps, FeedMmrKeeps, Zenon
    <3>2. CASE FindPath(t) \/ ProofRoot(t) \/ AbsentRoot(t)
      BY <3>2, FindPathKeeps, ProofRootKeeps, AbsentRootKeeps, Zenon
    <3>3. CASE GetLeaf(t) \/ MetadataLeaves(t) \/ MetadataMmr(t) \/ assemble_mmr_proof(t)
      BY <3>3, GetLeafKeeps, MetadataLeavesKeeps, MetadataMmrKeeps, AssembleKeeps, Zenon
    <3>4. CASE StatusMmr(t) \/ ManifestLookup(t) \/ ManifestRoot(t)
      BY <3>4, StatusMmrKeeps, ManifestLookupKeeps, ManifestRootKeeps, Zenon
    <3> QED
      BY <2>2, <3>1, <3>2, <3>3, <3>4, Zenon DEF Step
  <2>3. CASE Begin(t)
    <3>1. ASSUME NEW batch \in Batches,
                 update_state_batch(t, batch) \/ set_initial_leaves(t, batch)
          PROVE  StateInv'
      BY <3>1, UpdateKeeps, InitialKeeps, Zenon
    <3>2. ASSUME NEW tx \in Txs, generate_proof(t, tx) \/ get_mmr_proof_by_tx(t, tx)
          PROVE  StateInv'
      BY <3>2, GenerateProofKeeps, ByTxKeeps, Zenon
    <3>3. ASSUME NEW index \in 0..MaxLeaves, get_mmr_proof_by_index(t, index)
          PROVE  StateInv'
      BY <3>3, ByIndexKeeps, Zenon
    <3>4. CASE get_status(t) \/ get_proof_manifest(t)
      BY <3>4, GetStatusKeeps, GetManifestKeeps, Zenon
    <3> QED
      BY <2>3, <3>1, <3>2, <3>3, <3>4, Zenon DEF Begin
  <2> QED
    BY <2>1, <2>2, <2>3, Zenon
<1> QED
  BY <1>1, <1>2, Zenon

LEMMA StateAlways == Spec => []StateInv
BY StateStart, StateStep, PTL DEF Spec

(* Whenever no update is in progress, the state root, the tree levels and  *)
(* the Mountain Range that was fed batch by batch are those of the leaves. *)
THEOREM StateIsConsistent == Spec => []DerivedFieldsMatchLeaves
<1>1. StateInv => DerivedFieldsMatchLeaves
  <2> SUFFICES ASSUME StateInv, ~Writing PROVE DerivedFieldsMatchLeaves
    BY Zenon DEF DerivedFieldsMatchLeaves
  <2>1. phase \notin Writers
    <3>1. "idle" \notin Writers
      BY DEF Writers
    <3> QED
      BY <3>1, Zenon DEF phase, Writing, Writers
  <2> QED
    BY <2>1, Settled, Zenon DEF StateInv, DerivedFieldsMatchLeaves
<1> QED
  BY <1>1, StateAlways, PTL

LEMMA AnswersAreTrue ==
  StateInv => /\ ProofsAreOfOneVersion /\ AbsenceIsNotStale /\ MmrProofNamesItsLeaf
              /\ StatusLagsByOneBatch /\ ManifestRootIsNotOlder
BY Zenon DEF StateInv, Answered

(* generate_merkle_proof's answer is the proof for the key in one leaf     *)
(* list that was current during the call, and it verifies.                 *)
THEOREM ProofsAreAtomic == Spec => []ProofsAreOfOneVersion
BY AnswersAreTrue, StateAlways, PTL

(* An answer without a proof is of a version no older than the call, and   *)
(* its root of the same or a later one.                                    *)
THEOREM AbsenceIsFresh == Spec => []AbsenceIsNotStale
BY AnswersAreTrue, StateAlways, PTL

(* The position an MMR proof names is that of the leaf in the very range   *)
(* whose peaks and root it carries.                                        *)
THEOREM MmrProofsAreOfOneRange == Spec => []MmrProofNamesItsLeaf
BY AnswersAreTrue, StateAlways, PTL

(* get_status's two roots are one batch apart at most, and one batch older *)
(* than the call at most.                                                  *)
THEOREM StatusIsRecent == Spec => []StatusLagsByOneBatch
BY AnswersAreTrue, StateAlways, PTL

(* get_proof_manifest's state root is not older than its Mountain Range.   *)
THEOREM ManifestIsOrdered == Spec => []ManifestRootIsNotOlder
BY AnswersAreTrue, StateAlways, PTL

-----------------------------------------------------------------------------
(* The refinement of StateLog, step by step.                               *)

LEMMA LogStart == Init => Log!LogInit
<1>1. merkle_root(<<>>) = ZeroHash /\ MountainRange(<<>>) = EmptyMMR
  BY FeedNothing, Zenon DEF merkle_root, MountainRange
<1> QED
  BY <1>1, Zenon DEF Init, Log!LogInit

(* Appending a batch, to a log that both commitments cover.                *)
LEMMA AppendsToLog ==
  ASSUME StateInv, Free("leaves"), NEW batch \in Batches, leaves' = leaves \o batch,
         UNCHANGED <<state_root, tree_levels, mmr>>
  PROVE  Log!AppendBatch
<1>1. phase \notin Writers /\ Fields
  BY FreePhase, Zenon DEF StateInv
<1>2. state_root = merkle_root(leaves) /\ mmr = MountainRange(leaves)
  BY <1>1, Settled, Zenon DEF MountainRange
<1> QED
  BY <1>2, Zenon DEF Log!AppendBatch

LEMMA LogStep == StateInv /\ [Next]_vars => [Log!LogNext]_(Log!logVars)
<1> SUFFICES ASSUME StateInv, [Next]_vars PROVE [Log!LogNext]_(Log!logVars)
  BY Zenon
<1>1. ASSUME UNCHANGED <<leaves, state_root, mmr>> PROVE [Log!LogNext]_(Log!logVars)
  BY <1>1 DEF Log!logVars
<1>2. CASE UNCHANGED vars
  BY <1>1, <1>2 DEF vars
<1>3. CASE Next
  <2>1. PICK t \in Threads : Step(t) \/ Begin(t)
    BY <1>3, Zenon DEF Next
  <2>2. CASE SetRoot(t)
    <3>1. state_root' = merkle_root(leaves) /\ UNCHANGED <<leaves, mmr>>
      BY <2>2, Zenon DEF SetRoot
    <3>2. Log!PublishRoot
      BY <3>1, Zenon DEF Log!PublishRoot
    <3> QED
      BY <3>2, Zenon DEF Log!LogNext
  <2>3. CASE FeedMmr(t)
    <3>1. pc[t] = "feed_mmr" /\ UNCHANGED <<leaves, state_root>>
      BY <2>3, Zenon DEF FeedMmr
    <3>2. mmr' = MountainRange(leaves)
      BY <2>3, FeedMmrDoes, Zenon DEF MountainRange
    <3>3. state_root = merkle_root(leaves)
      <4>1. Locks /\ Fields /\ pc[t] \in HoldLeaves /\ pc[t] # "set_root"
        BY <3>1 DEF StateInv, HoldLeaves, Writers
      <4>2. phase # "set_root"
        BY <4>1, HolderPhase, Zenon
      <4>3. rootVersion = newest
        BY <4>2, Zenon DEF rootVersion
      <4> QED
        BY <4>1, <4>3, Zenon DEF Fields
    <3>4. Log!PublishRange
      BY <3>1, <3>2, <3>3, Zenon DEF Log!PublishRange
    <3> QED
      BY <3>4, Zenon DEF Log!LogNext
  <2>4. ASSUME NEW batch \in Batches,
               update_state_batch(t, batch) \/ set_initial_leaves(t, batch)
        PROVE  Log!LogNext
    <3>1. Free("leaves") /\ UNCHANGED <<state_root, tree_levels, mmr>>
      BY <2>4, Zenon DEF update_state_batch, set_initial_leaves
    <3>2. leaves' = leaves \o batch
      <4>1. CASE update_state_batch(t, batch)
        BY <4>1, Zenon DEF update_state_batch
      <4>2. CASE set_initial_leaves(t, batch)
        <5>1. Fields /\ versions = <<<<>>>> /\ leaves' = batch
          BY <4>2, Zenon DEF StateInv, set_initial_leaves
        <5> QED
          BY <5>1, InitialIsAppended, Zenon
      <4> QED
        BY <2>4, <4>1, <4>2, Zenon
    <3> QED
      BY <3>1, <3>2, AppendsToLog, Zenon DEF Log!LogNext
  <2>5. CASE SetLevels(t)
    BY <1>1, <2>5 DEF SetLevels
  <2>6. CASE LockMmr(t) \/ FindPath(t) \/ ProofRoot(t) \/ AbsentRoot(t)
    BY <1>1, <2>6 DEF LockMmr, FindPath, ProofRoot, AbsentRoot, fields
  <2>7. CASE GetLeaf(t) \/ MetadataLeaves(t) \/ MetadataMmr(t) \/ assemble_mmr_proof(t)
    BY <1>1, <2>7 DEF GetLeaf, MetadataLeaves, MetadataMmr, assemble_mmr_proof, fields
  <2>8. CASE StatusMmr(t) \/ ManifestLookup(t) \/ ManifestRoot(t)
    BY <1>1, <2>8 DEF StatusMmr, ManifestLookup, ManifestRoot, fields
  <2>9. ASSUME NEW tx \in Txs, generate_proof(t, tx) \/ get_mmr_proof_by_tx(t, tx)
        PROVE  [Log!LogNext]_(Log!logVars)
    BY <1>1, <2>9 DEF generate_proof, get_mmr_proof_by_tx, fields
  <2>10. ASSUME NEW index \in 0..MaxLeaves, get_mmr_proof_by_index(t, index)
         PROVE  [Log!LogNext]_(Log!logVars)
    BY <1>1, <2>10 DEF get_mmr_proof_by_index, fields
  <2>11. CASE get_status(t) \/ get_proof_manifest(t)
    BY <1>1, <2>11 DEF get_status, get_proof_manifest, fields
  <2>12. CASE Step(t)
    BY <2>2, <2>3, <2>5, <2>6, <2>7, <2>8, <2>12, Zenon DEF Step
  <2>13. CASE Begin(t)
    BY <2>4, <2>9, <2>10, <2>11, <2>13, Zenon DEF Begin
  <2> QED
    BY <2>1, <2>12, <2>13, Zenon
<1> QED
  BY <1>2, <1>3, Zenon

(* The locked, stepwise state implements the append-only log with its two  *)
(* commitments.                                                            *)
THEOREM StateRefinesLog == Spec => ImplementsStateLog
<1>1. Spec => Log!LogInit
  BY LogStart, PTL DEF Spec
<1>2. Spec => [][Log!LogNext]_(Log!logVars)
  BY LogStep, StateAlways, PTL DEF Spec
<1> QED
  BY <1>1, <1>2, PTL DEF ImplementsStateLog, Log!LogSpec
=============================================================================
