---------------------------- MODULE MMR_proofs ----------------------------
(***************************************************************************)
(* What add_leaf and the loops around it (src/state/mod.rs) compute, for   *)
(* leaf lists of any length.  The loops are recursive functions here:      *)
(* that such a function exists, and what it computes, is shown by taking   *)
(* the least number of turns for which it would fail.                      *)
(***************************************************************************)
EXTENDS MMR, WellFoundedInduction, TLAPS

(* A nonempty set of naturals has a least member.                          *)
LEMMA LeastNatural ==
  ASSUME NEW I \in SUBSET Nat, I # {}
  PROVE  Least(I) \in I /\ \A j \in I : Least(I) <= j
<1>1. \A i, j \in Nat : j < i => <<j, i>> \in OpToRel(<, Nat)
  BY Zenon DEF OpToRel
<1>2. PICK i \in I : \A j \in I : ~(<<j, i>> \in OpToRel(<, Nat))
  BY NatLessThanWellFounded, WFMin, Zenon
<1>3. \A j \in I : ~(j < i)
  BY <1>1, <1>2, Zenon
<1>4. \A j \in I : i <= j
  BY <1>3
<1> QED
  BY <1>4, Zenon DEF Least

-----------------------------------------------------------------------------
(* Fed: the loop of update_state_batch over the new transactions.          *)

IsFed(f, n, mmr, txs) ==
  f = [k \in 0..n |-> IF k = 0 THEN mmr ELSE add_leaf(f[k - 1], txs[k])]

LEMMA FedExists ==
  ASSUME NEW n \in Nat, NEW mmr, NEW txs
  PROVE  \E f : IsFed(f, n, mmr, txs)
<1> DEFINE Bad == {m \in Nat : ~\E f : IsFed(f, m, mmr, txs)}
<1> SUFFICES ASSUME Bad # {} PROVE FALSE
  BY Zenon
<1>1. PICK m \in Bad : \A j \in Bad : m <= j
  BY LeastNatural, Zenon
<1>2. m # 0
  <2> DEFINE f == [k \in 0..0 |-> mmr]
  <2>1. \A k \in 0..0 : k = 0
    OBVIOUS
  <2>2. f = [k \in 0..0 |-> IF k = 0 THEN mmr ELSE add_leaf(f[k - 1], txs[k])]
    BY <2>1, Zenon
  <2> QED
    BY <1>1, <2>2, Zenon DEF IsFed
<1>3. m - 1 \in Nat /\ m - 1 \notin Bad
  BY <1>1, <1>2
<1>4. PICK f : IsFed(f, m - 1, mmr, txs)
  BY <1>3, Zenon
<1> DEFINE g == [k \in 0..m |-> IF k = m THEN add_leaf(f[m - 1], txs[m]) ELSE f[k]]
<1>5. \A k \in 0..(m - 1) : f[k] = IF k = 0 THEN mmr ELSE add_leaf(f[k - 1], txs[k])
  BY <1>4, Zenon DEF IsFed
<1>6. \A k \in 0..m : g[k] = IF k = 0 THEN mmr ELSE add_leaf(g[k - 1], txs[k])
  BY <1>1, <1>2, <1>3, <1>5
<1>7. IsFed(g, m, mmr, txs)
  BY <1>6, Zenon DEF IsFed
<1> QED
  BY <1>1, <1>7, Zenon

Feeds(f, mmr, txs) ==
  f[0] = mmr /\ \A k \in 1..Len(txs) : f[k] = add_leaf(f[k - 1], txs[k])

LEMMA FedIs ==
  ASSUME NEW mmr, NEW txs, Len(txs) \in Nat
  PROVE  Feeds(Fed(mmr, txs), mmr, txs)
<1>1. Fed(mmr, txs) = CHOOSE f : IsFed(f, Len(txs), mmr, txs)
  BY Zenon DEF Fed, IsFed
<1>2. IsFed(Fed(mmr, txs), Len(txs), mmr, txs)
  BY <1>1, FedExists, Zenon
<1>3. PICK f : f = Fed(mmr, txs)
  BY Zenon
<1>4. \A k \in 0..Len(txs) : f[k] = IF k = 0 THEN mmr ELSE add_leaf(f[k - 1], txs[k])
  BY <1>2, <1>3, Zenon DEF IsFed
<1>5. Feeds(f, mmr, txs)
  BY <1>4 DEF Feeds
<1> QED
  BY <1>3, <1>5, Zenon

(* A batch after a list is fed to the MMR the list left.                   *)
Joins(both, first, after, m, n) ==
  /\ \A k \in 0..m : both[k] = first[k]
  /\ \A k \in 0..n : both[m + k] = after[k]

LEMMA FedConcat ==
  ASSUME NEW S, NEW list \in Seq(S), NEW batch \in Seq(S), NEW mmr
  PROVE  Joins(Fed(mmr, list \o batch), Fed(mmr, list), Fed(FeedMMR(mmr, list), batch),
               Len(list), Len(batch))
<1> DEFINE both == Fed(mmr, list \o batch)
           first == Fed(mmr, list)
           after == Fed(FeedMMR(mmr, list), batch)
<1>1. /\ Len(list) \in Nat /\ Len(batch) \in Nat
      /\ Len(list \o batch) = Len(list) + Len(batch)
      /\ \A k \in 1..Len(list) : (list \o batch)[k] = list[k]
      /\ \A k \in 1..Len(batch) : (list \o batch)[Len(list) + k] = batch[k]
  OBVIOUS
<1>2. /\ both[0] = mmr
      /\ \A k \in 1..(Len(list) + Len(batch)) :
           both[k] = add_leaf(both[k - 1], (list \o batch)[k])
  <2>1. Len(list \o batch) \in Nat
    OBVIOUS
  <2>2. Feeds(both, mmr, list \o batch)
    BY <2>1, FedIs, Zenon
  <2> QED
    BY <1>1, <2>2, Zenon DEF Feeds
<1>3. first[0] = mmr /\ \A k \in 1..Len(list) : first[k] = add_leaf(first[k - 1], list[k])
  <2>1. Feeds(first, mmr, list)
    BY <1>1, FedIs, Zenon
  <2> QED
    BY <2>1, Zenon DEF Feeds
<1>4. /\ after[0] = first[Len(list)]
      /\ \A k \in 1..Len(batch) : after[k] = add_leaf(after[k - 1], batch[k])
  <2>1. Feeds(after, FeedMMR(mmr, list), batch)
    BY <1>1, FedIs, Zenon
  <2> QED
    BY <2>1, Zenon DEF Feeds, FeedMMR
<1> HIDE DEF both, first, after
<1>5. \A k \in 0..Len(list) : both[k] = first[k]
  <2> DEFINE Bad == {k \in 0..Len(list) : both[k] # first[k]}
  <2> SUFFICES ASSUME Bad # {} PROVE FALSE
    BY Zenon
  <2>1. PICK k \in Bad : \A j \in Bad : k <= j
    <3>1. Bad \in SUBSET Nat
      BY <1>1
    <3> QED
      BY <3>1, LeastNatural, Zenon
  <2>2. k # 0
    BY <1>2, <1>3, <2>1, Zenon
  <2>3. k - 1 \in 0..Len(list) /\ k - 1 \notin Bad /\ k \in 1..Len(list)
        /\ k \in 1..(Len(list) + Len(batch))
    BY <1>1, <2>1, <2>2
  <2>4. both[k - 1] = first[k - 1]
    BY <2>3, Zenon
  <2> QED
    BY <1>1, <1>2, <1>3, <2>1, <2>3, <2>4, Zenon
<1>6. \A k \in 0..Len(batch) : both[Len(list) + k] = after[k]
  <2> DEFINE Bad == {k \in 0..Len(batch) : both[Len(list) + k] # after[k]}
  <2> SUFFICES ASSUME Bad # {} PROVE FALSE
    BY Zenon
  <2>1. PICK k \in Bad : \A j \in Bad : k <= j
    <3>1. Bad \in SUBSET Nat
      BY <1>1
    <3> QED
      BY <3>1, LeastNatural, Zenon
  <2>2. k # 0
    <3>1. Len(list) \in 0..Len(list) /\ Len(list) + 0 = Len(list)
      BY <1>1
    <3> QED
      BY <1>4, <1>5, <2>1, <3>1, Zenon
  <2>3. /\ k - 1 \in 0..Len(batch) /\ k - 1 \notin Bad /\ k \in 1..Len(batch)
        /\ Len(list) + k \in 1..(Len(list) + Len(batch))
        /\ Len(list) + k - 1 = Len(list) + (k - 1)
    BY <1>1, <2>1, <2>2
  <2>4. both[Len(list) + (k - 1)] = after[k - 1]
    BY <2>3, Zenon
  <2>5. both[Len(list) + k] = add_leaf(both[Len(list) + (k - 1)], batch[k])
    <3>1. both[Len(list) + k] =
            add_leaf(both[Len(list) + k - 1], (list \o batch)[Len(list) + k])
      BY <1>2, <2>3
    <3>2. (list \o batch)[Len(list) + k] = batch[k]
      BY <1>1, <2>3, Zenon
    <3> QED
      BY <2>3, <3>1, <3>2, Zenon
  <2> QED
    BY <1>4, <2>1, <2>3, <2>4, <2>5, Zenon
<1> QED
  BY <1>5, <1>6, Zenon DEF both, first, after, Joins

(* Feeding a list and then a batch is feeding the two joined together.     *)
LEMMA FeedInTurns ==
  ASSUME NEW S, NEW list \in Seq(S), NEW batch \in Seq(S), NEW mmr
  PROVE  FeedMMR(mmr, list \o batch) = FeedMMR(FeedMMR(mmr, list), batch)
<1>1. Len(batch) \in 0..Len(batch) /\ Len(list \o batch) = Len(list) + Len(batch)
  OBVIOUS
<1> QED
  <2>1. Joins(Fed(mmr, list \o batch), Fed(mmr, list), Fed(FeedMMR(mmr, list), batch),
              Len(list), Len(batch))
    BY FedConcat, Zenon
  <2> QED
    BY <1>1, <2>1, Zenon DEF FeedMMR, Joins

LEMMA FeedNothing ==
  ASSUME NEW mmr
  PROVE  FeedMMR(mmr, <<>>) = mmr
<1>1. Len(<<>>) = 0 /\ Len(<<>>) \in Nat
  OBVIOUS
<1> QED
  BY <1>1, FedIs, Zenon DEF FeedMMR, Feeds

-----------------------------------------------------------------------------
(* TrailingOnes is defined on all of Nat: it is put together from functions*)
(* on 0..n, which agree with each other.                                   *)

Trailing(g, n) ==
  \A i \in 0..n : g[i] = IF i % 2 = 0 THEN 0 ELSE 1 + g[i \div 2]

LEMMA TrailingUpTo ==
  ASSUME NEW n \in Nat
  PROVE  \E g : Trailing(g, n)
<1> DEFINE Bad == {m \in Nat : ~\E g : Trailing(g, m)}
<1> SUFFICES ASSUME Bad # {} PROVE FALSE
  BY Zenon
<1>1. PICK m \in Bad : \A j \in Bad : m <= j
  BY LeastNatural, Zenon
<1>2. m # 0
  <2> DEFINE f == [i \in 0..0 |-> 0]
  <2>1. \A i \in 0..0 : f[i] = IF i % 2 = 0 THEN 0 ELSE 1 + f[i \div 2]
    OBVIOUS
  <2> QED
    BY <1>1, <2>1, Zenon DEF Trailing
<1>3. m - 1 \in Nat /\ m - 1 \notin Bad
  BY <1>1, <1>2
<1>4. PICK f : Trailing(f, m - 1)
  BY <1>3, Zenon
<1> DEFINE g == [i \in 0..m |-> IF i = m THEN (IF m % 2 = 0 THEN 0 ELSE 1 + f[m \div 2])
                               ELSE f[i]]
<1>5. \A i \in 0..(m - 1) : f[i] = IF i % 2 = 0 THEN 0 ELSE 1 + f[i \div 2]
  BY <1>4, Zenon DEF Trailing
<1>6. \A i \in 0..m : g[i] = IF i % 2 = 0 THEN 0 ELSE 1 + g[i \div 2]
  <2> SUFFICES ASSUME NEW i \in 0..m
               PROVE  g[i] = IF i % 2 = 0 THEN 0 ELSE 1 + g[i \div 2]
    BY Zenon
  <2>1. i % 2 # 0 => i \div 2 \in 0..(m - 1) /\ i \div 2 \in 0..m /\ i \div 2 # m
    BY <1>1
  <2>2. i # m => i \in 0..(m - 1)
    BY <1>1
  <2>3. i % 2 # 0 => g[i \div 2] = f[i \div 2]
    BY <2>1, Zenon
  <2> QED
    BY <1>5, <2>2, <2>3, Zenon
<1> HIDE DEF g
<1>7. Trailing(g, m)
  BY <1>6, Zenon DEF Trailing
<1> QED
  BY <1>1, <1>7, Zenon

LEMMA TrailingAgree ==
  ASSUME NEW m \in Nat, NEW n \in Nat, m <= n, NEW g, NEW h, Trailing(g, n), Trailing(h, m)
  PROVE  g[m] = h[m]
<1> DEFINE Bad == {i \in 0..m : g[i] # h[i]}
<1>1. \A i \in 0..m : i \in 0..n
  OBVIOUS
<1>2. ASSUME Bad # {} PROVE FALSE
  <2>1. PICK i \in Bad : \A j \in Bad : i <= j
    <3>1. Bad \in SUBSET Nat
      OBVIOUS
    <3> QED
      BY <1>2, <3>1, LeastNatural, Zenon
  <2>2. i % 2 # 0 => i \div 2 \in 0..m /\ i \div 2 \notin Bad
    BY <2>1
  <2>3. i % 2 # 0 => g[i \div 2] = h[i \div 2]
    BY <2>2, Zenon
  <2> QED
    BY <1>1, <2>1, <2>3, Zenon DEF Trailing
<1>3. m \in 0..m
  OBVIOUS
<1> QED
  BY <1>2, <1>3, Zenon

LEMMA TrailingOnesIs ==
  ASSUME NEW n \in Nat
  PROVE  TrailingOnes[n] = IF n % 2 = 0 THEN 0 ELSE 1 + TrailingOnes[n \div 2]
<1> DEFINE G(m) == CHOOSE g : Trailing(g, m)
           F == [m \in Nat |-> G(m)[m]]
<1>1. \A m \in Nat : Trailing(G(m), m)
  BY TrailingUpTo, Zenon
<1> HIDE DEF G
<1>2. ASSUME NEW m \in Nat PROVE F[m] = IF m % 2 = 0 THEN 0 ELSE 1 + F[m \div 2]
  <2>1. m \div 2 \in Nat /\ m \div 2 <= m /\ m \in 0..m
    OBVIOUS
  <2>2. G(m)[m] = IF m % 2 = 0 THEN 0 ELSE 1 + G(m)[m \div 2]
    BY <1>1, <2>1, Zenon DEF Trailing
  <2>3. G(m)[m \div 2] = G(m \div 2)[m \div 2]
    <3>1. ASSUME NEW k \in Nat, k <= m PROVE G(m)[k] = G(k)[k]
      BY <1>1, <3>1, TrailingAgree, Zenon
    <3> QED
      BY <2>1, <3>1, Zenon
  <2> QED
    BY <2>1, <2>2, <2>3, Zenon
<1> HIDE DEF F
<1>3. F = [m \in Nat |-> IF m % 2 = 0 THEN 0 ELSE 1 + F[m \div 2]]
  <2>1. F = [m \in Nat |-> F[m]]
    BY Zenon DEF F
  <2> QED
    BY <1>2, <2>1, Zenon
<1>4. PICK f : f = TrailingOnes
  BY Zenon
<1>5. f = [m \in Nat |-> IF m % 2 = 0 THEN 0 ELSE 1 + f[m \div 2]]
  BY <1>3, <1>4, Zenon DEF TrailingOnes
<1>6. f[n] = IF n % 2 = 0 THEN 0 ELSE 1 + f[n \div 2]
  BY <1>5, Zenon
<1> QED
  BY <1>4, <1>6, Zenon

LEMMA TrailingOnesNat ==
  ASSUME NEW n \in Nat
  PROVE  TrailingOnes[n] \in Nat
<1> DEFINE Bad == {m \in Nat : TrailingOnes[m] \notin Nat}
<1> SUFFICES ASSUME Bad # {} PROVE FALSE
  BY Zenon
<1>1. PICK m \in Bad : \A j \in Bad : m <= j
  BY LeastNatural, Zenon
<1>2. TrailingOnes[m] = IF m % 2 = 0 THEN 0 ELSE 1 + TrailingOnes[m \div 2]
  BY <1>1, TrailingOnesIs, Zenon
<1>3. m % 2 # 0 => m \div 2 \in Nat /\ m \div 2 \notin Bad
  BY <1>1
<1>4. m % 2 # 0 => TrailingOnes[m \div 2] \in Nat
  BY <1>3, Zenon
<1>5. TrailingOnes[m] \in Nat
  BY <1>2, <1>4
<1> QED
  BY <1>1, <1>5, Zenon

-----------------------------------------------------------------------------
(* The counters of an MMR: one leaf each time, and at least one node.      *)
Counted(mmr) == mmr.size \in Nat /\ mmr.node_count \in Nat

LEMMA LeafIsCounted ==
  ASSUME NEW mmr, Counted(mmr), NEW tx
  PROVE  /\ Counted(add_leaf(mmr, tx))
         /\ add_leaf(mmr, tx).size = mmr.size + 1
         /\ add_leaf(mmr, tx).node_count > mmr.node_count
<1>1. PICK merged : merged = TrailingOnes[mmr.size]
  BY Zenon
<1>2. merged \in Nat
  BY <1>1, TrailingOnesNat, Zenon DEF Counted
<1>3. PICK peaks :
        add_leaf(mmr, tx) = [peaks |-> peaks, size |-> mmr.size + 1,
                             node_count |-> mmr.node_count + merged + 1]
  BY <1>1, Zenon DEF add_leaf
<1> QED
  BY <1>2, <1>3 DEF Counted

LEMMA PrefixIsCounted ==
  ASSUME NEW mmr, Counted(mmr), NEW txs, Len(txs) \in Nat
  PROVE  \A k \in 0..Len(txs) :
           /\ Counted(Fed(mmr, txs)[k])
           /\ Fed(mmr, txs)[k].size = mmr.size + k
           /\ Fed(mmr, txs)[k].node_count >= mmr.node_count
<1> DEFINE fed == Fed(mmr, txs)
           Good(k) == /\ Counted(fed[k])
                      /\ fed[k].size = mmr.size + k
                      /\ fed[k].node_count >= mmr.node_count
<1>1. Feeds(fed, mmr, txs)
  BY FedIs, Zenon
<1>2. fed[0] = mmr /\ \A k \in 1..Len(txs) : fed[k] = add_leaf(fed[k - 1], txs[k])
  BY <1>1, Zenon DEF Feeds
<1> HIDE DEF fed
<1>3. Good(0)
  BY <1>2 DEF Counted
<1>4. ASSUME NEW k \in 1..Len(txs), Good(k - 1) PROVE Good(k)
  <2>1. PICK before : before = fed[k - 1]
    BY Zenon
  <2>2. PICK after : after = fed[k]
    BY Zenon
  <2>3. /\ Counted(after) /\ after.size = before.size + 1
        /\ after.node_count > before.node_count
    BY <1>2, <1>4, <2>1, <2>2, LeafIsCounted, Zenon
  <2>4. /\ before.size = mmr.size + (k - 1) /\ before.node_count >= mmr.node_count
        /\ Counted(before)
    BY <1>4, <2>1, Zenon
  <2>5. after.size = mmr.size + k /\ after.node_count >= mmr.node_count
    BY <2>3, <2>4 DEF Counted
  <2> QED
    BY <2>2, <2>3, <2>5, Zenon
<1>5. \A k \in 0..Len(txs) : Good(k)
  <2> DEFINE Bad == {k \in 0..Len(txs) : ~Good(k)}
  <2> SUFFICES ASSUME Bad # {} PROVE FALSE
    BY Zenon
  <2> HIDE DEF Good
  <2>1. PICK k \in Bad : \A j \in Bad : k <= j
    <3>1. Bad \in SUBSET Nat
      OBVIOUS
    <3> QED
      BY <3>1, LeastNatural, Zenon
  <2>2. k # 0
    BY <1>3, <2>1, Zenon
  <2>3. k \in 1..Len(txs) /\ k - 1 \in 0..Len(txs) /\ k - 1 \notin Bad
    BY <2>1, <2>2
  <2> QED
    BY <1>4, <2>1, <2>3, Zenon
<1> QED
  BY <1>5, Zenon DEF fed

LEMMA LeavesAreCounted ==
  ASSUME NEW mmr, Counted(mmr), NEW txs, Len(txs) \in Nat
  PROVE  /\ Counted(FeedMMR(mmr, txs))
         /\ FeedMMR(mmr, txs).size = mmr.size + Len(txs)
         /\ FeedMMR(mmr, txs).node_count >= mmr.node_count
<1>1. Len(txs) \in 0..Len(txs)
  OBVIOUS
<1> QED
  BY <1>1, PrefixIsCounted, Zenon DEF FeedMMR

(* The same for CountOnes.                                                 *)

Counting(g, n) ==
  \A i \in 0..n : g[i] = IF i = 0 THEN 0 ELSE (i % 2) + g[i \div 2]

LEMMA CountingUpTo ==
  ASSUME NEW n \in Nat
  PROVE  \E g : Counting(g, n)
<1> DEFINE Bad == {m \in Nat : ~\E g : Counting(g, m)}
<1> SUFFICES ASSUME Bad # {} PROVE FALSE
  BY Zenon
<1>1. PICK m \in Bad : \A j \in Bad : m <= j
  BY LeastNatural, Zenon
<1>2. m # 0
  <2> DEFINE f == [i \in 0..0 |-> 0]
  <2>1. \A i \in 0..0 : f[i] = IF i = 0 THEN 0 ELSE (i % 2) + f[i \div 2]
    OBVIOUS
  <2> QED
    BY <1>1, <2>1, Zenon DEF Counting
<1>3. m - 1 \in Nat /\ m - 1 \notin Bad
  BY <1>1, <1>2
<1>4. PICK f : Counting(f, m - 1)
  BY <1>3, Zenon
<1> DEFINE g == [i \in 0..m |-> IF i = m THEN (IF m = 0 THEN 0 ELSE (m % 2) + f[m \div 2])
                               ELSE f[i]]
<1>5. \A i \in 0..(m - 1) : f[i] = IF i = 0 THEN 0 ELSE (i % 2) + f[i \div 2]
  BY <1>4, Zenon DEF Counting
<1>6. \A i \in 0..m : g[i] = IF i = 0 THEN 0 ELSE (i % 2) + g[i \div 2]
  <2> SUFFICES ASSUME NEW i \in 0..m
               PROVE  g[i] = IF i = 0 THEN 0 ELSE (i % 2) + g[i \div 2]
    BY Zenon
  <2>1. i # 0 => i \div 2 \in 0..(m - 1) /\ i \div 2 \in 0..m /\ i \div 2 # m
    BY <1>1
  <2>2. i # m => i \in 0..(m - 1)
    BY <1>1
  <2>3. i # 0 => g[i \div 2] = f[i \div 2]
    BY <2>1, Zenon
  <2> QED
    BY <1>5, <2>2, <2>3, Zenon
<1> HIDE DEF g
<1>7. Counting(g, m)
  BY <1>6, Zenon DEF Counting
<1> QED
  BY <1>1, <1>7, Zenon

LEMMA CountingAgree ==
  ASSUME NEW m \in Nat, NEW n \in Nat, m <= n, NEW g, NEW h, Counting(g, n), Counting(h, m)
  PROVE  g[m] = h[m]
<1> DEFINE Bad == {i \in 0..m : g[i] # h[i]}
<1>1. \A i \in 0..m : i \in 0..n
  OBVIOUS
<1>2. ASSUME Bad # {} PROVE FALSE
  <2>1. PICK i \in Bad : \A j \in Bad : i <= j
    <3>1. Bad \in SUBSET Nat
      OBVIOUS
    <3> QED
      BY <1>2, <3>1, LeastNatural, Zenon
  <2>2. i # 0 => i \div 2 \in 0..m /\ i \div 2 \notin Bad
    BY <2>1
  <2>3. i # 0 => g[i \div 2] = h[i \div 2]
    BY <2>2, Zenon
  <2> QED
    BY <1>1, <2>1, <2>3, Zenon DEF Counting
<1>3. m \in 0..m
  OBVIOUS
<1> QED
  BY <1>2, <1>3, Zenon

LEMMA CountOnesIs ==
  ASSUME NEW n \in Nat
  PROVE  CountOnes[n] = IF n = 0 THEN 0 ELSE (n % 2) + CountOnes[n \div 2]
<1> DEFINE G(m) == CHOOSE g : Counting(g, m)
           F == [m \in Nat |-> G(m)[m]]
<1>1. \A m \in Nat : Counting(G(m), m)
  BY CountingUpTo, Zenon
<1> HIDE DEF G
<1>2. ASSUME NEW m \in Nat PROVE F[m] = IF m = 0 THEN 0 ELSE (m % 2) + F[m \div 2]
  <2>1. m \div 2 \in Nat /\ m \div 2 <= m /\ m \in 0..m
    OBVIOUS
  <2>2. G(m)[m] = IF m = 0 THEN 0 ELSE (m % 2) + G(m)[m \div 2]
    BY <1>1, <2>1, Zenon DEF Counting
  <2>3. G(m)[m \div 2] = G(m \div 2)[m \div 2]
    <3>1. ASSUME NEW k \in Nat, k <= m PROVE G(m)[k] = G(k)[k]
      BY <1>1, <3>1, CountingAgree, Zenon
    <3> QED
      BY <2>1, <3>1, Zenon
  <2> QED
    BY <2>1, <2>2, <2>3, Zenon
<1> HIDE DEF F
<1>3. F = [m \in Nat |-> IF m = 0 THEN 0 ELSE (m % 2) + F[m \div 2]]
  <2>1. F = [m \in Nat |-> F[m]]
    BY Zenon DEF F
  <2> QED
    BY <1>2, <2>1, Zenon
<1>4. PICK f : f = CountOnes
  BY Zenon
<1>5. f = [m \in Nat |-> IF m = 0 THEN 0 ELSE (m % 2) + f[m \div 2]]
  BY <1>3, <1>4, Zenon DEF CountOnes
<1>6. f[n] = IF n = 0 THEN 0 ELSE (n % 2) + f[n \div 2]
  BY <1>5, Zenon
<1> QED
  BY <1>4, <1>6, Zenon

LEMMA CountOnesNat ==
  ASSUME NEW n \in Nat
  PROVE  CountOnes[n] \in Nat
<1> DEFINE Bad == {m \in Nat : CountOnes[m] \notin Nat}
<1> SUFFICES ASSUME Bad # {} PROVE FALSE
  BY Zenon
<1>1. PICK m \in Bad : \A j \in Bad : m <= j
  BY LeastNatural, Zenon
<1>2. CountOnes[m] = IF m = 0 THEN 0 ELSE (m % 2) + CountOnes[m \div 2]
  BY <1>1, CountOnesIs, Zenon
<1>3. m # 0 => m \div 2 \in Nat /\ m \div 2 \notin Bad
  BY <1>1
<1>4. m # 0 => CountOnes[m \div 2] \in Nat
  BY <1>3, Zenon
<1>5. CountOnes[m] \in Nat
  BY <1>2, <1>4
<1> QED
  BY <1>1, <1>5, Zenon

(* Adding one carries over the trailing ones.                              *)
LEMMA Carry ==
  ASSUME NEW n \in Nat
  PROVE  /\ CountOnes[n + 1] = CountOnes[n] - TrailingOnes[n] + 1
         /\ TrailingOnes[n] <= CountOnes[n]
<1> DEFINE Good(m) == /\ CountOnes[m + 1] = CountOnes[m] - TrailingOnes[m] + 1
                      /\ TrailingOnes[m] <= CountOnes[m]
           Bad == {m \in Nat : ~Good(m)}
<1> SUFFICES ASSUME Bad # {} PROVE FALSE
  BY Zenon
<1> HIDE DEF Good
<1>1. PICK m \in Bad : \A j \in Bad : m <= j
  BY LeastNatural, Zenon
<1>2. m \in Nat /\ m + 1 \in Nat /\ m + 1 # 0
  BY <1>1
<1>3. CountOnes[m + 1] = ((m + 1) % 2) + CountOnes[(m + 1) \div 2]
  BY <1>2, CountOnesIs, Zenon
<1>4. CountOnes[m] = IF m = 0 THEN 0 ELSE (m % 2) + CountOnes[m \div 2]
  BY <1>2, CountOnesIs, Zenon
<1>5. TrailingOnes[m] = IF m % 2 = 0 THEN 0 ELSE 1 + TrailingOnes[m \div 2]
  BY <1>2, TrailingOnesIs, Zenon
<1>6. CASE m % 2 = 0
  <2>1. (m + 1) % 2 = 1 /\ (m + 1) \div 2 = m \div 2 /\ (m = 0 => m \div 2 = 0)
    BY <1>2, <1>6
  <2>2. CountOnes[0] = 0
    BY CountOnesIs
  <2>3. CountOnes[m] \in Nat
    BY <1>2, CountOnesNat, Zenon
  <2>4. CountOnes[m + 1] = 1 + CountOnes[m \div 2]
    BY <1>3, <2>1, Zenon
  <2>5. CountOnes[m \div 2] \in Nat
    BY <1>2, CountOnesNat
  <2>6. CountOnes[m] = CountOnes[m \div 2]
    BY <1>4, <1>6, <2>1, <2>2, <2>5
  <2>7. TrailingOnes[m] = 0
    BY <1>5, <1>6, Zenon
  <2>8. Good(m)
    BY <2>3, <2>4, <2>6, <2>7 DEF Good
  <2> QED
    BY <1>1, <2>8, Zenon
<1>7. CASE m % 2 # 0
  <2>1. PICK k \in Nat : m \div 2 = k /\ (m + 1) \div 2 = k + 1 /\ k < m /\ m % 2 = 1
                         /\ (m + 1) % 2 = 0
    BY <1>2, <1>7
  <2>2. k \notin Bad /\ m # 0
    BY <1>1, <2>1
  <2>3. Good(k)
    BY <2>1, <2>2, Zenon
  <2>4. CountOnes[m + 1] = 0 + CountOnes[k + 1] /\ CountOnes[m] = 1 + CountOnes[k]
        /\ TrailingOnes[m] = 1 + TrailingOnes[k]
    BY <1>3, <1>4, <1>5, <1>7, <2>1, <2>2, Zenon
  <2>5. CountOnes[k + 1] \in Nat /\ CountOnes[k] \in Nat /\ TrailingOnes[k] \in Nat
    BY <2>1, CountOnesNat, TrailingOnesNat
  <2>6. Good(m)
    BY <2>3, <2>4, <2>5 DEF Good
  <2> QED
    BY <1>1, <2>6, Zenon
<1> QED
  BY <1>6, <1>7, Zenon

-----------------------------------------------------------------------------
(* The nodes a batch creates, as a list and one leaf at a time.            *)
Members(list) == {list[i] : i \in 1..Len(list)}

IsList(list) == \E S : list \in Seq(S)

LEMMA MembersOfJoined ==
  ASSUME NEW a, IsList(a), NEW b, IsList(b)
  PROVE  IsList(a \o b) /\ Members(a \o b) = Members(a) \cup Members(b)
<1>1. PICK A : a \in Seq(A)
  BY Zenon DEF IsList
<1>2. PICK B : b \in Seq(B)
  BY Zenon DEF IsList
<1>3. a \in Seq(A \cup B) /\ b \in Seq(A \cup B)
  BY <1>1, <1>2
<1>4. /\ a \o b \in Seq(A \cup B) /\ Len(a) \in Nat /\ Len(b) \in Nat
      /\ Len(a \o b) = Len(a) + Len(b)
      /\ \A i \in 1..Len(a) : (a \o b)[i] = a[i]
      /\ \A i \in 1..Len(b) : (a \o b)[Len(a) + i] = b[i]
  BY <1>3
<1>5. PICK both : both = a \o b
  BY Zenon
<1>6. \A i \in 1..Len(a) : i \in 1..Len(both) /\ both[i] = a[i]
  BY <1>4, <1>5
<1>7. \A i \in 1..Len(b) : Len(a) + i \in 1..Len(both) /\ both[Len(a) + i] = b[i]
  BY <1>4, <1>5
<1>8. \A i \in 1..Len(both) :
        i \in 1..Len(a) \/ (i - Len(a) \in 1..Len(b) /\ Len(a) + (i - Len(a)) = i)
  BY <1>4, <1>5
<1>9. Members(a) \cup Members(b) \subseteq Members(both)
  BY <1>6, <1>7, Zenon DEF Members
<1>10. Members(both) \subseteq Members(a) \cup Members(b)
  <2>1. SUFFICES ASSUME NEW i \in 1..Len(both)
                 PROVE  both[i] \in Members(a) \cup Members(b)
    BY Zenon DEF Members
  <2>2. CASE i \in 1..Len(a)
    BY <1>6, <2>2, Zenon DEF Members
  <2>3. CASE i - Len(a) \in 1..Len(b) /\ Len(a) + (i - Len(a)) = i
    <3>1. both[i] = b[i - Len(a)]
      BY <1>7, <2>3, Zenon
    <3> QED
      BY <2>3, <3>1, Zenon DEF Members
  <2> QED
    BY <1>8, <2>2, <2>3, Zenon
<1>11. IsList(both)
  BY <1>4, <1>5, Zenon DEF IsList
<1> QED
  BY <1>5, <1>9, <1>10, <1>11, Zenon

LEMMA NothingIsList == IsList(<<>>) /\ Members(<<>>) = {}
<1>1. <<>> \in Seq({}) /\ Len(<<>>) = 0 /\ 1..0 = {}
  OBVIOUS
<1> QED
  BY <1>1, Zenon DEF IsList, Members

LEMMA CarriedHashes ==
  ASSUME NEW mmr, Counted(mmr), NEW tx
  PROVE  /\ TrailingOnes[mmr.size] \in Nat
         /\ Len(CarryHashes(mmr, tx)) = TrailingOnes[mmr.size] + 1
         /\ CarryHashes(mmr, tx)[1] = LeafHash(tx)
         /\ \A j \in 1..TrailingOnes[mmr.size] :
              CarryHashes(mmr, tx)[j + 1] =
                NodeHash(mmr.peaks[Len(mmr.peaks) - j + 1], CarryHashes(mmr, tx)[j])
<1> DEFINE merged == TrailingOnes[mmr.size]
<1>2. merged \in Nat
  BY TrailingOnesNat, Zenon DEF Counted
<1> DEFINE IsHash(f, n) ==
      f = [j \in 0..n |-> IF j = 0 THEN LeafHash(tx)
                          ELSE NodeHash(mmr.peaks[Len(mmr.peaks) - j + 1], f[j - 1])]
<1>3. \E f : IsHash(f, merged)
  <2> DEFINE Bad == {m \in Nat : ~\E f : IsHash(f, m)}
  <2> SUFFICES ASSUME Bad # {} PROVE FALSE
    BY <1>2, Zenon
  <2>1. PICK m \in Bad : \A j \in Bad : m <= j
    BY LeastNatural, Zenon
  <2>2. m # 0
    <3> DEFINE f == [j \in 0..0 |-> LeafHash(tx)]
    <3>1. \A j \in 0..0 : j = 0
      OBVIOUS
    <3>2. IsHash(f, 0)
      BY <3>1, Zenon
    <3> QED
      BY <2>1, <3>2, Zenon
  <2>3. m - 1 \in Nat /\ m - 1 \notin Bad
    <3> HIDE DEF Bad
    <3>1. Bad \in SUBSET Nat
      BY Zenon DEF Bad
    <3> QED
      BY <2>1, <2>2, <3>1
  <2>4. PICK f : IsHash(f, m - 1)
    BY <2>3, Zenon
  <2> DEFINE top == NodeHash(mmr.peaks[Len(mmr.peaks) - m + 1], f[m - 1])
             g == [j \in 0..m |-> IF j = m THEN top ELSE f[j]]
  <2>5. \A j \in 0..(m - 1) :
          f[j] = IF j = 0 THEN LeafHash(tx)
                 ELSE NodeHash(mmr.peaks[Len(mmr.peaks) - j + 1], f[j - 1])
    BY <2>4, Zenon
  <2>6. \A j \in 0..m : j # m => j \in 0..(m - 1) /\ (j # 0 => j - 1 \in 0..(m - 1))
    BY <2>1, <2>2
  <2>7. m - 1 \in 0..m /\ m - 1 # m /\ m \in 0..m
        /\ \A j \in 0..(m - 1) : j \in 0..m /\ j # m
    BY <2>1, <2>2
  <2>8. \A j \in 0..m :
          g[j] = IF j = 0 THEN LeafHash(tx)
                 ELSE NodeHash(mmr.peaks[Len(mmr.peaks) - j + 1], g[j - 1])
    <3>1. g[m] = top /\ g[m - 1] = f[m - 1] /\ \A j \in 0..(m - 1) : g[j] = f[j]
      BY <2>7, Zenon
    <3> HIDE DEF g
    <3> QED
      BY <2>2, <2>5, <2>6, <3>1, Zenon
  <2>9. IsHash(g, m)
    BY <2>8, Zenon
  <2> QED
    BY <2>1, <2>9, Zenon
<1> DEFINE f == CHOOSE h : IsHash(h, merged)
<1>4. CarryHashes(mmr, tx) = [j \in 1..(merged + 1) |-> f[j - 1]]
  BY Zenon DEF CarryHashes
<1>5. IsHash(f, merged)
  BY <1>3, Zenon
<1> HIDE DEF f, merged
<1>6. 0 \in 0..merged /\ 1 \in 1..(merged + 1) /\ merged + 1 \in Nat /\ 1 - 1 = 0
  BY <1>2
<1>7. f[0] = LeafHash(tx)
  BY <1>5, <1>6, Zenon
<1>8. ASSUME NEW j \in 1..merged
      PROVE  CarryHashes(mmr, tx)[j + 1] =
               NodeHash(mmr.peaks[Len(mmr.peaks) - j + 1], CarryHashes(mmr, tx)[j])
  <2>1. /\ j \in 0..merged /\ j # 0 /\ (j + 1) - 1 = j
        /\ j + 1 \in 1..(merged + 1) /\ j \in 1..(merged + 1)
    BY <1>2
  <2>2. f[j] = NodeHash(mmr.peaks[Len(mmr.peaks) - j + 1], f[j - 1])
    BY <1>5, <2>1, Zenon
  <2>3. CarryHashes(mmr, tx)[j + 1] = f[(j + 1) - 1] /\ CarryHashes(mmr, tx)[j] = f[j - 1]
    BY <1>4, <2>1, Zenon
  <2> QED
    BY <2>1, <2>2, <2>3, Zenon
<1> HIDE DEF IsHash
<1>9. Len(CarryHashes(mmr, tx)) = merged + 1
  BY <1>4, <1>6
<1>10. CarryHashes(mmr, tx)[1] = LeafHash(tx)
  <2>1. CarryHashes(mmr, tx)[1] = f[1 - 1]
    BY <1>4, <1>6, Zenon
  <2> QED
    BY <1>6, <1>7, <2>1, Zenon
<1> QED
  BY <1>2, <1>8, <1>9, <1>10, Zenon DEF merged

LEMMA IndexedIsList ==
  ASSUME NEW n \in Nat, NEW list, list = [j \in 1..n |-> list[j]]
  PROVE  IsList(list) /\ Len(list) = n
<1>1. PICK S : S = {list[j] : j \in 1..n}
  BY Zenon
<1>2. \A j \in 1..n : list[j] \in S
  BY <1>1, Zenon
<1>3. list \in Seq(S) /\ Len(list) = n
  BY <1>2
<1> QED
  BY <1>3, Zenon DEF IsList

(* The nodes of one leaf: the leaf's own first, at the positions from      *)
(* node_count up to the next node_count.                                   *)
LEMMA LeafNodes ==
  ASSUME NEW mmr, Counted(mmr), NEW tx
  PROVE  LET added == added_nodes(mmr, tx)
         IN /\ IsList(added)
            /\ Len(added) \in Nat \ {0}
            /\ added[1] = [pos |-> mmr.node_count, hash |-> LeafHash(tx)]
            /\ \A j \in 1..Len(added) : added[j].pos = mmr.node_count + j - 1
            /\ add_leaf(mmr, tx).node_count = mmr.node_count + Len(added)
<1>1. PICK hashes : hashes = CarryHashes(mmr, tx)
  BY Zenon
<1>2. PICK merged : merged = TrailingOnes[mmr.size]
  BY Zenon
<1>3. merged \in Nat /\ Len(hashes) = merged + 1 /\ hashes[1] = LeafHash(tx)
  BY <1>1, <1>2, CarriedHashes, Zenon
<1>4. PICK start \in Nat : start = mmr.node_count
  BY Zenon DEF Counted
<1>5. PICK added : added = added_nodes(mmr, tx)
  BY Zenon
<1>6. added = [j \in 1..Len(hashes) |-> [pos |-> start + j - 1, hash |-> hashes[j]]]
  BY <1>1, <1>4, <1>5, Zenon DEF added_nodes
<1>7. IsList(added) /\ Len(added) = merged + 1
  <2>1. merged + 1 \in Nat
    BY <1>3
  <2>2. added = [j \in 1..(merged + 1) |-> added[j]]
    BY <1>3, <1>6, Zenon
  <2> QED
    BY <2>1, <2>2, IndexedIsList, Zenon
<1>8. \A j \in 1..Len(added) : added[j] = [pos |-> start + j - 1, hash |-> hashes[j]]
  BY <1>3, <1>6, <1>7, Zenon
<1>9. \A j \in 1..Len(added) : added[j].pos = start + j - 1
  <2>1. SUFFICES ASSUME NEW j \in 1..Len(added)
                 PROVE  added[j].pos = start + j - 1
    BY Zenon
  <2>2. PICK at : at = start + j - 1
    BY Zenon
  <2>3. added[j] = [pos |-> at, hash |-> hashes[j]]
    BY <1>8, <2>2, Zenon
  <2>4. added[j].pos = at
    BY <2>3
  <2> QED
    BY <2>2, <2>4, Zenon
<1>10. 1 \in 1..Len(added) /\ start + 1 - 1 = start /\ Len(added) \in Nat \ {0}
  BY <1>3, <1>7
<1>11. added[1] = [pos |-> start, hash |-> LeafHash(tx)]
  <2>1. added[1] = [pos |-> start + 1 - 1, hash |-> hashes[1]]
    BY <1>8, <1>10, Zenon
  <2> QED
    BY <1>3, <1>10, <2>1, Zenon
<1>12. add_leaf(mmr, tx).node_count = start + Len(added)
  <2>1. PICK peaks :
          add_leaf(mmr, tx) = [peaks |-> peaks, size |-> mmr.size + 1,
                               node_count |-> mmr.node_count + merged + 1]
    BY <1>2, Zenon DEF add_leaf
  <2>2. add_leaf(mmr, tx).node_count = mmr.node_count + merged + 1
    BY <2>1
  <2>3. start + merged + 1 = start + (merged + 1)
    BY <1>3
  <2> QED
    BY <1>4, <1>7, <2>2, <2>3, Zenon
<1> QED
  BY <1>4, <1>5, <1>7, <1>9, <1>10, <1>11, <1>12, Zenon

IsNodes(f, n, mmr, txs) ==
  f = [k \in 0..n |-> IF k = 0 THEN <<>>
                      ELSE f[k - 1] \o added_nodes(Fed(mmr, txs)[k - 1], txs[k])]

LEMMA NodesExist ==
  ASSUME NEW n \in Nat, NEW mmr, NEW txs
  PROVE  \E f : IsNodes(f, n, mmr, txs)
<1> DEFINE Bad == {m \in Nat : ~\E f : IsNodes(f, m, mmr, txs)}
           new(k) == added_nodes(Fed(mmr, txs)[k - 1], txs[k])
<1> SUFFICES ASSUME Bad # {} PROVE FALSE
  BY Zenon
<1>1. PICK m \in Bad : \A j \in Bad : m <= j
  BY LeastNatural, Zenon
<1>2. m # 0
  <2> DEFINE f == [k \in 0..0 |-> <<>>]
  <2>1. \A k \in 0..0 : k = 0
    OBVIOUS
  <2>2. f = [k \in 0..0 |-> IF k = 0 THEN <<>> ELSE f[k - 1] \o new(k)]
    BY <2>1, Zenon
  <2> QED
    BY <1>1, <2>2, Zenon DEF IsNodes
<1>3. m - 1 \in Nat /\ m - 1 \notin Bad
  BY <1>1, <1>2
<1>4. PICK f : IsNodes(f, m - 1, mmr, txs)
  BY <1>3, Zenon
<1> DEFINE g == [k \in 0..m |-> IF k = m THEN f[m - 1] \o new(m) ELSE f[k]]
<1>5. \A k \in 0..(m - 1) : f[k] = IF k = 0 THEN <<>> ELSE f[k - 1] \o new(k)
  BY <1>4, Zenon DEF IsNodes
<1>6. \A k \in 0..m : g[k] = IF k = 0 THEN <<>> ELSE g[k - 1] \o new(k)
  <2>1. /\ m - 1 \in 0..m /\ m - 1 # m /\ m \in 0..m
        /\ \A k \in 0..(m - 1) : k \in 0..m /\ k # m
        /\ \A k \in 0..m : k # m => k \in 0..(m - 1) /\ (k # 0 => k - 1 \in 0..(m - 1))
    BY <1>2, <1>3
  <2>2. /\ g[m] = f[m - 1] \o new(m) /\ g[m - 1] = f[m - 1]
        /\ \A k \in 0..(m - 1) : g[k] = f[k]
    BY <2>1, Zenon
  <2> HIDE DEF g, new
  <2> QED
    BY <1>2, <1>5, <2>1, <2>2, Zenon
<1>7. IsNodes(g, m, mmr, txs)
  BY <1>6, Zenon DEF IsNodes
<1> QED
  BY <1>1, <1>7, Zenon

(* The nodes of the k-th leaf of txs.                                      *)
NodesOf(mmr, txs, k) == Members(added_nodes(Fed(mmr, txs)[k - 1], txs[k]))

(* What batch_nodes lists is what the leaves create.                       *)
LEMMA NodesOfBatch ==
  ASSUME NEW mmr, Counted(mmr), NEW txs, Len(txs) \in Nat
  PROVE  /\ IsList(batch_nodes(mmr, txs))
         /\ \A x : x \in Members(batch_nodes(mmr, txs))
                     <=> \E k \in 1..Len(txs) : x \in NodesOf(mmr, txs, k)
<1> DEFINE nodes == CHOOSE f : IsNodes(f, Len(txs), mmr, txs)
           new(k) == added_nodes(Fed(mmr, txs)[k - 1], txs[k])
           Good(k) == /\ IsList(nodes[k])
                      /\ \A x : x \in Members(nodes[k])
                                  <=> \E j \in 1..k : x \in NodesOf(mmr, txs, j)
<1>1. batch_nodes(mmr, txs) = nodes[Len(txs)]
  BY Zenon DEF batch_nodes, IsNodes
<1>2. IsNodes(nodes, Len(txs), mmr, txs)
  BY NodesExist, Zenon
<1> HIDE DEF nodes
<1>3. \A k \in 0..Len(txs) : nodes[k] = IF k = 0 THEN <<>> ELSE nodes[k - 1] \o new(k)
  BY <1>2, Zenon DEF IsNodes
<1>4. \A k \in 1..Len(txs) : IsList(new(k))
  <2>1. \A k \in 0..Len(txs) : Counted(Fed(mmr, txs)[k])
    BY PrefixIsCounted, Zenon
  <2>2. \A k \in 1..Len(txs) : k - 1 \in 0..Len(txs)
    OBVIOUS
  <2> QED
    BY <2>1, <2>2, LeafNodes, Zenon
<1>5. Good(0)
  <2>1. 0 \in 0..Len(txs) /\ 1..0 = {}
    OBVIOUS
  <2>2. nodes[0] = <<>>
    BY <1>3, <2>1, Zenon
  <2> QED
    BY <2>1, <2>2, NothingIsList, Zenon
<1>6. ASSUME NEW k \in 1..Len(txs), Good(k - 1) PROVE Good(k)
  <2>1. k \in 0..Len(txs) /\ k # 0
        /\ \A j : j \in 1..k <=> (j \in 1..(k - 1) \/ j = k)
    OBVIOUS
  <2>2. nodes[k] = nodes[k - 1] \o new(k)
    BY <1>3, <2>1, Zenon
  <2>3. IsList(nodes[k]) /\ Members(nodes[k]) = Members(nodes[k - 1]) \cup Members(new(k))
    BY <1>4, <1>6, <2>2, MembersOfJoined, Zenon
  <2>4. Members(new(k)) = NodesOf(mmr, txs, k)
    BY Zenon DEF NodesOf
  <2> QED
    BY <1>6, <2>1, <2>3, <2>4, Zenon
<1>7. \A k \in 0..Len(txs) : Good(k)
  <2> DEFINE Bad == {k \in 0..Len(txs) : ~Good(k)}
  <2> SUFFICES ASSUME Bad # {} PROVE FALSE
    BY Zenon
  <2> HIDE DEF Good
  <2>1. PICK k \in Bad : \A j \in Bad : k <= j
    <3>1. Bad \in SUBSET Nat
      OBVIOUS
    <3> QED
      BY <3>1, LeastNatural, Zenon
  <2>2. k # 0
    BY <1>5, <2>1, Zenon
  <2>3. k \in 1..Len(txs) /\ k - 1 \in 0..Len(txs) /\ k - 1 \notin Bad
    BY <2>1, <2>2
  <2> QED
    BY <1>6, <2>1, <2>3, Zenon
<1>8. Len(txs) \in 0..Len(txs)
  OBVIOUS
<1> QED
  BY <1>1, <1>7, <1>8, Zenon

-----------------------------------------------------------------------------
(* set_mmr_state: what add_leaf and get_root do with an MMR depends on its *)
(* peaks and its size alone.                                               *)
Alike(mmr, other) == mmr.peaks = other.peaks /\ mmr.size = other.size

Carried(peaks, size, tx) ==
  LET merged == TrailingOnes[size]
      Hash[j \in 0..merged] ==
        IF j = 0 THEN LeafHash(tx)
        ELSE NodeHash(peaks[Len(peaks) - j + 1], Hash[j - 1])
  IN [j \in 1..(merged + 1) |-> Hash[j - 1]]

Bagged(peaks) ==
  LET bagged[k \in 1..Len(peaks)] ==
        IF k = 1 THEN peaks[1] ELSE NodeHash(peaks[k], bagged[k - 1])
  IN IF peaks = <<>> THEN ZeroHash ELSE bagged[Len(peaks)]

LEMMA RootOfPeaks ==
  ASSUME NEW mmr
  PROVE  get_root(mmr) = Bagged(mmr.peaks)
  BY Zenon DEF get_root, Bagged

LEMMA LeafKeepsAlike ==
  ASSUME NEW mmr, NEW other, Alike(mmr, other), NEW tx
  PROVE  Alike(add_leaf(mmr, tx), add_leaf(other, tx))
<1> DEFINE After(peaks, size) ==
      LET merged == TrailingOnes[size]
      IN Append(SubSeq(peaks, 1, Len(peaks) - merged), Carried(peaks, size, tx)[merged + 1])
<1>1. ASSUME NEW m
      PROVE  add_leaf(m, tx).peaks = After(m.peaks, m.size) /\ add_leaf(m, tx).size = m.size + 1
  <2>1. CarryHashes(m, tx) = Carried(m.peaks, m.size, tx)
    BY Zenon DEF CarryHashes, Carried
  <2>2. PICK peaks : peaks = After(m.peaks, m.size)
    BY Zenon
  <2>3. PICK count : add_leaf(m, tx) = [peaks |-> peaks, size |-> m.size + 1, node_count |-> count]
    BY <2>1, <2>2, Zenon DEF add_leaf
  <2>4. add_leaf(m, tx).peaks = peaks /\ add_leaf(m, tx).size = m.size + 1
    BY <2>3
  <2> QED
    BY <2>2, <2>4, Zenon
<1> HIDE DEF After
<1> QED
  BY <1>1, Zenon DEF Alike

LEMMA LeavesKeepAlike ==
  ASSUME NEW mmr, NEW other, Alike(mmr, other), NEW txs, Len(txs) \in Nat
  PROVE  Alike(FeedMMR(mmr, txs), FeedMMR(other, txs))
<1> DEFINE fed == Fed(mmr, txs)
           same == Fed(other, txs)
           Bad == {k \in 0..Len(txs) : ~Alike(fed[k], same[k])}
<1>1. Feeds(fed, mmr, txs) /\ Feeds(same, other, txs)
  BY FedIs, Zenon
<1>2. FeedMMR(mmr, txs) = fed[Len(txs)] /\ FeedMMR(other, txs) = same[Len(txs)]
  BY Zenon DEF FeedMMR
<1> HIDE DEF fed, same
<1>3. Len(txs) \in 0..Len(txs)
  OBVIOUS
<1> SUFFICES ASSUME Bad # {} PROVE FALSE
  BY <1>2, <1>3, Zenon
<1>4. PICK k \in Bad : \A j \in Bad : k <= j
  <2>1. Bad \in SUBSET Nat
    OBVIOUS
  <2> QED
    BY <2>1, LeastNatural, Zenon
<1>5. k # 0
  BY <1>1, <1>4, Zenon DEF Feeds
<1>6. k \in 1..Len(txs) /\ k - 1 \in 0..Len(txs) /\ k - 1 \notin Bad
  BY <1>4, <1>5
<1>7. Alike(fed[k - 1], same[k - 1])
  BY <1>6, Zenon
<1>8. Alike(add_leaf(fed[k - 1], txs[k]), add_leaf(same[k - 1], txs[k]))
  BY <1>7, LeafKeepsAlike, Zenon
<1>9. Alike(fed[k], same[k])
  BY <1>1, <1>6, <1>8, Zenon DEF Feeds
<1> QED
  BY <1>4, <1>9, Zenon
=============================================================================
