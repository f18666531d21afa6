-------------------------- MODULE NexusSync_proofs --------------------------
(***************************************************************************)
(* What process_microblock writes to Redis, for any number of workers,     *)
(* microblocks, failures and restarts.  merkle_root is never expanded: the *)
(* argument is about which leaf list a root was computed from.  Before it, *)
(* the positions of the nodes it stores in Kwil, for any leaf list.        *)
(***************************************************************************)
EXTENDS NexusSync, MMR_proofs

-----------------------------------------------------------------------------
(* A Mountain Range has a peak for each one bit of its size, and as many   *)
(* nodes as the position arithmetic says.                                  *)
Ranged(mmr) ==
  /\ mmr.size \in Nat
  /\ \E S : mmr.peaks \in Seq(S)
  /\ Len(mmr.peaks) = CountOnes[mmr.size]
  /\ mmr.node_count = get_mmr_node_pos(mmr.size)

LEMMA EmptyIsRanged == Ranged(EmptyMMR)
<1>1. CountOnes[0] = 0
  BY CountOnesIs
<1>2. EmptyMMR.peaks = <<>> /\ EmptyMMR.size = 0 /\ EmptyMMR.node_count = 0
  BY DEF EmptyMMR
<1>3. get_mmr_node_pos(0) = 0
  BY <1>1 DEF get_mmr_node_pos
<1>4. <<>> \in Seq({}) /\ Len(<<>>) = 0 /\ 0 \in Nat
  OBVIOUS
<1> QED
  BY <1>1, <1>2, <1>3, <1>4, Zenon DEF Ranged

LEMMA LeafKeepsRange ==
  ASSUME NEW mmr, Ranged(mmr), NEW tx
  PROVE  Ranged(add_leaf(mmr, tx)) /\ PeaksSuffice(mmr)
<1>1. PICK n \in Nat : n = mmr.size
  BY Zenon DEF Ranged
<1>2. PICK merged : merged = TrailingOnes[n]
  BY Zenon
<1>3. PICK ones : ones = CountOnes[n]
  BY Zenon
<1>4. merged \in Nat /\ ones \in Nat /\ merged <= ones /\ CountOnes[n + 1] = ones - merged + 1
  BY <1>1, <1>2, <1>3, Carry, CountOnesNat, TrailingOnesNat, Zenon
<1>5. PICK S : mmr.peaks \in Seq(S)
  BY Zenon DEF Ranged
<1>6. PICK peaks \in Seq(S) : peaks = mmr.peaks
  BY <1>5, Zenon
<1>7. Len(peaks) = ones
  BY <1>1, <1>3, <1>6, Zenon DEF Ranged
<1>8. PICK hash : hash = CarryHashes(mmr, tx)[merged + 1]
  BY Zenon
<1> DEFINE added == Append(SubSeq(peaks, 1, ones - merged), hash)
<1>9. add_leaf(mmr, tx) = [peaks |-> added, size |-> n + 1,
                           node_count |-> mmr.node_count + merged + 1]
  BY <1>1, <1>2, <1>6, <1>7, <1>8, Zenon DEF add_leaf
<1>10. SubSeq(peaks, 1, ones - merged) \in Seq(S)
       /\ Len(SubSeq(peaks, 1, ones - merged)) = ones - merged
  BY <1>4, <1>7
<1>11. added \in Seq(S \cup {hash}) /\ Len(added) = ones - merged + 1
  <2>1. SubSeq(peaks, 1, ones - merged) \in Seq(S \cup {hash})
    BY <1>10
  <2> QED
    BY <1>10, <2>1
<1> HIDE DEF added
<1>12. mmr.node_count = 2 * n - ones
  BY <1>1, <1>3, Zenon DEF Ranged, get_mmr_node_pos
<1>13. get_mmr_node_pos(n + 1) = mmr.node_count + merged + 1
  BY <1>4, <1>12 DEF get_mmr_node_pos
<1>14. /\ add_leaf(mmr, tx).peaks = added /\ add_leaf(mmr, tx).size = n + 1
       /\ add_leaf(mmr, tx).node_count = mmr.node_count + merged + 1
       /\ n + 1 \in Nat
  BY <1>9
<1>15. Ranged(add_leaf(mmr, tx))
  BY <1>4, <1>11, <1>13, <1>14, Zenon DEF Ranged
<1>16. PeaksSuffice(mmr)
  BY <1>1, <1>2, <1>4, <1>6, <1>7, Zenon DEF PeaksSuffice
<1> QED
  BY <1>15, <1>16, Zenon

(* However many leaves have been added, add_leaf's "Peak must exist if bit *)
(* is set" holds for the next one, there is a peak for each one bit of the *)
(* size, and node_count is the position get_mmr_node_pos gives the next    *)
(* leaf.                                                                   *)
THEOREM PeakIsAlwaysThere ==
  ASSUME NEW txs, Len(txs) \in Nat, NEW k \in 0..Len(txs)
  PROVE  LET mmr == Fed(EmptyMMR, txs)[k]
         IN /\ PeaksSuffice(mmr)
            /\ mmr.size = k
            /\ Len(mmr.peaks) = CountOnes[k]
            /\ mmr.node_count = get_mmr_node_pos(k)
<1> DEFINE fed == Fed(EmptyMMR, txs)
           Good(i) == Ranged(fed[i]) /\ fed[i].size = i
<1>1. Feeds(fed, EmptyMMR, txs)
  BY FedIs, Zenon
<1>2. fed[0] = EmptyMMR /\ \A i \in 1..Len(txs) : fed[i] = add_leaf(fed[i - 1], txs[i])
  BY <1>1, Zenon DEF Feeds
<1> HIDE DEF fed
<1>3. Good(0)
  <2>1. EmptyMMR.size = 0
    BY DEF EmptyMMR
  <2> QED
    BY <1>2, <2>1, EmptyIsRanged, Zenon
<1>4. ASSUME NEW i \in 1..Len(txs), Good(i - 1) PROVE Good(i)
  <2>1. Ranged(fed[i])
    BY <1>2, <1>4, LeafKeepsRange, Zenon
  <2>2. fed[i].size = fed[i - 1].size + 1
    <3>1. PICK before : before = fed[i - 1]
      BY Zenon
    <3>2. add_leaf(before, txs[i]).size = before.size + 1
      BY DEF add_leaf
    <3> QED
      BY <1>2, <3>1, <3>2, Zenon
  <2>3. fed[i].size = i
    BY <1>4, <2>2
  <2> QED
    BY <2>1, <2>3, Zenon
<1>5. \A i \in 0..Len(txs) : Good(i)
  <2> DEFINE Bad == {i \in 0..Len(txs) : ~Good(i)}
  <2> SUFFICES ASSUME Bad # {} PROVE FALSE
    BY Zenon
  <2> HIDE DEF Good
  <2>1. PICK i \in Bad : \A j \in Bad : i <= j
    <3>1. Bad \in SUBSET Nat
      OBVIOUS
    <3> QED
      BY <3>1, LeastNatural, Zenon
  <2>2. i # 0
    BY <1>3, <2>1, Zenon
  <2>3. i \in 1..Len(txs) /\ i - 1 \in 0..Len(txs) /\ i - 1 \notin Bad
    BY <2>1, <2>2
  <2> QED
    BY <1>4, <2>1, <2>3, Zenon
<1>6. Ranged(fed[k]) /\ fed[k].size = k
  BY <1>5, Zenon
<1>7. PeaksSuffice(fed[k])
  BY <1>6, LeafKeepsRange, Zenon
<1>8. Len(fed[k].peaks) = CountOnes[k] /\ fed[k].node_count = get_mmr_node_pos(k)
  BY <1>6, Zenon DEF Ranged
<1> QED
  BY <1>6, <1>7, <1>8, Zenon DEF fed

-----------------------------------------------------------------------------
LEMMA HeadAndTail ==
  ASSUME NEW list, IsList(list), list # <<>>
  PROVE  /\ IsList(Tail(list)) /\ Members(Tail(list)) \subseteq Members(list)
         /\ Head(list) \in Members(list)
<1>1. PICK S : list \in Seq(S)
  BY Zenon DEF IsList
<1>2. /\ Tail(list) \in Seq(S) /\ Head(list) = list[1] /\ 1 \in 1..Len(list)
      /\ \A i \in 1..Len(Tail(list)) : Tail(list)[i] = list[i + 1] /\ i + 1 \in 1..Len(list)
  BY <1>1
<1>3. \A i \in 1..Len(list) : list[i] \in Members(list)
  BY Zenon DEF Members
<1>4. \A i \in 1..Len(Tail(list)) : Tail(list)[i] \in Members(list)
  BY <1>2, <1>3, Zenon
<1>5. Members(Tail(list)) \subseteq Members(list)
  BY <1>4, Zenon DEF Members
<1> QED
  BY <1>2, <1>3, <1>5, Zenon DEF IsList

(* A batch after a list adds its own nodes and leaves the list's alone.    *)
AddsItsNodes(mmr, list, batch) ==
  Members(batch_nodes(mmr, list \o batch))
    = Members(batch_nodes(mmr, list)) \cup Members(batch_nodes(FeedMMR(mmr, list), batch))

LEMMA BatchAddsItsNodes ==
  ASSUME NEW S, NEW list \in Seq(S), NEW batch \in Seq(S), NEW mmr, Counted(mmr)
  PROVE  AddsItsNodes(mmr, list, batch)
<1> DEFINE m == Len(list)
           n == Len(batch)
           both == list \o batch
           after == FeedMMR(mmr, list)
<1>1. /\ m \in Nat /\ n \in Nat /\ Len(both) = m + n /\ Len(both) \in Nat
      /\ \A k \in 1..m : both[k] = list[k]
      /\ \A k \in 1..n : both[m + k] = batch[k]
  OBVIOUS
<1>2. Counted(after)
  BY <1>1, LeavesAreCounted, Zenon
<1>3. Joins(Fed(mmr, both), Fed(mmr, list), Fed(after, batch), m, n)
  BY FedConcat, Zenon
<1> HIDE DEF m, n, both, after
<1>4. \A k \in 1..m : NodesOf(mmr, both, k) = NodesOf(mmr, list, k)
  <2>1. \A k \in 1..m : k - 1 \in 0..m
    BY <1>1
  <2> QED
    BY <1>1, <1>3, <2>1, Zenon DEF NodesOf, Joins
<1>5. \A k \in 1..n : NodesOf(mmr, both, m + k) = NodesOf(after, batch, k)
  <2>1. SUFFICES ASSUME NEW k \in 1..n
                 PROVE  NodesOf(mmr, both, m + k) = NodesOf(after, batch, k)
    BY Zenon
  <2>2. PICK i : i = m + k
    BY Zenon
  <2>3. k - 1 \in 0..n /\ i - 1 = m + (k - 1)
    BY <1>1, <2>2
  <2>4. Fed(mmr, both)[i - 1] = Fed(after, batch)[k - 1]
    BY <1>3, <2>3, Zenon DEF Joins
  <2>5. both[i] = batch[k]
    BY <1>1, <2>2, Zenon
  <2>6. NodesOf(mmr, both, i) = NodesOf(after, batch, k)
    BY <2>4, <2>5, Zenon DEF NodesOf
  <2> QED
    BY <2>2, <2>6, Zenon
<1>6. \A k \in 1..m : k \in 1..(m + n)
  BY <1>1
<1>7. \A k \in 1..n : m + k \in 1..(m + n)
  BY <1>1
<1>8. \A k \in 1..(m + n) : k \in 1..m \/ (k - m \in 1..n /\ m + (k - m) = k)
  BY <1>1
<1>9. \A x : x \in Members(batch_nodes(mmr, both))
               <=> \E k \in 1..(m + n) : x \in NodesOf(mmr, both, k)
  BY <1>1, NodesOfBatch, Zenon
<1>10. \A x : x \in Members(batch_nodes(mmr, list))
                <=> \E k \in 1..m : x \in NodesOf(mmr, list, k)
  BY <1>1, NodesOfBatch, Zenon DEF m
<1>11. \A x : x \in Members(batch_nodes(after, batch))
                <=> \E k \in 1..n : x \in NodesOf(after, batch, k)
  BY <1>1, <1>2, NodesOfBatch, Zenon DEF n
<1>12. ASSUME NEW x
       PROVE  x \in Members(batch_nodes(mmr, both))
                <=> x \in Members(batch_nodes(mmr, list))
                    \/ x \in Members(batch_nodes(after, batch))
  <2>1. ASSUME x \in Members(batch_nodes(mmr, list))
        PROVE  x \in Members(batch_nodes(mmr, both))
    BY <1>4, <1>6, <1>9, <1>10, <2>1, Zenon
  <2>2. ASSUME x \in Members(batch_nodes(after, batch))
        PROVE  x \in Members(batch_nodes(mmr, both))
    BY <1>5, <1>7, <1>9, <1>11, <2>2, Zenon
  <2>3. ASSUME x \in Members(batch_nodes(mmr, both))
        PROVE  x \in Members(batch_nodes(mmr, list))
               \/ x \in Members(batch_nodes(after, batch))
    <3>1. PICK k \in 1..(m + n) : x \in NodesOf(mmr, both, k)
      BY <1>9, <2>3, Zenon
    <3>2. CASE k \in 1..m
      BY <1>4, <1>10, <3>1, <3>2, Zenon
    <3>3. CASE k - m \in 1..n /\ m + (k - m) = k
      <4>1. x \in NodesOf(after, batch, k - m)
        BY <1>5, <3>1, <3>3, Zenon
      <4> QED
        BY <1>11, <3>3, <4>1, Zenon
    <3> QED
      BY <1>8, <3>2, <3>3, Zenon
  <2> QED
    BY <2>1, <2>2, <2>3, Zenon
<1> QED
  BY <1>12, Zenon DEF both, after, AddsItsNodes

(* The node count never falls.                                             *)
LEMMA NodeCountGrows ==
  ASSUME NEW mmr, Counted(mmr), NEW txs, Len(txs) \in Nat,
         NEW a \in 0..Len(txs), NEW b \in 0..Len(txs), a <= b
  PROVE  Fed(mmr, txs)[a].node_count <= Fed(mmr, txs)[b].node_count
<1> DEFINE count(k) == Fed(mmr, txs)[k].node_count
           Bad == {k \in 0..Len(txs) : a <= k /\ ~(count(a) <= count(k))}
<1> SUFFICES ASSUME Bad # {} PROVE FALSE
  BY Zenon
<1>1. \A k \in 0..Len(txs) : Counted(Fed(mmr, txs)[k])
  BY PrefixIsCounted, Zenon
<1>2. \A k \in 0..Len(txs) : count(k) \in Nat
  BY <1>1, Zenon DEF Counted
<1>3. \A k \in 1..Len(txs) : k - 1 \in 0..Len(txs) /\ count(k) > count(k - 1)
  <2>1. \A k \in 1..Len(txs) : k - 1 \in 0..Len(txs)
    OBVIOUS
  <2>2. Feeds(Fed(mmr, txs), mmr, txs)
    BY FedIs, Zenon
  <2>3. SUFFICES ASSUME NEW k \in 1..Len(txs) PROVE count(k) > count(k - 1)
    BY <2>1, Zenon
  <2>4. PICK before : before = Fed(mmr, txs)[k - 1]
    BY Zenon
  <2>5. Counted(before) /\ Fed(mmr, txs)[k] = add_leaf(before, txs[k])
    BY <1>1, <2>1, <2>2, <2>4, Zenon DEF Feeds
  <2>6. add_leaf(before, txs[k]).node_count > before.node_count
    BY <2>5, LeafIsCounted, Zenon
  <2> QED
    BY <2>4, <2>5, <2>6, Zenon
<1> HIDE DEF count
<1>4. PICK k \in Bad : \A j \in Bad : k <= j
  <2>1. Bad \in SUBSET Nat
    OBVIOUS
  <2> QED
    BY <2>1, LeastNatural, Zenon
<1>5. a # k
  BY <1>2, <1>4
<1>6. k \in 1..Len(txs) /\ a <= k - 1 /\ k - 1 \in 0..Len(txs) /\ k - 1 \notin Bad
  BY <1>4, <1>5
<1>7. count(a) <= count(k - 1)
  BY <1>6, Zenon
<1>8. count(a) \in Nat /\ count(k - 1) \in Nat /\ count(k) \in Nat /\ count(k) > count(k - 1)
  BY <1>2, <1>3, <1>6, Zenon
<1>9. count(a) <= count(k)
  BY <1>7, <1>8
<1> QED
  BY <1>4, <1>9, Zenon

(* The nodes of an MMR that txs were added to one by one: the leaf of      *)
(* every transaction is stored at the position get_mmr_node_pos gives its  *)
(* index, and no position is used twice, for any number of transactions.   *)
THEOREM NodesHaveTheirPlace ==
  ASSUME NEW txs, Len(txs) \in Nat
  PROVE  /\ \A k \in 1..Len(txs) :
              [pos |-> get_mmr_node_pos(k - 1), hash |-> LeafHash(txs[k])]
                \in Members(batch_nodes(EmptyMMR, txs))
         /\ \A x, y \in Members(batch_nodes(EmptyMMR, txs)) : x.pos = y.pos => x = y
<1> DEFINE fed == Fed(EmptyMMR, txs)
           new(k) == added_nodes(fed[k - 1], txs[k])
           start(k) == fed[k].node_count
<1>1. Counted(EmptyMMR)
  BY DEF Counted, EmptyMMR
<1>2. \A k \in 0..Len(txs) : Counted(fed[k])
  BY <1>1, PrefixIsCounted, Zenon
<1>3. \A k \in 1..Len(txs) : fed[k] = add_leaf(fed[k - 1], txs[k])
  <2>1. Feeds(fed, EmptyMMR, txs)
    BY FedIs, Zenon
  <2> QED
    BY <2>1, Zenon DEF Feeds
<1>4. \A x : x \in Members(batch_nodes(EmptyMMR, txs))
               <=> \E k \in 1..Len(txs) : x \in NodesOf(EmptyMMR, txs, k)
  BY <1>1, NodesOfBatch, Zenon
<1>5. \A k \in 0..Len(txs) : start(k) = get_mmr_node_pos(k)
  BY PeakIsAlwaysThere, Zenon
<1>6. \A a, b \in 0..Len(txs) : a <= b => start(a) <= start(b)
  BY <1>1, NodeCountGrows, Zenon
<1>7. \A k \in 0..Len(txs) : start(k) \in Nat
  BY <1>2, Zenon DEF Counted
<1>8. \A k \in 1..Len(txs) : NodesOf(EmptyMMR, txs, k) = {new(k)[i] : i \in 1..Len(new(k))}
  BY Zenon DEF NodesOf, Members
<1>9. ASSUME NEW k \in 1..Len(txs)
      PROVE  /\ k - 1 \in 0..Len(txs) /\ k \in 0..Len(txs)
             /\ Len(new(k)) \in Nat \ {0}
             /\ new(k)[1] = [pos |-> start(k - 1), hash |-> LeafHash(txs[k])]
             /\ \A i \in 1..Len(new(k)) : new(k)[i].pos = start(k - 1) + i - 1
             /\ start(k) = start(k - 1) + Len(new(k))
  <2>1. k - 1 \in 0..Len(txs) /\ k \in 0..Len(txs)
    OBVIOUS
  <2>2. PICK before : before = fed[k - 1]
    BY Zenon
  <2>3. Counted(before) /\ fed[k] = add_leaf(before, txs[k])
    BY <1>2, <1>3, <2>1, <2>2, Zenon
  <2>4. PICK added : added = added_nodes(before, txs[k])
    BY Zenon
  <2>5. /\ Len(added) \in Nat \ {0}
        /\ added[1] = [pos |-> before.node_count, hash |-> LeafHash(txs[k])]
        /\ \A i \in 1..Len(added) : added[i].pos = before.node_count + i - 1
        /\ add_leaf(before, txs[k]).node_count = before.node_count + Len(added)
    BY <2>3, <2>4, LeafNodes, Zenon
  <2> QED
    BY <2>1, <2>2, <2>3, <2>4, <2>5, Zenon
<1> HIDE DEF fed, new, start
<1>10. ASSUME NEW k \in 1..Len(txs)
       PROVE  [pos |-> get_mmr_node_pos(k - 1), hash |-> LeafHash(txs[k])]
                \in Members(batch_nodes(EmptyMMR, txs))
  <2>1. 1 \in 1..Len(new(k))
    <3>1. \A n \in Nat \ {0} : 1 \in 1..n
      OBVIOUS
    <3> QED
      BY <1>9, <3>1, Zenon
  <2>2. new(k)[1] \in NodesOf(EmptyMMR, txs, k)
    BY <1>8, <2>1, Zenon
  <2>3. start(k - 1) = get_mmr_node_pos(k - 1)
    BY <1>5, <1>9, Zenon
  <2> QED
    BY <1>4, <1>9, <2>2, <2>3, Zenon
<1>11. ASSUME NEW k \in 1..Len(txs), NEW i \in 1..Len(new(k))
       PROVE  start(k - 1) <= new(k)[i].pos /\ new(k)[i].pos < start(k)
              /\ new(k)[i].pos \in Nat
  <2>1. PICK p : p = start(k - 1)
    BY Zenon
  <2>2. PICK len : len = Len(new(k))
    BY Zenon
  <2>3. PICK at : at = new(k)[i].pos
    BY Zenon
  <2>4. p \in Nat /\ len \in Nat /\ i \in 1..len /\ at = p + i - 1 /\ start(k) = p + len
    <3>1. len \in Nat
      BY <1>9, <2>2
    <3> QED
      BY <1>7, <1>9, <2>1, <2>2, <2>3, <3>1, Zenon
  <2>5. p <= at /\ at < p + len /\ at \in Nat
    BY <2>4
  <2> QED
    BY <2>1, <2>3, <2>4, <2>5, Zenon
<1>12. ASSUME NEW k \in 1..Len(txs), NEW i \in 1..Len(new(k)),
              NEW l \in 1..Len(txs), NEW j \in 1..Len(new(l)),
              new(k)[i].pos = new(l)[j].pos
       PROVE  ~(k < l)
  <2>1. SUFFICES ASSUME k < l PROVE FALSE
    BY Zenon
  <2>2. k <= l - 1
    BY <2>1
  <2>3. start(k) <= start(l - 1)
    BY <1>6, <1>9, <2>2, Zenon
  <2>4. PICK p \in Nat : p = new(k)[i].pos
    BY <1>11, Zenon
  <2>5. p < start(k) /\ start(l - 1) <= p /\ start(k) \in Nat /\ start(l - 1) \in Nat
    BY <1>7, <1>9, <1>11, <1>12, <2>4, Zenon
  <2> QED
    BY <2>3, <2>5
<1>13. ASSUME NEW x \in Members(batch_nodes(EmptyMMR, txs)),
              NEW y \in Members(batch_nodes(EmptyMMR, txs)), x.pos = y.pos
       PROVE  x = y
  <2>1. PICK k \in 1..Len(txs) : x \in NodesOf(EmptyMMR, txs, k)
    BY <1>4, <1>13, Zenon
  <2>2. PICK i \in 1..Len(new(k)) : x = new(k)[i]
    BY <1>8, <2>1, Zenon
  <2>3. PICK l \in 1..Len(txs) : y \in NodesOf(EmptyMMR, txs, l)
    BY <1>4, <1>13, Zenon
  <2>4. PICK j \in 1..Len(new(l)) : y = new(l)[j]
    BY <1>8, <2>3, Zenon
  <2>5. ~(k < l) /\ ~(l < k)
    BY <1>12, <1>13, <2>2, <2>4, Zenon
  <2>6. k = l
    BY <2>5
  <2>7. PICK p \in Nat : p = start(k - 1)
    BY <1>7, <1>9, Zenon
  <2>8. p + i - 1 = p + j - 1
    BY <1>9, <1>13, <2>2, <2>4, <2>6, <2>7, Zenon
  <2>9. i \in Int /\ j \in Int
    <3>1. \A n \in Nat : \A q \in 1..n : q \in Int
      OBVIOUS
    <3>2. \A q \in 1..Len(txs) : Len(new(q)) \in Nat
      BY <1>9
    <3> QED
      BY <3>1, <3>2, Zenon
  <2>10. i = j
    BY <2>8, <2>9
  <2> QED
    BY <2>2, <2>4, <2>6, <2>10, Zenon
<1> QED
  BY <1>10, <1>13, Zenon

-----------------------------------------------------------------------------
(* The invariant.                                                          *)

Steps == {"idle", "get_root", "persist_root", "persist_nodes"}

IsJob(j) ==
  /\ j = [nodes |-> j.nodes, root |-> j.root, version |-> j.version]
  /\ j.version \in Nat

Typed ==
  /\ leaves \in Seq(Txs)
  /\ versions \in Seq(Seq(Txs)) /\ versions # <<>>
  /\ pc \in [Workers -> Steps]
  /\ job = [w \in Workers |-> job[w]]
  /\ \A w \in Workers : IsJob(job[w])

LeavesAreLast == leaves = versions[Len(versions)]

(* A call knows the version its own batch produced.                        *)
VersionsAreKnown ==
  \A w \in Workers : pc[w] # "idle" => job[w].version \in 1..Len(versions)

(* Calls that never overlapped: at most one is under way, none once an Ok  *)
(* has been returned, and what it holds is what the state holds.           *)
OneAtATime ==
  ~overlap =>
    /\ \A v, w \in Workers : pc[v] # "idle" /\ pc[w] # "idle" => v = w
    /\ result = "ok" => \A w \in Workers : pc[w] = "idle"
    /\ \A w \in Workers :
         /\ pc[w] = "persist_root" => job[w].root = merkle_root(leaves)
         /\ pc[w] = "persist_nodes" => redis_root = merkle_root(leaves)

SyncInv ==
  /\ Typed
  /\ LeavesAreLast
  /\ VersionsAreKnown
  /\ WrittenRootCoversTheBlock
  /\ OneAtATime
  /\ OkMeansRedisIsCurrent

-----------------------------------------------------------------------------
(* A new leaf list leaves the earlier versions where they are.             *)
LEMMA Grown ==
  ASSUME Typed, NEW list \in Seq(Txs), versions' = Append(versions, list)
  PROVE  /\ versions' \in Seq(Seq(Txs)) /\ versions' # <<>>
         /\ Len(versions') = Len(versions) + 1
         /\ versions'[Len(versions')] = list
         /\ \A i \in 1..Len(versions) : versions'[i] = versions[i]
<1>1. versions \in Seq(Seq(Txs)) /\ Len(versions) \in Nat
  BY DEF Typed
<1>2. versions' \in Seq(Seq(Txs)) /\ Len(versions') = Len(versions) + 1
  BY <1>1
<1>3. versions' # <<>>
  BY <1>1, <1>2
<1>4. versions'[Len(versions) + 1] = list
  BY <1>1
<1>5. \A i \in 1..Len(versions) : versions'[i] = versions[i]
  BY <1>1
<1>6. QED
  BY <1>2, <1>3, <1>4, <1>5

(* A root that was the root of some version still is.                      *)
LEMMA RedisStaysTrue ==
  ASSUME SyncInv, NEW list \in Seq(Txs), versions' = Append(versions, list),
         redis_root' = redis_root
  PROVE  redis_root' # NoRoot =>
           \E i \in DOMAIN versions' : redis_root' = merkle_root(versions'[i])
<1>1. Typed /\ Len(versions) \in Nat
  BY DEF SyncInv, Typed
<1>2. /\ versions' \in Seq(Seq(Txs))
      /\ Len(versions') = Len(versions) + 1
      /\ \A i \in 1..Len(versions) : versions'[i] = versions[i]
  BY <1>1, Grown
<1>3. DOMAIN versions = 1..Len(versions) /\ DOMAIN versions' = 1..Len(versions')
  BY <1>1, <1>2 DEF Typed
<1>4. \A i \in DOMAIN versions :
         i \in DOMAIN versions' /\ versions'[i] = versions[i]
  BY <1>1, <1>2, <1>3
<1>5. QED
  BY <1>4 DEF SyncInv, WrittenRootCoversTheBlock

LEMMA NoJobIsOne == IsJob(NoJob)
  BY DEF IsJob, NoJob

LEMMA InitSync == Init => SyncInv
<1>1. SUFFICES ASSUME Init PROVE SyncInv
  OBVIOUS
<1>2. versions = <<<<>>>> /\ <<>> \in Seq(Txs) /\ leaves = <<>>
  BY <1>1 DEF Init
<1>3. Typed
  BY <1>1, <1>2, NoJobIsOne DEF Init, Typed, Steps
<1>4. LeavesAreLast
  BY <1>2 DEF LeavesAreLast
<1>5. QED
  BY <1>1, <1>3, <1>4 DEF Init, SyncInv, VersionsAreKnown,
     WrittenRootCoversTheBlock, OneAtATime, OkMeansRedisIsCurrent

-----------------------------------------------------------------------------
(* A worker's call moves on to step with the local variables j.            *)
LEMMA Moved ==
  ASSUME Typed, NEW w \in Workers, NEW step \in Steps, NEW j, IsJob(j),
         pc' = [pc EXCEPT ![w] = step],
         job' = [job EXCEPT ![w] = j]
  PROVE  /\ pc' \in [Workers -> Steps]
         /\ job' = [v \in Workers |-> job'[v]]
         /\ \A v \in Workers : IsJob(job'[v])
         /\ pc'[w] = step /\ job'[w] = j
         /\ \A v \in Workers : v # w => pc'[v] = pc[v] /\ job'[v] = job[v]
<1>1. /\ pc' \in [Workers -> Steps]
      /\ pc'[w] = step
      /\ \A v \in Workers : v # w => pc'[v] = pc[v]
  BY DEF Typed
<1>2. /\ job' = [v \in Workers |-> IF v = w THEN j ELSE job[v]]
  BY DEF Typed
<1>3. QED
  BY <1>1, <1>2 DEF Typed

LEMMA BlockArrives ==
  ASSUME SyncInv, NEW w \in Workers, NEW block \in Blocks,
         process_microblock(w, block)
  PROVE  SyncInv'
<1>1. PICK j : j = [nodes |-> batch_nodes(FeedMMR(EmptyMMR, leaves), block.txs),
                    root |-> NoRoot, version |-> Len(versions) + 1]
  BY Zenon
<1>2. Typed /\ Len(versions) \in Nat
  BY DEF SyncInv, Typed
<1>3. leaves \o block.txs \in Seq(Txs)
  BY <1>2, BlocksAssumption DEF Typed
<1>4. PICK list \in Seq(Txs) : list = leaves \o block.txs
  BY <1>3, Zenon
<1>5. leaves' = list /\ versions' = Append(versions, list)
  BY <1>4 DEF process_microblock
<1>6. IsJob(j) /\ j.version = Len(versions) + 1
  BY <1>1, <1>2 DEF IsJob
<1>7. /\ pc[w] = "idle" /\ "get_root" \in Steps
      /\ pc' = [pc EXCEPT ![w] = "get_root"]
      /\ job' = [job EXCEPT ![w] = j]
  BY <1>1 DEF process_microblock, Steps
<1>8. /\ pc' \in [Workers -> Steps]
      /\ job' = [v \in Workers |-> job'[v]]
      /\ \A v \in Workers : IsJob(job'[v])
      /\ pc'[w] = "get_root" /\ job'[w] = j
      /\ \A v \in Workers : v # w => pc'[v] = pc[v] /\ job'[v] = job[v]
  BY <1>2, <1>6, <1>7, Moved, Zenon
<1>9. /\ versions' \in Seq(Seq(Txs)) /\ versions' # <<>>
      /\ Len(versions') = Len(versions) + 1
      /\ versions'[Len(versions')] = list
      /\ \A i \in 1..Len(versions) : versions'[i] = versions[i]
  BY <1>2, <1>5, Grown
<1>10. Typed'
  BY <1>5, <1>8, <1>9 DEF Typed
<1>11. LeavesAreLast'
  BY <1>5, <1>9 DEF LeavesAreLast
<1>12. VersionsAreKnown'
  <2>1. SUFFICES ASSUME NEW v \in Workers, pc'[v] # "idle"
                 PROVE  job'[v].version \in 1..Len(versions')
    BY DEF VersionsAreKnown
  <2>2. CASE v = w
    BY <1>2, <1>6, <1>8, <1>9, <2>2
  <2>3. CASE v # w
    <3>1. job'[v].version \in 1..Len(versions)
      BY <1>8, <2>1, <2>3 DEF SyncInv, VersionsAreKnown
    <3>2. QED
      BY <1>2, <1>9, <3>1
  <2>4. QED
    BY <2>2, <2>3
<1>13. WrittenRootCoversTheBlock'
  <2>1. ASSUME NEW v \in Workers, pc'[v] = "persist_root"
        PROVE  \E i \in job'[v].version..Len(versions') :
                 job'[v].root = merkle_root(versions'[i])
    <3>1. v # w /\ pc[v] = "persist_root" /\ job'[v] = job[v]
      BY <1>8, <2>1
    <3>2. PICK i \in job[v].version..Len(versions) :
            job[v].root = merkle_root(versions[i])
      BY <3>1 DEF SyncInv, WrittenRootCoversTheBlock
    <3>3. job[v].version \in 1..Len(versions)
      BY <3>1 DEF SyncInv, VersionsAreKnown
    <3>4. i \in job'[v].version..Len(versions') /\ i \in 1..Len(versions)
      BY <1>2, <1>9, <3>1, <3>3
    <3>5. job'[v].root = merkle_root(versions'[i])
      BY <1>9, <3>1, <3>2, <3>4
    <3>6. QED
      BY <3>4, <3>5
  <2>2. redis_root' # NoRoot =>
          \E i \in DOMAIN versions' : redis_root' = merkle_root(versions'[i])
    <3>1. redis_root' = redis_root
      BY DEF process_microblock
    <3>2. QED
      BY <1>5, <3>1, RedisStaysTrue
  <2>3. QED
    BY <2>1, <2>2 DEF WrittenRootCoversTheBlock
<1>14. OneAtATime'
  <2>1. result' = "none" /\ (~overlap' => ~overlap /\ \A v \in Workers : pc[v] = "idle")
    BY Zenon DEF process_microblock
  <2>2. QED
    BY <1>8, <2>1 DEF OneAtATime
<1>15. OkMeansRedisIsCurrent'
  BY DEF process_microblock, OkMeansRedisIsCurrent
<1>16. QED
  BY <1>10, <1>11, <1>12, <1>13, <1>14, <1>15 DEF SyncInv

-----------------------------------------------------------------------------
(* Every other step of a call leaves the leaves and the versions alone.    *)
LEMMA RootIsRead ==
  ASSUME SyncInv, NEW w \in Workers, GetRoot(w)
  PROVE  SyncInv'
<1>1. PICK j : j = [job[w] EXCEPT !.root = merkle_root(leaves)]
  BY Zenon
<1>2. Typed /\ Len(versions) \in Nat
  BY DEF SyncInv, Typed
<1>3. IsJob(job[w])
  BY <1>2 DEF Typed
<1>4. j = [nodes |-> job[w].nodes, root |-> merkle_root(leaves),
           version |-> job[w].version]
  BY <1>1, <1>3 DEF IsJob
<1>5. /\ IsJob(j)
      /\ j.root = merkle_root(leaves)
      /\ j.version = job[w].version
  BY <1>3, <1>4 DEF IsJob
<1>6. /\ pc[w] = "get_root" /\ "persist_root" \in Steps
      /\ pc' = [pc EXCEPT ![w] = "persist_root"]
      /\ job' = [job EXCEPT ![w] = j]
  BY <1>1 DEF GetRoot, Steps
<1>7. /\ pc' \in [Workers -> Steps]
      /\ job' = [v \in Workers |-> job'[v]]
      /\ \A v \in Workers : IsJob(job'[v])
      /\ pc'[w] = "persist_root" /\ job'[w] = j
      /\ \A v \in Workers : v # w => pc'[v] = pc[v] /\ job'[v] = job[v]
  BY <1>2, <1>5, <1>6, Moved, Zenon
<1>8. UNCHANGED <<leaves, redis_root, result, versions, overlap>>
  BY DEF GetRoot
<1>9. Typed' /\ LeavesAreLast'
  BY <1>2, <1>7, <1>8 DEF SyncInv, Typed, LeavesAreLast
<1>10. VersionsAreKnown'
  BY <1>5, <1>6, <1>7, <1>8 DEF SyncInv, VersionsAreKnown
<1>11. WrittenRootCoversTheBlock'
  <2>1. job[w].version \in 1..Len(versions)
    BY <1>6 DEF SyncInv, VersionsAreKnown
  <2>2. /\ Len(versions) \in job'[w].version..Len(versions)
        /\ job'[w].root = merkle_root(versions[Len(versions)])
    BY <1>2, <1>5, <1>7, <2>1 DEF SyncInv, LeavesAreLast
  <2>3. QED
    BY <1>7, <1>8, <2>2 DEF SyncInv, WrittenRootCoversTheBlock
<1>12. OneAtATime'
  BY <1>5, <1>6, <1>7, <1>8 DEF SyncInv, OneAtATime
<1>13. OkMeansRedisIsCurrent'
  BY <1>8 DEF SyncInv, OkMeansRedisIsCurrent
<1>14. QED
  BY <1>9, <1>10, <1>11, <1>12, <1>13 DEF SyncInv

(* What a call about to write holds is the root of a version.              *)
LEMMA HeldRootIsTrue ==
  ASSUME SyncInv, NEW w \in Workers, pc[w] = "persist_root"
  PROVE  \E i \in DOMAIN versions : job[w].root = merkle_root(versions[i])
<1>1. PICK i \in job[w].version..Len(versions) :
        job[w].root = merkle_root(versions[i])
  BY DEF SyncInv, WrittenRootCoversTheBlock
<1>2. job[w].version \in 1..Len(versions)
  BY DEF SyncInv, VersionsAreKnown
<1>3. i \in DOMAIN versions
  BY <1>2 DEF SyncInv, Typed
<1>4. QED
  BY <1>1, <1>3

LEMMA RootIsWritten ==
  ASSUME SyncInv, NEW w \in Workers, persist_root_to_redis(w)
  PROVE  SyncInv'
<1>1. /\ pc[w] = "persist_root" /\ redis_root' = job[w].root
      /\ pc' = [pc EXCEPT ![w] = "persist_nodes"]
      /\ UNCHANGED <<leaves, job, result, versions, overlap>>
  BY DEF persist_root_to_redis
<1>2. Typed
  BY DEF SyncInv
<1>3. /\ pc' \in [Workers -> Steps]
      /\ pc'[w] = "persist_nodes"
      /\ \A v \in Workers : v # w => pc'[v] = pc[v]
  BY <1>1, <1>2 DEF Typed, Steps
<1>4. Typed' /\ LeavesAreLast' /\ VersionsAreKnown'
  BY <1>1, <1>2, <1>3 DEF SyncInv, Typed, LeavesAreLast, VersionsAreKnown
<1>5. WrittenRootCoversTheBlock'
  BY <1>1, <1>3, HeldRootIsTrue DEF SyncInv, WrittenRootCoversTheBlock
<1>6. OneAtATime' /\ OkMeansRedisIsCurrent'
  BY <1>1, <1>3 DEF SyncInv, OneAtATime, OkMeansRedisIsCurrent
<1>7. QED
  BY <1>4, <1>5, <1>6 DEF SyncInv

(* A call that ends, with an error or Ok, forgets its local variables.     *)
LEMMA WriteFails ==
  ASSUME SyncInv, NEW w \in Workers, RedisFails(w)
  PROVE  SyncInv'
<1>1. /\ pc[w] = "persist_root" /\ redis_root' \in {redis_root, job[w].root}
      /\ pc' = [pc EXCEPT ![w] = "idle"] /\ "idle" \in Steps
      /\ job' = [job EXCEPT ![w] = NoJob]
      /\ result' = "error"
      /\ UNCHANGED <<leaves, versions, overlap>>
  BY DEF RedisFails, Steps
<1>2. Typed
  BY DEF SyncInv
<1>3. /\ pc' \in [Workers -> Steps]
      /\ job' = [v \in Workers |-> job'[v]]
      /\ \A v \in Workers : IsJob(job'[v])
      /\ pc'[w] = "idle" /\ job'[w] = NoJob
      /\ \A v \in Workers : v # w => pc'[v] = pc[v] /\ job'[v] = job[v]
  BY <1>1, <1>2, NoJobIsOne, Moved, Zenon
<1>4. Typed' /\ LeavesAreLast' /\ VersionsAreKnown'
  BY <1>1, <1>2, <1>3 DEF SyncInv, Typed, LeavesAreLast, VersionsAreKnown
<1>5. WrittenRootCoversTheBlock'
  BY <1>1, <1>3, HeldRootIsTrue DEF SyncInv, WrittenRootCoversTheBlock
<1>6. OneAtATime'
  <2>1. SUFFICES ASSUME ~overlap PROVE OneAtATime'
    BY <1>1 DEF OneAtATime
  <2>2. \A v \in Workers : pc'[v] = "idle"
    BY <1>1, <1>3, <2>1 DEF SyncInv, OneAtATime
  <2>3. QED
    BY <2>2 DEF OneAtATime
<1>7. OkMeansRedisIsCurrent'
  BY <1>1 DEF OkMeansRedisIsCurrent
<1>8. QED
  BY <1>4, <1>5, <1>6, <1>7 DEF SyncInv

LEMMA NodeIsSent ==
  ASSUME SyncInv, NEW w \in Workers, persist_mmr_node(w)
  PROVE  SyncInv'
<1>1. PICK j : j = [job[w] EXCEPT !.nodes = Tail(@)]
  BY Zenon
<1>2. Typed
  BY DEF SyncInv
<1>3. IsJob(job[w])
  BY <1>2 DEF Typed
<1>4. j = [nodes |-> Tail(job[w].nodes), root |-> job[w].root,
           version |-> job[w].version]
  BY <1>1, <1>3, Zenon DEF IsJob
<1>5. IsJob(j) /\ j.root = job[w].root /\ j.version = job[w].version
  BY <1>3, <1>4 DEF IsJob
<1>6. /\ pc[w] = "persist_nodes" /\ job' = [job EXCEPT ![w] = j]
      /\ UNCHANGED <<leaves, redis_root, pc, result, versions, overlap>>
  BY <1>1 DEF persist_mmr_node
<1>7. /\ job' = [v \in Workers |-> job'[v]]
      /\ \A v \in Workers : IsJob(job'[v])
      /\ \A v \in Workers : /\ job'[v].root = job[v].root
                            /\ job'[v].version = job[v].version
  <2>1. job' = [v \in Workers |-> IF v = w THEN j ELSE job[v]]
    BY <1>2, <1>6 DEF Typed
  <2>2. QED
    BY <1>2, <1>5, <2>1 DEF Typed
<1>8. QED
  BY <1>2, <1>6, <1>7, Zenon DEF SyncInv, Typed, LeavesAreLast, VersionsAreKnown,
     WrittenRootCoversTheBlock, OneAtATime, OkMeansRedisIsCurrent

LEMMA CallReturns ==
  ASSUME SyncInv, NEW w \in Workers, Done(w)
  PROVE  SyncInv'
<1>1. /\ pc[w] = "persist_nodes"
      /\ pc' = [pc EXCEPT ![w] = "idle"] /\ "idle" \in Steps
      /\ job' = [job EXCEPT ![w] = NoJob]
      /\ UNCHANGED <<leaves, redis_root, versions, overlap>>
  BY DEF Done, Steps
<1>2. Typed
  BY DEF SyncInv
<1>3. /\ pc' \in [Workers -> Steps]
      /\ job' = [v \in Workers |-> job'[v]]
      /\ \A v \in Workers : IsJob(job'[v])
      /\ pc'[w] = "idle" /\ job'[w] = NoJob
      /\ \A v \in Workers : v # w => pc'[v] = pc[v] /\ job'[v] = job[v]
  BY <1>1, <1>2, NoJobIsOne, Moved, Zenon
<1>4. Typed' /\ LeavesAreLast' /\ VersionsAreKnown'
  BY <1>1, <1>2, <1>3 DEF SyncInv, Typed, LeavesAreLast, VersionsAreKnown
<1>5. WrittenRootCoversTheBlock'
  BY <1>1, <1>3 DEF SyncInv, WrittenRootCoversTheBlock
<1>6. ~overlap => /\ \A v \in Workers : pc'[v] = "idle"
                  /\ redis_root' = merkle_root(leaves')
  BY <1>1, <1>3 DEF SyncInv, OneAtATime
<1>7. OneAtATime' /\ OkMeansRedisIsCurrent'
  BY <1>1, <1>6 DEF OneAtATime, OkMeansRedisIsCurrent
<1>8. QED
  BY <1>4, <1>5, <1>7 DEF SyncInv

LEMMA ProcessRestarts ==
  ASSUME SyncInv, Restart
  PROVE  SyncInv'
<1>1. /\ leaves' = <<>> /\ versions' = Append(versions, <<>>)
      /\ pc' = [w \in Workers |-> "idle"]
      /\ job' = [w \in Workers |-> NoJob]
      /\ result' = "none" /\ redis_root' = redis_root
  BY DEF Restart
<1>2. Typed /\ <<>> \in Seq(Txs)
  BY DEF SyncInv
<1>3. /\ versions' \in Seq(Seq(Txs)) /\ versions' # <<>>
      /\ versions'[Len(versions')] = <<>>
  BY <1>1, <1>2, Grown, Zenon
<1>4. Typed' /\ LeavesAreLast'
  BY <1>1, <1>2, <1>3, NoJobIsOne DEF Typed, Steps, LeavesAreLast
<1>5. WrittenRootCoversTheBlock'
  BY <1>1, <1>2, RedisStaysTrue, Zenon DEF WrittenRootCoversTheBlock
<1>6. VersionsAreKnown' /\ OneAtATime' /\ OkMeansRedisIsCurrent'
  BY <1>1 DEF VersionsAreKnown, OneAtATime, OkMeansRedisIsCurrent
<1>7. QED
  BY <1>4, <1>5, <1>6 DEF SyncInv

-----------------------------------------------------------------------------
LEMMA SyncInductive == SyncInv /\ [Next]_vars => SyncInv'
<1>1. ASSUME SyncInv, Next PROVE SyncInv'
  BY <1>1, BlockArrives, RootIsRead, RootIsWritten, WriteFails, NodeIsSent,
     CallReturns, ProcessRestarts DEF Next, Step
<1>2. ASSUME SyncInv, UNCHANGED vars PROVE SyncInv'
  BY <1>2 DEF vars, SyncInv, Typed, LeavesAreLast, VersionsAreKnown,
     WrittenRootCoversTheBlock, OneAtATime, OkMeansRedisIsCurrent
<1>3. QED
  BY <1>1, <1>2

(* The root a call of process_microblock writes covers the call's own      *)
(* transactions, and the root in Redis is the root of a leaf list the node *)
(* has had, for any number of workers, failures and restarts.              *)
THEOREM RootsAreOfSomeVersion == Spec => []WrittenRootCoversTheBlock
<1>1. SyncInv => WrittenRootCoversTheBlock
  BY DEF SyncInv
<1>2. QED
  BY <1>1, InitSync, SyncInductive, PTL DEF Spec

(* Calls of process_microblock that do not overlap: an Ok means that Redis *)
(* holds the root of the current leaves, whatever failed before.           *)
THEOREM OkIsCurrent == Spec => []OkMeansRedisIsCurrent
<1>1. SyncInv => OkMeansRedisIsCurrent
  BY DEF SyncInv
<1>2. QED
  BY <1>1, InitSync, SyncInductive, PTL DEF Spec

-----------------------------------------------------------------------------
(* The nodes on their way to Kwil: as long as the process has not been     *)
(* restarted, what Kwil holds and what a call has still to send are nodes  *)
(* of the MMR over the current leaves.                                     *)
NodesAreTrue ==
  /\ restarts \in Nat
  /\ \A w \in Workers : IsList(job[w].nodes)
  /\ restarts = 0 =>
       /\ kwil \subseteq MmrNodes(leaves)
       /\ \A w \in Workers : Members(job[w].nodes) \subseteq MmrNodes(leaves)

LEMMA RangeOfList ==
  ASSUME NEW list, IsList(list)
  PROVE  Range(list) = Members(list)
<1>1. PICK S : list \in Seq(S)
  BY Zenon DEF IsList
<1>2. DOMAIN list = 1..Len(list)
  BY <1>1
<1> QED
  BY <1>2, Zenon DEF Range, Members

LEMMA EmptyIsCounted == Counted(EmptyMMR)
  BY DEF Counted, EmptyMMR

LEMMA MmrNodesAre ==
  ASSUME NEW txs \in Seq(Txs)
  PROVE  MmrNodes(txs) = Members(batch_nodes(EmptyMMR, txs))
<1>1. Len(txs) \in Nat
  OBVIOUS
<1> QED
  BY <1>1, EmptyIsCounted, NodesOfBatch, RangeOfList, Zenon DEF MmrNodes

(* A batch leaves the nodes there are where they are, and its own are      *)
(* nodes of the longer MMR.                                                *)
LEMMA NodesStay ==
  ASSUME NEW list \in Seq(Txs), NEW batch \in Seq(Txs)
  PROVE  LET added == batch_nodes(FeedMMR(EmptyMMR, list), batch)
         IN /\ MmrNodes(list) \subseteq MmrNodes(list \o batch)
            /\ IsList(added)
            /\ Members(added) \subseteq MmrNodes(list \o batch)
<1>1. list \o batch \in Seq(Txs) /\ Len(list) \in Nat /\ Len(batch) \in Nat
  OBVIOUS
<1>2. IsList(batch_nodes(FeedMMR(EmptyMMR, list), batch))
  BY <1>1, EmptyIsCounted, LeavesAreCounted, NodesOfBatch, Zenon
<1>3. MmrNodes(list \o batch) =
        MmrNodes(list) \cup Members(batch_nodes(FeedMMR(EmptyMMR, list), batch))
  <2>1. AddsItsNodes(EmptyMMR, list, batch)
    BY EmptyIsCounted, BatchAddsItsNodes, Zenon
  <2>2. /\ MmrNodes(list) = Members(batch_nodes(EmptyMMR, list))
        /\ MmrNodes(list \o batch) = Members(batch_nodes(EmptyMMR, list \o batch))
    BY <1>1, MmrNodesAre, Zenon
  <2> QED
    BY <2>1, <2>2, Zenon DEF AddsItsNodes
<1> QED
  BY <1>2, <1>3, Zenon

LEMMA InitNodes == Init => NodesAreTrue
<1>1. SUFFICES ASSUME Init PROVE NodesAreTrue
  BY Zenon
<1>2. restarts = 0 /\ kwil = {} /\ \A w \in Workers : job[w].nodes = <<>>
  BY <1>1 DEF Init, NoJob
<1>3. IsList(<<>>) /\ Members(<<>>) = {}
  BY NothingIsList, Zenon
<1>4. 0 \in Nat
  OBVIOUS
<1> QED
  BY <1>2, <1>3, <1>4, Zenon DEF NodesAreTrue

(* A call that holds the nodes of list, or fewer, as the others hold what  *)
(* they held.                                                              *)
LEMMA NodesKept ==
  ASSUME Typed, NodesAreTrue, NEW w \in Workers, NEW j,
         job' = [job EXCEPT ![w] = j], restarts' = restarts,
         IsList(j.nodes),
         restarts = 0 => Members(j.nodes) \subseteq MmrNodes(leaves'),
         restarts = 0 => kwil' \subseteq MmrNodes(leaves'),
         MmrNodes(leaves) \subseteq MmrNodes(leaves')
  PROVE  NodesAreTrue'
<1>1. \A v \in Workers : job'[v] = IF v = w THEN j ELSE job[v]
  BY DEF Typed
<1>2. \A v \in Workers : IsList(job'[v].nodes)
  BY <1>1, Zenon DEF NodesAreTrue
<1>3. restarts = 0 => \A v \in Workers : Members(job'[v].nodes) \subseteq MmrNodes(leaves')
  BY <1>1, Zenon DEF NodesAreTrue
<1> QED
  BY <1>2, <1>3, Zenon DEF NodesAreTrue

LEMMA SameNodes ==
  ASSUME NodesAreTrue, UNCHANGED <<leaves, kwil, job, restarts>>
  PROVE  NodesAreTrue'
  BY DEF NodesAreTrue, MmrNodes

LEMMA NodesInductive == SyncInv /\ NodesAreTrue /\ [Next]_vars => NodesAreTrue'
<1> SUFFICES ASSUME SyncInv, NodesAreTrue, [Next]_vars PROVE NodesAreTrue'
  BY Zenon
<1>1. Typed
  BY Zenon DEF SyncInv
<1>2. IsList(<<>>) /\ Members(<<>>) = {} /\ NoJob.nodes = <<>>
  <2>1. NoJob.nodes = <<>>
    BY DEF NoJob
  <2> QED
    BY <2>1, NothingIsList, Zenon
<1>3. ASSUME NEW w \in Workers, NEW block \in Blocks, process_microblock(w, block)
      PROVE  NodesAreTrue'
  <2>1. PICK added : added = batch_nodes(FeedMMR(EmptyMMR, leaves), block.txs)
    BY Zenon
  <2>2. PICK j : j = [nodes |-> added, root |-> NoRoot, version |-> Len(versions) + 1]
    BY Zenon
  <2>3. j.nodes = added
    BY <2>2
  <2>4. /\ job' = [job EXCEPT ![w] = j] /\ leaves' = leaves \o block.txs
        /\ kwil' = kwil /\ restarts' = restarts
    BY <1>3, <2>1, <2>2, Zenon DEF process_microblock
  <2>5. leaves \in Seq(Txs) /\ block.txs \in Seq(Txs)
    BY <1>1, BlocksAssumption, Zenon DEF Typed
  <2>6. /\ MmrNodes(leaves) \subseteq MmrNodes(leaves')
        /\ IsList(added)
        /\ Members(added) \subseteq MmrNodes(leaves')
    BY <2>1, <2>4, <2>5, NodesStay, Zenon
  <2>7. restarts = 0 => kwil' \subseteq MmrNodes(leaves')
    BY <2>4, <2>6, Zenon DEF NodesAreTrue
  <2> QED
    BY <1>1, <2>3, <2>4, <2>6, <2>7, NodesKept, Zenon
<1>4. ASSUME NEW w \in Workers, GetRoot(w) PROVE NodesAreTrue'
  <2>1. PICK j : j = [job[w] EXCEPT !.root = merkle_root(leaves)]
    BY Zenon
  <2>2. IsJob(job[w])
    BY <1>1, Zenon DEF Typed
  <2>3. j.nodes = job[w].nodes
    BY <2>1, <2>2 DEF IsJob
  <2>4. job' = [job EXCEPT ![w] = j]
    BY <1>4, <2>1 DEF GetRoot
  <2>5. leaves' = leaves /\ kwil' = kwil /\ restarts' = restarts
    BY <1>4, Zenon DEF GetRoot
  <2>6. /\ IsList(j.nodes)
        /\ restarts = 0 => Members(j.nodes) \subseteq MmrNodes(leaves')
        /\ restarts = 0 => kwil' \subseteq MmrNodes(leaves')
        /\ MmrNodes(leaves) \subseteq MmrNodes(leaves')
    BY <2>3, <2>5, Zenon DEF NodesAreTrue
  <2> QED
    BY <1>1, <2>4, <2>5, <2>6, NodesKept, Zenon
<1>5. ASSUME NEW w \in Workers, persist_root_to_redis(w) PROVE NodesAreTrue'
  <2>1. UNCHANGED <<leaves, kwil, job, restarts>>
    BY <1>5, Zenon DEF persist_root_to_redis
  <2> QED
    BY <2>1, SameNodes, Zenon
<1>6. ASSUME NEW w \in Workers, RedisFails(w) \/ Done(w) PROVE NodesAreTrue'
  <2>1. /\ job' = [job EXCEPT ![w] = NoJob]
        /\ leaves' = leaves /\ kwil' = kwil /\ restarts' = restarts
    BY <1>6, Zenon DEF RedisFails, Done
  <2>2. /\ IsList(NoJob.nodes)
        /\ restarts = 0 => Members(NoJob.nodes) \subseteq MmrNodes(leaves')
        /\ restarts = 0 => kwil' \subseteq MmrNodes(leaves')
        /\ MmrNodes(leaves) \subseteq MmrNodes(leaves')
    BY <1>2, <2>1, Zenon DEF NodesAreTrue
  <2> QED
    BY <1>1, <2>1, <2>2, NodesKept, Zenon
<1>7. ASSUME NEW w \in Workers, persist_mmr_node(w) PROVE NodesAreTrue'
  <2>1. PICK j : j = [job[w] EXCEPT !.nodes = Tail(@)]
    BY Zenon
  <2>2. IsJob(job[w]) /\ IsList(job[w].nodes)
    BY <1>1, Zenon DEF Typed, NodesAreTrue
  <2>3. j.nodes = Tail(job[w].nodes)
    BY <2>1, <2>2 DEF IsJob
  <2>4. job' = [job EXCEPT ![w] = j]
    BY <1>7, <2>1 DEF persist_mmr_node
  <2>5. /\ job[w].nodes # <<>> /\ leaves' = leaves /\ restarts' = restarts
        /\ kwil' = kwil \/ kwil' = kwil \cup {Head(job[w].nodes)}
    BY <1>7, Zenon DEF persist_mmr_node
  <2>6. /\ IsList(j.nodes) /\ Members(j.nodes) \subseteq Members(job[w].nodes)
        /\ Head(job[w].nodes) \in Members(job[w].nodes)
    BY <2>2, <2>3, <2>5, HeadAndTail, Zenon
  <2>7. /\ restarts = 0 => Members(j.nodes) \subseteq MmrNodes(leaves')
        /\ restarts = 0 => kwil' \subseteq MmrNodes(leaves')
        /\ MmrNodes(leaves) \subseteq MmrNodes(leaves')
    BY <2>5, <2>6, Zenon DEF NodesAreTrue
  <2> QED
    BY <1>1, <2>4, <2>5, <2>6, <2>7, NodesKept, Zenon
<1>8. ASSUME Restart PROVE NodesAreTrue'
  <2>1. restarts' \in Nat /\ restarts' # 0
    BY <1>8 DEF Restart, NodesAreTrue
  <2>2. \A w \in Workers : job'[w] = NoJob
    BY <1>8, Zenon DEF Restart
  <2> QED
    BY <1>2, <2>1, <2>2, Zenon DEF NodesAreTrue
<1>9. ASSUME UNCHANGED vars PROVE NodesAreTrue'
  BY <1>9, SameNodes, Zenon DEF vars
<1> QED
  BY <1>3, <1>4, <1>5, <1>6, <1>7, <1>8, <1>9, Zenon DEF Next, Step

(* Until the process is restarted, every node persist_mmr_node has stored  *)
(* in Kwil is the node of the current MMR at its position, for any number  *)
(* of workers and microblocks, and whichever nodes were lost on the way.   *)
THEOREM KwilIsTrue == Spec => []PersistedNodesAreTrue
<1>1. NodesAreTrue => PersistedNodesAreTrue
  BY Zenon DEF NodesAreTrue, PersistedNodesAreTrue
<1>2. QED
  BY <1>1, InitSync, SyncInductive, InitNodes, NodesInductive, PTL DEF Spec
=============================================================================
