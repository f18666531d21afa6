----------------------------- MODULE MMRForest -----------------------------
(***************************************************************************)
(* The MMR of src/state/mod.rs (MMRFoundation) against a definition of a   *)
(* Mountain Range that does not know how the code computes it: the nodes   *)
(* of the forest over n leaves are the aligned power-of-two intervals of   *)
(* 0..n-1, numbered in post-order.                                         *)
(*                                                                         *)
(* add_leaf hashes its leaf and never compares it with another, so leaves  *)
(* that all differ are the general case: the i-th leaf is i.               *)
(***************************************************************************)
EXTENDS MMR, FiniteSets

Leaves(first, last) == [i \in 1..(last - first + 1) |-> first + i - 1]

-----------------------------------------------------------------------------
(* The reference: the node <<c, h>> is the c-th of height h, from 0, and   *)
(* stands for the leaves c * 2^h .. End - 1.                               *)

End(node) == (node[1] + 1) * Pow2[node[2]]

Forest(n) == {node \in (0..n) \X (0..HighBit(n + 1)) : End(node) <= n}

PosIn(n, node) ==
  Cardinality({m \in Forest(n) : \/ End(m) < End(node)
                                 \/ End(m) = End(node) /\ m[2] < node[2]})

Sibling(node) ==
  IF node[1] % 2 = 0 THEN <<node[1] + 1, node[2]>> ELSE <<node[1] - 1, node[2]>>

Above(node, k) == <<Shr(node[1], k), node[2] + k>>

IsPeak(n, node) == node \in Forest(n) /\ Above(node, 1) \notin Forest(n)

PathIn(n, node) ==
  LET climb == CHOOSE k \in 0..n : IsPeak(n, Above(node, k))
  IN [k \in 1..climb |-> PosIn(n, Sibling(Above(node, k - 1)))]

(* The i-th peak has i peaks up to its right end.                          *)
PeakSeq(n) ==
  LET tops == {m \in Forest(n) : IsPeak(n, m)}
  IN [i \in 1..Cardinality(tops) |->
        CHOOSE top \in tops : Cardinality({m \in tops : End(m) <= End(top)}) = i]

(* The hashes of the nodes of each height.                                 *)
LeafHashes == [c \in Nat |-> LeafHash(c + 1)]
Paired(below) == [c \in Nat |-> NodeHash(below[2 * c], below[2 * c + 1])]
Hashes[h \in Nat] == IF h = 0 THEN LeafHashes ELSE Paired(Hashes[h - 1])

HashIn(node) == Hashes[node[2]][node[1]]

(* The MMR over n leaves, and the (pos, hash) pairs of its nodes.          *)
ForestMMR(n) ==
  LET tops == PeakSeq(n)
  IN [peaks |-> [i \in 1..Len(tops) |-> HashIn(tops[i])],
      size |-> n, node_count |-> Cardinality(Forest(n))]

Numbered(n, nodes) == {[pos |-> PosIn(n, m), hash |-> HashIn(m)] : m \in nodes}

(* The only restore the code offers: NexusState::new and set_mmr_state     *)
(* with the (peaks, size) get_mmr_state gave after k leaves; then the      *)
(* leaves k+1 .. n.                                                        *)
Restored(k) == set_mmr_state(EmptyMMR, ForestMMR(k).peaks, ForestMMR(k).size)

Resumed(k, n) == FeedMMR(Restored(k), Leaves(k + 1, n))

-----------------------------------------------------------------------------
(* A batch takes the MMR over k leaves to the one over n, and the carry    *)
(* loop's `expect` finds a peak.                                           *)
BatchBuildsTheForest(k, n) ==
  /\ PeaksSuffice(ForestMMR(k))
  /\ FeedMMR(ForestMMR(k), Leaves(k + 1, n)) = ForestMMR(n)

(* Each position is handed out once, to the node it numbers.               *)
NodesAreNumbered(k, n) ==
  LET added == batch_nodes(ForestMMR(k), Leaves(k + 1, n))
  IN {added[i] : i \in DOMAIN added} = Numbered(n, Forest(n) \ Forest(k))

(* get_mmr_proof_metadata names the leaf and the siblings up to its peak.  *)
SiblingsLeadUp(n) ==
  \A i \in 0..(n - 1) :
    /\ get_mmr_node_pos(i) = PosIn(n, <<i, 0>>)
    /\ mmr_siblings(i, n, Cardinality(Forest(n))) = PathIn(n, <<i, 0>>)

(* get_mmr_peaks and get_mmr_path compute positions another way.           *)
HelpersAgree(n) ==
  LET tops == PeakSeq(n)
  IN /\ get_mmr_peaks(n) = [i \in 1..Len(tops) |-> PosIn(n, tops[i])]
     /\ \A m \in Forest(n) : get_mmr_path(PosIn(n, m), n) = PathIn(n, m)
=============================================================================
