------------------------------- MODULE MMR -------------------------------
(***************************************************************************)
(* The Merkle Mountain Range of src/state/mod.rs: MMRFoundation (add_leaf, *)
(* get_root) and the position arithmetic of NexusState (node positions,    *)
(* heights, peaks, sibling paths).                                         *)
(*                                                                         *)
(* SHA-256 is a free constructor: a hash is the term it was computed from, *)
(* so two hashes are equal only when their inputs are.                     *)
(***************************************************************************)
EXTENDS Positions

LeafHash(tx) == <<tx>>
NodeHash(left, right) == <<left, right>>
ZeroHash == <<>>

(* 1 << h and n >> h.                                                      *)
Pow2[h \in Nat] == IF h = 0 THEN 1 ELSE 2 * Pow2[h - 1]
Shr(n, h) == n \div Pow2[h]

(* u64::count_ones and u64::trailing_ones.                                 *)
CountOnes[n \in Nat] == IF n = 0 THEN 0 ELSE (n % 2) + CountOnes[n \div 2]
TrailingOnes[n \in Nat] == IF n % 2 = 0 THEN 0 ELSE 1 + TrailingOnes[n \div 2]

(* The last bit set in a positive number: 63 - n.leading_zeros().          *)
HighBit(n) == CHOOSE h \in 0..n : Pow2[h] <= n /\ n < Pow2[h + 1]

(* How often a loop runs, given the test on which it ends: the functions   *)
(* below say what its variables hold after k passes.                       *)
Passes(most, Done(_)) ==
  CHOOSE k \in 0..most : Done(k) /\ \A j \in 0..(k - 1) : ~Done(j)

-----------------------------------------------------------------------------
(* MMRFoundation.                                                          *)

EmptyMMR == [peaks |-> <<>>, size |-> 0, node_count |-> 0]

(* `expect("Peak must exist if bit is set")` is reached once per trailing  *)
(* one bit of size.                                                        *)
PeaksSuffice(mmr) == TrailingOnes[mmr.size] <= Len(mmr.peaks)

(* Mutant: the popped peak is taken for the right child.                   *)
CarryHashes_swapped(mmr, tx) ==
  LET merged == TrailingOnes[mmr.size]
      Hash[j \in 0..merged] ==
        IF j = 0 THEN LeafHash(tx)
        ELSE NodeHash(Hash[j - 1], mmr.peaks[Len(mmr.peaks) - j + 1])
  IN [j \in 1..(merged + 1) |-> Hash[j - 1]]

(* The hashes one add_leaf creates, bottom up: the leaf, then one parent   *)
(* for each peak popped (one per trailing one bit of size).                *)
CarryHashes(mmr, tx) ==
  LET merged == TrailingOnes[mmr.size]
      Hash[j \in 0..merged] ==
        IF j = 0 THEN LeafHash(tx)
        ELSE NodeHash(mmr.peaks[Len(mmr.peaks) - j + 1], Hash[j - 1])
  IN [j \in 1..(merged + 1) |-> Hash[j - 1]]

add_leaf(mmr, tx) ==
  LET merged == TrailingOnes[mmr.size]
  IN [peaks |-> Append(SubSeq(mmr.peaks, 1, Len(mmr.peaks) - merged),
                       CarryHashes(mmr, tx)[merged + 1]),
      size |-> mmr.size + 1,
      node_count |-> mmr.node_count + merged + 1]

(* The (pos, hash) list add_leaf returns.                                  *)
added_nodes(mmr, tx) ==
  LET hashes == CarryHashes(mmr, tx)
  IN [j \in 1..Len(hashes) |->
        [pos |-> mmr.node_count + j - 1, hash |-> hashes[j]]]

(* add_leaf for each transaction of a batch: the MMR after the first k.    *)
Fed(mmr, txs) ==
  LET fed[k \in 0..Len(txs)] == IF k = 0 THEN mmr ELSE add_leaf(fed[k - 1], txs[k])
  IN fed

FeedMMR(mmr, txs) == Fed(mmr, txs)[Len(txs)]

(* All the nodes that returns.                                             *)
batch_nodes(mmr, txs) ==
  LET nodes[k \in 0..Len(txs)] ==
        IF k = 0 THEN <<>>
        ELSE nodes[k - 1] \o added_nodes(Fed(mmr, txs)[k - 1], txs[k])
  IN nodes[Len(txs)]

(* The peaks are hashed together from the left.                            *)
get_root(mmr) ==
  LET bagged[k \in 1..Len(mmr.peaks)] ==
        IF k = 1 THEN mmr.peaks[1] ELSE NodeHash(mmr.peaks[k], bagged[k - 1])
  IN IF mmr.peaks = <<>> THEN ZeroHash ELSE bagged[Len(mmr.peaks)]

(* Mutant: the size is not restored.                                       *)
set_mmr_state_peaks_only(fresh, peaks, size) == [fresh EXCEPT !.peaks = peaks]

(* set_mmr_state assigns peaks and size, and nothing else.                 *)
set_mmr_state(fresh, peaks, size) ==
  [fresh EXCEPT !.peaks = peaks, !.size = size]

-----------------------------------------------------------------------------
(* Position arithmetic.  Positions count the nodes in the order add_leaf   *)
(* creates them, from 0.                                                   *)

get_mmr_node_pos(leaf_index) == 2 * leaf_index - CountOnes[leaf_index]

(* The nodes of a perfect tree of height h.                                *)
full_tree_size(h) == Pow2[h + 1] - 1

(* What is left of pos after h passes.                                     *)
HeightLoop(pos) ==
  LET p[h \in 0..pos] == IF h = 0 THEN pos ELSE p[h - 1] - full_tree_size(h - 1)
  IN p

get_mmr_node_height(pos) ==
  Passes(pos, LAMBDA h : HeightLoop(pos)[h] < full_tree_size(h))

(* leaf_count and offset after k passes; a peak is the last node before    *)
(* the next offset.                                                        *)
NextPeak(s) ==
  LET h == HighBit(s.leaf_count)
  IN [leaf_count |-> s.leaf_count - Pow2[h], offset |-> s.offset + full_tree_size(h)]

PeaksLoop(leaf_count) ==
  LET s[k \in 0..leaf_count] ==
        IF k = 0 THEN [leaf_count |-> leaf_count, offset |-> 0] ELSE NextPeak(s[k - 1])
  IN s

get_mmr_peaks(leaf_count) ==
  LET s == PeaksLoop(leaf_count)
  IN [k \in 1..Passes(leaf_count, LAMBDA j : s[j].leaf_count = 0) |-> s[k].offset - 1]

(* get_mmr_path walks from a peak down to pos: p and subtree_start after k *)
(* passes, and the child of p it does not go to.                           *)
left_child(s) == s.p - Pow2[get_mmr_node_height(s.p - s.subtree_start)]

Descend(pos, s) ==
  IF pos <= left_child(s)
  THEN [p |-> left_child(s), subtree_start |-> s.subtree_start]
  ELSE [p |-> s.p - 1, subtree_start |-> left_child(s) + 1]

PassedBy(pos, s) == IF pos <= left_child(s) THEN s.p - 1 ELSE left_child(s)

PathLoop(pos, peak, peak_start) ==
  LET s[k \in 0..peak] ==
        IF k = 0 THEN [p |-> peak, subtree_start |-> peak_start] ELSE Descend(pos, s[k - 1])
  IN s

(* The siblings on the way from node pos up to its peak; empty when no     *)
(* peak lies at or after pos.                                              *)
get_mmr_path(pos, leaf_count) ==
  LET peaks == get_mmr_peaks(leaf_count)
      target == FirstIndex(peaks, LAMBDA peak : pos <= peak)
      s == PathLoop(pos, peaks[target], IF target = 1 THEN 0 ELSE peaks[target - 1] + 1)
      depth == Passes(peaks[target], LAMBDA k : s[k].p <= pos)
  IN IF target = 0 THEN <<>> ELSE [k \in 1..depth |-> PassedBy(pos, s[depth - k])]

(* The sibling positions get_mmr_proof_metadata collects for a leaf that   *)
(* exists, climbing while there is a sibling: curr_pos at each height.     *)
(* The checked_* early returns need positions near 2^64 and are left out.  *)
IsRightChild(leaf_index, height) == Shr(leaf_index, height) % 2 = 1

ClimbLoop(leaf_index, leaves_len) ==
  LET curr_pos[h \in 0..leaves_len] ==
        IF h = 0 THEN get_mmr_node_pos(leaf_index)
        ELSE IF IsRightChild(leaf_index, h - 1) THEN curr_pos[h - 1] + 1
        ELSE curr_pos[h - 1] + full_tree_size(h - 1) + 1
  IN curr_pos

mmr_siblings(leaf_index, leaves_len, node_count) ==
  LET curr_pos == ClimbLoop(leaf_index, leaves_len)
      sibling_pos(h) == IF IsRightChild(leaf_index, h) THEN curr_pos[h] - full_tree_size(h)
                        ELSE curr_pos[h] + full_tree_size(h)
      passes ==
        Passes(leaves_len, LAMBDA h :
          \/ Shr(leaves_len, h) = 0
          \/ ~IsRightChild(leaf_index, h) /\ sibling_pos(h) >= node_count)
  IN [k \in 1..passes |-> sibling_pos(k - 1)]
=============================================================================
