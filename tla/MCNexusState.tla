--------------------------- MODULE MCNexusState ---------------------------
(* Two transaction ids, microblocks of none, one and two transactions; and *)
(* the range of leaf counts for which the MMR is compared with its forest. *)
EXTENDS NexusState, MMRForest

CONSTANTS a, b,
          MaxRange,  \* bound: leaves of a Mountain Range
          MaxBatch   \* bound: leaves added to it at a time

ASSUME BoundsAssumption == MaxRange \in Nat /\ MaxBatch \in Nat

MCTxs == {a, b}
MCBatches == {<<>>, <<a>>, <<b, a>>}

(* Nothing has been called yet: the MMR properties below are of the        *)
(* operators add_leaf, get_root and their helpers, and are looked at once. *)
AtStart ==
  /\ reply = Nothing /\ versions = <<<<>>>>
  /\ \A t \in Threads : pc[t] = "idle"

(* The leaf counts before and after a batch.                               *)
Growths == {g \in (0..MaxRange) \X (0..MaxRange) : g[2] \in g[1]..(g[1] + MaxBatch)}

(* Leaf by leaf, from none: add_leaf's carry loop never meets an empty     *)
(* peak stack (its `expect` cannot fire), the peaks it leaves are the      *)
(* hashes of the maximal perfect trees over all the leaves, left to right, *)
(* and the (pos, hash) pairs it returns are the nodes that are new in the  *)
(* forest.  get_mmr_proof_metadata names, for any leaf, the siblings up to *)
(* its peak, every one an existing node.  get_mmr_peaks and get_mmr_path,  *)
(* which compute positions another way, agree for inner nodes as well as   *)
(* leaves.                                                                 *)
MmrIsTheForest ==
  AtStart =>
    /\ EmptyMMR = ForestMMR(0)
    /\ \A g \in Growths : /\ BatchBuildsTheForest(g[1], g[2])
                          /\ NodesAreNumbered(g[1], g[2])
    /\ \A n \in 0..MaxRange : SiblingsLeadUp(n) /\ HelpersAgree(n)

(* Peaks and size are enough to go on: wherever the process restarts with  *)
(* set_mmr_state (which leaves node_count alone), get_root and the peaks   *)
(* are those of an MMR that was fed every leaf without interruption.       *)
RootSurvivesRestart ==
  AtStart =>
    \A g \in Growths :
      /\ Resumed(g[1], g[2]).peaks = ForestMMR(g[2]).peaks
      /\ get_root(Resumed(g[1], g[2])) = get_root(ForestMMR(g[2]))
=============================================================================
