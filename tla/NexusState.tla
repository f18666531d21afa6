---------------------------- MODULE NexusState ----------------------------
(***************************************************************************)
(* NexusState of src/state/mod.rs under concurrent callers.  Each field is *)
(* a std::sync::Mutex of its own; a method is a sequence of steps, one for *)
(* each mutex it takes, and threads interleave between them.  Only the     *)
(* mutexes that are held while another is awaited (leaves, tree_levels,    *)
(* mmr) appear in `holder`; state_root is locked for one assignment or     *)
(* one clone at a time, which is one step.                                 *)
(*                                                                         *)
(* A thread runs the API calls that reach the state:                       *)
(*   update_state_batch   (NexusSync::process_microblock)                  *)
(*   set_initial_leaves   (at start-up, before the state is used)          *)
(*   generate_proof       (REST get_proof, gRPC get_proof)                 *)
(*   get_mmr_proof        (REST; four separate critical sections)          *)
(*   get_status           (gRPC get_status, verify_state: two reads)       *)
(*   get_proof_manifest   (REST; MMR state first, state root later)        *)
(***************************************************************************)
EXTENDS MerkleTree

CONSTANTS Threads,    \* callers of the shared NexusState
          NoThread,   \* holder of a free mutex
          Txs,        \* transaction ids
          Batches,    \* the tx_ids lists a microblock may carry
          MaxLeaves,  \* bound: leaves in the state
          MaxVersions \* bound: times the leaves are changed, plus one

ASSUME NoThreadAssumption == NoThread \notin Threads
ASSUME BatchesAssumption == Batches \subseteq Seq(Txs)

VARIABLES leaves, state_root, tree_levels, mmr,   \* the four fields
          holder,     \* mutex -> the thread holding it
          pc,         \* thread -> where in its call it is
          local,      \* thread -> what the call has read so far
          reply,      \* what the call that returned last answered
          versions,   \* history: every leaf list there has been, in order
          since,      \* history: thread -> Len(versions) when its call began
          asked       \* history: since of the call that returned last

vars == <<leaves, state_root, tree_levels, mmr, holder, pc, local, reply,
          versions, since, asked>>

fields == <<leaves, state_root, tree_levels, mmr, versions>>

Mutexes == {"leaves", "tree_levels", "mmr"}

Free(m) == holder[m] = NoThread

Nothing == [kind |-> "nothing"]

(* A call goes on: its reply is still to come.                             *)
Pending == UNCHANGED <<reply, since, asked>>
(* A call begins.                                                          *)
Called(t) ==
  /\ since' = [since EXCEPT ![t] = Len(versions)]
  /\ UNCHANGED <<reply, asked>>

Goto(t, step) == pc' = [pc EXCEPT ![t] = step]
Keep(t, value) == local' = [local EXCEPT ![t] = value]
Return(t, value) ==
  /\ reply' = value
  /\ asked' = IF pc[t] = "idle" THEN Len(versions) ELSE since[t]
  /\ since' = [since EXCEPT ![t] = 0]
  /\ local' = [local EXCEPT ![t] = Nothing]
  /\ Goto(t, "idle")

Init ==
  /\ leaves = <<>>
  /\ state_root = ZeroHash
  /\ tree_levels = <<>>
  /\ mmr = EmptyMMR
  /\ holder = [m \in Mutexes |-> NoThread]
  /\ pc = [t \in Threads |-> "idle"]
  /\ local = [t \in Threads |-> Nothing]
  /\ reply = Nothing
  /\ versions = <<<<>>>>
  /\ since = [t \in Threads |-> 0]
  /\ asked = 0

-----------------------------------------------------------------------------
(* update_state_batch and set_initial_leaves.  The leaves guard is held to *)
(* the end; rebuild_tree assigns state_root and then tree_levels.          *)

update_state_batch(t, batch) ==
  /\ pc[t] = "idle" /\ Free("leaves")
  /\ Len(leaves) + Len(batch) <= MaxLeaves /\ Len(versions) < MaxVersions
  /\ holder' = [holder EXCEPT !["leaves"] = t]
  /\ leaves' = leaves \o batch
  /\ versions' = Append(versions, leaves \o batch)
  /\ Keep(t, [kind |-> "update", batch |-> batch])
  /\ Goto(t, "set_root")
  /\ UNCHANGED <<state_root, tree_levels, mmr>>
  /\ Called(t)

set_initial_leaves(t, initial) ==
  /\ versions = <<<<>>>>
  /\ pc[t] = "idle" /\ Free("leaves")
  /\ holder' = [holder EXCEPT !["leaves"] = t]
  /\ leaves' = initial
  /\ versions' = Append(versions, initial)
  /\ Keep(t, [kind |-> "initial"])
  /\ Goto(t, "set_root")
  /\ UNCHANGED <<state_root, tree_levels, mmr>>
  /\ Called(t)

(* Mutant: the leaves guard is dropped before rebuild_tree has finished.   *)
SetRoot_unlocks(t) ==
  /\ pc[t] = "set_root"
  /\ state_root' = merkle_root(leaves)
  /\ holder' = [holder EXCEPT !["leaves"] = NoThread]
  /\ Goto(t, "set_levels")
  /\ UNCHANGED <<leaves, tree_levels, mmr, local, versions>>
  /\ Pending

SetRoot(t) ==
  /\ pc[t] = "set_root"
  /\ state_root' = merkle_root(leaves)
  /\ Goto(t, "set_levels")
  /\ UNCHANGED <<leaves, tree_levels, mmr, holder, local, versions>>
  /\ Pending

(* Mutant: the levels are not stored.                                      *)
SetLevels_skipped(t) ==
  /\ pc[t] = "set_levels"
  /\ Goto(t, "lock_mmr")
  /\ UNCHANGED <<fields, holder, local>>
  /\ Pending

(* Mutant: the leaves guard is dropped before the MMR is fed.              *)
SetLevels_unlocks(t) ==
  /\ pc[t] = "set_levels" /\ Free("tree_levels")
  /\ tree_levels' = merkle_levels(leaves)
  /\ holder' = [holder EXCEPT !["leaves"] = NoThread]
  /\ Goto(t, "lock_mmr")
  /\ UNCHANGED <<leaves, state_root, mmr, local, versions>>
  /\ Pending

SetLevels(t) ==
  /\ pc[t] = "set_levels" /\ Free("tree_levels")
  /\ tree_levels' = merkle_levels(leaves)
  /\ Goto(t, "lock_mmr")
  /\ UNCHANGED <<leaves, state_root, mmr, holder, local, versions>>
  /\ Pending

LockMmr(t) ==
  /\ pc[t] = "lock_mmr" /\ Free("mmr")
  /\ holder' = [holder EXCEPT !["mmr"] = t]
  /\ Goto(t, "feed_mmr")
  /\ UNCHANGED <<fields, local>>
  /\ Pending

(* Mutant: an update feeds the MMR every leaf again.                       *)
FeedMmr_again(t) ==
  /\ pc[t] = "feed_mmr"
  /\ mmr' = FeedMMR(mmr, leaves)
  /\ holder' = [holder EXCEPT !["mmr"] = NoThread, !["leaves"] = NoThread]
  /\ Return(t, Nothing)
  /\ UNCHANGED <<leaves, state_root, tree_levels, versions>>

FeedMmr(t) ==
  /\ pc[t] = "feed_mmr"
  /\ mmr' = IF local[t].kind = "update" THEN FeedMMR(mmr, local[t].batch)
                                        ELSE FeedMMR(EmptyMMR, leaves)
  /\ holder' = [holder EXCEPT !["mmr"] = NoThread, !["leaves"] = NoThread]
  /\ Return(t, Nothing)
  /\ UNCHANGED <<leaves, state_root, tree_levels, versions>>

-----------------------------------------------------------------------------
(* generate_proof: the path is computed under leaves and tree_levels, the  *)
(* root is read while they are still held.  A missing key drops both and   *)
(* answers with whatever the state root is by then.                        *)

generate_proof(t, key) ==
  /\ pc[t] = "idle" /\ Free("leaves")
  /\ holder' = [holder EXCEPT !["leaves"] = t]
  /\ Keep(t, [kind |-> "proof", key |-> key])
  /\ Goto(t, "lock_levels")
  /\ UNCHANGED fields
  /\ Called(t)

FindPath(t) ==
  /\ pc[t] = "lock_levels" /\ Free("tree_levels")
  /\ LET index == position(leaves, local[t].key)
     IN IF index = NoIndex \/ tree_levels = <<>>
        THEN /\ holder' = [holder EXCEPT !["leaves"] = NoThread]
             /\ Goto(t, "absent_root")
             /\ UNCHANGED local
        ELSE /\ holder' = [holder EXCEPT !["tree_levels"] = t]
             /\ Keep(t, [kind |-> "path", key |-> local[t].key,
                         path |-> merkle_path(tree_levels, index)])
             /\ Goto(t, "proof_root")
  /\ UNCHANGED fields
  /\ Pending

ProofRoot(t) ==
  /\ pc[t] = "proof_root"
  /\ holder' = [holder EXCEPT !["tree_levels"] = NoThread,
                              !["leaves"] = NoThread]
  /\ Return(t, [kind |-> "merkle", leaf |-> local[t].key,
                path |-> local[t].path, root |-> state_root])
  /\ UNCHANGED fields

AbsentRoot(t) ==
  /\ pc[t] = "absent_root"
  /\ Return(t, [kind |-> "absent", leaf |-> local[t].key, root |-> state_root])
  /\ UNCHANGED <<fields, holder>>

-----------------------------------------------------------------------------
(* REST get_mmr_proof: get_leaf_index (or an index given by the caller),   *)
(* get_leaf_by_index, get_mmr_proof_metadata and assemble_mmr_proof each   *)
(* take and drop the mutexes again.                                        *)

get_mmr_proof_by_tx(t, tx) ==
  /\ pc[t] = "idle" /\ Free("leaves")
  /\ IF position(leaves, tx) = NoIndex
     THEN Return(t, [kind |-> "not_found"])
     ELSE /\ Keep(t, [kind |-> "index", index |-> position(leaves, tx)])
          /\ Goto(t, "get_leaf")
          /\ Called(t)
  /\ UNCHANGED <<fields, holder>>

get_mmr_proof_by_index(t, index) ==
  /\ pc[t] = "idle"
  /\ Keep(t, [kind |-> "index", index |-> index])
  /\ Goto(t, "get_leaf")
  /\ UNCHANGED <<fields, holder>>
  /\ Called(t)

GetLeaf(t) ==
  /\ pc[t] = "get_leaf" /\ Free("leaves")
  /\ LET i == local[t].index
     IN IF i >= Len(leaves)
        THEN Return(t, [kind |-> "failed"])
        ELSE /\ Keep(t, [kind |-> "leaf", index |-> i, leaf |-> leaves[i + 1]])
             /\ Goto(t, "metadata")
             /\ Pending
  /\ UNCHANGED <<fields, holder>>

(* get_mmr_proof_metadata locks leaves, then mmr, and reads both sizes.    *)
(* Mutant: mmr is locked here and once more to read its size.              *)
MetadataLeaves_mmr_twice(t) ==
  /\ pc[t] = "metadata" /\ Free("leaves") /\ Free("mmr")
  /\ holder' = [holder EXCEPT !["leaves"] = t, !["mmr"] = t]
  /\ Goto(t, "metadata_mmr")
  /\ UNCHANGED <<fields, local>>
  /\ Pending

MetadataLeaves(t) ==
  /\ pc[t] = "metadata" /\ Free("leaves")
  /\ holder' = [holder EXCEPT !["leaves"] = t]
  /\ Goto(t, "metadata_mmr")
  /\ UNCHANGED <<fields, local>>
  /\ Pending

MetadataMmr(t) ==
  /\ pc[t] = "metadata_mmr" /\ Free("mmr")
  /\ holder' = [holder EXCEPT !["leaves"] = NoThread]
  /\ LET i == local[t].index
         pos == get_mmr_node_pos(i)
     IN IF i >= Len(leaves) \/ pos >= mmr.node_count
        THEN Return(t, [kind |-> "failed"])
        ELSE /\ Keep(t, [kind |-> "position", pos |-> pos,
                         leaf |-> local[t].leaf])
             /\ Goto(t, "assemble")
             /\ Pending
  /\ UNCHANGED fields

assemble_mmr_proof(t) ==
  /\ pc[t] = "assemble" /\ Free("mmr")
  /\ Return(t, [kind |-> "mmr", leaf |-> local[t].leaf, pos |-> local[t].pos,
                peaks |-> mmr.peaks, root |-> get_root(mmr)])
  /\ UNCHANGED <<fields, holder>>

-----------------------------------------------------------------------------
(* gRPC get_status and verify_state: get_state_root, then get_mmr_root.    *)

get_status(t) ==
  /\ pc[t] = "idle"
  /\ Keep(t, [kind |-> "root", root |-> state_root])
  /\ Goto(t, "status_mmr")
  /\ UNCHANGED <<fields, holder>>
  /\ Called(t)

StatusMmr(t) ==
  /\ pc[t] = "status_mmr" /\ Free("mmr")
  /\ Return(t, [kind |-> "status", state_root |-> local[t].root,
                mmr_root |-> get_root(mmr)])
  /\ UNCHANGED <<fields, holder>>

(* REST get_proof_manifest: get_mmr_state, then generate_proof of the key  *)
(* "state_root", which is no transaction id: it waits for leaves and       *)
(* tree_levels, finds nothing and reads the state root.                    *)
get_proof_manifest(t) ==
  /\ pc[t] = "idle" /\ Free("mmr")
  /\ Keep(t, [kind |-> "mmr_state", peaks |-> mmr.peaks, size |-> mmr.size])
  /\ Goto(t, "manifest_lookup")
  /\ UNCHANGED <<fields, holder>>
  /\ Called(t)

(* Mutant: the root is read without looking for the key first.             *)
ManifestLookup_skipped(t) ==
  /\ pc[t] = "manifest_lookup"
  /\ Goto(t, "manifest_root")
  /\ UNCHANGED <<fields, holder, local>>
  /\ Pending

ManifestLookup(t) ==
  /\ pc[t] = "manifest_lookup" /\ Free("leaves") /\ Free("tree_levels")
  /\ Goto(t, "manifest_root")
  /\ UNCHANGED <<fields, holder, local>>
  /\ Pending

ManifestRoot(t) ==
  /\ pc[t] = "manifest_root"
  /\ Return(t, [kind |-> "manifest", peaks |-> local[t].peaks,
                size |-> local[t].size, root |-> state_root])
  /\ UNCHANGED <<fields, holder>>

-----------------------------------------------------------------------------
(* A call that has begun goes on by Step; Begin starts a new one.          *)
Step(t) ==
  \/ SetRoot(t) \/ SetLevels(t) \/ LockMmr(t) \/ FeedMmr(t)
  \/ FindPath(t) \/ ProofRoot(t) \/ AbsentRoot(t)
  \/ GetLeaf(t) \/ MetadataLeaves(t) \/ MetadataMmr(t) \/ assemble_mmr_proof(t)
  \/ StatusMmr(t) \/ ManifestLookup(t) \/ ManifestRoot(t)

Begin(t) ==
  \/ \E batch \in Batches : update_state_batch(t, batch)
                            \/ set_initial_leaves(t, batch)
  \/ \E tx \in Txs : generate_proof(t, tx) \/ get_mmr_proof_by_tx(t, tx)
  \/ \E index \in 0..MaxLeaves : get_mmr_proof_by_index(t, index)
  \/ get_status(t)
  \/ get_proof_manifest(t)

Next == \E t \in Threads : Step(t) \/ Begin(t)

Spec == Init /\ [][Next]_vars

(* A thread inside a call keeps running; nothing makes it begin a new one. *)
FairSpec == Spec /\ \A t \in Threads : WF_vars(Step(t))

-----------------------------------------------------------------------------
(* Some thread is between taking leaves to change it and dropping it.      *)
Writing == \E t \in Threads :
             pc[t] \in {"set_root", "set_levels", "lock_mmr", "feed_mmr"}

(* Whenever no update is in progress, the three derived fields describe    *)
(* the leaves: state_root and tree_levels are those of rebuild_tree, and   *)
(* the incrementally fed MMR is the one built from scratch.                *)
DerivedFieldsMatchLeaves ==
  ~Writing => /\ state_root = merkle_root(leaves)
              /\ tree_levels = merkle_levels(leaves)
              /\ mmr = FeedMMR(EmptyMMR, leaves)

ProofOf(txs, key) ==
  [kind |-> "merkle", leaf |-> key,
   path |-> merkle_path(merkle_levels(txs), position(txs, key)),
   root |-> merkle_root(txs)]

(* The versions that are not older than the call that returned last.       *)
SinceAsked == asked..Len(versions)

(* generate_merkle_proof is atomic: what it returns is the proof for the   *)
(* key in one leaf list that was current while the call ran, although it   *)
(* takes three mutexes one by one; and verify_merkle_proof accepts it.     *)
ProofsAreOfOneVersion ==
  reply.kind = "merkle" =>
    /\ verify_merkle_proof(reply)
    /\ \E v \in SinceAsked :
         /\ position(versions[v], reply.leaf) # NoIndex
         /\ reply = ProofOf(versions[v], reply.leaf)

(* When generate_proof answers without a proof, the key was absent from a  *)
(* version no older than the call, and the root it reads after dropping    *)
(* the mutexes is that of the same or of a later version.                  *)
AbsenceIsNotStale ==
  reply.kind = "absent" =>
    \E v \in SinceAsked :
      /\ \A i \in DOMAIN versions[v] : versions[v][i] # reply.leaf
      /\ \E w \in v..Len(versions) : reply.root = merkle_root(versions[w])

(* REST get_mmr_proof reads index, leaf, position and peaks in four        *)
(* critical sections; still the position it returns is that of the leaf in *)
(* the very MMR whose peaks and root it returns, no older than the call.   *)
MmrProofNamesItsLeaf ==
  reply.kind = "mmr" =>
    \E v \in SinceAsked :
      LET range == FeedMMR(EmptyMMR, versions[v])
      IN /\ reply.peaks = range.peaks
         /\ reply.root = get_root(range)
         /\ \E i \in 0..(Len(versions[v]) - 1) :
              /\ versions[v][i + 1] = reply.leaf
              /\ get_mmr_node_pos(i) = reply.pos
         /\ reply.pos < range.node_count

(* gRPC get_status pairs a state root with an MMR root read later: each is *)
(* at most one batch older than the call, and the MMR root is at most one  *)
(* batch behind the state root beside it.                                  *)
StatusLagsByOneBatch ==
  reply.kind = "status" =>
    \E i, j \in (asked - 1)..Len(versions) :
      /\ i > 0 /\ j > 0 /\ j >= i - 1
      /\ reply.state_root = merkle_root(versions[i])
      /\ reply.mmr_root = get_root(FeedMMR(EmptyMMR, versions[j]))

(* REST get_proof_manifest reads the MMR state first: the state root it    *)
(* reports is no older than the call and never older than the leaf count   *)
(* and peaks beside it.                                                    *)
ManifestRootIsNotOlder ==
  reply.kind = "manifest" =>
    \E i \in SinceAsked, j \in 1..Len(versions) :
      /\ asked - 1 <= j /\ j <= i
      /\ reply.root = merkle_root(versions[i])
      /\ reply.peaks = FeedMMR(EmptyMMR, versions[j]).peaks
      /\ reply.size = Len(versions[j])

(* "must lock `leaves` before `mmr` to avoid deadlocks with update paths"  *)
(* (state/mod.rs): a mutex that is taken is always released again.         *)
HeldMutexIsReleased == \A m \in Mutexes : ~Free(m) ~> Free(m)

(* To its readers the locked, stepwise state is an append-only log whose   *)
(* two commitments follow it one batch at a time (module StateLog).        *)
MountainRange(txs) == FeedMMR(EmptyMMR, txs)

Log == INSTANCE StateLog
         WITH RootOf <- merkle_root, RangeOf <- MountainRange,
              log <- leaves, root <- state_root, range <- mmr

ImplementsStateLog == Log!LogSpec
=============================================================================
