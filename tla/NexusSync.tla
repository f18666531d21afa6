----------------------------- MODULE NexusSync -----------------------------
(***************************************************************************)
(* NexusSync::process_microblock of src/sync/mod.rs: append a microblock's *)
(* transactions to the state, read the state root back, write it to Redis, *)
(* then send each new MMR node to Kwil.  Every await is a step of its own, *)
(* calls of several workers interleave, Redis and Kwil may fail, and the   *)
(* process may stop anywhere and start again with an empty state           *)
(* (load_initial_state loads nothing).                                     *)
(*                                                                         *)
(* The in-memory state is the leaf list; its root and MMR are functions of *)
(* it (module NexusState shows that callers cannot tell).                  *)
(***************************************************************************)
EXTENDS MerkleTree, Functions

CONSTANTS Workers,      \* callers of process_microblock
          Blocks,       \* microblocks: [id, parent, txs]
          Genesis,      \* the parent of the first microblock
          NoRoot,       \* nexus:state_root is not set
          MaxRestarts   \* bound: process restarts

ASSUME BoundsAssumption == MaxRestarts \in Nat

(* A microblock carries a list of transactions.                            *)
Txs == UNION {Range(block.txs) : block \in Blocks}

ASSUME BlocksAssumption == \A block \in Blocks : block.txs \in Seq(Txs)

VARIABLES leaves,       \* NexusState.leaves
          redis_root,   \* nexus:state_root
          kwil,         \* the MMR nodes Kwil has stored
          pc, job,      \* worker -> where it is, and its local variables
          result,       \* what the call that ended last returned
          processed,    \* history: microblocks received, in order
          versions,     \* history: every leaf list there has been
          overlap,      \* history: two calls have run at the same time
          restarts

vars == <<leaves, redis_root, kwil, pc, job, result, processed, versions,
          overlap, restarts>>

NoJob == [nodes |-> <<>>, root |-> NoRoot, version |-> 0]

Init ==
  /\ leaves = <<>>
  /\ redis_root = NoRoot
  /\ kwil = {}
  /\ pc = [w \in Workers |-> "idle"]
  /\ job = [w \in Workers |-> NoJob]
  /\ result = "none"
  /\ processed = <<>>
  /\ versions = <<<<>>>>
  /\ overlap = FALSE
  /\ restarts = 0

(* The Stacks node announces a microblock once, after its parent.          *)
Announced(block) ==
  /\ block \notin Range(processed)
  /\ block.parent \in {Genesis} \union {p.id : p \in Range(processed)}

(* update_state_batch: one critical section as far as callers can tell.    *)
(* Mutant: the new nodes are numbered after the batch.                     *)
process_microblock_late(w, block) ==
  /\ pc[w] = "idle" /\ Announced(block)
  /\ leaves' = leaves \o block.txs
  /\ versions' = Append(versions, leaves \o block.txs)
  /\ processed' = Append(processed, block)
  /\ job' = [job EXCEPT ![w] =
               [nodes |-> batch_nodes(FeedMMR(EmptyMMR, leaves'), block.txs),
                root |-> NoRoot, version |-> Len(versions) + 1]]
  /\ result' = "none"
  /\ overlap' = (overlap \/ \E v \in Workers : pc[v] # "idle")
  /\ pc' = [pc EXCEPT ![w] = "get_root"]
  /\ UNCHANGED <<redis_root, kwil, restarts>>

process_microblock(w, block) ==
  /\ pc[w] = "idle" /\ Announced(block)
  /\ leaves' = leaves \o block.txs
  /\ versions' = Append(versions, leaves \o block.txs)
  /\ processed' = Append(processed, block)
  /\ job' = [job EXCEPT ![w] =
               [nodes |-> batch_nodes(FeedMMR(EmptyMMR, leaves), block.txs),
                root |-> NoRoot, version |-> Len(versions) + 1]]
  /\ result' = "none"
  /\ overlap' = (overlap \/ \E v \in Workers : pc[v] # "idle")
  /\ pc' = [pc EXCEPT ![w] = "get_root"]
  /\ UNCHANGED <<redis_root, kwil, restarts>>

(* Mutant: the root was read before the update.                            *)
GetRoot_early(w) ==
  /\ pc[w] = "get_root"
  /\ job' = [job EXCEPT ![w].root = merkle_root(versions[job[w].version - 1])]
  /\ pc' = [pc EXCEPT ![w] = "persist_root"]
  /\ UNCHANGED <<leaves, redis_root, kwil, result, processed, versions,
                 overlap, restarts>>

GetRoot(w) ==
  /\ pc[w] = "get_root"
  /\ job' = [job EXCEPT ![w].root = merkle_root(leaves)]
  /\ pc' = [pc EXCEPT ![w] = "persist_root"]
  /\ UNCHANGED <<leaves, redis_root, kwil, result, processed, versions,
                 overlap, restarts>>

persist_root_to_redis(w) ==
  /\ pc[w] = "persist_root"
  /\ redis_root' = job[w].root
  /\ pc' = [pc EXCEPT ![w] = "persist_nodes"]
  /\ UNCHANGED <<leaves, kwil, job, result, processed, versions,
                 overlap, restarts>>

(* The connection or the SET fails: `?` returns before Kwil is written.    *)
(* The SET may have taken effect all the same.                             *)
(* Mutant: the error is dropped, as Kwil's are.                            *)
RedisFails_ignored(w) ==
  /\ pc[w] = "persist_root"
  /\ redis_root' \in {redis_root, job[w].root}
  /\ pc' = [pc EXCEPT ![w] = "persist_nodes"]
  /\ UNCHANGED <<leaves, kwil, job, result, processed, versions,
                 overlap, restarts>>

RedisFails(w) ==
  /\ pc[w] = "persist_root"
  /\ redis_root' \in {redis_root, job[w].root}
  /\ result' = "error"
  /\ job' = [job EXCEPT ![w] = NoJob]
  /\ pc' = [pc EXCEPT ![w] = "idle"]
  /\ UNCHANGED <<leaves, kwil, processed, versions,
                 overlap, restarts>>

(* persist_mmr_node for the next node; its error is dropped (`let _ =`).   *)
persist_mmr_node(w) ==
  /\ pc[w] = "persist_nodes" /\ job[w].nodes # <<>>
  /\ kwil' \in {kwil, kwil \union {Head(job[w].nodes)}}
  /\ job' = [job EXCEPT ![w].nodes = Tail(@)]
  /\ UNCHANGED <<leaves, redis_root, pc, result, processed, versions,
                 overlap, restarts>>

Done(w) ==
  /\ pc[w] = "persist_nodes" /\ job[w].nodes = <<>>
  /\ result' = "ok"
  /\ job' = [job EXCEPT ![w] = NoJob]
  /\ pc' = [pc EXCEPT ![w] = "idle"]
  /\ UNCHANGED <<leaves, redis_root, kwil, processed, versions,
                 overlap, restarts>>

Restart ==
  /\ restarts < MaxRestarts
  /\ restarts' = restarts + 1
  /\ leaves' = <<>>
  /\ versions' = Append(versions, <<>>)
  /\ pc' = [w \in Workers |-> "idle"]
  /\ job' = [w \in Workers |-> NoJob]
  /\ result' = "none"
  /\ overlap' = FALSE
  /\ UNCHANGED <<redis_root, kwil, processed>>

Step(w) ==
  \/ GetRoot(w) \/ persist_root_to_redis(w) \/ RedisFails(w)
  \/ persist_mmr_node(w) \/ Done(w)

Next ==
  \/ \E w \in Workers : Step(w) \/ \E block \in Blocks : process_microblock(w, block)
  \/ Restart

Spec == Init /\ [][Next]_vars

-----------------------------------------------------------------------------
MmrNodes(txs) == Range(batch_nodes(EmptyMMR, txs))

(* The root a call is about to write covers the call's own transactions,   *)
(* even though it is read after update_state_batch has unlocked the state; *)
(* and the root in Redis is always the root of one leaf list the node has  *)
(* had, whatever calls, failures and restarts interleave.                  *)
WrittenRootCoversTheBlock ==
  /\ \A w \in Workers :
       pc[w] = "persist_root" =>
         \E v \in job[w].version..Len(versions) :
           job[w].root = merkle_root(versions[v])
  /\ redis_root # NoRoot =>
       \E v \in DOMAIN versions : redis_root = merkle_root(versions[v])

(* As long as calls come one at a time, as from one websocket loop: after  *)
(* an Ok Redis holds the current root, however many earlier calls failed.  *)
(* Calls that overlap may write their roots in the other order.            *)
OkMeansRedisIsCurrent ==
  result = "ok" /\ ~overlap => redis_root = merkle_root(leaves)

(* Until the first restart, every node Kwil holds is the node of the       *)
(* current MMR at that position: batches of several workers are given      *)
(* disjoint positions and losing some of the nodes never makes another one *)
(* wrong.  A restarted process numbers its nodes from 0 again.             *)
PersistedNodesAreTrue == restarts = 0 => kwil \subseteq MmrNodes(leaves)
=============================================================================
