----------------------------- MODULE StateLog -----------------------------
(***************************************************************************)
(* What NexusState promises its readers, with no mutex and no thread: an   *)
(* append-only log of transaction ids and two commitments to it, functions *)
(* of the log (in NexusState a Merkle root and a Mountain Range).  A batch *)
(* is appended whole and only when both commitments cover the log; then    *)
(* the root is brought up to date, then the range.                         *)
(***************************************************************************)
EXTENDS Sequences

CONSTANTS Batches,    \* the lists of transaction ids that may be appended
          RootOf(_),  \* log -> its Merkle root
          RangeOf(_)  \* log -> its Mountain Range

VARIABLES log,        \* transaction ids, oldest first
          root,       \* the published Merkle root
          range       \* the published Mountain Range

logVars == <<log, root, range>>

LogInit == log = <<>> /\ root = RootOf(<<>>) /\ range = RangeOf(<<>>)

AppendBatch ==
  /\ root = RootOf(log) /\ range = RangeOf(log)
  /\ \E batch \in Batches : log' = log \o batch
  /\ UNCHANGED <<root, range>>

PublishRoot ==
  /\ root' = RootOf(log)
  /\ UNCHANGED <<log, range>>

PublishRange ==
  /\ root = RootOf(log)
  /\ range' = RangeOf(log)
  /\ UNCHANGED <<log, root>>

LogNext == AppendBatch \/ PublishRoot \/ PublishRange

LogSpec == LogInit /\ [][LogNext]_logVars
=============================================================================
