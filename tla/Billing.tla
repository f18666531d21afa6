------------------------------ MODULE Billing ------------------------------
(***************************************************************************)
(* src/api/billing/mod.rs and nostr.rs: developer keys, the free quota and *)
(* the grace period, and the collector that counts telemetry events heard  *)
(* on Nostr against the same keys.  A key is a Redis hash; every Redis     *)
(* command is a step, and one whose reply is an error may have been        *)
(* executed.  The clock does not go back.                                  *)
(***************************************************************************)
EXTENDS Integers, FiniteSets

CONSTANTS BillKeys, BillClients,
          Limit,        \* FREE_TIER_SIGNATURE_LIMIT: 50000
          Grace,        \* GRACE_PERIOD_DURATION_SECONDS: 86400
          MaxUsage,     \* bound: no call once a key was used so often
          BillMaxClock  \* bound on the clock

ASSUME BillingAssumption ==
  /\ BillKeys # {} /\ Limit \in Nat /\ Grace \in Nat \ {0}
  /\ MaxUsage \in Nat /\ BillMaxClock \in Nat

VARIABLES bill_clock,
          apikey,       \* key -> its hash, or NoHash
          bill_pc, call,   \* client -> step and local variables
          free,         \* history: key -> calls counted and answered within
                        \* the limit, no further than Limit + 1
          stored,       \* history: key -> when a grace start was first stored
          last,         \* history: key -> last time of an allowed grace call
          calm,         \* history: key -> so far its grace start was read and
                        \* stored without an error
          bridge        \* the collector: its step, and the key of its event

history == <<free, stored, last, calm>>
bill_vars == <<bill_clock, apikey, bill_pc, call, history, bridge>>

NoHash == [usage |-> -1, grace_start |-> -1]
NoStart == -1
NewHash == [usage |-> 0, grace_start |-> NoStart]
NoCall == [key |-> CHOOSE k \in BillKeys : TRUE, usage |-> 0, new_usage |-> 0,
           now |-> 0]
NoEvent == [step |-> "recv", key |-> CHOOSE k \in BillKeys : TRUE]

BillInit ==
  /\ bill_clock = 0
  /\ apikey = [k \in BillKeys |-> NoHash]
  /\ bill_pc = [c \in BillClients |-> "idle"] /\ call = [c \in BillClients |-> NoCall]
  /\ free = [k \in BillKeys |-> 0] /\ calm = [k \in BillKeys |-> TRUE]
  /\ stored = [k \in BillKeys |-> NoStart] /\ last = stored
  /\ bridge = NoEvent

BillGoto(c, step) == bill_pc' = [bill_pc EXCEPT ![c] = step]
Done(c) == BillGoto(c, "idle") /\ call' = [call EXCEPT ![c] = NoCall]

determine_grace_status(now, grace_start) ==
  IF now - grace_start < Grace THEN "active" ELSE "expired"

(* Mutant: the last free call is not free.                                 *)
WithinLimit_one_less(new_usage) == new_usage < Limit

WithinLimit(new_usage) == new_usage <= Limit

(* The decisions a roll of the dice leaves open.                           *)
evaluate_quota_decision(new_usage, now, grace_start) ==
  LET start == IF grace_start = NoStart THEN now ELSE grace_start
  IN  IF WithinLimit(new_usage) THEN {"within"}
      ELSE IF determine_grace_status(now, start) = "expired" THEN {"expired"}
      ELSE {"allowed", "throttled"}

-----------------------------------------------------------------------------
(* Keys are random, so no hash exists yet.  The HSET's result is ignored:  *)
(* a key that was not stored is one that authenticates no call.            *)
generate_developer_key(k) ==
  /\ apikey[k] = NoHash
  /\ apikey' = [apikey EXCEPT ![k] = NewHash]
  /\ UNCHANGED <<bill_clock, bill_pc, call, history, bridge>>

track_signature(c, k) ==
  /\ bill_pc[c] = "idle"
  /\ apikey[k].usage < MaxUsage
  /\ BillGoto(c, "auth")
  /\ call' = [call EXCEPT ![c].key = k]
  /\ UNCHANGED <<bill_clock, apikey, history, bridge>>

(* HGETALL and validate_telemetry_auth: without a hash, or with another    *)
(* HMAC, the call ends here.                                               *)
Authenticate(c) ==
  /\ bill_pc[c] = "auth" /\ apikey[call[c].key] # NoHash
  /\ BillGoto(c, "usage")
  /\ call' = [call EXCEPT ![c].usage = apikey[call[c].key].usage]
  /\ UNCHANGED <<bill_clock, apikey, history, bridge>>

Unauthorized(c) ==
  /\ bill_pc[c] = "auth"
  /\ Done(c)
  /\ UNCHANGED <<bill_clock, apikey, history, bridge>>

(* WithinLimit is answered without another look at Redis.                  *)
Counted(c, new_usage) ==
  /\ IF WithinLimit(new_usage)
     THEN Done(c)
     ELSE /\ BillGoto(c, "grace")
          /\ call' = [call EXCEPT ![c].new_usage = new_usage, ![c].now = bill_clock]
  /\ UNCHANGED <<bill_clock, stored, last, calm, bridge>>

CountFree(k, new_usage) ==
  free' = [free EXCEPT ![k] = IF WithinLimit(new_usage) /\ @ <= Limit THEN @ + 1 ELSE @]

(* Mutant: usage as HGETALL saw it, plus one, is written back.             *)
Increment_from_data(c) ==
  /\ bill_pc[c] = "usage"
  /\ apikey' = [apikey EXCEPT ![call[c].key].usage = call[c].usage + 1]
  /\ Counted(c, call[c].usage + 1)
  /\ CountFree(call[c].key, call[c].usage + 1)

Increment(c) ==
  /\ bill_pc[c] = "usage"
  /\ apikey' = [apikey EXCEPT ![call[c].key].usage = @ + 1]
  /\ Counted(c, apikey[call[c].key].usage + 1)
  /\ CountFree(call[c].key, apikey[call[c].key].usage + 1)

(* A failed HINCRBY counts as usage 0.                                     *)
IncrementFails(c) ==
  /\ bill_pc[c] = "usage"
  /\ \/ UNCHANGED apikey
     \/ apikey' = [apikey EXCEPT ![call[c].key].usage = @ + 1]
  /\ Counted(c, 0)
  /\ UNCHANGED free

(* HGET grace_period_start and the decision.  Only an allowed call starts  *)
(* the grace period.                                                       *)
Allowed(k, now) == last' = [last EXCEPT ![k] = IF now > @ THEN now ELSE @]

Decide(c, grace_start) ==
  LET k == call[c].key
      now == call[c].now
  IN  /\ bill_pc[c] = "grace"
      /\ \E decision \in evaluate_quota_decision(call[c].new_usage, now, grace_start) :
           IF decision # "allowed" THEN Done(c) /\ UNCHANGED last
           ELSE IF grace_start = NoStart
                THEN BillGoto(c, "start") /\ UNCHANGED <<call, last>>
                ELSE Done(c) /\ Allowed(k, now)
      /\ UNCHANGED <<bill_clock, apikey, free, stored, bridge>>

(* Mutant: the start is not looked up.                                     *)
ReadGrace_skipped(c) == Decide(c, NoStart) /\ UNCHANGED calm

ReadGrace(c) == Decide(c, apikey[call[c].key].grace_start) /\ UNCHANGED calm

(* A failed HGET counts as no start.                                       *)
ReadGraceFails(c) ==
  /\ Decide(c, NoStart)
  /\ calm' = [calm EXCEPT ![call[c].key] = FALSE]

(* HSET grace_period_start, its error ignored.                             *)
StartGrace(c) ==
  LET k == call[c].key
  IN  /\ bill_pc[c] = "start"
      /\ \/ /\ apikey' = [apikey EXCEPT ![k].grace_start = call[c].now]
            /\ stored' = [stored EXCEPT ![k] = IF @ = NoStart THEN bill_clock ELSE @]
            /\ UNCHANGED calm
         \/ /\ calm' = [calm EXCEPT ![k] = FALSE]
            /\ UNCHANGED <<apikey, stored>>
      /\ Allowed(k, call[c].now)
      /\ Done(c)
      /\ UNCHANGED <<bill_clock, free, bridge>>

(* The client goes away in the middle of a call.                           *)
BillAbandon(c) ==
  /\ bill_pc[c] # "idle"
  /\ Done(c)
  /\ UNCHANGED <<bill_clock, apikey, history, bridge>>

-----------------------------------------------------------------------------
(* NostrCollector: one event after the other.  Anybody may publish one,    *)
(* and a relay may deliver it again; a stale or unreadable event changes   *)
(* nothing.  SET NX on the event's id is awaited as (), which takes the    *)
(* nil of a known id for success: only an error counts as a duplicate, so  *)
(* the ids kept in Redis make no difference and are left out.              *)
BridgeTo(step) == bridge' = [bridge EXCEPT !.step = step]

ReceiveEvent(k) ==
  /\ bridge.step = "recv" /\ apikey[k].usage < MaxUsage
  /\ bridge' = [step |-> "dedup", key |-> k]
  /\ UNCHANGED <<bill_clock, apikey, bill_pc, call, history>>

Deduplicate ==
  /\ bridge.step = "dedup"
  /\ BridgeTo("exists") \/ bridge' = NoEvent
  /\ UNCHANGED <<bill_clock, apikey, bill_pc, call, history>>

EventKeyExists ==
  /\ bridge.step = "exists"
  /\ \/ BridgeTo("count") /\ apikey[bridge.key] # NoHash
     \/ bridge' = NoEvent
  /\ UNCHANGED <<bill_clock, apikey, bill_pc, call, history>>

(* HINCRBY, its error ignored.                                             *)
CountEvent ==
  /\ bridge.step = "count"
  /\ \/ apikey' = [apikey EXCEPT ![bridge.key].usage = @ + 1]
     \/ UNCHANGED apikey
  /\ bridge' = NoEvent
  /\ UNCHANGED <<bill_clock, bill_pc, call, history>>

handle_telemetry_event ==
  (\E k \in BillKeys : ReceiveEvent(k)) \/ Deduplicate \/ EventKeyExists \/ CountEvent

-----------------------------------------------------------------------------
BillTimePasses ==
  /\ bill_clock < BillMaxClock
  /\ bill_clock' = bill_clock + 1
  /\ UNCHANGED <<apikey, bill_pc, call, history, bridge>>

BillNext ==
  \/ \E k \in BillKeys : generate_developer_key(k)
  \/ \E c \in BillClients, k \in BillKeys : track_signature(c, k)
  \/ \E c \in BillClients :
       \/ Authenticate(c) \/ Unauthorized(c) \/ Increment(c) \/ IncrementFails(c)
       \/ ReadGrace(c) \/ ReadGraceFails(c) \/ StartGrace(c) \/ BillAbandon(c)
  \/ handle_telemetry_event
  \/ BillTimePasses

BillSpec == BillInit /\ [][BillNext]_bill_vars

-----------------------------------------------------------------------------
(* HINCRBY hands each call a usage of its own: however the calls of a key  *)
(* interleave, no more than the free tier are counted and answered within  *)
(* the limit.                                                              *)
FreeCallsAreBounded == \A k \in BillKeys : free[k] <= Limit

(* Whatever fails, and whoever overtakes whom, the grace period of a key   *)
(* does not start before its free tier is used up.                         *)
GraceFollowsTheFreeTier ==
  \A k \in BillKeys : apikey[k].grace_start # NoStart => apikey[k].usage > Limit

(* "24-hour Sovereign Grace Period" (docs/PRD.md): no call beyond the limit *)
(* is allowed a grace period or more after a start of the key's grace was  *)
(* first stored, and none before one is, as long as no command on the      *)
(* start fails.  Calls that find no start at the same time may each store  *)
(* theirs, the later overwriting the earlier, and still do not prolong it. *)
GraceIsOnePeriod ==
  \A k \in BillKeys :
    calm[k] => IF stored[k] = NoStart THEN last[k] = NoStart
               ELSE last[k] < stored[k] + Grace
=============================================================================
