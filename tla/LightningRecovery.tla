------------------------- MODULE LightningRecovery -------------------------
(***************************************************************************)
(* The Lightning recovery audit: LightningResilienceAdapter of             *)
(* src/executor/lightning.rs driven by audit_lightning_payments of         *)
(* src/orchestrator.rs.  An audit selects the unsettled rows of            *)
(* lightning_payment_intents, then takes them one by one: process_recovery *)
(* on the row as selected, UPDATE, INSERT of an event.  The orchestrator's *)
(* loop and trigger_lightning_recovery may audit at the same time, and the *)
(* Lightning node reports outcomes into the same table meanwhile.          *)
(*                                                                         *)
(* Timestamps are kept as ages, in units that make the two thresholds      *)
(* small, and ages and retry counts stop at a cap: the code only compares  *)
(* them with the thresholds.                                               *)
(***************************************************************************)
EXTENDS Integers

CONSTANTS Payments,
          Auditors,      \* the orchestrator's loop, and manual triggers
          PendingStale,  \* 300 s: age a pending payment may reach
          SplitStale,    \* 600 s: time a split may go without an update
          MaxRetries,    \* 3: retry_count at which failures are left alone
          AgeCap,        \* bound: ages stop here
          RetryCap       \* bound: retry counts stop here

ASSUME CapsAssumption ==
  /\ PendingStale \in Nat /\ SplitStale \in Nat /\ MaxRetries \in Nat
  /\ AgeCap \in Nat /\ AgeCap > PendingStale /\ AgeCap > SplitStale
  /\ RetryCap \in Nat /\ RetryCap > MaxRetries

Status == {"pending", "succeeded", "failed", "recovering", "mpp_splitting"}
Failure == {"permanent", "transient", "indeterminate", "mpp_partial"}
NoFailure == "none"

VARIABLES intents,       \* lightning_payment_intents
          events,        \* lightning_payment_events: does the event tell of an
                         \* UPDATE that ran, and of a valid move
          audit_pc,      \* auditor -> step of the audit
          todo, cur,     \* auditor -> rows still to do, row in hand
          taken          \* history: transient failures taken up, per payment

lightning_vars == <<intents, events, audit_pc, todo, cur, taken>>

Fresh == [status |-> "pending", failure |-> NoFailure, retry |-> 0,
          age |-> 0, idle |-> 0]

NoRow == [payment |-> "none"]

LightningInit ==
  /\ intents = [p \in Payments |-> Fresh]
  /\ events = {}
  /\ audit_pc = [a \in Auditors |-> "idle"]
  /\ todo = [a \in Auditors |-> {}]
  /\ cur = [a \in Auditors |-> NoRow]
  /\ taken = [p \in Payments |-> 0]

-----------------------------------------------------------------------------
(* LightningResilienceAdapter.                                             *)

validate_transition(current, next) ==
  <<current, next>> \in
    ({"pending"} \X {"succeeded", "failed", "recovering", "mpp_splitting"})
    \union ({"mpp_splitting"} \X {"succeeded", "failed", "recovering"})
    \union ({"recovering"} \X {"succeeded", "failed", "mpp_splitting"})
    \union ({"failed"} \X {"recovering", "mpp_splitting"})

(* Mutant: the last retry is not counted as one.                           *)
should_recover_once_more(intent) ==
  \/ intent.status = "recovering"
  \/ intent.status = "failed" /\ intent.failure = "transient"
                              /\ intent.retry <= MaxRetries
  \/ intent.status = "failed" /\ intent.failure = "mpp_partial"
  \/ intent.status = "pending" /\ intent.age > PendingStale
  \/ intent.status = "mpp_splitting" /\ intent.idle > SplitStale

(* Mutant: pending payments are left to themselves.                        *)
should_recover_not_pending(intent) ==
  \/ intent.status = "recovering"
  \/ intent.status = "failed" /\ intent.failure = "transient"
                              /\ intent.retry < MaxRetries
  \/ intent.status = "failed" /\ intent.failure = "mpp_partial"
  \/ intent.status = "mpp_splitting" /\ intent.idle > SplitStale

should_recover(intent) ==
  \/ intent.status = "recovering"
  \/ intent.status = "failed" /\ intent.failure = "transient"
                              /\ intent.retry < MaxRetries
  \/ intent.status = "failed" /\ intent.failure = "mpp_partial"
  \/ intent.status = "pending" /\ intent.age > PendingStale
  \/ intent.status = "mpp_splitting" /\ intent.idle > SplitStale

Capped(n, cap) == IF n > cap THEN cap ELSE n

(* The intent process_recovery leaves behind; unchanged means None.        *)
Recovered(intent) ==
  CASE intent.failure = "transient" ->
         [intent EXCEPT !.status = "recovering", !.idle = 0,
                        !.retry = Capped(@ + 1, RetryCap)]
    [] intent.failure = "mpp_partial" ->
         [intent EXCEPT !.status = "mpp_splitting", !.idle = 0]
    [] OTHER ->  \* indeterminate, or pending for too long
         [intent EXCEPT !.status = "recovering", !.idle = 0]

(* process_recovery returns an action.                                     *)
recovers(intent) ==
  /\ should_recover(intent)
  /\ \/ intent.failure \in {"transient", "mpp_partial", "indeterminate"}
     \/ intent.status = "pending"

-----------------------------------------------------------------------------
(* audit_lightning_payments.                                               *)

AuditGoto(a, step) == audit_pc' = [audit_pc EXCEPT ![a] = step]

SelectRows(a) ==
  /\ audit_pc[a] = "idle"
  /\ todo' = [todo EXCEPT ![a] =
                {[payment |-> p, intent |-> intents[p]] :
                   p \in {q \in Payments :
                          intents[q].status \in Status \ {"succeeded"}}}]
  /\ AuditGoto(a, "next")
  /\ UNCHANGED <<intents, events, cur, taken>>

(* What is bound to the UPDATE and the INSERT, and (history) whether the   *)
(* move is valid from the status selected, whether it takes up a transient *)
(* failure, and whether the UPDATE has run.                                *)
InHand(row, new) ==
  [payment |-> row.payment, status |-> new.status, retry |-> new.retry,
   idle |-> new.idle, written |-> FALSE,
   valid |-> new.status = row.intent.status
               \/ validate_transition(row.intent.status, new.status),
   failure |-> row.intent.status = "failed" /\ row.intent.failure = "transient"]

ProcessRow(a) ==
  /\ audit_pc[a] = "next"
  /\ \E row \in todo[a] :
       /\ todo' = [todo EXCEPT ![a] = @ \ {row}]
       /\ IF recovers(row.intent)
          THEN /\ cur' = [cur EXCEPT ![a] =
                            InHand(row, Recovered(row.intent))]
               /\ AuditGoto(a, "update")
          ELSE UNCHANGED <<cur, audit_pc>>
  /\ UNCHANGED <<intents, events, taken>>

(* UPDATE ... SET status, retry_count, last_updated_at WHERE payment_id:   *)
(* whatever the row has become since it was selected.                      *)
Written(a) ==
  [intents EXCEPT ![cur[a].payment].status = cur[a].status,
                  ![cur[a].payment].retry = cur[a].retry,
                  ![cur[a].payment].idle = cur[a].idle]

WriteRow(a) ==
  /\ intents' = Written(a)
  /\ taken' = [taken EXCEPT ![cur[a].payment] =
                 IF cur[a].failure THEN Capped(@ + 1, RetryCap) ELSE @]

UpdateRow(a) ==
  /\ audit_pc[a] = "update"
  /\ WriteRow(a)
  /\ cur' = [cur EXCEPT ![a].written = TRUE]
  /\ AuditGoto(a, "event")
  /\ UNCHANGED <<events, todo>>

EventLogged(a) == events \union {cur[a].written /\ cur[a].valid}

InsertEvent(a) ==
  /\ audit_pc[a] = "event"
  /\ events' = EventLogged(a)
  /\ cur' = [cur EXCEPT ![a] = NoRow]
  /\ AuditGoto(a, "next")
  /\ UNCHANGED <<intents, todo, taken>>

(* Mutant: a failed UPDATE is ignored.                                     *)
DatabaseFails_ignored(a) ==
  /\ audit_pc[a] = "update"
  /\ AuditGoto(a, "event")
  /\ UNCHANGED <<intents, events, todo, cur, taken>>

(* A database error ends the whole audit; the statement may have run.      *)
DatabaseFails(a) ==
  /\ \/ /\ audit_pc[a] = "update"
        /\ UNCHANGED <<intents, taken>> \/ WriteRow(a)
        /\ UNCHANGED events
     \/ /\ audit_pc[a] = "event"
        /\ events' \in {events, EventLogged(a)} /\ UNCHANGED <<intents, taken>>
  /\ todo' = [todo EXCEPT ![a] = {}]
  /\ cur' = [cur EXCEPT ![a] = NoRow]
  /\ AuditGoto(a, "idle")

EndAudit(a) ==
  /\ audit_pc[a] = "next" /\ todo[a] = {}
  /\ AuditGoto(a, "idle")
  /\ UNCHANGED <<intents, events, todo, cur, taken>>

-----------------------------------------------------------------------------
(* External: the Lightning node settles or fails a payment, or marks a     *)
(* pending one as in doubt.  It keeps to validate_transition.              *)

NodeReports(p, status, failure) ==
  /\ validate_transition(intents[p].status, status)
  /\ intents' = [intents EXCEPT ![p].status = status, ![p].failure = failure,
                                ![p].idle = 0]
  /\ UNCHANGED <<events, audit_pc, todo, cur, taken>>

NodeDoubts(p) ==
  /\ intents[p].status = "pending"
  /\ intents' = [intents EXCEPT ![p].failure = "indeterminate", ![p].idle = 0]
  /\ UNCHANGED <<events, audit_pc, todo, cur, taken>>

Older(intent) ==
  [intent EXCEPT !.age = Capped(@ + 1, AgeCap), !.idle = Capped(@ + 1, AgeCap)]

(* Time passes for the rows and for the copies of them auditors hold.      *)
TimePasses ==
  /\ intents' = [p \in Payments |-> Older(intents[p])]
  /\ todo' = [a \in Auditors |->
                {[row EXCEPT !.intent = Older(@)] : row \in todo[a]}]
  /\ cur' = [a \in Auditors |->
               IF cur[a] = NoRow THEN NoRow
               ELSE [cur[a] EXCEPT !.idle = Capped(@ + 1, AgeCap)]]
  /\ UNCHANGED <<events, audit_pc, taken>>

AuditStep(a) ==
  \/ SelectRows(a) \/ ProcessRow(a) \/ UpdateRow(a) \/ InsertEvent(a)
  \/ DatabaseFails(a) \/ EndAudit(a)

LightningNext ==
  \/ \E a \in Auditors : AuditStep(a)
  \/ \E p \in Payments : \/ NodeReports(p, "succeeded", NoFailure)
                         \/ \E f \in Failure : NodeReports(p, "failed", f)
                         \/ NodeDoubts(p)
  \/ TimePasses

LightningSpec == LightningInit /\ [][LightningNext]_lightning_vars

(* The audit is called from a loop on a 60 s interval, so an enabled step   *)
(* of it is not put off for ever; a database that answers again and again  *)
(* does not fail every time.                                               *)
AuditFairness(a) ==
  /\ WF_lightning_vars(SelectRows(a)) /\ WF_lightning_vars(ProcessRow(a))
  /\ WF_lightning_vars(EndAudit(a))
  /\ SF_lightning_vars(UpdateRow(a)) /\ SF_lightning_vars(InsertEvent(a))

LightningFairSpec ==
  /\ LightningSpec /\ WF_lightning_vars(TimePasses)
  /\ \A a \in Auditors : AuditFairness(a)

-----------------------------------------------------------------------------
(* lightning_payment_events never tells of a recovery that did not reach   *)
(* lightning_payment_intents, whichever statement of an audit fails, and   *)
(* tells only of moves that validate_transition allows from the status the *)
(* audit selected, although process_recovery never asks it.                *)
EventsTellOfValidMoves == events \subseteq {TRUE}

(* "Transient failures trigger up to 3 retries" (SECURITY_HARDENING.md):   *)
(* however often the node fails the payment anew, a database error loses   *)
(* the audit's answer or a payment in recovery is tried again in between,  *)
(* a payment that failed for a while is taken up at most MaxRetries times, *)
(* as long as one audit runs at a time.                                    *)
TransientRetriesAreBounded ==
  (\A a, b \in Auditors : a = b) => \A p \in Payments : taken[p] <= MaxRetries

(* What is due is taken up by some audit, although the database may fail   *)
(* it: a payment does not stay pending for ever once it is stale, and a    *)
(* transient failure with retries left does not stay failed.               *)
DuePaymentsAreTakenUp ==
  \A p \in Payments :
    /\ (intents[p].status = "pending") ~> (intents[p].status # "pending")
    /\ (/\ intents[p].status = "failed" /\ intents[p].failure = "transient"
        /\ intents[p].retry < MaxRetries) ~> (intents[p].status # "failed")

(* tests/lightning_resilience_test.rs and validate_transition: a payment   *)
(* that succeeded leaves that status for no other.                         *)
SucceededIsFinal ==
  [][\A p \in Payments : intents[p].status = "succeeded" =>
                           intents'[p].status = "succeeded"]_lightning_vars
=============================================================================
