--------------------------- MODULE NexusExecutor ---------------------------
(***************************************************************************)
(* The first-seen sequencer of src/executor/mod.rs: submit (REST           *)
(* submit_transaction) checks the safety flag, compares the request's      *)
(* timestamp with the latest logged arrival time and inserts a row in      *)
(* me_audit_log; gRPC execute only compares.  The latest arrival time is   *)
(* read from the database once and cached for the life of the process.     *)
(* Each await and each take of the cache mutex is a step; clients          *)
(* interleave, Redis and Postgres may fail, the process may restart.       *)
(***************************************************************************)
EXTENDS Integers, Sequences

CONSTANTS Clients,       \* concurrent requests
          TxIds,         \* transaction ids
          Times,         \* request timestamps
          NoTime,        \* Option::None of a time
          MaxRows,       \* bound: rows of me_audit_log
          MaxEpoch       \* bound: process restarts

ASSUME TimesAssumption == Times \subseteq Nat /\ NoTime \notin Nat
ASSUME EpochAssumption == MaxEpoch \in Nat

VARIABLES safety_mode,   \* nexus:safety_mode
          audit_log,     \* rows of me_audit_log, in insertion order
          cache,         \* latest_event_time_cache
          pc, req,       \* client -> step, request
          limit,         \* client -> event_time its call works with
          answer,        \* client -> what its last call answered
          shut,          \* history: client -> safety mode was on all along and
                         \* the call was not let through by a failed GET
          epoch          \* history: which run of the process this is

vars == <<safety_mode, audit_log, cache, pc, req, limit, answer, shut, epoch>>

NoRequest == [call |-> "none"]

Init ==
  /\ safety_mode \in BOOLEAN
  /\ audit_log = <<>>
  /\ cache = NoTime
  /\ pc = [c \in Clients |-> "idle"]
  /\ req = [c \in Clients |-> NoRequest]
  /\ limit = [c \in Clients |-> NoTime]
  /\ answer = [c \in Clients |-> "none"]
  /\ shut = [c \in Clients |-> FALSE]
  /\ epoch = 0

Goto(c, step) == pc' = [pc EXCEPT ![c] = step]

Answer(c, what) ==
  /\ answer' = [answer EXCEPT ![c] = what]
  /\ limit' = [limit EXCEPT ![c] = NoTime]
  /\ req' = [req EXCEPT ![c] = NoRequest]
  /\ Goto(c, "idle")

Begin(c, call, tx, ts, step) ==
  /\ pc[c] = "idle" /\ Len(audit_log) < MaxRows
  /\ req' = [req EXCEPT ![c] = [call |-> call, tx |-> tx, ts |-> ts]]
  /\ answer' = [answer EXCEPT ![c] = "none"]
  /\ shut' = [shut EXCEPT ![c] = safety_mode]
  /\ Goto(c, step)
  /\ UNCHANGED <<safety_mode, audit_log, cache, limit, epoch>>

(* Mutant: the safety flag is not looked at.                               *)
submit_unchecked(c, tx, ts) == Begin(c, "submit", tx, ts, "cached")

submit(c, tx, ts) == Begin(c, "submit", tx, ts, "check")

(* gRPC execute: validate_transaction is all it calls.                     *)
execute(c, tx, ts) == Begin(c, "execute", tx, ts, "cached")

(* check_safety_mode: the flag is read; unset lets the call go on.         *)
check_safety_mode(c) ==
  /\ pc[c] = "check"
  /\ IF safety_mode
     THEN Answer(c, "safety mode")
     ELSE Goto(c, "cached") /\ UNCHANGED <<answer, limit, req>>
  /\ UNCHANGED <<safety_mode, audit_log, cache, shut, epoch>>

(* No connection is an error; a failed GET is unwrap_or(false).            *)
CheckFails(c) ==
  /\ pc[c] = "check"
  /\ \/ Answer(c, "error") /\ UNCHANGED shut
     \/ /\ Goto(c, "cached")
        /\ shut' = [shut EXCEPT ![c] = FALSE]
        /\ UNCHANGED <<answer, limit, req>>
  /\ UNCHANGED <<safety_mode, audit_log, cache, epoch>>

(* get_cached_or_fetch_latest_event_time.                                  *)
ReadCache(c) ==
  /\ pc[c] = "cached"
  /\ limit' = [limit EXCEPT ![c] = cache]
  /\ Goto(c, IF cache = NoTime THEN "fetch" ELSE "validate")
  /\ UNCHANGED <<safety_mode, audit_log, cache, req, answer, shut, epoch>>

(* SELECT MAX(arrival_time): NULL on an empty table.                       *)
Fetch(c) ==
  /\ pc[c] = "fetch"
  /\ \/ /\ audit_log = <<>>
        /\ Goto(c, "validate")
        /\ UNCHANGED limit
     \/ \E i \in DOMAIN audit_log :
          /\ \A j \in DOMAIN audit_log : audit_log[j].ts <= audit_log[i].ts
          /\ limit' = [limit EXCEPT ![c] = audit_log[i].ts]
          /\ Goto(c, "fill")
  /\ UNCHANGED <<safety_mode, audit_log, cache, req, answer, shut, epoch>>

FillCache(c) ==
  /\ pc[c] = "fill"
  /\ cache' = limit[c]
  /\ Goto(c, "validate")
  /\ UNCHANGED <<safety_mode, audit_log, req, limit, answer, shut, epoch>>

(* validate_transaction: not later than the limit is refused.              *)
(* Mutant: a time equal to the limit passes.                               *)
Validate_equal(c) ==
  /\ pc[c] = "validate"
  /\ IF limit[c] # NoTime /\ req[c].ts < limit[c]
     THEN Answer(c, "rejected")
     ELSE IF req[c].call = "submit"
          THEN Goto(c, "insert") /\ UNCHANGED <<answer, limit, req>>
          ELSE Answer(c, "success")
  /\ UNCHANGED <<safety_mode, audit_log, cache, shut, epoch>>

Validate(c) ==
  /\ pc[c] = "validate"
  /\ IF limit[c] # NoTime /\ req[c].ts <= limit[c]
     THEN Answer(c, "rejected")
     ELSE IF req[c].call = "submit"
          THEN Goto(c, "insert") /\ UNCHANGED <<answer, limit, req>>
          ELSE Answer(c, "success")
  /\ UNCHANGED <<safety_mode, audit_log, cache, shut, epoch>>

Row(c) == [tx |-> req[c].tx, ts |-> req[c].ts, epoch |-> epoch, shut |-> shut[c]]

Logged(tx) == \E i \in DOMAIN audit_log : audit_log[i].tx = tx

(* INSERT: tx_id is the primary key.                                       *)
Insert(c) ==
  /\ pc[c] = "insert" /\ ~Logged(req[c].tx)
  /\ audit_log' = Append(audit_log, Row(c))
  /\ Answer(c, "accepted")
  /\ UNCHANGED <<safety_mode, cache, shut, epoch>>

(* The key exists, or the database fails; the row may be there even so.    *)
InsertFails(c) ==
  /\ pc[c] = "insert"
  /\ \/ UNCHANGED audit_log
     \/ ~Logged(req[c].tx) /\ audit_log' = Append(audit_log, Row(c))
  /\ Answer(c, "error")
  /\ UNCHANGED <<safety_mode, cache, shut, epoch>>

FetchFails(c) ==
  /\ pc[c] = "fetch"
  /\ Answer(c, IF req[c].call = "submit" THEN "error" ELSE "rejected")
  /\ UNCHANGED <<safety_mode, audit_log, cache, shut, epoch>>

(* NexusSafety sets and clears the flag at any time.                       *)
SafetyModeChanges ==
  /\ safety_mode' = ~safety_mode
  /\ shut' = [c \in Clients |-> shut[c] /\ safety_mode']
  /\ UNCHANGED <<audit_log, cache, pc, req, limit, answer, epoch>>

Restart ==
  /\ epoch < MaxEpoch
  /\ epoch' = epoch + 1
  /\ cache' = NoTime
  /\ pc' = [c \in Clients |-> "idle"]
  /\ req' = [c \in Clients |-> NoRequest]
  /\ limit' = [c \in Clients |-> NoTime]
  /\ answer' = [c \in Clients |-> "none"]
  /\ shut' = [c \in Clients |-> FALSE]
  /\ UNCHANGED <<safety_mode, audit_log>>

Step(c) ==
  \/ check_safety_mode(c) \/ CheckFails(c) \/ ReadCache(c) \/ Fetch(c)
  \/ FetchFails(c) \/ FillCache(c) \/ Validate(c) \/ Insert(c) \/ InsertFails(c)

Next ==
  \/ \E c \in Clients : Step(c)
  \/ \E c \in Clients, tx \in TxIds, ts \in Times :
       submit(c, tx, ts) \/ execute(c, tx, ts)
  \/ SafetyModeChanges
  \/ Restart

Spec == Init /\ [][Next]_vars

-----------------------------------------------------------------------------
Requests == [call : {"submit", "execute"}, tx : TxIds, ts : Times]
Rows == [tx : TxIds, ts : Times, epoch : 0..MaxEpoch, shut : BOOLEAN]
Steps == {"idle", "check", "cached", "fetch", "fill", "validate", "insert"}

(* Type invariant: rows, the cache and the clients' locals.                *)
TypeOK ==
  /\ safety_mode \in BOOLEAN
  /\ audit_log \in Seq(Rows)
  /\ cache \in Times \union {NoTime}
  /\ pc \in [Clients -> Steps]
  /\ req \in [Clients -> Requests \union {NoRequest}]
  /\ \A c \in Clients : pc[c] # "idle" => req[c] \in Requests
  /\ limit \in [Clients -> Times \union {NoTime}]
  /\ shut \in [Clients -> BOOLEAN]
  /\ epoch \in 0..MaxEpoch

(* The cache never runs ahead of the log: it holds an arrival time that    *)
(* was logged, even when slow fetches fill it late.                        *)
CacheIsALoggedTime ==
  cache # NoTime => \E i \in DOMAIN audit_log : audit_log[i].ts = cache

(* What the write-once cache does guarantee: a row of a later run of the   *)
(* process has a later timestamp than every row of every earlier run.      *)
RunsAreOrdered ==
  \A i, j \in DOMAIN audit_log :
    audit_log[i].epoch < audit_log[j].epoch => audit_log[i].ts < audit_log[j].ts

(* "Transactions will be rejected during safety triggers" (NIP-007): no    *)
(* submission is logged if safety mode was on from its start to its end,   *)
(* unless the GET of the flag failed, which the code takes for "off".      *)
NoneLoggedInSafetyMode ==
  \A i \in DOMAIN audit_log : ~audit_log[i].shut

(* "enforcing transaction ordering based on when they were first seen"     *)
(* (docs/PRD.md): the log's arrival times increase.                        *)
FirstSeenOrder ==
  \A i, j \in DOMAIN audit_log : i < j => audit_log[i].ts < audit_log[j].ts
=============================================================================
