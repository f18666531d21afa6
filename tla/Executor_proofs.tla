-------------------------- MODULE Executor_proofs --------------------------
(***************************************************************************)
(* The invariants of the two components of src/executor: NexusExecutor for *)
(* any number of clients, ids, times and restarts, and LightningRecovery   *)
(* for any number of payments and audits, any thresholds and any number of *)
(* retries.  The proofs about them share nothing but this module.          *)
(***************************************************************************)
EXTENDS NexusExecutor, LightningRecovery, TLAPS

-----------------------------------------------------------------------------
(* NexusExecutor.  Three layers, each inductive given the ones before:     *)
(* types, the ordering of runs, and the safety flag.                       *)

-----------------------------------------------------------------------------
(* Types.                                                                  *)

LEMMA InitType == Init => TypeOK
BY EpochAssumption DEF Init, TypeOK, Steps

LEMMA RowType ==
  ASSUME TypeOK, NEW c \in Clients, pc[c] = "insert"
  PROVE  Row(c) \in Rows
<1>1. req[c].tx \in TxIds /\ req[c].ts \in Times
  BY DEF TypeOK, Requests
<1> QED
  BY <1>1 DEF TypeOK, Row, Rows

(* The times and runs of logged rows can be compared.                      *)
LEMMA RowFields ==
  ASSUME TypeOK, NEW i \in DOMAIN audit_log
  PROVE  /\ audit_log[i] \in Rows
         /\ audit_log[i].ts \in Times /\ audit_log[i].epoch \in 0..MaxEpoch
<1>1. audit_log[i] \in Rows
  <2> HIDE DEF Rows
  <2> QED
    BY DEF TypeOK
<1> QED
  BY <1>1 DEF Rows

(* What the type invariant says of the clients' locals, the history aside. *)
LocalsOK ==
  /\ pc \in [Clients -> Steps]
  /\ req \in [Clients -> Requests \union {NoRequest}]
  /\ \A c \in Clients : pc[c] # "idle" => req[c] \in Requests
  /\ limit \in [Clients -> Times \union {NoTime}]

LEMMA AnswerLocals ==
  ASSUME TypeOK, NEW c \in Clients, NEW what, Answer(c, what)
  PROVE  LocalsOK'
BY DEF TypeOK, LocalsOK, Steps, Answer, Goto

(* A call goes on: its request stays, its limit is a time or none.         *)
LEMMA GotoLocals ==
  ASSUME TypeOK, NEW c \in Clients, NEW step \in Steps, pc[c] # "idle",
         Goto(c, step), UNCHANGED req,
         limit' \in [Clients -> Times \union {NoTime}]
  PROVE  LocalsOK'
BY Zenon DEF TypeOK, LocalsOK, Goto

LEMMA BeginType ==
  ASSUME TypeOK, NEW c \in Clients, NEW tx \in TxIds, NEW ts \in Times,
         NEW call \in {"submit", "execute"}, NEW step \in Steps,
         Begin(c, call, tx, ts, step)
  PROVE  TypeOK'
<1>1. [call |-> call, tx |-> tx, ts |-> ts] \in Requests
  BY DEF Requests
<1>2. LocalsOK'
  BY <1>1 DEF Begin, Goto, TypeOK, LocalsOK
<1>3. shut' \in [Clients -> BOOLEAN]
  BY DEF Begin, TypeOK
<1> QED
  BY <1>2, <1>3 DEF Begin, TypeOK, LocalsOK

LEMMA StepType == TypeOK /\ [Next]_vars => TypeOK'
<1> SUFFICES ASSUME TypeOK, [Next]_vars PROVE TypeOK'
  OBVIOUS
<1>a. ASSUME LocalsOK', UNCHANGED <<safety_mode, audit_log, cache, shut, epoch>>
      PROVE  TypeOK'
  BY <1>a DEF TypeOK, LocalsOK
<1>1. ASSUME NEW c \in Clients, check_safety_mode(c) PROVE TypeOK'
  <2>1. LocalsOK'
    BY <1>1, AnswerLocals, GotoLocals, Zenon DEF check_safety_mode, TypeOK, Steps
  <2> QED
    BY <1>1, <1>a, <2>1, Zenon DEF check_safety_mode
<1>2. ASSUME NEW c \in Clients, CheckFails(c) PROVE TypeOK'
  <2>1. LocalsOK'
    BY <1>2, AnswerLocals, GotoLocals DEF CheckFails, TypeOK, Steps
  <2>2. shut' \in [Clients -> BOOLEAN]
    BY <1>2, Zenon DEF CheckFails, TypeOK
  <2> QED
    BY <1>2, <2>1, <2>2 DEF CheckFails, TypeOK, LocalsOK
<1>3. ASSUME NEW c \in Clients, ReadCache(c) PROVE TypeOK'
  <2>1. limit' \in [Clients -> Times \union {NoTime}]
    BY <1>3 DEF ReadCache, TypeOK
  <2>2. \E step \in Steps : Goto(c, step)
    BY <1>3 DEF ReadCache, Steps
  <2>3. LocalsOK'
    BY <1>3, <2>1, <2>2, GotoLocals DEF ReadCache
  <2> QED
    BY <1>3, <1>a, <2>3 DEF ReadCache
<1>4. ASSUME NEW c \in Clients, Fetch(c) PROVE TypeOK'
  <2>1. \A i \in DOMAIN audit_log : audit_log[i].ts \in Times
    BY RowFields
  <2>2. limit' \in [Clients -> Times \union {NoTime}]
    BY <1>4, <2>1 DEF Fetch, TypeOK
  <2>3. LocalsOK'
    BY <1>4, <2>2, GotoLocals DEF Fetch, Steps
  <2> QED
    BY <1>4, <1>a, <2>3 DEF Fetch
<1>5. ASSUME NEW c \in Clients, FetchFails(c) PROVE TypeOK'
  <2>1. LocalsOK'
    BY <1>5, AnswerLocals DEF FetchFails
  <2> QED
    BY <1>5, <1>a, <2>1 DEF FetchFails
<1>6. ASSUME NEW c \in Clients, FillCache(c) PROVE TypeOK'
  <2>1. LocalsOK'
    BY <1>6, GotoLocals DEF FillCache, TypeOK, Steps
  <2> QED
    BY <1>6, <2>1 DEF FillCache, TypeOK, LocalsOK
<1>7. ASSUME NEW c \in Clients, Validate(c) PROVE TypeOK'
  <2>1. LocalsOK'
    BY <1>7, AnswerLocals, GotoLocals DEF Validate, TypeOK, Steps
  <2> QED
    BY <1>7, <1>a, <2>1 DEF Validate
<1>8. ASSUME NEW c \in Clients, Insert(c) \/ InsertFails(c) PROVE TypeOK'
  <2>1. LocalsOK'
    BY <1>8, AnswerLocals DEF Insert, InsertFails
  <2>2. audit_log' \in Seq(Rows)
    <3>1. Row(c) \in Rows
      BY <1>8, RowType DEF Insert, InsertFails
    <3>2. audit_log' = audit_log \/ audit_log' = Append(audit_log, Row(c))
      BY <1>8 DEF Insert, InsertFails
    <3> HIDE DEF Row, Rows
    <3> QED
      BY <3>1, <3>2 DEF TypeOK
  <2> QED
    BY <1>8, <2>1, <2>2 DEF Insert, InsertFails, TypeOK, LocalsOK
<1>9. ASSUME NEW c \in Clients, NEW tx \in TxIds, NEW ts \in Times,
             submit(c, tx, ts) \/ execute(c, tx, ts)
      PROVE  TypeOK'
  BY <1>9, BeginType DEF submit, execute, Steps
<1>10. CASE SafetyModeChanges
  <2>1. safety_mode' \in BOOLEAN /\ shut' \in [Clients -> BOOLEAN]
    BY <1>10 DEF SafetyModeChanges, TypeOK
  <2> QED
    BY <1>10, <2>1 DEF SafetyModeChanges, TypeOK
<1>11. CASE Restart
  BY <1>11, EpochAssumption DEF Restart, TypeOK, Steps
<1>12. CASE UNCHANGED vars
  BY <1>12 DEF vars, TypeOK
<1> QED
  BY <1>1, <1>2, <1>3, <1>4, <1>5, <1>6, <1>7, <1>8, <1>9, <1>10, <1>11, <1>12
     DEF Next, Step

(* The log, the cache and the clients keep to their types.                 *)
THEOREM TypeCorrect == Spec => []TypeOK
BY InitType, StepType, PTL DEF Spec

-----------------------------------------------------------------------------
(* The ordering of runs.  The point of the cache is the rows of earlier    *)
(* runs: whatever time a call works with, they are not later than it.      *)

IsLogged(log, t) == \E i \in DOMAIN log : log[i].ts = t
Covers(t, log, run) == \A i \in DOMAIN log : log[i].epoch < run => log[i].ts <= t
Exceeds(t, log, run) == \A i \in DOMAIN log : log[i].epoch < run => log[i].ts < t
NoneEarlier(log, run) == \A i \in DOMAIN log : ~(log[i].epoch < run)

ClientOrder(c) ==
  /\ pc[c] = "fill" => limit[c] # NoTime /\ IsLogged(audit_log, limit[c])
  /\ pc[c] \in {"fill", "validate"} /\ limit[c] # NoTime =>
       Covers(limit[c], audit_log, epoch)
  /\ pc[c] = "validate" /\ limit[c] = NoTime => NoneEarlier(audit_log, epoch)
  /\ pc[c] = "insert" => Exceeds(req[c].ts, audit_log, epoch)

OrderInv ==
  /\ \A i \in DOMAIN audit_log : audit_log[i].epoch <= epoch
  /\ cache # NoTime => IsLogged(audit_log, cache) /\ Covers(cache, audit_log, epoch)
  /\ \A c \in Clients : ClientOrder(c)
  /\ RunsAreOrdered

(* Within a run the log only gains rows of that run ...                    *)
LogGrows ==
  /\ \A i \in DOMAIN audit_log : i \in DOMAIN audit_log' /\ audit_log'[i] = audit_log[i]
  /\ \A i \in DOMAIN audit_log' :
       i \in DOMAIN audit_log \/ audit_log'[i].epoch = epoch

(* ... which changes nothing for the rows of earlier runs.                 *)
LEMMA EarlierRowsKept ==
  ASSUME TypeOK, LogGrows, NEW t
  PROVE  /\ IsLogged(audit_log, t) => IsLogged(audit_log', t)
         /\ Covers(t, audit_log, epoch) => Covers(t, audit_log', epoch)
         /\ Exceeds(t, audit_log, epoch) => Exceeds(t, audit_log', epoch)
         /\ NoneEarlier(audit_log, epoch) => NoneEarlier(audit_log', epoch)
<1>1. ~(epoch < epoch)
  BY EpochAssumption DEF TypeOK
<1> QED
  BY <1>1, Zenon DEF LogGrows, IsLogged, Covers, Exceeds, NoneEarlier

LEMMA ClientKept ==
  ASSUME TypeOK, OrderInv, LogGrows, epoch' = epoch, NEW d \in Clients,
         pc'[d] = pc[d], req'[d] = req[d], limit'[d] = limit[d]
  PROVE  ClientOrder(d)'
<1>1. ClientOrder(d)
  BY DEF OrderInv
<1>2. /\ IsLogged(audit_log, limit[d]) => IsLogged(audit_log', limit[d])
      /\ Covers(limit[d], audit_log, epoch) => Covers(limit[d], audit_log', epoch)
      /\ NoneEarlier(audit_log, epoch) => NoneEarlier(audit_log', epoch)
      /\ Exceeds(req[d].ts, audit_log, epoch) => Exceeds(req[d].ts, audit_log', epoch)
  BY EarlierRowsKept
<1> QED
  BY <1>1, <1>2, Zenon DEF ClientOrder

LEMMA InsertGrows ==
  ASSUME TypeOK, NEW c \in Clients, pc[c] = "insert",
         audit_log' = Append(audit_log, Row(c))
  PROVE  /\ LogGrows
         /\ \A i \in DOMAIN audit_log' : i \in DOMAIN audit_log \/ audit_log'[i] = Row(c)
<1>1. Row(c) \in Rows /\ audit_log \in Seq(Rows)
  BY RowType DEF TypeOK
<1>2. Row(c).epoch = epoch
  BY DEF Row
<1> HIDE DEF Row, Rows
<1>3. /\ Len(audit_log') = Len(audit_log) + 1 /\ Len(audit_log) \in Nat
      /\ DOMAIN audit_log = 1..Len(audit_log) /\ DOMAIN audit_log' = 1..Len(audit_log')
      /\ \A i \in 1..Len(audit_log) : audit_log'[i] = audit_log[i]
      /\ audit_log'[Len(audit_log) + 1] = Row(c)
  BY <1>1
<1> QED
  BY <1>2, <1>3 DEF LogGrows

LEMMA InitOrder == Init => OrderInv
<1> SUFFICES ASSUME Init PROVE OrderInv
  OBVIOUS
<1>1. DOMAIN audit_log = {}
  BY DEF Init
<1>2. cache = NoTime /\ \A c \in Clients : pc[c] = "idle"
  BY DEF Init
<1> QED
  BY <1>1, <1>2 DEF OrderInv, ClientOrder, RunsAreOrdered

Calls(c) == \E tx \in TxIds, ts \in Times : submit(c, tx, ts) \/ execute(c, tx, ts)

(* A step of one client leaves the locals of the others alone, stays in    *)
(* its run and at most adds the client's own row.                          *)
LEMMA LocalStep ==
  ASSUME TypeOK, NEW c \in Clients, Step(c) \/ Calls(c)
  PROVE  /\ \A d \in Clients \ {c} :
              pc'[d] = pc[d] /\ req'[d] = req[d] /\ limit'[d] = limit[d]
         /\ epoch' = epoch
         /\ \/ audit_log' = audit_log
            \/ pc[c] = "insert" /\ audit_log' = Append(audit_log, Row(c))
<1>1. CASE Calls(c)
  BY <1>1 DEF Calls, submit, execute, Begin, Goto, TypeOK
<1>2. CASE check_safety_mode(c) \/ CheckFails(c)
  BY <1>2, Zenon DEF check_safety_mode, CheckFails, Answer, Goto, TypeOK
<1>3. CASE ReadCache(c) \/ Fetch(c) \/ FetchFails(c) \/ FillCache(c)
  BY <1>3 DEF ReadCache, Fetch, FetchFails, FillCache, Answer, Goto, TypeOK
<1>4. CASE Validate(c)
  BY <1>4 DEF Validate, Answer, Goto, TypeOK
<1>5. CASE Insert(c) \/ InsertFails(c)
  BY <1>5 DEF Insert, InsertFails, Answer, Goto, TypeOK
<1> QED
  BY <1>1, <1>2, <1>3, <1>4, <1>5 DEF Step

(* What the step of a client does to its own part of the invariant.        *)
LEMMA OwnOrder ==
  ASSUME TypeOK, OrderInv, NEW c \in Clients, Step(c) \/ Calls(c)
  PROVE  ClientOrder(c)'
<1>a. ClientOrder(c)
  BY DEF OrderInv
<1>b. pc'[c] \in {"idle", "check", "cached", "fetch"} => ClientOrder(c)'
  BY DEF ClientOrder
<1>c. ASSUME NEW what, Answer(c, what) PROVE ClientOrder(c)'
  BY <1>b, <1>c DEF Answer, Goto, TypeOK
<1>1. CASE Calls(c)
  BY <1>1, <1>b DEF Calls, submit, execute, Begin, Goto, TypeOK
<1>2. CASE check_safety_mode(c) \/ CheckFails(c)
  BY <1>2, <1>b, <1>c, Zenon DEF check_safety_mode, CheckFails, Goto, TypeOK
<1>3. CASE ReadCache(c)
  <2>1. limit'[c] = cache /\ audit_log' = audit_log /\ epoch' = epoch
    BY <1>3 DEF ReadCache, TypeOK
  <2>2. pc'[c] = IF cache = NoTime THEN "fetch" ELSE "validate"
    BY <1>3 DEF ReadCache, Goto, TypeOK
  <2> QED
    BY <2>1, <2>2 DEF OrderInv, ClientOrder
<1>4. CASE Fetch(c)
  <2>1. audit_log' = audit_log /\ epoch' = epoch
    BY <1>4 DEF Fetch
  <2>2. CASE audit_log = <<>> /\ Goto(c, "validate")
    <3>1. pc'[c] = "validate" /\ DOMAIN audit_log = {}
      BY <2>2 DEF Goto, TypeOK
    <3> QED
      BY <2>1, <3>1 DEF ClientOrder, Covers, NoneEarlier
  <2>3. ASSUME NEW i \in DOMAIN audit_log,
               \A j \in DOMAIN audit_log : audit_log[j].ts <= audit_log[i].ts,
               limit' = [limit EXCEPT ![c] = audit_log[i].ts], Goto(c, "fill")
        PROVE  ClientOrder(c)'
    <3>1. pc'[c] = "fill" /\ limit'[c] = audit_log[i].ts
      BY <2>3 DEF Goto, TypeOK
    <3>2. limit'[c] # NoTime
      BY <3>1, RowFields, TimesAssumption
    <3> QED
      BY <2>1, <2>3, <3>1, <3>2 DEF ClientOrder, Covers, IsLogged
  <2> QED
    BY <1>4, <2>2, <2>3 DEF Fetch
<1>5. CASE FetchFails(c)
  BY <1>5, <1>c DEF FetchFails
<1>6. CASE FillCache(c)
  BY <1>6, <1>a DEF FillCache, ClientOrder, Goto, TypeOK
<1>7. CASE Validate(c)
  <2>1. ASSUME Goto(c, "insert"), UNCHANGED <<limit, req>>,
               pc[c] = "validate", ~(limit[c] # NoTime /\ req[c].ts <= limit[c])
        PROVE  ClientOrder(c)'
    <3>1. pc'[c] = "insert" /\ audit_log' = audit_log /\ epoch' = epoch
      BY <1>7, <2>1 DEF Validate, Goto, TypeOK
    <3>2. Exceeds(req[c].ts, audit_log, epoch)
      <4> SUFFICES ASSUME NEW i \in DOMAIN audit_log, audit_log[i].epoch < epoch
                   PROVE  audit_log[i].ts < req[c].ts
        BY DEF Exceeds
      <4>1. limit[c] # NoTime /\ audit_log[i].ts <= limit[c] /\ limit[c] < req[c].ts
        <5>1. limit[c] # NoTime
          BY <1>a, <2>1 DEF ClientOrder, NoneEarlier
        <5>2. audit_log[i].ts <= limit[c]
          BY <1>a, <2>1, <5>1 DEF ClientOrder, Covers
        <5>3. limit[c] \in Nat /\ req[c].ts \in Nat
          BY <2>1, <5>1, TimesAssumption, Zenon DEF TypeOK, Requests
        <5> QED
          BY <2>1, <5>1, <5>2, <5>3
      <4>2. audit_log[i].ts \in Nat /\ limit[c] \in Nat /\ req[c].ts \in Nat
        BY <2>1, <4>1, RowFields, TimesAssumption, Zenon DEF TypeOK, Requests
      <4> QED
        BY <4>1, <4>2
    <3> QED
      BY <2>1, <3>1, <3>2 DEF ClientOrder
  <2> QED
    BY <1>7, <1>c, <2>1 DEF Validate
<1>8. CASE Insert(c) \/ InsertFails(c)
  BY <1>8, <1>c DEF Insert, InsertFails
<1> QED
  BY <1>1, <1>2, <1>3, <1>4, <1>5, <1>6, <1>7, <1>8 DEF Step

LEMMA OrderStep == TypeOK /\ OrderInv /\ [Next]_vars => OrderInv'
<1> SUFFICES ASSUME TypeOK, OrderInv, [Next]_vars PROVE OrderInv'
  OBVIOUS
<1>1. ASSUME NEW c \in Clients, Step(c) \/ Calls(c) PROVE OrderInv'
  <2>1. epoch' = epoch /\ epoch \in Int
    BY <1>1, LocalStep DEF TypeOK
  <2>2. LogGrows
    <3>1. audit_log' = audit_log => LogGrows
      BY DEF LogGrows
    <3> QED
      BY <1>1, <3>1, LocalStep, InsertGrows
  <2>3. \A d \in Clients : ClientOrder(d)'
    <3>1. ASSUME NEW d \in Clients, d # c PROVE ClientOrder(d)'
      <4>1. pc'[d] = pc[d] /\ req'[d] = req[d] /\ limit'[d] = limit[d]
        BY <1>1, <3>1, LocalStep
      <4> QED
        BY <2>1, <2>2, <4>1, ClientKept
    <3> QED
      BY <1>1, <3>1, OwnOrder
  <2>4. \A i \in DOMAIN audit_log' : audit_log'[i].epoch <= epoch'
    BY <2>1, <2>2 DEF OrderInv, LogGrows
  <2>5. cache' # NoTime =>
          IsLogged(audit_log', cache') /\ Covers(cache', audit_log', epoch')
    <3>1. cache' = cache \/ FillCache(c)
      BY <1>1, Zenon DEF Step, Calls, submit, execute, Begin, check_safety_mode,
                  CheckFails, ReadCache, Fetch, FetchFails, Validate, Insert,
                  InsertFails
    <3>2. CASE cache' = cache
      BY <2>1, <2>2, <3>2, EarlierRowsKept DEF OrderInv
    <3>3. CASE FillCache(c)
      <4>1. pc[c] = "fill" /\ cache' = limit[c] /\ audit_log' = audit_log
        BY <3>3 DEF FillCache
      <4> QED
        BY <2>1, <4>1 DEF OrderInv, ClientOrder
    <3> QED
      BY <3>1, <3>2, <3>3, SMTT(20)
  <2>6. RunsAreOrdered'
    <3>1. CASE audit_log' = audit_log
      BY <3>1 DEF OrderInv, RunsAreOrdered
    <3>2. CASE pc[c] = "insert" /\ audit_log' = Append(audit_log, Row(c))
      <4> SUFFICES ASSUME NEW i \in DOMAIN audit_log', NEW j \in DOMAIN audit_log',
                          audit_log'[i].epoch < audit_log'[j].epoch
                   PROVE  audit_log'[i].ts < audit_log'[j].ts
        BY DEF RunsAreOrdered
      <4>1. audit_log'[i].epoch \in Int /\ audit_log'[j].epoch \in Int
        <5>1. \A k \in DOMAIN audit_log : audit_log[k].epoch \in Int
          BY RowFields
        <5>2. Row(c).epoch \in Int
          BY <2>1 DEF Row
        <5> QED
          BY <3>2, <5>1, <5>2, InsertGrows DEF LogGrows
      <4>2. i \in DOMAIN audit_log /\ audit_log'[i] = audit_log[i]
        <5>1. audit_log'[i].epoch < epoch
          BY <2>1, <2>4, <4>1
        <5>2. audit_log'[i] # Row(c)
          BY <2>1, <5>1 DEF Row
        <5> QED
          BY <2>2, <3>2, <5>2, InsertGrows DEF LogGrows
      <4>3. CASE j \in DOMAIN audit_log
        BY <2>2, <4>2, <4>3 DEF LogGrows, OrderInv, RunsAreOrdered
      <4>4. CASE audit_log'[j] = Row(c)
        <5>1. audit_log'[j].ts = req[c].ts /\ audit_log'[j].epoch = epoch
          BY <4>4, SMTT(20) DEF Row
        <5>2. Exceeds(req[c].ts, audit_log, epoch)
          BY <3>2, SMTT(20) DEF OrderInv, ClientOrder
        <5> QED
          BY <4>2, <5>1, <5>2 DEF Exceeds
      <4> QED
        BY <3>2, <4>3, <4>4, InsertGrows
    <3> QED
      BY <1>1, <3>1, <3>2, LocalStep
  <2> QED
    BY <2>3, <2>4, <2>5, <2>6 DEF OrderInv
<1>2. CASE SafetyModeChanges
  BY <1>2, SMTT(20) DEF SafetyModeChanges, OrderInv, ClientOrder, RunsAreOrdered
<1>3. CASE Restart
  <2>1. /\ cache' = NoTime /\ audit_log' = audit_log /\ epoch' = epoch + 1
        /\ \A c \in Clients : pc'[c] = "idle"
    BY <1>3 DEF Restart
  <2>2. \A i \in DOMAIN audit_log : audit_log[i].epoch <= epoch + 1
    <3> SUFFICES ASSUME NEW i \in DOMAIN audit_log
                 PROVE  audit_log[i].epoch <= epoch + 1
      OBVIOUS
    <3>1. audit_log[i].epoch \in Int /\ epoch \in Int
      BY RowFields, SMTT(20) DEF TypeOK
    <3> QED
      BY <3>1 DEF OrderInv
  <2> QED
    BY <2>1, <2>2 DEF OrderInv, ClientOrder, RunsAreOrdered
<1>4. CASE UNCHANGED vars
  BY <1>4 DEF vars, OrderInv, ClientOrder, RunsAreOrdered
<1> QED
  BY <1>1, <1>2, <1>3, <1>4 DEF Next, Calls

LEMMA Ordered == Spec => [](TypeOK /\ OrderInv)
BY InitType, StepType, InitOrder, OrderStep, PTL DEF Spec

(* get_cached_or_fetch_latest_event_time caches only arrival times that    *)
(* are in me_audit_log.                                                    *)
THEOREM CacheIsLogged == Spec => []CacheIsALoggedTime
<1>1. OrderInv => CacheIsALoggedTime
  BY DEF OrderInv, CacheIsALoggedTime, IsLogged
<1> QED
  BY <1>1, Ordered, PTL

(* submit orders the runs of the process: a run logs only times later than *)
(* every time logged by the runs before it, whatever the interleaving.     *)
THEOREM LaterRunsLogLaterTimes == Spec => []RunsAreOrdered
<1>1. OrderInv => RunsAreOrdered
  BY DEF OrderInv
<1> QED
  BY <1>1, Ordered, PTL

-----------------------------------------------------------------------------
(* The safety flag.  A submission that is past the check and was not let   *)
(* through by a failed GET has seen the flag off.                          *)

ClientSafe(c) ==
  /\ shut[c] => safety_mode
  /\ pc[c] \notin {"idle", "check"} /\ req[c].call = "submit" => ~shut[c]
  /\ pc[c] = "insert" => req[c].call = "submit"

SafeInv == NoneLoggedInSafetyMode /\ \A c \in Clients : ClientSafe(c)

LEMMA InitSafe == Init => SafeInv
<1> SUFFICES ASSUME Init PROVE SafeInv
  OBVIOUS
<1>1. DOMAIN audit_log = {}
  BY DEF Init
<1>2. \A c \in Clients : pc[c] = "idle" /\ shut[c] = FALSE
  BY Zenon DEF Init
<1> QED
  BY <1>1, <1>2, Zenon DEF SafeInv, ClientSafe, NoneLoggedInSafetyMode

LEMMA OwnSafe ==
  ASSUME TypeOK, SafeInv, NEW c \in Clients, Step(c) \/ Calls(c)
  PROVE  ClientSafe(c)' /\ safety_mode' = safety_mode
<1>a. ClientSafe(c)
  BY DEF SafeInv
<1>b. ASSUME pc'[c] = "idle", UNCHANGED <<shut, safety_mode>> PROVE ClientSafe(c)'
  BY <1>a, <1>b DEF ClientSafe
<1>c. ASSUME pc[c] \notin {"idle", "check"}, pc'[c] # "insert",
             UNCHANGED <<shut, safety_mode, req>>
      PROVE  ClientSafe(c)'
  BY <1>a, <1>c DEF ClientSafe
<1>d. ASSUME NEW what, Answer(c, what) PROVE pc'[c] = "idle"
  BY <1>d DEF Answer, Goto, TypeOK
<1>1. CASE Calls(c)
  <2>1. PICK tx \in TxIds, ts \in Times : submit(c, tx, ts) \/ execute(c, tx, ts)
    BY <1>1 DEF Calls
  <2>2. shut'[c] = safety_mode /\ safety_mode' = safety_mode
    BY <2>1 DEF submit, execute, Begin, TypeOK
  <2>3. pc'[c] = "check" \/ (pc'[c] = "cached" /\ req'[c].call = "execute")
    <3>1. CASE submit(c, tx, ts)
      BY <3>1 DEF submit, Begin, Goto, TypeOK
    <3>2. CASE execute(c, tx, ts)
      <4>1. pc'[c] = "cached"
        BY <3>2 DEF execute, Begin, Goto, TypeOK
      <4>2. req'[c] = [call |-> "execute", tx |-> tx, ts |-> ts]
        BY <3>2 DEF execute, Begin, TypeOK
      <4> QED
        BY <4>1, <4>2
    <3> QED
      BY <2>1, <3>1, <3>2
  <2> QED
    BY <2>2, <2>3, Zenon DEF ClientSafe
<1>2. CASE check_safety_mode(c)
  <2>1. UNCHANGED <<shut, safety_mode>>
    BY <1>2, Zenon DEF check_safety_mode
  <2>2. pc'[c] = "idle" \/ (~safety_mode /\ pc'[c] = "cached")
    BY <1>2, <1>d, Zenon DEF check_safety_mode, Goto, TypeOK
  <2>3. CASE ~safety_mode /\ pc'[c] = "cached"
    BY <1>a, <2>1, <2>3 DEF ClientSafe
  <2> QED
    BY <1>b, <2>1, <2>2, <2>3
<1>3. CASE CheckFails(c)
  <2>1. safety_mode' = safety_mode
    BY <1>3 DEF CheckFails
  <2>2. CASE Goto(c, "cached") /\ shut' = [shut EXCEPT ![c] = FALSE]
    <3>1. pc'[c] = "cached" /\ shut'[c] = FALSE
      BY <2>2 DEF Goto, TypeOK
    <3> QED
      BY <2>1, <3>1, Zenon DEF ClientSafe
  <2> QED
    BY <1>3, <1>b, <1>d, <2>1, <2>2 DEF CheckFails
<1>4. CASE ReadCache(c) \/ Fetch(c) \/ FillCache(c)
  <2>1. /\ pc[c] \notin {"idle", "check"} /\ pc'[c] # "insert"
        /\ UNCHANGED <<shut, safety_mode, req>>
    BY <1>4 DEF ReadCache, Fetch, FillCache, Goto, TypeOK
  <2> QED
    BY <1>c, <2>1
<1>5. CASE FetchFails(c) \/ Insert(c) \/ InsertFails(c)
  <2>1. pc'[c] = "idle" /\ UNCHANGED <<shut, safety_mode>>
    BY <1>5, <1>d DEF FetchFails, Insert, InsertFails
  <2> QED
    BY <1>b, <2>1
<1>6. CASE Validate(c)
  <2>1. UNCHANGED <<shut, safety_mode>> /\ pc[c] = "validate"
    BY <1>6 DEF Validate
  <2>2. CASE req[c].call = "submit" /\ Goto(c, "insert") /\ UNCHANGED req
    <3>1. pc'[c] = "insert"
      BY <2>2 DEF Goto, TypeOK
    <3> QED
      BY <1>a, <2>1, <2>2, <3>1 DEF ClientSafe
  <2> QED
    BY <1>6, <1>b, <1>d, <2>1, <2>2 DEF Validate
<1> QED
  BY <1>1, <1>2, <1>3, <1>4, <1>5, <1>6 DEF Step

LEMMA SafeStep == TypeOK /\ SafeInv /\ [Next]_vars => SafeInv'
<1> SUFFICES ASSUME TypeOK, SafeInv, [Next]_vars PROVE SafeInv'
  OBVIOUS
<1>1. ASSUME NEW c \in Clients, Step(c) \/ Calls(c) PROVE SafeInv'
  <2>1. ASSUME NEW d \in Clients, d # c PROVE ClientSafe(d)'
    <3>1. pc'[d] = pc[d] /\ req'[d] = req[d] /\ safety_mode' = safety_mode
      BY <1>1, <2>1, LocalStep, OwnSafe, SMTT(20)
    <3>2. shut'[d] = shut[d]
      BY <1>1, <2>1, ZenonT(30)
         DEF Step, Calls, submit, execute, Begin, check_safety_mode, CheckFails,
             ReadCache, Fetch, FetchFails, FillCache, Validate, Insert,
             InsertFails, TypeOK
    <3>3. ClientSafe(d)
      BY DEF SafeInv
    <3> QED
      BY <3>1, <3>2, <3>3, ZenonT(30) DEF ClientSafe
  <2>2. \A d \in Clients : ClientSafe(d)'
    BY <1>1, <2>1, OwnSafe
  <2>3. NoneLoggedInSafetyMode'
    <3>1. CASE audit_log' = audit_log
      BY <3>1 DEF SafeInv, NoneLoggedInSafetyMode
    <3>2. CASE pc[c] = "insert" /\ audit_log' = Append(audit_log, Row(c))
      <4>1. ~shut[c]
        BY <3>2 DEF SafeInv, ClientSafe
      <4>2. Row(c).shut = shut[c]
        BY DEF Row
      <4>3. \A i \in DOMAIN audit_log' :
              audit_log'[i] = Row(c) \/ (i \in DOMAIN audit_log /\ audit_log'[i] = audit_log[i])
        BY <3>2, InsertGrows DEF LogGrows
      <4> QED
        BY <4>1, <4>2, <4>3, Zenon DEF SafeInv, NoneLoggedInSafetyMode
    <3> QED
      BY <1>1, <3>1, <3>2, LocalStep
  <2> QED
    BY <2>2, <2>3 DEF SafeInv
<1>2. CASE SafetyModeChanges
  <2>1. \A c \in Clients : /\ shut'[c] => shut[c] /\ safety_mode'
                           /\ pc'[c] = pc[c] /\ req'[c] = req[c]
    BY <1>2, Zenon DEF SafetyModeChanges
  <2>2. ASSUME NEW c \in Clients PROVE ClientSafe(c)'
    <3>1. ClientSafe(c)
      BY DEF SafeInv
    <3>2. /\ shut'[c] => shut[c]
          /\ shut'[c] => safety_mode'
          /\ pc'[c] = pc[c]
          /\ req'[c] = req[c]
      BY <2>1, Zenon
    <3> QED
      BY <3>1, <3>2, Zenon DEF ClientSafe
  <2> QED
    BY <1>2, <2>2 DEF SafetyModeChanges, SafeInv, NoneLoggedInSafetyMode
<1>3. CASE Restart
  <2>1. \A c \in Clients : pc'[c] = "idle" /\ shut'[c] = FALSE
    BY <1>3 DEF Restart
  <2>2. \A c \in Clients : ClientSafe(c)'
    BY <2>1, Zenon DEF ClientSafe
  <2> QED
    BY <1>3, <2>2 DEF Restart, SafeInv, NoneLoggedInSafetyMode
<1>4. CASE UNCHANGED vars
  BY <1>4, Zenon DEF vars, SafeInv, ClientSafe, NoneLoggedInSafetyMode
<1> QED
  BY <1>1, <1>2, <1>3, <1>4 DEF Next, Calls

(* submit logs nothing for a call that ran in safety mode from its start   *)
(* to its end, unless the GET of the flag failed.                          *)
THEOREM SafetyModeShuts == Spec => []NoneLoggedInSafetyMode
<1>1. SafeInv => NoneLoggedInSafetyMode
  BY DEF SafeInv
<1> QED
  BY <1>1, InitType, StepType, InitSafe, SafeStep, PTL DEF Spec

-----------------------------------------------------------------------------
(* LightningRecovery.                                                      *)

Retries == 0 .. RetryCap

Intent == [status : Status, failure : Failure \union {NoFailure}, retry : Retries,
           age : Nat, idle : Nat]
AuditRow == [payment : Payments, intent : Intent]
Move == [payment : Payments, status : Status, retry : Retries, idle : Nat,
         written : BOOLEAN, valid : BOOLEAN, failure : BOOLEAN]

Typed ==
  /\ intents \in [Payments -> Intent]
  /\ audit_pc \in [Auditors -> {"idle", "next", "update", "event"}]
  /\ todo \in [Auditors -> SUBSET AuditRow]
  /\ cur \in [Auditors -> Move \union {NoRow}]
  /\ taken \in [Payments -> Retries]

(* A move in hand is a valid one, and is written before its event.         *)
MovesAreValid ==
  \A a \in Auditors :
    /\ audit_pc[a] = "update" => cur[a] \in Move /\ cur[a].valid
    /\ audit_pc[a] = "event" => cur[a] \in Move /\ cur[a].valid /\ cur[a].written

MoveInv == Typed /\ MovesAreValid /\ EventsTellOfValidMoves

LEMMA CappedTyped ==
  ASSUME NEW n \in Nat, NEW cap \in Nat
  PROVE  /\ Capped(n, cap) \in 0 .. cap
         /\ Capped(n, cap) \in Nat
         /\ Capped(n, cap) <= n
         /\ n <= cap => Capped(n, cap) = n
BY DEF Capped

LEMMA Thresholds ==
  /\ RetryCap \in Nat /\ AgeCap \in Nat /\ MaxRetries \in Nat /\ MaxRetries < RetryCap
BY CapsAssumption

LEMMA FreshTyped == Fresh \in Intent
BY Thresholds DEF Fresh, Intent, Status, Failure, NoFailure, Retries

LEMMA RecoveredTyped ==
  ASSUME NEW i \in Intent
  PROVE  /\ Recovered(i) \in Intent
         /\ Recovered(i).status = IF i.failure = "mpp_partial" THEN "mpp_splitting"
                                  ELSE "recovering"
         /\ Recovered(i).retry = IF i.failure = "transient" THEN Capped(i.retry + 1, RetryCap)
                                 ELSE i.retry
<1>1. i.retry + 1 \in Nat /\ Capped(i.retry + 1, RetryCap) \in Retries
  <2>1. i.retry + 1 \in Nat
    BY Thresholds DEF Intent, Retries
  <2> QED
    BY <2>1, CappedTyped, Thresholds DEF Retries
<1>2. {"recovering", "mpp_splitting"} \subseteq Status
  BY DEF Status
<1>3. CASE i.failure = "transient"
  BY <1>1, <1>2, <1>3, Zenon DEF Recovered, Intent
<1>4. CASE i.failure = "mpp_partial"
  BY <1>2, <1>4, Zenon DEF Recovered, Intent
<1>5. CASE i.failure \notin {"transient", "mpp_partial"}
  BY <1>2, <1>5, Zenon DEF Recovered, Intent
<1> QED
  BY <1>3, <1>4, <1>5

(* process_recovery moves only as validate_transition allows.              *)
LEMMA RecoveryIsValid ==
  ASSUME NEW row \in AuditRow, recovers(row.intent)
  PROVE  /\ InHand(row, Recovered(row.intent)) \in Move
         /\ InHand(row, Recovered(row.intent)).valid
         /\ InHand(row, Recovered(row.intent)).written = FALSE
<1> DEFINE i == row.intent
           n == Recovered(i)
<1>1. i \in Intent /\ n \in Intent /\ row.payment \in Payments
  BY RecoveredTyped DEF AuditRow
<1>2. n.status = i.status \/ validate_transition(i.status, n.status)
  <2>1. i.status \in Status \ {"succeeded"}
    BY <1>1 DEF recovers, should_recover, Intent, Status
  <2>2. n.status \in {"recovering", "mpp_splitting"}
    BY <1>1, RecoveredTyped
  <2> QED
    BY <2>1, <2>2 DEF validate_transition, Status
<1>3. (i.status = "failed" /\ i.failure = "transient") \in BOOLEAN
  BY ZenonT(30)
<1> HIDE DEF i, n
<1>4. InHand(row, n).valid
  BY <1>2, Zenon DEF InHand, i
<1>5. InHand(row, n) \in Move
  BY <1>1, <1>2, SMTT(20) DEF InHand, Move, Intent, i
<1> QED
  BY <1>4, <1>5, Zenon DEF InHand, i, n

LEMMA OlderTyped ==
  ASSUME NEW i \in Intent
  PROVE  /\ Older(i) \in Intent /\ Older(i).retry = i.retry
         /\ Older(i).status = i.status /\ Older(i).failure = i.failure
<1>1. /\ i.age + 1 \in Nat /\ i.idle + 1 \in Nat
      /\ Capped(i.age + 1, AgeCap) \in Nat /\ Capped(i.idle + 1, AgeCap) \in Nat
  <2>1. i.age + 1 \in Nat /\ i.idle + 1 \in Nat
    BY DEF Intent
  <2> QED
    BY <2>1, CappedTyped, Thresholds, Zenon
<1> QED
  BY <1>1, Zenon DEF Older, Intent

-----------------------------------------------------------------------------
LEMMA MoveInit == LightningInit => MoveInv
<1> SUFFICES ASSUME LightningInit PROVE MoveInv
  OBVIOUS
<1>1. 0 \in Retries
  BY Thresholds DEF Retries
<1> QED
  BY <1>1, FreshTyped DEF LightningInit, MoveInv, Typed, MovesAreValid, EventsTellOfValidMoves

(* The UPDATE of a move in hand.                                           *)
LEMMA RowWritten ==
  ASSUME Typed, NEW a \in Auditors, cur[a] \in Move, WriteRow(a)
  PROVE  /\ intents' \in [Payments -> Intent] /\ taken' \in [Payments -> Retries]
         /\ intents'[cur[a].payment].retry = cur[a].retry
         /\ taken'[cur[a].payment] =
              IF cur[a].failure THEN Capped(taken[cur[a].payment] + 1, RetryCap)
              ELSE taken[cur[a].payment]
         /\ \A p \in Payments \ {cur[a].payment} :
              intents'[p] = intents[p] /\ taken'[p] = taken[p]
<1> DEFINE p == cur[a].payment
<1>1. /\ p \in Payments /\ cur[a].status \in Status /\ cur[a].retry \in Retries
      /\ cur[a].idle \in Nat
  BY DEF Move
<1>2. intents' = [intents EXCEPT ![p] =
        [@ EXCEPT !.status = cur[a].status, !.retry = cur[a].retry, !.idle = cur[a].idle]]
  BY Zenon DEF WriteRow, Written, Typed
<1>3. intents[p] \in Intent /\ taken[p] \in Retries
  BY <1>1 DEF Typed
<1>4. taken[p] + 1 \in Nat /\ Capped(taken[p] + 1, RetryCap) \in Retries
  <2>1. taken[p] + 1 \in Nat
    BY <1>3, Thresholds DEF Retries
  <2> QED
    BY <2>1, CappedTyped, Thresholds, Zenon DEF Retries
<1>5. [intents[p] EXCEPT !.status = cur[a].status, !.retry = cur[a].retry,
                         !.idle = cur[a].idle] \in Intent
  BY <1>1, <1>3, Zenon DEF Intent
<1>6. /\ intents' \in [Payments -> Intent]
      /\ intents'[p] = [intents[p] EXCEPT !.status = cur[a].status, !.retry = cur[a].retry,
                                          !.idle = cur[a].idle]
      /\ \A q \in Payments \ {p} : intents'[q] = intents[q]
  BY <1>1, <1>2, <1>5, Zenon DEF Typed
<1>7. intents'[p].retry = cur[a].retry
  BY <1>3, <1>6 DEF Intent
<1>8. taken' = [taken EXCEPT ![p] = IF cur[a].failure THEN Capped(@ + 1, RetryCap) ELSE @]
  BY DEF WriteRow
<1> HIDE DEF p
<1>9. /\ taken' \in [Payments -> Retries]
      /\ taken'[p] = IF cur[a].failure THEN Capped(taken[p] + 1, RetryCap) ELSE taken[p]
      /\ \A q \in Payments \ {p} : taken'[q] = taken[q]
  BY <1>1, <1>3, <1>4, <1>8 DEF Typed
<1> QED
  BY <1>6, <1>7, <1>9 DEF p

LEMMA MoveStep == MoveInv /\ [LightningNext]_lightning_vars => MoveInv'
<1> SUFFICES ASSUME MoveInv, [LightningNext]_lightning_vars PROVE MoveInv'
  OBVIOUS
<1>0. Typed /\ MovesAreValid /\ events \subseteq {TRUE}
  BY Zenon DEF MoveInv, EventsTellOfValidMoves
<1>1. ASSUME NEW a \in Auditors, SelectRows(a) PROVE MoveInv'
  <2>1. {[payment |-> p, intent |-> intents[p]] :
           p \in {q \in Payments : intents[q].status \in Status \ {"succeeded"}}} \subseteq AuditRow
    BY <1>0 DEF Typed, AuditRow
  <2>2. Typed'
    BY <1>0, <1>1, <2>1 DEF SelectRows, AuditGoto, Typed
  <2> QED
    BY <1>0, <1>1, <2>2, Zenon
       DEF SelectRows, AuditGoto, Typed, MovesAreValid, MoveInv, EventsTellOfValidMoves
<1>2. ASSUME NEW a \in Auditors, ProcessRow(a) PROVE MoveInv'
  <2>1. PICK row \in todo[a] :
          /\ todo' = [todo EXCEPT ![a] = @ \ {row}]
          /\ IF recovers(row.intent)
             THEN /\ cur' = [cur EXCEPT ![a] = InHand(row, Recovered(row.intent))]
                  /\ AuditGoto(a, "update")
             ELSE UNCHANGED <<cur, audit_pc>>
    BY <1>2, Zenon DEF ProcessRow
  <2>2. row \in AuditRow /\ UNCHANGED <<intents, events, taken>>
    BY <1>0, <1>2 DEF Typed, ProcessRow
  <2>3. CASE recovers(row.intent)
    <3> DEFINE new == InHand(row, Recovered(row.intent))
    <3>1. new \in Move /\ new.valid
      BY <2>2, <2>3, RecoveryIsValid, Zenon
    <3>2. cur' = [cur EXCEPT ![a] = new] /\ audit_pc' = [audit_pc EXCEPT ![a] = "update"]
      BY <2>1, <2>3 DEF AuditGoto
    <3> HIDE DEF new
    <3>3. Typed'
      BY <1>0, <2>1, <2>2, <3>1, <3>2 DEF Typed
    <3>4. MovesAreValid'
      BY <1>0, <3>1, <3>2 DEF Typed, MovesAreValid
    <3> QED
      BY <1>0, <2>2, <3>3, <3>4, Zenon DEF MoveInv, EventsTellOfValidMoves
  <2>4. CASE ~recovers(row.intent)
    <3>1. Typed'
      BY <1>0, <2>1, <2>2, <2>4 DEF Typed
    <3> QED
      BY <1>0, <2>1, <2>2, <2>4, <3>1, Zenon DEF MovesAreValid, MoveInv, EventsTellOfValidMoves
  <2> QED
    BY <2>3, <2>4, SMTT(20)
<1>3. ASSUME NEW a \in Auditors, UpdateRow(a) PROVE MoveInv'
  <2>1. /\ cur[a] \in Move /\ cur[a].valid /\ WriteRow(a)
        /\ cur' = [cur EXCEPT ![a] = [@ EXCEPT !.written = TRUE]]
        /\ audit_pc' = [audit_pc EXCEPT ![a] = "event"] /\ UNCHANGED <<events, todo>>
    BY <1>0, <1>3 DEF UpdateRow, AuditGoto, MovesAreValid
  <2>2. /\ [cur[a] EXCEPT !.written = TRUE] \in Move
        /\ [cur[a] EXCEPT !.written = TRUE].valid
        /\ [cur[a] EXCEPT !.written = TRUE].written
    BY <2>1, Zenon DEF Move
  <2>3. Typed'
    BY <1>0, <2>1, <2>2, RowWritten DEF Typed
  <2>4. MovesAreValid'
    BY <1>0, <2>1, <2>2 DEF Typed, MovesAreValid
  <2> QED
    BY <1>0, <2>1, <2>3, <2>4, Zenon DEF MoveInv, EventsTellOfValidMoves
<1>4. ASSUME NEW a \in Auditors, audit_pc[a] = "event" PROVE EventLogged(a) \subseteq {TRUE}
  <2>1. (cur[a].written /\ cur[a].valid) = TRUE
    BY <1>0, <1>4 DEF MovesAreValid
  <2> QED
    BY <1>0, <2>1, Zenon DEF EventLogged
<1>5. ASSUME NEW a \in Auditors, InsertEvent(a) PROVE MoveInv'
  <2>1. events' \subseteq {TRUE}
    BY <1>4, <1>5, Zenon DEF InsertEvent
  <2>2. Typed'
    BY <1>0, <1>5 DEF InsertEvent, AuditGoto, Typed
  <2>3. MovesAreValid'
    BY <1>0, <1>5 DEF InsertEvent, AuditGoto, Typed, MovesAreValid
  <2> QED
    BY <2>1, <2>2, <2>3, Zenon DEF MoveInv, EventsTellOfValidMoves
<1>6. ASSUME NEW a \in Auditors, DatabaseFails(a) PROVE MoveInv'
  <2>1. events' \subseteq {TRUE}
    BY <1>0, <1>4, <1>6, Zenon DEF DatabaseFails
  <2>2. intents' \in [Payments -> Intent] /\ taken' \in [Payments -> Retries]
    <3>1. \/ UNCHANGED <<intents, taken>>
          \/ audit_pc[a] = "update" /\ WriteRow(a)
      BY <1>6 DEF DatabaseFails
    <3>2. audit_pc[a] = "update" => cur[a] \in Move
      BY <1>0 DEF MovesAreValid
    <3> QED
      BY <1>0, <3>1, <3>2, RowWritten DEF Typed
  <2>3. /\ todo' = [todo EXCEPT ![a] = {}] /\ cur' = [cur EXCEPT ![a] = NoRow]
        /\ audit_pc' = [audit_pc EXCEPT ![a] = "idle"]
    BY <1>6 DEF DatabaseFails, AuditGoto
  <2>4. Typed' /\ MovesAreValid'
    BY <1>0, <2>2, <2>3, SMTT(20) DEF Typed, MovesAreValid
  <2> QED
    BY <2>1, <2>4, Zenon DEF MoveInv, EventsTellOfValidMoves
<1>7. ASSUME NEW a \in Auditors, EndAudit(a) PROVE MoveInv'
  BY <1>0, <1>7, Zenon DEF EndAudit, AuditGoto, Typed, MovesAreValid, MoveInv, EventsTellOfValidMoves
<1>8. ASSUME NEW p \in Payments, NEW s \in Status, NEW f \in Failure \union {NoFailure},
             NodeReports(p, s, f) \/ NodeDoubts(p)
      PROVE  MoveInv'
  <2>1. PICK i \in Intent : intents' = [intents EXCEPT ![p] = i]
    <3> DEFINE i == [intents[p] EXCEPT !.status = s, !.failure = f, !.idle = 0]
               d == [intents[p] EXCEPT !.failure = "indeterminate", !.idle = 0]
    <3>1. i \in Intent /\ d \in Intent
      BY <1>0, <1>8, Zenon DEF Typed, Intent, Failure
    <3>2. intents' = [intents EXCEPT ![p] = i] \/ intents' = [intents EXCEPT ![p] = d]
      BY <1>0, <1>8, Zenon DEF NodeReports, NodeDoubts, Typed
    <3> QED
      BY <3>1, <3>2
  <2>2. UNCHANGED <<events, audit_pc, todo, cur, taken>>
    BY <1>8 DEF NodeReports, NodeDoubts
  <2> QED
    BY <1>0, <2>1, <2>2, Zenon DEF Typed, MovesAreValid, MoveInv, EventsTellOfValidMoves
<1>9. ASSUME TimePasses PROVE MoveInv'
  <2>1. intents' \in [Payments -> Intent]
    BY <1>0, <1>9, OlderTyped DEF TimePasses, Typed
  <2>2. \A row \in AuditRow : [row EXCEPT !.intent = Older(@)] \in AuditRow
    BY OlderTyped DEF AuditRow
  <2>3. todo' \in [Auditors -> SUBSET AuditRow]
    BY <1>0, <1>9, <2>2 DEF TimePasses, Typed
  <2>4. ASSUME NEW a \in Auditors
        PROVE  /\ cur'[a] \in Move \union {NoRow}
               /\ cur[a] \in Move => /\ cur'[a] \in Move
                                     /\ cur'[a].valid = cur[a].valid
                                     /\ cur'[a].written = cur[a].written
    <3>1. cur'[a] = IF cur[a] = NoRow THEN NoRow
                    ELSE [cur[a] EXCEPT !.idle = Capped(@ + 1, AgeCap)]
      BY <1>9 DEF TimePasses
    <3>2. ASSUME cur[a] \in Move
          PROVE  Capped(cur[a].idle + 1, AgeCap) \in Nat
      <4>1. cur[a].idle + 1 \in Nat
        BY <3>2 DEF Move
      <4> QED
        BY <4>1, CappedTyped, Thresholds
    <3>3. cur[a] \in Move \union {NoRow}
      BY <1>0 DEF Typed
    <3>4. ASSUME cur[a] \in Move, cur[a] # NoRow
          PROVE  /\ cur'[a] \in Move
                 /\ cur'[a].valid = cur[a].valid
                 /\ cur'[a].written = cur[a].written
      BY <3>1, <3>2, <3>4 DEF Move
    <3> QED
      BY <3>1, <3>3, <3>4
  <2>5. cur' \in [Auditors -> Move \union {NoRow}]
    <3>1. cur' = [a \in Auditors |-> cur'[a]]
      BY <1>9 DEF TimePasses
    <3> QED
      BY <2>4, <3>1
  <2>6. UNCHANGED <<events, audit_pc, taken>>
    BY <1>9 DEF TimePasses
  <2>7. Typed'
    BY <1>0, <2>1, <2>3, <2>5, <2>6 DEF Typed
  <2>8. MovesAreValid'
    BY <1>0, <2>4, <2>6 DEF MovesAreValid
  <2> QED
    BY <1>0, <2>6, <2>7, <2>8, Zenon DEF MoveInv, EventsTellOfValidMoves
<1>10. ASSUME UNCHANGED lightning_vars PROVE MoveInv'
  BY <1>0, <1>10, Zenon DEF lightning_vars, Typed, MovesAreValid, MoveInv, EventsTellOfValidMoves
<1> QED
  <2>1. {"succeeded", "failed"} \subseteq Status
    BY DEF Status
  <2> QED
    BY <1>1, <1>2, <1>3, <1>5, <1>6, <1>7, <1>8, <1>9, <1>10, <2>1 DEF LightningNext, AuditStep

(* However many audits run, and whichever of their statements fail, the    *)
(* events tell of written and valid moves only.                            *)
THEOREM EventsAreTrue == LightningSpec => []EventsTellOfValidMoves
<1>1. MoveInv => EventsTellOfValidMoves
  BY DEF MoveInv
<1> QED
  BY MoveInit, MoveStep, <1>1, PTL DEF LightningSpec

-----------------------------------------------------------------------------
(* With one audit at a time the rows selected keep their retry counts, and *)
(* no payment is both in hand and still to do.                             *)
RowsAreCurrent(a) ==
  /\ \A row \in todo[a] : row.intent.retry = intents[row.payment].retry
  /\ \A r1, r2 \in todo[a] : r1.payment = r2.payment => r1 = r2

(* The move in hand does not lower the count; one that takes up a          *)
(* transient failure raises it by one, to the limit at most.               *)
MoveCounts(a) ==
  audit_pc[a] = "update" =>
    /\ \A row \in todo[a] : row.payment # cur[a].payment
    /\ cur[a].retry >= intents[cur[a].payment].retry
    /\ cur[a].failure => /\ cur[a].retry = intents[cur[a].payment].retry + 1
                         /\ cur[a].retry <= MaxRetries

TakenAreCounted ==
  \A p \in Payments : taken[p] <= intents[p].retry /\ taken[p] <= MaxRetries

Single == \A a, b \in Auditors : a = b

RetryInv ==
  /\ MoveInv
  /\ Single => /\ \A a \in Auditors : RowsAreCurrent(a) /\ MoveCounts(a)
               /\ TakenAreCounted

LEMMA RetryInit == LightningInit => RetryInv
<1> SUFFICES ASSUME LightningInit PROVE RetryInv
  OBVIOUS
<1>1. MoveInv
  BY MoveInit
<1>2. \A p \in Payments : taken[p] = 0 /\ intents[p].retry = 0
  BY DEF LightningInit, Fresh
<1> QED
  BY <1>1, <1>2, Thresholds, SMTT(20) DEF LightningInit, RetryInv, RowsAreCurrent, MoveCounts, TakenAreCounted

LEMMA RetryStep == RetryInv /\ [LightningNext]_lightning_vars => RetryInv'
<1> SUFFICES ASSUME RetryInv, [LightningNext]_lightning_vars, Single
             PROVE  (\A a \in Auditors : RowsAreCurrent(a)' /\ MoveCounts(a)')
                      /\ TakenAreCounted'
  BY MoveStep DEF RetryInv, Single
<1>one. \A a, b \in Auditors : a = b
  BY Zenon DEF Single
<1>0. /\ Typed /\ Typed' /\ MovesAreValid
      /\ \A a \in Auditors : RowsAreCurrent(a) /\ MoveCounts(a)
      /\ TakenAreCounted
  BY MoveStep, SMTT(20) DEF RetryInv, MoveInv
<1> DEFINE Goal == (\A a \in Auditors : RowsAreCurrent(a)' /\ MoveCounts(a)')
                     /\ TakenAreCounted'
<1>1. ASSUME NEW a \in Auditors, SelectRows(a) PROVE Goal
  <2>1. /\ todo' = [todo EXCEPT ![a] =
                {[payment |-> p, intent |-> intents[p]] :
                   p \in {q \in Payments :
                          intents[q].status \in Status \ {"succeeded"}}}]
        /\ audit_pc'[a] = "next" /\ UNCHANGED <<intents, cur, taken>>
    BY <1>0, <1>1 DEF SelectRows, AuditGoto, Typed
  <2>2. \A row \in todo'[a] : row.intent = intents[row.payment] /\
                               row = [payment |-> row.payment, intent |-> intents[row.payment]]
    BY <1>0, <2>1 DEF Typed
  <2>3. RowsAreCurrent(a)'
    BY <2>1, <2>2, SMTT(20) DEF RowsAreCurrent
  <2>4. MoveCounts(a)'
    BY <2>1 DEF MoveCounts
  <2>5. TakenAreCounted'
    BY <1>0, <2>1 DEF TakenAreCounted
  <2> QED
    BY <2>3, <2>4, <2>5, <1>one, Zenon
<1>2. ASSUME NEW a \in Auditors, ProcessRow(a) PROVE Goal
  <2>1. PICK row \in todo[a] :
          /\ todo' = [todo EXCEPT ![a] = @ \ {row}]
          /\ IF recovers(row.intent)
             THEN /\ cur' = [cur EXCEPT ![a] = InHand(row, Recovered(row.intent))]
                  /\ AuditGoto(a, "update")
             ELSE UNCHANGED <<cur, audit_pc>>
    BY <1>2, Zenon DEF ProcessRow
  <2>2. row \in AuditRow /\ UNCHANGED <<intents, taken>> /\ audit_pc[a] = "next"
    BY <1>0, <1>2 DEF Typed, ProcessRow
  <2>3. todo'[a] = todo[a] \ {row}
    BY <1>0, <2>1 DEF Typed
  <2>4. RowsAreCurrent(a)'
    BY <1>0, <2>2, <2>3 DEF RowsAreCurrent
  <2>5. CASE recovers(row.intent)
    <3> DEFINE i == row.intent
               new == InHand(row, Recovered(i))
    <3>1. i \in Intent /\ i.retry \in Retries /\ intents[row.payment].retry = i.retry
      <4>1. i \in Intent
        BY <2>2 DEF AuditRow
      <4>2. row.intent.retry = intents[row.payment].retry
        BY <1>0, Zenon DEF RowsAreCurrent
      <4> QED
        BY <4>1, <4>2, SMTT(20) DEF Intent
    <3>2. new.payment = row.payment /\ new.retry = Recovered(i).retry
      BY SMTT(20) DEF InHand
    <3>3. new.failure => i.failure = "transient" /\ i.retry < MaxRetries
      <4>1. new.failure = (i.status = "failed" /\ i.failure = "transient")
        BY SMTT(20) DEF InHand
      <4> QED
        BY <2>5, <4>1, ZenonT(30) DEF recovers, should_recover
    <3>4. /\ i.retry \in Nat /\ i.retry <= RetryCap /\ MaxRetries \in Nat
          /\ MaxRetries < RetryCap /\ RetryCap \in Nat
      BY <3>1, Thresholds DEF Retries
    <3>5. /\ new.retry >= i.retry
          /\ new.failure => new.retry = i.retry + 1 /\ new.retry <= MaxRetries
      BY <3>1, <3>2, <3>3, <3>4, RecoveredTyped DEF Capped
    <3>6. cur'[a] = new /\ \A r \in todo'[a] : r.payment # row.payment
      BY <1>0, <2>1, <2>3, <2>5, Zenon DEF Typed, RowsAreCurrent
    <3> HIDE DEF new
    <3>7. MoveCounts(a)'
      BY <2>2, <3>1, <3>2, <3>5, <3>6, SMTT(20) DEF MoveCounts
    <3>8. TakenAreCounted'
      BY <1>0, <2>2 DEF TakenAreCounted
    <3> QED
      BY <2>4, <3>7, <3>8, <1>one, Zenon
  <2>6. CASE ~recovers(row.intent)
    <3>1. audit_pc' = audit_pc
      BY <2>1, <2>6, Zenon
    <3>2. MoveCounts(a)'
      BY <2>2, <3>1, Zenon DEF MoveCounts
    <3>3. TakenAreCounted'
      BY <1>0, <2>2 DEF TakenAreCounted
    <3> QED
      BY <2>4, <3>2, <3>3, <1>one, Zenon
  <2> QED
    BY <2>5, <2>6, SMTT(20)
(* The UPDATE, whether or not its answer arrives.                          *)
<1>3. ASSUME NEW a \in Auditors, audit_pc[a] = "update", WriteRow(a) PROVE TakenAreCounted'
  <2> DEFINE p == cur[a].payment
  <2>1. cur[a] \in Move /\ p \in Payments
    BY <1>0, <1>3, SMTT(20) DEF MovesAreValid, Move
  <2>2. /\ intents'[p].retry = cur[a].retry
        /\ taken'[p] = IF cur[a].failure THEN Capped(taken[p] + 1, RetryCap) ELSE taken[p]
        /\ \A q \in Payments \ {p} : intents'[q] = intents[q] /\ taken'[q] = taken[q]
    BY <1>0, <1>3, <2>1, RowWritten, Zenon
  <2>3. /\ taken[p] \in Nat /\ cur[a].retry \in Nat /\ intents[p].retry \in Nat
        /\ MaxRetries \in Nat /\ RetryCap \in Nat /\ MaxRetries < RetryCap
    BY <1>0, <2>1, Thresholds, SMTT(20) DEF Typed, Move, Intent, Retries
  <2>4. /\ cur[a].retry >= intents[p].retry
        /\ cur[a].failure => /\ cur[a].retry = intents[p].retry + 1
                             /\ cur[a].retry <= MaxRetries
        /\ taken[p] <= intents[p].retry /\ taken[p] <= MaxRetries
    <3>1. MoveCounts(a) /\ TakenAreCounted
      BY <1>0, Zenon
    <3>2. taken[p] <= intents[p].retry /\ taken[p] <= MaxRetries
      BY <2>1, <3>1, Zenon DEF TakenAreCounted
    <3> QED
      BY <1>3, <3>1, <3>2, Zenon DEF MoveCounts
  <2> HIDE DEF p
  <2>5. taken'[p] <= intents'[p].retry /\ taken'[p] <= MaxRetries
    BY <2>2, <2>3, <2>4 DEF Capped
  <2> QED
    BY <1>0, <2>2, <2>5, SMTT(20) DEF TakenAreCounted
<1>4. ASSUME NEW a \in Auditors, UpdateRow(a) PROVE Goal
  <2>1. /\ audit_pc[a] = "update" /\ WriteRow(a) /\ audit_pc'[a] = "event" /\ UNCHANGED todo
        /\ cur[a] \in Move
    BY <1>0, <1>4, SMTT(20) DEF UpdateRow, AuditGoto, Typed, MovesAreValid
  <2>2. \A row \in todo[a] : row.payment \in Payments \ {cur[a].payment}
    BY <1>0, <2>1, SMTT(20) DEF Typed, AuditRow, MoveCounts
  <2>3. RowsAreCurrent(a)'
    <3>1. todo'[a] = todo[a] /\ RowsAreCurrent(a)
      BY <1>0, <2>1, Zenon
    <3>2. \A row \in todo[a] : intents'[row.payment] = intents[row.payment]
      BY <1>0, <2>1, <2>2, RowWritten, Zenon
    <3> QED
      BY <3>1, <3>2, Zenon DEF RowsAreCurrent
  <2>4. MoveCounts(a)'
    BY <2>1, SMTT(20) DEF MoveCounts
  <2> QED
    BY <1>3, <2>1, <2>3, <2>4, <1>one
<1>5. ASSUME NEW a \in Auditors, InsertEvent(a) \/ EndAudit(a) PROVE Goal
  <2>1. UNCHANGED <<intents, todo, taken>> /\ audit_pc'[a] \in {"next", "idle"}
    BY <1>0, <1>5, SMTT(20) DEF InsertEvent, EndAudit, AuditGoto, Typed
  <2>2. RowsAreCurrent(a)' /\ MoveCounts(a)'
    BY <1>0, <2>1 DEF RowsAreCurrent, MoveCounts
  <2> QED
    BY <1>0, <2>1, <2>2, <1>one, Zenon DEF TakenAreCounted
<1>6. ASSUME NEW a \in Auditors, DatabaseFails(a) PROVE Goal
  <2>1. /\ todo'[a] = {} /\ audit_pc'[a] = "idle"
        /\ \/ UNCHANGED <<intents, taken>>
           \/ audit_pc[a] = "update" /\ WriteRow(a)
    BY <1>0, <1>6 DEF DatabaseFails, AuditGoto, Typed
  <2>2. RowsAreCurrent(a)' /\ MoveCounts(a)'
    BY <2>1 DEF RowsAreCurrent, MoveCounts
  <2>3. TakenAreCounted'
    BY <1>0, <1>3, <2>1 DEF TakenAreCounted
  <2> QED
    BY <2>2, <2>3, <1>one
<1>7. ASSUME NEW p \in Payments, NEW s, NEW f, NodeReports(p, s, f) \/ NodeDoubts(p)
      PROVE  Goal
  <2>1. \A q \in Payments : intents'[q].retry = intents[q].retry
    BY <1>0, <1>7, SMTT(20) DEF NodeReports, NodeDoubts, Typed, Intent
  <2>2. UNCHANGED <<audit_pc, todo, cur, taken>>
    BY <1>7 DEF NodeReports, NodeDoubts
  <2>3. ASSUME NEW a \in Auditors PROVE RowsAreCurrent(a)'
    BY <1>0, <2>1, <2>2, SMTT(20) DEF RowsAreCurrent, Typed, AuditRow
  <2>4. ASSUME NEW a \in Auditors PROVE MoveCounts(a)'
    <3>1. audit_pc[a] = "update" => cur[a].payment \in Payments
      BY <1>0, SMTT(20) DEF MovesAreValid, Move
    <3> QED
      BY <1>0, <2>1, <2>2, <3>1, SMTT(20) DEF MoveCounts
  <2> QED
    BY <1>0, <2>1, <2>2, <2>3, <2>4 DEF TakenAreCounted
<1>8. ASSUME TimePasses PROVE Goal
  <2>1. \A q \in Payments : intents'[q].retry = intents[q].retry
    BY <1>0, <1>8, OlderTyped DEF TimePasses, Typed
  <2>2. UNCHANGED <<audit_pc, taken>>
    BY <1>8 DEF TimePasses
  <2>3. ASSUME NEW a \in Auditors
        PROVE  \A row \in todo'[a] : \E old \in todo[a] :
                 /\ old \in AuditRow /\ row.payment = old.payment
                 /\ row.intent.retry = old.intent.retry
                 /\ row = [old EXCEPT !.intent = Older(@)]
    <3> SUFFICES ASSUME NEW row \in todo'[a]
                 PROVE  \E old \in todo[a] :
                          /\ old \in AuditRow /\ row.payment = old.payment
                          /\ row.intent.retry = old.intent.retry
                          /\ row = [old EXCEPT !.intent = Older(@)]
      OBVIOUS
    <3>1. PICK old \in todo[a] : row = [old EXCEPT !.intent = Older(@)]
      BY <1>8 DEF TimePasses
    <3>2. old \in AuditRow
      BY <1>0 DEF Typed
    <3>3. row.payment = old.payment /\ row.intent = Older(old.intent)
      BY <3>1, <3>2 DEF AuditRow
    <3>4. row.intent.retry = old.intent.retry
      BY <3>2, <3>3, OlderTyped DEF AuditRow
    <3> QED
      BY <3>1, <3>2, <3>3, <3>4, Zenon
  <2>4. ASSUME NEW a \in Auditors PROVE RowsAreCurrent(a)'
    <3>1. \A row \in todo'[a] : row.intent.retry = intents'[row.payment].retry
      BY <1>0, <2>1, <2>3 DEF RowsAreCurrent, AuditRow
    <3>2. \A r1, r2 \in todo'[a] : r1.payment = r2.payment => r1 = r2
      BY <1>0, <2>3 DEF RowsAreCurrent
    <3> QED
      BY <3>1, <3>2 DEF RowsAreCurrent
  <2>5. ASSUME NEW a \in Auditors PROVE MoveCounts(a)'
    <3> SUFFICES ASSUME audit_pc[a] = "update"
                 PROVE  /\ \A row \in todo'[a] : row.payment # cur'[a].payment
                        /\ cur'[a].retry >= intents'[cur'[a].payment].retry
                        /\ cur'[a].failure =>
                              /\ cur'[a].retry = intents'[cur'[a].payment].retry + 1
                              /\ cur'[a].retry <= MaxRetries
      BY <2>2 DEF MoveCounts
    <3>1. cur[a] \in Move
      BY <1>0 DEF MovesAreValid
    <3>2. cur'[a] = IF cur[a] = NoRow THEN NoRow
                    ELSE [cur[a] EXCEPT !.idle = Capped(@ + 1, AgeCap)]
      BY <1>8 DEF TimePasses
    <3>3. /\ cur'[a].payment = cur[a].payment /\ cur'[a].retry = cur[a].retry
          /\ cur'[a].failure = cur[a].failure /\ cur[a].payment \in Payments
      <4>1. CASE cur[a] = NoRow
        BY <3>1, <3>2, <4>1 DEF Move
      <4>2. CASE cur[a] # NoRow
        BY <3>1, <3>2, <4>2, SMTT(20) DEF Move
      <4> QED
        BY <4>1, <4>2
    <3> QED
      BY <1>0, <2>1, <2>3, <3>3, SMTT(20) DEF MoveCounts
  <2> QED
    BY <1>0, <2>1, <2>2, <2>4, <2>5 DEF TakenAreCounted
<1>9. ASSUME UNCHANGED lightning_vars PROVE Goal
  BY <1>0, <1>9 DEF lightning_vars, RowsAreCurrent, MoveCounts, TakenAreCounted
<1> QED
  BY <1>1, <1>2, <1>4, <1>5, <1>6, <1>7, <1>8, <1>9 DEF LightningNext, AuditStep

(* With one audit at a time, a transient failure is taken up no more than  *)
(* MaxRetries times for each payment, whatever the node reports and        *)
(* whichever statements of the audits fail.                                *)
THEOREM RetriesAreBounded == LightningSpec => []TransientRetriesAreBounded
<1>1. RetryInv => TransientRetriesAreBounded
  BY DEF RetryInv, TransientRetriesAreBounded, TakenAreCounted, Single
<1> QED
  BY RetryInit, RetryStep, <1>1, PTL DEF LightningSpec
=============================================================================
