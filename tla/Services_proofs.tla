-------------------------- MODULE Services_proofs --------------------------
(***************************************************************************)
(* The safety properties of four small components, for every value of      *)
(* their constants: NexusSafety, ErpSync, GrpcMetrics and Billing.  They   *)
(* share no names, and their proofs nothing but this module.               *)
(***************************************************************************)
EXTENDS NexusSafety, ErpSync, GrpcMetrics, Billing, TLAPS

-----------------------------------------------------------------------------
(* NexusSafety.                                                            *)
(* The heartbeat triggers only with a drift above the limit.               *)
TriggerIsJustified == hb = "trigger" => delta > MaxDrift

(* A drift the orchestrator has read was read in safety mode.              *)
ReadDriftWasInForce == orch = "mode" /\ audit_drift > 0 => mode_then

(* Heights are read in the order of time: the beat's reading is no older   *)
(* than the last alarm, and no newer than the chain.                       *)
ReadingIsNewer ==
  /\ alarm <= burn
  /\ hb \in {"height", "trigger", "clear", "delete"} => alarm <= seen /\ seen <= burn

IInv ==
  /\ TypeOK
  /\ ReadingIsNewer
  /\ AlarmsAreWorkedOff
  /\ TriggerIsJustified
  /\ DriftMeansSafetyMode
  /\ ReadDriftWasInForce
  /\ CriticalReportWasInForce
  /\ ClearingMeansCaughtUp

LEMMA InitIInv == Init => IInv
<1> SUFFICES ASSUME Init PROVE IInv
  BY Zenon
<1>1. /\ safety_mode \in BOOLEAN /\ ~safety_mode /\ drift = 0
      /\ gateway_bad \in BOOLEAN /\ mode_then \in BOOLEAN
  BY Zenon DEF Init
<1>2. /\ burn = 0 /\ processed = 0 /\ hb = "idle" /\ seen = 0 /\ delta = 0
      /\ orch = "idle" /\ audit_drift = 0 /\ alarm = 0
  BY Zenon DEF Init
<1> QED
  BY <1>1, <1>2, DriftAssumption
     DEF IInv, TypeOK, TriggerIsJustified, DriftMeansSafetyMode,
         ReadDriftWasInForce, CriticalReportWasInForce, ClearingMeansCaughtUp,
         ReadingIsNewer, AlarmsAreWorkedOff

(* What the type invariant and DriftMeansSafetyMode say of the Redis pair, *)
(* and that each of the atomic pipelines establishes it.                   *)
PairOK == safety_mode \in BOOLEAN /\ drift \in Nat /\ DriftMeansSafetyMode

LEMMA PairSet ==
  ASSUME NEW value \in Nat, value > MaxDrift, SetFlag(value)
  PROVE  PairOK'
<1>1. safety_mode' \in BOOLEAN /\ safety_mode' /\ drift' = value
  BY Zenon DEF SetFlag
<1> QED
  BY <1>1, DriftAssumption, Zenon DEF PairOK, DriftMeansSafetyMode

LEMMA PairDeleted == DeleteFlag => PairOK'
<1> SUFFICES ASSUME DeleteFlag PROVE PairOK'
  BY Zenon
<1>1. safety_mode' \in BOOLEAN /\ ~safety_mode' /\ drift' = 0
  BY Zenon DEF DeleteFlag
<1> QED
  BY <1>1, DriftAssumption, Zenon DEF PairOK, DriftMeansSafetyMode

LEMMA PairKept == PairOK /\ UNCHANGED redis => PairOK'
BY DEF PairOK, DriftMeansSafetyMode, redis

(* A beat moves the last alarm only to the height it has read, and deletes *)
(* the flag only when that height, and so the last alarm's, is worked off. *)
AlarmOK == alarm \in 0..MaxHeight /\ ReadingIsNewer /\ AlarmsAreWorkedOff

LEMMA NotBelow ==
  ASSUME NEW a \in Int, NEW b \in Int, NEW c \in Int, a <= b, c >= b
  PROVE  c >= a
OBVIOUS

LEMMA AlarmStep == IInv /\ Heartbeat => AlarmOK'
<1> SUFFICES ASSUME IInv, Heartbeat PROVE AlarmOK'
  BY Zenon
<1>a. burn' = burn /\ processed' = processed
  BY Zenon DEF Heartbeat, CheckStep, IngestStep, Tick, get_external_burn_height,
         get_processed_height, trigger_safety_mode, ClearGet, ClearDel,
         ingest_gateway_telemetry, TelemetryAlert, CheckFails, IngestFails, world
<1>t. /\ burn \in Int /\ processed \in Int /\ seen \in Int /\ alarm \in Int
      /\ MaxDrift \in Int
  BY DriftAssumption DEF IInv, TypeOK
<1> DEFINE Reading == {"height", "trigger", "clear", "delete"}
<1>b. hb \in Reading => alarm <= seen /\ seen <= burn
  BY Zenon DEF IInv, ReadingIsNewer
<1>c. alarm <= burn /\ alarm \in 0..MaxHeight
  BY Zenon DEF IInv, ReadingIsNewer, TypeOK
<1>d. ASSUME alarm' = alarm, hb' \notin Reading
      PROVE  (alarm \in 0..MaxHeight /\ ReadingIsNewer)'
  BY <1>a, <1>c, <1>d, Zenon DEF ReadingIsNewer
<1>e. ASSUME alarm' = alarm, seen' = seen, hb \in Reading
      PROVE  (alarm \in 0..MaxHeight /\ ReadingIsNewer)'
  BY <1>a, <1>b, <1>c, <1>e, Zenon DEF ReadingIsNewer
<1>f. ASSUME alarm' = alarm, safety_mode' = safety_mode PROVE AlarmsAreWorkedOff'
  BY <1>a, <1>f, Zenon DEF IInv, AlarmsAreWorkedOff
<1>g. ASSUME safety_mode' = TRUE PROVE AlarmsAreWorkedOff'
  BY <1>g, Zenon DEF AlarmsAreWorkedOff
<1>h. EndCheck => hb' \notin Reading
  BY Zenon DEF EndCheck
<1>i. ASSUME hb = "trigger", RaiseAlarm, EndCheck PROVE AlarmOK'
  <2>1. alarm' = seen /\ safety_mode' = TRUE
    BY <1>i, Zenon DEF RaiseAlarm, SetFlag
  <2>2. (alarm \in 0..MaxHeight /\ ReadingIsNewer)'
    BY <1>a, <1>b, <1>h, <1>i, <2>1, Zenon DEF ReadingIsNewer, IInv, TypeOK
  <2> QED
    BY <1>g, <2>1, <2>2, Zenon DEF AlarmOK
<1>j. ASSUME hb = "delete", DeleteFlag, EndCheck, alarm' = alarm PROVE AlarmOK'
  <2>1. processed + MaxDrift >= seen /\ alarm <= seen
    BY <1>b, <1>j, Zenon DEF IInv, ClearingMeansCaughtUp
  <2>2. processed + MaxDrift >= alarm
    BY <1>t, <2>1, NotBelow
  <2>3. AlarmsAreWorkedOff'
    BY <1>a, <1>j, <2>2, Zenon DEF AlarmsAreWorkedOff
  <2> QED
    BY <1>d, <1>h, <1>j, <2>3, Zenon DEF AlarmOK
<1>1. CASE Tick
  BY <1>1, <1>d, <1>f, Zenon DEF Tick, redis, AlarmOK
<1>2. CASE get_external_burn_height
  <2>1. (alarm \in 0..MaxHeight /\ ReadingIsNewer)'
    BY <1>2, <1>a, <1>c, <1>t DEF get_external_burn_height, ReadingIsNewer
  <2> QED
    BY <1>2, <1>f, <2>1, Zenon DEF get_external_burn_height, redis, AlarmOK
<1>3. CASE get_processed_height
  BY <1>3, <1>e, <1>f, Zenon DEF get_processed_height, redis, AlarmOK
<1>4. CASE trigger_safety_mode
  BY <1>4, <1>i, Zenon DEF trigger_safety_mode
<1>5. CASE ClearGet
  BY <1>5, <1>d, <1>e, <1>f, <1>h, Zenon DEF ClearGet, redis, AlarmOK
<1>6. CASE ClearDel
  BY <1>6, <1>j, Zenon DEF ClearDel
<1>7. CASE ingest_gateway_telemetry
  BY <1>7, <1>d, <1>f, Zenon DEF ingest_gateway_telemetry, redis, AlarmOK
<1>8. CASE TelemetryAlert
  BY <1>8, <1>d, <1>g, Zenon DEF TelemetryAlert, SetFlag, AlarmOK
<1>9. CASE CheckFails
  <2>1. ASSUME UNCHANGED <<redis, alarm>> PROVE AlarmOK'
    BY <1>9, <1>d, <1>f, <1>h, <2>1, Zenon DEF CheckFails, redis, AlarmOK
  <2> QED
    BY <1>9, <1>i, <1>j, <2>1, Zenon DEF CheckFails
<1>10. CASE IngestFails
  BY <1>10, <1>d, <1>f, <1>g, Zenon DEF IngestFails, SetFlag, redis, AlarmOK
<1> QED
  BY <1>1, <1>2, <1>3, <1>4, <1>5, <1>6, <1>7, <1>8, <1>9, <1>10, Zenon
     DEF Heartbeat, CheckStep, IngestStep

(* A beat changes neither the world nor the audit.                         *)
LEMMA HeartbeatStep == IInv /\ Heartbeat => IInv'
<1> SUFFICES ASSUME IInv, Heartbeat PROVE IInv'
  BY Zenon
<1>0. PairOK
  BY Zenon DEF IInv, TypeOK, PairOK
<1>a. UNCHANGED <<world, audit>>
  BY Zenon DEF Heartbeat, CheckStep, IngestStep, Tick, get_external_burn_height,
         get_processed_height, trigger_safety_mode, ClearGet, ClearDel,
         ingest_gateway_telemetry, TelemetryAlert, CheckFails, IngestFails
<1> DEFINE BeatOK ==
      /\ hb \in {"idle", "burn", "height", "trigger", "clear", "delete",
                 "gateway", "alert"}
      /\ seen \in 0..MaxHeight /\ delta \in 0..MaxHeight
      /\ TriggerIsJustified /\ ClearingMeansCaughtUp
<1>b. SUFFICES PairOK' /\ BeatOK'
  BY <1>a, AlarmStep, Zenon
     DEF AlarmOK, IInv, TypeOK, PairOK, world, audit, ReadDriftWasInForce,
              CriticalReportWasInForce
<1>c. EndCheck => BeatOK'
  BY <1>a, DriftAssumption DEF EndCheck, TriggerIsJustified, ClearingMeansCaughtUp
<1>d. hb' \in {"idle", "burn", "alert"} /\ UNCHANGED <<seen, delta>> => BeatOK'
  BY Zenon DEF IInv, TypeOK, TriggerIsJustified, ClearingMeansCaughtUp
<1>e. hb = "trigger" => delta \in Nat /\ delta > MaxDrift
  BY DriftAssumption DEF IInv, TypeOK, TriggerIsJustified
<1>1. CASE Tick
  BY <1>0, <1>1, <1>d, PairKept, Zenon DEF Tick
<1>2. CASE get_external_burn_height
  <2>1. BeatOK'
    BY <1>2, Zenon DEF get_external_burn_height, IInv, TypeOK, TriggerIsJustified,
                ClearingMeansCaughtUp
  <2> QED
    BY <1>0, <1>2, <2>1, PairKept, Zenon DEF get_external_burn_height
<1>3. CASE get_processed_height
  <2>1. BeatOK'
    BY <1>3, <1>a, DriftAssumption
       DEF get_processed_height, calculate_drift, world, IInv, TypeOK,
           TriggerIsJustified, ClearingMeansCaughtUp
  <2> QED
    BY <1>0, <1>3, <2>1, PairKept, Zenon DEF get_processed_height
<1>4. CASE trigger_safety_mode
  BY <1>4, <1>c, <1>e, PairSet, Zenon DEF trigger_safety_mode, RaiseAlarm
<1>5. CASE ClearGet
  <2>1. BeatOK'
    BY <1>5, <1>a, <1>c, Zenon DEF ClearGet, world, IInv, TypeOK, TriggerIsJustified,
                            ClearingMeansCaughtUp
  <2> QED
    BY <1>0, <1>5, <2>1, PairKept, Zenon DEF ClearGet
<1>6. CASE ClearDel
  BY <1>6, <1>c, PairDeleted, Zenon DEF ClearDel
<1>7. CASE ingest_gateway_telemetry
  BY <1>0, <1>7, <1>d, PairKept, Zenon DEF ingest_gateway_telemetry
<1>8. CASE TelemetryAlert
  BY <1>8, <1>d, PairSet, DriftAssumption, Zenon DEF TelemetryAlert
<1>9. CASE CheckFails
  BY <1>0, <1>9, <1>c, <1>e, PairKept, PairSet, PairDeleted, Zenon
     DEF CheckFails, RaiseAlarm
<1>10. CASE IngestFails
  BY <1>0, <1>10, <1>d, PairKept, PairSet, DriftAssumption, Zenon DEF IngestFails
<1> QED
  BY <1>1, <1>2, <1>3, <1>4, <1>5, <1>6, <1>7, <1>8, <1>9, <1>10, Zenon
     DEF Heartbeat, CheckStep, IngestStep

(* The audit changes only what it remembers itself.                        *)
LEMMA AuditStep == IInv /\ Audit => IInv'
<1> SUFFICES ASSUME IInv, Audit PROVE IInv'
  OBVIOUS
<1>a. UNCHANGED <<world, redis, beat, alarm>>
  BY Zenon DEF Audit, AuditDrift, AuditMode, AuditReport
<1> DEFINE AuditOK ==
      /\ orch \in {"idle", "mode", "report"}
      /\ audit_drift \in Nat /\ mode_then \in BOOLEAN
      /\ ReadDriftWasInForce /\ CriticalReportWasInForce
<1>b. SUFFICES AuditOK'
  BY <1>a, Zenon DEF IInv, TypeOK, world, redis, beat, TriggerIsJustified,
              DriftMeansSafetyMode, ClearingMeansCaughtUp, ReadingIsNewer,
              AlarmsAreWorkedOff
<1>c. EndAudit => AuditOK'
  <2> SUFFICES ASSUME EndAudit PROVE AuditOK'
    BY Zenon
  <2>1. orch' = "idle" /\ audit_drift' = 0 /\ mode_then' \in BOOLEAN
    BY Zenon DEF EndAudit
  <2> QED
    BY <2>1, Zenon DEF ReadDriftWasInForce, CriticalReportWasInForce
<1>1. CASE AuditDrift
  BY <1>1, DriftAssumption
     DEF AuditDrift, IInv, TypeOK, DriftMeansSafetyMode, ReadDriftWasInForce,
         CriticalReportWasInForce
<1>2. CASE AuditMode
  <2>1. ASSUME audit_drift > CriticalDrift, orch = "mode", orch' = "report",
               UNCHANGED <<audit_drift, mode_then>>
        PROVE  AuditOK'
    BY <2>1, DriftAssumption
       DEF IInv, TypeOK, ReadDriftWasInForce, CriticalReportWasInForce
  <2> HIDE DEF AuditOK
  <2> QED
    BY <1>2, <1>c, <2>1, Zenon DEF AuditMode
<1>3. CASE AuditReport
  BY <1>3, <1>c, Zenon DEF AuditReport
<1> QED
  BY <1>1, <1>2, <1>3, Zenon DEF Audit

(* Who has processed more is still caught up.                              *)
LEMMA StillCaughtUp ==
  ASSUME NEW before \in Int, NEW after \in Int, NEW allowed \in Int,
         NEW tip \in Int, after >= before, before + allowed >= tip
  PROVE  after + allowed >= tip
OBVIOUS

(* The world moves the heights up and changes nothing else of interest.    *)
LEMMA WorldStep == IInv /\ World => IInv'
<1> SUFFICES ASSUME IInv, World PROVE IInv'
  OBVIOUS
<1>a. UNCHANGED <<redis, beat, audit, alarm>>
  BY Zenon DEF World, BurnBlock, BlockProcessed, GatewayChanges
<1>1. burn' \in 0..MaxHeight /\ processed' \in 0..MaxHeight
  BY DriftAssumption DEF World, BurnBlock, BlockProcessed, GatewayChanges, IInv, TypeOK
<1>2. gateway_bad' \in BOOLEAN
  BY Zenon DEF World, BurnBlock, BlockProcessed, GatewayChanges, IInv, TypeOK
<1>3. processed' >= processed /\ burn' >= burn
  BY DriftAssumption DEF World, BurnBlock, BlockProcessed, GatewayChanges, IInv, TypeOK
<1>4. ClearingMeansCaughtUp'
  <2>1. hb' = hb /\ seen' = seen
    BY <1>a, Zenon DEF beat
  <2>2. /\ processed \in Int /\ processed' \in Int /\ seen \in Int
        /\ MaxDrift \in Int
    BY <1>1, DriftAssumption DEF IInv, TypeOK
  <2>3. processed + MaxDrift >= seen => processed' + MaxDrift >= seen
    BY <1>3, <2>2, StillCaughtUp, Zenon
  <2> QED
    BY <2>1, <2>3, Zenon DEF IInv, ClearingMeansCaughtUp
<1>5. AlarmsAreWorkedOff'
  <2>1. safety_mode' = safety_mode /\ alarm' = alarm
    BY <1>a, Zenon DEF redis
  <2>2. /\ processed \in Int /\ processed' \in Int /\ alarm \in Int
        /\ MaxDrift \in Int
    BY <1>1, DriftAssumption DEF IInv, TypeOK
  <2>3. processed + MaxDrift >= alarm => processed' + MaxDrift >= alarm
    BY <1>3, <2>2, StillCaughtUp, Zenon
  <2> QED
    BY <2>1, <2>3, Zenon DEF IInv, AlarmsAreWorkedOff
<1>6. ReadingIsNewer'
  <2>1. hb' = hb /\ seen' = seen /\ alarm' = alarm
    BY <1>a, Zenon DEF beat
  <2>2. /\ burn \in Int /\ burn' \in Int /\ seen \in Int /\ alarm \in Int
    BY <1>1 DEF IInv, TypeOK
  <2> QED
    BY <1>3, <2>1, <2>2 DEF IInv, ReadingIsNewer
<1> QED
  BY <1>a, <1>1, <1>2, <1>4, <1>5, <1>6
     DEF redis, beat, audit, IInv, TypeOK, TriggerIsJustified,
         DriftMeansSafetyMode, ReadDriftWasInForce, CriticalReportWasInForce

LEMMA StutterStep == IInv /\ UNCHANGED vars => IInv'
BY DEF IInv, TypeOK, TriggerIsJustified, DriftMeansSafetyMode,
       ReadDriftWasInForce, CriticalReportWasInForce, ClearingMeansCaughtUp,
       ReadingIsNewer, AlarmsAreWorkedOff, vars, world, redis, beat, audit

LEMMA Inductive == Spec => []IInv
<1>1. IInv /\ [Next]_vars => IInv'
  BY HeartbeatStep, AuditStep, WorldStep, StutterStep, Zenon DEF Next
<1> QED
  BY InitIInv, <1>1, PTL DEF Spec

(* The heartbeat, the audit and the Redis pair keep to their types.        *)
THEOREM TypeCorrect == Spec => []TypeOK
BY Inductive, PTL DEF IInv

(* trigger_safety_mode and clear_safety_mode_if_needed keep nexus:drift    *)
(* and nexus:safety_mode together, whichever of their replies are lost.    *)
THEOREM PairIsConsistent == Spec => []DriftMeansSafetyMode
BY Inductive, PTL DEF IInv

(* audit_system_state reports only a drift that was in force when read.    *)
THEOREM ReportsAreTrue == Spec => []CriticalReportWasInForce
BY Inductive, PTL DEF IInv

(* check_health clears only after the node had processed all but max_drift *)
(* blocks of the height the beat began with.                               *)
THEOREM ClearingIsJustified == Spec => []ClearingMeansCaughtUp
BY Inductive, PTL DEF IInv

(* While the flag is off, so that check_safety_mode lets submissions pass, *)
(* every drift alarm that trigger_safety_mode has raised is worked off, for *)
(* every max_drift, over any number of beats and failures.                 *)
THEOREM NoAlarmIsDropped == Spec => []AlarmsAreWorkedOff
BY Inductive, PTL DEF IInv

-----------------------------------------------------------------------------
(* ErpSync.                                                                *)
(* A whole second is over no earlier than its ticks.                       *)
LEMMA WholeSeconds ==
  ASSUME NEW t \in Nat, NEW T \in Nat \ {0}
  PROVE  t \div T \in Nat /\ (t \div T) * T <= t
OBVIOUS

LEMMA LaterByMoreSeconds ==
  ASSUME NEW e \in Int, NEW s \in Int, NEW d \in Int, NEW T \in Nat \ {0}, d >= e - s
  PROVE  d * T >= e * T - s * T
<1>1. (d - (e - s)) * T >= 0
  OBVIOUS
<1> QED
  BY <1>1

-----------------------------------------------------------------------------
ErpTyped ==
  /\ erp_clock \in Nat
  /\ nonces \in [ReplayKeys -> Int]
  /\ erp_pc \in [ErpClients -> {"idle", "claim"}]
  /\ req \in [ErpClients -> Requests] /\ ttl \in [ErpClients -> Nat]
  /\ erp_answer \in [ErpClients -> Nat]
  /\ accepted \in [Requests -> Nat]

(* A claim to come keeps the nonce until the attestation is over: its time *)
(* to live was taken from an earlier clock, rounded down.  It has no       *)
(* answer yet.                                                             *)
ClaimsLastLongEnough ==
  \A c \in ErpClients : erp_pc[c] = "claim" =>
    /\ erp_answer[c] = ErpNoAnswer
    /\ erp_clock + ttl[c] * TicksPerSecond >= req[c].expires_at * TicksPerSecond

(* The nonce of an accepted request is there until the request expires.    *)
AcceptedAreKept ==
  \A r \in Requests : accepted[r] > 0 =>
    \/ nonces[build_replay_cache_key(r)] >= r.expires_at * TicksPerSecond
    \/ ~Unexpired(r)

(* Whatever is in Redis was put there by a claim of its own.               *)
LiveWereClaimed == \A k \in ReplayKeys : nonces[k] # 0 => k \in claimed

ReplayInv ==
  ErpTyped /\ ClaimsLastLongEnough /\ AcceptedAreKept /\ LiveWereClaimed /\ AcceptedOnce

LEMMA NoRequestTyped ==
  NoRequest \in Requests
BY ErpAssumption, Zenon DEF NoRequest

LEMMA KeyTyped ==
  ASSUME NEW r \in Requests
  PROVE  build_replay_cache_key(r) \in ReplayKeys
BY Zenon DEF ReplayKeys

LEMMA Expiry ==
  ASSUME NEW r \in Requests
  PROVE  r.expires_at \in Int /\ r.expires_at * TicksPerSecond \in Int
BY ErpAssumption

LEMMA ReplayInit ==
  ErpInit => ReplayInv
BY NoRequestTyped
   DEF ErpInit, ErpNoAnswer, ReplayInv, ErpTyped, ClaimsLastLongEnough, AcceptedAreKept,
       LiveWereClaimed, AcceptedOnce

(* replay_ttl_seconds reaches the end of the attestation from any tick of  *)
(* the second in which it is computed.                                     *)
LEMMA TtlLastsLongEnough ==
  ASSUME NEW r \in Requests, erp_clock \in Nat
  PROVE  LET ttl_seconds == replay_ttl_seconds(r, erp_clock \div TicksPerSecond)
         IN  /\ ttl_seconds \in Nat
             /\ erp_clock + ttl_seconds * TicksPerSecond >= r.expires_at * TicksPerSecond
<1> DEFINE s == erp_clock \div TicksPerSecond
           d == replay_ttl_seconds(r, s)
<1>1. r.expires_at \in Int /\ TicksPerSecond \in Nat \ {0}
  BY ErpAssumption, Zenon
<1>2. s \in Nat /\ s * TicksPerSecond <= erp_clock
  BY <1>1, WholeSeconds, Zenon
<1> HIDE DEF s
<1>3. d \in Nat /\ d >= r.expires_at - s
  BY <1>1, <1>2 DEF replay_ttl_seconds
<1>4. d * TicksPerSecond >= r.expires_at * TicksPerSecond - s * TicksPerSecond
  BY <1>1, <1>2, <1>3, LaterByMoreSeconds
<1> HIDE DEF d
<1>5. /\ d * TicksPerSecond \in Int /\ r.expires_at * TicksPerSecond \in Int
      /\ s * TicksPerSecond \in Int
  BY <1>1, <1>2, <1>3
<1>6. erp_clock + d * TicksPerSecond >= r.expires_at * TicksPerSecond
  BY <1>2, <1>4, <1>5
<1> QED
  BY <1>3, <1>6, Zenon DEF d, s

LEMMA ReplayStep ==
  ReplayInv /\ [ErpNext]_erp_vars => ReplayInv'
<1> SUFFICES ASSUME ReplayInv, [ErpNext]_erp_vars PROVE ReplayInv'
  BY Zenon
<1>0. ErpTyped
  BY Zenon DEF ReplayInv
<1>1. ASSUME NEW c \in ErpClients, NEW r \in Requests, erp_sync_handler(c, r)
      PROVE  ReplayInv'
  <2>1. UNCHANGED <<erp_clock, nonces, claimed, accepted>>
    BY <1>1, Zenon DEF erp_sync_handler
  <2>2. CASE /\ req' = [req EXCEPT ![c] = r]
             /\ erp_pc' = [erp_pc EXCEPT ![c] = "claim"]
             /\ ttl' = [ttl EXCEPT ![c] = replay_ttl_seconds(r, erp_clock \div TicksPerSecond)]
             /\ erp_answer' = [erp_answer EXCEPT ![c] = ErpNoAnswer]
    <3> DEFINE d == replay_ttl_seconds(r, erp_clock \div TicksPerSecond)
    <3>1. d \in Nat /\ erp_clock + d * TicksPerSecond >= r.expires_at * TicksPerSecond
      BY <1>0, TtlLastsLongEnough, Zenon DEF ErpTyped
    <3>2. /\ req'[c] = r /\ ttl'[c] = d /\ erp_answer'[c] = ErpNoAnswer
          /\ \A e \in ErpClients \ {c} : /\ erp_pc'[e] = erp_pc[e] /\ req'[e] = req[e]
                                      /\ ttl'[e] = ttl[e] /\ erp_answer'[e] = erp_answer[e]
      BY <1>0, <2>2, Zenon DEF ErpTyped
    <3>3. ErpTyped'
      BY <1>0, <2>1, <2>2, <3>1, Zenon DEF ErpTyped, ErpNoAnswer
    <3>4. ClaimsLastLongEnough'
      BY <2>1, <3>1, <3>2, Zenon DEF ReplayInv, ClaimsLastLongEnough
    <3> QED
      BY <2>1, <3>3, <3>4, Zenon
         DEF ReplayInv, AcceptedAreKept, Unexpired, LiveWereClaimed, AcceptedOnce
  <2>3. CASE /\ \E s \in Nat : erp_answer' = [erp_answer EXCEPT ![c] = s]
             /\ UNCHANGED <<erp_pc, req, ttl>>
    <3>1. ErpTyped'
      BY <1>0, <2>1, <2>3 DEF ErpTyped
    <3>2. ClaimsLastLongEnough'
      BY <1>0, <1>1, <2>1, <2>3, Zenon
         DEF ReplayInv, ClaimsLastLongEnough, ErpTyped, erp_sync_handler
    <3> QED
      BY <2>1, <3>1, <3>2
         DEF ReplayInv, AcceptedAreKept, Unexpired, LiveWereClaimed, AcceptedOnce
  <2> QED
    <3>1. verify_erp_attestation(r, erp_clock \div TicksPerSecond) \in Nat
      BY
         DEF verify_erp_attestation, validate_attestation_time_window,
             BadRequest,
             Forbidden, Ok
    <3> QED
      BY <1>1, <2>2, <2>3, <3>1
         DEF erp_sync_handler, BadRequest, ServiceUnavailable
(* The end of a call, with or without the SET.                             *)
<1>2. ASSUME NEW c \in ErpClients, NEW status \in Nat, Return(c, status),
             SetNx(c) \/ UNCHANGED <<nonces, claimed>>
      PROVE  /\ ErpTyped' \/ accepted' \notin [Requests -> Nat]
             /\ ClaimsLastLongEnough' /\ LiveWereClaimed'
             /\ UNCHANGED accepted => AcceptedAreKept'
  <2> DEFINE k == build_replay_cache_key(req[c])
             end == erp_clock + ttl[c] * TicksPerSecond
  <2>1. /\ req[c] \in Requests /\ k \in ReplayKeys /\ end \in Int
        /\ k = <<req[c].org, req[c].key, req[c].nonce>>
    BY <1>0, KeyTyped, ErpAssumption DEF ErpTyped, build_replay_cache_key
  <2>2. \/ UNCHANGED <<nonces, claimed>>
        \/ /\ nonces[k] = 0 /\ nonces' = [nonces EXCEPT ![k] = end]
           /\ claimed' = claimed \cup {k}
    BY <1>2, <2>1, Zenon DEF SetNx, Live
  <2> HIDE DEF k, end
  <2>3. nonces' \in [ReplayKeys -> Int]
    BY <1>0, <2>1, <2>2, Zenon DEF ErpTyped
  <2>4. LiveWereClaimed'
    BY <1>0, <2>1, <2>2, Zenon DEF ReplayInv, LiveWereClaimed, ErpTyped
  <2>5. /\ erp_pc' = [erp_pc EXCEPT ![c] = "idle"]
        /\ req' = [req EXCEPT ![c] = NoRequest] /\ ttl' = [ttl EXCEPT ![c] = 0]
        /\ erp_answer' = [erp_answer EXCEPT ![c] = status] /\ UNCHANGED erp_clock
    BY <1>2, Zenon DEF Return
  <2>6. ErpTyped' \/ accepted' \notin [Requests -> Nat]
    BY <1>0, <1>2, <2>3, <2>5, NoRequestTyped, Zenon DEF ErpTyped
  <2>7. ClaimsLastLongEnough'
    BY <1>0, <2>5, Zenon DEF ReplayInv, ClaimsLastLongEnough, ErpTyped
  <2>8. ASSUME UNCHANGED accepted PROVE AcceptedAreKept'
    <3> SUFFICES ASSUME NEW r \in Requests, accepted[r] > 0, Unexpired(r)
                 PROVE  nonces'[build_replay_cache_key(r)] >= r.expires_at * TicksPerSecond
      BY <2>5, <2>8, Zenon DEF AcceptedAreKept, Unexpired
    <3>1. nonces[build_replay_cache_key(r)] >= r.expires_at * TicksPerSecond
      BY Zenon DEF ReplayInv, AcceptedAreKept
    <3>2. nonces[build_replay_cache_key(r)] # 0
      BY <1>0, <3>1, Expiry, KeyTyped DEF Unexpired, ErpTyped
    <3> QED
      BY <1>0, <2>1, <2>2, <3>1, <3>2, KeyTyped, Zenon DEF ErpTyped
  <2> QED
    BY <2>4, <2>6, <2>7, <2>8, Zenon
<1>3. ASSUME NEW c \in ErpClients, claim_attestation_nonce(c) PROVE ReplayInv'
  <2> DEFINE r == req[c]
             k == build_replay_cache_key(r)
             fresh == ~Live(k)
  <2>1. /\ Return(c, IF fresh THEN Ok ELSE Conflict) /\ SetNx(c)
        /\ accepted' = [accepted EXCEPT ![r] =
             IF fresh /\ Unexpired(r) /\ @ < 2 THEN @ + 1 ELSE @]
        /\ erp_pc[c] = "claim" /\ UNCHANGED erp_clock
    BY <1>3, Zenon DEF claim_attestation_nonce, Return
  <2>2. accepted' \in [Requests -> Nat] /\ r \in Requests /\ k \in ReplayKeys
    BY <1>0, <2>1, KeyTyped DEF ErpTyped
  <2>3. (IF fresh THEN Ok ELSE Conflict) \in Nat
    BY DEF Ok, Conflict
  <2>4. /\ ErpTyped' /\ ClaimsLastLongEnough' /\ LiveWereClaimed'
        /\ UNCHANGED accepted => AcceptedAreKept'
    BY <1>2, <2>1, <2>2, <2>3, Zenon
  <2>5. CASE fresh /\ Unexpired(r)
    <3>1. /\ nonces[k] = 0
          /\ nonces' = [nonces EXCEPT ![k] = erp_clock + ttl[c] * TicksPerSecond]
      BY <2>1, <2>5, Zenon DEF SetNx, Live
    <3>2. erp_clock + ttl[c] * TicksPerSecond >= r.expires_at * TicksPerSecond
      BY <2>1, Zenon DEF ReplayInv, ClaimsLastLongEnough
    <3>3. \A q \in Requests : build_replay_cache_key(q) = k /\ accepted[q] > 0 => ~Unexpired(q)
      BY <1>0, <3>1, Expiry DEF ReplayInv, AcceptedAreKept, Unexpired, ErpTyped
    <3>4. accepted[r] = 0
      <4>1. accepted[r] \in Nat /\ ~(accepted[r] > 0)
        BY <1>0, <2>2, <2>5, <3>3, Zenon DEF ErpTyped
      <4> QED
        BY <4>1
    <3>5. accepted' = [accepted EXCEPT ![r] = 1]
      BY <2>1, <2>5, <3>4
    <3>6. AcceptedOnce'
      BY <1>0, <2>2, <3>5 DEF ReplayInv, AcceptedOnce, ErpTyped
    <3>7. AcceptedAreKept'
      <4> SUFFICES ASSUME NEW q \in Requests, accepted'[q] > 0, Unexpired(q)
                   PROVE  nonces'[build_replay_cache_key(q)] >= q.expires_at * TicksPerSecond
        BY <2>1, Zenon DEF AcceptedAreKept, Unexpired
      <4>1. CASE q = r
        BY <1>0, <2>2, <3>1, <3>2, <4>1, Zenon DEF ErpTyped
      <4>2. CASE q # r
        <5>1. accepted[q] > 0
          BY <1>0, <2>2, <3>5, <4>2, Zenon DEF ErpTyped
        <5>2. build_replay_cache_key(q) # k
          BY <3>3, <5>1, Zenon
        <5>3. nonces'[build_replay_cache_key(q)] = nonces[build_replay_cache_key(q)]
          BY <1>0, <2>2, <3>1, <5>2, KeyTyped, Zenon DEF ErpTyped
        <5> QED
          BY <5>1, <5>3, Zenon DEF ReplayInv, AcceptedAreKept
      <4> QED
        BY <4>1, <4>2, Zenon
    <3> QED
      BY <2>4, <3>6, <3>7, Zenon DEF ReplayInv
  <2>6. CASE ~(fresh /\ Unexpired(r))
    <3>1. UNCHANGED accepted
      BY <1>0, <2>1, <2>6, Zenon DEF ErpTyped
    <3> QED
      BY <2>4, <3>1, Zenon DEF ReplayInv, AcceptedOnce
  <2> QED
    BY <2>5, <2>6, Zenon
<1>4. ASSUME NEW c \in ErpClients, ReplayStoreUnavailable(c) \/ ErpAbandon(c) PROVE ReplayInv'
  <2>1. PICK status \in Nat : Return(c, status)
    BY <1>4
       DEF ReplayStoreUnavailable, ErpAbandon, ServiceUnavailable, ErpNoAnswer
  <2>2. UNCHANGED accepted /\ (SetNx(c) \/ UNCHANGED <<nonces, claimed>>)
    BY <1>4, Zenon DEF ReplayStoreUnavailable, ErpAbandon
  <2> QED
    BY <1>0, <1>2, <2>1, <2>2, Zenon DEF ReplayInv, ErpTyped, AcceptedOnce
<1>5. ASSUME ErpTimePasses PROVE ReplayInv'
  <2>1. /\ erp_clock' = erp_clock + 1 /\ erp_clock \in Nat
        /\ nonces' = [k \in ReplayKeys |-> IF nonces[k] <= erp_clock' THEN 0 ELSE nonces[k]]
        /\ UNCHANGED <<erp_pc, req, ttl, erp_answer, claimed, accepted>>
    BY <1>0, <1>5, Zenon DEF ErpTimePasses, ErpTyped
  <2>2. ErpTyped'
    BY <1>0, <2>1 DEF ErpTyped
  <2>3. ClaimsLastLongEnough'
    <3>1. \A c \in ErpClients : /\ ttl[c] * TicksPerSecond \in Int
                             /\ req[c].expires_at * TicksPerSecond \in Int
      BY <1>0, Expiry, ErpAssumption DEF ErpTyped
    <3> QED
      BY <2>1, <3>1 DEF ReplayInv, ClaimsLastLongEnough
  <2>4. AcceptedAreKept'
    BY <1>0, <2>1, KeyTyped, Expiry
       DEF ReplayInv, AcceptedAreKept, Unexpired, ErpTyped
  <2> QED
    BY <2>1, <2>2, <2>3, <2>4, Zenon DEF ReplayInv, LiveWereClaimed, AcceptedOnce
<1>6. ASSUME UNCHANGED erp_vars PROVE ReplayInv'
  BY <1>6, Zenon
     DEF erp_vars, ReplayInv, ErpTyped, ClaimsLastLongEnough, AcceptedAreKept,
         Unexpired,
              LiveWereClaimed, AcceptedOnce
<1> QED
  BY <1>1, <1>3, <1>4, <1>5, <1>6, Zenon DEF ErpNext

(* Whatever the interleaving, the waits and the failures of Redis, no      *)
(* request is accepted twice before the second in which it expires.        *)
THEOREM ReplaysAreRefused ==
  ErpSpec => []AcceptedOnce
<1>1. ReplayInv => AcceptedOnce
  BY Zenon DEF ReplayInv
<1> QED
  BY ReplayInit, ReplayStep, <1>1, PTL DEF ErpSpec

(* A request is answered 409 only for a nonce its own organisation and key *)
(* claimed before.                                                         *)
THEOREM ConflictsAreOnesOwn ==
  ErpSpec => ConflictIsEarned
<1> DEFINE Earned == \A c \in ErpClients : erp_pc[c] = "claim" /\ erp_answer'[c] = Conflict =>
                       <<req[c].org, req[c].key, req[c].nonce>> \in claimed
<1>1. ReplayInv /\ [ErpNext]_erp_vars => [Earned]_erp_vars
  <2> SUFFICES ASSUME ReplayInv, ErpNext, NEW c \in ErpClients, erp_pc[c] = "claim",
                      erp_answer'[c] = Conflict
               PROVE  <<req[c].org, req[c].key, req[c].nonce>> \in claimed
    BY Zenon
  <2>1. erp_answer \in [ErpClients -> Nat] /\ req[c] \in Requests /\ erp_answer[c] # Conflict
    BY DEF ReplayInv, ErpTyped, ClaimsLastLongEnough, ErpNoAnswer, Conflict
  <2>2. ASSUME NEW d \in ErpClients, NEW r \in Requests, erp_sync_handler(d, r) PROVE FALSE
    BY <2>1, <2>2, Zenon DEF erp_sync_handler
  <2>3. ASSUME NEW d \in ErpClients, ReplayStoreUnavailable(d) \/ ErpAbandon(d) PROVE FALSE
    BY <2>1, <2>3
       DEF ReplayStoreUnavailable, ErpAbandon, Return, ErpNoAnswer,
           Conflict,
                      ServiceUnavailable
  <2>4. ASSUME NEW d \in ErpClients, claim_attestation_nonce(d)
        PROVE  d = c /\ Live(build_replay_cache_key(req[c]))
    BY <2>1, <2>4 DEF claim_attestation_nonce, Return, Ok, Conflict
  <2>5. ~ErpTimePasses
    BY <2>1, Zenon DEF ErpTimePasses
  <2>6. Live(build_replay_cache_key(req[c]))
    BY <2>2, <2>3, <2>4, <2>5, Zenon DEF ErpNext
  <2> QED
    BY <2>1, <2>6, KeyTyped, Zenon
       DEF ReplayInv, LiveWereClaimed, Live, build_replay_cache_key
<1> QED
  BY ReplayInit, ReplayStep, <1>1, PTL DEF ErpSpec, ConflictIsEarned

-----------------------------------------------------------------------------
(* GrpcMetrics.                                                            *)
GrpcSteps == {"idle", "peek", "lock", "peek_again", "fetch", "store", "max_height",
          "connect", "open", "get_mode", "get_drift", "reconnect",
          "get_mode_retry", "get_drift_retry"}

(* The steps between taking the refresh lock and giving it back.           *)
Refreshing == {"peek_again", "fetch", "store"}

CacheTyped ==
  /\ grpc_pc \in [GrpcClients -> GrpcSteps]
  /\ cached \in Int /\ age \in Nat
  /\ count \in Nat /\ grpc_mode \in BOOLEAN
  /\ local \in [GrpcClients -> [counts : Int, mode : BOOLEAN]]

HoldersRefresh == \A c \in GrpcClients : grpc_pc[c] \in Refreshing => refresh_lock = c

NoneFresh == \A c \in GrpcClients : grpc_pc[c] \in {"fetch", "store"} => ~Fresh

CacheInv == CacheTyped /\ HoldersRefresh /\ NoneFresh

(* Storing a field in one client's locals keeps them typed.                *)
LEMMA KeepTyped ==
  ASSUME NEW c \in GrpcClients, local \in [GrpcClients -> [counts : Int, mode : BOOLEAN]]
  PROVE  /\ \A n \in Int : Keep(c, "counts", n) =>
              local' \in [GrpcClients -> [counts : Int, mode : BOOLEAN]]
         /\ \A b \in BOOLEAN : Keep(c, "mode", b) =>
              local' \in [GrpcClients -> [counts : Int, mode : BOOLEAN]]
BY Zenon DEF Keep

LEMMA CacheInit ==
  GrpcInit => CacheInv
<1> SUFFICES ASSUME GrpcInit PROVE CacheInv
  BY Zenon
<1>1. grpc_mode \in BOOLEAN
  BY Zenon DEF GrpcInit
<1> QED
  BY <1>1 DEF GrpcInit, CacheInv, CacheTyped, HoldersRefresh, NoneFresh, Fresh,
              GrpcSteps, Refreshing, Nothing, NoCounts

(* A call that moves from one step to another without touching cache or    *)
(* lock keeps the invariant unless the new step is one under the lock.     *)
LEMMA MovesOn ==
  ASSUME CacheInv, NEW c \in GrpcClients, NEW step \in GrpcSteps \ Refreshing,
         grpc_pc' = [grpc_pc EXCEPT ![c] = step],
         refresh_lock' \in {refresh_lock, IF refresh_lock = c THEN Nobody ELSE refresh_lock},
         UNCHANGED <<cached, age>>
  PROVE  (grpc_pc \in [GrpcClients -> GrpcSteps])' /\ HoldersRefresh' /\ NoneFresh'
BY Zenon
   DEF CacheInv, CacheTyped, HoldersRefresh, NoneFresh, Fresh, GrpcSteps,
       Refreshing

LEMMA CacheStep ==
  CacheInv /\ [GrpcNext]_grpc_vars => CacheInv'
<1> SUFFICES ASSUME CacheInv, [GrpcNext]_grpc_vars PROVE CacheInv'
  BY Zenon
<1> USE DEF CacheInv
<1>1. ASSUME NEW c \in GrpcClients, get_metrics(c) \/ get_status(c)
      PROVE  CacheInv'
  <2>1. PICK step \in {"peek", "max_height"} : Begin(c, step)
    BY <1>1, Zenon DEF get_metrics, get_status
  <2> QED
    BY <2>1, MovesOn, Zenon
       DEF Begin, GrpcGoto, CacheTyped, GrpcSteps, Refreshing, cache
<1>2. ASSUME NEW c \in GrpcClients, NEW what, Answer(c, what),
             refresh_lock' \in {refresh_lock, IF refresh_lock = c THEN Nobody ELSE refresh_lock},
             UNCHANGED <<cached, age, count, grpc_mode>>
      PROVE  CacheInv'
  <2>1. local' \in [GrpcClients -> [counts : Int, mode : BOOLEAN]]
    BY <1>2 DEF Answer, CacheTyped, Nothing, NoCounts
  <2> QED
    BY <2>1, <1>2, MovesOn, Zenon
       DEF Answer, GrpcGoto, CacheTyped, GrpcSteps, Refreshing
<1>3. ASSUME NEW c \in GrpcClients, Peek(c) PROVE CacheInv'
  <2>1. local' \in [GrpcClients -> [counts : Int, mode : BOOLEAN]]
    BY <1>3, KeepTyped, Zenon DEF Peek, CacheTyped
  <2>2. PICK step \in {"connect", "lock"} : grpc_pc' = [grpc_pc EXCEPT ![c] = step]
    BY <1>3, Zenon DEF Peek, GrpcGoto
  <2> QED
    BY <2>1, <2>2, <1>3, MovesOn, Zenon
       DEF Peek, CacheTyped, GrpcSteps, Refreshing, cache, grpc_world
<1>4. ASSUME NEW c \in GrpcClients, LockRefresh(c) PROVE CacheInv'
  BY <1>4, GrpcAssumption, Zenon
     DEF LockRefresh, GrpcGoto, CacheTyped, HoldersRefresh, NoneFresh, Fresh,
         GrpcSteps, Refreshing, cache, grpc_world
<1>5. ASSUME NEW c \in GrpcClients, PeekAgain(c) PROVE CacheInv'
  <2>1. CASE Fresh
    <3>1. local' \in [GrpcClients -> [counts : Int, mode : BOOLEAN]]
      BY <1>5, <2>1, KeepTyped, Zenon DEF PeekAgain, CacheTyped
    <3> QED
      BY <3>1, <2>1, <1>5, MovesOn, Zenon
         DEF PeekAgain, GrpcGoto, Release, CacheTyped, HoldersRefresh, GrpcSteps,
             Refreshing, cache, grpc_world
  <2>2. CASE ~Fresh
    BY <2>2, <1>5, Zenon
       DEF PeekAgain, GrpcGoto, CacheTyped, HoldersRefresh, NoneFresh, Fresh,
          GrpcSteps,
           Refreshing, cache, grpc_world
  <2> QED
    BY <2>1, <2>2, Zenon
<1>6. ASSUME NEW c \in GrpcClients, fetch_metrics_counts(c) PROVE CacheInv'
  <2>1. local' \in [GrpcClients -> [counts : Int, mode : BOOLEAN]]
    BY <1>6, KeepTyped DEF fetch_metrics_counts, CacheTyped
  <2> QED
    BY <2>1, <1>6, Zenon
       DEF fetch_metrics_counts, GrpcGoto, CacheTyped, HoldersRefresh, NoneFresh,
           Fresh, GrpcSteps, Refreshing, cache, grpc_world
<1>7. ASSUME NEW c \in GrpcClients, Store(c) PROVE CacheInv'
  BY <1>7, Zenon
     DEF Store, GrpcGoto, Release, CacheTyped, HoldersRefresh, NoneFresh,
        Fresh,
         GrpcSteps, Refreshing, grpc_world
<1>8. ASSUME NEW c \in GrpcClients, GetMode(c) PROVE CacheInv'
  <2>1. local' \in [GrpcClients -> [counts : Int, mode : BOOLEAN]]
    BY <1>8, KeepTyped, Zenon DEF GetMode, CacheTyped
  <2> QED
    BY <2>1, <1>8, MovesOn, Zenon
       DEF GetMode, GrpcGoto, CacheTyped, GrpcSteps, Refreshing, cache,
          grpc_world
<1>9. ASSUME NEW c \in GrpcClients, Cancel(c) PROVE CacheInv'
  BY <1>9, <1>2, Zenon DEF Cancel, cache, grpc_world
<1>10. ASSUME NEW c \in GrpcClients, FetchFails(c) PROVE CacheInv'
  BY <1>10, <1>2, Zenon
     DEF FetchFails, Release, HoldersRefresh, Refreshing, cache,
         grpc_world
<1>11. ASSUME NEW c \in GrpcClients, QueryMaxHeight(c) PROVE CacheInv'
  <2>1. CASE GrpcGoto(c, "connect") /\ UNCHANGED <<local, grpc_answer>>
    BY <2>1, <1>11, MovesOn, Zenon
       DEF QueryMaxHeight, GrpcGoto, CacheTyped, GrpcSteps, Refreshing, cache,
          grpc_world
  <2> QED
    BY <2>1, <1>11, <1>2, Zenon DEF QueryMaxHeight, cache, grpc_world
<1>12. ASSUME NEW c \in GrpcClients, CachedConn(c) \/ PipelineFails(c) PROVE CacheInv'
  <2>1. PICK step \in {"get_mode", "open", "reconnect"} : grpc_pc' = [grpc_pc EXCEPT ![c] = step]
    BY <1>12, Zenon DEF CachedConn, PipelineFails, GrpcGoto
  <2> QED
    BY <2>1, <1>12, MovesOn, Zenon
       DEF CachedConn, PipelineFails, CacheTyped, GrpcSteps, Refreshing,
          cache, grpc_world
<1>13. ASSUME NEW c \in GrpcClients, Open(c) \/ Reconnect(c) PROVE CacheInv'
  <2>1. CASE Default(c)
    BY <2>1, <1>13, <1>2, Zenon
       DEF Open, Reconnect, Default, cache, grpc_world
  <2>2. CASE ~Default(c)
    <3>1. PICK step \in {"get_mode", "get_mode_retry"} : grpc_pc' = [grpc_pc EXCEPT ![c] = step]
      BY <2>2, <1>13, Zenon DEF Open, Reconnect, GrpcGoto
    <3> QED
      BY <3>1, <2>2, <1>13, MovesOn, Zenon
         DEF Open, Reconnect, CacheTyped, GrpcSteps, Refreshing, cache,
            grpc_world
  <2> QED
    BY <2>1, <2>2, Zenon
<1>14. ASSUME NEW c \in GrpcClients, GetDrift(c) \/ RetryFails(c) PROVE CacheInv'
  BY <1>14, <1>2, Zenon
     DEF GetDrift, RetryFails, Default, cache, grpc_world
<1>15. ASSUME RowsChange \/ SafetyModeChanges PROVE CacheInv'
  <2>1. grpc_mode' \in BOOLEAN
    BY <1>15, Zenon DEF RowsChange, SafetyModeChanges, CacheTyped
  <2>2. count' \in Nat
    BY <1>15, GrpcAssumption
       DEF RowsChange, SafetyModeChanges, CacheTyped
  <2>3. UNCHANGED <<grpc_pc, cached, age, refresh_lock, local>>
    BY <1>15, Zenon DEF RowsChange, SafetyModeChanges, cache
  <2> QED
    BY <2>1, <2>2, <2>3, Zenon DEF CacheTyped, HoldersRefresh, NoneFresh, Fresh
<1>16. ASSUME GrpcTimePasses PROVE CacheInv'
  BY <1>16, GrpcAssumption
     DEF GrpcTimePasses, CacheTyped, HoldersRefresh, NoneFresh, Fresh, grpc_world
<1>17. ASSUME UNCHANGED grpc_vars PROVE CacheInv'
  BY <1>17, Zenon DEF grpc_vars, CacheTyped, HoldersRefresh, NoneFresh, Fresh
<1> QED
  BY <1>1, <1>3, <1>4, <1>5, <1>6, <1>7, <1>8, <1>9, <1>10, <1>11, <1>12, Zenon,
     <1>13, <1>14, <1>15, <1>16, <1>17
     DEF GrpcNext, Step

(* The count query runs only for the holder of the refresh lock, while the *)
(* cache has nothing fresh: once per time to live, for any number of calls *)
(* that find the entry expired at once.                                    *)
THEOREM RefreshIsSingle ==
  GrpcSpec => []OneFetchPerTtl
<1>1. CacheInv => OneFetchPerTtl
  BY Zenon DEF CacheInv, HoldersRefresh, NoneFresh, OneFetchPerTtl, Refreshing
<1> QED
  BY CacheInit, CacheStep, <1>1, PTL DEF GrpcSpec

-----------------------------------------------------------------------------
(* A call that has read the flag as off has a moment at which it was off;  *)
(* an idle client has read nothing.                                        *)
SeenOff == \A c \in GrpcClients : local[c].mode = FALSE => off[c] = TRUE

(* While the flag is off, every call in progress has had such a moment.    *)
OffNow == \A c \in GrpcClients : grpc_pc[c] # "idle" /\ grpc_mode = FALSE => off[c] = TRUE

IdleHasNothing == \A c \in GrpcClients : grpc_pc[c] = "idle" => local[c] = Nothing

AnswerIsSeen(c) ==
  grpc_answer[c] # GrpcNoAnswer /\ grpc_answer[c].result = "ok" /\ grpc_answer[c].mode = FALSE
    => off[c] = TRUE

FlagTyped ==
  /\ CacheTyped
  /\ off \in [GrpcClients -> BOOLEAN]
  /\ DOMAIN grpc_answer = GrpcClients

AnswersAreSeen == \A c \in GrpcClients : AnswerIsSeen(c)

FlagInv == FlagTyped /\ SeenOff /\ OffNow /\ IdleHasNothing /\ AnswersAreSeen

LEMMA FlagInit ==
  GrpcInit => FlagInv
<1> SUFFICES ASSUME GrpcInit PROVE FlagInv
  OBVIOUS
<1>1. /\ off = [c \in GrpcClients |-> FALSE] /\ off \in [GrpcClients -> BOOLEAN]
      /\ CacheTyped
  BY CacheInit, Zenon DEF GrpcInit, CacheInv
<1>2. local = [c \in GrpcClients |-> Nothing] /\ grpc_answer = [c \in GrpcClients |-> GrpcNoAnswer]
  BY Zenon DEF GrpcInit
<1>3. FlagTyped /\ IdleHasNothing /\ AnswersAreSeen /\ OffNow
  BY <1>1, <1>2, Zenon
     DEF GrpcInit, OffNow, FlagTyped, IdleHasNothing, AnswersAreSeen, AnswerIsSeen
<1>4. SeenOff
  BY <1>2, Zenon DEF SeenOff, Nothing
<1> QED
  BY <1>3, <1>4, Zenon DEF FlagInv

(* A call that goes on, having stored at most counts, or a mode that is    *)
(* off now.                                                                *)
LEMMA CallGoesOn ==
  ASSUME FlagInv, CacheTyped', NEW c \in GrpcClients, NEW step \in GrpcSteps \ {"idle"},
         grpc_pc' = [grpc_pc EXCEPT ![c] = step], UNCHANGED <<off, grpc_answer, grpc_mode>>, grpc_pc[c] # "idle",
         \/ UNCHANGED local
         \/ \E n \in Int : local' = [local EXCEPT ![c]["counts"] = n]
         \/ \E b \in BOOLEAN : /\ local' = [local EXCEPT ![c]["mode"] = b]
                               /\ b = FALSE => off[c] = TRUE
  PROVE  FlagInv'
<1>1. FlagTyped' /\ AnswersAreSeen'
  BY Zenon DEF FlagInv, FlagTyped, AnswersAreSeen, AnswerIsSeen
<1>2. SeenOff'
  BY DEF FlagInv, FlagTyped, CacheTyped, SeenOff
<1>3. IdleHasNothing' /\ OffNow'
  BY Zenon DEF FlagInv, FlagTyped, CacheTyped, IdleHasNothing, OffNow
<1> QED
  BY <1>1, <1>2, <1>3, Zenon DEF FlagInv

(* A call that is answered, with a mode no better than the one it has.     *)
LEMMA CallAnswers ==
  ASSUME FlagInv, CacheTyped', NEW c \in GrpcClients, NEW what, Answer(c, what),
         UNCHANGED <<off, grpc_mode>>,
         \/ what = GrpcNoAnswer
         \/ what = [result |-> "error"]
         \/ what.mode = TRUE
         \/ what.mode = local[c].mode
  PROVE  FlagInv'
<1>1. FlagTyped'
  BY Zenon DEF FlagInv, FlagTyped, Answer
<1>2. SeenOff' /\ IdleHasNothing' /\ OffNow'
  BY Zenon DEF FlagInv, FlagTyped, CacheTyped, SeenOff, OffNow, IdleHasNothing,
         Answer, GrpcGoto, Nothing
<1>3. ASSUME NEW d \in GrpcClients PROVE AnswerIsSeen(d)'
  BY <1>3 DEF FlagInv, FlagTyped, CacheTyped, SeenOff,
              AnswersAreSeen, AnswerIsSeen, Answer, GrpcNoAnswer
<1> QED
  BY <1>1, <1>2, <1>3, Zenon DEF FlagInv, AnswersAreSeen

LEMMA FlagStep ==
  CacheInv /\ FlagInv /\ [GrpcNext]_grpc_vars => FlagInv'
<1> SUFFICES ASSUME CacheInv, FlagInv, [GrpcNext]_grpc_vars PROVE FlagInv'
  BY Zenon
<1>0. CacheTyped' /\ CacheTyped
  BY CacheStep, Zenon DEF CacheInv
<1>1. ASSUME NEW c \in GrpcClients, get_metrics(c) \/ get_status(c)
      PROVE  FlagInv'
  <2>1. PICK step \in {"peek", "max_height"} : Begin(c, step)
    BY <1>1, Zenon DEF get_metrics, get_status
  <2>2. /\ grpc_pc[c] = "idle" /\ grpc_pc' = [grpc_pc EXCEPT ![c] = step] /\ step # "idle"
        /\ grpc_answer' = [grpc_answer EXCEPT ![c] = GrpcNoAnswer]
        /\ UNCHANGED <<local, grpc_mode>>
    BY <2>1, Zenon DEF Begin, GrpcGoto
  <2>3. /\ off' = [off EXCEPT ![c] = ~grpc_mode]
        /\ off' \in [GrpcClients -> BOOLEAN]
        /\ grpc_mode = FALSE => off'[c] = TRUE
        /\ \A d \in GrpcClients \ {c} : off'[d] = off[d]
    BY <2>1, <1>0, Zenon DEF Begin, FlagInv, FlagTyped, CacheTyped
  <2>4. SeenOff' /\ IdleHasNothing'
    BY <2>2, <2>3, <1>0 DEF FlagInv, CacheTyped, SeenOff, IdleHasNothing, Nothing
  <2>5. OffNow' /\ AnswersAreSeen'
    BY <2>2, <2>3, <1>0, Zenon
       DEF FlagInv, FlagTyped, CacheTyped, OffNow, AnswersAreSeen, AnswerIsSeen
  <2> QED
    BY <1>0, <2>2, <2>3, <2>4, <2>5, Zenon DEF FlagInv, FlagTyped
<1>2. ASSUME NEW c \in GrpcClients,
             Peek(c) \/ PeekAgain(c) \/ fetch_metrics_counts(c) \/ Store(c) \/ LockRefresh(c)
      PROVE  FlagInv'
  <2>1. PICK step \in GrpcSteps \ {"idle"} : grpc_pc' = [grpc_pc EXCEPT ![c] = step]
    BY <1>2, Zenon
       DEF Peek, PeekAgain, fetch_metrics_counts, Store,
           LockRefresh, GrpcGoto, GrpcSteps
  <2>2. UNCHANGED local \/ \E n \in Int : local' = [local EXCEPT ![c]["counts"] = n]
    BY <1>0, <1>2
       DEF Peek, PeekAgain, fetch_metrics_counts, Store,
          LockRefresh, Keep, CacheTyped
  <2>3. UNCHANGED <<off, grpc_answer, grpc_mode>> /\ grpc_pc[c] # "idle"
    BY <1>2, Zenon
       DEF Peek, PeekAgain, fetch_metrics_counts, Store,
           LockRefresh, grpc_world
  <2> QED
    BY <1>0, <2>1, <2>2, <2>3, CallGoesOn, Zenon
<1>3. ASSUME NEW c \in GrpcClients, CachedConn(c) \/ PipelineFails(c) PROVE FlagInv'
  <2>1. PICK step \in {"get_mode", "open", "reconnect"} : grpc_pc' = [grpc_pc EXCEPT ![c] = step]
    BY <1>3, Zenon DEF CachedConn, PipelineFails, GrpcGoto
  <2> QED
    BY <1>0, <1>3, <2>1, CallGoesOn, Zenon
       DEF CachedConn, PipelineFails, GrpcSteps, grpc_world
<1>4. ASSUME NEW c \in GrpcClients, Open(c) \/ Reconnect(c) PROVE FlagInv'
  <2>1. CASE Default(c)
    BY <1>0, <1>4, <2>1, CallAnswers, Zenon
       DEF Open, Reconnect, Default, grpc_world
  <2>2. CASE ~Default(c)
    <3>1. PICK step \in {"get_mode", "get_mode_retry"} : grpc_pc' = [grpc_pc EXCEPT ![c] = step]
      BY <2>2, <1>4, Zenon DEF Open, Reconnect, GrpcGoto
    <3> QED
      BY <1>0, <1>4, <2>2, <3>1, CallGoesOn, Zenon
         DEF Open, Reconnect, GrpcSteps, grpc_world
  <2> QED
    BY <2>1, <2>2, Zenon
<1>5. ASSUME NEW c \in GrpcClients, GetMode(c) PROVE FlagInv'
  <2>1. local' = [local EXCEPT ![c]["mode"] = grpc_mode]
    BY <1>5, Zenon DEF GetMode, Keep
  <2>2. PICK step \in {"get_drift", "get_drift_retry"} : grpc_pc' = [grpc_pc EXCEPT ![c] = step]
    BY <1>5, Zenon DEF GetMode, GrpcGoto
  <2>3. grpc_pc[c] # "idle" /\ UNCHANGED <<off, grpc_answer, grpc_mode>>
    BY <1>5, Zenon DEF GetMode, grpc_world
  <2>4. grpc_mode \in BOOLEAN /\ (grpc_mode = FALSE => off[c] = TRUE)
    BY <1>0, <2>3, Zenon DEF FlagInv, OffNow, CacheTyped
  <2> QED
    BY <1>0, <2>1, <2>2, <2>3, <2>4, CallGoesOn, Zenon DEF GrpcSteps
<1>6. ASSUME NEW c \in GrpcClients, QueryMaxHeight(c) PROVE FlagInv'
  <2>1. CASE GrpcGoto(c, "connect") /\ UNCHANGED <<local, grpc_answer>>
    BY <1>0, <1>6, <2>1, CallGoesOn, Zenon
       DEF QueryMaxHeight, GrpcGoto, GrpcSteps, grpc_world
  <2> QED
    BY <1>0, <1>6, <2>1, CallAnswers, Zenon DEF QueryMaxHeight, grpc_world
<1>7. ASSUME NEW c \in GrpcClients, GetDrift(c) PROVE FlagInv'
  BY <1>0, <1>7, CallAnswers, Zenon DEF GetDrift, grpc_world
<1>8. ASSUME NEW c \in GrpcClients, Cancel(c) \/ FetchFails(c) \/ RetryFails(c)
      PROVE  FlagInv'
  BY <1>0, <1>8, CallAnswers, Zenon
     DEF Cancel, FetchFails, RetryFails, Default, grpc_world
<1>9. ASSUME SafetyModeChanges PROVE FlagInv'
  <2>1. /\ off' = [c \in GrpcClients |-> off[c] \/ ~grpc_mode']
        /\ off' \in [GrpcClients -> BOOLEAN]
        /\ \A c \in GrpcClients : (grpc_mode' = FALSE \/ off[c] = TRUE) => off'[c] = TRUE
    BY <1>9, <1>0, Zenon DEF SafetyModeChanges, FlagInv, FlagTyped, CacheTyped
  <2>2. UNCHANGED <<grpc_pc, local, grpc_answer>>
    BY <1>9, Zenon DEF SafetyModeChanges
  <2> QED
    BY <1>0, <2>1, <2>2, Zenon
       DEF FlagInv, FlagTyped, SeenOff, OffNow, IdleHasNothing, AnswersAreSeen, AnswerIsSeen
<1>10. ASSUME RowsChange \/ GrpcTimePasses \/ UNCHANGED grpc_vars PROVE FlagInv'
  <2>1. UNCHANGED <<grpc_pc, local, grpc_answer, off, grpc_mode>>
    BY <1>10, Zenon DEF RowsChange, GrpcTimePasses, grpc_vars, grpc_world
  <2> QED
    BY <1>0, <2>1, Zenon
       DEF FlagInv, FlagTyped, SeenOff, OffNow, IdleHasNothing, AnswersAreSeen, AnswerIsSeen
<1> QED
  BY <1>1, <1>2, <1>3, <1>4, <1>5, <1>6, <1>7, <1>8, <1>9, <1>10, Zenon
     DEF GrpcNext, Step

(* A call answers that safety mode is off only if it was off at some       *)
(* moment of the call, for any number of concurrent calls, reconnects and  *)
(* failures.                                                               *)
THEOREM OffIsTrue ==
  GrpcSpec => []OffMeansOff
<1>1. FlagInv => OffMeansOff
  <2> SUFFICES ASSUME FlagInv, NEW c \in GrpcClients, grpc_answer[c] # GrpcNoAnswer,
                      grpc_answer[c].result = "ok", ~grpc_answer[c].mode
               PROVE  off[c]
    BY Zenon DEF OffMeansOff
  <2>1. grpc_answer[c].mode = FALSE \/ grpc_answer[c].mode # TRUE
    BY Zenon
  <2> QED
    BY <2>1 DEF FlagInv, AnswersAreSeen, AnswerIsSeen
<1> QED
  BY CacheInit, CacheStep, FlagInit, FlagStep, <1>1, PTL DEF GrpcSpec

-----------------------------------------------------------------------------
(* Billing.                                                                *)
KeyHash == [usage : Int, grace_start : Int]
BillCall == [key : BillKeys, usage : Int, new_usage : Int, now : Nat]
BillEvent == [step : {"recv", "dedup", "exists", "count"}, key : BillKeys]
BillSteps == {"idle", "auth", "usage", "grace", "start"}

BillTyped ==
  /\ bill_clock \in Nat
  /\ apikey \in [BillKeys -> KeyHash]
  /\ bill_pc \in [BillClients -> BillSteps]
  /\ call \in [BillClients -> BillCall]
  /\ free \in [BillKeys -> Nat] /\ stored \in [BillKeys -> Int] /\ last \in [BillKeys -> Int]
  /\ calm \in [BillKeys -> BOOLEAN]
  /\ bridge \in BillEvent

(* A key that authenticated a call, or is about to be counted for an       *)
(* event, has its hash.                                                    *)
KnownKeysHaveHashes ==
  /\ \A k \in BillKeys : apikey[k] = NoHash \/ apikey[k].usage >= 0
  /\ \A c \in BillClients : bill_pc[c] \in {"usage", "grace", "start"} =>
                          apikey[call[c].key].usage >= 0
  /\ bridge.step = "count" => apikey[bridge.key].usage >= 0

(* Each free call has a usage of its own.                                  *)
FreeCallsHaveUsages ==
  \A k \in BillKeys : free[k] <= Limit /\ (free[k] = 0 \/ free[k] <= apikey[k].usage)

(* A call beyond the limit was counted beyond the limit.                   *)
GraceCallsAreLate ==
  \A c \in BillClients : bill_pc[c] \in {"grace", "start"} =>
    apikey[call[c].key].usage > Limit /\ call[c].new_usage > Limit

LEMMA NoCallTyped ==
  /\ NoCall \in BillCall
  /\ NoEvent \in BillEvent
  /\ NoEvent.step = "recv"
BY BillingAssumption DEF NoCall, NoEvent, BillCall, BillEvent

UsageInv ==
  BillTyped /\ KnownKeysHaveHashes /\ FreeCallsHaveUsages /\ GraceCallsAreLate
    /\ GraceFollowsTheFreeTier

(* What the commands write keeps hashes and locals typed.                  *)
LEMMA HashTyped ==
  ASSUME apikey \in [BillKeys -> KeyHash], NEW k \in BillKeys
  PROVE  /\ [apikey EXCEPT ![k] = NewHash] \in [BillKeys -> KeyHash]
         /\ [apikey EXCEPT ![k].usage = @ + 1] \in [BillKeys -> KeyHash]
         /\ \A n \in Int : [apikey EXCEPT ![k].grace_start = n] \in [BillKeys -> KeyHash]
BY DEF KeyHash, NewHash, NoStart

LEMMA CallTyped ==
  ASSUME call \in [BillClients -> BillCall], NEW c \in BillClients
  PROVE  /\ call[c].key \in BillKeys /\ call[c].now \in Nat
         /\ [call EXCEPT ![c] = NoCall] \in [BillClients -> BillCall]
         /\ \A k \in BillKeys : [call EXCEPT ![c].key = k] \in [BillClients -> BillCall]
         /\ \A n \in Int : [call EXCEPT ![c].usage = n] \in [BillClients -> BillCall]
         /\ \A n \in Int, t \in Nat :
              [call EXCEPT ![c].new_usage = n, ![c].now = t] \in [BillClients -> BillCall]
BY NoCallTyped, Zenon DEF BillCall

LEMMA BillFields ==
  BillTyped => /\ \A k \in BillKeys : apikey[k].usage \in Int /\ apikey[k].grace_start \in Int
               /\ \A c \in BillClients : /\ call[c].key \in BillKeys /\ call[c].now \in Nat
                                         /\ call[c].new_usage \in Int
               /\ bridge.key \in BillKeys
BY Zenon DEF BillTyped, KeyHash, BillCall, BillEvent

(* One field of one hash is written.                                       *)
LEMMA UsageWritten ==
  ASSUME BillTyped, NEW k \in BillKeys, apikey' = [apikey EXCEPT ![k].usage = @ + 1]
  PROVE  /\ apikey'[k].usage = apikey[k].usage + 1
         /\ apikey'[k].grace_start = apikey[k].grace_start
         /\ \A j \in BillKeys : j # k => apikey'[j] = apikey[j]
         /\ apikey' \in [BillKeys -> KeyHash]
BY DEF BillTyped, KeyHash

LEMMA StartWritten ==
  ASSUME BillTyped, NEW k \in BillKeys, NEW n \in Int,
         apikey' = [apikey EXCEPT ![k].grace_start = n]
  PROVE  /\ apikey'[k].grace_start = n
         /\ apikey'[k].usage = apikey[k].usage
         /\ \A j \in BillKeys : j # k => apikey'[j] = apikey[j]
         /\ apikey' \in [BillKeys -> KeyHash]
<1>1. apikey \in [BillKeys -> KeyHash]
  BY Zenon DEF BillTyped
<1>2. apikey' \in [BillKeys -> KeyHash]
  BY <1>1, HashTyped, Zenon
<1>3. /\ apikey'[k].grace_start = n
      /\ apikey'[k].usage = apikey[k].usage
      /\ \A j \in BillKeys : j # k => apikey'[j] = apikey[j]
  BY <1>1, Zenon DEF KeyHash
<1> QED
  BY <1>2, <1>3, Zenon

(* One call goes on, ends, or counts beyond the limit.                     *)
LEMMA CallAdvances ==
  ASSUME BillTyped, NEW c \in BillClients, NEW step \in BillSteps, BillGoto(c, step)
  PROVE  /\ bill_pc' \in [BillClients -> BillSteps] /\ bill_pc'[c] = step
         /\ \A d \in BillClients \ {c} : bill_pc'[d] = bill_pc[d]
<1>1. bill_pc \in [BillClients -> BillSteps]
  BY Zenon DEF BillTyped
<1>2. bill_pc' = [bill_pc EXCEPT ![c] = step]
  BY Zenon DEF BillGoto
<1> QED
  BY <1>1, <1>2, Zenon

LEMMA CallEnds ==
  ASSUME BillTyped, NEW c \in BillClients, Done(c)
  PROVE  /\ bill_pc'[c] = "idle" /\ call' \in [BillClients -> BillCall] /\ bill_pc' \in [BillClients -> BillSteps]
         /\ \A d \in BillClients \ {c} : bill_pc'[d] = bill_pc[d] /\ call'[d] = call[d]
<1>1. "idle" \in BillSteps
  BY DEF BillSteps
<1>2. BillGoto(c, "idle") /\ call' = [call EXCEPT ![c] = NoCall]
  BY Zenon DEF Done
<1>3. call \in [BillClients -> BillCall]
  BY Zenon DEF BillTyped
<1>4. call' \in [BillClients -> BillCall]
  BY <1>2, <1>3, CallTyped, Zenon
<1>5. \A d \in BillClients \ {c} : call'[d] = call[d]
  BY <1>2, <1>3, Zenon
<1> QED
  BY <1>1, <1>2, <1>4, <1>5, CallAdvances, Zenon

LEMMA CallCounted ==
  ASSUME BillTyped, NEW c \in BillClients, NEW n \in Int, Counted(c, n)
  PROVE  /\ \/ bill_pc'[c] = "idle" /\ n <= Limit
            \/ /\ bill_pc'[c] = "grace" /\ call'[c].key = call[c].key
               /\ call'[c].new_usage = n /\ n > Limit /\ call'[c].now = bill_clock
         /\ call' \in [BillClients -> BillCall] /\ bill_pc' \in [BillClients -> BillSteps]
         /\ \A d \in BillClients \ {c} : bill_pc'[d] = bill_pc[d] /\ call'[d] = call[d]
         /\ UNCHANGED <<bill_clock, stored, last, calm, bridge>>
<1>1. CASE WithinLimit(n)
  BY <1>1, CallEnds, Zenon DEF Counted, WithinLimit
<1>2. CASE ~WithinLimit(n)
  <2>1. /\ bill_pc' = [bill_pc EXCEPT ![c] = "grace"]
        /\ call' = [call EXCEPT ![c].new_usage = n, ![c].now = bill_clock]
        /\ n > Limit
        /\ UNCHANGED <<bill_clock, stored, last, calm, bridge>>
    BY <1>2, BillingAssumption DEF Counted, BillGoto, WithinLimit
  <2>2. call \in [BillClients -> BillCall] /\ bill_pc \in [BillClients -> BillSteps] /\ bill_clock \in Nat
    BY Zenon DEF BillTyped
  <2>3. call'[c].key = call[c].key /\ call'[c].new_usage = n /\ call'[c].now = bill_clock
    BY <2>1, <2>2, Zenon DEF BillCall
  <2> QED
    <3>1. "grace" \in BillSteps
      BY DEF BillSteps
    <3>2. BillGoto(c, "grace")
      BY <2>1, Zenon DEF BillGoto
    <3>3. call' \in [BillClients -> BillCall]
      BY <2>1, <2>2, CallTyped, Zenon
    <3>4. \A d \in BillClients \ {c} : call'[d] = call[d]
      BY <2>1, <2>2, Zenon
    <3> QED
      BY <2>1, <2>3, <3>1, <3>2, <3>3, <3>4, CallAdvances, Zenon
<1> QED
  BY <1>1, <1>2, Zenon

LEMMA UsageInit ==
  BillInit => UsageInv
BY NoCallTyped, BillingAssumption DEF BillInit, UsageInv, BillTyped,
   KnownKeysHaveHashes, FreeCallsHaveUsages,
   GraceCallsAreLate, GraceFollowsTheFreeTier, NoHash, NoStart, BillSteps,
   KeyHash

(* A step of one call, or of nobody, that leaves hashes and free calls     *)
(* alone and does not go to a step that asks for more.                     *)
LEMMA HashesStay ==
  ASSUME UsageInv, BillTyped', UNCHANGED <<apikey, free>>,
         \A c \in BillClients :
           \/ bill_pc'[c] = bill_pc[c] /\ call'[c] = call[c]
           \/ bill_pc'[c] \in {"idle", "auth"}
           \/ bill_pc[c] = "grace" /\ bill_pc'[c] = "start" /\ call'[c] = call[c]
           \/ /\ bill_pc'[c] = "usage" /\ call'[c].key = call[c].key
              /\ apikey[call[c].key].usage >= 0,
         bridge'.step = "count" => apikey[bridge'.key].usage >= 0
  PROVE  UsageInv'
BY Zenon DEF UsageInv, BillTyped, KnownKeysHaveHashes, FreeCallsHaveUsages,
       GraceCallsAreLate, GraceFollowsTheFreeTier

LEMMA TypedStep ==
  BillTyped /\ [BillNext]_bill_vars => BillTyped'
<1> SUFFICES ASSUME BillTyped, [BillNext]_bill_vars PROVE BillTyped'
  BY Zenon
<1>z. 0 \in Int
  OBVIOUS
<1> USE DEF BillTyped
<1>s. BillSteps = {"idle", "auth", "usage", "grace", "start"}
  BY Zenon DEF BillSteps
<1>1. ASSUME NEW k \in BillKeys, generate_developer_key(k) PROVE BillTyped'
  <2>1. apikey' \in [BillKeys -> KeyHash]
    BY <1>1, HashTyped, Zenon DEF generate_developer_key
  <2> QED
    BY <1>1, <2>1, Zenon DEF generate_developer_key, history
<1>2. ASSUME NEW k \in BillKeys, ReceiveEvent(k) PROVE BillTyped'
  BY <1>2, Zenon DEF ReceiveEvent, BillEvent, history
<1>3. ASSUME NEW c \in BillClients, NEW k \in BillKeys, track_signature(c, k) PROVE BillTyped'
  <2>1. call' \in [BillClients -> BillCall]
    BY <1>3, CallTyped, Zenon DEF track_signature
  <2>2. bill_pc' \in [BillClients -> BillSteps]
    <3>1. "auth" \in BillSteps /\ BillGoto(c, "auth")
      BY <1>3, <1>s, Zenon DEF track_signature
    <3> QED
      BY <3>1, CallAdvances, Zenon
  <2> QED
    BY <1>3, <2>1, <2>2, Zenon DEF track_signature, history
<1>4. ASSUME NEW c \in BillClients, Authenticate(c) PROVE BillTyped'
  <2>1. apikey[call[c].key].usage \in Int
    BY CallTyped, Zenon DEF KeyHash
  <2>2. call' \in [BillClients -> BillCall]
    BY <1>4, <2>1, CallTyped, Zenon DEF Authenticate
  <2>3. bill_pc' \in [BillClients -> BillSteps]
    <3>1. "usage" \in BillSteps /\ BillGoto(c, "usage")
      BY <1>4, <1>s, Zenon DEF Authenticate
    <3> QED
      BY <3>1, CallAdvances, Zenon
  <2> QED
    BY <1>4, <2>2, <2>3, Zenon DEF Authenticate, history
<1>5. ASSUME NEW c \in BillClients, Unauthorized(c) \/ BillAbandon(c) PROVE BillTyped'
  <2>1. Done(c)
    BY <1>5, Zenon DEF Unauthorized, BillAbandon
  <2>2. call' \in [BillClients -> BillCall] /\ bill_pc' \in [BillClients -> BillSteps]
    BY <2>1, CallEnds, Zenon
  <2> QED
    BY <1>5, <2>2, Zenon DEF Unauthorized, BillAbandon, history
<1>11. ASSUME NEW c \in BillClients, NEW n \in Int, Counted(c, n),
              apikey' \in [BillKeys -> KeyHash], free' \in [BillKeys -> Nat]
       PROVE  BillTyped'
  BY <1>11, CallCounted, Zenon
<1>12. ASSUME NEW c \in BillClients, Increment(c) \/ IncrementFails(c) PROVE BillTyped'
  <2>1. call[c].key \in BillKeys /\ apikey[call[c].key].usage + 1 \in Int
    BY BillFields
  <2>2. apikey' \in [BillKeys -> KeyHash]
    BY <1>12, <2>1, HashTyped DEF Increment, IncrementFails
  <2>3. free' \in [BillKeys -> Nat]
    BY <1>12 DEF Increment, IncrementFails, CountFree
  <2>4. PICK n \in Int : Counted(c, n)
    BY <1>12, <1>z, <2>1, Zenon DEF Increment, IncrementFails
  <2> QED
    BY <1>11, <2>2, <2>3, <2>4, Zenon
<1>6. ASSUME NEW c \in BillClients, NEW start, Decide(c, start),
             calm' \in [BillKeys -> BOOLEAN]
      PROVE  BillTyped'
  <2>1. last' \in [BillKeys -> Int]
    BY <1>6, BillFields, SMTT(20) DEF Decide, Allowed
  <2>2. /\ bill_pc' \in [BillClients -> BillSteps]
        /\ call' \in [BillClients -> BillCall]
    <3>1. CASE Done(c)
      BY <3>1, CallEnds, Zenon
    <3>2. CASE BillGoto(c, "start") /\ UNCHANGED call
      BY <1>s, <3>2, CallAdvances, Zenon
    <3> QED
      BY <1>6, <3>1, <3>2, Zenon DEF Decide
  <2> QED
    BY <2>1, <2>2, <1>6, Zenon DEF Decide
<1>7. ASSUME NEW c \in BillClients, ReadGrace(c) \/ ReadGraceFails(c) PROVE BillTyped'
  BY <1>6, <1>7, Zenon DEF ReadGrace, ReadGraceFails
<1>8. ASSUME NEW c \in BillClients, StartGrace(c) PROVE BillTyped'
  <2>1. last' \in [BillKeys -> Int] /\ stored' \in [BillKeys -> Int]
    BY <1>8, BillFields DEF StartGrace, Allowed
  <2>2. calm' \in [BillKeys -> BOOLEAN]
    BY <1>8, BillFields, Zenon DEF StartGrace
  <2>3. apikey' \in [BillKeys -> KeyHash]
    <3>1. call[c].key \in BillKeys /\ call[c].now \in Int
      BY BillFields, SMTT(20)
    <3>2. \/ apikey' = [apikey EXCEPT ![call[c].key].grace_start = call[c].now]
          \/ UNCHANGED apikey
      BY <1>8, Zenon DEF StartGrace
    <3> QED
      BY <3>1, <3>2, StartWritten, Zenon
  <2> QED
    BY <2>1, <2>2, <2>3, <1>8, CallEnds, Zenon DEF StartGrace
<1>9. ASSUME Deduplicate \/ EventKeyExists \/ CountEvent PROVE BillTyped'
  <2>1. bridge' \in BillEvent
    <3>1. bridge' \in {NoEvent, [bridge EXCEPT !.step = "exists"],
                        [bridge EXCEPT !.step = "count"]}
      BY <1>9, Zenon DEF Deduplicate, EventKeyExists, CountEvent,
         BridgeTo
    <3> QED
      BY <3>1, NoCallTyped, Zenon DEF BillEvent
  <2>2. apikey' \in [BillKeys -> KeyHash]
    BY <1>9, BillFields, HashTyped DEF Deduplicate, EventKeyExists,
       CountEvent
  <2> QED
    BY <1>9, <2>1, <2>2, Zenon DEF Deduplicate, EventKeyExists, CountEvent,
       history
<1>10. ASSUME BillTimePasses \/ UNCHANGED bill_vars PROVE BillTyped'
  BY <1>10 DEF BillTimePasses, bill_vars, history
<1> QED
  BY <1>1, <1>2, <1>3, <1>4, <1>5, <1>7, <1>8, <1>9, <1>10, <1>12, Zenon
     DEF BillNext, handle_telemetry_event

LEMMA UsageStep ==
  UsageInv /\ [BillNext]_bill_vars => UsageInv'
<1> SUFFICES ASSUME UsageInv, [BillNext]_bill_vars PROVE UsageInv'
  OBVIOUS
<1>0. BillTyped /\ BillTyped'
  BY TypedStep, ZenonT(30) DEF UsageInv
<1>1. ASSUME NEW k \in BillKeys, generate_developer_key(k) PROVE UsageInv'
  BY <1>0, <1>1, BillingAssumption DEF generate_developer_key, UsageInv, BillTyped,
     KnownKeysHaveHashes,
     FreeCallsHaveUsages, GraceCallsAreLate, GraceFollowsTheFreeTier, NewHash,
     NoHash, NoStart, history
<1>2. ASSUME NEW k \in BillKeys, ReceiveEvent(k) PROVE UsageInv'
  BY <1>0, <1>2, HashesStay, Zenon DEF ReceiveEvent, history
<1>3. ASSUME NEW c \in BillClients, NEW k \in BillKeys, track_signature(c, k) PROVE UsageInv'
  BY <1>0, <1>3, HashesStay, Zenon
     DEF track_signature, BillGoto, BillTyped, UsageInv, KnownKeysHaveHashes,
        history
<1>4. ASSUME NEW c \in BillClients, Authenticate(c) PROVE UsageInv'
  <2>1. /\ call[c].key \in BillKeys /\ apikey[call[c].key].usage >= 0
        /\ UNCHANGED <<apikey, free, bridge>>
    BY <1>0, <1>4, BillFields, Zenon DEF Authenticate, UsageInv, KnownKeysHaveHashes,
       history
  <2>2. /\ \A d \in BillClients \ {c} : bill_pc'[d] = bill_pc[d] /\ call'[d] = call[d]
        /\ bill_pc'[c] = "usage" /\ call'[c].key = call[c].key
    BY <1>0, <1>4, ZenonT(30) DEF Authenticate, BillGoto, BillTyped, BillCall
  <2> QED
    BY <1>0, <2>1, <2>2, HashesStay, Zenon DEF UsageInv, KnownKeysHaveHashes
<1>5. ASSUME NEW c \in BillClients, Unauthorized(c) \/ BillAbandon(c) PROVE UsageInv'
  BY <1>0, <1>5, HashesStay, CallEnds, ZenonT(30)
     DEF Unauthorized, BillAbandon, UsageInv, KnownKeysHaveHashes, history
(* The usage of a hash grows by one, and at most one call goes on.         *)
<1>6. ASSUME NEW k \in BillKeys, apikey[k].usage >= 0, UNCHANGED bridge \/ bridge'.step = "recv",
             UNCHANGED apikey \/ apikey' = [apikey EXCEPT ![k].usage = @ + 1],
             \A d \in BillClients :
               \/ bill_pc'[d] = bill_pc[d] /\ call'[d] = call[d]
               \/ bill_pc'[d] = "idle"
               \/ /\ bill_pc'[d] = "grace" /\ call'[d].key = k
                  /\ call'[d].new_usage > Limit /\ apikey'[k].usage > Limit
      PROVE  KnownKeysHaveHashes' /\ GraceCallsAreLate' /\ GraceFollowsTheFreeTier'
  <2>1. \A j \in BillKeys : /\ apikey'[j].usage >= apikey[j].usage
                            /\ apikey'[j].grace_start = apikey[j].grace_start
                            /\ apikey'[j] = apikey[j] \/ apikey[j].usage >= 0
    BY <1>0, <1>6, BillFields, UsageWritten
  <2>2. \A j \in BillKeys : apikey[j].usage \in Int /\ apikey'[j].usage \in Int
    BY <1>0, BillFields, <1>6, UsageWritten
  <2>3. KnownKeysHaveHashes'
    BY <1>0, <1>6, <2>1, <2>2, BillFields, BillingAssumption, SMTT(20) DEF UsageInv,
       KnownKeysHaveHashes
  <2>4. GraceCallsAreLate'
    BY <1>0, <1>6, <2>1, <2>2, BillFields, BillingAssumption, SMTT(20) DEF UsageInv,
       GraceCallsAreLate
  <2>5. GraceFollowsTheFreeTier'
    BY <2>1, <2>2, BillingAssumption DEF UsageInv, GraceFollowsTheFreeTier
  <2> QED
    BY <2>3, <2>4, <2>5
<1>7. ASSUME NEW c \in BillClients, Increment(c) PROVE UsageInv'
  <2> DEFINE k == call[c].key
             n == apikey[k].usage + 1
  <2>1. k \in BillKeys /\ apikey[k].usage \in Int /\ apikey[k].usage >= 0
    BY <1>0, <1>7, BillFields DEF Increment, UsageInv, KnownKeysHaveHashes
  <2>2. apikey' = [apikey EXCEPT ![k].usage = @ + 1] /\ Counted(c, n)
    BY <1>7, Zenon DEF Increment
  <2>3. apikey'[k].usage = n /\ \A j \in BillKeys \ {k} : apikey'[j] = apikey[j]
    <3>1. BillTyped
      BY <1>0, Zenon DEF UsageInv
    <3> QED
      BY <2>1, <2>2, <3>1, UsageWritten, Zenon
  <2>4. /\ \A j \in BillKeys \ {k} : free'[j] = free[j]
        /\ \/ free'[k] = free[k]
           \/ free'[k] = free[k] + 1 /\ n <= Limit
    BY <1>0, <1>7 DEF Increment, CountFree, WithinLimit, BillTyped
  <2>5. KnownKeysHaveHashes' /\ GraceCallsAreLate' /\ GraceFollowsTheFreeTier'
    <3>1. n \in Int
      BY <2>1
    <3>2. BillTyped
      BY <1>0, Zenon
    <3>3. /\ \/ bill_pc'[c] = "idle"
             \/ /\ bill_pc'[c] = "grace" /\ call'[c].key = k
                /\ call'[c].new_usage > Limit /\ apikey'[k].usage > Limit
          /\ \A d \in BillClients \ {c} : bill_pc'[d] = bill_pc[d] /\ call'[d] = call[d]
          /\ UNCHANGED bridge
      BY <2>2, <2>3, <3>1, <3>2, CallCounted, Zenon
    <3> HIDE DEF k, n
    <3> QED
      BY <1>6, <2>1, <2>2, <3>3, Zenon
  <2>6. FreeCallsHaveUsages'
    <3>1. \A j \in BillKeys : free[j] \in Nat /\ free'[j] \in Nat
      BY <1>0, Zenon DEF BillTyped
    <3> QED
      BY <2>1, <2>3, <2>4, <3>1, BillingAssumption DEF UsageInv, FreeCallsHaveUsages
  <2> QED
    BY <1>0, <2>5, <2>6, SMTT(20) DEF UsageInv
(* Usage grows where no free call is counted.                              *)
<1>13. ASSUME NEW k \in BillKeys, UNCHANGED free,
              UNCHANGED apikey \/ apikey' = [apikey EXCEPT ![k].usage = @ + 1]
       PROVE  FreeCallsHaveUsages'
  <2>1. \A j \in BillKeys : /\ free[j] \in Nat /\ apikey[j].usage \in Int
                            /\ apikey'[j].usage \in {apikey[j].usage, apikey[j].usage + 1}
    BY <1>0, <1>13, BillFields, UsageWritten, Zenon DEF BillTyped
  <2> QED
    BY <1>13, <2>1, BillingAssumption DEF UsageInv, FreeCallsHaveUsages
<1>14. ASSUME NEW c \in BillClients, IncrementFails(c) PROVE UsageInv'
  <2> DEFINE k == call[c].key
  <2>1. k \in BillKeys /\ apikey[k].usage >= 0
    BY <1>0, <1>14, BillFields, Zenon DEF IncrementFails, UsageInv, KnownKeysHaveHashes
  <2>2. /\ UNCHANGED free /\ Counted(c, 0)
        /\ UNCHANGED apikey \/ apikey' = [apikey EXCEPT ![k].usage = @ + 1]
    BY <1>14, Zenon DEF IncrementFails
  <2>3. /\ bill_pc'[c] = "idle" /\ UNCHANGED bridge
        /\ \A d \in BillClients \ {c} : bill_pc'[d] = bill_pc[d] /\ call'[d] = call[d]
    BY <1>0, <2>2, CallCounted, BillingAssumption
  <2> QED
    BY <1>0, <1>6, <1>13, <2>1, <2>2, <2>3, Zenon DEF UsageInv
<1>8. ASSUME NEW c \in BillClients, ReadGrace(c) \/ ReadGraceFails(c) PROVE UsageInv'
  <2>1. PICK start : Decide(c, start)
    BY <1>8, Zenon DEF ReadGrace, ReadGraceFails
  <2>2. /\ UNCHANGED <<apikey, free, bridge>>
        /\ \A d \in BillClients \ {c} : bill_pc'[d] = bill_pc[d] /\ call'[d] = call[d]
        /\ \/ bill_pc'[c] = "idle"
           \/ bill_pc[c] = "grace" /\ bill_pc'[c] = "start" /\ call'[c] = call[c]
    BY <1>0, <2>1, Zenon DEF Decide, Done, BillGoto, BillTyped
  <2> QED
    BY <1>0, <2>2, HashesStay, Zenon DEF UsageInv, KnownKeysHaveHashes
<1>9. ASSUME NEW c \in BillClients, StartGrace(c) PROVE UsageInv'
  <2> DEFINE k == call[c].key
  <2>1. /\ k \in BillKeys /\ apikey[k].usage > Limit /\ call[c].now \in Int
        /\ UNCHANGED apikey \/ apikey' = [apikey EXCEPT ![k].grace_start = call[c].now]
        /\ UNCHANGED <<free, bridge>>
    BY <1>0, <1>9, BillFields DEF StartGrace, UsageInv, GraceCallsAreLate
  <2>2. /\ \A d \in BillClients \ {c} : bill_pc'[d] = bill_pc[d] /\ call'[d] = call[d]
        /\ bill_pc'[c] = "idle"
    BY <1>0, <1>9, CallEnds, Zenon DEF StartGrace
  <2>3. \A j \in BillKeys : /\ apikey'[j].usage = apikey[j].usage
                            /\ apikey[j].usage \in Int
                            /\ j # k => apikey'[j] = apikey[j]
    BY <1>0, <2>1, BillFields, StartWritten, Zenon
  <2>4. KnownKeysHaveHashes'
    BY <1>0, <2>1, <2>2, <2>3, BillFields, BillingAssumption, SMTT(20) DEF UsageInv,
       KnownKeysHaveHashes
  <2>5. FreeCallsHaveUsages' /\ GraceCallsAreLate' /\ GraceFollowsTheFreeTier'
    BY <1>0, <2>1, <2>2, <2>3, BillFields
       DEF UsageInv, FreeCallsHaveUsages, GraceCallsAreLate, GraceFollowsTheFreeTier
  <2> QED
    BY <1>0, <2>4, <2>5, Zenon DEF UsageInv
<1>10. ASSUME Deduplicate \/ EventKeyExists PROVE UsageInv'
  <2>1. UNCHANGED <<apikey, free, bill_pc, call>>
    BY <1>10, Zenon DEF Deduplicate, EventKeyExists, history
  <2>2. bridge'.step = "count" => bridge'.key = bridge.key /\ apikey[bridge.key] # NoHash
    BY <1>0, <1>10, NoCallTyped DEF Deduplicate, EventKeyExists, BridgeTo,
       BillTyped, BillEvent
  <2> QED
    BY <1>0, <2>1, <2>2, HashesStay, BillFields, Zenon DEF UsageInv, KnownKeysHaveHashes
<1>11. ASSUME CountEvent PROVE UsageInv'
  <2>1. /\ bridge.key \in BillKeys /\ apikey[bridge.key].usage >= 0
        /\ UNCHANGED apikey \/ apikey' = [apikey EXCEPT ![bridge.key].usage = @ + 1]
        /\ bridge'.step = "recv" /\ UNCHANGED <<bill_pc, call, free>>
    BY <1>0, <1>11, NoCallTyped, BillFields, SMTT(20) DEF CountEvent, UsageInv,
       KnownKeysHaveHashes, history
  <2> QED
    BY <1>0, <1>6, <1>13, <2>1 DEF UsageInv
<1>12. ASSUME BillTimePasses \/ UNCHANGED bill_vars PROVE UsageInv'
  BY <1>0, <1>12, HashesStay
     DEF BillTimePasses, bill_vars, history, UsageInv, KnownKeysHaveHashes
<1> QED
  BY <1>1, <1>2, <1>3, <1>4, <1>5, <1>7, <1>8, <1>9, <1>10, <1>11, <1>12, Zenon,
     <1>14
     DEF BillNext, handle_telemetry_event

(* No key is answered within the limit more often than the free tier has   *)
(* calls, whatever calls of it interleave and whatever the Nostr collector *)
(* counts meanwhile.                                                       *)
THEOREM FreeTierIsHandedOutOnce ==
  BillSpec => []FreeCallsAreBounded
<1>1. UsageInv => FreeCallsAreBounded
  BY DEF UsageInv, FreeCallsHaveUsages, FreeCallsAreBounded
<1> QED
  BY UsageInit, UsageStep, <1>1, PTL DEF BillSpec

(* The start of a grace period is stored only for a key whose usage is     *)
(* beyond the limit, whichever commands fail.                              *)
THEOREM GraceComesAfterwards ==
  BillSpec => []GraceFollowsTheFreeTier
<1>1. UsageInv => GraceFollowsTheFreeTier
  BY Zenon DEF UsageInv
<1> QED
  BY UsageInit, UsageStep, <1>1, PTL DEF BillSpec

-----------------------------------------------------------------------------
(* A start is in the hash when one was stored, which was not in the future. *)
StartsAreStored ==
  \A k \in BillKeys : /\ stored[k] = NoStart <=> apikey[k].grace_start = NoStart
                      /\ stored[k] <= bill_clock

(* A calm key's start is no later than the first that was stored: a call   *)
(* that overwrites it read its clock before.                               *)
CalmStarts ==
  /\ \A k \in BillKeys : calm[k] /\ stored[k] # NoStart => apikey[k].grace_start <= stored[k]
  /\ \A c \in BillClients : bill_pc[c] \in {"grace", "start"} => call[c].now <= bill_clock
  /\ \A c \in BillClients : bill_pc[c] = "start" /\ calm[call[c].key] =>
       stored[call[c].key] = NoStart \/ call[c].now <= stored[call[c].key]

GraceInv == BillTyped /\ StartsAreStored /\ CalmStarts /\ GraceIsOnePeriod

LEMMA GraceInit ==
  BillInit => GraceInv
<1> SUFFICES ASSUME BillInit PROVE GraceInv
  BY Zenon
<1>1. BillTyped
  BY UsageInit, Zenon DEF UsageInv
<1> QED
  BY <1>1 DEF BillInit, GraceInv, StartsAreStored, CalmStarts, GraceIsOnePeriod,
     NoHash, NoStart

(* A step that stores no start, allows no call too late and moves calls on *)
(* as they should.                                                         *)
LEMMA GraceGoesOn ==
  ASSUME GraceInv, BillTyped', UNCHANGED stored, bill_clock' >= bill_clock,
         \A k \in BillKeys : /\ apikey'[k].grace_start = apikey[k].grace_start
                             /\ calm'[k] => calm[k]
                             /\ \/ last'[k] = last[k]
                                \/ stored[k] # NoStart /\ last'[k] < apikey[k].grace_start + Grace,
         \A c \in BillClients :
           \/ bill_pc'[c] \notin {"grace", "start"}
           \/ bill_pc'[c] = bill_pc[c] /\ call'[c] = call[c]
           \/ bill_pc'[c] = "grace" /\ call'[c].now <= bill_clock
           \/ /\ bill_pc[c] = "grace" /\ bill_pc'[c] = "start" /\ call'[c] = call[c]
              /\ calm'[call[c].key] => apikey[call[c].key].grace_start = NoStart
  PROVE  GraceInv'
<1>1. /\ \A k \in BillKeys : /\ apikey[k].grace_start \in Int /\ stored[k] \in Int
                             /\ last[k] \in Int /\ last'[k] \in Int
      /\ \A c \in BillClients : /\ call[c].key \in BillKeys /\ call[c].now \in Nat
                                /\ call'[c].key \in BillKeys /\ call'[c].now \in Nat
      /\ bill_clock \in Nat /\ bill_clock' \in Nat
  BY BillFields, SMTT(20) DEF GraceInv, BillTyped, BillCall
<1>2. StartsAreStored'
  BY <1>1, SMTT(20) DEF GraceInv, StartsAreStored
<1>3. CalmStarts'
  BY <1>1, SMTT(20) DEF GraceInv, CalmStarts, StartsAreStored
<1>4. GraceIsOnePeriod'
  BY <1>1, BillingAssumption DEF GraceInv, CalmStarts, GraceIsOnePeriod
<1> QED
  BY <1>2, <1>3, <1>4, SMTT(20) DEF GraceInv

LEMMA GraceStep ==
  GraceInv /\ [BillNext]_bill_vars => GraceInv'
<1> SUFFICES ASSUME GraceInv, [BillNext]_bill_vars PROVE GraceInv'
  OBVIOUS
<1>0. BillTyped /\ BillTyped'
  BY TypedStep, Zenon DEF GraceInv
<1>t. bill_clock \in Nat
  BY <1>0, Zenon DEF BillTyped
(* Steps that leave starts, clock and allowed calls alone.                 *)
<1>1. ASSUME UNCHANGED <<stored, last, calm>>, bill_clock' >= bill_clock,
             \A k \in BillKeys : apikey'[k].grace_start = apikey[k].grace_start,
             \A c \in BillClients : \/ bill_pc'[c] \notin {"grace", "start"}
                                    \/ bill_pc'[c] = bill_pc[c] /\ call'[c] = call[c]
                                    \/ bill_pc'[c] = "grace" /\ call'[c].now <= bill_clock
      PROVE  GraceInv'
  BY <1>0, <1>1, GraceGoesOn, ZenonT(30)
<1>2. ASSUME NEW k \in BillKeys, generate_developer_key(k) PROVE GraceInv'
  <2>1. /\ UNCHANGED <<stored, last, calm, bill_clock, bill_pc, call>>
        /\ apikey[k] = NoHash /\ apikey' = [apikey EXCEPT ![k] = NewHash]
    BY <1>2, Zenon DEF generate_developer_key, history
  <2>2. NewHash.grace_start = NoHash.grace_start
    BY DEF NewHash, NoHash, NoStart
  <2>3. DOMAIN apikey = BillKeys
    BY <1>0, Zenon DEF BillTyped
  <2>4. \A j \in BillKeys : apikey'[j] = IF j = k THEN NewHash ELSE apikey[j]
    BY <2>1, <2>3, Zenon
  <2>5. \A j \in BillKeys : apikey'[j].grace_start = apikey[j].grace_start
    BY <2>1, <2>2, <2>4, Zenon
  <2>6. bill_clock' >= bill_clock
    BY <1>t, <2>1
  <2> QED
    BY <1>1, <2>1, <2>5, <2>6, Zenon
<1>3. ASSUME NEW c \in BillClients, Unauthorized(c) \/ BillAbandon(c) \/ Authenticate(c)
                                \/ \E k \in BillKeys : track_signature(c, k)
      PROVE  GraceInv'
  <2>1. /\ UNCHANGED <<stored, last, calm, bill_clock, apikey>>
        /\ bill_pc'[c] \notin {"grace", "start"}
        /\ \A d \in BillClients \ {c} : bill_pc'[d] = bill_pc[d] /\ call'[d] = call[d]
    BY <1>0, <1>3, Zenon
       DEF Unauthorized, BillAbandon, Authenticate, track_signature,
          history, Done, BillGoto, BillTyped
  <2>2. bill_clock' >= bill_clock
    BY <1>t, <2>1
  <2> QED
    BY <1>1, <2>1, <2>2, Zenon
<1>4. ASSUME NEW c \in BillClients, Increment(c) \/ IncrementFails(c) PROVE GraceInv'
  <2> DEFINE k == call[c].key
  <2>1. k \in BillKeys /\ apikey[k].usage \in Int
    BY <1>0, BillFields, Zenon
  <2>2. PICK n \in Int : Counted(c, n)
    BY <1>4, <2>1 DEF Increment, IncrementFails
  <2>3. UNCHANGED apikey \/ apikey' = [apikey EXCEPT ![k].usage = @ + 1]
    BY <1>4, Zenon DEF Increment, IncrementFails
  <2>4. \A j \in BillKeys : apikey'[j].grace_start = apikey[j].grace_start
    BY <1>0, <2>1, <2>3, UsageWritten, Zenon
  <2>5. /\ bill_pc'[c] = "idle" \/ (bill_pc'[c] = "grace" /\ call'[c].now = bill_clock)
        /\ \A d \in BillClients \ {c} : bill_pc'[d] = bill_pc[d] /\ call'[d] = call[d]
        /\ UNCHANGED <<bill_clock, stored, last, calm>>
    BY <1>0, <2>2, CallCounted, ZenonT(30)
  <2>6. bill_clock' >= bill_clock /\ bill_clock <= bill_clock
    BY <1>t, <2>5
  <2> QED
    BY <1>1, <2>4, <2>5, <2>6, Zenon
<1>5. ASSUME NEW c \in BillClients, ReadGrace(c) \/ ReadGraceFails(c) PROVE GraceInv'
  <2> DEFINE k == call[c].key
  <2>1. PICK start \in Int : /\ Decide(c, start)
                             /\ calm'[k] => start = apikey[k].grace_start
                             /\ start \in {NoStart, apikey[k].grace_start}
                             /\ \A j \in BillKeys : calm'[j] => calm[j]
    <3>1. k \in BillKeys /\ apikey[k].grace_start \in Int /\ NoStart \in Int
      BY <1>0, BillFields DEF NoStart
    <3>2. CASE ReadGrace(c)
      BY <3>1, <3>2, Zenon DEF ReadGrace
    <3>3. CASE ReadGraceFails(c)
      <4>1. calm' = [calm EXCEPT ![k] = FALSE] /\ calm \in [BillKeys -> BOOLEAN]
        BY <1>0, <3>3, Zenon DEF ReadGraceFails, BillTyped
      <4>2. ~calm'[k] /\ \A j \in BillKeys : calm'[j] => calm[j]
        BY <3>1, <4>1, Zenon
      <4> QED
        BY <3>1, <3>3, <4>2, Zenon DEF ReadGraceFails
    <3> QED
      BY <1>5, <3>2, <3>3, Zenon
  <2>2. /\ UNCHANGED <<bill_clock, apikey, stored>>
        /\ \A d \in BillClients \ {c} : bill_pc'[d] = bill_pc[d] /\ call'[d] = call[d]
        /\ \/ bill_pc'[c] = "idle"
           \/ /\ bill_pc[c] = "grace" /\ bill_pc'[c] = "start" /\ call'[c] = call[c]
              /\ start = NoStart
    BY <1>0, <2>1, Zenon DEF Decide, Done, BillGoto, BillTyped
  <2>3. \A j \in BillKeys : \/ last'[j] = last[j]
                            \/ /\ j = k /\ start # NoStart /\ start = apikey[k].grace_start
                               /\ last'[j] = call[c].now
                               /\ call[c].now - start < Grace
    BY <1>0, <2>1, SMTT(20)
       DEF Decide, Allowed, BillTyped, evaluate_quota_decision,
          determine_grace_status
  <2>4. \A j \in BillKeys : \/ last'[j] = last[j]
                            \/ stored[j] # NoStart /\ last'[j] < apikey[j].grace_start + Grace
    <3> SUFFICES ASSUME NEW j \in BillKeys, last'[j] # last[j]
                 PROVE  stored[j] # NoStart /\ last'[j] < apikey[j].grace_start + Grace
      BY Zenon
    <3>1. /\ j = k /\ start # NoStart /\ start = apikey[k].grace_start
          /\ last'[j] = call[c].now /\ call[c].now - start < Grace
      BY <2>3, Zenon
    <3>2. stored[j] # NoStart
      BY <3>1, Zenon DEF GraceInv, StartsAreStored
    <3>3. start \in Int /\ call[c].now \in Int /\ Grace \in Int
      <4>1. call[c].now \in Nat
        BY <1>0, BillFields, Zenon
      <4>2. Grace \in Nat
        BY BillingAssumption, Zenon
      <4> QED
        BY <2>1, <4>1, <4>2
    <3>4. call[c].now < start + Grace
      BY <3>1, <3>3
    <3> QED
      BY <3>1, <3>2, <3>4, Zenon
  <2>5. bill_clock' >= bill_clock
    BY <1>t, <2>2
  <2>6. \A j \in BillKeys : apikey'[j].grace_start = apikey[j].grace_start
    BY <2>2, Zenon
  <2> QED
    BY <1>0, <2>1, <2>2, <2>4, <2>5, <2>6, GraceGoesOn, Zenon
<1>6. ASSUME NEW c \in BillClients, StartGrace(c) PROVE GraceInv'
  <2> DEFINE k == call[c].key
             now == call[c].now
  <2>1. /\ k \in BillKeys /\ now \in Nat /\ now <= bill_clock
        /\ calm[k] => stored[k] = NoStart \/ now <= stored[k]
    BY <1>0, <1>6, BillFields, Zenon DEF StartGrace, GraceInv, CalmStarts
  <2>2. /\ bill_pc'[c] = "idle" /\ UNCHANGED bill_clock
        /\ \A d \in BillClients \ {c} : bill_pc'[d] = bill_pc[d] /\ call'[d] = call[d]
    BY <1>0, <1>6, CallEnds, Zenon DEF StartGrace
  <2>3. /\ \A j \in BillKeys \ {k} : last'[j] = last[j]
        /\ last'[k] = IF now > last[k] THEN now ELSE last[k]
    BY <1>0, <1>6, <2>1, Zenon DEF StartGrace, Allowed, BillTyped
  <2>4. CASE UNCHANGED <<apikey, stored>> /\ calm' = [calm EXCEPT ![k] = FALSE]
    <3>1. ~calm'[k] /\ \A j \in BillKeys \ {k} : calm'[j] = calm[j]
      <4>1. calm \in [BillKeys -> BOOLEAN]
        BY <1>0, Zenon DEF BillTyped
      <4> QED
        BY <2>1, <2>4, <4>1, Zenon
    <3>2. StartsAreStored'
      BY <2>2, <2>4, Zenon DEF GraceInv, StartsAreStored
    <3>3. CalmStarts'
      BY <1>0, <2>2, <2>4, <3>1, BillFields, ZenonT(30) DEF GraceInv, CalmStarts
    <3>4. GraceIsOnePeriod'
      BY <2>3, <2>4, <3>1 DEF GraceInv, GraceIsOnePeriod
    <3> QED
      BY <1>0, <3>2, <3>3, <3>4, Zenon DEF GraceInv
  <2>5. CASE /\ apikey' = [apikey EXCEPT ![k].grace_start = now]
             /\ stored' = [stored EXCEPT ![k] = IF @ = NoStart THEN bill_clock ELSE @]
             /\ UNCHANGED calm
    <3>1. /\ apikey'[k].grace_start = now
          /\ \A j \in BillKeys : j # k => apikey'[j] = apikey[j]
      <4>1. BillTyped /\ now \in Int
        BY <1>0, <2>1
      <4>2. apikey' = [apikey EXCEPT ![k].grace_start = now]
        BY <2>5, Zenon
      <4> HIDE DEF k, now
      <4> QED
        BY <2>1, <4>1, <4>2, StartWritten, Zenon
    <3>2. /\ stored'[k] = IF stored[k] = NoStart THEN bill_clock ELSE stored[k]
          /\ \A j \in BillKeys \ {k} : stored'[j] = stored[j]
      BY <1>0, <2>1, <2>5 DEF BillTyped
    <3>3. /\ \A j \in BillKeys : /\ apikey[j].grace_start \in Int /\ stored[j] \in Int
                                 /\ last[j] \in Int
          /\ \A d \in BillClients : call[d].key \in BillKeys /\ call[d].now \in Nat
      BY <1>0, BillFields, ZenonT(30) DEF BillTyped
    <3>4. StartsAreStored'
      <4>1. \A j \in BillKeys : /\ stored[j] = NoStart <=> apikey[j].grace_start = NoStart
                               /\ stored[j] <= bill_clock
        BY Zenon DEF GraceInv, StartsAreStored
      <4>2. now # NoStart /\ bill_clock # NoStart /\ bill_clock <= bill_clock
        BY <1>t, <2>1 DEF NoStart
      <4>3. bill_clock' = bill_clock
        BY <2>2, Zenon
      <4> HIDE DEF k, now
      <4> QED
        BY <2>1, <3>1, <3>2, <4>1, <4>2, <4>3, ZenonT(30) DEF StartsAreStored
    <3>5. CalmStarts'
      <4>1. \A j \in BillKeys : calm[j] /\ stored'[j] # NoStart =>
                             apikey'[j].grace_start <= stored'[j]
        BY <1>t, <2>1, <3>1, <3>2, <3>3, Zenon DEF GraceInv, CalmStarts
      <4>2. \A d \in BillClients \ {c} : bill_pc[d] \in {"grace", "start"} => call[d].now <= bill_clock
        BY Zenon DEF GraceInv, CalmStarts
      <4>3. \A d \in BillClients \ {c} : bill_pc[d] = "start" /\ calm[call[d].key] =>
              stored'[call[d].key] = NoStart \/ call[d].now <= stored'[call[d].key]
        BY <1>t, <2>1, <3>2, <3>3, Zenon DEF GraceInv, CalmStarts
      <4> QED
        BY <2>2, <2>5, <4>1, <4>2, <4>3, Zenon DEF CalmStarts
    <3>6. GraceIsOnePeriod'
      BY <1>t, <2>1, <2>3, <2>5, <3>2, <3>3, BillingAssumption, SMTT(20) DEF GraceInv,
         GraceIsOnePeriod,
         NoStart
    <3> QED
      BY <1>0, <3>4, <3>5, <3>6 DEF GraceInv
  <2> QED
    BY <1>6, <2>4, <2>5, Zenon DEF StartGrace
<1>7. ASSUME handle_telemetry_event PROVE GraceInv'
  <2>1. /\ UNCHANGED <<stored, last, calm, bill_clock, bill_pc, call>>
        /\ bridge.key \in BillKeys
        /\ UNCHANGED apikey \/ apikey' = [apikey EXCEPT ![bridge.key].usage = @ + 1]
    BY <1>0, <1>7, BillFields, Zenon
       DEF handle_telemetry_event, ReceiveEvent, Deduplicate,
          EventKeyExists, CountEvent, history
  <2> QED
    BY <1>0, <1>1, <1>t, <2>1, UsageWritten
<1>8. ASSUME BillTimePasses \/ UNCHANGED bill_vars PROVE GraceInv'
  <2>1. /\ UNCHANGED <<stored, last, calm, apikey, bill_pc, call>>
        /\ bill_clock' >= bill_clock
    BY <1>8, <1>t DEF BillTimePasses, bill_vars, history
  <2> QED
    BY <1>1, <2>1, Zenon
<1> QED
  BY <1>2, <1>3, <1>4, <1>5, <1>6, <1>7, <1>8, Zenon DEF BillNext

(* While no command on its start fails, a key is allowed no call beyond    *)
(* the limit a grace period or more after a start was first stored, even   *)
(* though calls that race find no start and overwrite each other's.        *)
THEOREM GraceIsNotProlonged ==
  BillSpec => []GraceIsOnePeriod
<1>1. GraceInv => GraceIsOnePeriod
  BY Zenon DEF GraceInv
<1> QED
  BY GraceInit, GraceStep, <1>1, PTL DEF BillSpec
=============================================================================
