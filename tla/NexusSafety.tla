---------------------------- MODULE NexusSafety ----------------------------
(***************************************************************************)
(* The heartbeat of src/safety/mod.rs and the drift audit of               *)
(* src/orchestrator.rs, which meet in two Redis keys: nexus:safety_mode    *)
(* and nexus:drift.  run_heartbeat alternates check_health and             *)
(* ingest_gateway_telemetry; audit_system_state reads the two keys one     *)
(* after the other.  Each await is a step; each call out may fail.         *)
(*                                                                         *)
(* Heights move underneath: the L1 tip and the processed height (the       *)
(* MAX(height) of stacks_blocks) only grow, and the gateway's failure rate *)
(* crosses the 10% line either way.                                        *)
(***************************************************************************)
EXTENDS Integers

CONSTANTS MaxDrift,         \* max_drift: 2 blocks
          CriticalDrift,    \* the orchestrator reports drifts above it: 10
          TelemetryDrift,   \* the synthetic drift of a telemetry fault: 999
          GatewayConfigured,\* gateway_url.is_some()
          MaxHeight         \* bound: heights

ASSUME DriftAssumption ==
  /\ MaxDrift \in Nat /\ CriticalDrift \in Nat /\ MaxHeight \in Nat
  /\ TelemetryDrift \in Nat /\ TelemetryDrift > MaxDrift
  /\ GatewayConfigured \in BOOLEAN

VARIABLES burn,           \* L1 height the Stacks RPC reports
          processed,      \* MAX(height) of stacks_blocks, 0 when empty
          gateway_bad,    \* > 100 verifications, > 10% of them failing
          safety_mode,    \* nexus:safety_mode (absent is FALSE)
          drift,          \* nexus:drift (absent is 0)
          hb, seen, delta,\* heartbeat: step, burn height read, drift computed
          orch,           \* orchestrator: step
          audit_drift,    \* orchestrator: nexus:drift as read
          mode_then,      \* history: safety_mode when nexus:drift was read
          alarm           \* history: burn height of the last drift alarm

world == <<burn, processed, gateway_bad>>
redis == <<safety_mode, drift>>
beat  == <<hb, seen, delta>>
audit == <<orch, audit_drift, mode_then>>
vars  == <<world, redis, beat, audit, alarm>>

calculate_drift(current, done) == IF current > done THEN current - done ELSE 0

Init ==
  /\ burn = 0 /\ processed = 0 /\ gateway_bad = FALSE
  /\ safety_mode = FALSE /\ drift = 0
  /\ hb = "idle" /\ seen = 0 /\ delta = 0
  /\ orch = "idle" /\ audit_drift = 0 /\ mode_then = FALSE
  /\ alarm = 0

-----------------------------------------------------------------------------
(* check_health.                                                           *)

Tick ==
  /\ hb = "idle"
  /\ hb' = "burn"
  /\ UNCHANGED <<world, redis, seen, delta, audit, alarm>>

get_external_burn_height ==
  /\ hb = "burn"
  /\ seen' = burn
  /\ hb' = "height"
  /\ UNCHANGED <<world, redis, delta, audit, alarm>>

(* Mutant: one block too patient.                                          *)
get_processed_height_late ==
  /\ hb = "height"
  /\ delta' = calculate_drift(seen, processed)
  /\ hb' = IF delta' > MaxDrift + 1 THEN "trigger" ELSE "clear"
  /\ UNCHANGED <<world, redis, seen, audit, alarm>>

get_processed_height ==
  /\ hb = "height"
  /\ delta' = calculate_drift(seen, processed)
  /\ hb' = IF delta' > MaxDrift THEN "trigger" ELSE "clear"
  /\ UNCHANGED <<world, redis, seen, audit, alarm>>

(* check_health returns, with its locals.                                  *)
EndCheck == hb' = "gateway" /\ seen' = 0 /\ delta' = 0

(* The two atomic pipelines, and the first one as check_health runs it.    *)
SetFlag(value) == safety_mode' = TRUE /\ drift' = value

RaiseAlarm == SetFlag(delta) /\ alarm' = seen

(* Mutant: nexus:drift is left behind.                                     *)
DeleteFlag_keeps_drift == safety_mode' = FALSE /\ UNCHANGED drift

DeleteFlag == safety_mode' = FALSE /\ drift' = 0

trigger_safety_mode ==
  /\ hb = "trigger"
  /\ RaiseAlarm
  /\ EndCheck
  /\ UNCHANGED <<world, audit>>

(* clear_safety_mode_if_needed: GET, and if set the atomic DEL of both.    *)
(* Mutant: the flag is tested the wrong way round.                         *)
ClearGet_inverted ==
  /\ hb = "clear"
  /\ IF safety_mode THEN EndCheck ELSE hb' = "delete" /\ UNCHANGED <<seen, delta>>
  /\ UNCHANGED <<world, redis, audit, alarm>>

ClearGet ==
  /\ hb = "clear"
  /\ IF safety_mode THEN hb' = "delete" /\ UNCHANGED <<seen, delta>> ELSE EndCheck
  /\ UNCHANGED <<world, redis, audit, alarm>>

ClearDel ==
  /\ hb = "delete"
  /\ DeleteFlag
  /\ EndCheck
  /\ UNCHANGED <<world, audit, alarm>>

(* ingest_gateway_telemetry.                                               *)
(* Mutant: only alerts when safety mode is on already.                     *)
ingest_gateway_telemetry_late ==
  /\ hb = "gateway"
  /\ hb' = IF GatewayConfigured /\ gateway_bad /\ safety_mode THEN "alert" ELSE "idle"
  /\ UNCHANGED <<world, redis, seen, delta, audit, alarm>>

ingest_gateway_telemetry ==
  /\ hb = "gateway"
  /\ hb' = IF GatewayConfigured /\ gateway_bad THEN "alert" ELSE "idle"
  /\ UNCHANGED <<world, redis, seen, delta, audit, alarm>>

TelemetryAlert ==
  /\ hb = "alert"
  /\ SetFlag(TelemetryDrift)
  /\ hb' = "idle"
  /\ UNCHANGED <<world, seen, delta, audit, alarm>>

(* An RPC, database or Redis error in check_health is logged and the beat  *)
(* goes on with the gateway; GET errors read as "not set" and do the same. *)
(* A pipeline whose reply is lost may have run.                            *)
(* Mutant: a check that fails lets go of the flag.                         *)
CheckFails_clears ==
  /\ hb \in {"burn", "height", "trigger", "clear", "delete"}
  /\ \/ DeleteFlag /\ UNCHANGED alarm
     \/ hb = "trigger" /\ RaiseAlarm
  /\ EndCheck
  /\ UNCHANGED <<world, audit>>

CheckFails ==
  /\ hb \in {"burn", "height", "trigger", "clear", "delete"}
  /\ \/ UNCHANGED <<redis, alarm>>
     \/ hb = "trigger" /\ RaiseAlarm
     \/ hb = "delete" /\ DeleteFlag /\ UNCHANGED alarm
  /\ EndCheck
  /\ UNCHANGED <<world, audit>>

IngestFails ==
  /\ GatewayConfigured /\ hb \in {"gateway", "alert"}
  /\ UNCHANGED redis \/ (hb = "alert" /\ SetFlag(TelemetryDrift))
  /\ hb' = "idle"
  /\ UNCHANGED <<world, seen, delta, audit, alarm>>

-----------------------------------------------------------------------------
(* audit_system_state: GET nexus:drift, GET nexus:safety_mode, report.  A  *)
(* failed GET reads 0 and FALSE.                                           *)

AuditDrift ==
  /\ orch = "idle"
  /\ audit_drift' \in {drift, 0}
  /\ mode_then' = safety_mode
  /\ orch' = "mode"
  /\ UNCHANGED <<world, redis, beat, alarm>>

EndAudit == orch' = "idle" /\ audit_drift' = 0 /\ mode_then' = FALSE

(* Mutant: any drift is reported.                                          *)
AuditMode_any_drift ==
  /\ orch = "mode"
  /\ \E mode \in {safety_mode, FALSE} :
       IF mode THEN orch' = "report" /\ UNCHANGED <<audit_drift, mode_then>>
       ELSE EndAudit
  /\ UNCHANGED <<world, redis, beat, alarm>>

AuditMode ==
  /\ orch = "mode"
  /\ \E mode \in {safety_mode, FALSE} :
       IF mode /\ audit_drift > CriticalDrift
       THEN orch' = "report" /\ UNCHANGED <<audit_drift, mode_then>>
       ELSE EndAudit
  /\ UNCHANGED <<world, redis, beat, alarm>>

(* report_health_nostr("CRITICAL_DRIFT", drift, ..); its result is dropped. *)
AuditReport ==
  /\ orch = "report"
  /\ EndAudit
  /\ UNCHANGED <<world, redis, beat, alarm>>

-----------------------------------------------------------------------------
(* The world: Stacks, the block ingester and the gateway.                  *)

BurnBlock ==
  /\ burn' \in (burn + 1)..MaxHeight
  /\ UNCHANGED <<processed, gateway_bad, redis, beat, audit, alarm>>

BlockProcessed ==
  /\ processed' \in (processed + 1)..MaxHeight
  /\ UNCHANGED <<burn, gateway_bad, redis, beat, audit, alarm>>

GatewayChanges ==
  /\ GatewayConfigured
  /\ gateway_bad' = ~gateway_bad
  /\ UNCHANGED <<burn, processed, redis, beat, audit, alarm>>

CheckStep ==
  \/ get_external_burn_height \/ get_processed_height \/ trigger_safety_mode
  \/ ClearGet \/ ClearDel

IngestStep == ingest_gateway_telemetry \/ TelemetryAlert

Heartbeat == Tick \/ CheckStep \/ IngestStep \/ CheckFails \/ IngestFails

Audit == AuditDrift \/ AuditMode \/ AuditReport

World == BurnBlock \/ BlockProcessed \/ GatewayChanges

Next == Heartbeat \/ Audit \/ World

Spec == Init /\ [][Next]_vars

(* The 10 s interval keeps ticking, and each call out returns and does not *)
(* fail for ever.                                                          *)
FairSpec ==
  /\ Spec
  /\ WF_vars(Tick)
  /\ SF_vars(get_external_burn_height) /\ SF_vars(get_processed_height)
  /\ SF_vars(trigger_safety_mode) /\ SF_vars(ClearGet) /\ SF_vars(ClearDel)
  /\ SF_vars(ingest_gateway_telemetry) /\ SF_vars(TelemetryAlert)

-----------------------------------------------------------------------------
(* Type invariant: heights, the Redis pair and the two loops' locals.      *)
TypeOK ==
  /\ burn \in 0..MaxHeight /\ processed \in 0..MaxHeight
  /\ gateway_bad \in BOOLEAN
  /\ safety_mode \in BOOLEAN /\ drift \in Nat
  /\ hb \in {"idle", "burn", "height", "trigger", "clear", "delete",
             "gateway", "alert"}
  /\ seen \in 0..MaxHeight /\ delta \in 0..MaxHeight
  /\ orch \in {"idle", "mode", "report"}
  /\ audit_drift \in Nat /\ mode_then \in BOOLEAN
  /\ alarm \in 0..MaxHeight

(* nexus:drift can be read exactly while safety mode is on, and then it is *)
(* above max_drift: readers may take the pair at face value.               *)
DriftMeansSafetyMode ==
  /\ safety_mode => drift > MaxDrift
  /\ ~safety_mode => drift = 0

(* The orchestrator reads drift and mode in two round trips; a CRITICAL    *)
(* report still carries a drift that was in force, in safety mode, when it *)
(* was read.                                                               *)
CriticalReportWasInForce ==
  orch = "report" => mode_then /\ audit_drift > CriticalDrift

(* When the heartbeat deletes the flag, the node has processed all but     *)
(* max_drift of the blocks L1 had when the beat asked, although the two    *)
(* heights are read at different times.                                    *)
ClearingMeansCaughtUp ==
  hb \in {"clear", "delete"} => processed + MaxDrift >= seen

(* "Transactions will be rejected during safety triggers" (NIP-007), seen   *)
(* over many beats: while the flag is off, so that submissions pass, every *)
(* drift alarm raised so far has been worked off, up to max_drift of the   *)
(* height it was raised at; no failed beat, lost reply or telemetry alert  *)
(* in between drops an alarm early.                                        *)
AlarmsAreWorkedOff ==
  ~safety_mode => processed + MaxDrift >= alarm

Drifting == calculate_drift(burn, processed) > MaxDrift

(* "If drift > 2 blocks, "Safety Mode" is triggered" (docs/PRD.md): a      *)
(* drift that lasts ends in safety mode, and stays there.  And "Nexus will *)
(* automatically exit Safety Mode" (OBSERVABILITY_RUNBOOK.md) once it has  *)
(* caught up for good and the gateway is well.                             *)
SafetyModeSettles ==
  /\ <>[]Drifting => <>[]safety_mode
  /\ <>[](~Drifting /\ ~gateway_bad) => <>[]~safety_mode

(* A gateway that stays above the failure threshold keeps coming back as   *)
(* safety mode, whatever check_health clears in between.                   *)
LastingFaultIsRaisedAgain ==
  <>[](GatewayConfigured /\ gateway_bad) => []<>safety_mode
=============================================================================
