---------------------------- MODULE GrpcMetrics ----------------------------
(***************************************************************************)
(* GetMetrics and GetStatus of src/api/grpc.rs: the counts cache with its  *)
(* double-checked refresh lock, and read_safety_flags with its cached      *)
(* Redis connection and one retry.  Every await is a step.                 *)
(*                                                                         *)
(* The age of the cached counts is kept in place of the Instant and stops  *)
(* at Ttl, where the entry has expired.                                    *)
(***************************************************************************)
EXTENDS Integers

CONSTANTS GrpcClients,
          Nobody,        \* holder of the free refresh_lock
          Ttl,           \* METRICS_COUNTS_CACHE_TTL: 10 s
          Drift,         \* nexus:drift while safety mode is on
          MaxCount       \* bound: rows counted

ASSUME GrpcAssumption ==
  /\ Nobody \notin GrpcClients /\ Ttl \in Nat \ {0} /\ MaxCount \in Nat
  /\ Drift \in Nat \ {0}

VARIABLES count,         \* what the COUNT(*) query would give
          grpc_mode,     \* nexus:safety_mode; nexus:drift is Drift with it
          cached, age,   \* metrics_counts_cache: counts (-1: none) and age
          refresh_lock,  \* its holder
          redis_conn,    \* is a connection cached
          grpc_pc, local,   \* client -> step; counts and mode read so far
          grpc_answer,   \* client -> what its last call answered
          off            \* history: client -> safety mode was off in its call

grpc_vars == <<count, grpc_mode, cached, age, refresh_lock, redis_conn, grpc_pc,
               local, grpc_answer, off>>
grpc_world == <<count, grpc_mode, off>>
cache == <<cached, age>>

NoCounts == -1
GrpcNoAnswer == [result |-> "none"]
Nothing == [counts |-> NoCounts, mode |-> TRUE]

GrpcInit ==
  /\ count = 0 /\ grpc_mode = FALSE
  /\ cached = NoCounts /\ age = 0
  /\ refresh_lock = Nobody /\ redis_conn = FALSE
  /\ grpc_pc = [c \in GrpcClients |-> "idle"]
  /\ local = [c \in GrpcClients |-> Nothing]
  /\ grpc_answer = [c \in GrpcClients |-> GrpcNoAnswer]
  /\ off = [c \in GrpcClients |-> FALSE]

Fresh == cached # NoCounts /\ age < Ttl

GrpcGoto(c, step) == grpc_pc' = [grpc_pc EXCEPT ![c] = step]
Keep(c, field, value) == local' = [local EXCEPT ![c][field] = value]
Release == refresh_lock' = Nobody

Answer(c, what) ==
  /\ grpc_answer' = [grpc_answer EXCEPT ![c] = what]
  /\ local' = [local EXCEPT ![c] = Nothing]
  /\ GrpcGoto(c, "idle")

Begin(c, step) ==
  /\ grpc_pc[c] = "idle"
  /\ GrpcGoto(c, step)
  /\ grpc_answer' = [grpc_answer EXCEPT ![c] = GrpcNoAnswer]
  /\ off' = [off EXCEPT ![c] = ~grpc_mode]
  /\ UNCHANGED <<count, grpc_mode, cache, refresh_lock, redis_conn, local>>

get_metrics(c) == Begin(c, "peek")
get_status(c) == Begin(c, "max_height")

(* The MAX(height) query of get_status.                                    *)
QueryMaxHeight(c) ==
  /\ grpc_pc[c] = "max_height"
  /\ \/ GrpcGoto(c, "connect") /\ UNCHANGED <<local, grpc_answer>>
     \/ Answer(c, [result |-> "error"])
  /\ UNCHANGED <<grpc_world, cache, refresh_lock, redis_conn>>

(* The client goes away: the call is dropped where it waits, its guard     *)
(* with it.                                                                *)
Cancel(c) ==
  /\ grpc_pc[c] # "idle"
  /\ Answer(c, GrpcNoAnswer)
  /\ refresh_lock' = IF refresh_lock = c THEN Nobody ELSE refresh_lock
  /\ UNCHANGED <<grpc_world, cache, redis_conn>>

-----------------------------------------------------------------------------
(* read_cached_metrics_counts.                                             *)

(* read_fresh_cached_metrics_counts, without and then with refresh_lock.   *)
Peek(c) ==
  /\ grpc_pc[c] = "peek"
  /\ IF Fresh THEN Keep(c, "counts", cached) /\ GrpcGoto(c, "connect")
              ELSE GrpcGoto(c, "lock") /\ UNCHANGED local
  /\ UNCHANGED <<grpc_world, cache, refresh_lock, redis_conn, grpc_answer>>

LockRefresh(c) ==
  /\ grpc_pc[c] = "lock" /\ refresh_lock = Nobody
  /\ refresh_lock' = c
  /\ GrpcGoto(c, "peek_again")
  /\ UNCHANGED <<grpc_world, cache, redis_conn, local, grpc_answer>>

(* Mutant: no second look.                                                 *)
PeekAgain_skipped(c) ==
  /\ grpc_pc[c] = "peek_again"
  /\ GrpcGoto(c, "fetch")
  /\ UNCHANGED <<grpc_world, cache, refresh_lock, redis_conn, local, grpc_answer>>

PeekAgain(c) ==
  /\ grpc_pc[c] = "peek_again"
  /\ IF Fresh
     THEN Keep(c, "counts", cached) /\ GrpcGoto(c, "connect") /\ Release
     ELSE GrpcGoto(c, "fetch") /\ UNCHANGED <<local, refresh_lock>>
  /\ UNCHANGED <<grpc_world, cache, redis_conn, grpc_answer>>

fetch_metrics_counts(c) ==
  /\ grpc_pc[c] = "fetch"
  /\ Keep(c, "counts", count)
  /\ GrpcGoto(c, "store")
  /\ UNCHANGED <<grpc_world, cache, refresh_lock, redis_conn, grpc_answer>>

FetchFails(c) ==
  /\ grpc_pc[c] = "fetch"
  /\ Release
  /\ Answer(c, [result |-> "error"])
  /\ UNCHANGED <<grpc_world, cache, redis_conn>>

Store(c) ==
  /\ grpc_pc[c] = "store"
  /\ cached' = local[c].counts /\ age' = 0
  /\ Release
  /\ GrpcGoto(c, "connect")
  /\ UNCHANGED <<grpc_world, redis_conn, local, grpc_answer>>

-----------------------------------------------------------------------------
(* read_safety_flags.  default_flags is (true, 0).                         *)

(* Mutant: no answer from Redis reads as healthy.                          *)
Default_open(c) ==
  Answer(c, [result |-> "ok", counts |-> local[c].counts, mode |-> FALSE,
             drift |-> 0])

Default(c) ==
  Answer(c, [result |-> "ok", counts |-> local[c].counts, mode |-> TRUE,
             drift |-> 0])

CachedConn(c) ==
  /\ grpc_pc[c] = "connect"
  /\ GrpcGoto(c, IF redis_conn THEN "get_mode" ELSE "open")
  /\ UNCHANGED <<grpc_world, cache, refresh_lock, redis_conn, local, grpc_answer>>

Open(c) ==
  /\ grpc_pc[c] = "open"
  /\ \/ /\ redis_conn' = TRUE /\ GrpcGoto(c, "get_mode")
        /\ UNCHANGED <<local, grpc_answer>>
     \/ Default(c) /\ UNCHANGED redis_conn
  /\ UNCHANGED <<grpc_world, cache, refresh_lock>>

(* The two GETs of a pipeline that is not atomic; step + "_retry" is the   *)
(* same after the reconnect.                                               *)
GetMode(c) ==
  /\ grpc_pc[c] \in {"get_mode", "get_mode_retry"}
  /\ Keep(c, "mode", grpc_mode)
  /\ GrpcGoto(c, IF grpc_pc[c] = "get_mode" THEN "get_drift" ELSE "get_drift_retry")
  /\ UNCHANGED <<grpc_world, cache, refresh_lock, redis_conn, grpc_answer>>

GetDrift(c) ==
  /\ grpc_pc[c] \in {"get_drift", "get_drift_retry"}
  /\ redis_conn' = (redis_conn \/ grpc_pc[c] = "get_drift_retry")
  /\ Answer(c, [result |-> "ok", counts |-> local[c].counts,
                mode |-> local[c].mode,
                drift |-> IF grpc_mode THEN Drift ELSE 0])
  /\ UNCHANGED <<grpc_world, cache, refresh_lock>>

PipelineFails(c) ==
  /\ grpc_pc[c] \in {"get_mode", "get_drift"}
  /\ redis_conn' = FALSE
  /\ GrpcGoto(c, "reconnect")
  /\ UNCHANGED <<grpc_world, cache, refresh_lock, local, grpc_answer>>

Reconnect(c) ==
  /\ grpc_pc[c] = "reconnect"
  /\ \/ GrpcGoto(c, "get_mode_retry") /\ UNCHANGED <<local, grpc_answer>>
     \/ Default(c)
  /\ UNCHANGED <<grpc_world, cache, refresh_lock, redis_conn>>

(* Mutant: retried for as long as it fails.                                *)
RetryFails_again(c) ==
  /\ grpc_pc[c] \in {"get_mode_retry", "get_drift_retry"}
  /\ redis_conn' = FALSE
  /\ GrpcGoto(c, "reconnect")
  /\ UNCHANGED <<grpc_world, cache, refresh_lock, local, grpc_answer>>

RetryFails(c) ==
  /\ grpc_pc[c] \in {"get_mode_retry", "get_drift_retry"}
  /\ redis_conn' = FALSE
  /\ Default(c)
  /\ UNCHANGED <<grpc_world, cache, refresh_lock>>

-----------------------------------------------------------------------------
(* Blocks arrive and are orphaned.                                         *)
RowsChange ==
  /\ count' \in (0..MaxCount) \ {count}
  /\ UNCHANGED <<grpc_mode, cache, refresh_lock, redis_conn, grpc_pc, local,
                 grpc_answer, off>>

SafetyModeChanges ==
  /\ grpc_mode' = ~grpc_mode
  /\ off' = [c \in GrpcClients |-> off[c] \/ ~grpc_mode']
  /\ UNCHANGED <<count, cache, refresh_lock, redis_conn, grpc_pc, local,
                 grpc_answer>>

GrpcTimePasses ==
  /\ cached # NoCounts /\ age < Ttl
  /\ age' = age + 1
  /\ UNCHANGED <<grpc_world, cached, refresh_lock, redis_conn, grpc_pc, local,
                 grpc_answer>>

Step(c) ==
  \/ Peek(c) \/ LockRefresh(c) \/ PeekAgain(c) \/ fetch_metrics_counts(c)
  \/ FetchFails(c) \/ Store(c) \/ QueryMaxHeight(c) \/ CachedConn(c) \/ Open(c)
  \/ GetMode(c) \/ GetDrift(c) \/ PipelineFails(c) \/ Reconnect(c) \/ RetryFails(c)

GrpcNext ==
  \/ \E c \in GrpcClients : Step(c) \/ get_metrics(c) \/ get_status(c) \/ Cancel(c)
  \/ RowsChange \/ SafetyModeChanges \/ GrpcTimePasses

GrpcSpec == GrpcInit /\ [][GrpcNext]_grpc_vars

(* A call that can go on does so, and tokio's Mutex serves its waiters in  *)
(* order.                                                                  *)
GrpcFairSpec ==
  /\ GrpcSpec
  /\ \A c \in GrpcClients : WF_grpc_vars(Step(c)) /\ SF_grpc_vars(LockRefresh(c))

-----------------------------------------------------------------------------
(* The refresh lock does what its second look is for: the database is only *)
(* asked while the cache has nothing fresh, by one call at a time, however *)
(* many calls find the entry expired together.                             *)
OneFetchPerTtl ==
  \A c \in GrpcClients : grpc_pc[c] \in {"fetch", "store"} =>
    ~Fresh /\ refresh_lock = c

(* "remaining conservative" (grpc.rs): a call answers that safety mode is  *)
(* off only if it was off at some moment of the call, whatever failed.     *)
OffMeansOff ==
  \A c \in GrpcClients :
    LET answer == grpc_answer[c]
    IN  answer # GrpcNoAnswer /\ answer.result = "ok" /\ ~answer.mode => off[c]

(* Every call is answered: the lock is given back on every path and a      *)
(* failing Redis is retried once.                                          *)
CallsReturn == \A c \in GrpcClients : (grpc_pc[c] # "idle") ~> (grpc_pc[c] = "idle")
=============================================================================
