------------------------------ MODULE ErpSync ------------------------------
(***************************************************************************)
(* src/api/erp.rs: attested ERP synchronisation.  A request is verified    *)
(* without an await; then its nonce is claimed in Redis, with a time to    *)
(* live that is to last as long as the attestation.                        *)
(*                                                                         *)
(* A request is a record: body stands for the ERP type, action and         *)
(* transaction ids, listed says whether the OData payload has its list of  *)
(* entries, formed whether key id, nonce and signature have the required   *)
(* form.  A signature is the pair of the key whose secret made it and what *)
(* it was made of.  Handler and Redis are taken to have one clock; it runs *)
(* in ticks, and the handler reads whole seconds of it.                    *)
(***************************************************************************)
EXTENDS Integers, FiniteSets

CONSTANTS ErpClients, Keys,
          Requests,         \* what may be sent, any number of times
          MaxClockSkew,     \* ERP_ATTESTATION_MAX_CLOCK_SKEW_SECONDS: 60
          MaxLifetime,      \* ERP_ATTESTATION_MAX_LIFETIME_SECONDS: 600
          TicksPerSecond,
          MaxClock          \* bound on the clock, in ticks

ASSUME ErpAssumption ==
  /\ MaxClockSkew \in Nat /\ MaxLifetime \in Nat
  /\ TicksPerSecond \in Nat \ {0} /\ MaxClock \in Nat
  /\ Requests # {} /\ \A r \in Requests : r.expires_at \in Int

VARIABLES erp_clock,
          trusted,          \* the keys configured at start
          nonces,           \* Redis: replay key -> tick at which it goes away,
                            \* or 0 if it is not there
          erp_pc, req, ttl, \* client -> step, request and replay_ttl_seconds
          erp_answer,       \* client -> status of its last answer
          claimed,          \* history: <<org, key, nonce>> of every SET carried out
          accepted          \* history: request -> times it was accepted before the
                            \* second in which it expires, no further than 2

erp_vars == <<erp_clock, trusted, nonces, erp_pc, req, ttl, erp_answer, claimed,
              accepted>>

(* Mutant: the organisation is left out.                                   *)
build_replay_cache_key_no_org(r) == <<r.key, r.nonce>>

build_replay_cache_key(r) == <<r.org, r.key, r.nonce>>

ReplayKeys == {build_replay_cache_key(r) : r \in Requests}

NoRequest == CHOOSE r \in Requests : TRUE
ErpNoAnswer == 0
(* The answers, by their HTTP status.                                      *)
Ok == 200
BadRequest == 400
Forbidden == 403
Conflict == 409
ServiceUnavailable == 503

ErpInit ==
  /\ erp_clock = 0
  /\ trusted \in SUBSET Keys
  /\ nonces = [k \in ReplayKeys |-> 0]
  /\ erp_pc = [c \in ErpClients |-> "idle"]
  /\ req = [c \in ErpClients |-> NoRequest] /\ ttl = [c \in ErpClients |-> 0]
  /\ erp_answer = [c \in ErpClients |-> ErpNoAnswer]
  /\ claimed = {} /\ accepted = [r \in Requests |-> 0]

-----------------------------------------------------------------------------
validate_attestation_metadata(r) ==
  /\ r.formed
  /\ r.issued_at < r.expires_at
  /\ r.expires_at - r.issued_at <= MaxLifetime

(* Ok, or the status of the error.                                         *)
validate_attestation_time_window(r, now) ==
  IF now > r.expires_at THEN Forbidden
  ELSE IF now + MaxClockSkew < r.issued_at THEN BadRequest
  ELSE IF r.timestamp \in r.issued_at - MaxClockSkew .. r.expires_at + MaxClockSkew
  THEN Ok ELSE Forbidden

(* Mutant: rounded down by one more second.                                *)
replay_ttl_seconds_short(r, now) ==
  IF r.expires_at - now - 1 > 1 THEN r.expires_at - now - 1 ELSE 1

replay_ttl_seconds(r, now) ==
  IF r.expires_at - now > 1 THEN r.expires_at - now ELSE 1

canonical_erp_attestation_payload(r) ==
  <<r.org, r.timestamp, r.body, r.key, r.nonce, r.issued_at, r.expires_at>>

verify_hmac_sha256_signature(r) ==
  r.signature = <<r.key, canonical_erp_attestation_payload(r)>>

verify_erp_attestation(r, now) ==
  IF ~validate_attestation_metadata(r) THEN BadRequest
  ELSE IF r.key \notin trusted \/ ~verify_hmac_sha256_signature(r) THEN Forbidden
  ELSE validate_attestation_time_window(r, now)

(* Everything before the first await.                                      *)
erp_sync_handler(c, r) ==
  LET now == erp_clock \div TicksPerSecond
      verdict == IF ~r.listed THEN BadRequest
                 ELSE IF trusted = {} THEN ServiceUnavailable
                 ELSE verify_erp_attestation(r, now)
  IN  /\ erp_pc[c] = "idle"
      /\ \/ /\ verdict = Ok
            /\ req' = [req EXCEPT ![c] = r]
            /\ erp_pc' = [erp_pc EXCEPT ![c] = "claim"]
            /\ ttl' = [ttl EXCEPT ![c] = replay_ttl_seconds(r, now)]
            /\ erp_answer' = [erp_answer EXCEPT ![c] = ErpNoAnswer]
         \/ /\ verdict # Ok
            /\ erp_answer' = [erp_answer EXCEPT ![c] = verdict]
            /\ UNCHANGED <<erp_pc, req, ttl>>
      /\ UNCHANGED <<erp_clock, trusted, nonces, claimed, accepted>>

-----------------------------------------------------------------------------
Live(k) == nonces[k] # 0

(* SET NX EX, carried out.                                                 *)
SetNx(c) ==
  LET k == build_replay_cache_key(req[c])
  IN IF Live(k) THEN UNCHANGED <<nonces, claimed>>
     ELSE /\ nonces' = [nonces EXCEPT ![k] = erp_clock + ttl[c] * TicksPerSecond]
          /\ claimed' = claimed \cup {<<req[c].org, req[c].key, req[c].nonce>>}

Return(c, status) ==
  /\ erp_pc[c] = "claim"
  /\ erp_pc' = [erp_pc EXCEPT ![c] = "idle"]
  /\ req' = [req EXCEPT ![c] = NoRequest] /\ ttl' = [ttl EXCEPT ![c] = 0]
  /\ erp_answer' = [erp_answer EXCEPT ![c] = status]
  /\ UNCHANGED <<erp_clock, trusted>>

Unexpired(r) == erp_clock < r.expires_at * TicksPerSecond

claim_attestation_nonce(c) ==
  LET r == req[c]
      fresh == ~Live(build_replay_cache_key(r))
  IN  /\ Return(c, IF fresh THEN Ok ELSE Conflict)
      /\ SetNx(c)
      /\ accepted' = [accepted EXCEPT ![r] =
           IF fresh /\ Unexpired(r) /\ @ < 2 THEN @ + 1 ELSE @]

(* No connection, or no reply to a SET that was or was not carried out.    *)
ReplayStoreUnavailable(c) ==
  /\ Return(c, ServiceUnavailable)
  /\ SetNx(c) \/ UNCHANGED <<nonces, claimed>>
  /\ UNCHANGED accepted

(* The client goes away, and the rest of its handler with it.              *)
ErpAbandon(c) ==
  /\ Return(c, ErpNoAnswer)
  /\ SetNx(c) \/ UNCHANGED <<nonces, claimed>>
  /\ UNCHANGED accepted

(* Redis removes the keys whose time is over.                              *)
ErpTimePasses ==
  /\ erp_clock < MaxClock
  /\ erp_clock' = erp_clock + 1
  /\ nonces' =
       [k \in ReplayKeys |-> IF nonces[k] <= erp_clock' THEN 0 ELSE nonces[k]]
  /\ UNCHANGED <<trusted, erp_pc, req, ttl, erp_answer, claimed, accepted>>

ErpNext ==
  \/ \E c \in ErpClients, r \in Requests : erp_sync_handler(c, r)
  \/ \E c \in ErpClients :
       claim_attestation_nonce(c) \/ ReplayStoreUnavailable(c) \/ ErpAbandon(c)
  \/ ErpTimePasses

ErpSpec == ErpInit /\ [][ErpNext]_erp_vars

-----------------------------------------------------------------------------
(* The nonce is kept for as long as the attestation lasts: however the     *)
(* calls interleave, and however long they wait between the check of the   *)
(* time and the claim, a request is accepted at most once before the       *)
(* second in which it expires.  That second itself still passes the time   *)
(* window, and the nonce may be gone in it.                                *)
AcceptedOnce == \A r \in Requests : accepted[r] <= 1

(* A request is answered 409 only if its own organisation's nonce, of the  *)
(* same key, was claimed before: an organisation does not use up another's.*)
ConflictIsEarned ==
  [][\A c \in ErpClients : erp_pc[c] = "claim" /\ erp_answer'[c] = Conflict =>
       <<req[c].org, req[c].key, req[c].nonce>> \in claimed]_erp_vars
=============================================================================
