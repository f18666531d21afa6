----------------------------- MODULE AdminAuth -----------------------------
(***************************************************************************)
(* Registrations, claims and credentials of src/api/admin.rs: two maps in  *)
(* memory, each behind a mutex of its own.  start_registration takes the   *)
(* two mutexes one after the other, complete_claim takes CREDENTIALS while *)
(* it holds REGISTRATIONS, every other handler takes one of them.  Taking  *)
(* a mutex is a step, and so is what is done under it; callers interleave  *)
(* between steps, and a restart of the process forgets both maps.          *)
(*                                                                         *)
(* Tokens are fresh UUIDs: registrations and credentials are numbered in   *)
(* the order of their issue.  Lists of scopes are sets.  What a request    *)
(* carries and only its answer depends on is chosen when it is looked at;  *)
(* a request answered before it touches a map changes nothing here.        *)
(***************************************************************************)
EXTENDS Integers, FiniteSets

CONSTANTS Callers,          \* concurrent requests
          Nobody,           \* owner of a free mutex
          Emails,           \* emails a claim may name
          ScopeLists,       \* <<scopes, postClaimScopes>> of a registration
          None,             \* Option::None
          MaxRegistrations, \* bound: registrations
          MaxCredentials,   \* bound: credentials
          MaxRestarts,      \* bound: process restarts
          AdminToken,       \* NEXUS_ADMIN_API_TOKEN is configured
          AdminKeys,        \* admin_public_keys is not empty
          DebugBuild        \* cfg!(debug_assertions)

ASSUME NobodyAssumption == Nobody \notin Callers /\ None \notin Nat \union Emails
ASSUME BoundsAssumption ==
  MaxRegistrations \in Nat /\ MaxCredentials \in Nat /\ MaxRestarts \in Nat

VARIABLES registrations,  \* REGISTRATIONS: claim token -> RegistrationRecord
          credentials,    \* CREDENTIALS: api key -> CredentialRecord
          registering, issuing,  \* owners of the two mutexes
          at, ask,        \* caller -> step, request
          tokens, keys,   \* how many claim tokens and api keys were issued
          claims,         \* history: claim token -> calls answered "claimed"
          told,           \* history: claim tokens answered "previously_claimed"
          restarts        \* history: process restarts

maps  == <<registrations, credentials>>
locks == <<registering, issuing>>
calls == <<at, ask>>
fresh == <<tokens, keys, restarts>>
past  == <<claims, told>>
admin_vars == <<maps, locks, calls, fresh, past>>

(* HashMap::insert.                                                        *)
Put(map, key, value) ==
  [k \in DOMAIN map \union {key} |-> IF k = key THEN value ELSE map[k]]

NoRequest == [call |-> "none"]

AgentScopes == {"api.read", "api.write"}
AdminScopes == AgentScopes \union {"admin.write"}

AdminInit ==
  /\ registrations = <<>> /\ credentials = <<>>
  /\ registering = Nobody /\ issuing = Nobody
  /\ at = [c \in Callers |-> "idle"]
  /\ ask = [c \in Callers |-> NoRequest]
  /\ tokens = 0 /\ keys = 0 /\ restarts = 0
  /\ claims = [r \in 1..MaxRegistrations |-> 0] /\ told = {}

-----------------------------------------------------------------------------
Turn(c, step) == at' = [at EXCEPT ![c] = step] /\ UNCHANGED <<ask, told>>

(* The call returns.  Of the answers only this one is remembered.          *)
Answer(c, what) ==
  /\ told' = IF what = "previously_claimed" THEN told \union {ask[c].token} ELSE told
  /\ ask' = [ask EXCEPT ![c] = NoRequest]
  /\ at' = [at EXCEPT ![c] = "idle"]

Begin(c, request, step) ==
  /\ at[c] = "idle"
  /\ at' = [at EXCEPT ![c] = step]
  /\ ask' = [ask EXCEPT ![c] = request]

(* The steps that wait for, and then run under, each of the mutexes.       *)
UnderRegistrations == {"register", "claim", "complete", "view"}
UnderCredentials == {"issue", "upgrade", "authorize", "login"}

LockRegistrations(c) ==
  /\ at[c] \in UnderRegistrations /\ registering = Nobody
  /\ registering' = c
  /\ UNCHANGED <<maps, issuing, calls, fresh, past>>

LockCredentials(c) ==
  /\ at[c] \in UnderCredentials /\ issuing = Nobody
  /\ issuing' = c
  /\ UNCHANGED <<maps, registering, calls, fresh, past>>

-----------------------------------------------------------------------------
(* start_registration: the credential of an anonymous registration is in   *)
(* CREDENTIALS before the registration itself can be claimed.              *)

post_claim_scopes(scopes, post) ==
  CASE post # {} -> post
    [] post = {} /\ scopes # {} -> scopes
    [] OTHER -> AgentScopes

start_registration(c, anonymous, scopes, post) ==
  /\ tokens < MaxRegistrations /\ keys < MaxCredentials
  /\ tokens' = tokens + 1
  /\ keys' = IF anonymous THEN keys + 1 ELSE keys
  /\ Begin(c, [call |-> "register", token |-> tokens',
               record |-> [credential |-> IF anonymous THEN keys' ELSE None,
                           post |-> post_claim_scopes(scopes, post),
                           email |-> None, claimed |-> FALSE]],
           IF anonymous THEN "issue" ELSE "register")
  /\ UNCHANGED <<maps, locks, past, restarts>>

(* Mutant: the guard of CREDENTIALS is kept until the record is stored.    *)
Issue_keeps_lock(c) ==
  /\ at[c] = "issue" /\ issuing = c
  /\ credentials' = Put(credentials, ask[c].record.credential,
                        [registration |-> ask[c].token, scopes |-> AgentScopes])
  /\ Turn(c, "register")
  /\ UNCHANGED <<registrations, locks, fresh, past>>

Issue(c) ==
  /\ at[c] = "issue" /\ issuing = c
  /\ credentials' = Put(credentials, ask[c].record.credential,
                        [registration |-> ask[c].token, scopes |-> AgentScopes])
  /\ issuing' = Nobody
  /\ Turn(c, "register")
  /\ UNCHANGED <<registrations, registering, fresh, past>>

Register(c) ==
  /\ at[c] = "register" /\ registering = c
  /\ registrations' = Put(registrations, ask[c].token, ask[c].record)
  /\ registering' = Nobody
  /\ Answer(c, "registered")
  /\ UNCHANGED <<credentials, issuing, fresh, claims>>

-----------------------------------------------------------------------------
(* start_claim, complete_claim and view_claim_otp.                         *)

start_claim(c, r, email) ==
  /\ Begin(c, [call |-> "claim", token |-> r, email |-> email], "claim")
  /\ UNCHANGED <<maps, locks, fresh, past>>

complete_claim(c, r) ==
  /\ Begin(c, [call |-> "complete", token |-> r], "complete")
  /\ UNCHANGED <<maps, locks, fresh, past>>

view_claim_otp(c) ==
  /\ Begin(c, [call |-> "view"], "view")
  /\ UNCHANGED <<maps, locks, fresh, past>>

Known(c) == ask[c].token \in DOMAIN registrations

(* Mutant: a claimed registration may be claimed again.                    *)
Refusal_reclaims(c) ==
  CASE ~Known(c) -> "invalid_claim_token"
    [] Known(c) -> "none"

(* The refusals the two claim handlers share.                              *)
Refusal(c) ==
  CASE ~Known(c) -> "invalid_claim_token"
    [] Known(c) /\ registrations[ask[c].token].claimed -> "previously_claimed"
    [] OTHER -> "none"

SetEmail(c) ==
  /\ at[c] = "claim" /\ registering = c
  /\ registering' = Nobody
  /\ IF Refusal(c) = "none"
     THEN /\ registrations' = [registrations EXCEPT ![ask[c].token].email = ask[c].email]
          /\ Answer(c, "initiated")
     ELSE Answer(c, Refusal(c)) /\ UNCHANGED registrations
  /\ UNCHANGED <<credentials, issuing, fresh, claims>>

(* Mutant: REGISTRATIONS is let go of before the credential is upgraded.   *)
MarkClaimed_unlocks(c, right_otp) ==
  /\ at[c] = "complete" /\ registering = c
  /\ registering' = Nobody
  /\ IF Refusal(c) = "none" /\ right_otp
     THEN /\ registrations' = [registrations EXCEPT ![ask[c].token].claimed = TRUE]
          /\ Turn(c, "upgrade")
     ELSE /\ Answer(c, IF Refusal(c) = "none" THEN "otp_invalid" ELSE Refusal(c))
          /\ UNCHANGED registrations
  /\ UNCHANGED <<credentials, issuing, fresh, claims>>

MarkClaimed(c, right_otp) ==
  /\ at[c] = "complete" /\ registering = c
  /\ IF Refusal(c) = "none" /\ right_otp
     THEN /\ registrations' = [registrations EXCEPT ![ask[c].token].claimed = TRUE]
          /\ Turn(c, "upgrade")
          /\ UNCHANGED registering
     ELSE /\ Answer(c, IF Refusal(c) = "none" THEN "otp_invalid" ELSE Refusal(c))
          /\ registering' = Nobody
          /\ UNCHANGED registrations
  /\ UNCHANGED <<credentials, issuing, fresh, claims>>

(* With both mutexes: a credential that exists gets the post-claim scopes, *)
(* a registration without one gets its credential now.                     *)
UpgradeExisting(c) ==
  LET key == registrations[ask[c].token].credential
  IN /\ key # None
     /\ credentials' = IF key \in DOMAIN credentials
                       THEN [credentials EXCEPT ![key].scopes =
                               registrations[ask[c].token].post]
                       ELSE credentials
     /\ UNCHANGED <<registrations, keys>>

IssueOnClaim(c) ==
  LET token == ask[c].token
  IN /\ registrations[token].credential = None
     /\ keys' = keys + 1
     /\ credentials' = Put(credentials, keys', [registration |-> token,
                                               scopes |-> registrations[token].post])
     /\ registrations' = [registrations EXCEPT ![token].credential = keys']

Upgrade(c) ==
  /\ at[c] = "upgrade" /\ registering = c /\ issuing = c
  /\ UpgradeExisting(c) \/ IssueOnClaim(c)
  /\ registering' = Nobody /\ issuing' = Nobody
  /\ claims' = [claims EXCEPT ![ask[c].token] = @ + 1]
  /\ Answer(c, "claimed")
  /\ UNCHANGED <<tokens, restarts>>

ViewOtp(c, r) ==
  /\ at[c] = "view" /\ registering = c
  /\ registering' = Nobody
  /\ Answer(c, IF r \in DOMAIN registrations THEN "otp" ELSE "invalid_claim_view_token")
  /\ UNCHANGED <<maps, issuing, fresh, claims>>

-----------------------------------------------------------------------------
(* Bearer tokens: an api key, or the configured admin token, which is not  *)
(* one of the numbers issued.                                              *)

Static == 0

(* validate_dual_signature: `unique` distinct signature strings, of which  *)
(* `verified` verify under one of the admin keys.                          *)
validate_dual_signature(unique, verified) ==
  CASE unique < 2 -> "insufficient_approvals"
    [] unique >= 2 /\ ~AdminKeys -> IF DebugBuild THEN "ok" ELSE "misconfigured"
    [] OTHER -> IF verified < 2 THEN "cryptographic_verification_failed" ELSE "ok"

HasScope(token, scope) ==
  token \in DOMAIN credentials /\ scope \in credentials[token].scopes

authorize_for_scope(token, scope) ==
  HasScope(token, scope) \/ (AdminToken /\ token = Static)

authorize_admin_write(token) ==
  CASE HasScope(token, "admin.write") -> "ok"
    [] ~HasScope(token, "admin.write") /\ ~AdminToken -> "admin_api_token_not_configured"
    [] OTHER -> IF token = Static THEN "ok" ELSE "invalid_token"

(* A call of the operator API waits for CREDENTIALS first.  The guard is   *)
(* dropped before the fallback to the configured token and the signatures, *)
(* which touch nothing shared.                                             *)
call_operator_api(c) ==
  /\ Begin(c, [call |-> "operator"], "authorize")
  /\ UNCHANGED <<maps, locks, fresh, past>>

Authorized(c, outcome) ==
  /\ at[c] = "authorize" /\ issuing = c
  /\ issuing' = Nobody
  /\ Answer(c, outcome)
  /\ UNCHANGED <<maps, registering, fresh, claims>>

(* get_protected_status, and the reports from get_runtime_health to        *)
(* get_safety_mode, whose contents are fixed or read from Redis.           *)
get_report(c, token) ==
  Authorized(c, IF authorize_for_scope(token, "api.read") THEN "ok" ELSE "invalid_token")

ack_safety_mode(c, token) == Authorized(c, authorize_admin_write(token))

(* request_release_approval, submit_release_decision and                   *)
(* submit_governance_decision: they record nothing.                        *)
submit_decision(c, token, unique, verified) ==
  Authorized(c, IF authorize_admin_write(token) = "ok"
                THEN validate_dual_signature(unique, verified)
                ELSE authorize_admin_write(token))

login_handler(c, unique, verified) ==
  /\ validate_dual_signature(unique, verified) = "ok"
  /\ keys < MaxCredentials
  /\ keys' = keys + 1
  /\ Begin(c, [call |-> "login", key |-> keys'], "login")
  /\ UNCHANGED <<maps, locks, tokens, restarts, past>>

Login(c) ==
  /\ at[c] = "login" /\ issuing = c
  /\ credentials' = Put(credentials, ask[c].key,
                        [registration |-> None, scopes |-> AdminScopes])
  /\ issuing' = Nobody
  /\ Answer(c, "ok")
  /\ UNCHANGED <<registrations, registering, fresh, claims>>

(* The maps live in memory; the tokens handed out stay with their holders. *)
Restart ==
  /\ restarts < MaxRestarts
  /\ restarts' = restarts + 1
  /\ registrations' = <<>> /\ credentials' = <<>>
  /\ registering' = Nobody /\ issuing' = Nobody
  /\ at' = [c \in Callers |-> "idle"]
  /\ ask' = [c \in Callers |-> NoRequest]
  /\ UNCHANGED <<tokens, keys, past>>

AdminStep(c) ==
  \/ LockRegistrations(c) \/ LockCredentials(c)
  \/ Issue(c) \/ Register(c) \/ SetEmail(c) \/ Upgrade(c) \/ Login(c)
  \/ \E right_otp \in BOOLEAN : MarkClaimed(c, right_otp)
  \/ \E r \in 1..MaxRegistrations : ViewOtp(c, r)
  \/ \E token \in 0..MaxCredentials :
       \/ get_report(c, token) \/ ack_safety_mode(c, token)
       \/ \E unique \in 0..2, verified \in 0..2 :
            verified <= unique /\ submit_decision(c, token, unique, verified)

(* Claim tokens and bearer tokens are any that were, or may be, issued.    *)
Call(c) ==
  \/ \E anonymous \in BOOLEAN, lists \in ScopeLists :
       start_registration(c, anonymous, lists[1], lists[2])
  \/ \E r \in 1..MaxRegistrations :
       \/ \E email \in Emails : start_claim(c, r, email)
       \/ complete_claim(c, r)
  \/ view_claim_otp(c) \/ call_operator_api(c)
  \/ \E unique \in 0..2, verified \in 0..2 :
       verified <= unique /\ login_handler(c, unique, verified)

AdminNext == (\E c \in Callers : AdminStep(c) \/ Call(c)) \/ Restart

AdminSpec == AdminInit /\ [][AdminNext]_admin_vars

(* A thread that can go on does so.                                        *)
AdminFairSpec == AdminSpec /\ \A c \in Callers : WF_admin_vars(AdminStep(c))

-----------------------------------------------------------------------------
Keys == Nat \union {None}
Records == [credential : Keys, post : SUBSET AdminScopes,
            email : Emails \union {None}, claimed : BOOLEAN]

(* Type invariant: the two maps and what the requests carry.               *)
TypeOK ==
  /\ \A r \in DOMAIN registrations :
       r \in 1..tokens /\ registrations[r] \in Records
  /\ \A k \in DOMAIN credentials :
       /\ k \in 1..keys
       /\ credentials[k] \in [registration : Keys, scopes : SUBSET AdminScopes]
  /\ registering \in Callers \union {Nobody} /\ issuing \in Callers \union {Nobody}
  /\ at \in [Callers -> {"idle"} \union UnderRegistrations \union UnderCredentials]
  /\ tokens \in 0..MaxRegistrations /\ keys \in Nat

(* Two maps under two mutexes say the same of a registration whenever no   *)
(* claim is in progress: a claimed one has a credential with exactly its   *)
(* post-claim scopes, an unclaimed one has none or one with the scopes     *)
(* start_registration gave it.                                             *)
CredentialFollowsClaim ==
  registering = Nobody =>
    \A r \in DOMAIN registrations :
      LET key == registrations[r].credential
      IN IF registrations[r].claimed
         THEN /\ key \in DOMAIN credentials
              /\ credentials[key] = [registration |-> r, scopes |-> registrations[r].post]
         ELSE \/ key = None
              \/ /\ key \in DOMAIN credentials
                 /\ credentials[key] = [registration |-> r, scopes |-> AgentScopes]

(* complete_claim answers "claimed" to at most one call for each claim     *)
(* token, also over a restart, and "previously_claimed" is answered only   *)
(* once that call has done all its work; a registration never has two      *)
(* credentials.                                                            *)
OneClaimWins ==
  /\ \A r \in 1..MaxRegistrations : claims[r] <= 1
  /\ \A r \in told : claims[r] = 1
  /\ \A k, l \in DOMAIN credentials :
       credentials[k].registration = credentials[l].registration
         => k = l \/ credentials[k].registration = None

(* The two mutexes are taken in an order that cannot block: if from some   *)
(* time on no call comes in, all calls come to their end.                  *)
CallsDrain ==
  <>[][\A c \in Callers : ~Call(c)]_admin_vars => <>[](\A c \in Callers : at[c] = "idle")
=============================================================================
