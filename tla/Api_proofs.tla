---------------------------- MODULE Api_proofs ----------------------------
(***************************************************************************)
(* The safety properties of two components of src/api.  AdminAuth: what    *)
(* its two maps say of each other, for any number of concurrent calls,     *)
(* registrations and restarts.  Settlement: for any number of clients,     *)
(* payloads and rates, any time-lock and any height; and what the routing  *)
(* policy and the oracle decide, for every payload, reply and quote.       *)
(***************************************************************************)
EXTENDS AdminAuth, Settlement, WellFoundedInduction, TLAPS

-----------------------------------------------------------------------------
(* The registrations and credentials of AdminAuth.                         *)

AllSteps == {"idle"} \union UnderRegistrations \union UnderCredentials
PostScopes == {post_claim_scopes(lists[1], lists[2]) : lists \in ScopeLists}

Record == [credential : Nat \union {None}, post : PostScopes,
           email : Emails \union {None}, claimed : BOOLEAN]
Credential == [registration : Nat \union {None},
               scopes : PostScopes \union {AgentScopes, AdminScopes}]

(* What a request carries at each step.                                    *)
RequestTyped(c) ==
  /\ at[c] \in {"issue", "register"} =>
       /\ ask[c].token \in 1..tokens
       /\ ask[c].record \in Record /\ ask[c].record.claimed = FALSE
  /\ at[c] = "issue" => ask[c].record.credential \in Nat
  /\ at[c] \in {"claim", "complete", "upgrade"} => ask[c].token \in 1..MaxRegistrations
  /\ at[c] = "claim" => ask[c].email \in Emails
  /\ at[c] = "login" => ask[c].key \in Nat

AdminTyped ==
  /\ tokens \in 0..MaxRegistrations /\ keys \in Nat
  /\ at \in [Callers -> AllSteps]
  /\ ask = [c \in Callers |-> ask[c]]
  /\ DOMAIN registrations \subseteq 1..tokens
  /\ \A r \in DOMAIN registrations : registrations[r] \in Record
  /\ DOMAIN credentials \subseteq 1..keys
  /\ \A k \in DOMAIN credentials : credentials[k] \in Credential
  /\ claims \in [1..MaxRegistrations -> Nat]
  /\ \A c \in Callers : RequestTyped(c)

(* A mutex is held only at the steps that take it, and complete_claim      *)
(* keeps REGISTRATIONS until it is done with CREDENTIALS.                  *)
Locks ==
  /\ registering \in Callers => at[registering] \in UnderRegistrations \union {"upgrade"}
  /\ issuing \in Callers => at[issuing] \in UnderCredentials
  /\ \A c \in Callers : at[c] = "upgrade" => registering = c

(* The calls to come that insert into a map, and what they insert.         *)
Registers(c) == at[c] \in {"issue", "register"}
Inserts(c, k) == \/ at[c] = "issue" /\ k = ask[c].record.credential
                 \/ at[c] = "login" /\ k = ask[c].key

(* Tokens are used once: a registration to come is new.                    *)
TokensAreFresh ==
  /\ \A c \in Callers : Registers(c) =>
       /\ ask[c].token \notin DOMAIN registrations
       /\ claims[ask[c].token] = 0
  /\ \A c, d \in Callers : Registers(c) /\ Registers(d) /\ ask[c].token = ask[d].token => c = d
  /\ \A r \in 1..MaxRegistrations : r > tokens => claims[r] = 0

(* So are keys: one to come is not in CREDENTIALS yet.                     *)
KeysAreFresh ==
  /\ \A c \in Callers, k \in Nat : Inserts(c, k) =>
       k \in 1..keys /\ k \notin DOMAIN credentials
  /\ \A c, d \in Callers, k \in Nat : Inserts(c, k) /\ Inserts(d, k) => c = d

(* A credential of a registration is the one its record names.             *)
CredentialsAreOwned ==
  /\ \A k \in DOMAIN credentials :
       LET r == credentials[k].registration
       IN \/ r = None
          \/ r \in DOMAIN registrations /\ registrations[r].credential = k
          \/ \E c \in Callers : /\ at[c] = "register" /\ ask[c].token = r
                                /\ ask[c].record.credential = k
  /\ \A c \in Callers : at[c] = "register" =>
       LET key == ask[c].record.credential
       IN \/ key = None
          \/ /\ key \in DOMAIN credentials
             /\ credentials[key] = [registration |-> ask[c].token, scopes |-> AgentScopes]

(* CredentialFollowsClaim while claims are in progress.                    *)
Busy(r) == \/ registrations[r].claimed = FALSE
           \/ \E c \in Callers : at[c] = "upgrade" /\ ask[c].token = r

Follows(r) ==
  LET key == registrations[r].credential
  IN IF Busy(r)
     THEN /\ claims[r] = 0
          /\ \/ key = None
             \/ /\ key \in DOMAIN credentials
                /\ credentials[key] = [registration |-> r, scopes |-> AgentScopes]
     ELSE /\ claims[r] = 1
          /\ key \in DOMAIN credentials
          /\ credentials[key] = [registration |-> r, scopes |-> registrations[r].post]

MapsAgree ==
  /\ \A r \in DOMAIN registrations : Follows(r)
  /\ \A c \in Callers : at[c] = "upgrade" =>
       /\ ask[c].token \in DOMAIN registrations
       /\ registrations[ask[c].token].claimed = TRUE
  /\ \A r \in 1..MaxRegistrations : claims[r] <= 1
  /\ \A r \in told : r \in 1..MaxRegistrations /\ claims[r] = 1

ClaimInv ==
  AdminTyped /\ Locks /\ TokensAreFresh /\ KeysAreFresh /\ CredentialsAreOwned /\ MapsAgree

-----------------------------------------------------------------------------
LEMMA ClaimInit == AdminInit => ClaimInv
<1> SUFFICES ASSUME AdminInit PROVE ClaimInv
  BY Zenon
<1>1. DOMAIN registrations = {} /\ DOMAIN credentials = {}
  BY DEF AdminInit
<1>2. AdminTyped
  BY <1>1, BoundsAssumption DEF AdminInit, AdminTyped, RequestTyped, AllSteps
<1> QED
  BY <1>1, <1>2, NobodyAssumption
     DEF AdminInit, ClaimInv, Locks, TokensAreFresh, KeysAreFresh, CredentialsAreOwned, MapsAgree,
         Registers, Inserts

(* The invariants that give the properties.                                *)
LEMMA ClaimInvSuffices == ClaimInv => CredentialFollowsClaim /\ OneClaimWins
<1> SUFFICES ASSUME ClaimInv PROVE CredentialFollowsClaim /\ OneClaimWins
  BY Zenon
<1>1. CredentialFollowsClaim
  <2> SUFFICES ASSUME registering = Nobody, NEW r \in DOMAIN registrations
               PROVE  LET key == registrations[r].credential
                      IN IF registrations[r].claimed
                         THEN /\ key \in DOMAIN credentials
                              /\ credentials[key] = [registration |-> r,
                                                     scopes |-> registrations[r].post]
                         ELSE \/ key = None
                              \/ /\ key \in DOMAIN credentials
                                 /\ credentials[key] = [registration |-> r,
                                                        scopes |-> AgentScopes]
    BY Zenon DEF CredentialFollowsClaim
  <2>1. \A c \in Callers : at[c] # "upgrade"
    BY NobodyAssumption, Zenon DEF ClaimInv, Locks
  <2>2. registrations[r].claimed \in BOOLEAN /\ Follows(r)
    BY Zenon DEF ClaimInv, AdminTyped, Record, MapsAgree
  <2>3. Busy(r) <=> registrations[r].claimed = FALSE
    BY <2>1, Zenon DEF Busy
  <2> QED
    BY <2>2, <2>3, Zenon DEF Follows
<1>2. OneClaimWins
  <2>1. ASSUME NEW k \in DOMAIN credentials, NEW l \in DOMAIN credentials,
               credentials[k].registration = credentials[l].registration,
               credentials[k].registration # None
        PROVE  k = l
    <3> DEFINE r == credentials[k].registration
    <3>1. \A j \in {k, l} :
            \/ r \in DOMAIN registrations /\ registrations[r].credential = j
            \/ \E c \in Callers : /\ at[c] = "register" /\ ask[c].token = r
                                  /\ ask[c].record.credential = j
      BY <2>1 DEF ClaimInv, CredentialsAreOwned
    <3> QED
      BY <3>1, SMTT(20) DEF ClaimInv, TokensAreFresh, Registers
  <2> QED
    BY <2>1, Zenon DEF OneClaimWins, ClaimInv, MapsAgree
<1> QED
  BY <1>1, <1>2, Zenon

-----------------------------------------------------------------------------
(* Call c goes on to a step, with a request; the others stay.              *)
MovesTo(c, step) ==
  /\ at' \in [Callers -> AllSteps] /\ at'[c] = step
  /\ ask' = [d \in Callers |-> ask'[d]]
  /\ \A d \in Callers \ {c} : at'[d] = at[d] /\ ask'[d] = ask[d]

LEMMA AnswerEffect ==
  ASSUME AdminTyped, NEW c \in Callers, NEW what, Answer(c, what)
  PROVE  /\ MovesTo(c, "idle")
         /\ told' = IF what = "previously_claimed" THEN told \union {ask[c].token} ELSE told
BY Zenon DEF AdminTyped, Answer, MovesTo, AllSteps

LEMMA GotoEffect ==
  ASSUME AdminTyped, NEW c \in Callers, NEW step \in AllSteps, Turn(c, step)
  PROVE  MovesTo(c, step) /\ ask'[c] = ask[c] /\ UNCHANGED told
BY Zenon DEF AdminTyped, Turn, MovesTo

LEMMA BeginEffect ==
  ASSUME AdminTyped, NEW c \in Callers, NEW request, NEW step \in AllSteps,
         Begin(c, request, step)
  PROVE  MovesTo(c, step) /\ ask'[c] = request /\ at[c] = "idle"
BY Zenon DEF AdminTyped, Begin, MovesTo

(* A move keeps the mutexes right when it lets go of what it does not need. *)
LEMMA LocksKept ==
  ASSUME Locks, NEW c \in Callers, NEW step, MovesTo(c, step),
         registering' \in {registering, Nobody}, issuing' \in {issuing, Nobody},
         registering' # registering => registering = c,
         registering' = c => step \in UnderRegistrations \union {"upgrade"},
         issuing' = c => step \in UnderCredentials,
         step = "upgrade" => registering' = c
  PROVE  Locks'
BY NobodyAssumption, Zenon DEF Locks, MovesTo

(* Requests stay typed as more tokens and keys are issued.                 *)
LEMMA RequestsTyped ==
  ASSUME AdminTyped, NEW c \in Callers, NEW step, MovesTo(c, step),
         tokens' \in Nat, tokens' >= tokens, RequestTyped(c)'
  PROVE  \A d \in Callers : RequestTyped(d)'
<1> SUFFICES ASSUME NEW d \in Callers, d # c PROVE RequestTyped(d)'
  BY Zenon
<1>1. at'[d] = at[d] /\ ask'[d] = ask[d] /\ RequestTyped(d)
  BY Zenon DEF MovesTo, AdminTyped
<1>2. 1..tokens \subseteq 1..tokens'
  BY DEF AdminTyped
<1> QED
  BY <1>1, <1>2, Zenon DEF RequestTyped

Inserting == {"issue", "register", "login", "upgrade"}

(* Steps that insert nothing, and leave what the maps relate.              *)
LEMMA MapsStay ==
  ASSUME ClaimInv, AdminTyped', Locks', UNCHANGED <<credentials, tokens, keys, claims>>,
         DOMAIN registrations' = DOMAIN registrations,
         \A r \in DOMAIN registrations :
           /\ registrations'[r].credential = registrations[r].credential
           /\ registrations'[r].claimed = registrations[r].claimed
           /\ registrations'[r].post = registrations[r].post,
         told' \subseteq told \union {r \in 1..MaxRegistrations : claims[r] = 1},
         \A c \in Callers : \/ at'[c] = at[c] /\ ask'[c] = ask[c]
                            \/ at[c] \notin Inserting /\ at'[c] \notin Inserting
  PROVE  ClaimInv'
<1>1. \A c \in Callers : at[c] \in Inserting \/ at'[c] \in Inserting =>
        at'[c] = at[c] /\ ask'[c] = ask[c]
  BY ZenonT(30)
<1>2. TokensAreFresh'
  BY <1>1, SMTT(20) DEF ClaimInv, TokensAreFresh, Registers, Inserting
<1>3. KeysAreFresh'
  BY <1>1, SMTT(20) DEF ClaimInv, KeysAreFresh, Inserts, Inserting
<1>4. CredentialsAreOwned'
  <2>1. \A c \in Callers : at[c] = "register" => at'[c] = "register" /\ ask'[c] = ask[c]
    BY <1>1, Zenon DEF Inserting
  <2>2. \A c \in Callers : at'[c] = "register" => at[c] = "register" /\ ask'[c] = ask[c]
    BY <1>1, Zenon DEF Inserting
  <2>3. ASSUME NEW k \in DOMAIN credentials, credentials[k].registration # None
        PROVE  LET r == credentials[k].registration
               IN \/ r \in DOMAIN registrations' /\ registrations'[r].credential = k
                  \/ \E c \in Callers : /\ at'[c] = "register" /\ ask'[c].token = r
                                        /\ ask'[c].record.credential = k
    <3> DEFINE r == credentials[k].registration
    <3>1. CASE r \in DOMAIN registrations /\ registrations[r].credential = k
      BY <3>1, Zenon
    <3>2. CASE \E c \in Callers : /\ at[c] = "register" /\ ask[c].token = r
                                  /\ ask[c].record.credential = k
      BY <2>1, <3>2, Zenon
    <3> QED
      BY <2>3, <3>1, <3>2, Zenon DEF ClaimInv, CredentialsAreOwned
  <2> QED
    BY <2>2, <2>3 DEF ClaimInv, CredentialsAreOwned
<1>5. MapsAgree'
  <2>1. \A r \in DOMAIN registrations : Busy(r)' <=> Busy(r)
    BY <1>1, Zenon DEF Busy, Inserting
  <2>2. \A r \in DOMAIN registrations : Follows(r)'
    BY <2>1, Zenon DEF ClaimInv, MapsAgree, Follows
  <2>3. \A c \in Callers : at'[c] = "upgrade" =>
       /\ ask'[c].token \in DOMAIN registrations'
       /\ registrations'[ask'[c].token].claimed = TRUE
    BY <1>1, Zenon DEF ClaimInv, MapsAgree, Inserting
  <2> QED
    BY <2>2, <2>3, Zenon DEF ClaimInv, MapsAgree
<1> QED
  BY <1>2, <1>3, <1>4, <1>5, Zenon DEF ClaimInv

LEMMA LocksTaken ==
  ASSUME ClaimInv, NEW c \in Callers, LockRegistrations(c) \/ LockCredentials(c)
  PROVE  ClaimInv'
<1>1. UNCHANGED <<registrations, credentials, tokens, keys, claims, told, at, ask>>
  BY Zenon DEF LockRegistrations, LockCredentials, maps, calls, fresh, past
<1>2. AdminTyped'
  BY <1>1, Zenon DEF ClaimInv, AdminTyped, RequestTyped
<1>3. Locks'
  BY <1>1, NobodyAssumption, Zenon DEF ClaimInv, Locks, LockRegistrations, LockCredentials
<1> QED
  BY <1>1, <1>2, <1>3, MapsStay, Zenon

(* A call that only looks ends.                                            *)
LEMMA CallEnds ==
  ASSUME ClaimInv, NEW c \in Callers, at[c] \notin Inserting, NEW what, Answer(c, what),
         what = "previously_claimed" => ask[c].token \in 1..MaxRegistrations
                                          /\ claims[ask[c].token] = 1,
         UNCHANGED <<credentials, tokens, keys, claims>>,
         DOMAIN registrations' = DOMAIN registrations,
         \A r \in DOMAIN registrations :
           /\ registrations'[r] \in Record
           /\ registrations'[r].credential = registrations[r].credential
           /\ registrations'[r].claimed = registrations[r].claimed
           /\ registrations'[r].post = registrations[r].post,
         \/ registering = c /\ registering' = Nobody /\ UNCHANGED issuing
         \/ issuing = c /\ issuing' = Nobody /\ UNCHANGED registering
  PROVE  ClaimInv'
<1>0. AdminTyped /\ Locks
  BY Zenon DEF ClaimInv
<1>1. /\ MovesTo(c, "idle")
      /\ told' = IF what = "previously_claimed" THEN told \union {ask[c].token} ELSE told
  BY <1>0, AnswerEffect, ZenonT(30)
<1>2. RequestTyped(c)' /\ tokens' \in Nat /\ tokens' >= tokens
  BY <1>0, <1>1, BoundsAssumption DEF RequestTyped, MovesTo, AdminTyped
<1>3. \A d \in Callers : RequestTyped(d)'
  BY <1>0, <1>1, <1>2, RequestsTyped, Zenon
<1>4. AdminTyped'
  BY <1>0, <1>1, <1>3, Zenon DEF AdminTyped, MovesTo
<1>5. registering' # c /\ issuing' # c
  <2>1. ~(registering = c /\ issuing = c)
    <3>1. registering = c /\ issuing = c => at[c] = "upgrade"
      BY <1>0, Zenon DEF Locks, UnderRegistrations, UnderCredentials
    <3> QED
      BY <3>1, Zenon DEF Inserting
  <2> QED
    BY <2>1, NobodyAssumption, Zenon
<1>6. Locks'
  BY <1>0, <1>1, <1>5, LocksKept, Zenon
<1> QED
  BY <1>1, <1>4, <1>6, MapsStay, Zenon DEF MovesTo, Inserting

LEMMA CallBegins ==
  ASSUME ClaimInv, NEW c \in Callers, NEW request, NEW step \in AllSteps \ Inserting,
         Begin(c, request, step),
         step \in {"claim", "complete"} => request.token \in 1..MaxRegistrations,
         step = "claim" => request.email \in Emails,
         UNCHANGED <<maps, locks, fresh, past>>
  PROVE  ClaimInv'
<1>0. AdminTyped /\ Locks
  BY Zenon DEF ClaimInv
<1>1. MovesTo(c, step) /\ ask'[c] = request /\ at[c] = "idle"
  BY <1>0, BeginEffect, Zenon
<1>2. /\ UNCHANGED <<registrations, credentials, tokens, keys, claims, told>>
      /\ UNCHANGED <<registering, issuing>>
  BY ZenonT(30) DEF maps, locks, fresh, past
<1>3. RequestTyped(c)' /\ tokens' \in Nat /\ tokens' >= tokens
  BY <1>0, <1>1, <1>2, BoundsAssumption DEF RequestTyped, MovesTo, AdminTyped, Inserting
<1>4. \A d \in Callers : RequestTyped(d)'
  BY <1>0, <1>1, <1>3, RequestsTyped, Zenon
<1>5. AdminTyped'
  BY <1>0, <1>1, <1>2, <1>4, Zenon DEF AdminTyped, MovesTo
<1>6. registering # c /\ issuing # c
  BY <1>0, <1>1, Zenon DEF Locks, UnderRegistrations, UnderCredentials
<1>7. Locks'
  BY <1>0, <1>1, <1>2, <1>6, LocksKept, Zenon DEF Inserting
<1> QED
  BY <1>1, <1>2, <1>5, <1>7, MapsStay, Zenon DEF MovesTo, Inserting

(* Under REGISTRATIONS, a claimed registration was claimed to the end.     *)
LEMMA ClaimedIsCounted ==
  ASSUME ClaimInv, NEW c \in Callers, at[c] \in {"claim", "complete"}, registering = c
  PROVE  /\ Refusal(c) \in {"invalid_claim_token", "previously_claimed", "none"}
         /\ Refusal(c) = "previously_claimed" => ask[c].token \in 1..MaxRegistrations
                                                   /\ claims[ask[c].token] = 1
         /\ Refusal(c) = "none" => /\ ask[c].token \in DOMAIN registrations
                                   /\ registrations[ask[c].token].claimed = FALSE
         /\ \A d \in Callers : at[d] # "upgrade"
<1>1. \A d \in Callers : at[d] # "upgrade"
  BY Zenon DEF ClaimInv, Locks
<1>2. ask[c].token \in 1..MaxRegistrations
  BY Zenon DEF ClaimInv, AdminTyped, RequestTyped
<1>3. CASE ~Known(c)
  BY <1>1, <1>2, <1>3, Zenon DEF Refusal
<1>4. CASE Known(c)
  <2>1. registrations[ask[c].token].claimed \in BOOLEAN /\ ask[c].token \in DOMAIN registrations
    BY <1>4, Zenon DEF Known, ClaimInv, AdminTyped, Record
  <2>2. CASE registrations[ask[c].token].claimed = TRUE
    <3>1. ~Busy(ask[c].token)
      BY <1>1, <2>2, Zenon DEF Busy
    <3>2. claims[ask[c].token] = 1
      BY <2>1, <3>1, Zenon DEF ClaimInv, MapsAgree, Follows
    <3>3. Refusal(c) = "previously_claimed"
      BY <1>4, <2>2, Zenon DEF Refusal
    <3> QED
      BY <1>1, <1>2, <3>2, <3>3, Zenon
  <2>3. CASE registrations[ask[c].token].claimed = FALSE
    <3>1. Refusal(c) = "none"
      BY <1>4, <2>3, Zenon DEF Refusal
    <3> QED
      BY <1>1, <2>1, <2>3, <3>1, Zenon
  <2> QED
    BY <2>1, <2>2, <2>3, Zenon
<1> QED
  BY <1>3, <1>4, Zenon

LEMMA EmailSet ==
  ASSUME ClaimInv, NEW c \in Callers, SetEmail(c)
  PROVE  ClaimInv'
<1>1. /\ at[c] = "claim" /\ registering = c /\ registering' = Nobody
      /\ UNCHANGED <<credentials, issuing, tokens, keys, claims>>
      /\ at[c] \notin Inserting
  BY Zenon DEF SetEmail, fresh, Inserting
<1>2. PICK what : /\ Answer(c, what)
                  /\ what = "previously_claimed" => Refusal(c) = "previously_claimed"
                  /\ \/ UNCHANGED registrations
                     \/ /\ Refusal(c) = "none"
                        /\ registrations' =
                             [registrations EXCEPT ![ask[c].token].email = ask[c].email]
  BY Zenon DEF SetEmail
<1>3. \A r \in DOMAIN registrations : registrations[r] \in Record
  BY Zenon DEF ClaimInv, AdminTyped
<1>4. ask[c].email \in Emails
  BY <1>1, Zenon DEF ClaimInv, AdminTyped, RequestTyped
<1>5. /\ DOMAIN registrations' = DOMAIN registrations
      /\ \A r \in DOMAIN registrations :
           /\ registrations'[r] \in Record
           /\ registrations'[r].credential = registrations[r].credential
           /\ registrations'[r].claimed = registrations[r].claimed
           /\ registrations'[r].post = registrations[r].post
  BY <1>2, <1>3, <1>4 DEF Record
<1> QED
  BY <1>1, <1>2, <1>5, ClaimedIsCounted, CallEnds, Zenon

LEMMA LookedAt ==
  ASSUME ClaimInv, NEW c \in Callers,
         \/ \E r \in 1..MaxRegistrations : ViewOtp(c, r)
         \/ \E token : \/ get_report(c, token) \/ ack_safety_mode(c, token)
                       \/ \E unique, verified : submit_decision(c, token, unique, verified)
  PROVE  ClaimInv'
<1>1. PICK what : Answer(c, what) /\ what # "previously_claimed"
  BY DEF ViewOtp, get_report, ack_safety_mode, submit_decision, Authorized,
         authorize_admin_write, validate_dual_signature
<1>2. /\ UNCHANGED <<registrations, credentials, tokens, keys, claims>>
      /\ at[c] \in {"view", "authorize"}
      /\ \/ registering = c /\ registering' = Nobody /\ UNCHANGED issuing
         \/ issuing = c /\ issuing' = Nobody /\ UNCHANGED registering
  BY Zenon DEF ViewOtp, get_report, ack_safety_mode, submit_decision, Authorized, maps, fresh
<1>3. \A r \in DOMAIN registrations : registrations[r] \in Record
  BY Zenon DEF ClaimInv, AdminTyped
<1> QED
  BY <1>1, <1>2, <1>3, CallEnds, Zenon DEF Inserting

-----------------------------------------------------------------------------
(* start_registration and login_handler draw fresh tokens and keys.        *)
LEMMA InsertionBegins ==
  ASSUME ClaimInv, NEW c \in Callers, NEW step \in {"issue", "register", "login"},
         MovesTo(c, step), at[c] = "idle", RequestTyped(c)',
         UNCHANGED <<maps, locks, past>>,
         tokens' \in 0..MaxRegistrations, tokens' >= tokens, keys' \in Nat, keys' >= keys,
         step # "login" => tokens' = tokens + 1 /\ ask'[c].token = tokens + 1,
         step = "register" => ask'[c].record.credential = None,
         step = "issue" => keys' = keys + 1 /\ ask'[c].record.credential = keys + 1,
         step = "login" => keys' = keys + 1 /\ ask'[c].key = keys + 1
  PROVE  ClaimInv'
<1>0. AdminTyped /\ Locks
  BY Zenon DEF ClaimInv
<1>1. /\ UNCHANGED <<registrations, credentials, claims, told, registering, issuing>>
      /\ tokens \in Nat /\ tokens' \in Nat /\ keys \in Nat /\ MaxRegistrations \in Nat
  BY <1>0, BoundsAssumption DEF maps, locks, past, AdminTyped
<1>2. \A d \in Callers : RequestTyped(d)'
  BY <1>0, <1>1, RequestsTyped, Zenon
<1>3. AdminTyped'
  <2>1. 1..tokens \subseteq 1..tokens' /\ 1..keys \subseteq 1..keys'
    BY <1>1
  <2> QED
    BY <1>0, <1>1, <1>2, <2>1, ZenonT(30) DEF AdminTyped, MovesTo
<1>4. registering # c /\ issuing # c
  BY <1>0, Zenon DEF Locks, UnderRegistrations, UnderCredentials
<1>5. Locks'
  BY <1>0, <1>1, <1>4, LocksKept, Zenon
<1>6. /\ at'[c] = step
      /\ \A d \in Callers \ {c} : at'[d] = at[d] /\ ask'[d] = ask[d]
  BY Zenon DEF MovesTo
<1>7. TokensAreFresh'
  <2>1. \A d \in Callers : Registers(d) => ask[d].token \in 1..tokens
    BY <1>0, Zenon DEF AdminTyped, RequestTyped, Registers
  <2>2. \A d \in Callers \ {c} : Registers(d)' <=> Registers(d)
    BY <1>6, Zenon DEF Registers
  <2>3. Registers(c)' => /\ ask'[c].token = tokens + 1 /\ tokens' = tokens + 1
                         /\ tokens + 1 \in 1..MaxRegistrations
                         /\ tokens + 1 \notin DOMAIN registrations
    BY <1>0, <1>1, <1>6 DEF Registers, AdminTyped
  <2>4. \A r \in 1..MaxRegistrations : r > tokens => claims[r] = 0
    BY ZenonT(30) DEF ClaimInv, TokensAreFresh
  <2>5. \A d \in Callers : Registers(d)' =>
          ask'[d].token \notin DOMAIN registrations' /\ claims'[ask'[d].token] = 0
    BY <1>1, <1>6, <2>2, <2>3, <2>4, SMTT(20) DEF ClaimInv, TokensAreFresh
  <2>6. \A d, e \in Callers :
          Registers(d)' /\ Registers(e)' /\ ask'[d].token = ask'[e].token => d = e
    BY <1>1, <1>6, <2>1, <2>2, <2>3, SMTT(20) DEF ClaimInv, TokensAreFresh
  <2>7. \A r \in 1..MaxRegistrations : r > tokens' => claims'[r] = 0
    BY <1>1, <2>4
  <2> QED
    BY <2>5, <2>6, <2>7, Zenon DEF TokensAreFresh
<1>8. KeysAreFresh'
  <2>1. \A d \in Callers \ {c}, k \in Nat :
          Inserts(d, k)' => Inserts(d, k) /\ k \in 1..keys /\ k \notin DOMAIN credentials
    BY <1>6, ZenonT(30) DEF ClaimInv, KeysAreFresh, Inserts
  <2>2. \A k \in Nat : Inserts(c, k)' => k = keys + 1 /\ keys' = keys + 1
    BY <1>6, Zenon DEF Inserts
  <2>3. keys + 1 \notin DOMAIN credentials
    BY <1>0, <1>1, SMTT(20) DEF AdminTyped
  <2>4. \A d \in Callers, k \in Nat :
          Inserts(d, k)' => k \in 1..keys' /\ k \notin DOMAIN credentials'
    BY <1>1, <2>1, <2>2, <2>3, SMTT(20)
  <2>5. \A d, e \in Callers, k \in Nat : Inserts(d, k)' /\ Inserts(e, k)' => d = e
    BY <1>1, <2>1, <2>2, SMTT(20) DEF ClaimInv, KeysAreFresh
  <2> QED
    BY <2>4, <2>5, Zenon DEF KeysAreFresh
<1>9. CredentialsAreOwned'
  <2>1. \A d \in Callers : at[d] = "register" => at'[d] = "register" /\ ask'[d] = ask[d]
    BY <1>6, Zenon
  <2>2. \A d \in Callers : at'[d] = "register" =>
          \/ at[d] = "register" /\ ask'[d] = ask[d]
          \/ ask'[d].record.credential = None
    BY <1>6, Zenon
  <2> QED
    BY <1>1, <2>1, <2>2, SMTT(20) DEF ClaimInv, CredentialsAreOwned
<1>10. MapsAgree'
  <2>1. \A d \in Callers : at'[d] = "upgrade" \/ at[d] = "upgrade" =>
          at'[d] = at[d] /\ ask'[d] = ask[d]
    BY <1>6, Zenon
  <2>2. \A r \in DOMAIN registrations : Busy(r)' <=> Busy(r)
    BY <1>1, <2>1, Zenon DEF Busy
  <2>3. \A r \in DOMAIN registrations : Follows(r)'
    BY <1>1, <2>2, Zenon DEF ClaimInv, MapsAgree, Follows
  <2> QED
    BY <1>1, <2>1, <2>3, Zenon DEF ClaimInv, MapsAgree
<1> QED
  BY <1>3, <1>5, <1>7, <1>8, <1>9, <1>10, ZenonT(30) DEF ClaimInv

LEMMA RegistrationStarts ==
  ASSUME ClaimInv, NEW c \in Callers, NEW anonymous \in BOOLEAN, NEW lists \in ScopeLists,
         start_registration(c, anonymous, lists[1], lists[2])
  PROVE  ClaimInv'
<1> DEFINE record == [credential |-> IF anonymous THEN keys' ELSE None,
                      post |-> post_claim_scopes(lists[1], lists[2]),
                      email |-> None, claimed |-> FALSE]
           step == IF anonymous THEN "issue" ELSE "register"
           request == [call |-> "register", token |-> tokens', record |-> record]
<1>0. AdminTyped /\ tokens \in Nat /\ keys \in Nat /\ MaxRegistrations \in Nat
  BY BoundsAssumption DEF ClaimInv, AdminTyped
<1>1. /\ tokens < MaxRegistrations /\ tokens' = tokens + 1
      /\ keys' = IF anonymous THEN keys + 1 ELSE keys
      /\ Begin(c, request, step)
      /\ UNCHANGED <<maps, locks, past>>
  BY Zenon DEF start_registration
<1>2. step \in AllSteps /\ step \in {"issue", "register"}
  BY Zenon DEF AllSteps, UnderRegistrations, UnderCredentials
<1>3. MovesTo(c, step) /\ ask'[c] = request /\ at[c] = "idle"
  BY <1>0, <1>1, <1>2, BeginEffect, ZenonT(30)
<1>4. record \in Record /\ record.claimed = FALSE
  BY <1>0, <1>1, SMTT(20) DEF Record, PostScopes
<1>5. ask'[c].token = tokens' /\ ask'[c].record = record
  BY <1>3, SMTT(20)
<1>6. tokens' \in 1..tokens' /\ at'[c] = step
  BY <1>0, <1>1, <1>3 DEF MovesTo
<1>7. step = "issue" => keys' = keys + 1 /\ record.credential = keys + 1
  BY <1>1, Zenon
<1>8. step = "register" => record.credential = None
  BY ZenonT(30)
<1> HIDE DEF record, step
<1>9. RequestTyped(c)'
  BY <1>0, <1>2, <1>4, <1>5, <1>6, <1>7, SMTT(20) DEF RequestTyped
<1>10. /\ tokens' \in 0..MaxRegistrations /\ tokens' >= tokens /\ keys' \in Nat
       /\ keys' >= keys
  BY <1>0, <1>1
<1> QED
  BY <1>1, <1>2, <1>3, <1>5, <1>7, <1>8, <1>9, <1>10, InsertionBegins, Zenon

LEMMA LoginStarts ==
  ASSUME ClaimInv, NEW c \in Callers, NEW unique, NEW verified,
         login_handler(c, unique, verified)
  PROVE  ClaimInv'
<1>0. AdminTyped /\ keys \in Nat
  BY Zenon DEF ClaimInv, AdminTyped
<1>1. /\ keys' = keys + 1 /\ Begin(c, [call |-> "login", key |-> keys'], "login")
      /\ UNCHANGED <<maps, locks, past, tokens>>
  BY Zenon DEF login_handler
<1>2. "login" \in AllSteps
  BY ZenonT(30) DEF AllSteps, UnderCredentials
<1>3. MovesTo(c, "login") /\ ask'[c].key = keys' /\ at[c] = "idle"
  BY <1>0, <1>1, <1>2, BeginEffect, SMTT(20)
<1>4. RequestTyped(c)'
  BY <1>0, <1>1, <1>3, SMTT(20) DEF RequestTyped, MovesTo
<1>5. tokens' \in 0..MaxRegistrations /\ tokens' >= tokens /\ keys' \in Nat /\ keys' >= keys
  BY <1>0, <1>1, BoundsAssumption DEF AdminTyped
<1> QED
  BY <1>1, <1>3, <1>4, <1>5, InsertionBegins, ZenonT(30)

-----------------------------------------------------------------------------
(* CREDENTIALS.insert in start_registration and login_handler.             *)
LEMMA CredentialInserted ==
  ASSUME ClaimInv, NEW c \in Callers, NEW k \in Nat, Inserts(c, k),
         NEW v \in Credential, credentials' = Put(credentials, k, v),
         issuing = c, issuing' = Nobody,
         UNCHANGED <<registrations, registering, tokens, keys, claims, told>>,
         \/ /\ MovesTo(c, "idle") /\ v.registration = None
         \/ /\ MovesTo(c, "register") /\ at[c] = "issue" /\ ask'[c] = ask[c]
            /\ v = [registration |-> ask[c].token, scopes |-> AgentScopes]
  PROVE  ClaimInv'
<1>0. AdminTyped /\ Locks
  BY Zenon DEF ClaimInv
<1>1. /\ at'[c] \in {"idle", "register"} /\ at[c] \in {"issue", "login"}
      /\ at'[c] = "register" =>
           /\ ask'[c] = ask[c] /\ at[c] = "issue"
           /\ v = [registration |-> ask[c].token, scopes |-> AgentScopes]
      /\ at'[c] = "idle" => v.registration = None
      /\ \A d \in Callers \ {c} : at'[d] = at[d] /\ ask'[d] = ask[d]
  BY Zenon DEF MovesTo, Inserts
<1>2. k \in 1..keys /\ k \notin DOMAIN credentials
  BY Zenon DEF ClaimInv, KeysAreFresh
<1>3. /\ DOMAIN credentials' = DOMAIN credentials \union {k} /\ credentials'[k] = v
      /\ \A j \in DOMAIN credentials : credentials'[j] = credentials[j]
  BY <1>2, Zenon DEF Put
<1>4. \A d \in Callers : RequestTyped(d)'
  <2>1. RequestTyped(c) /\ tokens' \in Nat /\ tokens' >= tokens
    BY <1>0, BoundsAssumption DEF AdminTyped
  <2>2. RequestTyped(c)'
    BY <1>1, <2>1, Zenon DEF RequestTyped
  <2> QED
    BY <1>0, <2>1, <2>2, RequestsTyped, ZenonT(30)
<1>5. AdminTyped'
  BY <1>0, <1>2, <1>3, <1>4, ZenonT(30) DEF AdminTyped, MovesTo
<1>6. Locks'
  <2>1. registering # c
    BY <1>0, <1>1, ZenonT(30) DEF Locks, UnderRegistrations
  <2> QED
    BY <1>0, <2>1, LocksKept, NobodyAssumption, ZenonT(30)
<1>7. TokensAreFresh'
  <2>1. \A d \in Callers : Registers(d)' => Registers(d) /\ ask'[d] = ask[d]
    BY <1>1, Zenon DEF Registers
  <2> QED
    BY <2>1, ZenonT(30) DEF ClaimInv, TokensAreFresh
<1>8. KeysAreFresh'
  <2>1. \A d \in Callers, j \in Nat : Inserts(d, j)' => Inserts(d, j) /\ d # c
    BY <1>1, Zenon DEF Inserts
  <2>2. \A d \in Callers, j \in Nat : Inserts(d, j)' => j # k
    BY <2>1, Zenon DEF ClaimInv, KeysAreFresh
  <2> QED
    BY <1>3, <2>1, <2>2, Zenon DEF ClaimInv, KeysAreFresh
<1>9. CredentialsAreOwned'
  <2>1. \A d \in Callers : at[d] = "register" => at'[d] = "register" /\ ask'[d] = ask[d]
    BY <1>1, Zenon
  <2>2. at'[c] = "register" => ask'[c].record.credential = k
    BY <1>1, Zenon DEF Inserts
  <2>3. ASSUME NEW j \in DOMAIN credentials'
        PROVE  LET r == credentials'[j].registration
               IN \/ r = None
                  \/ r \in DOMAIN registrations' /\ registrations'[r].credential = j
                  \/ \E d \in Callers : /\ at'[d] = "register" /\ ask'[d].token = r
                                        /\ ask'[d].record.credential = j
    <3>1. CASE j = k
      BY <1>1, <1>3, <2>2, <3>1
    <3>2. CASE j \in DOMAIN credentials
      <4> DEFINE r == credentials[j].registration
      <4>1. \/ r = None
            \/ r \in DOMAIN registrations /\ registrations[r].credential = j
            \/ \E d \in Callers : /\ at[d] = "register" /\ ask[d].token = r
                                  /\ ask[d].record.credential = j
        BY <3>2, Zenon DEF ClaimInv, CredentialsAreOwned
      <4>2. credentials'[j].registration = r /\ registrations' = registrations
        BY <1>3, <3>2, Zenon
      <4> HIDE DEF r
      <4> QED
        BY <2>1, <4>1, <4>2, Zenon
    <3> QED
      BY <1>3, <3>1, <3>2, ZenonT(30)
  <2>4. ASSUME NEW d \in Callers, at'[d] = "register"
        PROVE  LET key == ask'[d].record.credential
               IN \/ key = None
                  \/ /\ key \in DOMAIN credentials'
                     /\ credentials'[key] = [registration |-> ask'[d].token,
                                             scopes |-> AgentScopes]
    <3>1. CASE d = c
      BY <1>1, <1>3, <2>2, <2>4, <3>1, ZenonT(30)
    <3>2. CASE d # c
      <4>1. at[d] = "register" /\ ask'[d] = ask[d]
        BY <1>1, <2>4, <3>2, Zenon
      <4>2. \/ ask[d].record.credential = None
            \/ /\ ask[d].record.credential \in DOMAIN credentials
               /\ credentials[ask[d].record.credential] =
                    [registration |-> ask[d].token, scopes |-> AgentScopes]
        BY <4>1, Zenon DEF ClaimInv, CredentialsAreOwned
      <4> QED
        BY <1>3, <4>1, <4>2, Zenon
    <3> QED
      BY <3>1, <3>2, Zenon
  <2> QED
    BY <2>3, <2>4, Zenon DEF CredentialsAreOwned
<1>10. MapsAgree'
  <2>1. \A d \in Callers : at'[d] = "upgrade" \/ at[d] = "upgrade" =>
          at'[d] = at[d] /\ ask'[d] = ask[d]
    BY <1>1, Zenon
  <2>2. \A r \in DOMAIN registrations : Busy(r)' <=> Busy(r)
    BY <2>1, ZenonT(30) DEF Busy
  <2>3. \A r \in DOMAIN registrations : Follows(r)'
    BY <1>3, <2>2, ZenonT(30) DEF ClaimInv, MapsAgree, Follows
  <2> QED
    BY <2>1, <2>3, Zenon DEF ClaimInv, MapsAgree
<1> QED
  BY <1>5, <1>6, <1>7, <1>8, <1>9, <1>10, ZenonT(30) DEF ClaimInv

LEMMA IssuedOrLoggedIn ==
  ASSUME ClaimInv, NEW c \in Callers, Issue(c) \/ Login(c)
  PROVE  ClaimInv'
<1>0. AdminTyped
  BY Zenon DEF ClaimInv
<1>1. CASE Issue(c)
  <2> DEFINE k == ask[c].record.credential
             v == [registration |-> ask[c].token, scopes |-> AgentScopes]
  <2>1. /\ at[c] = "issue" /\ issuing = c /\ issuing' = Nobody
        /\ credentials' = Put(credentials, k, v) /\ Turn(c, "register")
        /\ UNCHANGED <<registrations, registering, tokens, keys, claims>>
    BY <1>1, ZenonT(30) DEF Issue, fresh, past
  <2>2. k \in Nat /\ ask[c].token \in Nat
    BY <1>0, <2>1, BoundsAssumption DEF AdminTyped, RequestTyped
  <2>3. v \in Credential /\ Inserts(c, k)
    BY <2>1, <2>2, Zenon DEF Credential, Inserts
  <2>4. "register" \in AllSteps
    BY Zenon DEF AllSteps, UnderRegistrations
  <2>5. MovesTo(c, "register") /\ ask'[c] = ask[c] /\ UNCHANGED told
    BY <1>0, <2>1, <2>4, GotoEffect, ZenonT(30)
  <2> HIDE DEF k
  <2> QED
    BY <2>1, <2>2, <2>3, <2>5, CredentialInserted, ZenonT(30)
<1>2. CASE Login(c)
  <2> DEFINE k == ask[c].key
             v == [registration |-> None, scopes |-> AdminScopes]
  <2>1. /\ at[c] = "login" /\ issuing = c /\ issuing' = Nobody
        /\ credentials' = Put(credentials, k, v) /\ Answer(c, "ok")
        /\ UNCHANGED <<registrations, registering, tokens, keys, claims>>
    BY <1>2, Zenon DEF Login, fresh
  <2>2. v \in Credential /\ v.registration = None /\ Inserts(c, k)
    BY <2>1, Zenon DEF Credential, Inserts
  <2>3. k \in Nat
    BY <1>0, <2>1, Zenon DEF AdminTyped, RequestTyped
  <2>4. MovesTo(c, "idle") /\ UNCHANGED told
    <3>1. AdminTyped /\ Answer(c, "ok")
      BY <1>0, <2>1, Zenon
    <3> QED
      BY <3>1, AnswerEffect
  <2> HIDE DEF k, v
  <2> QED
    BY <2>1, <2>2, <2>3, <2>4, CredentialInserted, ZenonT(30)
<1> QED
  BY <1>1, <1>2, Zenon

(* REGISTRATIONS.insert in start_registration.                             *)
LEMMA RecordInserted ==
  ASSUME ClaimInv, NEW c \in Callers, Register(c)
  PROVE  ClaimInv'
<1>t. PICK t, record : t = ask[c].token /\ record = ask[c].record
  BY Zenon
<1>0. AdminTyped /\ Locks
  BY Zenon DEF ClaimInv
<1>1. /\ at[c] = "register" /\ registering = c /\ registering' = Nobody
      /\ registrations' = Put(registrations, t, record) /\ Answer(c, "registered")
      /\ UNCHANGED <<credentials, issuing, tokens, keys, claims>>
  BY <1>t, ZenonT(30) DEF Register, fresh
<1>2. MovesTo(c, "idle") /\ UNCHANGED told
  BY <1>0, <1>1, AnswerEffect
<1>3. /\ at'[c] = "idle"
      /\ \A d \in Callers \ {c} : at'[d] = at[d] /\ ask'[d] = ask[d]
  BY <1>2, ZenonT(30) DEF MovesTo
<1>4. /\ t \in 1..tokens /\ record \in Record /\ record.claimed = FALSE
      /\ tokens \in Nat /\ tokens <= MaxRegistrations
  BY <1>t, <1>0, <1>1, BoundsAssumption DEF AdminTyped, RequestTyped
<1>5. t \notin DOMAIN registrations /\ claims[t] = 0
  BY <1>t, <1>1, Zenon DEF ClaimInv, TokensAreFresh, Registers
<1>6. \/ record.credential = None
      \/ /\ record.credential \in DOMAIN credentials
         /\ credentials[record.credential] = [registration |-> t, scopes |-> AgentScopes]
  BY <1>t, <1>1, Zenon DEF ClaimInv, CredentialsAreOwned
<1>7. /\ DOMAIN registrations' = DOMAIN registrations \union {t}
      /\ registrations'[t] = record
      /\ \A r \in DOMAIN registrations : registrations'[r] = registrations[r]
  BY <1>1, <1>5, Zenon DEF Put
<1>8. \A d \in Callers : RequestTyped(d)'
  <2>1. RequestTyped(c)'
    BY <1>3, Zenon DEF RequestTyped
  <2>2. tokens' \in Nat /\ tokens' >= tokens
    BY <1>1, <1>4
  <2> QED
    BY <1>0, <1>2, <2>1, <2>2, RequestsTyped, ZenonT(30)
<1>9. AdminTyped'
  BY <1>0, <1>1, <1>2, <1>4, <1>7, <1>8, ZenonT(30) DEF AdminTyped, MovesTo
<1>10. Locks'
  <2>1. issuing # c
    BY <1>0, <1>1, ZenonT(30) DEF Locks, UnderCredentials
  <2> QED
    BY <1>0, <1>1, <1>2, <2>1, LocksKept, NobodyAssumption, ZenonT(30)
<1>11. TokensAreFresh'
  <2>1. \A d \in Callers : Registers(d)' => Registers(d) /\ ask'[d] = ask[d] /\ d # c
    BY <1>3, Zenon DEF Registers
  <2>2. \A d \in Callers : Registers(d)' => ask[d].token # t
    BY <1>t, <1>1, <2>1, Zenon DEF ClaimInv, TokensAreFresh, Registers
  <2> QED
    BY <1>1, <1>7, <2>1, <2>2, SMTT(20) DEF ClaimInv, TokensAreFresh
<1>12. KeysAreFresh'
  <2>1. \A d \in Callers, j \in Nat : Inserts(d, j)' => Inserts(d, j)
    BY <1>3, Zenon DEF Inserts
  <2> QED
    BY <1>1, <2>1, Zenon DEF ClaimInv, KeysAreFresh
<1>13. CredentialsAreOwned'
  <2>1. ASSUME NEW j \in DOMAIN credentials
        PROVE  LET r == credentials[j].registration
               IN \/ r = None
                  \/ r \in DOMAIN registrations' /\ registrations'[r].credential = j
                  \/ \E d \in Callers : /\ at'[d] = "register" /\ ask'[d].token = r
                                        /\ ask'[d].record.credential = j
    <3> DEFINE r == credentials[j].registration
    <3>1. CASE r = None
      BY <3>1, Zenon
    <3>2. CASE r \in DOMAIN registrations /\ registrations[r].credential = j
      BY <1>7, <3>2, Zenon
    <3>3. CASE \E d \in Callers : /\ at[d] = "register" /\ ask[d].token = r
                                  /\ ask[d].record.credential = j
      <4>1. PICK d \in Callers : /\ at[d] = "register" /\ ask[d].token = r
                                 /\ ask[d].record.credential = j
        BY <3>3, Zenon
      <4>2. CASE d = c
        BY <1>t, <1>7, <4>1, <4>2, ZenonT(30)
      <4>3. CASE d # c
        BY <1>3, <4>1, <4>3, Zenon
      <4> QED
        BY <4>2, <4>3, Zenon
    <3> QED
      BY <3>1, <3>2, <3>3, Zenon DEF ClaimInv, CredentialsAreOwned
  <2>2. \A d \in Callers : at'[d] = "register" => at[d] = "register" /\ ask'[d] = ask[d]
    BY <1>3, Zenon
  <2>3. credentials' = credentials
    BY <1>1, Zenon
  <2>4. CredentialsAreOwned
    BY Zenon DEF ClaimInv
  <2> QED
    BY <2>1, <2>2, <2>3, <2>4, ZenonT(30) DEF CredentialsAreOwned
<1>14. MapsAgree'
  <2>0. credentials' = credentials /\ claims' = claims /\ told' = told
    BY <1>1, <1>2, Zenon
  <2>1. \A d \in Callers : at'[d] = "upgrade" \/ at[d] = "upgrade" =>
          at'[d] = at[d] /\ ask'[d] = ask[d]
    BY <1>1, <1>3, Zenon
  <2>2. \A r \in DOMAIN registrations : Busy(r)' <=> Busy(r)
    BY <1>7, <2>1, ZenonT(30) DEF Busy
  <2>3. \A r \in DOMAIN registrations : Follows(r)'
    BY <1>7, <2>0, <2>2 DEF ClaimInv, MapsAgree, Follows
  <2>4. Follows(t)'
    <3>1. Busy(t)'
      BY <1>4, <1>7, ZenonT(30) DEF Busy
    <3> QED
      BY <1>5, <1>6, <1>7, <2>0, <3>1, ZenonT(30) DEF Follows
  <2>5. \A d \in Callers : at'[d] = "upgrade" =>
       /\ ask'[d].token \in DOMAIN registrations'
       /\ registrations'[ask'[d].token].claimed = TRUE
    BY <1>7, <2>1 DEF ClaimInv, MapsAgree
  <2>6. /\ \A r \in 1..MaxRegistrations : claims'[r] <= 1
        /\ \A r \in told' : r \in 1..MaxRegistrations /\ claims'[r] = 1
    BY <2>0, Zenon DEF ClaimInv, MapsAgree
  <2>7. \A r \in DOMAIN registrations' : Follows(r)'
    BY <1>7, <2>3, <2>4, Zenon
  <2> QED
    BY <2>5, <2>6, <2>7, Zenon DEF MapsAgree
<1> QED
  BY <1>9, <1>10, <1>11, <1>12, <1>13, <1>14, ZenonT(30) DEF ClaimInv

-----------------------------------------------------------------------------
(* complete_claim: the record is marked under REGISTRATIONS ...            *)
LEMMA Marked ==
  ASSUME ClaimInv, NEW c \in Callers, NEW right_otp \in BOOLEAN, MarkClaimed(c, right_otp)
  PROVE  ClaimInv'
<1>t. PICK t : t = ask[c].token
  BY Zenon
<1>0. AdminTyped /\ Locks
  BY Zenon DEF ClaimInv
<1>1. /\ at[c] = "complete" /\ registering = c
      /\ UNCHANGED <<credentials, issuing, tokens, keys, claims>>
  BY Zenon DEF MarkClaimed, fresh
<1>2. CASE Refusal(c) = "none" /\ right_otp
  <2>1. /\ registrations' = [registrations EXCEPT ![t].claimed = TRUE]
        /\ Turn(c, "upgrade") /\ UNCHANGED registering
    BY <1>t, <1>2, Zenon DEF MarkClaimed
  <2>2. "upgrade" \in AllSteps
    BY Zenon DEF AllSteps, UnderCredentials
  <2>3. MovesTo(c, "upgrade") /\ ask'[c] = ask[c] /\ UNCHANGED told
    BY <1>0, <2>1, <2>2, GotoEffect, Zenon
  <2>4. /\ at'[c] = "upgrade" /\ ask'[c] = ask[c]
        /\ \A d \in Callers \ {c} : at'[d] = at[d] /\ ask'[d] = ask[d]
    BY <2>3, Zenon DEF MovesTo
  <2>5. /\ t \in DOMAIN registrations /\ registrations[t].claimed = FALSE
        /\ \A d \in Callers : at[d] # "upgrade"
    BY <1>t, <1>1, <1>2, ClaimedIsCounted, Zenon
  <2>6. /\ DOMAIN registrations' = DOMAIN registrations
        /\ \A r \in DOMAIN registrations : r # t => registrations'[r] = registrations[r]
        /\ registrations'[t] \in Record /\ registrations'[t].claimed = TRUE
        /\ registrations'[t].credential = registrations[t].credential
        /\ registrations'[t].post = registrations[t].post
    BY <1>0, <2>1, <2>5, Zenon DEF AdminTyped, Record
  <2>7. \A d \in Callers : RequestTyped(d)'
    <3>1. RequestTyped(c) /\ tokens' \in Nat /\ tokens' >= tokens
      BY <1>0, <1>1, BoundsAssumption DEF AdminTyped
    <3>2. RequestTyped(c)'
      BY <1>1, <2>4, <3>1, Zenon DEF RequestTyped
    <3> QED
      BY <1>0, <2>3, <3>1, <3>2, RequestsTyped, ZenonT(30)
  <2>8. AdminTyped'
    BY <1>0, <1>1, <2>3, <2>6, <2>7, ZenonT(30) DEF AdminTyped, MovesTo
  <2>9. Locks'
    <3>1. issuing # c
      BY <1>0, <1>1, ZenonT(30) DEF Locks, UnderCredentials
    <3> QED
      BY <1>0, <1>1, <2>1, <2>3, <3>1, LocksKept, ZenonT(30)
  <2>10. TokensAreFresh'
    <3>1. \A d \in Callers : Registers(d)' => Registers(d) /\ ask'[d] = ask[d]
      BY <2>4, Zenon DEF Registers
    <3>2. tokens' = tokens /\ claims' = claims
      BY <1>1, Zenon
    <3>3. TokensAreFresh
      BY Zenon DEF ClaimInv
    <3> QED
      BY <2>6, <3>1, <3>2, <3>3 DEF TokensAreFresh
  <2>11. KeysAreFresh'
    <3>1. \A d \in Callers, j \in Nat : Inserts(d, j)' => Inserts(d, j)
      BY <2>4, Zenon DEF Inserts
    <3> QED
      BY <1>1, <3>1, Zenon DEF ClaimInv, KeysAreFresh
  <2>12. CredentialsAreOwned'
    <3>1. \A d \in Callers : at[d] = "register" \/ at'[d] = "register" =>
            at'[d] = at[d] /\ ask'[d] = ask[d]
      BY <1>1, <2>4, Zenon
    <3>2. \A r \in DOMAIN registrations :
            registrations'[r].credential = registrations[r].credential
      BY <2>6, Zenon
    <3>3. ASSUME NEW j \in DOMAIN credentials, credentials[j].registration # None
          PROVE  LET r == credentials[j].registration
                 IN \/ r \in DOMAIN registrations' /\ registrations'[r].credential = j
                    \/ \E d \in Callers : /\ at'[d] = "register" /\ ask'[d].token = r
                                          /\ ask'[d].record.credential = j
      <4> DEFINE r == credentials[j].registration
      <4>1. CASE r \in DOMAIN registrations /\ registrations[r].credential = j
        BY <2>6, <3>2, <4>1, Zenon
      <4>2. CASE \E d \in Callers : /\ at[d] = "register" /\ ask[d].token = r
                                    /\ ask[d].record.credential = j
        BY <3>1, <4>2, Zenon
      <4> QED
        BY <3>3, <4>1, <4>2, Zenon DEF ClaimInv, CredentialsAreOwned
    <3>4. credentials' = credentials
      BY <1>1, Zenon
    <3>5. CredentialsAreOwned
      BY Zenon DEF ClaimInv
    <3>6. \A d \in Callers : at'[d] = "register" =>
            LET key == ask'[d].record.credential
            IN \/ key = None
               \/ /\ key \in DOMAIN credentials'
                  /\ credentials'[key] = [registration |-> ask'[d].token,
                                          scopes |-> AgentScopes]
      BY <3>1, <3>4, <3>5, ZenonT(30) DEF CredentialsAreOwned
    <3> QED
      BY <3>3, <3>4, <3>6, Zenon DEF CredentialsAreOwned
  <2>13. MapsAgree'
    <3>1. Busy(t) /\ Busy(t)'
      BY <1>t, <2>4, <2>5, Zenon DEF Busy
    <3>2. Follows(t)'
      BY <1>1, <2>5, <2>6, <3>1, ZenonT(30) DEF ClaimInv, MapsAgree, Follows
    <3>3. \A r \in DOMAIN registrations : r # t => (Busy(r)' <=> Busy(r))
      BY <1>t, <2>4, <2>5, <2>6 DEF Busy
    <3>4. \A r \in DOMAIN registrations : r # t => Follows(r)'
      BY <1>1, <2>6, <3>3, Zenon DEF ClaimInv, MapsAgree, Follows
    <3>5. \A d \in Callers : at'[d] = "upgrade" => ask'[d].token = t
      BY <1>t, <2>4, <2>5, Zenon
    <3> QED
      BY <1>1, <2>3, <2>5, <2>6, <3>2, <3>4, <3>5, SMTT(20) DEF ClaimInv, MapsAgree
  <2> QED
    BY <2>8, <2>9, <2>10, <2>11, <2>12, <2>13, ZenonT(30) DEF ClaimInv
<1>3. CASE ~(Refusal(c) = "none" /\ right_otp)
  <2>1. /\ Answer(c, IF Refusal(c) = "none" THEN "otp_invalid" ELSE Refusal(c))
        /\ registering' = Nobody /\ UNCHANGED registrations
    BY <1>3, Zenon DEF MarkClaimed
  <2>2. PICK what : /\ what = IF Refusal(c) = "none" THEN "otp_invalid" ELSE Refusal(c)
                    /\ Answer(c, what)
    BY <2>1, Zenon
  <2>3. what = "previously_claimed" => /\ ask[c].token \in 1..MaxRegistrations
                                       /\ claims[ask[c].token] = 1
    BY <1>1, <2>2, ClaimedIsCounted, Zenon
  <2>4. \A r \in DOMAIN registrations : registrations[r] \in Record
    BY <1>0, Zenon DEF AdminTyped
  <2>5. at[c] \notin Inserting
    BY <1>1, Zenon DEF Inserting
  <2> QED
    BY <1>1, <2>1, <2>2, <2>3, <2>4, <2>5, CallEnds, ZenonT(30)
<1> QED
  BY <1>2, <1>3, Zenon

LEMMA Restarted ==
  ASSUME ClaimInv, Restart
  PROVE  ClaimInv'
<1>1. /\ DOMAIN registrations' = {} /\ DOMAIN credentials' = {}
      /\ registering' = Nobody /\ issuing' = Nobody
      /\ at' = [c \in Callers |-> "idle"] /\ ask' = [c \in Callers |-> NoRequest]
      /\ UNCHANGED <<tokens, keys, claims, told>>
  BY DEF Restart, past
<1>2. AdminTyped'
  BY <1>1, Zenon DEF ClaimInv, AdminTyped, RequestTyped, AllSteps
<1> QED
  BY <1>1, <1>2, NobodyAssumption, ZenonT(30)
     DEF ClaimInv, Locks, TokensAreFresh, KeysAreFresh, CredentialsAreOwned, MapsAgree,
         Registers, Inserts

(* ... and its credential upgraded, or issued, under both mutexes.         *)
LEMMA Upgraded ==
  ASSUME ClaimInv, NEW c \in Callers, Upgrade(c)
  PROVE  ClaimInv'
<1>t. PICK t, old : t = ask[c].token /\ old = registrations[t].credential
  BY Zenon
<1>0. AdminTyped /\ Locks
  BY DEF ClaimInv
<1>1. /\ at[c] = "upgrade" /\ registering = c /\ issuing = c
      /\ registering' = Nobody /\ issuing' = Nobody
      /\ claims' = [claims EXCEPT ![t] = @ + 1]
      /\ Answer(c, "claimed") /\ UNCHANGED tokens
  BY <1>t, Zenon DEF Upgrade
<1>2. MovesTo(c, "idle") /\ UNCHANGED told
  <2>1. AdminTyped /\ Answer(c, "claimed")
    BY <1>0, <1>1, Zenon
  <2> QED
    BY <2>1, AnswerEffect
<1>3. /\ at'[c] = "idle"
      /\ \A d \in Callers \ {c} : at'[d] = at[d] /\ ask'[d] = ask[d] /\ at[d] # "upgrade"
  <2>1. \A d \in Callers \ {c} : at[d] # "upgrade"
    BY <1>0, <1>1, ZenonT(30) DEF Locks
  <2> QED
    BY <1>0, <1>2, <2>1, ZenonT(30) DEF MovesTo
<1>4. /\ t \in DOMAIN registrations /\ registrations[t].claimed = TRUE
      /\ t \in 1..MaxRegistrations /\ registrations[t] \in Record
      /\ tokens \in Nat /\ keys \in Nat
  BY <1>t, <1>0, <1>1, BoundsAssumption DEF ClaimInv, MapsAgree, AdminTyped, RequestTyped
<1>5. /\ claims[t] = 0
      /\ \/ old = None
         \/ /\ old \in DOMAIN credentials
            /\ credentials[old] = [registration |-> t, scopes |-> AgentScopes]
  <2>1. Busy(t)
    BY <1>t, <1>1, ZenonT(30) DEF Busy
  <2> QED
    BY <1>t, <1>4, <2>1, Zenon DEF ClaimInv, MapsAgree, Follows
<1>6. /\ claims' \in [1..MaxRegistrations -> Nat] /\ claims'[t] = 1
      /\ \A r \in 1..MaxRegistrations : r # t => claims'[r] = claims[r]
  BY <1>0, <1>1, <1>4, <1>5 DEF AdminTyped
(* Either way the record and one credential name each other.               *)
<1>7. PICK key \in Nat :
        /\ keys' \in Nat /\ keys' >= keys /\ key \in 1..keys'
        /\ \/ key = old /\ key \in DOMAIN credentials /\ credentials[key].registration = t
           \/ key = keys + 1 /\ old = None
        /\ DOMAIN registrations' = DOMAIN registrations
        /\ \A r \in DOMAIN registrations : r # t => registrations'[r] = registrations[r]
        /\ registrations'[t] \in Record /\ registrations'[t].claimed = TRUE
        /\ registrations'[t].credential = key
        /\ registrations'[t].post = registrations[t].post
        /\ DOMAIN credentials' = DOMAIN credentials \union {key}
        /\ \A k \in DOMAIN credentials : k # key => credentials'[k] = credentials[k]
        /\ credentials'[key] = [registration |-> t, scopes |-> registrations[t].post]
  <2>1. CASE UpgradeExisting(c)
    <3>1. /\ old # None /\ UNCHANGED <<registrations, keys>>
          /\ credentials' = IF old \in DOMAIN credentials
                            THEN [credentials EXCEPT ![old].scopes = registrations[t].post]
                            ELSE credentials
      BY <1>t, <2>1, Zenon DEF UpgradeExisting
    <3>2. /\ old \in DOMAIN credentials
          /\ credentials[old] = [registration |-> t, scopes |-> AgentScopes]
      BY <1>5, <3>1, Zenon
    <3>0. old \in 1..keys
      BY <1>0, <3>2, Zenon DEF AdminTyped
    <3>3. /\ DOMAIN credentials' = DOMAIN credentials
          /\ \A k \in DOMAIN credentials : k # old => credentials'[k] = credentials[k]
          /\ credentials'[old] = [credentials[old] EXCEPT !.scopes = registrations[t].post]
      BY <3>1, <3>2, Zenon
    <3>4. credentials'[old] = [registration |-> t, scopes |-> registrations[t].post]
      BY <3>2, <3>3
    <3>5. credentials[old].registration = t /\ old \in Nat
      <4>1. credentials[old].registration = t
        BY <3>2
      <4>2. old \in Nat
        BY <1>4, <3>0
      <4> QED
        BY <4>1, <4>2, ZenonT(30)
    <3>6. DOMAIN credentials' = DOMAIN credentials \union {old}
      <4>1. DOMAIN credentials \union {old} = DOMAIN credentials
        BY <3>2, Zenon
      <4> QED
        BY <3>3, <4>1, Zenon
    <3>7. keys' \in Nat /\ keys' >= keys
      BY <1>4, <3>1
    <3>8. /\ DOMAIN registrations' = DOMAIN registrations
          /\ \A r \in DOMAIN registrations : r # t => registrations'[r] = registrations[r]
          /\ registrations'[t] \in Record /\ registrations'[t].claimed = TRUE
          /\ registrations'[t].credential = old
          /\ registrations'[t].post = registrations[t].post
          /\ old \in 1..keys'
      BY <1>t, <1>4, <3>0, <3>1, <3>2, ZenonT(30)
    <3> QED
      BY <3>2, <3>3, <3>4, <3>5, <3>6, <3>7, <3>8, ZenonT(30)
  <2>2. CASE IssueOnClaim(c)
    <3>1. PICK key : key = keys + 1
      BY Zenon
    <3>2. /\ old = None /\ keys' = key
          /\ credentials' = Put(credentials, key, [registration |-> t,
                                                   scopes |-> registrations[t].post])
          /\ registrations' = [registrations EXCEPT ![t].credential = key]
      BY <1>t, <2>2, <3>1, ZenonT(30) DEF IssueOnClaim
    <3>3. key \in Nat /\ key \in 1..key /\ key >= keys /\ key \notin DOMAIN credentials
      BY <1>0, <1>4, <3>1 DEF AdminTyped
    <3>4. /\ DOMAIN credentials' = DOMAIN credentials \union {key}
          /\ \A k \in DOMAIN credentials : k # key => credentials'[k] = credentials[k]
          /\ credentials'[key] = [registration |-> t, scopes |-> registrations[t].post]
      BY <3>2, Zenon DEF Put
    <3>5. /\ DOMAIN registrations' = DOMAIN registrations
          /\ \A r \in DOMAIN registrations : r # t => registrations'[r] = registrations[r]
          /\ registrations'[t] = [registrations[t] EXCEPT !.credential = key]
      BY <1>4, <3>2, Zenon
    <3>6. /\ registrations'[t] \in Record /\ registrations'[t].claimed = TRUE
          /\ registrations'[t].credential = key
          /\ registrations'[t].post = registrations[t].post
      BY <1>4, <3>3, <3>5, ZenonT(30) DEF Record
    <3> QED
      BY <3>1, <3>2, <3>3, <3>4, <3>5, <3>6, ZenonT(30)
  <2> QED
    BY <2>1, <2>2, Zenon DEF Upgrade
<1>k. /\ keys' \in Nat /\ keys' >= keys /\ key \in 1..keys'
      /\ \/ key = old /\ key \in DOMAIN credentials /\ credentials[key].registration = t
         \/ key = keys + 1 /\ old = None
  BY <1>7, Zenon
<1>r. /\ DOMAIN registrations' = DOMAIN registrations
      /\ \A r \in DOMAIN registrations : r # t => registrations'[r] = registrations[r]
      /\ registrations'[t] \in Record /\ registrations'[t].claimed = TRUE
      /\ registrations'[t].credential = key
      /\ registrations'[t].post = registrations[t].post
  BY <1>7, Zenon
<1>c. /\ DOMAIN credentials' = DOMAIN credentials \union {key}
      /\ \A k \in DOMAIN credentials : k # key => credentials'[k] = credentials[k]
      /\ credentials'[key] = [registration |-> t, scopes |-> registrations[t].post]
  BY <1>7, Zenon
<1>8. AdminTyped'
  <2>1. \A d \in Callers : RequestTyped(d)'
    <3>1. RequestTyped(c)'
      BY <1>3, Zenon DEF RequestTyped
    <3>2. tokens' \in Nat /\ tokens' >= tokens
      BY <1>1, <1>4, SMTT(20)
    <3> QED
      BY <1>0, <1>2, <3>1, <3>2, RequestsTyped, ZenonT(30)
  <2>2. credentials'[key] \in Credential
    BY <1>4, <1>c DEF Credential, Record
  <2>3. DOMAIN credentials' \subseteq 1..keys'
    <3>1. 1..keys \subseteq 1..keys'
      BY <1>4, <1>k
    <3> QED
      BY <1>0, <1>k, <1>c, <3>1, ZenonT(30) DEF AdminTyped
  <2> QED
    BY <1>0, <1>1, <1>2, <1>6, <1>k, <1>r, <1>c, <2>1, <2>2, <2>3, ZenonT(30) DEF AdminTyped, MovesTo
<1>9. Locks'
  BY <1>0, <1>1, <1>2, LocksKept, NobodyAssumption, ZenonT(30)
<1>10. TokensAreFresh'
  <2>1. \A d \in Callers : Registers(d)' => Registers(d) /\ ask'[d] = ask[d]
    BY <1>3, Zenon DEF Registers
  <2>2. \A d \in Callers : Registers(d) => ask[d].token # t /\ ask[d].token \in 1..MaxRegistrations
    <3>1. \A d \in Callers : Registers(d) => ask[d].token \in 1..tokens
      BY <1>0, ZenonT(30) DEF AdminTyped, RequestTyped, Registers
    <3>2. 1..tokens \subseteq 1..MaxRegistrations
      BY <1>0, BoundsAssumption DEF AdminTyped
    <3>3. \A d \in Callers : Registers(d) => ask[d].token # t
      BY <1>4, Zenon DEF ClaimInv, TokensAreFresh
    <3> QED
      BY <3>1, <3>2, <3>3, Zenon
  <2>3. t \in 1..tokens
    BY <1>0, <1>4, Zenon DEF AdminTyped
  <2>4. tokens' = tokens /\ DOMAIN registrations' = DOMAIN registrations
    BY <1>1, <1>r, Zenon
  <2>5. TokensAreFresh
    BY Zenon DEF ClaimInv
  <2>6. ASSUME NEW d \in Callers, Registers(d)'
        PROVE  ask'[d].token \notin DOMAIN registrations' /\ claims'[ask'[d].token] = 0
    <3>1. Registers(d) /\ ask'[d] = ask[d]
      BY <2>1, <2>6, Zenon
    <3>2. ask[d].token \notin DOMAIN registrations /\ claims[ask[d].token] = 0
      BY <2>5, <3>1, Zenon DEF TokensAreFresh
    <3>3. claims'[ask[d].token] = claims[ask[d].token]
      BY <1>6, <2>2, <3>1, Zenon
    <3> QED
      BY <2>4, <3>1, <3>2, <3>3, ZenonT(30)
  <2>7. \A d, e \in Callers :
          Registers(d)' /\ Registers(e)' /\ ask'[d].token = ask'[e].token => d = e
    BY <2>1, <2>5, Zenon DEF TokensAreFresh
  <2>8. \A r \in 1..MaxRegistrations : r > tokens' => claims'[r] = 0
    <3>1. \A r \in 1..MaxRegistrations : r > tokens => r # t
      BY <1>4, <2>3
    <3> QED
      BY <1>6, <2>4, <2>5, <3>1, ZenonT(30) DEF TokensAreFresh
  <2> QED
    BY <2>6, <2>7, <2>8, Zenon DEF TokensAreFresh
<1>11. KeysAreFresh'
  <2>1. \A d \in Callers, j \in Nat : Inserts(d, j)' => Inserts(d, j)
    BY <1>3, Zenon DEF Inserts
  <2>2. \A d \in Callers, j \in Nat : Inserts(d, j) =>
          j # key /\ j \in 1..keys' /\ j \notin DOMAIN credentials
    <3>1. \A d \in Callers, j \in Nat : Inserts(d, j) =>
            j \in 1..keys /\ j \notin DOMAIN credentials
      BY Zenon DEF ClaimInv, KeysAreFresh
    <3>2. 1..keys \subseteq 1..keys' /\ (key \in DOMAIN credentials \/ key \notin 1..keys)
      BY <1>4, <1>k
    <3> QED
      BY <3>1, <3>2, Zenon
  <2>3. \A d, e \in Callers, j \in Nat : Inserts(d, j)' /\ Inserts(e, j)' => d = e
    BY <2>1, Zenon DEF ClaimInv, KeysAreFresh
  <2>4. \A d \in Callers, j \in Nat : Inserts(d, j)' =>
          j \in 1..keys' /\ j \notin DOMAIN credentials'
    BY <1>c, <2>1, <2>2, Zenon
  <2> QED
    BY <2>3, <2>4, Zenon DEF KeysAreFresh
<1>12. CredentialsAreOwned'
  <2>1. \A d \in Callers : at[d] = "register" \/ at'[d] = "register" =>
          at'[d] = at[d] /\ ask'[d] = ask[d]
    BY <1>1, <1>3, Zenon
  <2>2. ASSUME NEW j \in DOMAIN credentials'
        PROVE  LET r == credentials'[j].registration
               IN \/ r = None
                  \/ r \in DOMAIN registrations' /\ registrations'[r].credential = j
                  \/ \E d \in Callers : /\ at'[d] = "register" /\ ask'[d].token = r
                                        /\ ask'[d].record.credential = j
    <3>1. CASE j = key
      BY <1>4, <1>r, <1>c, <3>1
    <3>2. CASE j # key
      <4> DEFINE r == credentials[j].registration
      <4>1. j \in DOMAIN credentials /\ credentials'[j] = credentials[j]
        BY <1>c, <3>2, Zenon
      <4>2. CASE r = None
        BY <4>1, <4>2, Zenon
      <4>3. CASE r \in DOMAIN registrations /\ registrations[r].credential = j
        <5>1. r # t
          <6>1. j \in Nat
            BY <1>0, <1>4, <4>1 DEF AdminTyped
          <6>2. old = None \/ old = key
            BY <1>k, Zenon
          <6>3. j # old
            BY <3>2, <6>1, <6>2, NobodyAssumption, ZenonT(30)
          <6>4. registrations[t].credential = old
            BY <1>t, Zenon
          <6> QED
            BY <4>3, <6>3, <6>4, ZenonT(30)
        <5> QED
          BY <1>r, <4>1, <4>3, <5>1, ZenonT(30)
      <4>4. CASE \E d \in Callers : /\ at[d] = "register" /\ ask[d].token = r
                                    /\ ask[d].record.credential = j
        BY <2>1, <4>1, <4>4, ZenonT(30)
      <4> QED
        BY <4>1, <4>2, <4>3, <4>4, ZenonT(30) DEF ClaimInv, CredentialsAreOwned
    <3> QED
      BY <3>1, <3>2, ZenonT(30)
  <2>3. ASSUME NEW d \in Callers, at'[d] = "register", ask'[d].record.credential # None
        PROVE  /\ ask'[d].record.credential \in DOMAIN credentials'
               /\ credentials'[ask'[d].record.credential] =
                    [registration |-> ask'[d].token, scopes |-> AgentScopes]
    <3>1. at[d] = "register" /\ ask'[d] = ask[d]
      BY <2>1, <2>3, Zenon
    <3>2. /\ ask[d].record.credential \in DOMAIN credentials
          /\ credentials[ask[d].record.credential] =
               [registration |-> ask[d].token, scopes |-> AgentScopes]
      BY <2>3, <3>1, Zenon DEF ClaimInv, CredentialsAreOwned
    <3>3. ask[d].token # t
      BY <1>4, <3>1, ZenonT(30) DEF ClaimInv, TokensAreFresh, Registers
    <3>4. ask[d].record.credential # key
      BY <1>0, <1>4, <1>k, <3>2, <3>3 DEF AdminTyped
    <3> QED
      BY <1>c, <3>1, <3>2, <3>4, ZenonT(30)
  <2> QED
    BY <2>2, <2>3, Zenon DEF CredentialsAreOwned
<1>13. MapsAgree'
  <2>1. ~Busy(t)'
    BY <1>3, <1>r, Zenon DEF Busy
  <2>2. Follows(t)'
    <3>1. claims'[t] = 1 /\ registrations'[t].credential = key
      BY <1>6, <1>r, Zenon
    <3>2. /\ key \in DOMAIN credentials'
          /\ credentials'[key] = [registration |-> t, scopes |-> registrations'[t].post]
      BY <1>r, <1>c, ZenonT(30)
    <3> QED
      BY <2>1, <3>1, <3>2, Zenon DEF Follows
  <2>3. \A r \in DOMAIN registrations : r # t => (Busy(r)' <=> Busy(r))
    BY <1>t, <1>3, <1>r DEF Busy
  <2>4. ASSUME NEW r \in DOMAIN registrations, r # t PROVE Follows(r)'
    <3>1. Follows(r) /\ r \in 1..MaxRegistrations
      BY <1>0, BoundsAssumption DEF ClaimInv, MapsAgree, AdminTyped
    <3>2. registrations'[r] = registrations[r] /\ claims'[r] = claims[r]
      BY <1>6, <1>r, <2>4, <3>1, ZenonT(30)
    <3>3. registrations[r].credential \in DOMAIN credentials =>
            \/ registrations[r].credential # key
            \/ credentials[key].registration # r
      <4>1. key \in DOMAIN credentials => credentials[key].registration = t
        BY <1>0, <1>4, <1>k DEF AdminTyped
      <4> QED
        BY <2>4, <4>1, ZenonT(30)
    <3>4. ASSUME registrations[r].credential \in DOMAIN credentials,
                 credentials[registrations[r].credential].registration = r
          PROVE  /\ registrations[r].credential \in DOMAIN credentials'
                 /\ credentials'[registrations[r].credential] =
                      credentials[registrations[r].credential]
      <4>1. registrations[r].credential # key
        BY <3>3, <3>4, Zenon
      <4>2. /\ DOMAIN credentials \subseteq DOMAIN credentials'
            /\ \A k \in DOMAIN credentials : k # key => credentials'[k] = credentials[k]
        BY <1>c, Zenon
      <4> QED
        BY <3>4, <4>1, <4>2, ZenonT(30)
    <3>5. CASE Busy(r)
      <4>1. Busy(r)'
        BY <2>3, <2>4, <3>5, ZenonT(30)
      <4>2. /\ claims[r] = 0
            /\ \/ registrations[r].credential = None
               \/ /\ registrations[r].credential \in DOMAIN credentials
                  /\ credentials[registrations[r].credential] =
                       [registration |-> r, scopes |-> AgentScopes]
        BY <3>1, <3>5, Zenon DEF Follows
      <4>3. \/ registrations[r].credential = None
            \/ /\ registrations[r].credential \in DOMAIN credentials'
               /\ credentials'[registrations[r].credential] =
                    [registration |-> r, scopes |-> AgentScopes]
        <5>1. CASE registrations[r].credential = None
          BY <5>1, Zenon
        <5>2. CASE registrations[r].credential # None
          <6>1. /\ registrations[r].credential \in DOMAIN credentials
                /\ credentials[registrations[r].credential] =
                     [registration |-> r, scopes |-> AgentScopes]
            BY <4>2, <5>2, ZenonT(30)
          <6>2. credentials[registrations[r].credential].registration = r
            BY <6>1, SMTT(20)
          <6> QED
            BY <3>4, <6>1, <6>2, ZenonT(30)
        <5> QED
          BY <5>1, <5>2, Zenon
      <4> QED
        BY <3>2, <4>1, <4>2, <4>3, ZenonT(30) DEF Follows
    <3>6. CASE ~Busy(r)
      <4>1. ~Busy(r)'
        BY <2>3, <2>4, <3>6, ZenonT(30)
      <4>2. /\ claims[r] = 1
            /\ registrations[r].credential \in DOMAIN credentials
            /\ credentials[registrations[r].credential] =
                 [registration |-> r, scopes |-> registrations[r].post]
        BY <3>1, <3>6, ZenonT(30) DEF Follows
      <4>3. /\ registrations[r].credential \in DOMAIN credentials'
            /\ credentials'[registrations[r].credential] =
                 [registration |-> r, scopes |-> registrations[r].post]
        BY <3>4, <4>2
      <4> QED
        BY <3>2, <4>1, <4>2, <4>3, ZenonT(30) DEF Follows
    <3> QED
      BY <3>5, <3>6, ZenonT(30)
  <2>5. \A d \in Callers : at'[d] # "upgrade"
    BY <1>3, Zenon
  <2>6. \A r \in told' : r \in 1..MaxRegistrations /\ claims'[r] = 1
    BY <1>2, <1>5, <1>6, ZenonT(30) DEF ClaimInv, MapsAgree
  <2>7. \A r \in 1..MaxRegistrations : claims'[r] <= 1
    BY <1>6 DEF ClaimInv, MapsAgree
  <2> QED
    BY <1>r, <2>2, <2>4, <2>5, <2>6, <2>7, ZenonT(30) DEF MapsAgree
<1> QED
  BY <1>8, <1>9, <1>10, <1>11, <1>12, <1>13, ZenonT(30) DEF ClaimInv

-----------------------------------------------------------------------------
LEMMA ClaimStep == ClaimInv /\ [AdminNext]_admin_vars => ClaimInv'
<1> SUFFICES ASSUME ClaimInv, [AdminNext]_admin_vars PROVE ClaimInv'
  BY Zenon
<1>1. ASSUME NEW c \in Callers, AdminStep(c) PROVE ClaimInv'
  BY <1>1, LocksTaken, IssuedOrLoggedIn, RecordInserted, EmailSet, Upgraded, Marked, LookedAt, ZenonT(30)
     DEF AdminStep
<1>2. ASSUME NEW c \in Callers, Call(c) PROVE ClaimInv'
  <2>1. {"claim", "complete", "view", "authorize"} \subseteq AllSteps \ Inserting
    BY Zenon DEF AllSteps, UnderRegistrations, UnderCredentials, Inserting
  <2>2. ASSUME NEW r \in 1..MaxRegistrations, NEW email \in Emails, start_claim(c, r, email)
        PROVE  ClaimInv'
    <3> DEFINE request == [call |-> "claim", token |-> r, email |-> email]
    <3>1. request.token = r /\ request.email = email
      BY Zenon
    <3>2. Begin(c, request, "claim") /\ UNCHANGED <<maps, locks, fresh, past>>
      BY <2>2, Zenon DEF start_claim
    <3> HIDE DEF request
    <3> QED
      BY <2>1, <3>1, <3>2, CallBegins, Zenon
  <2>3. ASSUME NEW r \in 1..MaxRegistrations, complete_claim(c, r) PROVE ClaimInv'
    <3> DEFINE request == [call |-> "complete", token |-> r]
    <3>1. request.token = r
      BY Zenon
    <3>2. Begin(c, request, "complete") /\ UNCHANGED <<maps, locks, fresh, past>>
      BY <2>3, Zenon DEF complete_claim
    <3> HIDE DEF request
    <3> QED
      BY <2>1, <3>1, <3>2, CallBegins, Zenon
  <2>4. ASSUME view_claim_otp(c) \/ call_operator_api(c) PROVE ClaimInv'
    <3>1. /\ \E request : Begin(c, request, "view") \/ Begin(c, request, "authorize")
          /\ UNCHANGED <<maps, locks, fresh, past>>
      BY <2>4, Zenon DEF view_claim_otp, call_operator_api
    <3> QED
      BY <2>1, <3>1, CallBegins, Zenon
  <2> QED
    BY <1>2, <2>2, <2>3, <2>4, RegistrationStarts, LoginStarts, ZenonT(30) DEF Call
<1>3. ASSUME Restart PROVE ClaimInv'
  BY <1>3, Restarted, Zenon
<1>4. ASSUME UNCHANGED admin_vars PROVE ClaimInv'
  <2>1. UNCHANGED <<registrations, credentials, registering, issuing, at, ask, tokens, keys,
                    claims, told>>
    BY <1>4, Zenon DEF admin_vars, maps, locks, calls, fresh, past
  <2>2. AdminTyped' /\ Locks'
    BY <2>1, Zenon DEF ClaimInv, AdminTyped, RequestTyped, Locks
  <2> QED
    BY <2>1, <2>2, MapsStay, Zenon
<1> QED
  BY <1>1, <1>2, <1>3, <1>4, ZenonT(30) DEF AdminNext

(* Whenever no claim is in progress, REGISTRATIONS and CREDENTIALS say the *)
(* same of every registration, however many calls interleave.              *)
THEOREM MapsSayTheSame == AdminSpec => []CredentialFollowsClaim
BY ClaimInit, ClaimStep, ClaimInvSuffices, PTL DEF AdminSpec

(* A claim token is answered "claimed" at most once, "previously_claimed"  *)
(* only after that, and no registration has two credentials.               *)
THEOREM ClaimsHaveOneWinner == AdminSpec => []OneClaimWins
BY ClaimInit, ClaimStep, ClaimInvSuffices, PTL DEF AdminSpec

-----------------------------------------------------------------------------
(* The first place where a test holds.                                     *)

LEMMA LeastNatural ==
  ASSUME NEW I \in SUBSET Nat, I # {}
  PROVE  Least(I) \in I
<1>1. \A i, j \in Nat : j < i => <<j, i>> \in OpToRel(<, Nat)
  BY Zenon DEF OpToRel
<1>2. PICK i \in I : \A j \in I : ~(<<j, i>> \in OpToRel(<, Nat))
  BY NatLessThanWellFounded, WFMin, Zenon
<1>3. \A j \in I : ~(j < i)
  BY <1>1, <1>2, Zenon
<1>4. \A j \in I : i <= j
  BY <1>3
<1> QED
  BY <1>4, Zenon DEF Least

(* extract_routing_policy gives a policy of one of the shapes there are.   *)
LEMMA ExtractedHasShape ==
  ASSUME NEW payload \in Payloads \union PolicyInputs
  PROVE  extract_routing_policy(payload).shape \in Shapes
<1> DEFINE I == {i \in 1..Len(payload) : payload[i] # Absent}
           first == IF I = {} THEN 0 ELSE Least(I)
<1>1. Len(payload) \in Nat /\ \A i \in 1..Len(payload) : payload[i].shape \in Shapes
  BY PayloadsAssumption, Zenon
<1>2. extract_routing_policy(payload) = IF first = 0 THEN Absent ELSE payload[first]
  BY Zenon DEF extract_routing_policy, FirstIndex
<1>3. I \in SUBSET Nat
  BY <1>1
<1>4. I # {} => first \in 1..Len(payload)
  BY <1>3, LeastNatural, Zenon
<1>5. Absent.shape \in Shapes
  BY Zenon DEF Absent, Shapes
<1> HIDE DEF first, I
<1>6. I = {} => first = 0
  BY Zenon DEF first
<1> QED
  BY <1>1, <1>2, <1>4, <1>5, <1>6, Zenon

(* A list of checks blocks nothing where each of them lets the policy pass.*)
LEMMA FirstBlocking ==
  ASSUME NEW checks, Len(checks) \in Nat
  PROVE  LET first == FirstIndex(checks, LAMBDA check : check.blocks)
         IN  /\ first = 0 <=> \A i \in 1..Len(checks) : ~checks[i].blocks
             /\ first # 0 => first \in 1..Len(checks)
<1> DEFINE I == {i \in 1..Len(checks) : checks[i].blocks}
<1>1. FirstIndex(checks, LAMBDA check : check.blocks) =
        IF I = {} THEN 0 ELSE Least(I)
  BY Zenon DEF FirstIndex
<1>2. I \in SUBSET Nat
  OBVIOUS
<1>3. I # {} => Least(I) \in I
  BY <1>2, LeastNatural, Zenon
<1> QED
  BY <1>1, <1>3

-----------------------------------------------------------------------------
(* The tables of tokens: which names they give, and that a blank token and *)
(* NotSent are in none.                                                    *)

Systems == {"Ibc", "Hyperlane", "LayerZeroV2", "WormholeNtt", "AxelarGmp"}
Tiers == {"T1", "T2", "T3", "T4"}
Classes == {"LightClient", "ExternalQuorum", "AppDefinedMultiverifier", "SharedPos"}

LEMMA SystemsParsed ==
  ASSUME NEW token
  PROVE  /\ parse(SystemTokens, token) \in Systems \union {Unknown}
         /\ token = "" => parse(SystemTokens, token) = Unknown
<1> DEFINE names == {"ibc", "hyperlane", "layerzero", "layerzero_v2", "wormhole_ntt",
                     "axelar_gmp"}
<1>1. DOMAIN SystemTokens = names
  BY Zenon DEF SystemTokens
<1>2. \A name \in names : SystemTokens[name] \in Systems
  BY DEF SystemTokens, Systems
<1> QED
  BY <1>1, <1>2, Zenon DEF parse

LEMMA TiersParsed ==
  ASSUME NEW token
  PROVE  /\ parse(TierTokens, token) \in Tiers \union {Unknown}
         /\ token \in {"", NotSent} => parse(TierTokens, token) = Unknown
<1> DEFINE names == {"t1", "tier1", "t2", "tier2", "t3", "tier3", "t4", "tier4"}
<1>1. DOMAIN TierTokens = names
  BY Zenon DEF TierTokens
<1>2. \A name \in names : TierTokens[name] \in Tiers
  BY DEF TierTokens, Tiers
<1> QED
  BY <1>1, <1>2, Zenon DEF parse, NotSent

LEMMA ClassesParsed ==
  ASSUME NEW token
  PROVE  /\ parse(ClassTokens, token) \in Classes \union {Unknown}
         /\ token = "" => parse(ClassTokens, token) = Unknown
<1> DEFINE names == {"light_client", "lightclient", "external_quorum",
                     "app_defined_multiverifier", "shared_pos"}
<1>1. DOMAIN ClassTokens = names
  BY Zenon DEF ClassTokens
<1>2. \A name \in names : ClassTokens[name] \in Classes
  BY DEF ClassTokens, Classes
<1> QED
  BY <1>1, <1>2, Zenon DEF parse

(* No check blocks, written out.                                           *)
Passes(policy, system, tier, class, requested) ==
  /\ "" \notin {policy.system, policy.trust_tier, policy.verification_class,
                policy.policy_version, policy.evidence_hash, policy.requested}
  /\ Unknown \notin {system, tier, class}
  /\ policy.requested # NotSent => requested # Unknown /\ requested = tier
  /\ tier # "T4" /\ (tier = "T1" => system = "Ibc")
  /\ class = required_verification_class[system]
  /\ tier \in allowed_tiers(system)

LEMMA NoCheckBlocks ==
  ASSUME NEW policy
  PROVE  (\A i \in 1..Len(Checks(policy)) : ~Checks(policy)[i].blocks)
           <=> Passes(policy, parse(SystemTokens, policy.system),
                      parse(TierTokens, policy.trust_tier),
                      parse(ClassTokens, policy.verification_class),
                      parse(TierTokens, policy.requested))
<1> DEFINE system == parse(SystemTokens, policy.system)
           tier == parse(TierTokens, policy.trust_tier)
           class == parse(ClassTokens, policy.verification_class)
           requested == parse(TierTokens, policy.requested)
<1>1. Len(Checks(policy)) = 15
  BY Zenon DEF Checks
<1> HIDE DEF system, tier, class, requested
<1>2. /\ Checks(policy)[1].blocks = (policy.system = "")
      /\ Checks(policy)[2].blocks = (policy.trust_tier = "")
      /\ Checks(policy)[3].blocks = (policy.verification_class = "")
      /\ Checks(policy)[4].blocks = (policy.policy_version = "")
      /\ Checks(policy)[5].blocks = (policy.evidence_hash = "")
      /\ Checks(policy)[6].blocks = (policy.requested = "")
  BY Zenon DEF Checks
<1>3. /\ Checks(policy)[7].blocks = (system = Unknown)
      /\ Checks(policy)[8].blocks = (tier = Unknown)
      /\ Checks(policy)[9].blocks = (class = Unknown)
      /\ Checks(policy)[10].blocks = (policy.requested # NotSent /\ requested = Unknown)
      /\ Checks(policy)[11].blocks = (policy.requested # NotSent /\ requested # tier)
  BY Zenon DEF Checks, system, tier, class, requested
<1>4. /\ Checks(policy)[12].blocks = (tier = "T4")
      /\ Checks(policy)[13].blocks = (tier = "T1" /\ system # "Ibc")
      /\ Checks(policy)[14].blocks =
           (system # Unknown /\ class # required_verification_class[system])
      /\ Checks(policy)[15].blocks = (tier \notin allowed_tiers(system))
  BY Zenon DEF Checks, system, tier, class
<1>5. (\A i \in 1..15 : ~Checks(policy)[i].blocks)
        <=> Passes(policy, system, tier, class, requested)
  <2>1. (\A i \in 1..15 : ~Checks(policy)[i].blocks)
          <=> /\ ~Checks(policy)[1].blocks /\ ~Checks(policy)[2].blocks
              /\ ~Checks(policy)[3].blocks /\ ~Checks(policy)[4].blocks
              /\ ~Checks(policy)[5].blocks /\ ~Checks(policy)[6].blocks
              /\ ~Checks(policy)[7].blocks /\ ~Checks(policy)[8].blocks
              /\ ~Checks(policy)[9].blocks /\ ~Checks(policy)[10].blocks
              /\ ~Checks(policy)[11].blocks /\ ~Checks(policy)[12].blocks
              /\ ~Checks(policy)[13].blocks /\ ~Checks(policy)[14].blocks
              /\ ~Checks(policy)[15].blocks
    OBVIOUS
  <2> QED
    BY <1>2, <1>3, <1>4, <2>1, Zenon DEF Passes
<1> QED
  BY <1>1, <1>5 DEF system, tier, class, requested

(* What the checks let through is what the table of routes has.            *)
LEMMA PassesIsApproved ==
  ASSUME NEW policy, policy.shape = "object"
  PROVE  (\A i \in 1..Len(Checks(policy)) : ~Checks(policy)[i].blocks)
           <=> Approved(policy)
<1> DEFINE system == parse(SystemTokens, policy.system)
           tier == parse(TierTokens, policy.trust_tier)
           class == parse(ClassTokens, policy.verification_class)
           requested == parse(TierTokens, policy.requested)
<1>1. /\ system \in Systems \union {Unknown} /\ (policy.system = "" => system = Unknown)
      /\ tier \in Tiers \union {Unknown} /\ (policy.trust_tier = "" => tier = Unknown)
      /\ class \in Classes \union {Unknown}
      /\ policy.verification_class = "" => class = Unknown
      /\ requested \in Tiers \union {Unknown}
      /\ policy.requested \in {"", NotSent} => requested = Unknown
  BY SystemsParsed, TiersParsed, ClassesParsed, Zenon
<1>2. Approved(policy) <=>
        /\ <<system, tier, class>> \in ApprovedRoutes
        /\ policy.policy_version # "" /\ policy.evidence_hash # ""
        /\ policy.requested = NotSent \/ requested = tier
  BY Zenon DEF Approved
<1> HIDE DEF system, tier, class, requested
<1>3. <<system, tier, class>> \in ApprovedRoutes <=>
        /\ system \in Systems /\ tier \in Tiers /\ class \in Classes
        /\ tier # "T4" /\ (tier = "T1" => system = "Ibc")
        /\ class = required_verification_class[system]
        /\ tier \in allowed_tiers(system)
  <2>1. <<system, tier, class>> \in ApprovedRoutes <=>
          \/ system = "Ibc" /\ tier \in {"T1", "T2"} /\ class = "LightClient"
          \/ /\ system = "Hyperlane" /\ tier \in {"T2", "T3"}
             /\ class = "AppDefinedMultiverifier"
          \/ /\ system \in {"LayerZeroV2", "WormholeNtt"} /\ tier \in {"T2", "T3"}
             /\ class = "ExternalQuorum"
          \/ system = "AxelarGmp" /\ tier \in {"T2", "T3"} /\ class = "SharedPos"
    BY Zenon DEF ApprovedRoutes
  <2>2. /\ required_verification_class["Ibc"] = "LightClient"
        /\ required_verification_class["Hyperlane"] = "AppDefinedMultiverifier"
        /\ required_verification_class["LayerZeroV2"] = "ExternalQuorum"
        /\ required_verification_class["WormholeNtt"] = "ExternalQuorum"
        /\ required_verification_class["AxelarGmp"] = "SharedPos"
    BY Zenon DEF required_verification_class
  <2>3. CASE system = "Ibc"
    BY <1>1, <2>1, <2>2, <2>3, Zenon DEF allowed_tiers, Systems, Tiers, Classes
  <2>4. CASE system = "Hyperlane"
    BY <1>1, <2>1, <2>2, <2>4, Zenon DEF allowed_tiers, Systems, Tiers, Classes
  <2>5. CASE system \in {"LayerZeroV2", "WormholeNtt"}
    BY <1>1, <2>1, <2>2, <2>5, Zenon DEF allowed_tiers, Systems, Tiers, Classes
  <2>6. CASE system = "AxelarGmp"
    BY <1>1, <2>1, <2>2, <2>6, Zenon DEF allowed_tiers, Systems, Tiers, Classes
  <2>7. CASE system = Unknown
    BY <2>1, <2>7 DEF Systems, Unknown
  <2> QED
    BY <1>1, <2>3, <2>4, <2>5, <2>6, <2>7, Zenon DEF Systems
<1>4. /\ Unknown \notin Systems /\ Unknown \notin Tiers /\ Unknown \notin Classes
      /\ "" # NotSent
  BY Zenon DEF Systems, Tiers, Classes, Unknown, NotSent
<1>5. Passes(policy, system, tier, class, requested) <=> Approved(policy)
  BY <1>1, <1>2, <1>3, <1>4, Zenon DEF Passes
<1> QED
  BY <1>5, NoCheckBlocks, Zenon DEF system, tier, class, requested

(* The code of a check that blocks is not the word for letting through.    *)
LEMMA NoCodeIsAllowed ==
  ASSUME NEW policy
  PROVE  /\ Len(Checks(policy)) \in Nat
         /\ \A i \in 1..Len(Checks(policy)) : Checks(policy)[i].code # Allowed
<1> DEFINE code(i) == Checks(policy)[i].code
<1>1. Len(Checks(policy)) = 15
  BY DEF Checks
<1>2. Allowed \notin {code(1), code(2), code(3), code(4), code(5)}
  BY Zenon DEF Checks, Allowed
<1>3. Allowed \notin {code(6), code(7), code(8), code(9), code(10)}
  BY Zenon DEF Checks, Allowed
<1>4. Allowed \notin {code(11), code(12), code(13), code(14), code(15)}
  BY Zenon DEF Checks, Allowed
<1> HIDE DEF code
<1>5. \A i \in 1..15 : code(i) # Allowed
  BY <1>2, <1>3, <1>4
<1> QED
  BY <1>1, <1>5 DEF code

(* The fifteen checks with their early returns let a payload through       *)
(* exactly when its policy is on an approved route and complete.           *)
LEMMA AllowedIsApproved ==
  ASSUME NEW payload \in Payloads \union PolicyInputs
  PROVE  validate_routing_policy_metadata(payload) = Allowed <=> ApprovedPayload(payload)
<1> DEFINE policy == extract_routing_policy(payload)
           i == FirstIndex(Checks(policy), LAMBDA check : check.blocks)
<1>1. policy.shape \in Shapes
  BY ExtractedHasShape, Zenon
<1> HIDE DEF policy
<1>2. CASE policy.shape = "object"
  <2>1. validate_routing_policy_metadata(payload) =
          IF i = 0 THEN Allowed ELSE Checks(policy)[i].code
    BY <1>2 DEF validate_routing_policy_metadata, policy
  <2>2. i = 0 <=> Approved(policy)
    BY <1>2, NoCodeIsAllowed, FirstBlocking, PassesIsApproved, Zenon
  <2>3. i # 0 => Checks(policy)[i].code # Allowed
    BY NoCodeIsAllowed, FirstBlocking, Zenon
  <2> QED
    BY <2>1, <2>2, <2>3, Zenon DEF ApprovedPayload, policy
<1>3. CASE policy.shape # "object"
  <2>1. validate_routing_policy_metadata(payload) # Allowed
    BY <1>1, <1>3, SMTT(20) DEF validate_routing_policy_metadata, Allowed, Shapes, policy
  <2> QED
    BY <1>3, <2>1, Zenon DEF ApprovedPayload, Approved, policy
<1> QED
  BY <1>2, <1>3, Zenon
-----------------------------------------------------------------------------
(* The oracle.  Rates are compared with a mean num / den by comparing with *)
(* num what is den times as much.                                          *)

(* x compares with a mean as it does with the rates a, b and c that have a *)
(* share in it.                                                            *)
Compares(num, den, s1, s2, s3, a, b, c, x) ==
  /\ (s1 # 0 => x < a) /\ (s2 # 0 => x < b) /\ (s3 # 0 => x < c) => x * den < num
  /\ (s1 # 0 => x > a) /\ (s2 # 0 => x > b) /\ (s3 # 0 => x > c) => x * den > num
  /\ (s1 # 0 => x <= a) /\ (s2 # 0 => x <= b) /\ (s3 # 0 => x <= c) => x * den <= num
  /\ (s1 # 0 => x >= a) /\ (s2 # 0 => x >= b) /\ (s3 # 0 => x >= c) => x * den >= num

LEMMA SumsCompare ==
  ASSUME NEW s1 \in {0, 2}, NEW s2 \in {0, 1}, NEW s3 \in {0, 1}, s1 + s2 + s3 > 0,
         NEW a \in Int, NEW b \in Int, NEW c \in Int, NEW x \in Int
  PROVE  Compares(s1 * a + s2 * b + s3 * c, s1 + s2 + s3, s1, s2, s3, a, b, c, x)
<1> USE DEF Compares
<1>1. CASE s1 = 0
  <2>1. CASE s2 = 0
    BY <1>1, <2>1
  <2>2. CASE s2 = 1 /\ s3 = 0
    BY <1>1, <2>2
  <2>3. CASE s2 = 1 /\ s3 = 1
    BY <1>1, <2>3, SMTT(20)
  <2> QED
    BY <2>1, <2>2, <2>3
<1>2. CASE s1 = 2
  <2>1. CASE s2 = 0 /\ s3 = 0
    BY <1>2, <2>1
  <2>2. CASE s2 = 1 /\ s3 = 0
    BY <1>2, <2>2
  <2>3. CASE s2 = 0 /\ s3 = 1
    BY <1>2, <2>3
  <2>4. CASE s2 = 1 /\ s3 = 1
    BY <1>2, <2>4
  <2> QED
    BY <2>1, <2>2, <2>3, <2>4
<1> QED
  BY <1>1, <1>2, SMTT(20)

(* A mean lies where the rates lie that it is taken over, multiplied by k  *)
(* and compared with x.                                                    *)
Between(mean, S, f, x, k) ==
  /\ mean.num \in Int /\ mean.den \in 1..4
  /\ (\A i \in S : x < k * f[i]) => x * mean.den < k * mean.num
  /\ (\A i \in S : x > k * f[i]) => x * mean.den > k * mean.num
  /\ (\A i \in S : x <= k * f[i]) => x * mean.den <= k * mean.num
  /\ (\A i \in S : x >= k * f[i]) => x * mean.den >= k * mean.num

LEMMA MeanLiesBetween ==
  ASSUME NEW S \in SUBSET Endpoints, S # {}, NEW f \in [Endpoints -> Int],
         NEW x \in Int, NEW k \in Int
  PROVE  Between(weighted_mean(S, f), S, f, x, k)
<1> DEFINE share(i) == IF i \in S THEN Weights[i] ELSE 0
           num == share(1) * f[1] + share(2) * f[2] + share(3) * f[3]
           den == share(1) + share(2) + share(3)
           scaled == share(1) * (k * f[1]) + share(2) * (k * f[2]) + share(3) * (k * f[3])
<1>1. weighted_mean(S, f).num = num /\ weighted_mean(S, f).den = den
  BY Zenon DEF weighted_mean
<1>2. /\ share(1) \in {0, 2} /\ share(2) \in {0, 1} /\ share(3) \in {0, 1}
      /\ 1 \in S <=> share(1) # 0
      /\ 2 \in S <=> share(2) # 0
      /\ 3 \in S <=> share(3) # 0
  BY DEF Weights
<1>3. Endpoints = {1, 2, 3}
  BY DEF Endpoints
<1>4. 1 \in S \/ 2 \in S \/ 3 \in S
  BY <1>3, Zenon
<1>5. f[1] \in Int /\ f[2] \in Int /\ f[3] \in Int
  BY <1>3
<1>6. k * f[1] \in Int /\ k * f[2] \in Int /\ k * f[3] \in Int
  BY <1>5
<1> HIDE DEF share
<1>7. share(1) + share(2) + share(3) > 0
  BY <1>2, <1>4
<1>8. k * num = scaled
  BY <1>2, <1>5
<1>9. num \in Int /\ den \in 1..4
  BY <1>2, <1>5, <1>7
<1>10. Compares(scaled, den, share(1), share(2), share(3), k * f[1], k * f[2], k * f[3], x)
  BY <1>2, <1>6, <1>7, SumsCompare, ZenonT(30)
<1> HIDE DEF num, den, scaled
<1>11. Between([num |-> num, den |-> den], S, f, x, k)
  BY <1>2, <1>8, <1>9, <1>10, Zenon DEF Compares, Between
<1> QED
  BY <1>1, <1>11, Zenon DEF Between

Replies == [Endpoints -> Nat \union {NoReply}]

LEMMA QuotedRates ==
  ASSUME NEW replies \in Replies
  PROVE  /\ replies \in [Endpoints -> Int]
         /\ Retained(replies) \subseteq Quoted(replies)
         /\ Quoted(replies) \subseteq Endpoints
         /\ \A i \in Quoted(replies) : replies[i] \in Int /\ replies[i] > 0
BY DEF Replies, NoReply, Retained, Quoted

(* A mean of quoted rates is neither of the two that stand for none.       *)
LEMMA MeanIsPositive ==
  ASSUME NEW replies \in Replies, NEW S \in SUBSET Quoted(replies), S # {}
  PROVE  LET mean == weighted_mean(S, replies)
         IN  /\ mean.num \in Int /\ mean.den \in 1..4 /\ mean.num > 0
             /\ mean \notin {OracleFailure, NoMean}
<1> DEFINE mean == weighted_mean(S, replies)
<1>1. S \in SUBSET Endpoints /\ replies \in [Endpoints -> Int]
  BY QuotedRates, Zenon
<1>2. \A i \in S : 0 < 1 * replies[i]
  BY QuotedRates
<1>3. mean.num \in Int /\ mean.den \in 1..4 /\ 0 * mean.den < 1 * mean.num
  <2>1. Between(mean, S, replies, 0, 1)
    BY <1>1, MeanLiesBetween
  <2> QED
    BY <1>2, <2>1, Zenon DEF Between
<1> HIDE DEF mean
<1>4. mean.num > 0
  BY <1>3
<1>5. OracleFailure.num = -1 /\ NoMean.num = 0
  BY Zenon DEF OracleFailure, NoMean
<1>6. mean \notin {OracleFailure, NoMean}
  BY <1>3, <1>4, <1>5
<1> QED
  BY <1>3, <1>4, <1>6, Zenon DEF mean

(* The verdict where a source is retained, and where none is.              *)
LEMMA VerdictOfRetained ==
  ASSUME NEW replies \in Replies, NEW quote \in Nat \ {0}
  PROVE  LET fx == weighted_mean(Retained(replies), replies)
         IN  IF Retained(replies) = {}
             THEN signal_verdict(quote, replies) # "refused"
             ELSE signal_verdict(quote, replies) =
                    IF Difference(quote, fx) > 5 * fx.num THEN "refused" ELSE "vouched"
<1>1. CASE Retained(replies) = {}
  <2>1. fetch_universal_fx(replies) \in {OracleFailure, NoMean}
    BY <1>1, Zenon DEF fetch_universal_fx
  <2> QED
    BY <1>1, <2>1 DEF signal_verdict
<1>2. CASE Retained(replies) # {}
  <2> DEFINE fx == weighted_mean(Retained(replies), replies)
  <2>1. PICK i \in Endpoints : replies[i] > 0
    BY <1>2, QuotedRates, Zenon
  <2>2. ~(\A j \in Endpoints : replies[j] = NoReply)
    BY <2>1 DEF NoReply
  <2>3. fetch_universal_fx(replies) = fx
    BY <1>2, <2>2, Zenon DEF fetch_universal_fx
  <2>4. fx \notin {OracleFailure, NoMean}
    BY <1>2, QuotedRates, MeanIsPositive, Zenon
  <2>5. quote # NoRate
    BY Zenon DEF NoRate
  <2> HIDE DEF fx
  <2>6. signal_verdict(quote, replies) =
          IF Difference(quote, fx) > 5 * fx.num THEN "refused" ELSE "vouched"
    BY <2>3, <2>4, <2>5, Zenon DEF signal_verdict
  <2> QED
    BY <1>2, <2>6, Zenon DEF fx
<1> QED
  BY <1>1, <1>2, Zenon

(* A quote compared with the mean as the sources are with the quote.       *)
LEMMA QuoteAgainstSources ==
  ASSUME NEW replies \in Replies, NEW quote \in Nat, NEW S \in SUBSET Quoted(replies), S # {}
  PROVE  LET mean == weighted_mean(S, replies)
             within == Difference(quote, mean) <= 5 * mean.num
         IN  /\ (\A i \in S : 100 * quote < 95 * replies[i]) => ~within
             /\ (\A i \in S : 100 * quote > 105 * replies[i]) => ~within
             /\ (\A i \in S : 95 * replies[i] <= 100 * quote
                              /\ 100 * quote <= 105 * replies[i]) => within
<1> DEFINE mean == weighted_mean(S, replies)
           x == 100 * quote
<1>1. S \in SUBSET Endpoints /\ replies \in [Endpoints -> Int]
  BY QuotedRates, Zenon
<1>2. mean.num \in Int /\ mean.den \in 1..4
  BY MeanIsPositive, Zenon
<1>3. x \in Int /\ 95 \in Int /\ 105 \in Int
  OBVIOUS
<1> HIDE DEF x
<1>4. Between(mean, S, replies, x, 95) /\ Between(mean, S, replies, x, 105)
  BY <1>1, <1>3, MeanLiesBetween
<1> HIDE DEF mean
<1>5. /\ (\A i \in S : x < 95 * replies[i]) => x * mean.den < 95 * mean.num
      /\ (\A i \in S : x >= 95 * replies[i]) => x * mean.den >= 95 * mean.num
      /\ (\A i \in S : x > 105 * replies[i]) => x * mean.den > 105 * mean.num
      /\ (\A i \in S : x <= 105 * replies[i]) => x * mean.den <= 105 * mean.num
  BY <1>4 DEF Between
<1>6. \A i \in S : replies[i] \in Int
  BY <1>1
<1>7. (\A i \in S : 95 * replies[i] <= x) => x * mean.den >= 95 * mean.num
  BY <1>3, <1>5, <1>6
<1>8. (Difference(quote, mean) <= 5 * mean.num) <=>
        x * mean.den >= 95 * mean.num /\ x * mean.den <= 105 * mean.num
  <2>1. x * mean.den = 100 * (quote * mean.den) /\ quote * mean.den \in Int
    BY <1>2 DEF x
  <2> QED
    BY <1>2, <2>1 DEF Difference
<1>9. x * mean.den \in Int
  BY <1>2, <1>3
<1> QED
  <2>1. /\ x * mean.den < 95 * mean.num => ~(Difference(quote, mean) <= 5 * mean.num)
        /\ x * mean.den > 105 * mean.num => ~(Difference(quote, mean) <= 5 * mean.num)
    BY <1>2, <1>8, <1>9
  <2> QED
    BY <1>5, <1>7, <1>8, <2>1, ZenonT(30) DEF x, mean

(* Sources that agree to within 10% are all retained.                      *)
LEMMA AgreeingAreRetained ==
  ASSUME NEW replies \in Replies, NEW i \in Quoted(replies),
         \A j, k \in Quoted(replies) : 10 * replies[j] < 11 * replies[k]
  PROVE  i \in Retained(replies)
<1> DEFINE S == Quoted(replies)
           mean == weighted_mean(S, replies)
           v == replies[i]
           x == 10 * v
           y == 11 * v
<1>1. S \in SUBSET Endpoints /\ S # {} /\ replies \in [Endpoints -> Int]
  BY QuotedRates, Zenon
<1>2. mean.num \in Int /\ mean.den \in 1..4 /\ mean.num > 0
  BY <1>1, MeanIsPositive, Zenon
<1>3. v \in Int /\ \A j \in S : replies[j] \in Int
  BY QuotedRates, Zenon
<1>4. x \in Int /\ y \in Int /\ 10 \in Int /\ 11 \in Int
  BY <1>3
<1>5. (\A j \in S : x < 11 * replies[j]) /\ (\A j \in S : y > 10 * replies[j])
  BY <1>3
<1> HIDE DEF x, y
<1>6. x * mean.den < 11 * mean.num
  <2>1. Between(mean, S, replies, x, 11)
    BY <1>1, <1>4, MeanLiesBetween
  <2> QED
    BY <1>5, <2>1 DEF Between
<1>7. y * mean.den > 10 * mean.num
  <2>1. Between(mean, S, replies, y, 10)
    BY <1>1, <1>4, MeanLiesBetween
  <2> QED
    BY <1>5, <2>1 DEF Between
<1> HIDE DEF mean, v
<1>8. /\ v * mean.den \in Int
      /\ x * mean.den = 10 * (v * mean.den) /\ y * mean.den = 11 * (v * mean.den)
  BY <1>2, <1>3 DEF x, y
<1>9. Difference(v, mean) < 10 * mean.num
  BY <1>2, <1>6, <1>7, <1>8 DEF Difference
<1> QED
  BY <1>9, Zenon DEF Retained, mean, v

(* VerdictFollowsTheSources, for one triple of replies and one quote.      *)
LEMMA VerdictIsJust ==
  ASSUME NEW replies \in Replies, NEW quote \in Nat \ {0}
  PROVE  FollowsTheSources(replies, quote)
<1> DEFINE S == Quoted(replies)
           R == Retained(replies)
           rates == {replies[i] : i \in S}
           verdict == signal_verdict(quote, replies)
           fx == weighted_mean(R, replies)
           within == Difference(quote, fx) <= 5 * fx.num
<1>1. R \subseteq S /\ \A i \in S : replies[i] \in Int
  BY QuotedRates, Zenon
<1>2. ASSUME rates # {}, \A v, w \in rates : 10 * v < 11 * w PROVE R # {}
  BY <1>2, AgreeingAreRetained, Zenon
<1>3. CASE R = {}
  BY <1>2, <1>3, VerdictOfRetained, Zenon DEF FollowsTheSources
<1>4. CASE R # {}
  <2>1. verdict = IF Difference(quote, fx) > 5 * fx.num THEN "refused" ELSE "vouched"
    BY <1>4, VerdictOfRetained, Zenon
  <2>2. within <=> ~(Difference(quote, fx) > 5 * fx.num)
    <3>1. fx.num \in Int /\ fx.den \in 1..4
      BY <1>1, <1>4, MeanIsPositive, Zenon
    <3>2. quote * fx.den \in Int
      BY <3>1
    <3> HIDE DEF fx
    <3> QED
      BY <3>1, <3>2 DEF Difference
  <2>3. /\ verdict = "vouched" => within
        /\ verdict = "refused" => ~within
    BY <2>1, <2>2
  <2>4. /\ (\A i \in R : 100 * quote < 95 * replies[i]) => ~within
        /\ (\A i \in R : 100 * quote > 105 * replies[i]) => ~within
        /\ (\A i \in R : 95 * replies[i] <= 100 * quote
                         /\ 100 * quote <= 105 * replies[i]) => within
    <3>1. quote \in Nat
      BY Zenon
    <3> QED
      BY <1>1, <1>4, <3>1, QuoteAgainstSources, ZenonT(30)
  <2> HIDE DEF within, verdict
  <2>5. verdict = "vouched" => \E i \in R : 100 * quote >= 95 * replies[i]
    BY <1>1, <2>3, <2>4
  <2>6. verdict = "vouched" => \E i \in R : 100 * quote <= 105 * replies[i]
    BY <1>1, <2>3, <2>4
  <2>7. verdict = "refused" =>
          \E i \in R : 100 * quote < 95 * replies[i] \/ 100 * quote > 105 * replies[i]
    BY <1>1, <2>3, <2>4
  <2>8. /\ verdict = "vouched" => \E v \in rates : 100 * quote >= 95 * v
        /\ verdict = "vouched" => \E v \in rates : 100 * quote <= 105 * v
    BY <1>1, <2>5, <2>6, ZenonT(30)
  <2>9. verdict = "refused" =>
          \E v \in rates : 100 * quote < 95 * v \/ 100 * quote > 105 * v
    BY <1>1, <2>7, ZenonT(30)
  <2> QED
    BY <1>2, <2>8, <2>9, Zenon DEF verdict, FollowsTheSources
<1> QED
  BY <1>3, <1>4, Zenon

-----------------------------------------------------------------------------
(* The handler.                                                            *)

Steps == {"idle", "oracle", "log", "log_kwil", "height", "insert", "mirror", "respond"}

Triggers ==
  [id : Nat, payload : Payloads, attested : BOOLEAN, vouched : BOOLEAN,
   rate : Rates \union {NoRate}, at : Nat, init_height : Nat, answered : BOOLEAN,
   stored : BOOLEAN]

Typed ==
  /\ height \in Nat /\ received \in Nat
  /\ pc \in [Clients -> Steps]
  /\ req \in [Clients -> Triggers \union {NoTrigger}]
  /\ DOMAIN answer = Clients

Active(c) == pc[c] # "idle"

(* A trigger that is under way has passed the checks before the first      *)
(* await, and the oracle's once that is behind it; the height it was given *)
(* is no lower than that at which it came in.                              *)
TriggerOk(c) ==
  /\ req[c] \in Triggers /\ req[c].id <= received
  /\ req[c].attested /\ ApprovedPayload(req[c].payload)
  /\ pc[c] # "oracle" => req[c].vouched
  /\ req[c].at <= height
  /\ req[c].answered => /\ pc[c] \in {"insert", "mirror", "respond"}
                        /\ req[c].init_height >= req[c].at
  /\ req[c].stored => pc[c] \in {"mirror", "respond"} /\ Proposal(c) \in proposals

TriggersAreOk == \A c \in Clients : Active(c) => TriggerOk(c)

(* Each trigger has an id of its own.                                      *)
IdsDiffer == \A c, d \in Clients : c # d /\ Active(c) /\ Active(d) => req[c].id # req[d].id

Rows == proposals \union kwil_proposals
Ids == logs \union kwil_logs \union {p.id : p \in Rows}

(* The rows are those of triggers received; one that waits for the oracle  *)
(* has none yet, and neither has one that is refused, which is over.       *)
RowsAreReceived == Ids \subseteq 0..received

OracleFirst == \A c \in Clients : pc[c] = "oracle" => req[c].id \notin Ids

Refused(c) == answer[c].status \in {"Rejected", "PolicyBlocked"}

RefusedAreOver ==
  \A c \in Clients : Refused(c) =>
    /\ answer[c].id \in (0..received) \ Ids
    /\ \A d \in Clients : Active(d) => req[d].id # answer[c].id

StoredAreVouched ==
  \A p \in Rows : /\ p.trigger.attested /\ p.trigger.vouched
                  /\ ApprovedPayload(p.trigger.payload)

SettlementInv ==
  /\ Typed /\ TriggersAreOk /\ IdsDiffer /\ RowsAreReceived /\ OracleFirst
  /\ RefusedAreOver /\ StoredAreVouched /\ ActiveMeansStored /\ TimeLockIsFull

LEMMA SettlementInit == Init => SettlementInv
<1> SUFFICES ASSUME Init PROVE SettlementInv
  BY Zenon
<1> USE DEF Init
<1>1. Typed
  BY Zenon DEF Typed, Steps
<1>2. \A c \in Clients : pc[c] = "idle" /\ answer[c].status = "none"
  BY Zenon DEF NoAnswer
<1>3. proposals = {} /\ Rows = {} /\ Ids = {}
  BY Zenon DEF Rows, Ids
<1> QED
  BY <1>1, <1>2, <1>3
     DEF SettlementInv, TriggersAreOk, IdsDiffer, Active, RowsAreReceived, OracleFirst,
         RefusedAreOver, Refused, StoredAreVouched, ActiveMeansStored, TimeLockIsFull

(* One client's step leaves the other clients alone, takes no proposal     *)
(* away and writes no rows but its own.                                    *)
StepOf(c) ==
  /\ \A d \in Clients \ {c} : pc'[d] = pc[d] /\ req'[d] = req[d] /\ answer'[d] = answer[d]
  /\ height' = height /\ proposals \subseteq proposals'
  /\ received' \in Nat /\ received <= received'
  /\ Ids' \subseteq Ids \union {req[c].id} /\ (~Active(c) => Ids' = Ids)

LEMMA OthersStayOk ==
  ASSUME SettlementInv, NEW c \in Clients, StepOf(c), NEW d \in Clients \ {c}
  PROVE  /\ Active(d)' <=> Active(d)
         /\ Active(d) => TriggerOk(d)'
         /\ pc'[d] = "oracle" => req'[d].id \notin Ids'
         /\ Refused(d)' <=> Refused(d)
         /\ Refused(d) => answer'[d].id \in (0..received') \ Ids'
         /\ answer'[d].status = "Active" =>
              \E p \in proposals' : /\ p.id = answer'[d].id
                                    /\ p.unlock_height = answer'[d].unlock_height
<1>1. /\ pc'[d] = pc[d] /\ req'[d] = req[d] /\ answer'[d] = answer[d]
      /\ height' = height /\ proposals \subseteq proposals'
      /\ received' \in Nat /\ received <= received' /\ received \in Nat
      /\ Ids' \subseteq Ids \union {req[c].id} /\ (~Active(c) => Ids' = Ids)
  BY Zenon DEF StepOf, SettlementInv, Typed
<1>2. ASSUME Active(d) PROVE TriggerOk(d)'
  <2>1. TriggerOk(d) /\ Proposal(d)' = Proposal(d)
    BY <1>1, <1>2, ZenonT(30) DEF SettlementInv, TriggersAreOk, Proposal
  <2>2. req[d].id <= received'
    <3>1. req[d].id \in Nat /\ req[d].id <= received
      BY <2>1 DEF TriggerOk, Triggers
    <3> QED
      BY <1>1, <3>1, SMTT(20)
  <2> QED
    BY <1>1, <2>1, <2>2, Zenon DEF TriggerOk
<1>3. ASSUME pc'[d] = "oracle" PROVE req'[d].id \notin Ids'
  <2>1. Active(d)
    BY <1>1, <1>3 DEF Active
  <2> QED
    BY <1>1, <1>3, <2>1, Zenon DEF SettlementInv, OracleFirst, IdsDiffer
<1>4. ASSUME Refused(d) PROVE answer'[d].id \in (0..received') \ Ids'
  <2>1. answer[d].id \in (0..received) \ Ids /\ (Active(c) => req[c].id # answer[d].id)
    BY <1>4, Zenon DEF SettlementInv, RefusedAreOver
  <2>2. answer[d].id \notin Ids'
    BY <1>1, <2>1, Zenon
  <2> QED
    BY <1>1, <2>1, <2>2
<1>5. Active(d)' <=> Active(d)
  BY <1>1, Zenon DEF Active
<1>6. Refused(d)' <=> Refused(d)
  BY <1>1, Zenon DEF Refused
<1>7. answer'[d].status = "Active" =>
        \E p \in proposals' : /\ p.id = answer'[d].id
                              /\ p.unlock_height = answer'[d].unlock_height
  BY <1>1, ZenonT(30) DEF SettlementInv, ActiveMeansStored
<1> QED
  BY <1>2, <1>3, <1>4, <1>5, <1>6, <1>7, Zenon

(* A handler goes on to a later step with the same trigger.                *)
LEMMA GoesOn ==
  ASSUME SettlementInv, NEW c \in Clients, StepOf(c), Active(c), Active(c)',
         pc'[c] # "oracle", req'[c].id = req[c].id, UNCHANGED <<answer, received>>,
         Typed', TriggerOk(c)', StoredAreVouched', TimeLockIsFull'
  PROVE  SettlementInv'
<1>1. TriggersAreOk'
  BY OthersStayOk, Zenon DEF TriggersAreOk
<1>2. \A d \in Clients : (Active(d)' <=> Active(d)) /\ req'[d].id = req[d].id
  BY OthersStayOk, Zenon DEF StepOf
<1>3. IdsDiffer'
  BY <1>2, ZenonT(30) DEF SettlementInv, IdsDiffer
<1>4. RowsAreReceived'
  <2>1. Ids \subseteq 0..received /\ req[c].id \in 0..received
    BY DEF SettlementInv, TriggersAreOk, TriggerOk, Triggers, RowsAreReceived, Typed
  <2>2. Ids' \subseteq Ids \union {req[c].id}
    BY Zenon DEF StepOf
  <2> QED
    BY <2>1, <2>2, ZenonT(30) DEF RowsAreReceived
<1>5. OracleFirst'
  BY OthersStayOk, Zenon DEF OracleFirst
<1>6. RefusedAreOver'
  <2> SUFFICES ASSUME NEW d \in Clients, Refused(d)'
               PROVE  /\ answer'[d].id \in (0..received') \ Ids'
                      /\ \A e \in Clients : Active(e)' => req'[e].id # answer'[d].id
    BY Zenon DEF RefusedAreOver
  <2>1. Refused(d)
    BY Zenon DEF Refused
  <2>2. \A e \in Clients : Active(e) => req[e].id # answer[d].id
    BY <2>1, Zenon DEF SettlementInv, RefusedAreOver
  <2>3. answer'[d].id \in (0..received') \ Ids'
    <3>1. CASE d = c
      <4>1. answer[c].id \in (0..received) \ Ids
        BY <2>1, <3>1, Zenon DEF SettlementInv, RefusedAreOver
      <4>2. Ids' \subseteq Ids \union {req[c].id} /\ req[c].id # answer[c].id
        BY <2>2, <3>1, Zenon DEF StepOf
      <4> QED
        BY <3>1, <4>1, <4>2, Zenon
    <3>2. CASE d # c
      BY <2>1, <3>2, OthersStayOk, Zenon
    <3> QED
      BY <3>1, <3>2, Zenon
  <2> QED
    BY <1>2, <2>2, <2>3, Zenon
<1>7. ActiveMeansStored'
  <2>1. proposals \subseteq proposals'
    BY Zenon DEF StepOf
  <2> QED
    BY <2>1, Zenon DEF SettlementInv, ActiveMeansStored
<1> QED
  BY <1>1, <1>3, <1>4, <1>5, <1>6, <1>7, Zenon DEF SettlementInv

(* The triggers received are counted.                                      *)
LEMMA CountsGrow ==
  /\ \A n \in Nat : n <= n /\ n + 1 \in Nat /\ n <= n + 1
  /\ \A n \in Nat : n + 1 \in 0..(n + 1) /\ n + 1 \notin 0..n
  /\ \A m, n \in Nat : m <= n => 0..m \subseteq 0..n
OBVIOUS

(* A handler ends with an answer, and the tables stay as they are.         *)
LEMMA Ends ==
  ASSUME SettlementInv, NEW c \in Clients, NEW response, Respond(c, response),
         UNCHANGED <<height, tables>>, received' \in Nat, received <= received',
         response.status \in {"Rejected", "PolicyBlocked"} =>
           /\ response.id \in (0..received') \ Ids
           /\ \A d \in Clients \ {c} : Active(d) => req[d].id # response.id,
         response.status = "Active" =>
           \E p \in proposals : /\ p.id = response.id
                                /\ p.unlock_height = response.unlock_height
  PROVE  SettlementInv'
<1>1. /\ proposals' = proposals /\ Rows' = Rows /\ Ids' = Ids /\ height' = height
  BY Zenon DEF tables, Rows, Ids
<1>2. /\ pc' = [pc EXCEPT ![c] = "idle"] /\ req' = [req EXCEPT ![c] = NoTrigger]
      /\ answer' = [answer EXCEPT ![c] = response]
  BY Zenon DEF Respond, Goto
<1>3. /\ height \in Nat /\ received \in Nat /\ pc \in [Clients -> Steps]
      /\ req \in [Clients -> Triggers \union {NoTrigger}] /\ DOMAIN answer = Clients
  BY ZenonT(30) DEF SettlementInv, Typed
<1>4. Typed'
  BY <1>1, <1>2, <1>3, SMTT(20) DEF Typed, Steps
<1>5. pc'[c] = "idle" /\ answer'[c] = response
  BY <1>2, <1>3, Zenon
<1>6. StepOf(c)
  <2>1. \A d \in Clients \ {c} : /\ pc'[d] = pc[d] /\ req'[d] = req[d]
                                /\ answer'[d] = answer[d]
    BY <1>2, <1>3, Zenon
  <2> QED
    BY <1>1, <2>1, Zenon DEF StepOf
<1>7. ~Active(c)' /\ pc'[c] # "oracle"
  BY <1>5, Zenon DEF Active
<1>8. TriggersAreOk'
  BY <1>6, <1>7, OthersStayOk, Zenon DEF TriggersAreOk
<1>9. \A d \in Clients : Active(d)' => d # c /\ Active(d) /\ req'[d] = req[d]
  BY <1>6, <1>7, OthersStayOk, Zenon DEF StepOf
<1>10. IdsDiffer'
  BY <1>9, ZenonT(30) DEF SettlementInv, IdsDiffer
<1>11. RowsAreReceived'
  <2>1. 0..received \subseteq 0..received'
    BY <1>3, CountsGrow, Zenon
  <2> QED
    BY <1>1, <2>1, Zenon DEF SettlementInv, RowsAreReceived
<1>12. OracleFirst'
  BY <1>6, <1>7, OthersStayOk, Zenon DEF OracleFirst
<1>13. RefusedAreOver'
  <2> SUFFICES ASSUME NEW d \in Clients, Refused(d)'
               PROVE  /\ answer'[d].id \in (0..received') \ Ids'
                      /\ \A e \in Clients : Active(e)' => req'[e].id # answer'[d].id
    BY Zenon DEF RefusedAreOver
  <2>1. CASE d = c
    BY <1>1, <1>5, <1>9, <2>1, Zenon DEF Refused
  <2>2. CASE d # c
    <3>1. /\ Refused(d) /\ answer'[d].id \in (0..received') \ Ids'
          /\ answer'[d] = answer[d]
      BY <1>6, <2>2, OthersStayOk, Zenon DEF StepOf
    <3> QED
      BY <1>9, <3>1, Zenon DEF SettlementInv, RefusedAreOver
  <2> QED
    BY <2>1, <2>2, Zenon
<1>14. ActiveMeansStored'
  BY <1>1, <1>5, <1>6, OthersStayOk, ZenonT(30) DEF ActiveMeansStored
<1>15. StoredAreVouched' /\ TimeLockIsFull'
  BY <1>1, Zenon DEF SettlementInv, StoredAreVouched, TimeLockIsFull
<1> QED
  BY <1>4, <1>8, <1>10, <1>11, <1>12, <1>13, <1>14, <1>15, ZenonT(30) DEF SettlementInv

(* What a client's own step makes of its variables.                        *)
LEMMA OwnStep ==
  ASSUME SettlementInv, NEW c \in Clients, Active(c), NEW step \in Steps, Goto(c, step)
  PROVE  /\ pc' \in [Clients -> Steps] /\ pc'[c] = step
         /\ \A d \in Clients \ {c} : pc'[d] = pc[d]
         /\ TriggerOk(c) /\ req[c] \in Triggers
         /\ req \in [Clients -> Triggers \union {NoTrigger}]
         /\ height \in Nat /\ received \in Nat
BY Zenon DEF Goto, SettlementInv, Typed, TriggersAreOk, TriggerOk

(* A row of the log, here or in Kwil: the tables of proposals stay.        *)
LEMMA Logs ==
  ASSUME SettlementInv, NEW c \in Clients, Active(c), pc[c] \in {"log", "log_kwil"},
         NEW step \in {"log_kwil", "height"}, Goto(c, step),
         logs' \in {logs, logs \union {req[c].id}},
         kwil_logs' \in {kwil_logs, kwil_logs \union {req[c].id}},
         UNCHANGED <<height, proposals, kwil_proposals, req, answer, received>>
  PROVE  SettlementInv'
<1>1. step \in Steps /\ step \notin {"idle", "oracle", "mirror", "respond"}
  BY Zenon DEF Steps
<1>2. /\ pc' \in [Clients -> Steps] /\ pc'[c] = step
      /\ \A d \in Clients \ {c} : pc'[d] = pc[d]
      /\ TriggerOk(c) /\ height \in Nat /\ received \in Nat
  BY <1>1, OwnStep, Zenon
<1>3. Rows' = Rows /\ Ids' \subseteq Ids \union {req[c].id}
  BY ZenonT(30) DEF Rows, Ids
<1>4. StepOf(c)
  <2>1. received' \in Nat /\ received <= received'
    BY <1>2, CountsGrow, Zenon
  <2> QED
    BY <1>2, <1>3, <2>1, Zenon DEF StepOf
<1>5. Typed'
  BY <1>2, Zenon DEF SettlementInv, Typed
<1>6. Active(c)' /\ pc'[c] # "oracle"
  BY <1>1, <1>2, Zenon DEF Active
<1>7. TriggerOk(c)'
  <2>1. pc[c] \notin {"oracle", "insert", "mirror", "respond"}
    BY Zenon
  <2> QED
    BY <1>1, <1>2, <2>1, Zenon DEF TriggerOk
<1>8. StoredAreVouched' /\ TimeLockIsFull'
  BY <1>3, Zenon DEF SettlementInv, StoredAreVouched, TimeLockIsFull
<1> QED
  BY <1>4, <1>5, <1>6, <1>7, <1>8, GoesOn, Zenon

(* What is known of the trigger changes, and no table.                     *)
LEMMA Learns ==
  ASSUME SettlementInv, NEW c \in Clients, Active(c), NEW trigger \in Triggers,
         NEW step \in {"log", "insert"}, Goto(c, step),
         req' = [req EXCEPT ![c] = trigger], UNCHANGED <<height, tables, answer, received>>,
         trigger.id = req[c].id, trigger.attested, trigger.vouched,
         trigger.payload = req[c].payload, trigger.at = req[c].at,
         trigger.answered => step = "insert" /\ trigger.init_height >= trigger.at,
         ~trigger.stored
  PROVE  SettlementInv'
<1>1. step \in Steps /\ step \notin {"idle", "oracle", "mirror", "respond"}
  BY Zenon DEF Steps
<1>2. /\ pc' \in [Clients -> Steps] /\ pc'[c] = step
      /\ \A d \in Clients \ {c} : pc'[d] = pc[d]
      /\ TriggerOk(c) /\ height \in Nat /\ received \in Nat
      /\ req \in [Clients -> Triggers \union {NoTrigger}]
  BY <1>1, OwnStep, Zenon
<1>3. /\ req' \in [Clients -> Triggers \union {NoTrigger}] /\ req'[c] = trigger
      /\ \A d \in Clients \ {c} : req'[d] = req[d]
  BY <1>2
<1>4. Rows' = Rows /\ Ids' = Ids /\ proposals' = proposals /\ height' = height
  BY ZenonT(30) DEF tables, Rows, Ids
<1>5. StepOf(c)
  BY <1>2, <1>3, <1>4 DEF StepOf
<1>6. Typed'
  BY <1>2, <1>3, <1>4, Zenon DEF SettlementInv, Typed
<1>7. Active(c)' /\ pc'[c] # "oracle"
  BY <1>1, <1>2, Zenon DEF Active
<1>8. TriggerOk(c)'
  BY <1>1, <1>2, <1>3, <1>4, Zenon DEF TriggerOk
<1>9. StoredAreVouched' /\ TimeLockIsFull'
  BY <1>4, Zenon DEF SettlementInv, StoredAreVouched, TimeLockIsFull
<1>10. req'[c].id = req[c].id
  BY <1>3, Zenon
<1> QED
  BY <1>5, <1>6, <1>7, <1>8, <1>9, <1>10, GoesOn, Zenon

(* The proposal of a trigger that may be stored.                           *)
LEMMA ProposalOk ==
  ASSUME SettlementInv, NEW c \in Clients, Active(c), pc[c] # "oracle"
  PROVE  LET p == Proposal(c)
         IN  /\ p.id = req[c].id /\ p.trigger.attested /\ p.trigger.vouched
             /\ ApprovedPayload(p.trigger.payload)
             /\ p.trigger.answered => p.unlock_height >= p.trigger.at + TimeLock
<1>1. TriggerOk(c) /\ req[c] \in Triggers
  BY Zenon DEF SettlementInv, TriggersAreOk, TriggerOk
<1> DEFINE t == [req[c] EXCEPT !.stored = FALSE]
<1>2. /\ t.attested = req[c].attested /\ t.vouched = req[c].vouched
      /\ t.payload = req[c].payload /\ t.answered = req[c].answered /\ t.at = req[c].at
  BY <1>1 DEF Triggers
<1> HIDE DEF t
<1>3. /\ Proposal(c).id = req[c].id /\ Proposal(c).trigger = t
      /\ Proposal(c).unlock_height = req[c].init_height + TimeLock
  BY Zenon DEF Proposal, t
<1>4. req[c].init_height \in Nat /\ req[c].at \in Nat /\ TimeLock \in Nat
  BY <1>1, SettlementAssumption DEF Triggers
<1>5. /\ req[c].attested /\ req[c].vouched /\ ApprovedPayload(req[c].payload)
      /\ req[c].answered => req[c].init_height >= req[c].at
  BY <1>1, ZenonT(30) DEF TriggerOk
<1>6. req[c].answered => req[c].init_height + TimeLock >= req[c].at + TimeLock
  BY <1>4, <1>5
<1> QED
  BY <1>2, <1>3, <1>5, <1>6, Zenon

(* A proposal is written, here or in Kwil.                                 *)
LEMMA Stores ==
  ASSUME SettlementInv, NEW c \in Clients, Active(c), pc[c] # "oracle",
         NEW step \in {"mirror", "respond"}, Goto(c, step),
         proposals' \in {proposals, proposals \union {Proposal(c)}},
         kwil_proposals' \in {kwil_proposals, kwil_proposals \union {Proposal(c)}},
         req' \in [Clients -> Triggers \union {NoTrigger}],
         \A d \in Clients \ {c} : req'[d] = req[d],
         req'[c] \in {req[c], [req[c] EXCEPT !.stored = TRUE]},
         req'[c].stored => Proposal(c) \in proposals',
         UNCHANGED <<height, logs, kwil_logs, answer, received>>
  PROVE  SettlementInv'
<1>1. step \in Steps /\ step \notin {"idle", "oracle"}
  BY Zenon DEF Steps
<1>2. /\ pc' \in [Clients -> Steps] /\ pc'[c] = step
      /\ \A d \in Clients \ {c} : pc'[d] = pc[d]
      /\ TriggerOk(c) /\ req[c] \in Triggers /\ height \in Nat /\ received \in Nat
  BY <1>1, OwnStep, Zenon
<1>3. /\ Proposal(c).id = req[c].id /\ Proposal(c).trigger.attested
      /\ Proposal(c).trigger.vouched /\ ApprovedPayload(Proposal(c).trigger.payload)
      /\ Proposal(c).trigger.answered =>
           Proposal(c).unlock_height >= Proposal(c).trigger.at + TimeLock
  BY ProposalOk, Zenon
<1>4. Rows' \subseteq Rows \union {Proposal(c)}
  BY Zenon DEF Rows
<1>5. Ids' \subseteq Ids \union {req[c].id}
  <2>1. {p.id : p \in Rows'} \subseteq {p.id : p \in Rows} \union {req[c].id}
    BY <1>3, <1>4, Zenon
  <2> QED
    BY <2>1, Zenon DEF Ids
<1>6. StepOf(c)
  BY <1>2, <1>5 DEF StepOf
<1>7. Typed'
  BY <1>2, Zenon DEF SettlementInv, Typed
<1>8. Active(c)' /\ pc'[c] # "oracle"
  BY <1>1, <1>2, Zenon DEF Active
<1>9. /\ req'[c] \in Triggers /\ req'[c].id = req[c].id /\ req'[c].attested = req[c].attested
      /\ req'[c].vouched = req[c].vouched /\ req'[c].payload = req[c].payload
      /\ req'[c].at = req[c].at /\ req'[c].init_height = req[c].init_height
      /\ req'[c].answered = req[c].answered
      /\ [req'[c] EXCEPT !.stored = FALSE] = [req[c] EXCEPT !.stored = FALSE]
  <2>1. CASE req'[c] = req[c]
    BY <1>2, <2>1, Zenon
  <2>2. CASE req'[c] = [req[c] EXCEPT !.stored = TRUE]
    BY <1>2, <2>2, Zenon DEF Triggers
  <2> QED
    BY <2>1, <2>2, Zenon
<1>10. Proposal(c)' = Proposal(c)
  BY <1>9, Zenon DEF Proposal
<1>11. TriggerOk(c)'
  BY <1>2, <1>8, <1>9, <1>10, Zenon DEF TriggerOk
<1>12. StoredAreVouched'
  BY <1>3, <1>4, Zenon DEF SettlementInv, StoredAreVouched
<1>13. TimeLockIsFull'
  BY <1>3, ZenonT(30) DEF SettlementInv, TimeLockIsFull
<1> QED
  BY <1>6, <1>7, <1>8, <1>9, <1>11, <1>12, <1>13, GoesOn, ZenonT(30)

(* A trigger comes in and passes the checks: it gets the next id.          *)
LEMMA Accepts ==
  ASSUME SettlementInv, NEW c \in Clients, pc[c] = "idle", NEW trigger \in Triggers,
         req' = [req EXCEPT ![c] = trigger], answer' = [answer EXCEPT ![c] = NoAnswer],
         NEW step \in {"oracle", "log"}, Goto(c, step), UNCHANGED <<height, tables>>,
         received' = received + 1, trigger.id = received + 1, trigger.attested,
         ApprovedPayload(trigger.payload), step # "oracle" => trigger.vouched,
         trigger.at = height, ~trigger.answered, ~trigger.stored
  PROVE  SettlementInv'
<1>1. /\ height \in Nat /\ received \in Nat /\ pc \in [Clients -> Steps]
      /\ req \in [Clients -> Triggers \union {NoTrigger}] /\ DOMAIN answer = Clients
  BY Zenon DEF SettlementInv, Typed
<1>2. Rows' = Rows /\ Ids' = Ids /\ proposals' = proposals /\ height' = height
  BY Zenon DEF tables, Rows, Ids
<1>3. /\ pc' \in [Clients -> Steps] /\ pc'[c] = step
      /\ req' \in [Clients -> Triggers \union {NoTrigger}] /\ req'[c] = trigger
      /\ DOMAIN answer' = Clients /\ answer'[c] = NoAnswer
      /\ \A d \in Clients \ {c} : pc'[d] = pc[d] /\ req'[d] = req[d] /\ answer'[d] = answer[d]
  BY <1>1 DEF Goto, Steps
<1>4. Typed'
  BY <1>1, <1>2, <1>3, SMTT(20) DEF Typed
<1>5. StepOf(c)
  BY <1>1, <1>2, <1>3 DEF StepOf
<1>6. TriggerOk(c)'
  <2>1. step \notin {"mirror", "respond"} /\ trigger.id <= received' /\ trigger.at <= height
    BY <1>1
  <2> QED
    BY <1>2, <1>3, <2>1, ZenonT(30) DEF TriggerOk
<1>7. TriggersAreOk'
  BY <1>5, <1>6, OthersStayOk, ZenonT(30) DEF TriggersAreOk
<1>8. received + 1 \notin 0..received
  BY <1>1
<1>9. Ids \subseteq 0..received
  BY Zenon DEF SettlementInv, RowsAreReceived
<1>10. \A d \in Clients \ {c} : Active(d)' =>
         Active(d) /\ req'[d] = req[d] /\ req[d].id \in 0..received
  <2> SUFFICES ASSUME NEW d \in Clients \ {c}, Active(d)'
               PROVE  Active(d) /\ req'[d] = req[d] /\ req[d].id \in 0..received
    OBVIOUS
  <2>1. Active(d)
    BY <1>5, OthersStayOk, Zenon
  <2>2. req[d] \in Triggers /\ req[d].id <= received
    BY <2>1, Zenon DEF SettlementInv, TriggersAreOk, TriggerOk
  <2>3. req[d].id \in 0..received
    BY <1>1, <2>2 DEF Triggers
  <2> QED
    BY <1>3, <2>1, <2>3, ZenonT(30)
<1>11. req'[c].id = received + 1
  BY <1>3, Zenon
<1>12. IdsDiffer'
  <2> SUFFICES ASSUME NEW d \in Clients, NEW e \in Clients, d # e, Active(d)', Active(e)'
               PROVE  req'[d].id # req'[e].id
    BY Zenon DEF IdsDiffer
  <2>1. CASE d = c
    <3>1. req'[e].id \in 0..received
      BY <1>10, <2>1, Zenon
    <3> QED
      BY <1>8, <1>11, <2>1, <3>1, Zenon
  <2>2. CASE e = c
    <3>1. req'[d].id \in 0..received
      BY <1>10, <2>2, Zenon
    <3> QED
      BY <1>8, <1>11, <2>2, <3>1, Zenon
  <2>3. CASE d # c /\ e # c
    <3>1. Active(d) /\ Active(e) /\ req'[d] = req[d] /\ req'[e] = req[e]
      BY <1>10, <2>3, Zenon
    <3> QED
      BY <3>1, Zenon DEF SettlementInv, IdsDiffer
  <2> QED
    BY <2>1, <2>2, <2>3, Zenon
<1>13. RowsAreReceived'
  <2>1. 0..received \subseteq 0..received'
    BY <1>1
  <2> QED
    BY <1>2, <1>9, <2>1, ZenonT(30) DEF RowsAreReceived
<1>14. OracleFirst'
  <2>1. req'[c].id \notin Ids'
    BY <1>2, <1>8, <1>9, <1>11, Zenon
  <2> QED
    BY <1>5, <2>1, OthersStayOk, Zenon DEF OracleFirst
<1>15. RefusedAreOver'
  <2> SUFFICES ASSUME NEW d \in Clients, Refused(d)'
               PROVE  /\ answer'[d].id \in (0..received') \ Ids'
                      /\ \A e \in Clients : Active(e)' => req'[e].id # answer'[d].id
    BY Zenon DEF RefusedAreOver
  <2>1. d # c
    BY <1>3 DEF Refused, NoAnswer
  <2>2. Refused(d) /\ answer'[d] = answer[d]
    BY <1>3, <2>1, Zenon DEF Refused
  <2>3. answer'[d].id \in (0..received') \ Ids'
    BY <1>5, <2>1, <2>2, OthersStayOk, Zenon
  <2>4. /\ answer[d].id \in 0..received
        /\ \A e \in Clients : Active(e) => req[e].id # answer[d].id
    BY <2>2, Zenon DEF SettlementInv, RefusedAreOver
  <2>5. req'[c].id # answer[d].id
    BY <1>8, <1>11, <2>4, Zenon
  <2>6. ASSUME NEW e \in Clients, Active(e)' PROVE req'[e].id # answer[d].id
    BY <1>10, <2>4, <2>5, <2>6, Zenon
  <2> QED
    BY <2>2, <2>3, <2>6, Zenon
<1>16. ActiveMeansStored'
  <2>1. answer'[c].status # "Active"
    BY <1>3 DEF NoAnswer
  <2> QED
    BY <1>5, <2>1, OthersStayOk, ZenonT(30) DEF ActiveMeansStored
<1>17. StoredAreVouched' /\ TimeLockIsFull'
  BY <1>2, Zenon DEF SettlementInv, StoredAreVouched, TimeLockIsFull
<1> QED
  BY <1>4, <1>7, <1>12, <1>13, <1>14, <1>15, <1>16, <1>17, ZenonT(30) DEF SettlementInv

LEMMA HandlerKeeps ==
  ASSUME SettlementInv, NEW c \in Clients, NEW payload \in Payloads, NEW rate \in Rates,
         NEW attested \in BOOLEAN, settlement_trigger_handler(c, payload, rate, attested)
  PROVE  SettlementInv'
<1> DEFINE verdict == validate_routing_policy_metadata(payload)
           trigger == [id |-> received + 1, payload |-> payload,
                       attested |-> attested, vouched |-> ~OracleEnabled, rate |-> rate,
                       at |-> height, init_height |-> 0, answered |-> FALSE,
                       stored |-> FALSE]
           step == IF OracleEnabled THEN "oracle" ELSE "log"
           rejected == [status |-> "Rejected", id |-> received + 1]
           blocked == [status |-> "PolicyBlocked", id |-> received + 1,
                       code |-> verdict, payload |-> payload]
<1> HIDE DEF verdict
<1>1. /\ pc[c] = "idle" /\ received' = received + 1 /\ UNCHANGED <<height, tables>>
      /\ \/ Respond(c, rejected)
         \/ Respond(c, blocked)
         \/ /\ attested /\ verdict = Allowed
            /\ req' = [req EXCEPT ![c] = trigger]
            /\ answer' = [answer EXCEPT ![c] = NoAnswer]
            /\ Goto(c, step)
  BY Zenon DEF settlement_trigger_handler, verdict
<1>2. height \in Nat /\ received \in Nat
  BY ZenonT(30) DEF SettlementInv, Typed
<1>3. /\ received' \in Nat /\ received <= received'
      /\ received + 1 \in 0..received' /\ received + 1 \notin 0..received
  BY <1>1, <1>2, CountsGrow, Zenon
<1>4. /\ received + 1 \notin Ids
      /\ \A d \in Clients : Active(d) => req[d].id # received + 1
  <2>1. Ids \subseteq 0..received
    BY Zenon DEF SettlementInv, RowsAreReceived
  <2>2. ASSUME NEW d \in Clients, Active(d) PROVE req[d].id \in 0..received
    <3>1. req[d] \in Triggers /\ req[d].id <= received
      BY <2>2, Zenon DEF SettlementInv, TriggersAreOk, TriggerOk
    <3> QED
      BY <1>2, <3>1 DEF Triggers
  <2> QED
    BY <1>3, <2>1, <2>2, Zenon
<1>5. ASSUME NEW response, Respond(c, response), response.id = received + 1,
             response.status # "Active"
      PROVE  SettlementInv'
  BY <1>1, <1>3, <1>4, <1>5, Ends, Zenon
<1>6. CASE Respond(c, rejected)
  <2>1. rejected.id = received + 1 /\ rejected.status # "Active"
    BY ZenonT(30)
  <2> HIDE DEF rejected
  <2> QED
    BY <1>5, <1>6, <2>1, Zenon
<1>7. CASE Respond(c, blocked)
  <2>1. blocked.id = received + 1 /\ blocked.status # "Active"
    OBVIOUS
  <2> HIDE DEF blocked
  <2> QED
    BY <1>5, <1>7, <2>1, Zenon
<1>8. CASE /\ attested /\ verdict = Allowed
           /\ req' = [req EXCEPT ![c] = trigger]
           /\ answer' = [answer EXCEPT ![c] = NoAnswer]
           /\ Goto(c, step)
  <2>1. ApprovedPayload(payload)
    BY <1>8, AllowedIsApproved, Zenon DEF verdict
  <2>2. OracleEnabled \in BOOLEAN
    BY SettlementAssumption, ZenonT(30)
  <2>3. trigger \in Triggers
    BY <1>2, <2>2 DEF Triggers
  <2>4. /\ trigger.id = received + 1 /\ trigger.attested = attested
        /\ trigger.payload = payload /\ trigger.at = height /\ ~trigger.answered /\ ~trigger.stored
        /\ trigger.vouched = ~OracleEnabled
    BY Zenon
  <2> HIDE DEF trigger
  <2>5. step \in {"oracle", "log"} /\ (step # "oracle" => trigger.vouched)
    BY <2>2, <2>4, Zenon
  <2> HIDE DEF step
  <2> QED
    BY <1>1, <1>8, <2>1, <2>3, <2>4, <2>5, Accepts, ZenonT(30)
<1> QED
  BY <1>1, <1>6, <1>7, <1>8, Zenon

LEMMA SignalKeeps ==
  ASSUME SettlementInv, NEW c \in Clients, verify_external_signal(c)
  PROVE  SettlementInv'
<1>1. pc[c] = "oracle" /\ UNCHANGED <<height, tables, received>>
  BY Zenon DEF verify_external_signal
<1>2. Active(c)
  BY <1>1 DEF Active
<1>3. /\ TriggerOk(c) /\ req[c] \in Triggers /\ req[c].id \notin Ids
      /\ req \in [Clients -> Triggers \union {NoTrigger}] /\ received \in Nat
  BY <1>1, <1>2, Zenon DEF SettlementInv, TriggersAreOk, TriggerOk, OracleFirst, Typed
<1> DEFINE trigger == [req[c] EXCEPT !.vouched = TRUE, !.rate = NoRate]
           rejected == [status |-> "Rejected", id |-> req[c].id]
           failed == [status |-> "Error", id |-> req[c].id]
<1>4. \/ /\ req' = [req EXCEPT ![c].vouched = TRUE, ![c].rate = NoRate]
         /\ Goto(c, "log") /\ UNCHANGED answer
      \/ Respond(c, rejected)
      \/ Respond(c, failed)
  BY Zenon DEF verify_external_signal
<1>5. CASE /\ req' = [req EXCEPT ![c].vouched = TRUE, ![c].rate = NoRate]
           /\ Goto(c, "log") /\ UNCHANGED answer
  <2>1. req' = [req EXCEPT ![c] = trigger]
    BY <1>3, <1>5, Zenon
  <2>2. /\ trigger \in Triggers /\ trigger.id = req[c].id /\ trigger.vouched
        /\ trigger.attested = req[c].attested /\ trigger.payload = req[c].payload
        /\ trigger.at = req[c].at /\ trigger.answered = req[c].answered
        /\ trigger.stored = req[c].stored
    BY <1>3, Zenon DEF Triggers
  <2> HIDE DEF trigger
  <2>3. trigger.attested /\ ~trigger.answered /\ ~trigger.stored
    BY <1>1, <1>3, <2>2 DEF TriggerOk
  <2>4. "log" \in {"log", "insert"}
    OBVIOUS
  <2> QED
    BY <1>1, <1>2, <1>5, <2>1, <2>2, <2>3, <2>4, Learns, ZenonT(30)
<1>6. /\ received' \in Nat /\ received <= received'
      /\ req[c].id \in (0..received') \ Ids
  BY <1>1, <1>3 DEF TriggerOk, Triggers
<1>7. \A d \in Clients \ {c} : Active(d) => req[d].id # req[c].id
  BY <1>2, Zenon DEF SettlementInv, IdsDiffer
<1>8. CASE Respond(c, rejected)
  <2>1. rejected.status = "Rejected" /\ rejected.id = req[c].id
    BY Zenon
  <2>2. rejected.status # "Active"
    BY Zenon
  <2> HIDE DEF rejected
  <2> QED
    BY <1>1, <1>6, <1>7, <1>8, <2>1, <2>2, Ends, ZenonT(30)
<1>9. CASE Respond(c, failed)
  <2>1. failed.status \notin {"Rejected", "PolicyBlocked", "Active"}
    OBVIOUS
  <2> HIDE DEF failed
  <2> QED
    BY <1>1, <1>6, <1>9, <2>1, Ends, ZenonT(30)
<1> QED
  BY <1>4, <1>5, <1>8, <1>9, Zenon

LEMMA HeightKeeps ==
  ASSUME SettlementInv, NEW c \in Clients, GetHeight(c)
  PROVE  SettlementInv'
<1>1. /\ pc[c] = "height" /\ Goto(c, "insert") /\ UNCHANGED <<height, tables, answer, received>>
  BY Zenon DEF GetHeight
<1>2. Active(c) /\ pc[c] # "oracle"
  BY <1>1 DEF Active
<1>3. /\ TriggerOk(c) /\ req[c] \in Triggers /\ height \in Nat
      /\ req \in [Clients -> Triggers \union {NoTrigger}]
  BY <1>2, Zenon DEF SettlementInv, TriggersAreOk, TriggerOk, Typed
<1> DEFINE found == [req[c] EXCEPT !.init_height = height, !.answered = TRUE]
           failed == [req[c] EXCEPT !.init_height = 0]
<1>4. \/ req' = [req EXCEPT ![c] = found]
      \/ req' = [req EXCEPT ![c] = failed]
  BY <1>3, Zenon DEF GetHeight
<1>5. req[c].attested /\ req[c].vouched /\ req[c].at <= height /\ ~req[c].stored
  BY <1>1, <1>3 DEF TriggerOk
<1>6. "insert" \in {"log", "insert"}
  OBVIOUS
<1>7. CASE req' = [req EXCEPT ![c] = found]
  <2>1. /\ found \in Triggers /\ found.id = req[c].id /\ found.vouched = req[c].vouched
        /\ found.attested = req[c].attested /\ found.payload = req[c].payload
        /\ found.at = req[c].at /\ found.init_height = height /\ found.stored = req[c].stored
    BY <1>3, Zenon DEF Triggers
  <2> HIDE DEF found
  <2>2. found.init_height >= found.at
    BY <1>3, <1>5, <2>1 DEF Triggers
  <2> QED
    BY <1>1, <1>2, <1>5, <1>6, <1>7, <2>1, <2>2, Learns, ZenonT(30)
<1>8. CASE req' = [req EXCEPT ![c] = failed]
  <2>1. /\ failed \in Triggers /\ failed.id = req[c].id /\ failed.vouched = req[c].vouched
        /\ failed.attested = req[c].attested /\ failed.payload = req[c].payload
        /\ failed.at = req[c].at /\ failed.answered = req[c].answered
        /\ failed.stored = req[c].stored
    BY <1>3 DEF Triggers
  <2> HIDE DEF failed
  <2>2. ~failed.answered
    BY <1>1, <1>3, <2>1 DEF TriggerOk
  <2> QED
    BY <1>1, <1>2, <1>5, <1>6, <1>8, <2>1, <2>2, Learns, ZenonT(30)
<1> QED
  BY <1>4, <1>7, <1>8, Zenon

LEMMA FinishKeeps ==
  ASSUME SettlementInv, NEW c \in Clients, Finish(c) \/ Abandon(c)
  PROVE  SettlementInv'
<1>1. Active(c) /\ UNCHANGED <<height, tables, received>>
  BY Zenon DEF Finish, Abandon, Active
<1>2. received' \in Nat /\ received <= received'
  BY <1>1 DEF SettlementInv, Typed
<1> DEFINE active == [status |-> "Active", id |-> req[c].id,
                      unlock_height |-> Proposal(c).unlock_height]
           failed == [status |-> "Error", id |-> req[c].id]
<1>3. \/ Respond(c, NoAnswer) \/ Respond(c, failed)
      \/ pc[c] = "respond" /\ req[c].stored /\ Respond(c, active)
  BY Zenon DEF Finish, Abandon
<1>4. ASSUME NEW response, Respond(c, response),
             response.status \notin {"Rejected", "PolicyBlocked", "Active"}
      PROVE  SettlementInv'
  BY <1>1, <1>2, <1>4, Ends, Zenon
<1>5. CASE Respond(c, NoAnswer)
  <2>1. NoAnswer.status \notin {"Rejected", "PolicyBlocked", "Active"}
    BY DEF NoAnswer
  <2> QED
    BY <1>4, <1>5, <2>1, Zenon
<1>6. CASE Respond(c, failed)
  <2>1. failed.status \notin {"Rejected", "PolicyBlocked", "Active"}
    OBVIOUS
  <2> HIDE DEF failed
  <2> QED
    BY <1>4, <1>6, <2>1, Zenon
<1>7. CASE pc[c] = "respond" /\ req[c].stored /\ Respond(c, active)
  <2>1. Proposal(c) \in proposals
    BY <1>1, <1>7 DEF SettlementInv, TriggersAreOk, TriggerOk
  <2>2. /\ active.status \notin {"Rejected", "PolicyBlocked"}
        /\ active.id = Proposal(c).id /\ active.unlock_height = Proposal(c).unlock_height
    BY DEF Proposal
  <2> HIDE DEF active
  <2> QED
    BY <1>1, <1>2, <1>7, <2>1, <2>2, Ends, ZenonT(30)
<1> QED
  BY <1>3, <1>5, <1>6, <1>7, ZenonT(30)

LEMMA InsertKeeps ==
  ASSUME SettlementInv, NEW c \in Clients,
         InsertProposal(c) \/ persist_settlement_proposal(c)
  PROVE  SettlementInv'
<1>1. /\ pc[c] \in {"insert", "mirror"} /\ UNCHANGED <<height, logs, kwil_logs, answer, received>>
      /\ \E step \in {"mirror", "respond"} : Goto(c, step)
      /\ proposals' \in {proposals, proposals \union {Proposal(c)}}
      /\ kwil_proposals' \in {kwil_proposals, kwil_proposals \union {Proposal(c)}}
  BY Zenon DEF InsertProposal, persist_settlement_proposal
<1>2. Active(c) /\ pc[c] # "oracle"
  BY <1>1 DEF Active
<1>3. /\ TriggerOk(c) /\ req[c] \in Triggers
      /\ req \in [Clients -> Triggers \union {NoTrigger}]
  BY <1>2, Zenon DEF SettlementInv, TriggersAreOk, TriggerOk, Typed
<1> DEFINE stored == [req[c] EXCEPT !.stored = TRUE]
<1>4. \/ UNCHANGED req
      \/ req' = [req EXCEPT ![c] = stored] /\ Proposal(c) \in proposals'
  <2>1. \/ UNCHANGED req
        \/ req' = [req EXCEPT ![c].stored = TRUE] /\ proposals' = proposals \union {Proposal(c)}
    BY Zenon DEF InsertProposal, persist_settlement_proposal
  <2>2. [req EXCEPT ![c].stored = TRUE] = [req EXCEPT ![c] = stored]
    OBVIOUS
  <2> QED
    BY <2>1, <2>2, Zenon
<1>5. /\ req' \in [Clients -> Triggers \union {NoTrigger}]
      /\ \A d \in Clients \ {c} : req'[d] = req[d]
      /\ req'[c] \in {req[c], stored}
  <2>1. stored \in Triggers
    BY <1>3, Zenon DEF Triggers
  <2> HIDE DEF stored
  <2>2. CASE UNCHANGED req
    BY <1>3, <2>2, Zenon
  <2>3. CASE req' = [req EXCEPT ![c] = stored]
    BY <1>3, <2>1, <2>3
  <2> QED
    BY <1>4, <2>2, <2>3, Zenon
<1>6. req'[c].stored => Proposal(c) \in proposals'
  BY <1>1, <1>3, <1>4, Zenon DEF TriggerOk
<1>7. PICK step \in {"mirror", "respond"} : Goto(c, step)
  BY <1>1, Zenon
<1> QED
  BY <1>1, <1>2, <1>5, <1>6, <1>7, Stores, ZenonT(30)

LEMMA SettlementStep == SettlementInv /\ [Next]_vars => SettlementInv'
<1> SUFFICES ASSUME SettlementInv, [Next]_vars PROVE SettlementInv'
  BY Zenon
<1>1. ASSUME NEW c \in Clients, InsertLog(c) \/ persist_settlement_log(c)
      PROVE  SettlementInv'
  <2>1. /\ pc[c] \in {"log", "log_kwil"} /\ \E step \in {"log_kwil", "height"} : Goto(c, step)
        /\ logs' \in {logs, logs \union {req[c].id}}
        /\ kwil_logs' \in {kwil_logs, kwil_logs \union {req[c].id}}
        /\ UNCHANGED <<height, proposals, kwil_proposals, req, answer, received>>
    BY <1>1, ZenonT(30) DEF InsertLog, persist_settlement_log
  <2>2. Active(c)
    BY <2>1 DEF Active
  <2>3. PICK step \in {"log_kwil", "height"} : Goto(c, step)
    BY <2>1, Zenon
  <2> QED
    BY <2>1, <2>2, <2>3, Logs, Zenon
<1>2. ASSUME NewBlock PROVE SettlementInv'
  <2>1. /\ height' = height + 1 /\ height \in Nat
        /\ UNCHANGED <<proposals, kwil_proposals, logs, kwil_logs, pc, req, answer, received>>
    BY <1>2, Zenon DEF NewBlock, tables, SettlementInv, Typed
  <2>2. height' \in Nat /\ height <= height'
    BY <2>1
  <2>3. Rows' = Rows /\ Ids' = Ids
    BY <2>1, Zenon DEF Rows, Ids
  <2>4. ASSUME NEW c \in Clients, TriggerOk(c) PROVE TriggerOk(c)'
    <3>1. Proposal(c)' = Proposal(c)
      BY <2>1, ZenonT(30) DEF Proposal
    <3>2. req[c].at <= height'
      BY <2>1, <2>2, <2>4 DEF TriggerOk, Triggers
    <3> QED
      BY <2>1, <2>4, <3>1, <3>2, Zenon DEF TriggerOk
  <2>5. \A c \in Clients : (Active(c)' <=> Active(c)) /\ (Refused(c)' <=> Refused(c))
    BY <2>1, Zenon DEF Active, Refused
  <2>6. Typed' /\ TriggersAreOk' /\ IdsDiffer'
    BY <2>1, <2>2, <2>4, <2>5, Zenon DEF SettlementInv, Typed, TriggersAreOk, IdsDiffer
  <2>7. RowsAreReceived' /\ OracleFirst' /\ RefusedAreOver'
    BY <2>1, <2>3, <2>5, Zenon
       DEF SettlementInv, RowsAreReceived, OracleFirst, RefusedAreOver
  <2>8. StoredAreVouched' /\ ActiveMeansStored' /\ TimeLockIsFull'
    BY <2>1, <2>3, ZenonT(30)
       DEF SettlementInv, StoredAreVouched, ActiveMeansStored, TimeLockIsFull
  <2> QED
    BY <2>6, <2>7, <2>8, Zenon DEF SettlementInv
<1>3. ASSUME UNCHANGED vars PROVE SettlementInv'
  <2>1. UNCHANGED <<height, proposals, kwil_proposals, logs, kwil_logs, pc, req, answer,
                    received>>
    BY <1>3, Zenon DEF vars
  <2>2. Typed' /\ TriggersAreOk' /\ IdsDiffer'
    BY <2>1, ZenonT(30)
       DEF SettlementInv, Typed, TriggersAreOk, TriggerOk, Proposal, IdsDiffer, Active
  <2>3. Rows' = Rows /\ Ids' = Ids
    BY <2>1, Zenon DEF Rows, Ids
  <2>4. RowsAreReceived' /\ OracleFirst' /\ RefusedAreOver'
    BY <2>1, <2>3, Zenon
       DEF SettlementInv, RowsAreReceived, OracleFirst, RefusedAreOver, Refused, Active
  <2>5. StoredAreVouched' /\ ActiveMeansStored' /\ TimeLockIsFull'
    BY <2>1, <2>3, Zenon
       DEF SettlementInv, StoredAreVouched, ActiveMeansStored, TimeLockIsFull
  <2> QED
    BY <2>2, <2>4, <2>5, Zenon DEF SettlementInv
<1>4. ASSUME NEW c \in Clients, Step(c) PROVE SettlementInv'
  BY <1>1, <1>4, SignalKeeps, HeightKeeps, InsertKeeps, FinishKeeps, ZenonT(30) DEF Step
<1> QED
  BY <1>2, <1>3, <1>4, HandlerKeeps, ZenonT(30) DEF Next

LEMMA SettlementInvariant == Spec => []SettlementInv
BY SettlementInit, SettlementStep, PTL DEF Spec

-----------------------------------------------------------------------------
(* Whatever fails on the way, no proposal is stored for a trigger without  *)
(* attestation, approved route or the oracle's consent, and one that was   *)
(* refused leaves no row.                                                  *)
THEOREM StoredWereVouched == Spec => []OnlyVouchedTriggersAreStored
<1>1. SettlementInv => OnlyVouchedTriggersAreStored
  <2> SUFFICES ASSUME SettlementInv PROVE OnlyVouchedTriggersAreStored
    BY Zenon
  <2>1. \A p \in proposals \union kwil_proposals :
          /\ p.trigger.attested /\ p.trigger.vouched
          /\ ApprovedPayload(p.trigger.payload)
    BY Zenon DEF SettlementInv, StoredAreVouched, Rows
  <2>2. ASSUME NEW c \in Clients, answer[c].status \in {"Rejected", "PolicyBlocked"}
        PROVE  /\ answer[c].id \notin logs \union kwil_logs
               /\ \A p \in proposals \union kwil_proposals : p.id # answer[c].id
    <3>1. answer[c].id \notin Ids
      BY <2>2, Zenon DEF SettlementInv, RefusedAreOver, Refused
    <3> QED
      BY <3>1, Zenon DEF Ids, Rows
  <2> QED
    BY <2>1, <2>2, Zenon DEF OnlyVouchedTriggersAreStored
<1> QED
  BY SettlementInvariant, <1>1, PTL

(* A client is told "Active" only with its proposal in                     *)
(* settlement_proposals, under the unlock height it was told.              *)
THEOREM ActiveIsStored == Spec => []ActiveMeansStored
<1>1. SettlementInv => ActiveMeansStored
  BY DEF SettlementInv
<1> QED
  BY SettlementInvariant, <1>1, PTL

(* Unless the height query failed, a proposal is locked for all of         *)
(* TimeLock blocks from the arrival of its trigger.                        *)
THEOREM LockIsFull == Spec => []TimeLockIsFull
<1>1. SettlementInv => TimeLockIsFull
  BY DEF SettlementInv
<1> QED
  BY SettlementInvariant, <1>1, PTL

(* The fifteen checks of the routing policy are the table of approved      *)
(* routes, for any payloads.                                               *)
THEOREM PolicyIsRight == Spec => []PolicyIsTheTable
<1>1. PolicyIsTheTable
  BY AllowedIsApproved, Zenon DEF PolicyIsTheTable
<1> QED
  BY <1>1, PTL

(* The oracle's verdict follows the sources, for any replies and quotes.   *)
THEOREM OracleIsRight == Spec => []VerdictFollowsTheSources
<1>1. VerdictFollowsTheSources
  <2>1. OracleInputs \subseteq Replies /\ QuoteInputs \subseteq Nat \ {0}
    BY RatesAssumption, ZenonT(30) DEF Replies
  <2> QED
    BY <2>1, VerdictIsJust, Zenon DEF VerdictFollowsTheSources
<1> QED
  BY <1>1, PTL
=============================================================================
