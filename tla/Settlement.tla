---------------------------- MODULE Settlement ----------------------------
(***************************************************************************)
(* settlement_trigger_handler of src/api/settlement.rs: an external        *)
(* trigger passes the TEE prefix check, the routing policy and the oracle, *)
(* is logged, and becomes a proposal locked for 144 blocks, each record    *)
(* being copied to Kwil.  Every await is a step; requests interleave with  *)
(* one another and with new blocks; each call out may fail, and a request  *)
(* whose client goes away is dropped where it stands.                      *)
(***************************************************************************)
EXTENDS RoutingPolicy, OracleAggregator

CONSTANTS Clients,
          Payloads,        \* payloads a trigger may carry
          TimeLock,        \* 144 blocks
          OracleEnabled, KwilEnabled,   \* state.oracle, state.kwil
          Rates,           \* exchange rates a trigger may quote
          OracleReplies,   \* what the oracle's endpoints may reply
          PolicyInputs,    \* payloads to try the routing policy on
          OracleInputs,    \* replies, and quotes, to try the oracle on
          QuoteInputs,
          MaxHeight,       \* bound: height of the chain
          MaxTriggers      \* bound: triggers received

ASSUME SettlementAssumption ==
  /\ TimeLock \in Nat /\ MaxHeight \in Nat /\ MaxTriggers \in Nat
  /\ {OracleEnabled, KwilEnabled} \subseteq BOOLEAN

(* A payload is a list of policies of the three shapes there are.          *)
ASSUME PayloadsAssumption ==
  \A payload \in Payloads \union PolicyInputs :
    /\ Len(payload) \in Nat
    /\ \A i \in 1..Len(payload) : payload[i].shape \in Shapes

(* A rate is a number, and one that is quoted a positive one.              *)
ASSUME RatesAssumption ==
  /\ OracleInputs \subseteq [Endpoints -> Nat \union {NoReply}]
  /\ QuoteInputs \subseteq Nat \ {0}

VARIABLES height,          \* MAX(height) of stacks_blocks
          proposals, logs, \* settlement_proposals, cxn_external_settlement_logs
          kwil_proposals, kwil_logs,    \* their copies in Kwil
          pc, req,         \* client -> step, trigger and what is known of it
          answer,          \* client -> last response
          received         \* history: number of triggers so far

vars == <<height, proposals, logs, kwil_proposals, kwil_logs, pc, req, answer,
          received>>
tables == <<proposals, logs, kwil_proposals, kwil_logs>>

NoTrigger == [id |-> 0]
NoAnswer == [status |-> "none"]

Init ==
  /\ height = 0
  /\ proposals = {} /\ logs = {} /\ kwil_proposals = {} /\ kwil_logs = {}
  /\ pc = [c \in Clients |-> "idle"]
  /\ req = [c \in Clients |-> NoTrigger]
  /\ answer = [c \in Clients |-> NoAnswer]
  /\ received = 0

Goto(c, step) == pc' = [pc EXCEPT ![c] = step]

Respond(c, response) ==
  /\ answer' = [answer EXCEPT ![c] = response]
  /\ req' = [req EXCEPT ![c] = NoTrigger]
  /\ Goto(c, "idle")

-----------------------------------------------------------------------------
(* Mutant: the oracle is asked, and the trigger logged, without a verdict. *)
verify_external_signal_late(c) ==
  /\ pc[c] = "oracle"
  /\ logs' = logs \union {req[c].id}
  /\ \/ Goto(c, "log") /\ UNCHANGED <<req, answer>>
     \/ Respond(c, [status |-> "Rejected", id |-> req[c].id])
  /\ UNCHANGED <<height, proposals, kwil_proposals, kwil_logs, received>>

(* Attestation and policy are checked before the first await.              *)
settlement_trigger_handler(c, payload, rate, attested) ==
  /\ pc[c] = "idle" /\ received < MaxTriggers
  /\ received' = received + 1
  /\ LET verdict == validate_routing_policy_metadata(payload)
         trigger == [id |-> received + 1, payload |-> payload,
                     attested |-> attested, vouched |-> ~OracleEnabled, rate |-> rate,
                     at |-> height, init_height |-> 0, answered |-> FALSE,
                     stored |-> FALSE]
     IN IF ~attested
        THEN Respond(c, [status |-> "Rejected", id |-> trigger.id])
        ELSE IF verdict # Allowed
        THEN Respond(c, [status |-> "PolicyBlocked", id |-> trigger.id,
                         code |-> verdict, payload |-> payload])
        ELSE /\ req' = [req EXCEPT ![c] = trigger]
             /\ answer' = [answer EXCEPT ![c] = NoAnswer]
             /\ Goto(c, IF OracleEnabled THEN "oracle" ELSE "log")
  /\ UNCHANGED <<height, tables>>

(* The quoted rate is not looked at again and is forgotten here.           *)
verify_external_signal(c) ==
  /\ pc[c] = "oracle"
  /\ \E replies \in OracleReplies :
       LET verdict == signal_verdict(req[c].rate, replies)
       IN \/ /\ verdict = "vouched"
             /\ req' = [req EXCEPT ![c].vouched = TRUE, ![c].rate = NoRate]
             /\ Goto(c, "log")
             /\ UNCHANGED answer
          \/ /\ verdict = "refused"
             /\ Respond(c, [status |-> "Rejected", id |-> req[c].id])
          \/ /\ verdict = "error"
             /\ Respond(c, [status |-> "Error", id |-> req[c].id])
  /\ UNCHANGED <<height, tables, received>>

(* The log row and its copy: errors of both are dropped.                   *)
InsertLog(c) ==
  /\ pc[c] = "log"
  /\ logs' \in {logs, logs \union {req[c].id}}
  /\ Goto(c, IF KwilEnabled THEN "log_kwil" ELSE "height")
  /\ UNCHANGED <<height, proposals, kwil_proposals, kwil_logs, req, answer,
                 received>>

persist_settlement_log(c) ==
  /\ pc[c] = "log_kwil"
  /\ kwil_logs' \in {kwil_logs, kwil_logs \union {req[c].id}}
  /\ Goto(c, "height")
  /\ UNCHANGED <<height, proposals, logs, kwil_proposals, req, answer, received>>

(* No row and a failed query both count as height 0; answered is history.  *)
GetHeight(c) ==
  /\ pc[c] = "height"
  /\ \/ req' = [req EXCEPT ![c].init_height = height, ![c].answered = TRUE]
     \/ req' = [req EXCEPT ![c].init_height = 0]
  /\ Goto(c, "insert")
  /\ UNCHANGED <<height, tables, answer, received>>

(* Mutant: the lock counts from the last multiple of its length.           *)
Proposal_aligned(c) ==
  [id |-> req[c].id, init_height |-> req[c].init_height,
   unlock_height |-> (req[c].init_height \div TimeLock + 1) * TimeLock,
   trigger |-> [req[c] EXCEPT !.stored = FALSE]]

Proposal(c) ==
  [id |-> req[c].id, init_height |-> req[c].init_height,
   unlock_height |-> req[c].init_height + TimeLock,
   trigger |-> [req[c] EXCEPT !.stored = FALSE]]

(* Mutant: the outcome of the INSERT is not looked at.                     *)
InsertProposal_unchecked(c) ==
  /\ pc[c] = "insert"
  /\ proposals' \in {proposals, proposals \union {Proposal(c)}}
  /\ req' = [req EXCEPT ![c].stored = TRUE]
  /\ Goto(c, IF KwilEnabled THEN "mirror" ELSE "respond")
  /\ UNCHANGED <<height, logs, kwil_proposals, kwil_logs, answer, received>>

(* The INSERT, whose result is kept for the end.  A failed one may have    *)
(* run.                                                                    *)
InsertProposal(c) ==
  /\ pc[c] = "insert"
  /\ \/ /\ proposals' = proposals \union {Proposal(c)}
        /\ req' = [req EXCEPT ![c].stored = TRUE]
     \/ /\ proposals' \in {proposals, proposals \union {Proposal(c)}}
        /\ UNCHANGED req
  /\ Goto(c, IF KwilEnabled THEN "mirror" ELSE "respond")
  /\ UNCHANGED <<height, logs, kwil_proposals, kwil_logs, answer, received>>

persist_settlement_proposal(c) ==
  /\ pc[c] = "mirror"
  /\ kwil_proposals' \in {kwil_proposals, kwil_proposals \union {Proposal(c)}}
  /\ Goto(c, "respond")
  /\ UNCHANGED <<height, proposals, logs, kwil_logs, req, answer, received>>

Finish(c) ==
  /\ pc[c] = "respond"
  /\ IF req[c].stored
     THEN Respond(c, [status |-> "Active", id |-> req[c].id,
                      unlock_height |-> Proposal(c).unlock_height])
     ELSE Respond(c, [status |-> "Error", id |-> req[c].id])
  /\ UNCHANGED <<height, tables, received>>

(* The client disconnects and the handler's future is dropped.             *)
Abandon(c) ==
  /\ pc[c] # "idle"
  /\ Respond(c, NoAnswer)
  /\ UNCHANGED <<height, tables, received>>

NewBlock ==
  /\ height < MaxHeight
  /\ height' = height + 1
  /\ UNCHANGED <<tables, pc, req, answer, received>>

Step(c) ==
  \/ verify_external_signal(c) \/ InsertLog(c) \/ persist_settlement_log(c)
  \/ GetHeight(c) \/ InsertProposal(c) \/ persist_settlement_proposal(c)
  \/ Finish(c) \/ Abandon(c)

Next ==
  \/ \E c \in Clients : Step(c)
  \/ \E c \in Clients, payload \in Payloads, rate \in Rates, attested \in BOOLEAN :
       settlement_trigger_handler(c, payload, rate, attested)
  \/ NewBlock

Spec == Init /\ [][Next]_vars

-----------------------------------------------------------------------------
(* The reference for the routing policy: the routes that are approved, and *)
(* the other fields present and consistent.                                *)
ApprovedRoutes ==
  ({"Ibc"} \X {"T1", "T2"} \X {"LightClient"})
  \union ({"Hyperlane"} \X {"T2", "T3"} \X {"AppDefinedMultiverifier"})
  \union ({"LayerZeroV2", "WormholeNtt"} \X {"T2", "T3"} \X {"ExternalQuorum"})
  \union ({"AxelarGmp"} \X {"T2", "T3"} \X {"SharedPos"})

Approved(policy) ==
  /\ policy.shape = "object"
  /\ <<parse(SystemTokens, policy.system), parse(TierTokens, policy.trust_tier),
       parse(ClassTokens, policy.verification_class)>> \in ApprovedRoutes
  /\ policy.policy_version # "" /\ policy.evidence_hash # ""
  /\ \/ policy.requested = NotSent
     \/ parse(TierTokens, policy.requested) = parse(TierTokens, policy.trust_tier)

ApprovedPayload(payload) == Approved(extract_routing_policy(payload))

(* validate_routing_policy_metadata, fifteen checks with early returns,    *)
(* lets exactly the approved routes through.  The verdict depends on the   *)
(* payload alone, so it is looked at before the first trigger comes in.    *)
PolicyIsTheTable ==
  received = 0 => \A payload \in PolicyInputs :
    validate_routing_policy_metadata(payload) = Allowed
      <=> ApprovedPayload(payload)

(* Whatever fails on the way, nothing is stored, here or in Kwil, for a    *)
(* trigger without attestation, approved route or the oracle's consent,    *)
(* and a trigger that was refused leaves no row in any of the four tables. *)
OnlyVouchedTriggersAreStored ==
  /\ \A p \in proposals \union kwil_proposals :
       /\ p.trigger.attested /\ p.trigger.vouched
       /\ ApprovedPayload(p.trigger.payload)
  /\ \A c \in Clients : answer[c].status \in {"Rejected", "PolicyBlocked"} =>
       /\ answer[c].id \notin logs \union kwil_logs
       /\ \A p \in proposals \union kwil_proposals : p.id # answer[c].id

(* An "Active" response means the proposal is in settlement_proposals with *)
(* the unlock height the client was told, although the INSERT's result is  *)
(* only looked at after the copy to Kwil.                                  *)
ActiveMeansStored ==
  \A c \in Clients : answer[c].status = "Active" =>
    \E p \in proposals : /\ p.id = answer[c].id
                          /\ p.unlock_height = answer[c].unlock_height

(* The time-lock is counted from the height found at the end, which is no  *)
(* earlier than the one at which the trigger came in: when the height      *)
(* query was answered, no proposal unlocks sooner than TimeLock blocks     *)
(* after its trigger.                                                      *)
TimeLockIsFull ==
  \A p \in proposals :
    p.trigger.answered => p.unlock_height >= p.trigger.at + TimeLock

(* fetch_universal_fx and verify_external_signal against the replies       *)
(* themselves: the verdict on a quote follows the sources' rates.          *)
FollowsTheSources(replies, quote) ==
  LET rates == {replies[i] : i \in Quoted(replies)}
      verdict == signal_verdict(quote, replies)
      agree == \A v, w \in rates : 10 * v < 11 * w
      above == \E v \in rates : 100 * quote >= 95 * v
      below == \E v \in rates : 100 * quote <= 105 * v
  IN /\ verdict = "vouched" => (Retained(replies) = {} \/ (above /\ below))
     /\ rates # {} /\ agree => Retained(replies) # {}
     /\ verdict = "refused" =>
          \E v \in rates : 100 * quote < 95 * v \/ 100 * quote > 105 * v

(* A quote the oracle vouches for is within 5% of the range of the         *)
(* sources, unless it retained none of them, which cannot be where they    *)
(* agree to within 10%; and one it refuses is more than 5% off some of     *)
(* them: signal_verdict on every reply and quote of the instance.          *)
VerdictFollowsTheSources ==
  received = 0 => \A replies \in OracleInputs, quote \in QuoteInputs :
                    FollowsTheSources(replies, quote)
=============================================================================
