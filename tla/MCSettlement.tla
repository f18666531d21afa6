--------------------------- MODULE MCSettlement ---------------------------
(* Settlement for TLC.                                                     *)
EXTENDS Settlement, TLC

Policy(system, tier, class, version, hash, requested) ==
  [shape |-> "object", system |-> system, trust_tier |-> tier,
   verification_class |-> class, policy_version |-> version,
   evidence_hash |-> hash, requested |-> requested]

NotAnObject == [shape |-> "not_object"]

Good == Policy("layerzero", "t2", "external_quorum", "v1", "h", NotSent)
Denied == Policy("ibc", "t4", "light_client", "v1", "h", NotSent)

(* For the interleavings: one payload that passes and one that does not.   *)
FewPayloads == {<<Good>>, <<Absent, Denied>>}

(* Every endpoint down, one of three out of line, two of them without the  *)
(* currency; and a quote that fits and one that does not.                  *)
FewReplies ==
  {<<NoReply, NoReply, NoReply>>, <<100, 100, 130>>, <<NoReply, 100, NoRate>>}
FewRates == {100, 150}

(* For the oracle: rates around its thresholds of 5% and 10%.              *)
AllReplies ==
  [1..3 -> {NoReply, NoRate, 100, 104, 109, 112, 130, 250}]
AllQuotes == {60, 75, 94, 96, 104, 106, 118, 125, 300}

Tokens(table) == DOMAIN table \union {"", "other"}

(* For the policy: every combination of tokens, and two places at once.    *)
AllPayloads ==
  {<<Policy(s, t, c, v, h, r)>> :
     s \in Tokens(SystemTokens), t \in {"t1", "t2", "tier3", "t4", "", "other"},
     c \in Tokens(ClassTokens), v \in {"v1", ""}, h \in {"h", ""},
     r \in {"t1", "tier2", "t3", "", "other", NotSent}}
  \union [1..2 -> {Absent, NotAnObject, Good, Denied}]

ClientSymmetry == Permutations(Clients)
=============================================================================
