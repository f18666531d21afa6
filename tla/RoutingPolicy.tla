-------------------------- MODULE RoutingPolicy ---------------------------
(***************************************************************************)
(* validate_routing_policy_metadata of src/api/settlement.rs: the routing  *)
(* policy a settlement trigger must carry.  A policy is what the JSON      *)
(* holds: its shape and, field by field, the normalised token (trimmed,    *)
(* lower case, '_' for ' ' and '-'); "" is a missing or blank field.  In   *)
(* requested, NotSent is a field that is not there, which may be so.       *)
(* "not_object" is also an object serde cannot turn into the metadata.     *)
(***************************************************************************)
EXTENDS Positions

NotSent == "(not sent)"
Unknown == "(unknown)"

(* RoutingSystem::parse, TrustTier::parse, VerificationClass::parse.       *)
SystemTokens ==
  [ibc |-> "Ibc", hyperlane |-> "Hyperlane", layerzero |-> "LayerZeroV2",
   layerzero_v2 |-> "LayerZeroV2", wormhole_ntt |-> "WormholeNtt",
   axelar_gmp |-> "AxelarGmp"]
TierTokens ==
  [t1 |-> "T1", tier1 |-> "T1", t2 |-> "T2", tier2 |-> "T2",
   t3 |-> "T3", tier3 |-> "T3", t4 |-> "T4", tier4 |-> "T4"]
ClassTokens ==
  [light_client |-> "LightClient", lightclient |-> "LightClient",
   external_quorum |-> "ExternalQuorum",
   app_defined_multiverifier |-> "AppDefinedMultiverifier",
   shared_pos |-> "SharedPos"]

parse(table, token) == IF token \in DOMAIN table THEN table[token] ELSE Unknown

required_verification_class ==
  [Ibc |-> "LightClient", Hyperlane |-> "AppDefinedMultiverifier",
   LayerZeroV2 |-> "ExternalQuorum", WormholeNtt |-> "ExternalQuorum",
   AxelarGmp |-> "SharedPos"]

(* Mutant: every system is conditional.                                    *)
allowed_tiers_same(system) == {"T2", "T3"}

allowed_tiers(system) ==
  IF system = "Ibc" THEN {"T1", "T2"} ELSE {"T2", "T3"}

(* The payload has five places a policy may be in, looked up in order:     *)
(* the first that holds anything is the one that counts.                   *)
Absent == [shape |-> "absent"]
Shapes == {"absent", "not_object", "object"}

extract_routing_policy(payload) ==
  LET i == FirstIndex(payload, LAMBDA policy : policy # Absent)
  IN IF i = 0 THEN Absent ELSE payload[i]

(* The checks in the code's order, each with the code it blocks with.      *)
Checks(policy) ==
  LET system == parse(SystemTokens, policy.system)
      tier == parse(TierTokens, policy.trust_tier)
      class == parse(ClassTokens, policy.verification_class)
      requested == parse(TierTokens, policy.requested)
      Check(blocks, code) == [blocks |-> blocks, code |-> code]
      field == "missing_required_routing_policy_field"
  IN << Check(policy.system = "", field),
        Check(policy.trust_tier = "", field),
        Check(policy.verification_class = "", field),
        Check(policy.policy_version = "", field),
        Check(policy.evidence_hash = "", field),
        Check(policy.requested = "", "invalid_routing_policy_field"),
        Check(system = Unknown, "unknown_system"),
        Check(tier = Unknown, "unknown_trust_tier"),
        Check(class = Unknown, "unknown_verification_class"),
        Check(policy.requested # NotSent /\ requested = Unknown,
              "unknown_requested_trust_tier"),
        Check(policy.requested # NotSent /\ requested # tier,
              "requested_trust_tier_mismatch"),
        Check(tier = "T4", "trust_tier_not_allowed"),
        Check(tier = "T1" /\ system # "Ibc", "t1_requires_ibc"),
        Check(system # Unknown /\ class # required_verification_class[system],
              "verification_class_mismatch"),
        Check(tier \notin allowed_tiers(system), "tier_system_not_allowed") >>

Allowed == "allowed"

(* Allowed, or the code of the first check that blocks.                    *)
validate_routing_policy_metadata(payload) ==
  LET policy == extract_routing_policy(payload)
  IN CASE policy.shape = "absent" -> "missing_routing_policy"
       [] policy.shape = "not_object" -> "invalid_routing_policy"
       [] policy.shape = "object" ->
            LET i == FirstIndex(Checks(policy), LAMBDA check : check.blocks)
            IN IF i = 0 THEN Allowed ELSE Checks(policy)[i].code
=============================================================================
