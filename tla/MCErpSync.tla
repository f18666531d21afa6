----------------------------- MODULE MCErpSync -----------------------------
(* ErpSync for TLC.                                                        *)
EXTENDS ErpSync, TLC

CONSTANTS c1, c2, k1, k2

Signed(r) ==
  [r EXCEPT !.signature = <<r.key, canonical_erp_attestation_payload(r)>>]

Unsigned ==
  [org |-> "a", timestamp |-> 1, body |-> "sync", key |-> k1, nonce |-> 1,
   issued_at |-> 0, expires_at |-> 2, listed |-> TRUE, formed |-> TRUE,
   signature |-> <<>>]

(* Two organisations that chose the same nonce, and a second attestation   *)
(* with it that lasts longer.                                              *)
Passing ==
  {Signed(Unsigned), Signed([Unsigned EXCEPT !.org = "b"]),
   Signed([Unsigned EXCEPT !.expires_at = 3])}

(* Requests that fail one check each, in the order of the checks: no list, *)
(* wrong form, a life too long, an unknown key, a body that is not the     *)
(* signed one, an issue too far ahead, a timestamp too late.               *)
Failing ==
  {Signed([Unsigned EXCEPT !.listed = FALSE]),
   Signed([Unsigned EXCEPT !.formed = FALSE]),
   Signed([Unsigned EXCEPT !.expires_at = 4]),
   Signed([Unsigned EXCEPT !.key = k2]),
   [Signed(Unsigned) EXCEPT !.body = "other"],
   Signed([Unsigned EXCEPT !.issued_at = 6, !.expires_at = 7, !.timestamp = 6]),
   Signed([Unsigned EXCEPT !.timestamp = 4])}

SampleRequests == Passing \cup Failing

SameClients == Permutations({c1, c2})
=============================================================================
