--------------------------- MODULE MCAdminAuth ---------------------------
(* Registrations that name no scopes, scopes only, and both lists.         *)
EXTENDS AdminAuth

MCScopeLists == {<<{}, {}>>, <<{"api.read"}, {}>>, <<{"api.write"}, {"api.read"}>>}
==========================================================================
