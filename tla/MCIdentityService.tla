-------------------------- MODULE MCIdentityService --------------------------
(* IdentityService on small instances. *)
EXTENDS IdentityService

CONSTANTS a1, a2, c1, c2, alice, l1, l2

OneAccount == {a1}
TwoAccounts == {a1, a2}
OneCaller == {c1}
TwoCallers == {c1, c2}
OneLogin == {l1}
OneUser == {alice}
=============================================================================
