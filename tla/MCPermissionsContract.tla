------------------------ MODULE MCPermissionsContract ------------------------
(* PermissionsContract on small instances. *)
EXTENDS PermissionsContract, TLC

CONSTANTS a1, a2, a3, zero

ThreeAccounts == {a1, a2, a3}
PastAndFuture == {-1, 0, 1}    \* a second ago, this very block, the next one
AccountSymmetry == Permutations(ThreeAccounts)
=============================================================================
