----------------------------- MODULE MCRealmSetup -----------------------------
(* RealmSetup on small instances. *)
EXTENDS RealmSetup, TLC

CONSTANTS o1, o2

TwoOperators == {o1, o2}
OperatorSymmetry == Permutations(TwoOperators)
=============================================================================
