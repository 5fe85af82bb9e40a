------------------------------ MODULE MCFileApi ------------------------------
(* FileApi on small instances. *)
EXTENDS FileApi, TLC

CONSTANTS w1, w2, f1, alice, bob, p1

OneWorker == {w1}
TwoWorkers == {w1, w2}
OneFile == {f1}
OneRow == {p1}
Both == {alice, bob}
OnlyAlice == {alice}
AliceOwns == [f \in OneFile |-> alice]
ReadDelete == {"read", "delete"}
ReadOnly == {"read"}
ShortOrNever == {0, 1}
\* Without cascade, a site where nothing fails does nothing a failing one does not.
AnySite == {s \in [cascade : BOOLEAN, failures : BOOLEAN] : s.cascade \/ s.failures}
QuietSite == {[cascade |-> TRUE, failures |-> FALSE]}
Symmetry == Permutations(TwoWorkers)
=============================================================================
