---------------------------- MODULE MCAuditChain ----------------------------
(* AuditChain on small instances. *)
EXTENDS AuditChain, TLC

CONSTANTS w1, w2, w3

OneWorker == {w1}
ThreeWorkers == {w1, w2, w3}
WorkerSymmetry == Permutations(ThreeWorkers)
=============================================================================
