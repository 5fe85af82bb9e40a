-------------------------- MODULE MCClientSingleton --------------------------
(* ClientSingleton on a small instance. *)
EXTENDS ClientSingleton

CONSTANTS t1, t2, t3
ThreeThreads == {t1, t2, t3}
=============================================================================
