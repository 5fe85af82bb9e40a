--------------------------- MODULE ClientSingleton ---------------------------
(***************************************************************************)
(* MinIOClient and VaultClient (backend/app/core): one instance per        *)
(* process, made by the first request that needs it.  The dependencies     *)
(* that make it (get_minio_client, get_vault_client) are plain functions,  *)
(* so the framework calls them in the threads of a pool: __new__ runs in   *)
(* several threads at once, with no lock, and cls._instance is read anew   *)
(* each time it is named.                                                  *)
(*                                                                         *)
(* VaultClient behaves as MinIOClient with a bucket that is there from the *)
(* start: a health request stands where bucket_exists does, and nothing is *)
(* created after it.                                                       *)
(***************************************************************************)
EXTENDS Naturals, FiniteSets

CONSTANT Threads   \* of one process

ASSUME ThreadsAssumption == IsFiniteSet(Threads)

VARIABLES
    up,        \* the service answers
    bucket,    \* the bucket exists (and outlives the process)
    made,      \* how many instances this life of the process has made
    instance,  \* cls._instance, 0 for None
    ready,     \* instances whose attributes are set
    thr,       \* where each thread is, and the instance it holds
    failed     \* history: an initialisation of this life has failed

vars == <<up, bucket, made, instance, ready, thr, failed>>

None == 0
Idle == [pc |-> "idle", self |-> None]
Pc == {"idle", "publish", "init", "attributes", "check", "make", "return", "use"}
Initialising == {"publish", "init", "attributes", "check", "make"}

TypeOK ==
    /\ up \in BOOLEAN /\ bucket \in BOOLEAN /\ failed \in BOOLEAN
    /\ made \in 0..Cardinality(Threads)
    /\ instance \in 0..made /\ ready \subseteq 1..made
    /\ thr \in [Threads -> [pc : Pc, self : 0..made]]

Init ==
    /\ up \in BOOLEAN /\ bucket \in BOOLEAN
    /\ made = 0 /\ instance = None /\ ready = {}
    /\ thr = [t \in Threads |-> Idle]
    /\ failed = FALSE

At(t, pc) == thr[t].pc = pc
Goto(t, pc, self) == thr' = [thr EXCEPT ![t] = [pc |-> pc, self |-> self]]
-----------------------------------------------------------------------------
\* Every request makes an instance.
BadEnter(t) ==
    /\ At(t, "idle")
    /\ Goto(t, "publish", None)
    /\ UNCHANGED <<up, bucket, made, instance, ready, failed>>

\* if cls._instance is None
Enter(t) ==
    /\ At(t, "idle")
    /\ Goto(t, IF instance = None THEN "publish" ELSE "return", None)
    /\ UNCHANGED <<up, bucket, made, instance, ready, failed>>

\* cls._instance = super().__new__(cls): seen by all before it is initialised.
Publish(t) ==
    /\ At(t, "publish")
    /\ made' = made + 1 /\ instance' = made + 1
    /\ Goto(t, "init", None)
    /\ UNCHANGED <<up, bucket, ready, failed>>

\* cls._instance._init_client(): of the instance published last.
CallInit(t) ==
    /\ At(t, "init")
    /\ Goto(t, "attributes", instance)
    /\ UNCHANGED <<up, bucket, made, instance, ready, failed>>

\* The attributes set only by a service that answers.
BadSetAttributes(t) ==
    /\ At(t, "attributes")
    /\ ready' = IF up THEN ready \cup {thr[t].self} ELSE ready
    /\ Goto(t, "check", thr[t].self)
    /\ UNCHANGED <<up, bucket, made, instance, failed>>

\* self.client, or base_url, token and transit_key: no call yet.
SetAttributes(t) ==
    /\ At(t, "attributes")
    /\ ready' = ready \cup {thr[t].self}
    /\ Goto(t, "check", thr[t].self)
    /\ UNCHANGED <<up, bucket, made, instance, failed>>

\* The exception is logged and raised again: the request fails, the instance
\* stays published.
Raise(t) == failed' = TRUE /\ Goto(t, "idle", None)

\* A failed check taken for a bucket that is there.
BadCheck(t) ==
    /\ At(t, "check")
    /\ Goto(t, IF bucket \/ ~up THEN "return" ELSE "make", None)
    /\ UNCHANGED <<up, bucket, made, instance, ready, failed>>

\* bucket_exists, or the health request.
Check(t) ==
    /\ At(t, "check")
    /\ \/ ~up /\ Raise(t)
       \/ up /\ Goto(t, IF bucket THEN "return" ELSE "make", None) /\ UNCHANGED failed
    /\ UNCHANGED <<up, bucket, made, instance, ready>>

\* make_bucket is refused if another thread or process made it meanwhile, and
\* its answer may be lost.
MakeBucket(t) ==
    /\ At(t, "make")
    /\ \/ /\ up /\ ~bucket /\ bucket' = TRUE
          /\ Raise(t) \/ (Goto(t, "return", None) /\ UNCHANGED failed)
       \/ (~up \/ bucket) /\ Raise(t) /\ UNCHANGED bucket
    /\ UNCHANGED <<up, made, instance, ready>>

\* return cls._instance: the last one published.
Return(t) ==
    /\ At(t, "return")
    /\ Goto(t, "use", instance)
    /\ UNCHANGED <<up, bucket, made, instance, ready, failed>>

\* The route calls a method of it, which fails if it has no attributes.
Use(t) ==
    /\ At(t, "use")
    /\ Goto(t, "idle", None)
    /\ UNCHANGED <<up, bucket, made, instance, ready, failed>>

Step(t) ==
    \/ Publish(t) \/ CallInit(t) \/ SetAttributes(t) \/ Check(t) \/ MakeBucket(t)
    \/ Return(t) \/ Use(t)

\* The service goes and comes, keeping its buckets.
Flip == up' = ~up /\ UNCHANGED <<bucket, made, instance, ready, thr, failed>>

\* The process is restarted.
Restart ==
    /\ made' = 0 /\ instance' = None /\ ready' = {}
    /\ thr' = [t \in Threads |-> Idle]
    /\ failed' = FALSE
    /\ UNCHANGED <<up, bucket>>

Next == (\E t \in Threads : Enter(t) \/ Step(t)) \/ Flip \/ Restart

\* Every thread of the pool is scheduled.
Spec == Init /\ [][Next]_vars /\ \A t \in Threads : WF_vars(Step(t))
-----------------------------------------------------------------------------
(* Properties *)

Bare(i) == i # None /\ i \notin ready

\* An instance without attributes is the one to come only while its attributes
\* are being set, however many threads initialise at once; an initialisation
\* that failed leaves one that has them.
BareOnlyInRace ==
    Bare(instance) => \E t \in Threads : \/ At(t, "init")
                                         \/ At(t, "attributes") /\ thr[t].self = instance

\* Unless an initialisation failed, the bucket is there once none is running: the
\* threads that skipped the initialisation may rely on it.
BucketBehindInstance ==
    /\ instance # None /\ ~failed
    /\ \A t \in Threads : thr[t].pc \notin Initialising
    => bucket

\* Requests stop being refused for want of attributes, whether the service
\* answers or not.
BareEnds == Bare(instance) ~> ~Bare(instance)
=============================================================================
