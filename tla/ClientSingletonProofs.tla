------------------------ MODULE ClientSingletonProofs ------------------------
(***************************************************************************)
(* Theorems about ClientSingleton, for every finite set of threads.        *)
(***************************************************************************)
EXTENDS ClientSingleton, TLAPS, FiniteSetTheorems

ThreadState == [pc : Pc, self : 0..made]

\* TypeOK in two parts, without the bound on the instances.
Flags == up \in BOOLEAN /\ bucket \in BOOLEAN /\ failed \in BOOLEAN
Typed ==
    /\ made \in Nat
    /\ instance \in 0..made /\ ready \subseteq 1..made
    /\ thr \in [Threads -> ThreadState]

\* What _init_client is called on is an instance.
Published ==
    \A t \in Threads : /\ At(t, "init") => instance # None
                       /\ At(t, "attributes") => thr[t].self # None

Publishers == {t \in Threads : At(t, "publish")}

\* Only the threads that saw no instance publish one, and each publishes once.
OncePerThread ==
    /\ instance = None => made = 0
    /\ made + Cardinality(Publishers) <= Cardinality(Threads)

\* An initialisation that has not failed ends with the bucket.
BucketComes ==
    instance # None /\ ~failed =>
        bucket \/ \E t \in Threads : thr[t].pc \in Initialising \ {"publish"}

SingletonInv == Flags /\ Typed /\ Published /\ OncePerThread /\ BareOnlyInRace /\ BucketComes
-----------------------------------------------------------------------------
LEMMA SingletonInit == Init => SingletonInv
<1> SUFFICES ASSUME Init PROVE SingletonInv
  OBVIOUS
<1>1. Flags
  BY DEF Init, Flags
<1>2. Typed
  BY DEF Init, Typed, ThreadState, Idle, Pc, None
<1>3. Publishers = {}
  BY DEF Init, Publishers, At, Idle
<1>4. OncePerThread
  BY <1>3, FS_EmptySet, FS_CardinalityType, ThreadsAssumption DEF OncePerThread, Init
<1>5. Published /\ BareOnlyInRace /\ BucketComes
  BY DEF Init, Published, At, Idle, BareOnlyInRace, Bare, BucketComes
<1>6. QED
  BY <1>1, <1>2, <1>4, <1>5 DEF SingletonInv

\* Where a thread goes, and that the others stay.
LEMMA Moves ==
    ASSUME Typed, NEW t \in Threads, NEW pc \in Pc, NEW self \in 0..made', made' >= made,
           made' \in Nat, Goto(t, pc, self)
    PROVE  /\ thr' \in [Threads -> ThreadState']
           /\ thr'[t] = [pc |-> pc, self |-> self]
           /\ \A s \in Threads \ {t} : thr'[s] = thr[s]
<1>1. \A s \in Threads : thr[s] \in ThreadState'
  BY DEF Typed, ThreadState
<1>2. [pc |-> pc, self |-> self] \in ThreadState'
  BY DEF ThreadState
<1>3. QED
  BY <1>1, <1>2 DEF Typed, Goto

\* The others stay where they are, and t goes.
LEMMA Others ==
    ASSUME Typed, NEW t \in Threads, NEW pc, NEW self, Goto(t, pc, self)
    PROVE  /\ thr'[t].pc = pc /\ thr'[t].self = self
           /\ \A s \in Threads \ {t} : thr'[s] = thr[s]
BY DEF Goto, Typed

LEMMA FlagsNext == Flags /\ Next => Flags'
BY DEF Flags, Next, Step, Enter, Publish, CallInit, SetAttributes, Check, MakeBucket, Raise,
   Return, Use, Flip, Restart

\* Instances are numbered as they are published, and no thread holds a number
\* that is not given out.
LEMMA TypedNext == Typed /\ Published /\ Next => Typed'
<1> SUFFICES ASSUME Typed, Published, Next PROVE Typed'
  OBVIOUS
<1> DEFINE Numbers == /\ made' \in Nat /\ made' >= made
                      /\ instance' \in 0..made' /\ ready' \subseteq 1..made'
<1>0. ASSUME Numbers, NEW t \in Threads, NEW pc \in Pc, NEW self \in 0..made',
             Goto(t, pc, self)
      PROVE  Typed'
  <2>1. thr' \in [Threads -> ThreadState']
    BY <1>0, Moves
  <2>2. QED
    BY <1>0, <2>1 DEF Typed
<1>1. UNCHANGED <<made, instance, ready>> => Numbers
  BY DEF Typed
<1>2. ASSUME NEW t \in Threads, Enter(t) \/ Check(t) \/ MakeBucket(t) \/ Use(t) PROVE Typed'
  <2>1. PICK pc \in {"publish", "idle", "make", "return"} : Goto(t, pc, None)
    BY <1>2 DEF Enter, Check, MakeBucket, Use, Raise
  <2>2. UNCHANGED <<made, instance, ready>>
    BY <1>2 DEF Enter, Check, MakeBucket, Use, Raise
  <2>3. pc \in Pc /\ None \in 0..made'
    BY <2>2 DEF Pc, None, Typed
  <2>4. QED
    BY <1>0, <1>1, <2>1, <2>2, <2>3
<1>3. ASSUME NEW t \in Threads, Publish(t) PROVE Typed'
  <2>1. Numbers
    BY <1>3 DEF Publish, Typed
  <2>2. "init" \in Pc /\ None \in 0..made' /\ Goto(t, "init", None)
    BY <1>3, <2>1 DEF Publish, Pc, None
  <2>3. QED
    BY <1>0, <2>1, <2>2
<1>4. ASSUME NEW t \in Threads, CallInit(t) \/ Return(t) PROVE Typed'
  <2>1. UNCHANGED <<made, instance, ready>> /\ instance \in 0..made'
    BY <1>4 DEF CallInit, Return, Typed
  <2>2. PICK pc \in {"attributes", "use"} : Goto(t, pc, instance)
    BY <1>4 DEF CallInit, Return
  <2>3. pc \in Pc
    BY DEF Pc
  <2>4. QED
    BY <1>0, <1>1, <2>1, <2>2, <2>3
<1>5. ASSUME NEW t \in Threads, SetAttributes(t) PROVE Typed'
  <2>1. thr[t].self \in 1..made
    <3>1. thr[t].self \in 0..made
      BY DEF Typed, ThreadState
    <3>2. thr[t].self # 0
      BY <1>5 DEF Published, SetAttributes, None
    <3>3. made \in Nat
      BY DEF Typed
    <3>4. QED
      BY <3>1, <3>2, <3>3
  <2>2. Numbers
    <3>1. ready' = ready \cup {thr[t].self} /\ UNCHANGED <<made, instance>>
      BY <1>5 DEF SetAttributes
    <3>2. made \in Nat /\ instance \in 0..made /\ ready \subseteq 1..made
      BY DEF Typed
    <3>3. ready' \subseteq 1..made
      BY <2>1, <3>1, <3>2
    <3>4. made' \in Nat /\ made' >= made /\ instance' \in 0..made'
      BY <3>1, <3>2
    <3>5. ready' \subseteq 1..made'
      BY <3>1, <3>3
    <3>6. QED
      BY <3>4, <3>5
  <2>3. "check" \in Pc /\ thr[t].self \in 0..made' /\ Goto(t, "check", thr[t].self)
    BY <1>5, <2>1 DEF SetAttributes, Pc
  <2>4. QED
    BY <1>0, <2>2, <2>3
<1>6. CASE Flip
  BY <1>6 DEF Flip, Typed, ThreadState
<1>7. CASE Restart
  BY <1>7 DEF Restart, Typed, ThreadState, Idle, Pc, None
<1>8. QED
  BY <1>2, <1>3, <1>4, <1>5, <1>6, <1>7 DEF Next, Step

\* A thread initialises an instance that is published.
LEMMA PublishedNext == Typed /\ Published /\ Next => Published'
<1> SUFFICES ASSUME Typed, Published, Next PROVE Published'
  OBVIOUS
<1>0. ASSUME NEW t \in Threads, NEW pc, NEW self, Goto(t, pc, self),
             instance # None => instance' # None,
             pc = "init" => instance' # None,
             pc = "attributes" => self # None
      PROVE  Published'
  <2>1. thr'[t].pc = pc /\ thr'[t].self = self
    BY <1>0, Others
  <2>2. \A s \in Threads \ {t} : thr'[s] = thr[s]
    BY <1>0, Others
  <2>3. ASSUME NEW s \in Threads
        PROVE  /\ thr'[s].pc = "init" => instance' # None
               /\ thr'[s].pc = "attributes" => thr'[s].self # None
    <3>1. CASE s = t
      BY <1>0, <2>1, <3>1
    <3>2. CASE s # t
      BY <1>0, <2>2, <3>2 DEF Published, At
    <3>3. QED
      BY <3>1, <3>2
  <2>4. QED
    BY <2>3 DEF Published, At
<1>1. ASSUME NEW t \in Threads,
             Enter(t) \/ SetAttributes(t) \/ Check(t) \/ MakeBucket(t) \/ Return(t) \/ Use(t)
      PROVE  Published'
  <2>1. PICK pc, self : /\ pc \in {"publish", "check", "idle", "make", "return", "use"}
                        /\ Goto(t, pc, self)
    BY <1>1 DEF Enter, SetAttributes, Check, MakeBucket, Use, Raise, Return
  <2>2. UNCHANGED instance
    BY <1>1 DEF Enter, SetAttributes, Check, MakeBucket, Use, Return
  <2>3. pc # "init" /\ pc # "attributes"
    BY <2>1
  <2>4. QED
    BY <1>0, <2>1, <2>2, <2>3
<1>2. ASSUME NEW t \in Threads, Publish(t) PROVE Published'
  <2>1. instance' # None
    BY <1>2 DEF Publish, Typed, None
  <2>2. Goto(t, "init", None)
    BY <1>2 DEF Publish
  <2>3. "init" # "attributes"
    OBVIOUS
  <2>4. QED
    BY <1>0, <2>1, <2>2, <2>3
<1>3. ASSUME NEW t \in Threads, CallInit(t) PROVE Published'
  <2>1. Goto(t, "attributes", instance) /\ UNCHANGED instance /\ instance # None
    BY <1>3 DEF CallInit, Published
  <2>2. "init" # "attributes"
    OBVIOUS
  <2>3. QED
    BY <1>0, <2>1, <2>2
<1>4. CASE Flip
  BY <1>4 DEF Flip, Published, At
<1>5. CASE Restart
  BY <1>5 DEF Restart, Published, At, Idle
<1>6. QED
  BY <1>1, <1>2, <1>3, <1>4, <1>5 DEF Next, Step

\* A thread enters the publication only while there is no instance, and leaves it
\* with one more.
LEMMA OnceNext == Typed /\ OncePerThread /\ Next => OncePerThread'
<1> SUFFICES ASSUME Typed, OncePerThread, Next PROVE OncePerThread'
  OBVIOUS
<1>0. /\ IsFiniteSet(Publishers) /\ Cardinality(Publishers) \in Nat
      /\ Cardinality(Threads) \in Nat
      /\ \A S \in SUBSET Threads : IsFiniteSet(S) /\ Cardinality(S) \in Nat
                                    /\ Cardinality(S) <= Cardinality(Threads)
  BY ThreadsAssumption, FS_Subset, FS_CardinalityType DEF Publishers
<1>1. ASSUME NEW t \in Threads, NEW pc, NEW self, Goto(t, pc, self)
      PROVE  /\ pc # "publish" => Publishers' = Publishers \ {t}
             /\ pc = "publish" => Publishers' = Publishers \cup {t}
  BY <1>1 DEF Goto, Typed, Publishers, At
<1>2. ASSUME Publishers' \subseteq Publishers, UNCHANGED <<made, instance>>
      PROVE  OncePerThread'
  <2>1. Cardinality(Publishers') <= Cardinality(Publishers) /\ Cardinality(Publishers') \in Nat
    BY <1>0, <1>2, FS_Subset, FS_CardinalityType
  <2>2. QED
    BY <1>0, <1>2, <2>1 DEF OncePerThread, Typed
<1>3. ASSUME NEW t \in Threads, Enter(t) PROVE OncePerThread'
  <2>1. CASE instance = None
    <3>1. Goto(t, "publish", None) /\ made' = 0 /\ made = 0
      BY <1>3, <2>1 DEF Enter, OncePerThread
    <3>2. Publishers' \in SUBSET Threads
      BY <1>1, <3>1 DEF Publishers
    <3>3. Cardinality(Publishers') <= Cardinality(Threads) /\ Cardinality(Publishers') \in Nat
      BY <1>0, <3>2
    <3>4. QED
      BY <1>0, <3>1, <3>3 DEF OncePerThread
  <2>2. CASE instance # None
    <3>1. Goto(t, "return", None) /\ UNCHANGED <<made, instance>>
      BY <1>3, <2>2 DEF Enter
    <3>2. QED
      BY <1>1, <1>2, <3>1
  <2>3. QED
    BY <2>1, <2>2
<1>4. ASSUME NEW t \in Threads, Publish(t) PROVE OncePerThread'
  <2>1. t \in Publishers /\ Publishers' = Publishers \ {t}
    BY <1>1, <1>4 DEF Publish, Publishers
  <2>2. Cardinality(Publishers') = Cardinality(Publishers) - 1
    BY <1>0, <2>1, FS_RemoveElement
  <2>3. made' = made + 1 /\ instance' # None
    BY <1>4 DEF Publish, Typed, None
  <2>4. QED
    BY <1>0, <2>2, <2>3 DEF OncePerThread, Typed
<1>5. ASSUME NEW t \in Threads,
             CallInit(t) \/ SetAttributes(t) \/ Check(t) \/ MakeBucket(t) \/ Return(t) \/ Use(t)
      PROVE  OncePerThread'
  <2>1. PICK pc, self : /\ pc \in {"attributes", "check", "idle", "make", "return", "use"}
                        /\ Goto(t, pc, self)
    BY <1>5 DEF CallInit, SetAttributes, Check, MakeBucket, Return, Use, Raise
  <2>2. UNCHANGED <<made, instance>>
    BY <1>5 DEF CallInit, SetAttributes, Check, MakeBucket, Return, Use
  <2>3. QED
    BY <1>1, <1>2, <2>1, <2>2
<1>6. CASE Flip
  BY <1>2, <1>6 DEF Flip, Publishers, At
<1>7. CASE Restart
  <2>1. Publishers' = {} /\ made' = 0
    BY <1>7 DEF Restart, Publishers, At, Idle
  <2>2. QED
    BY <1>0, <2>1, FS_EmptySet DEF OncePerThread
<1>8. QED
  BY <1>3, <1>4, <1>5, <1>6, <1>7 DEF Next, Step

\* The thread to which the bareness of the instance is due stays, or sets its
\* attributes.
LEMMA BareNext == Typed /\ BareOnlyInRace /\ Next => BareOnlyInRace'
<1> SUFFICES ASSUME Typed, BareOnlyInRace, Next, Bare(instance)'
             PROVE  \E t \in Threads : \/ At(t, "init")'
                                       \/ At(t, "attributes")' /\ thr'[t].self = instance'
  BY DEF BareOnlyInRace
<1> DEFINE Sets(t) == At(t, "init") \/ (At(t, "attributes") /\ thr[t].self = instance)
<1>1. ASSUME UNCHANGED <<instance, ready>> PROVE \E t \in Threads : Sets(t)
  BY <1>1 DEF BareOnlyInRace, Bare
<1>2. ASSUME NEW t \in Threads, Enter(t) \/ Check(t) \/ MakeBucket(t) \/ Return(t) \/ Use(t)
      PROVE  \E s \in Threads : Sets(s)'
  <2>1. UNCHANGED <<instance, ready>>
    BY <1>2 DEF Enter, Check, MakeBucket, Return, Use
  <2>2. PICK s \in Threads : Sets(s)
    BY <1>1, <2>1
  <2>3. PICK pc, self : Goto(t, pc, self)
    BY <1>2 DEF Enter, Check, MakeBucket, Return, Use, Raise
  <2>4. ~Sets(t)
    BY <1>2 DEF Enter, Check, MakeBucket, Return, Use, At
  <2>5. thr'[s] = thr[s]
    BY <2>2, <2>3, <2>4, Others
  <2>6. QED
    BY <2>1, <2>2, <2>5 DEF At
<1>3. ASSUME NEW t \in Threads, Publish(t) PROVE \E s \in Threads : Sets(s)'
  BY <1>3, Others DEF Publish, At
<1>4. ASSUME NEW t \in Threads, CallInit(t) PROVE \E s \in Threads : Sets(s)'
  <2>1. Goto(t, "attributes", instance) /\ instance' = instance
    BY <1>4 DEF CallInit
  <2>2. QED
    BY <2>1, Others DEF At
<1>5. ASSUME NEW t \in Threads, SetAttributes(t) PROVE \E s \in Threads : Sets(s)'
  <2>1. /\ At(t, "attributes") /\ Goto(t, "check", thr[t].self)
        /\ ready' = ready \cup {thr[t].self} /\ instance' = instance
    BY <1>5 DEF SetAttributes
  <2>2. Bare(instance) /\ thr[t].self # instance
    BY <2>1 DEF Bare
  <2>3. PICK s \in Threads : Sets(s)
    BY <2>2 DEF BareOnlyInRace
  <2>4. s # t
    BY <2>1, <2>2, <2>3 DEF At
  <2>5. thr'[s] = thr[s]
    BY <2>1, <2>4, Others
  <2>6. QED
    BY <2>1, <2>3, <2>5 DEF At
<1>6. CASE Flip
  BY <1>1, <1>6 DEF Flip, At
<1>7. CASE Restart
  BY <1>7 DEF Restart, Bare
<1>8. QED
  BY <1>2, <1>3, <1>4, <1>5, <1>6, <1>7 DEF Next, Step

\* A thread that initialises ends with the bucket or a failure.
LEMMA BucketNext == Typed /\ BucketComes /\ Next => BucketComes'
<1> SUFFICES ASSUME Typed, BucketComes, Next, instance' # None, ~failed'
             PROVE  bucket' \/ \E t \in Threads : thr'[t].pc \in Initialising \ {"publish"}
  BY DEF BucketComes
<1> DEFINE Working(t) == thr[t].pc \in Initialising \ {"publish"}
<1>1. ASSUME NEW t \in Threads, NEW pc, NEW self, Goto(t, pc, self),
             pc \in Initialising \ {"publish"} \/ ~Working(t),
             bucket \/ \E s \in Threads : Working(s)
      PROVE  bucket \/ \E s \in Threads : Working(s)'
  <2>1. CASE pc \in Initialising \ {"publish"}
    BY <1>1, <2>1, Others
  <2>2. ASSUME NEW s \in Threads, Working(s), ~Working(t) PROVE Working(s)'
    BY <1>1, <2>2, Others
  <2>3. QED
    BY <1>1, <2>1, <2>2
<1>2. ASSUME UNCHANGED <<instance, failed>> PROVE bucket \/ \E s \in Threads : Working(s)
  BY <1>2 DEF BucketComes
<1>3. ASSUME NEW t \in Threads, Enter(t) \/ Return(t) \/ Use(t)
      PROVE  bucket' \/ \E s \in Threads : Working(s)'
  <2>1. UNCHANGED <<instance, failed, bucket>> /\ ~Working(t)
    BY <1>3 DEF Enter, Return, Use, At, Initialising
  <2>2. PICK pc, self : Goto(t, pc, self)
    BY <1>3 DEF Enter, Return, Use
  <2>3. QED
    BY <1>1, <1>2, <2>1, <2>2
<1>4. ASSUME NEW t \in Threads, Publish(t) PROVE \E s \in Threads : Working(s)'
  <2>1. thr'[t].pc = "init"
    BY <1>4, Others DEF Publish
  <2>2. QED
    BY <2>1 DEF Initialising
<1>5. ASSUME NEW t \in Threads, CallInit(t) \/ SetAttributes(t)
      PROVE  bucket' \/ \E s \in Threads : Working(s)'
  <2>1. PICK pc, self : pc \in {"attributes", "check"} /\ Goto(t, pc, self)
    BY <1>5 DEF CallInit, SetAttributes
  <2>2. thr'[t].pc \in Initialising \ {"publish"}
    BY <2>1, Others DEF Initialising
  <2>3. QED
    BY <2>2
<1>6. ASSUME NEW t \in Threads, Check(t)
      PROVE  bucket' \/ \E s \in Threads : Working(s)'
  <2>1. Goto(t, IF bucket THEN "return" ELSE "make", None) /\ bucket' = bucket
    BY <1>6 DEF Check, Raise
  <2>2. CASE ~bucket
    BY <2>1, <2>2, Others DEF Initialising
  <2>3. QED
    BY <2>1, <2>2
<1>7. ASSUME NEW t \in Threads, MakeBucket(t) PROVE bucket'
  BY <1>7 DEF MakeBucket, Raise
<1>8. CASE Flip
  BY <1>2, <1>8 DEF Flip
<1>9. CASE Restart
  BY <1>9 DEF Restart
<1>10. QED
  BY <1>3, <1>4, <1>5, <1>6, <1>7, <1>8, <1>9 DEF Next, Step
-----------------------------------------------------------------------------
LEMMA SingletonStutter == SingletonInv /\ UNCHANGED vars => SingletonInv'
<1> SUFFICES ASSUME SingletonInv, UNCHANGED vars PROVE SingletonInv'
  OBVIOUS
<1>1. Flags' /\ Typed'
  BY DEF vars, SingletonInv, Flags, Typed, ThreadState
<1>2. Published' /\ OncePerThread'
  BY DEF vars, SingletonInv, Published, OncePerThread, Publishers, At
<1>3. BareOnlyInRace' /\ BucketComes'
  BY DEF vars, SingletonInv, BareOnlyInRace, Bare, BucketComes, At
<1>4. QED
  BY <1>1, <1>2, <1>3 DEF SingletonInv

LEMMA SingletonHolds == Spec => []SingletonInv
<1>1. SingletonInv /\ Next => SingletonInv'
  BY FlagsNext, TypedNext, PublishedNext, OnceNext, BareNext, BucketNext DEF SingletonInv
<1>2. SingletonInv /\ [Next]_vars => SingletonInv'
  BY <1>1, SingletonStutter
<1>3. QED
  BY <1>2, SingletonInit, PTL DEF Spec

\* Every reachable state of the singleton is well formed: a process makes no more
\* instances than it has threads.
THEOREM TypeCorrect == Spec => []TypeOK
<1>1. SingletonInv => TypeOK
  <2> SUFFICES ASSUME SingletonInv PROVE TypeOK
    OBVIOUS
  <2>1. Cardinality(Publishers) \in Nat /\ Cardinality(Threads) \in Nat
    BY ThreadsAssumption, FS_Subset, FS_CardinalityType DEF Publishers
  <2>2. made \in 0..Cardinality(Threads)
    BY <2>1 DEF SingletonInv, Typed, OncePerThread
  <2>3. instance \in 0..made /\ ready \subseteq 1..made
    BY DEF SingletonInv, Typed
  <2>4. thr \in [Threads -> [pc : Pc, self : 0..made]]
    BY DEF SingletonInv, Typed, ThreadState
  <2>5. up \in BOOLEAN /\ bucket \in BOOLEAN /\ failed \in BOOLEAN
    BY DEF SingletonInv, Flags
  <2>6. QED
    BY <2>2, <2>3, <2>4, <2>5 DEF TypeOK
<1>2. QED
  BY <1>1, SingletonHolds, PTL

\* cls._instance lacks its attributes only while some thread is about to set them.
THEOREM BareInRacesOnly == Spec => []BareOnlyInRace
<1>1. SingletonInv => BareOnlyInRace
  BY DEF SingletonInv
<1>2. QED
  BY <1>1, SingletonHolds, PTL

\* Unless an initialisation failed, the bucket is there once none is running.
THEOREM BucketStandsBehind == Spec => []BucketBehindInstance
<1>1. SingletonInv => BucketBehindInstance
  BY DEF SingletonInv, BucketComes, BucketBehindInstance
<1>2. QED
  BY <1>1, SingletonHolds, PTL
-----------------------------------------------------------------------------
(* One thread *)

\* Where a lone thread is tells what is published.
LoneThread ==
    \A t \in Threads :
        /\ thr[t].pc \in {"init", "attributes", "check", "make", "return", "use"} => instance # None
        /\ At(t, "use") => thr[t].self = instance

\* A request that calls a method of the client finds its attributes.
UsesFindAttributes == \A t \in Threads : At(t, "use") => thr[t].self \in ready

LEMMA LoneThreadNext ==
    ASSUME NEW t \in Threads, Threads = {t}, SingletonInv, LoneThread, [Next]_vars
    PROVE  LoneThread'
<1> DEFINE Later == {"init", "attributes", "check", "make", "return", "use"}
<1> SUFFICES /\ thr'[t].pc \in Later => instance' # None
             /\ thr'[t].pc = "use" => thr'[t].self = instance'
  BY DEF LoneThread, At
<1>0. Typed /\ made \in Nat /\ (thr[t].pc \in Later => instance # None)
  BY DEF SingletonInv, Typed, LoneThread
<1>1. CASE Enter(t)
  BY <1>0, <1>1, Others DEF Enter
<1>2. CASE Publish(t)
  BY <1>0, <1>2, Others DEF Publish, None
<1>3. CASE CallInit(t) \/ SetAttributes(t) \/ Return(t)
  BY <1>0, <1>3, Others DEF CallInit, SetAttributes, Return, At
<1>4. CASE Check(t) \/ MakeBucket(t)
  BY <1>0, <1>4, Others DEF Check, MakeBucket, Raise, At
<1>5. CASE Use(t)
  BY <1>0, <1>5, Others DEF Use
<1>6. CASE Restart
  BY <1>6 DEF Restart, Idle
<1>7. CASE Flip \/ UNCHANGED vars
  BY <1>7 DEF Flip, vars, LoneThread, At
<1>8. QED
  BY <1>1, <1>2, <1>3, <1>4, <1>5, <1>6, <1>7 DEF Next, Step

\* With a single thread no request meets an instance without attributes, whatever
\* initialisations failed before: the race is the only way there.
THEOREM LoneThreadFindsAttributes ==
    ASSUME NEW t, Threads = {t}
    PROVE  Spec => []UsesFindAttributes
<1>1. Init => LoneThread
  BY DEF Init, LoneThread, At, Idle
<1>2. SingletonInv /\ LoneThread /\ [Next]_vars => LoneThread'
  BY LoneThreadNext
<1>3. SingletonInv /\ LoneThread => UsesFindAttributes
  BY DEF SingletonInv, LoneThread, UsesFindAttributes, BareOnlyInRace, Bare, At
<1>4. QED
  BY <1>1, <1>2, <1>3, SingletonHolds, PTL DEF Spec
=============================================================================
