--------------------------- MODULE RealmSetupProofs ---------------------------
(***************************************************************************)
(* Theorems about RealmSetup, for any number of operators and failures.    *)
(***************************************************************************)
EXTENDS RealmSetup, TLAPS

Run == [program : Program, pc : Nat, scopeId : BOOLEAN, clean : BOOLEAN]
FullPrograms == PythonPrograms \cup {"configure_realm"}

Flags == /\ realm \in BOOLEAN /\ direct \in BOOLEAN /\ scope \in BOOLEAN
         /\ mapper \in BOOLEAN /\ attached \in BOOLEAN /\ answersId \in BOOLEAN

Typed == run \in [Operators -> Run]

\* No program runs past its end.
InPlace == \A o \in Operators : run[o].pc <= Len(Calls[run[o].program]) + 1

Stores ==
    /\ clients \subseteq Client
    /\ user = NoUser \/ (user \in {TestPass, CorrectedPass} /\ PolicyAccepts(user))
    /\ failures \in 0..MaxFailures

\* What a client has, it has since it is there.
OfClient == attached \/ direct => "frontend" \in clients

\* What the calls of run r before r.pc have left behind.
Reached(r) ==
    /\ r.pc > 2 => realm
    /\ r.pc > 3 => "backend" \in clients
    /\ r.pc > 4 => "frontend" \in clients
    /\ r.pc > 5 => "admin" \in clients
    /\ r.pc > 6 => scope
    /\ r.program \in PythonPrograms =>
         /\ r.pc > 7 => r.scopeId
         /\ r.pc > 8 => mapper
         /\ r.pc > 9 => attached
    /\ r.program = "configure_realm" /\ r.scopeId =>
         /\ r.pc > 7 => mapper
         /\ r.pc > 8 => attached
    /\ r.program = "configure_keycloak" /\ r.pc > 10 => user # NoUser

Follows(r) == r.clean /\ r.program \in FullPrograms => Reached(r)
CleanRunsReach == \A o \in Operators : Follows(run[o])

\* A step of the run of o.
StepOf(o) ==
    \/ \E p \in Program : Start(o, p)
    \/ ObtainToken(o) \/ CreateRealm(o) \/ CreateClient(o) \/ CreateFrontend(o)
    \/ CreateScope(o) \/ ListScopes(o) \/ AddMapper(o) \/ AttachScope(o)
    \/ CreateUser(o) \/ Refused(o) \/ Stop(o)

RealmInv == Flags /\ Typed /\ InPlace /\ Stores /\ OfClient /\ CleanRunsReach
-----------------------------------------------------------------------------
(* The programs *)

LEMMA Lengths ==
    /\ Program = {"setup_keycloak", "configure_keycloak", "configure_realm",
                  "create_clients", "create_scope"}
    /\ Calls["setup_keycloak"] = setup_keycloak /\ Calls["configure_keycloak"] = setup_keycloak
    /\ Calls["configure_realm"] = configure_realm
    /\ Len(setup_keycloak) = 10 /\ Len(configure_realm) = 9
    /\ Len(Calls["create_clients"]) = 3 /\ Len(Calls["create_scope"]) = 2
BY DEF Program, Calls, setup_keycloak, configure_keycloak, configure_realm,
   create_clients, create_scope

\* The place of each call in the programs that configure everything.
LEMMA Places ==
    /\ \A i \in 1..10 :
         /\ setup_keycloak[i] = "token" => i = 1
         /\ setup_keycloak[i] = "realm" => i = 2
         /\ setup_keycloak[i] = "backend" => i = 3
         /\ setup_keycloak[i] = "frontend" => i = 4
         /\ setup_keycloak[i] = "admin" => i = 5
         /\ setup_keycloak[i] = "scope" => i = 6
         /\ setup_keycloak[i] = "list" => i = 7
         /\ setup_keycloak[i] = "mapper" => i = 8
         /\ setup_keycloak[i] = "attach" => i = 9
         /\ setup_keycloak[i] = "user" => i = 10
    /\ \A i \in 1..9 :
         /\ configure_realm[i] = "token" => i = 1
         /\ configure_realm[i] = "realm" => i = 2
         /\ configure_realm[i] = "backend" => i = 3
         /\ configure_realm[i] = "frontend" => i = 4
         /\ configure_realm[i] = "admin" => i = 5
         /\ configure_realm[i] = "scope" => i = 6
         /\ configure_realm[i] # "list"
         /\ configure_realm[i] = "mapper" => i = 7
         /\ configure_realm[i] = "attach" => i = 8
         /\ configure_realm[i] = "user" => i = 9
<1>1. \A i \in 1..10 : i = 1 \/ i = 2 \/ i = 3 \/ i = 4 \/ i = 5 \/ i = 6 \/ i = 7 \/ i = 8
                       \/ i = 9 \/ i = 10
  OBVIOUS
<1>2. \A i \in 1..9 : i = 1 \/ i = 2 \/ i = 3 \/ i = 4 \/ i = 5 \/ i = 6 \/ i = 7 \/ i = 8 \/ i = 9
  OBVIOUS
<1>3. /\ setup_keycloak[1] = "token" /\ setup_keycloak[2] = "realm"
      /\ setup_keycloak[3] = "backend" /\ setup_keycloak[4] = "frontend"
      /\ setup_keycloak[5] = "admin" /\ setup_keycloak[6] = "scope"
      /\ setup_keycloak[7] = "list" /\ setup_keycloak[8] = "mapper"
      /\ setup_keycloak[9] = "attach" /\ setup_keycloak[10] = "user"
  BY DEF setup_keycloak
<1>4. /\ configure_realm[1] = "token" /\ configure_realm[2] = "realm"
      /\ configure_realm[3] = "backend" /\ configure_realm[4] = "frontend"
      /\ configure_realm[5] = "admin" /\ configure_realm[6] = "scope"
      /\ configure_realm[7] = "mapper" /\ configure_realm[8] = "attach"
      /\ configure_realm[9] = "user"
  BY DEF configure_realm
<1>5. QED
  BY <1>1, <1>2, <1>3, <1>4

\* Where the run of a program that configures everything is.
LEMMA AtPlace ==
    ASSUME Typed, NEW o \in Operators, NEW step, At(o, step),
           run[o].program \in FullPrograms
    PROVE  \/ /\ run[o].program \in PythonPrograms
              /\ run[o].pc \in 1..10 /\ setup_keycloak[run[o].pc] = step
           \/ /\ run[o].program = "configure_realm"
              /\ run[o].pc \in 1..9 /\ configure_realm[run[o].pc] = step
<1>1. run[o].pc \in Nat /\ run[o].pc > 0
  BY DEF Typed, Run, At
<1>2. run[o].pc <= Len(Calls[run[o].program]) /\ Calls[run[o].program][run[o].pc] = step
  <2>1. Len(Calls[run[o].program]) \in Nat
    BY Lengths DEF FullPrograms, PythonPrograms
  <2>2. QED
    BY <1>1, <2>1 DEF At, Finished
<1>3. CASE run[o].program \in PythonPrograms
  <2>1. Calls[run[o].program] = setup_keycloak
    BY <1>3, Lengths DEF PythonPrograms
  <2>2. run[o].pc \in 1..10 /\ setup_keycloak[run[o].pc] = step
    BY <1>1, <1>2, <2>1, Lengths
  <2>3. QED
    BY <1>3, <2>2
<1>4. CASE run[o].program = "configure_realm"
  <2>1. run[o].pc \in 1..9 /\ configure_realm[run[o].pc] = step
    BY <1>1, <1>2, <1>4, Lengths
  <2>2. QED
    BY <1>4, <2>1
<1>5. QED
  BY <1>3, <1>4 DEF FullPrograms

LEMMA RealmInit == Init => RealmInv
<1> SUFFICES ASSUME Init PROVE RealmInv
  OBVIOUS
<1>1. NotRunning \in Run /\ ~NotRunning.clean /\ NotRunning.pc = 0
  BY Lengths DEF NotRunning, Run
<1>2. \A o \in Operators : run[o] = NotRunning
  BY DEF Init
<1>3. Flags /\ OfClient
  BY DEF Init, Flags, OfClient
<1>4. Stores
  BY RealmAssumption DEF Init, Stores
<1>5. Typed
  BY <1>1 DEF Init, Typed
<1>6. InPlace
  <2>1. NotRunning.pc <= Len(Calls[NotRunning.program]) + 1
    BY Lengths DEF NotRunning
  <2>2. QED
    BY <1>2, <2>1 DEF InPlace
<1>7. CleanRunsReach
  BY <1>1, <1>2 DEF CleanRunsReach, Follows
<1>8. QED
  BY <1>3, <1>4, <1>5, <1>6, <1>7 DEF RealmInv
-----------------------------------------------------------------------------
(* Types *)

Grows ==
    /\ realm => realm'
    /\ clients \subseteq clients'
    /\ scope => scope'
    /\ mapper => mapper'
    /\ attached => attached'
    /\ direct => direct'
    /\ user # NoUser => user' = user

\* No call takes anything back.
LEMMA GrowsNext == OfClient /\ Next => Grows
<1> SUFFICES ASSUME OfClient, NEW o \in Operators, StepOf(o)
             PROVE  Grows
  BY DEF Next, StepOf
<1>1. CASE CreateFrontend(o)
  BY <1>1 DEF CreateFrontend, Grows, OfClient
<1>2. CASE CreateClient(o)
  BY <1>2 DEF CreateClient, Grows
<1>3. CASE CreateUser(o)
  BY <1>3 DEF CreateUser, Grows
<1>4. CASE CreateRealm(o)
  BY <1>4, Zenon DEF CreateRealm, Grows
<1>8. CASE AddMapper(o)
  BY <1>8, Zenon DEF AddMapper, Grows
<1>5. CASE CreateScope(o)
  BY <1>5 DEF CreateScope, Grows
<1>6. CASE AttachScope(o)
  BY <1>6 DEF AttachScope, Grows
<1>7. CASE \/ \E p \in Program : Start(o, p)
           \/ ObtainToken(o) \/ ListScopes(o) \/ Refused(o) \/ Stop(o)
  BY <1>7 DEF Start, ObtainToken, ListScopes, Refused, Stop, keycloak, Grows
<1>9. QED
  BY <1>1, <1>2, <1>3, <1>4, <1>5, <1>6, <1>7, <1>8 DEF StepOf

LEMMA FlagsNext == Flags /\ Typed /\ Next => Flags'
<1> SUFFICES ASSUME Flags, Typed, NEW o \in Operators, StepOf(o)
             PROVE  Flags'
  BY DEF Next, StepOf
<1>1. CASE CreateFrontend(o)
  BY <1>1 DEF CreateFrontend, Flags
<1>2. CASE CreateClient(o) \/ CreateUser(o)
  BY <1>2 DEF CreateClient, CreateUser, Flags
<1>3. CASE CreateRealm(o) \/ CreateScope(o) \/ AddMapper(o) \/ AttachScope(o)
  BY <1>3 DEF CreateRealm, CreateScope, AddMapper, AttachScope, Flags
<1>4. CASE \/ \E p \in Program : Start(o, p)
           \/ ObtainToken(o) \/ ListScopes(o) \/ Refused(o) \/ Stop(o)
  BY <1>4 DEF Start, ObtainToken, ListScopes, Refused, Stop, keycloak, Flags
<1>5. QED
  BY <1>1, <1>2, <1>3, <1>4 DEF StepOf

LEMMA StoresNext == Stores /\ Next => Stores'
<1> SUFFICES ASSUME Stores, NEW o \in Operators, StepOf(o)
             PROVE  Stores'
  BY DEF Next, StepOf
<1>1. CASE CreateFrontend(o) \/ CreateClient(o)
  BY <1>1 DEF CreateFrontend, CreateClient, Stores, Client
<1>2. CASE CreateUser(o)
  BY <1>2 DEF CreateUser, Stores, PasswordOf
<1>3. CASE CreateRealm(o) \/ CreateScope(o) \/ AddMapper(o) \/ AttachScope(o)
  BY <1>3 DEF CreateRealm, CreateScope, AddMapper, AttachScope, Stores
<1>4. CASE Refused(o) \/ Stop(o)
  BY <1>4, RealmAssumption DEF Refused, Stop, keycloak, Stores
<1>5. CASE (\E p \in Program : Start(o, p)) \/ ObtainToken(o) \/ ListScopes(o)
  BY <1>5 DEF Start, ObtainToken, ListScopes, keycloak, Stores
<1>6. QED
  BY <1>1, <1>2, <1>3, <1>4, <1>5 DEF StepOf

LEMMA OfClientNext == OfClient /\ Next => OfClient'
<1> SUFFICES ASSUME OfClient, NEW o \in Operators, StepOf(o)
             PROVE  OfClient'
  BY DEF Next, StepOf
<1>1. CASE CreateFrontend(o)
  BY <1>1 DEF CreateFrontend, OfClient
<1>2. CASE CreateClient(o)
  BY <1>2 DEF CreateClient, OfClient
<1>3. CASE AttachScope(o)
  BY <1>3 DEF AttachScope, OfClient
<1>4. CASE CreateRealm(o) \/ CreateScope(o) \/ AddMapper(o) \/ CreateUser(o)
  BY <1>4 DEF CreateRealm, CreateScope, AddMapper, CreateUser, OfClient
<1>5. CASE \/ \E p \in Program : Start(o, p)
           \/ ObtainToken(o) \/ ListScopes(o) \/ Refused(o) \/ Stop(o)
  BY <1>5 DEF Start, ObtainToken, ListScopes, Refused, Stop, keycloak, OfClient
<1>6. QED
  BY <1>1, <1>2, <1>3, <1>4, <1>5 DEF StepOf
-----------------------------------------------------------------------------
(* Runs *)

LEMMA Bounds ==
    ASSUME NEW p \in Program
    PROVE  Len(Calls[p]) \in Nat /\ 0 < Len(Calls[p]) /\ Len(Calls[p]) <= 10
<1>1. PICK n \in 2..10 : Len(Calls[p]) = n
  BY Lengths
<1>2. QED
  BY <1>1

\* What the steps do to the record of a run.
Next1(r) == [r EXCEPT !.pc = @ + 1]
Informed(r, b) == [r EXCEPT !.scopeId = b]
Spoilt(r) == [r EXCEPT !.clean = FALSE]

LEMMA Records ==
    ASSUME NEW r \in Run
    PROVE  /\ Next1(r) \in Run /\ Next1(r).pc = r.pc + 1 /\ Next1(r).program = r.program
           /\ Next1(r).clean = r.clean /\ Next1(r).scopeId = r.scopeId
           /\ Spoilt(r) \in Run /\ Spoilt(r).pc = r.pc /\ Spoilt(r).program = r.program
           /\ Spoilt(r).clean = FALSE
<1>1. r.pc + 1 \in Nat
  BY DEF Run
<1>2. \A x \in Nat : [r EXCEPT !.pc = x] \in Run /\ [r EXCEPT !.pc = x].pc = x
  BY DEF Run
<1>3. Next1(r) \in Run /\ Next1(r).pc = r.pc + 1
  BY <1>1, <1>2 DEF Next1
<1>4. Spoilt(r) \in Run
  BY DEF Run, Spoilt
<1>5. QED
  BY <1>3, <1>4 DEF Next1, Spoilt, Run

LEMMA InformedRecord ==
    \A r \in Run, b \in BOOLEAN :
        /\ Informed(r, b) \in Run
        /\ Informed(r, b).pc = r.pc
        /\ Informed(r, b).program = r.program
        /\ Informed(r, b).clean = r.clean
        /\ Informed(r, b).scopeId = b
BY DEF Informed, Run

LEMMA Sets ==
    ASSUME Typed, NEW o \in Operators, NEW r \in Run, run' = [run EXCEPT ![o] = r]
    PROVE  Typed' /\ run'[o] = r /\ \A s \in Operators \ {o} : run'[s] = run[s]
BY DEF Typed

Started(p) == [program |-> p, pc |-> 1, scopeId |-> FALSE, clean |-> TRUE]
Others(o) == \A s \in Operators \ {o} : run'[s] = run[s]

LEMMA StartSets ==
    ASSUME Typed, NEW o \in Operators, NEW p \in Program, Start(o, p)
    PROVE  Typed' /\ run'[o] = Started(p) /\ Others(o)
<1>1. Started(p) \in Run
  BY DEF Started, Run
<1>2. run' = [run EXCEPT ![o] = Started(p)]
  BY DEF Start, Started
<1>3. QED
  BY <1>1, <1>2, Sets DEF Others

LEMMA StopSets ==
    ASSUME Typed, NEW o \in Operators, run' = [run EXCEPT ![o] = NotRunning]
    PROVE  Typed' /\ run'[o] = NotRunning /\ Others(o)
<1>1. NotRunning \in Run
  BY Lengths DEF NotRunning, Run
<1>2. QED
  BY <1>1, Sets DEF Others

LEMMA AdvanceSets ==
    ASSUME Typed, NEW o \in Operators, Advance(o)
    PROVE  Typed' /\ run'[o] = Next1(run[o]) /\ Others(o)
<1>1. run[o] \in Run /\ Next1(run[o]) \in Run
  BY Records DEF Typed
<1>2. run' = [run EXCEPT ![o] = Next1(run[o])]
  BY DEF Advance, Next1
<1>3. QED
  BY <1>1, <1>2, Sets DEF Others

LEMMA InformSets ==
    ASSUME Typed, NEW o \in Operators, NEW b \in BOOLEAN,
           run' = [run EXCEPT ![o].pc = @ + 1, ![o].scopeId = b]
    PROVE  Typed' /\ run'[o] = Informed(Next1(run[o]), b) /\ Others(o)
<1>1. Next1(run[o]) \in Run
  BY Records DEF Typed
<1>2. Informed(Next1(run[o]), b) \in Run
  BY <1>1, InformedRecord
<1>3. run' = [run EXCEPT ![o] = Informed(Next1(run[o]), b)]
  BY DEF Informed, Next1, Typed
<1>4. QED
  BY <1>2, <1>3, Sets DEF Others

LEMMA SpoilSets ==
    ASSUME Typed, NEW o \in Operators,
           run' = [run EXCEPT ![o].pc = @ + 1, ![o].clean = FALSE]
    PROVE  Typed' /\ run'[o] = Spoilt(Next1(run[o])) /\ Others(o)
<1>1. Next1(run[o]) \in Run
  BY Records DEF Typed
<1>2. Spoilt(Next1(run[o])) \in Run
  BY <1>1, Records
<1>3. run' = [run EXCEPT ![o] = Spoilt(Next1(run[o]))]
  BY DEF Spoilt, Next1, Typed
<1>4. QED
  BY <1>2, <1>3, Sets DEF Others

LEMMA NotFinished ==
    ASSUME Typed, NEW o \in Operators, ~Finished(o)
    PROVE  run[o].pc + 1 <= Len(Calls[run[o].program]) + 1
<1>1. run[o].pc \in Nat /\ Len(Calls[run[o].program]) \in Nat
  BY Bounds DEF Typed, Run
<1>2. QED
  BY <1>1 DEF Finished

\* A step leaves the runs of the others alone, and sets o's to one that is in place.
LEMMA RunNext ==
    ASSUME Flags, Typed, InPlace, NEW o \in Operators, StepOf(o)
    PROVE  Typed' /\ Others(o) /\ InPlace'
<1> DEFINE Good(r) == r.pc <= Len(Calls[r.program]) + 1
<1>1. run[o] \in Run /\ Next1(run[o]) \in Run
  BY Records DEF Typed
<1>2. ~Finished(o) => Good(Next1(run[o]))
  BY <1>1, NotFinished, Records
<1>3. Good(NotRunning)
  BY Bounds, Lengths DEF NotRunning
<1>4. ASSUME NEW p \in Program, Start(o, p) PROVE Typed' /\ Others(o) /\ Good(run'[o])
  <2>1. Good(Started(p))
    BY Bounds DEF Started
  <2>2. QED
    BY <1>4, <2>1, StartSets
<1>5. CASE \/ ObtainToken(o) \/ CreateRealm(o) \/ CreateClient(o) \/ CreateFrontend(o)
           \/ AddMapper(o) \/ AttachScope(o) \/ CreateUser(o)
  <2>1. ~Finished(o) /\ Advance(o)
    BY <1>5 DEF ObtainToken, CreateRealm, CreateClient, CreateFrontend, AddMapper,
                AttachScope, CreateUser, At
  <2>2. Typed' /\ Others(o) /\ Good(run'[o])
    BY <1>2, <2>1, AdvanceSets
  <2>3. QED
    BY <2>2 DEF Others, InPlace
<1>6. ASSUME ~Finished(o), NEW b \in BOOLEAN,
             run' = [run EXCEPT ![o].pc = @ + 1, ![o].scopeId = b]
      PROVE  Typed' /\ Others(o) /\ Good(run'[o])
  <2>1. Good(Informed(Next1(run[o]), b))
    BY <1>1, <1>2, <1>6, InformedRecord
  <2>2. QED
    BY <1>6, <2>1, InformSets
<1>7. CASE CreateScope(o)
  <2>1. (realm /\ ~scope /\ answersId) \in BOOLEAN
    OBVIOUS
  <2>2. /\ ~Finished(o)
        /\ run' = [run EXCEPT ![o].pc = @ + 1, ![o].scopeId = (realm /\ ~scope /\ answersId)]
    BY <1>7 DEF CreateScope, At
  <2>3. QED
    BY <1>6, <2>1, <2>2 DEF Others, InPlace
<1>8. CASE ListScopes(o)
  <2>1. CASE realm
    BY <1>6, <1>8, <2>1 DEF ListScopes, At, Flags, Others, InPlace
  <2>2. CASE ~realm
    BY <1>3, <1>8, <2>2, StopSets DEF ListScopes, Others, InPlace
  <2>3. QED
    BY <2>1, <2>2
<1>9. CASE Refused(o)
  <2>1. ~Finished(o) /\ run' = [run EXCEPT ![o].pc = @ + 1, ![o].clean = FALSE]
    BY <1>9 DEF Refused
  <2>2. Good(Spoilt(Next1(run[o])))
    BY <1>1, <1>2, <2>1, Records
  <2>3. QED
    BY <2>1, <2>2, SpoilSets DEF Others, InPlace
<1>10. CASE Stop(o)
  BY <1>3, <1>10, StopSets DEF Stop, Others, InPlace
<1>11. QED
  BY <1>4, <1>5, <1>7, <1>8, <1>9, <1>10 DEF StepOf, Others, InPlace
-----------------------------------------------------------------------------
(* Clean runs *)

\* What the call that run o has come to must leave behind.
Adds(o) ==
    /\ run[o].pc = 2 => realm'
    /\ run[o].pc = 3 => "backend" \in clients'
    /\ run[o].pc = 4 => "frontend" \in clients'
    /\ run[o].pc = 5 => "admin" \in clients'
    /\ run[o].pc = 6 => scope'
    /\ run[o].program \in PythonPrograms =>
         /\ run[o].pc = 7 => run'[o].scopeId
         /\ run[o].pc = 8 => mapper'
         /\ run[o].pc = 9 => attached'
    /\ run[o].program = "configure_realm" /\ run'[o].scopeId =>
         /\ run[o].pc = 7 => mapper'
         /\ run[o].pc = 8 => attached'
    /\ run[o].program = "configure_keycloak" /\ run[o].pc = 10 => user' # NoUser

\* What is there stays there, and a call that adds its part moves the run on.
LEMMA OneCallMore ==
    ASSUME Typed, Grows, NEW o \in Operators, Follows(run[o]),
           run'[o].pc = run[o].pc + 1, run'[o].program = run[o].program,
           run'[o].clean = run[o].clean,
           run[o].pc > 7 => run'[o].scopeId = run[o].scopeId,
           run[o].clean /\ run[o].program \in FullPrograms => Adds(o)
    PROVE  Follows(run[o])'
<1> SUFFICES ASSUME run[o].clean, run[o].program \in FullPrograms PROVE Reached(run[o])'
  BY DEF Follows
<1>1. \A k \in Nat : run'[o].pc > k => run[o].pc > k \/ run[o].pc = k
  BY DEF Typed, Run
<1>2. /\ run'[o].pc > 2 => run[o].pc > 2 \/ run[o].pc = 2
      /\ run'[o].pc > 3 => run[o].pc > 3 \/ run[o].pc = 3
      /\ run'[o].pc > 4 => run[o].pc > 4 \/ run[o].pc = 4
      /\ run'[o].pc > 5 => run[o].pc > 5 \/ run[o].pc = 5
      /\ run'[o].pc > 6 => run[o].pc > 6 \/ run[o].pc = 6
      /\ run'[o].pc > 7 => run[o].pc > 7 \/ run[o].pc = 7
      /\ run'[o].pc > 8 => run[o].pc > 8 \/ run[o].pc = 8
      /\ run'[o].pc > 9 => run[o].pc > 9 \/ run[o].pc = 9
      /\ run'[o].pc > 10 => run[o].pc > 10 \/ run[o].pc = 10
  BY <1>1
<1>3. run[o].pc > 8 \/ run[o].pc = 8 \/ run[o].pc > 9 \/ run[o].pc = 9 => run[o].pc > 7
  BY DEF Typed, Run
<1>4. Reached(run[o]) /\ Adds(o)
  BY DEF Follows
<1>5. /\ run'[o].pc > 2 => realm'
      /\ run'[o].pc > 3 => "backend" \in clients'
      /\ run'[o].pc > 4 => "frontend" \in clients'
      /\ run'[o].pc > 5 => "admin" \in clients'
      /\ run'[o].pc > 6 => scope'
  BY <1>2, <1>4 DEF Reached, Adds, Grows
<1>6. run'[o].program \in PythonPrograms =>
        /\ run'[o].pc > 7 => run'[o].scopeId
        /\ run'[o].pc > 8 => mapper'
        /\ run'[o].pc > 9 => attached'
  BY <1>2, <1>3, <1>4, Zenon DEF Reached, Adds, Grows
<1>7. run'[o].program = "configure_realm" /\ run'[o].scopeId =>
        /\ run'[o].pc > 7 => mapper'
        /\ run'[o].pc > 8 => attached'
  BY <1>2, <1>3, <1>4, Zenon DEF Reached, Adds, Grows
<1>8. run'[o].program = "configure_keycloak" /\ run'[o].pc > 10 => user' # NoUser
  BY <1>2, <1>4 DEF Reached, Adds, Grows
<1>9. QED
  BY <1>5, <1>6, <1>7, <1>8 DEF Reached

LEMMA StillFollows ==
    ASSUME Grows, NEW s \in Operators, run'[s] = run[s], Follows(run[s])
    PROVE  Follows(run[s])'
BY DEF Grows, Follows, Reached

\* A run whose next call is step, and the place of that call.
LEMMA PlaceOf ==
    ASSUME Typed, NEW o \in Operators, run[o].program \in FullPrograms
    PROVE  /\ At(o, "token") => run[o].pc = 1
           /\ At(o, "realm") => run[o].pc = 2
           /\ At(o, "backend") => run[o].pc = 3
           /\ At(o, "frontend") => run[o].pc = 4
           /\ At(o, "admin") => run[o].pc = 5
           /\ At(o, "scope") => run[o].pc = 6
           /\ At(o, "list") => run[o].pc = 7 /\ run[o].program \in PythonPrograms
           /\ At(o, "mapper") =>
                \/ run[o].program \in PythonPrograms /\ run[o].pc = 8
                \/ run[o].program = "configure_realm" /\ run[o].pc = 7
           /\ At(o, "attach") =>
                \/ run[o].program \in PythonPrograms /\ run[o].pc = 9
                \/ run[o].program = "configure_realm" /\ run[o].pc = 8
           /\ At(o, "user") =>
                \/ run[o].program \in PythonPrograms /\ run[o].pc = 10
                \/ run[o].program = "configure_realm" /\ run[o].pc = 9
BY AtPlace, Places

\* A call that goes through adds its part, on what the calls before it left.
LEMMA CallAdds ==
    ASSUME Typed, NEW o \in Operators, run[o].clean, run[o].program \in FullPrograms,
           Reached(run[o]), run'[o].scopeId = run[o].scopeId,
           \/ ObtainToken(o) \/ CreateRealm(o) \/ CreateClient(o) \/ CreateFrontend(o)
           \/ AddMapper(o) \/ AttachScope(o) \/ CreateUser(o)
    PROVE  Adds(o)
<1> USE DEF Adds
<1>0. "configure_realm" \notin PythonPrograms /\ "configure_keycloak" \in PythonPrograms
  BY DEF PythonPrograms
<1>1. CASE ObtainToken(o)
  <2>1. run[o].pc = 1
    BY <1>1, PlaceOf DEF ObtainToken
  <2>2. QED
    BY <2>1
<1>2. CASE CreateRealm(o)
  <2>1. run[o].pc = 2 /\ realm'
    BY <1>2, PlaceOf DEF CreateRealm
  <2>2. QED
    BY <2>1
<1>3. CASE CreateClient(o)
  <2>1. CASE At(o, "backend")
    <3>1. run[o].pc = 3
      BY <2>1, PlaceOf
    <3>2. realm
      BY <3>1 DEF Reached
    <3>3. "backend" \in clients'
      BY <1>3, <2>1, <3>2, <3>1, PlaceOf DEF CreateClient
    <3>4. QED
      BY <3>1, <3>3
  <2>2. CASE At(o, "admin")
    <3>1. run[o].pc = 5
      BY <2>2, PlaceOf
    <3>2. realm
      BY <3>1 DEF Reached
    <3>3. "admin" \in clients'
      BY <1>3, <2>2, <3>2, <3>1, PlaceOf DEF CreateClient
    <3>4. QED
      BY <3>1, <3>3
  <2>3. QED
    BY <1>3, <2>1, <2>2 DEF CreateClient
<1>4. CASE CreateFrontend(o)
  <2>1. run[o].pc = 4
    BY <1>4, PlaceOf DEF CreateFrontend
  <2>2. realm
    BY <2>1 DEF Reached
  <2>3. "frontend" \in clients'
    BY <1>4, <2>2 DEF CreateFrontend
  <2>4. QED
    BY <2>1, <2>3
<1>5. CASE AddMapper(o)
  <2>1. mapper' = (mapper \/ run[o].scopeId) /\ At(o, "mapper")
    BY <1>5 DEF AddMapper
  <2>2. CASE run[o].program \in PythonPrograms /\ run[o].pc = 8
    <3>1. run[o].scopeId
      BY <2>2 DEF Reached
    <3>2. mapper'
      BY <2>1, <3>1
    <3>3. QED
      BY <1>0, <2>2, <3>2
  <2>3. CASE run[o].program = "configure_realm" /\ run[o].pc = 7
    <3>1. run'[o].scopeId => mapper'
      BY <2>1
    <3>2. QED
      BY <1>0, <2>3, <3>1
  <2>4. QED
    BY <2>1, <2>2, <2>3, PlaceOf
<1>6. CASE AttachScope(o)
  <2>1. /\ attached' = (attached \/ (run[o].scopeId /\ "frontend" \in clients))
        /\ At(o, "attach")
    BY <1>6 DEF AttachScope
  <2>2. CASE run[o].program \in PythonPrograms /\ run[o].pc = 9
    <3>1. run[o].scopeId /\ "frontend" \in clients
      BY <2>2 DEF Reached
    <3>2. attached'
      BY <2>1, <3>1
    <3>3. QED
      BY <1>0, <2>2, <3>2
  <2>3. CASE run[o].program = "configure_realm" /\ run[o].pc = 8
    <3>1. "frontend" \in clients
      BY <2>3 DEF Reached
    <3>2. run'[o].scopeId => attached'
      BY <2>1, <3>1
    <3>3. QED
      BY <1>0, <2>3, <3>2
  <2>4. QED
    BY <2>1, <2>2, <2>3, PlaceOf
<1>7. CASE CreateUser(o)
  <2>1. run[o].pc = 9 \/ run[o].pc = 10
    BY <1>7, PlaceOf DEF CreateUser
  <2>2. run[o].pc = 9 => run[o].program = "configure_realm"
    BY <1>7, PlaceOf DEF CreateUser
  <2>3. realm
    BY <2>1 DEF Reached
  <2>4. ASSUME run[o].program = "configure_keycloak" PROVE user' # NoUser
    <3>1. PolicyAccepts(CorrectedPass) /\ CorrectedPass # NoUser
      BY NoUserAssumption DEF PolicyAccepts, CorrectedPass
    <3>2. QED
      BY <1>7, <2>3, <2>4, <3>1 DEF CreateUser, PasswordOf
  <2>5. QED
    BY <1>0, <2>1, <2>2, <2>4
<1>8. QED
  BY <1>1, <1>2, <1>3, <1>4, <1>5, <1>6, <1>7

LEMMA FollowsNext ==
    ASSUME Flags, Typed, Grows, NEW o \in Operators, Follows(run[o]), StepOf(o)
    PROVE  Follows(run[o])'
<1>0. run[o] \in Run /\ Next1(run[o]) \in Run
  BY Records DEF Typed
<1>1. ~NotRunning.clean /\ \A p \in Program : Started(p).pc = 1
  BY DEF NotRunning, Started
<1>2. ASSUME NEW p \in Program, Start(o, p) PROVE Follows(run[o])'
  <2>1. run'[o].pc = 1
    BY <1>2, <1>1, StartSets
  <2>2. QED
    BY <2>1 DEF Follows, Reached
<1>3. CASE \/ ObtainToken(o) \/ CreateRealm(o) \/ CreateClient(o) \/ CreateFrontend(o)
           \/ AddMapper(o) \/ AttachScope(o) \/ CreateUser(o)
  <2>1. run'[o] = Next1(run[o])
    BY <1>3, AdvanceSets DEF ObtainToken, CreateRealm, CreateClient, CreateFrontend,
       AddMapper, AttachScope, CreateUser
  <2>2. /\ run'[o].pc = run[o].pc + 1 /\ run'[o].program = run[o].program
        /\ run'[o].clean = run[o].clean /\ run'[o].scopeId = run[o].scopeId
    BY <1>0, <2>1, Records
  <2>3. run[o].clean /\ run[o].program \in FullPrograms => Adds(o)
    BY <1>3, <2>2, CallAdds DEF Follows
  <2>4. QED
    BY <2>2, <2>3, OneCallMore
<1>4. ASSUME NEW b \in BOOLEAN, run' = [run EXCEPT ![o].pc = @ + 1, ![o].scopeId = b]
      PROVE  /\ run'[o].pc = run[o].pc + 1 /\ run'[o].program = run[o].program
             /\ run'[o].clean = run[o].clean /\ run'[o].scopeId = b
  <2>1. run'[o] = Informed(Next1(run[o]), b)
    BY <1>4, InformSets
  <2>2. /\ Next1(run[o]).pc = run[o].pc + 1 /\ Next1(run[o]).program = run[o].program
        /\ Next1(run[o]).clean = run[o].clean
    BY <1>0, Records
  <2>3. QED
    BY <1>0, <1>4, <2>1, <2>2, InformedRecord
<1>5. CASE CreateScope(o)
  <2>1. (realm /\ ~scope /\ answersId) \in BOOLEAN
    OBVIOUS
  <2>2. /\ run'[o].pc = run[o].pc + 1 /\ run'[o].program = run[o].program
        /\ run'[o].clean = run[o].clean
    BY <1>4, <1>5, <2>1 DEF CreateScope
  <2>3. run[o].program \in FullPrograms => run[o].pc = 6
    BY <1>5, PlaceOf DEF CreateScope
  <2>4. ASSUME run[o].clean, run[o].program \in FullPrograms PROVE Adds(o)
    <3>1. run[o].pc = 6 /\ realm
      BY <2>3, <2>4 DEF Follows, Reached
    <3>2. scope'
      BY <1>5, <3>1 DEF CreateScope
    <3>3. QED
      BY <3>1, <3>2 DEF Adds
  <2>5. CASE run[o].program \in FullPrograms
    <3>1. ~(run[o].pc > 7)
      BY <2>3, <2>5
    <3>2. QED
      BY <2>2, <2>4, <3>1, OneCallMore
  <2>6. CASE run[o].program \notin FullPrograms
    BY <2>2, <2>6 DEF Follows
  <2>7. QED
    BY <2>5, <2>6
<1>6. CASE ListScopes(o)
  <2>1. CASE ~realm
    <3>1. run'[o] = NotRunning
      BY <1>6, <2>1, StopSets DEF ListScopes
    <3>2. QED
      BY <1>1, <3>1 DEF Follows
  <2>2. CASE realm
    <3>1. /\ run'[o].pc = run[o].pc + 1 /\ run'[o].program = run[o].program
          /\ run'[o].clean = run[o].clean /\ run'[o].scopeId = scope
      BY <1>4, <1>6, <2>2 DEF ListScopes, Flags
    <3>2. CASE run[o].program \in FullPrograms
      <4>1. run[o].pc = 7 /\ run[o].program \in PythonPrograms
        BY <1>6, <3>2, PlaceOf DEF ListScopes
      <4>2. run[o].clean => run'[o].scopeId
        BY <3>1, <3>2, <4>1 DEF Follows, Reached
      <4>3. run[o].program # "configure_realm"
        BY <4>1 DEF PythonPrograms
      <4>4. run[o].clean => Adds(o)
        BY <4>1, <4>2, <4>3 DEF Adds
      <4>5. QED
        BY <3>1, <4>1, <4>4, OneCallMore
    <3>3. CASE run[o].program \notin FullPrograms
      BY <3>1, <3>3 DEF Follows
    <3>4. QED
      BY <3>2, <3>3
  <2>3. QED
    BY <2>1, <2>2
<1>7. CASE Refused(o)
  <2>1. run'[o] = Spoilt(Next1(run[o]))
    BY <1>7, SpoilSets DEF Refused
  <2>2. Spoilt(Next1(run[o])).clean = FALSE
    BY <1>0, Records
  <2>3. QED
    BY <2>1, <2>2 DEF Follows
<1>8. CASE Stop(o)
  <2>1. run'[o] = NotRunning
    BY <1>8, StopSets DEF Stop
  <2>2. QED
    BY <1>1, <2>1 DEF Follows
<1>9. QED
  BY <1>2, <1>3, <1>5, <1>6, <1>7, <1>8 DEF StepOf

LEMMA RunsNext ==
    ASSUME Flags, Typed, Grows, CleanRunsReach, NEW o \in Operators, StepOf(o), Others(o)
    PROVE  CleanRunsReach'
<1>1. ASSUME NEW s \in Operators PROVE Follows(run[s])'
  <2>1. Follows(run[s])
    BY DEF CleanRunsReach
  <2>2. CASE s = o
    BY <2>1, <2>2, FollowsNext
  <2>3. CASE s # o
    BY <2>1, <2>3, StillFollows DEF Others
  <2>4. QED
    BY <2>2, <2>3
<1>2. QED
  BY <1>1 DEF CleanRunsReach

LEMMA RealmNext == RealmInv /\ [Next]_vars => RealmInv'
<1> SUFFICES ASSUME RealmInv, [Next]_vars PROVE RealmInv'
  OBVIOUS
<1>1. CASE Next
  <2>1. PICK o \in Operators : StepOf(o)
    BY <1>1 DEF Next, StepOf
  <2>2. Typed' /\ Others(o) /\ InPlace'
    BY <2>1, RunNext DEF RealmInv
  <2>3. Grows
    BY <1>1, GrowsNext DEF RealmInv
  <2>4. CleanRunsReach'
    BY <2>1, <2>2, <2>3, RunsNext DEF RealmInv
  <2>5. QED
    BY <1>1, <2>2, <2>4, FlagsNext, StoresNext, OfClientNext DEF RealmInv
<1>2. CASE UNCHANGED vars
  <2>1. Flags' /\ Typed' /\ InPlace'
    BY <1>2 DEF vars, RealmInv, Flags, Typed, InPlace
  <2>2. Stores' /\ OfClient'
    BY <1>2 DEF vars, RealmInv, Stores, OfClient
  <2>3. CleanRunsReach'
    BY <1>2 DEF vars, RealmInv, CleanRunsReach, Follows, Reached
  <2>4. QED
    BY <2>1, <2>2, <2>3 DEF RealmInv
<1>3. QED
  BY <1>1, <1>2

LEMMA RealmHolds == Spec => []RealmInv
BY RealmInit, RealmNext, PTL DEF Spec

\* Every reachable state of the realm and of the programs is well formed.
THEOREM TypeCorrect == Spec => []TypeOK
<1>1. RealmInv => TypeOK
  <2> SUFFICES ASSUME RealmInv PROVE TypeOK
    OBVIOUS
  <2>1. {realm, direct, scope, mapper, attached, answersId} \subseteq BOOLEAN
    BY DEF RealmInv, Flags
  <2>2. run \in [Operators -> [program : Program, pc : 0..(Len(setup_keycloak) + 1),
                               scopeId : BOOLEAN, clean : BOOLEAN]]
    <3>1. ASSUME NEW o \in Operators PROVE run[o].pc \in 0..(Len(setup_keycloak) + 1)
      <4>1. /\ run[o].pc \in Nat /\ run[o].program \in Program
            /\ run[o].pc <= Len(Calls[run[o].program]) + 1
        BY DEF RealmInv, Typed, Run, InPlace
      <4>2. Len(Calls[run[o].program]) \in Nat /\ Len(Calls[run[o].program]) <= 10
        BY <4>1, Bounds
      <4>3. Len(setup_keycloak) = 10
        BY Lengths
      <4>4. run[o].pc <= 11
        BY <4>1, <4>2
      <4>5. QED
        BY <4>1, <4>3, <4>4
    <3>2. QED
      BY <3>1 DEF RealmInv, Typed, Run
  <2>3. QED
    BY <2>1, <2>2 DEF TypeOK, RealmInv, Stores
<1>2. QED
  BY <1>1, RealmHolds, PTL

\* A run of a Python program whose calls all went through leaves the realm complete,
\* one of configure-realm.sh all but perhaps the mapper and its use, whatever was
\* there before and however many others run programs beside it.
THEOREM CleanRunsConfigure == Spec => []CleanRunConfigures
<1>1. RealmInv => CleanRunConfigures
  <2> SUFFICES ASSUME RealmInv, NEW o \in Operators, Finished(o), run[o].clean
               PROVE  /\ run[o].program \in PythonPrograms => Configured
                      /\ run[o].program = "configure_keycloak" => user # NoUser
                      /\ run[o].program = "configure_realm" =>
                           /\ realm /\ clients = Client /\ scope
                           /\ run[o].scopeId => mapper /\ attached
    BY DEF CleanRunConfigures
  <2>1. run[o].program \in FullPrograms => Reached(run[o])
    BY DEF RealmInv, CleanRunsReach, Follows
  <2>2. run[o].pc \in Nat
    BY DEF RealmInv, Typed, Run
  <2>3. clients \subseteq Client
    BY DEF RealmInv, Stores
  <2>4. CASE run[o].program \in PythonPrograms
    <3>1. run[o].pc > 10
      BY <2>4, Lengths DEF PythonPrograms, Finished
    <3>2. /\ run[o].pc > 2 /\ run[o].pc > 3 /\ run[o].pc > 4 /\ run[o].pc > 5
          /\ run[o].pc > 6 /\ run[o].pc > 7 /\ run[o].pc > 8 /\ run[o].pc > 9
      BY <2>2, <3>1
    <3>3. Configured
      BY <2>1, <2>3, <2>4, <3>2 DEF Reached, FullPrograms, Configured, Client
    <3>4. run[o].program = "configure_keycloak" => user # NoUser
      BY <2>1, <2>4, <3>1 DEF Reached, FullPrograms
    <3>5. run[o].program # "configure_realm"
      BY <2>4 DEF PythonPrograms
    <3>6. QED
      BY <3>3, <3>4, <3>5
  <2>5. CASE run[o].program = "configure_realm"
    <3>1. run[o].pc > 9
      BY <2>5, Lengths DEF Finished
    <3>2. /\ run[o].pc > 2 /\ run[o].pc > 3 /\ run[o].pc > 4 /\ run[o].pc > 5
          /\ run[o].pc > 6 /\ run[o].pc > 7 /\ run[o].pc > 8
      BY <2>2, <3>1
    <3>3. /\ realm /\ clients = Client /\ scope
          /\ run[o].scopeId => mapper /\ attached
      BY <2>1, <2>3, <2>5, <3>2 DEF Reached, FullPrograms, Client
    <3>4. QED
      BY <2>5, <3>3 DEF PythonPrograms
  <2>6. QED
    BY <2>4, <2>5 DEF PythonPrograms
<1>2. QED
  BY <1>1, RealmHolds, PTL

\* No program, repeated, interrupted or run beside another, takes back what a token
\* or a login needs.
THEOREM NothingIsTakenBack == Spec => NothingTakenBack
<1> DEFINE Kept == /\ mapper /\ attached => mapper' /\ attached'
                   /\ direct /\ user # NoUser => direct' /\ user' = user
<1>1. RealmInv /\ [Next]_vars => [Kept]_vars
  BY GrowsNext DEF RealmInv, Grows
<1>2. QED
  BY <1>1, RealmHolds, PTL DEF Spec, NothingTakenBack

\* A realm once complete stays complete, so a clean run may be announced for good.
THEOREM ConfiguredForGood == Spec => [][Configured => Configured']_vars
<1>1. RealmInv /\ RealmInv' /\ [Next]_vars => [Configured => Configured']_vars
  <2> SUFFICES ASSUME RealmInv, RealmInv', Next, Configured PROVE Configured'
    OBVIOUS
  <2>1. Grows
    BY GrowsNext DEF RealmInv
  <2>2. clients' \subseteq Client /\ Client \subseteq clients'
    BY <2>1 DEF RealmInv, Stores, Grows, Configured
  <2>3. QED
    BY <2>1, <2>2 DEF Grows, Configured
<1>2. QED
  BY <1>1, RealmHolds, PTL DEF Spec
=============================================================================
