------------------------------ MODULE RealmSetup ------------------------------
(***************************************************************************)
(* The five programs that configure the Keycloak realm, each a sequence of *)
(* calls of the admin API: setup_keycloak.py and, under keycloak/scripts,  *)
(* configure_keycloak.py, configure-realm.sh, create-clients.sh and        *)
(* create-scope.sh.  People run them in any order, again after a failure,  *)
(* and at the same time.  Keycloak answers 409 to the creation of what it  *)
(* has and keeps it as it is.                                              *)
(*                                                                         *)
(* Operators named Bad... are mistakes the code does not make; they show   *)
(* that the properties would notice them, and nothing else uses them.      *)
(***************************************************************************)
EXTENDS Integers, Sequences

CONSTANTS
    Operators,    \* people at a terminal
    NoUser,       \* testuser does not exist
    MaxFailures   \* bound on calls that fail

ASSUME RealmAssumption == MaxFailures \in Nat

VARIABLES
    realm,      \* zt-decentralized-iam exists
    clients,    \* the clients it has
    direct,     \* zt-frontend-client accepts grant_type=password
    scope,      \* the client scope did exists
    mapper,     \* with its mapper from ethereum_did to the claim
    attached,   \* and is a default scope of zt-frontend-client
    user,       \* password of testuser
    run,        \* the program each operator runs
    answersId,  \* a creation answers with the id of what it made
    failures

keycloak == <<realm, clients, direct, scope, mapper, attached, user>>
vars == <<realm, clients, direct, scope, mapper, attached, user, run, answersId, failures>>

Client == {"backend", "frontend", "admin"}

\* The calls of each program, in order.
setup_keycloak == <<"token", "realm", "backend", "frontend", "admin",
                    "scope", "list", "mapper", "attach", "user">>
configure_keycloak == setup_keycloak
configure_realm == <<"token", "realm", "backend", "frontend", "admin",
                     "scope", "mapper", "attach", "user">>
create_clients == <<"token", "frontend", "backend">>
create_scope == <<"token", "scope">>

Calls == [
    setup_keycloak     |-> setup_keycloak,
    configure_keycloak |-> configure_keycloak,
    configure_realm    |-> configure_realm,
    create_clients     |-> create_clients,
    create_scope       |-> create_scope]

Program == DOMAIN Calls
PythonPrograms == {"setup_keycloak", "configure_keycloak"}

\* What the password policy counts in testpass123 and in TestPass123!.
TestPass == [length |-> 11, upper |-> 0, digits |-> 3, special |-> 0]
CorrectedPass == [length |-> 12, upper |-> 2, digits |-> 3, special |-> 1]
PasswordOf(p) == IF p = "configure_keycloak" THEN CorrectedPass ELSE TestPass

ASSUME NoUserAssumption == NoUser \notin {TestPass, CorrectedPass}

PolicyAccepts(w) == w.length >= 12 /\ w.upper >= 1 /\ w.digits >= 1 /\ w.special >= 1

\* pc is the call a run has come to, scopeId whether it knows the id of the
\* scope, clean whether all its calls went through; a password of its own that the
\* policy refuses (400, printed at most) leaves it clean.
NotRunning == [program |-> "create_scope", pc |-> 0, scopeId |-> FALSE, clean |-> FALSE]

TypeOK ==
    /\ {realm, direct, scope, mapper, attached, answersId} \subseteq BOOLEAN
    /\ clients \subseteq Client
    /\ user = NoUser \/ (user \in {TestPass, CorrectedPass} /\ PolicyAccepts(user))
    /\ run \in [Operators -> [program : Program, pc : 0..(Len(setup_keycloak) + 1),
                              scopeId : BOOLEAN, clean : BOOLEAN]]
    /\ failures \in 0..MaxFailures

Init ==
    /\ realm = FALSE /\ clients = {} /\ direct = FALSE
    /\ scope = FALSE /\ mapper = FALSE /\ attached = FALSE
    /\ user = NoUser
    /\ run = [o \in Operators |-> NotRunning]
    /\ answersId \in BOOLEAN
    /\ failures = 0

Finished(o) == run[o].pc > Len(Calls[run[o].program])
At(o, step) == run[o].pc > 0 /\ ~Finished(o) /\ Calls[run[o].program][run[o].pc] = step
Advance(o) == run' = [run EXCEPT ![o].pc = @ + 1]
-----------------------------------------------------------------------------
Start(o, p) ==
    /\ run[o].pc = 0 \/ Finished(o)
    /\ run' = [run EXCEPT ![o] = [program |-> p, pc |-> 1, scopeId |-> FALSE, clean |-> TRUE]]
    /\ UNCHANGED <<keycloak, answersId, failures>>

ObtainToken(o) ==
    /\ At(o, "token")
    /\ Advance(o)
    /\ UNCHANGED <<keycloak, answersId, failures>>

CreateRealm(o) ==
    /\ At(o, "realm")
    /\ realm' = TRUE
    /\ Advance(o)
    /\ UNCHANGED <<clients, direct, scope, mapper, attached, user, answersId, failures>>

\* zt-backend-client and zt-admin-client; without a realm the answer is 404
\* and the program goes on.
CreateClient(o) ==
    /\ \E c \in {"backend", "admin"} :
         /\ At(o, c)
         /\ clients' = IF realm THEN clients \cup {c} ELSE clients
    /\ Advance(o)
    /\ UNCHANGED <<realm, direct, scope, mapper, attached, user, answersId, failures>>

\* The settings of an existing client are replaced.
BadCreateFrontend(o) ==
    LET own == run[o].program = "create_clients"
    IN  /\ At(o, "frontend")
        /\ clients' = IF realm THEN clients \cup {"frontend"} ELSE clients
        /\ direct' = (realm /\ own)
        /\ attached' = attached
        /\ Advance(o)
        /\ UNCHANGED <<realm, scope, mapper, user, answersId, failures>>

\* create-clients.sh alone allows the password grant, and names did among
\* the default scopes, which counts if the scope is there.
CreateFrontend(o) ==
    LET new == realm /\ "frontend" \notin clients
        own == run[o].program = "create_clients"
    IN  /\ At(o, "frontend")
        /\ clients' = IF new THEN clients \cup {"frontend"} ELSE clients
        /\ direct' = IF new THEN own ELSE direct
        /\ attached' = IF new THEN own /\ scope ELSE attached
        /\ Advance(o)
        /\ UNCHANGED <<realm, scope, mapper, user, answersId, failures>>

\* configure-realm.sh takes the id of the scope from this answer.
CreateScope(o) ==
    LET created == realm /\ ~scope
    IN  /\ At(o, "scope")
        /\ scope' = (scope \/ realm)
        /\ run' = [run EXCEPT ![o].pc = @ + 1, ![o].scopeId = created /\ answersId]
        /\ UNCHANGED <<realm, clients, direct, mapper, attached, user, answersId, failures>>

\* The id of the creation is kept and the list not looked at.
BadListScopes(o) ==
    /\ At(o, "list")
    /\ Advance(o)
    /\ UNCHANGED <<keycloak, answersId, failures>>

\* The Python programs look the scope up; without a realm the answer is no
\* list of scopes and the program ends in an exception.
ListScopes(o) ==
    /\ At(o, "list")
    /\ run' = IF realm THEN [run EXCEPT ![o].pc = @ + 1, ![o].scopeId = scope]
                       ELSE [run EXCEPT ![o] = NotRunning]
    /\ UNCHANGED <<keycloak, answersId, failures>>

AddMapper(o) ==
    /\ At(o, "mapper")
    /\ mapper' = (mapper \/ run[o].scopeId)
    /\ Advance(o)
    /\ UNCHANGED <<realm, clients, direct, scope, attached, user, answersId, failures>>

AttachScope(o) ==
    /\ At(o, "attach")
    /\ attached' = (attached \/ (run[o].scopeId /\ "frontend" \in clients))
    /\ Advance(o)
    /\ UNCHANGED <<realm, clients, direct, scope, mapper, user, answersId, failures>>

\* The realm has no password policy.
BadCreateUser(o) ==
    /\ At(o, "user")
    /\ user' = IF realm /\ user = NoUser THEN PasswordOf(run[o].program) ELSE user
    /\ Advance(o)
    /\ UNCHANGED <<realm, clients, direct, scope, mapper, attached, answersId, failures>>

\* Keycloak refuses a password against the realm's policy, and a user it has.
CreateUser(o) ==
    LET password == PasswordOf(run[o].program)
    IN  /\ At(o, "user")
        /\ user' = IF realm /\ user = NoUser /\ PolicyAccepts(password) THEN password ELSE user
        /\ Advance(o)
        /\ UNCHANGED <<realm, clients, direct, scope, mapper, attached, answersId, failures>>

\* A call is answered by another status, and only printed: the program goes
\* on.  configure-realm.sh does so except for the realm, and nobody without
\* a token.
Refused(o) ==
    /\ run[o].pc > 0 /\ ~Finished(o) /\ ~At(o, "token") /\ ~At(o, "list")
    /\ ~(At(o, "realm") /\ run[o].program = "configure_realm")
    /\ failures < MaxFailures /\ failures' = failures + 1
    /\ run' = [run EXCEPT ![o].pc = @ + 1, ![o].clean = FALSE]
    /\ UNCHANGED <<keycloak, answersId>>

\* The program ends before its end: an exception, set -e, an operator.
Stop(o) ==
    /\ run[o].pc > 0 /\ ~Finished(o)
    /\ failures < MaxFailures /\ failures' = failures + 1
    /\ run' = [run EXCEPT ![o] = NotRunning]
    /\ UNCHANGED <<keycloak, answersId>>

Next == \E o \in Operators :
    \/ \E p \in Program : Start(o, p)
    \/ ObtainToken(o) \/ CreateRealm(o) \/ CreateClient(o) \/ CreateFrontend(o)
    \/ CreateScope(o) \/ ListScopes(o) \/ AddMapper(o) \/ AttachScope(o)
    \/ CreateUser(o) \/ Refused(o) \/ Stop(o)

Spec == Init /\ [][Next]_vars
-----------------------------------------------------------------------------
Configured == realm /\ clients = Client /\ scope /\ mapper /\ attached

(* A run of setup_keycloak.py or configure_keycloak.py whose calls all     *)
(* went through leaves the realm complete, whatever was there before and   *)
(* whoever else runs a program meanwhile; the second one also leaves a     *)
(* testuser.  configure-realm.sh leaves the realm, the clients and the     *)
(* scope, and the mapper and its use only if it created the scope itself   *)
(* and was told its id (setup_keycloak.py:113-151,                         *)
(* configure_keycloak.py:113-170, configure-realm.sh:155-201).             *)
CleanRunConfigures ==
    \A o \in Operators : LET r == run[o] IN
        Finished(o) /\ r.clean =>
            /\ r.program \in PythonPrograms => Configured
            /\ r.program = "configure_keycloak" => user # NoUser
            /\ r.program = "configure_realm" =>
                 realm /\ clients = Client /\ scope /\ (r.scopeId => mapper /\ attached)

(* A token of testuser carries the claim did from one moment on, and a     *)
(* login that works goes on working: no program, interrupted, repeated or  *)
(* run beside another, takes back what is there.                           *)
NothingTakenBack ==
    [][/\ mapper /\ attached => mapper' /\ attached'
       /\ direct /\ user # NoUser => direct' /\ user' = user]_vars
=============================================================================
