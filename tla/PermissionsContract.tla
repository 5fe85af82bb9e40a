------------------------- MODULE PermissionsContract -------------------------
(***************************************************************************)
(* contracts/contracts/Permissions.sol.  One action per transaction that   *)
(* succeeds; a failed require reverts and leaves no step.  Calls of view   *)
(* functions are operators.  seen is what a reader of the contract's       *)
(* events, the audit trail of the contract, has worked out from them.      *)
(*                                                                         *)
(* Operators named Bad... are mistakes the code does not make; they show   *)
(* that the properties would notice them, and nothing else uses them.      *)
(***************************************************************************)
EXTENDS Integers

CONSTANTS
    Accounts,   \* addresses that send transactions
    Zero,       \* address(0)
    Lifetimes,  \* distances of the expirations asked for from the block's time
    MaxFiles,   \* bound on fileCounter, 2^256 in the contract
    MaxTime     \* bound on the clock

ASSUME AccountsAssumption == Zero \notin Accounts
ASSUME BoundsAssumption ==
    MaxFiles \in Nat /\ MaxTime \in Nat /\ Lifetimes \subseteq Int

VARIABLES
    timestamp,     \* block.timestamp
    fileCounter,   \* a file exists when its id is below the counter
    fileOwners,
    permissions,
    sender,        \* history: msg.sender of the last transaction
    seen           \* history: permissions as told by the events

vars == <<timestamp, fileCounter, fileOwners, permissions, sender, seen>>

NONE == 0
READ == 1
WRITE == 2
DELETE == 3
ADMIN == 4
PermissionLevel == NONE..ADMIN

FileId == 0..(MaxFiles - 1)
Address == Accounts \cup {Zero}
Permission == [level : PermissionLevel, expiresAt : Nat, isActive : BOOLEAN]

\* The value of a mapping entry nobody has written.
Unset == [level |-> NONE, expiresAt |-> 0, isActive |-> FALSE]
OwnerAdmin == [level |-> ADMIN, expiresAt |-> 0, isActive |-> TRUE]

TypeOK ==
    /\ timestamp \in Nat \ {0}
    /\ fileCounter \in 0..MaxFiles
    /\ fileOwners \in [FileId -> Address]
    /\ permissions \in [FileId -> [Address -> Permission]]
    /\ sender \in Address
    /\ seen \in [FileId -> [Address -> Permission]]

fileExists(f) == f < fileCounter

\* The expirations a transaction may ask for; the requires sort them out.
Expirations == {0} \cup {timestamp + d : d \in Lifetimes}
InFuture(e) == e = 0 \/ e > timestamp

Init ==
    /\ timestamp = 1
    /\ fileCounter = 0
    /\ fileOwners = [f \in FileId |-> Zero]
    /\ permissions = [f \in FileId |-> [a \in Address |-> Unset]]
    /\ sender = Zero
    /\ seen = permissions

By(a) == sender' = a
onlyOwner(a, f) == a = fileOwners[f]
Store(f, a, p) == permissions' = [permissions EXCEPT ![f][a] = p]
Emit(f, a, p) == seen' = [seen EXCEPT ![f][a] = p]
-----------------------------------------------------------------------------
registerFile(a) ==
    /\ fileCounter < MaxFiles
    /\ By(a)
    /\ fileOwners' = [fileOwners EXCEPT ![fileCounter] = a]
    /\ fileCounter' = fileCounter + 1
    /\ Store(fileCounter, a, OwnerAdmin)
    /\ Emit(fileCounter, a, OwnerAdmin)            \* FileRegistered
    /\ UNCHANGED timestamp

\* The time left stored in place of the instant.
BadGrant(a, f, g, l, e) ==
    /\ onlyOwner(a, f) /\ fileExists(f)
    /\ g # Zero /\ l # NONE /\ InFuture(e)
    /\ By(a)
    /\ Store(f, g, [level |-> l, expiresAt |-> e - timestamp, isActive |-> TRUE])
    /\ Emit(f, g, [level |-> l, expiresAt |-> e, isActive |-> TRUE])
    /\ UNCHANGED <<timestamp, fileCounter, fileOwners>>

grantPermission(a, f, g, l, e) ==
    /\ onlyOwner(a, f) /\ fileExists(f)
    /\ g # Zero /\ l # NONE /\ InFuture(e)
    /\ By(a)
    /\ Store(f, g, [level |-> l, expiresAt |-> e, isActive |-> TRUE])
    /\ Emit(f, g, [level |-> l, expiresAt |-> e, isActive |-> TRUE])
    /\ UNCHANGED <<timestamp, fileCounter, fileOwners>>

\* The entry stays, inactive; the event carries neither level nor expiration.
revokePermission(a, f, g) ==
    /\ onlyOwner(a, f) /\ fileExists(f)
    /\ g # a
    /\ permissions[f][g].isActive
    /\ By(a)
    /\ Store(f, g, [permissions[f][g] EXCEPT !.isActive = FALSE])
    /\ Emit(f, g, [seen[f][g] EXCEPT !.isActive = FALSE])
    /\ UNCHANGED <<timestamp, fileCounter, fileOwners>>

\* onlyOwner forgotten; and an event that leaves out the expiration.
BadModifyByAnyone(a, f, g, l, e) ==
    /\ fileExists(f)
    /\ g # Zero /\ l # NONE /\ InFuture(e)
    /\ permissions[f][g].isActive
    /\ By(a)
    /\ Store(f, g, [permissions[f][g] EXCEPT !.level = l, !.expiresAt = e])
    /\ Emit(f, g, [level |-> l, expiresAt |-> e, isActive |-> TRUE])
    /\ UNCHANGED <<timestamp, fileCounter, fileOwners>>
BadModifyEvent(a, f, g, l, e) ==
    /\ onlyOwner(a, f) /\ fileExists(f)
    /\ g # Zero /\ l # NONE /\ InFuture(e)
    /\ permissions[f][g].isActive
    /\ By(a)
    /\ Store(f, g, [permissions[f][g] EXCEPT !.level = l, !.expiresAt = e])
    /\ Emit(f, g, [seen[f][g] EXCEPT !.level = l])
    /\ UNCHANGED <<timestamp, fileCounter, fileOwners>>

\* An expired permission is still active: modifying it revives it.
modifyPermission(a, f, g, l, e) ==
    /\ onlyOwner(a, f) /\ fileExists(f)
    /\ g # Zero /\ l # NONE /\ InFuture(e)
    /\ permissions[f][g].isActive
    /\ By(a)
    /\ Store(f, g, [permissions[f][g] EXCEPT !.level = l, !.expiresAt = e])
    /\ Emit(f, g, [level |-> l, expiresAt |-> e, isActive |-> TRUE])
    /\ UNCHANGED <<timestamp, fileCounter, fileOwners>>

\* The new owner keeps the entry it had, if it is active.
BadTransfer(a, f, n) ==
    /\ onlyOwner(a, f) /\ fileExists(f)
    /\ n # Zero /\ n # a
    /\ By(a)
    /\ fileOwners' = [fileOwners EXCEPT ![f] = n]
    /\ IF permissions[f][n].isActive
         THEN UNCHANGED <<permissions, seen>>
         ELSE Store(f, n, OwnerAdmin) /\ Emit(f, n, OwnerAdmin)
    /\ UNCHANGED <<timestamp, fileCounter>>

\* The previous owner keeps the permissions it had.
transferOwnership(a, f, n) ==
    /\ onlyOwner(a, f) /\ fileExists(f)
    /\ n # Zero /\ n # a
    /\ By(a)
    /\ fileOwners' = [fileOwners EXCEPT ![f] = n]
    /\ Store(f, n, OwnerAdmin)
    /\ Emit(f, n, OwnerAdmin)                      \* OwnershipTransferred
    /\ UNCHANGED <<timestamp, fileCounter>>

\* A later block.
Mine ==
    /\ timestamp < MaxTime
    /\ timestamp' = timestamp + 1
    /\ sender' = Zero
    /\ UNCHANGED <<fileCounter, fileOwners, permissions, seen>>

Next ==
    \/ \E a \in Accounts :
         \/ registerFile(a)
         \/ \E f \in FileId, g \in Address :
              \/ \E l \in PermissionLevel, e \in Expirations :
                   grantPermission(a, f, g, l, e) \/ modifyPermission(a, f, g, l, e)
              \/ revokePermission(a, f, g)
              \/ transferOwnership(a, f, g)
    \/ Mine

Spec == Init /\ [][Next]_vars
-----------------------------------------------------------------------------
(* View functions.  The ones with fileExistsModifier revert on other files. *)

InForce(p) == p.isActive /\ ~(p.expiresAt # 0 /\ p.expiresAt <= timestamp)

\* Still valid at the second of its expiration.
BadCheckBoundary(f, u, l) ==
    /\ fileExists(f)
    /\ permissions[f][u].isActive
    /\ ~(permissions[f][u].expiresAt # 0 /\ permissions[f][u].expiresAt < timestamp)
    /\ permissions[f][u].level = ADMIN \/ permissions[f][u].level >= l

checkPermission(f, u, l) ==
    /\ fileExists(f)
    /\ permissions[f][u].isActive
    /\ ~(permissions[f][u].expiresAt # 0 /\ permissions[f][u].expiresAt <= timestamp)
    /\ permissions[f][u].level = ADMIN \/ permissions[f][u].level >= l

getPermissionLevel(f, u) ==
    IF InForce(permissions[f][u]) THEN permissions[f][u].level ELSE NONE

isOwner(f, u) == fileExists(f) /\ fileOwners[f] = u
-----------------------------------------------------------------------------
(* Properties *)

\* The strengthening both properties below need: nothing is stored for a file
\* that is not registered, and an active permission has a level.
StoredWell ==
    \A f \in FileId, u \in Address :
        /\ ~fileExists(f) => permissions[f][u] = Unset
        /\ permissions[f][u].isActive => permissions[f][u].level # NONE

\* checkPermission and getPermissionLevel, written separately, agree on every
\* level but NONE, and no permission in force is of level NONE: a caller may
\* use either, at the very second of an expiration too.
ViewsAgree ==
    \A f \in FileId, u \in Address : fileExists(f) =>
        /\ \A l \in PermissionLevel \ {NONE} :
             checkPermission(f, u, l) <=> getPermissionLevel(f, u) >= l
        /\ checkPermission(f, u, NONE) <=> getPermissionLevel(f, u) # NONE

\* Access to a file is gained only in a transaction of the account that owned
\* the file before it, or that registers it: grants, modifications (of expired
\* permissions too) and transfers give nothing to anyone else's file, and the
\* clock gives nothing at all.
AccessGainedFromOwner ==
    [][\A f \in FileId, u \in Address, l \in PermissionLevel :
         ~checkPermission(f, u, l) /\ checkPermission(f, u, l)' =>
            /\ sender' \in Accounts
            /\ sender' = fileOwners[f] \/ (f = fileCounter /\ sender' = u)]_vars

\* The events alone tell who may do what ("Evenements pour l'audit trail"):
\* replaying them gives every permission, though revocations carry no level and
\* registrations and transfers emit no PermissionGranted.
EventsTellAll == seen = permissions

\* Permissions.sol:128 refuses to let the owner revoke the ADMIN that
\* registration and transfer give it without end (:63, :186), but not to grant or
\* modify its own entry.  So the owner may lose it, and by its own transaction
\* only: whoever becomes the owner starts with it, whatever entry it had.
OwnerLosesOnlyByItself ==
    [][\A f \in FileId : f < fileCounter' =>
         \/ permissions'[f][fileOwners'[f]] = OwnerAdmin
         \/ /\ fileOwners'[f] = fileOwners[f]
            /\ permissions'[f][fileOwners[f]] # permissions[f][fileOwners[f]]
                 => sender' = fileOwners[f]]_vars
=============================================================================
