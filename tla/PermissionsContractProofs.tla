---------------------- MODULE PermissionsContractProofs ----------------------
(***************************************************************************)
(* Theorems about PermissionsContract, for every set of accounts, number   *)
(* of files and clock.                                                     *)
(***************************************************************************)
EXTENDS PermissionsContract, TLAPS

LEMMA ExpirationIsNat ==
    ASSUME TypeOK, NEW e \in Expirations, InFuture(e)
    PROVE  e \in Nat
BY BoundsAssumption DEF TypeOK, Expirations, InFuture

\* What the two kinds of step write keeps the mapping well typed.
LEMMA StoreType ==
    ASSUME NEW m \in [FileId -> [Address -> Permission]],
           NEW f \in FileId, NEW a \in Address, NEW p \in Permission
    PROVE  /\ [m EXCEPT ![f][a] = p] \in [FileId -> [Address -> Permission]]
           /\ \A g \in FileId, u \in Address :
                [m EXCEPT ![f][a] = p][g][u] = IF g = f /\ u = a THEN p ELSE m[g][u]
OBVIOUS

LEMMA EntryType ==
    ASSUME NEW p \in Permission, NEW l \in PermissionLevel, NEW e \in Nat
    PROVE  /\ [level |-> l, expiresAt |-> e, isActive |-> TRUE] \in Permission
           /\ [p EXCEPT !.isActive = FALSE] \in Permission
           /\ [p EXCEPT !.level = l, !.expiresAt = e] \in Permission
BY DEF Permission

LEMMA NoneIsLevel == NONE \in PermissionLevel
BY DEF PermissionLevel, NONE, ADMIN

LEMMA TypeInit == Init => TypeOK
BY BoundsAssumption DEF Init, TypeOK, Address, Permission, Unset, PermissionLevel, NONE, ADMIN

LEMMA NewFileIsFileId ==
    ASSUME TypeOK, fileCounter < MaxFiles
    PROVE  fileCounter \in FileId /\ fileCounter + 1 \in 0..MaxFiles
BY BoundsAssumption DEF TypeOK, FileId

LEMMA OwnerAdminType == OwnerAdmin \in Permission
BY DEF OwnerAdmin, Permission, PermissionLevel, NONE, ADMIN

LEMMA TypeNext == TypeOK /\ [Next]_vars => TypeOK'
<1> SUFFICES ASSUME TypeOK, [Next]_vars PROVE TypeOK'
  OBVIOUS
<1>1. ASSUME NEW a \in Accounts, registerFile(a)
      PROVE  TypeOK'
  <2>1. fileCounter \in FileId /\ fileCounter + 1 \in 0..MaxFiles /\ a \in Address
    BY <1>1, NewFileIsFileId DEF registerFile, Address
  <2>2. permissions' \in [FileId -> [Address -> Permission]]
    BY <1>1, <2>1, OwnerAdminType, StoreType DEF registerFile, Store, TypeOK
  <2>3. seen' \in [FileId -> [Address -> Permission]]
    BY <1>1, <2>1, OwnerAdminType, StoreType DEF registerFile, Emit, TypeOK
  <2>4. QED
    BY <1>1, <2>1, <2>2, <2>3 DEF registerFile, By, TypeOK
<1>2. ASSUME NEW a \in Accounts, NEW f \in FileId, NEW g \in Address,
             NEW l \in PermissionLevel, NEW e \in Expirations,
             grantPermission(a, f, g, l, e)
      PROVE  TypeOK'
  <2>1. [level |-> l, expiresAt |-> e, isActive |-> TRUE] \in Permission
    BY <1>2, ExpirationIsNat, EntryType, permissions[f][g] \in Permission
       DEF grantPermission, TypeOK
  <2>2. permissions' \in [FileId -> [Address -> Permission]]
    BY <1>2, <2>1, StoreType DEF grantPermission, Store, TypeOK
  <2>3. seen' \in [FileId -> [Address -> Permission]]
    BY <1>2, <2>1, StoreType DEF grantPermission, Emit, TypeOK
  <2>4. QED
    BY <1>2, <2>2, <2>3 DEF grantPermission, By, TypeOK, Address
<1>3. ASSUME NEW a \in Accounts, NEW f \in FileId, NEW g \in Address,
             NEW l \in PermissionLevel, NEW e \in Expirations,
             modifyPermission(a, f, g, l, e)
      PROVE  TypeOK'
  <2>1. [level |-> l, expiresAt |-> e, isActive |-> TRUE] \in Permission
    BY <1>3, ExpirationIsNat, EntryType, permissions[f][g] \in Permission
       DEF modifyPermission, TypeOK
  <2>2. [permissions[f][g] EXCEPT !.level = l, !.expiresAt = e] \in Permission
    BY <1>3, ExpirationIsNat, EntryType, permissions[f][g] \in Permission
       DEF modifyPermission, TypeOK
  <2>3. permissions' \in [FileId -> [Address -> Permission]]
    BY <1>3, <2>2, StoreType DEF modifyPermission, Store, TypeOK
  <2>4. seen' \in [FileId -> [Address -> Permission]]
    BY <1>3, <2>1, StoreType DEF modifyPermission, Emit, TypeOK
  <2>5. QED
    BY <1>3, <2>3, <2>4 DEF modifyPermission, By, TypeOK, Address
<1>4. ASSUME NEW a \in Accounts, NEW f \in FileId, NEW g \in Address,
             revokePermission(a, f, g)
      PROVE  TypeOK'
  <2>1. /\ [permissions[f][g] EXCEPT !.isActive = FALSE] \in Permission
        /\ [seen[f][g] EXCEPT !.isActive = FALSE] \in Permission
    BY EntryType, permissions[f][g] \in Permission, seen[f][g] \in Permission,
       NoneIsLevel
       DEF TypeOK
  <2>2. permissions' \in [FileId -> [Address -> Permission]]
    BY <1>4, <2>1, StoreType DEF revokePermission, Store, TypeOK
  <2>3. seen' \in [FileId -> [Address -> Permission]]
    BY <1>4, <2>1, StoreType DEF revokePermission, Emit, TypeOK
  <2>4. QED
    BY <1>4, <2>2, <2>3 DEF revokePermission, By, TypeOK, Address
<1>5. ASSUME NEW a \in Accounts, NEW f \in FileId, NEW n \in Address,
             transferOwnership(a, f, n)
      PROVE  TypeOK'
  <2>1. permissions' \in [FileId -> [Address -> Permission]]
    BY <1>5, OwnerAdminType, StoreType DEF transferOwnership, Store, TypeOK
  <2>2. seen' \in [FileId -> [Address -> Permission]]
    BY <1>5, OwnerAdminType, StoreType DEF transferOwnership, Emit, TypeOK
  <2>3. QED
    BY <1>5, <2>1, <2>2 DEF transferOwnership, By, TypeOK, Address
<1>6. CASE Mine
  <2>1. timestamp' \in Nat \ {0} /\ sender' \in Address
    BY <1>6 DEF Mine, TypeOK, Address
  <2>2. QED
    BY <1>6, <2>1 DEF Mine, TypeOK
<1>7. CASE UNCHANGED vars
  BY <1>7 DEF vars, TypeOK
<1>8. QED
  BY <1>1, <1>2, <1>3, <1>4, <1>5, <1>6, <1>7 DEF Next

\* Every reachable state is well formed.
THEOREM TypeCorrect == Spec => []TypeOK
BY TypeInit, TypeNext, PTL DEF Spec
-----------------------------------------------------------------------------
(* What every step does to one entry *)

\* An entry that differs after a step is of a registered file, or of the one the
\* step registers, and was written by the account that owns the file then.
LEMMA EntryStep ==
    ASSUME TypeOK, [Next]_vars, NEW f \in FileId, NEW u \in Address
    PROVE  \/ permissions'[f][u] = permissions[f][u]
           \/ /\ f = fileCounter /\ u = sender' /\ u \in Accounts
              /\ fileCounter' = fileCounter + 1
              /\ permissions'[f][u] = OwnerAdmin
           \/ /\ fileExists(f)
              /\ sender' \in Accounts /\ sender' = fileOwners[f]
              /\ fileCounter' = fileCounter
              /\ permissions'[f][u].isActive =>
                   permissions'[f][u].level # NONE
<1> DEFINE Goal ==
           \/ permissions'[f][u] = permissions[f][u]
           \/ /\ f = fileCounter /\ u = sender' /\ u \in Accounts
              /\ fileCounter' = fileCounter + 1
              /\ permissions'[f][u] = OwnerAdmin
           \/ /\ fileExists(f)
              /\ sender' \in Accounts /\ sender' = fileOwners[f]
              /\ fileCounter' = fileCounter
              /\ permissions'[f][u].isActive =>
                   permissions'[f][u].level # NONE
<1>1. ASSUME NEW a \in Accounts, registerFile(a)
      PROVE  Goal
  BY <1>1, NewFileIsFileId, OwnerAdminType, StoreType
     DEF registerFile, Store, By, TypeOK, Address
<1>2. ASSUME NEW a \in Accounts, NEW g \in FileId, NEW v \in Address, NEW p \in Permission,
             onlyOwner(a, g), fileExists(g), By(a), Store(g, v, p),
             fileCounter' = fileCounter, p.isActive => p.level # NONE
      PROVE  Goal
  <2>1. permissions'[f][u] = IF f = g /\ u = v THEN p ELSE permissions[f][u]
    BY <1>2, StoreType DEF Store, TypeOK
  <2>2. QED
    BY <1>2, <2>1 DEF onlyOwner, By
<1>3. ASSUME NEW a \in Accounts, NEW g \in FileId, NEW v \in Address,
             NEW l \in PermissionLevel, NEW e \in Expirations,
             grantPermission(a, g, v, l, e)
      PROVE  Goal
  <2>1. [level |-> l, expiresAt |-> e, isActive |-> TRUE] \in Permission
    BY <1>3, ExpirationIsNat DEF grantPermission, Permission
  <2>2. QED
    BY <1>2, <1>3, <2>1 DEF grantPermission
<1>4. ASSUME NEW a \in Accounts, NEW g \in FileId, NEW v \in Address,
             NEW l \in PermissionLevel, NEW e \in Expirations,
             modifyPermission(a, g, v, l, e)
      PROVE  Goal
  <2> DEFINE p == [permissions[g][v] EXCEPT !.level = l, !.expiresAt = e]
  <2>1. permissions[g][v] \in Permission /\ e \in Nat
    BY <1>4, ExpirationIsNat DEF modifyPermission, TypeOK
  <2>2. p \in Permission
    BY <2>1, EntryType
  <2>3. p.level = l
    BY <2>1 DEF Permission
  <2>4. QED
    BY <1>2, <1>4, <2>2, <2>3 DEF modifyPermission
<1>5. ASSUME NEW a \in Accounts, NEW g \in FileId, NEW v \in Address,
             revokePermission(a, g, v)
      PROVE  Goal
  <2> DEFINE p == [permissions[g][v] EXCEPT !.isActive = FALSE]
  <2>1. permissions[g][v] \in Permission
    BY DEF TypeOK
  <2>2. p \in Permission /\ ~p.isActive
    BY <2>1 DEF Permission
  <2>3. QED
    BY <1>2, <1>5, <2>2 DEF revokePermission
<1>6. ASSUME NEW a \in Accounts, NEW g \in FileId, NEW n \in Address,
             transferOwnership(a, g, n)
      PROVE  Goal
  <2>1. OwnerAdmin.level # NONE
    BY DEF OwnerAdmin, ADMIN, NONE
  <2>2. QED
    BY <1>2, <1>6, <2>1, OwnerAdminType DEF transferOwnership
<1>7. CASE permissions' = permissions
  BY <1>7
<1>8. QED
  BY <1>1, <1>3, <1>4, <1>5, <1>6, <1>7 DEF Next, Mine, vars

\* Neither the file counter nor the clock goes back.
LEMMA CounterStep ==
    ASSUME TypeOK, [Next]_vars
    PROVE  fileCounter <= fileCounter' /\ timestamp <= timestamp'
<1>1. CASE fileCounter' = fileCounter /\ timestamp' = timestamp
  BY <1>1 DEF TypeOK
<1>2. ASSUME NEW a \in Accounts, registerFile(a)
      PROVE  fileCounter <= fileCounter' /\ timestamp <= timestamp'
  BY <1>2 DEF registerFile, TypeOK
<1>3. CASE Mine
  <2>1. timestamp \in Nat /\ fileCounter \in Int
    BY DEF TypeOK
  <2>2. timestamp' = timestamp + 1 /\ fileCounter' = fileCounter
    BY <1>3 DEF Mine
  <2>3. QED
    BY <2>1, <2>2
<1>4. ASSUME NEW a \in Accounts, NEW f \in FileId, NEW g \in Address,
             \/ \E l \in PermissionLevel, e \in Expirations :
                  grantPermission(a, f, g, l, e) \/ modifyPermission(a, f, g, l, e)
             \/ revokePermission(a, f, g)
             \/ transferOwnership(a, f, g)
      PROVE  fileCounter' = fileCounter /\ timestamp' = timestamp
  BY <1>4 DEF grantPermission, modifyPermission, revokePermission, transferOwnership
<1>5. CASE UNCHANGED vars
  BY <1>1, <1>5 DEF vars
<1>6. QED
  BY <1>1, <1>2, <1>3, <1>4, <1>5 DEF Next

LEMMA StoredWellInit == Init => StoredWell
BY DEF Init, StoredWell, Unset

LEMMA StoredWellNext ==
    ASSUME TypeOK, StoredWell, [Next]_vars
    PROVE  StoredWell'
<1> SUFFICES ASSUME NEW f \in FileId, NEW u \in Address
             PROVE  /\ ~(f < fileCounter') => permissions'[f][u] = Unset
                    /\ permissions'[f][u].isActive => permissions'[f][u].level # NONE
  BY DEF StoredWell, fileExists
<1>1. CASE permissions'[f][u] = permissions[f][u]
  <2>1. f < fileCounter => f < fileCounter'
    BY CounterStep, TypeNext DEF TypeOK, FileId
  <2>2. QED
    BY <1>1, <2>1 DEF StoredWell, fileExists
<1>2. CASE f = fileCounter /\ fileCounter' = fileCounter + 1 /\ permissions'[f][u] = OwnerAdmin
  BY <1>2 DEF OwnerAdmin, ADMIN, NONE, TypeOK
<1>3. CASE /\ fileExists(f) /\ fileCounter' = fileCounter
           /\ permissions'[f][u].isActive => permissions'[f][u].level # NONE
  BY <1>3 DEF fileExists
<1>4. QED
  BY <1>1, <1>2, <1>3, EntryStep

\* Permissions are stored for registered files only, and no active permission
\* is of level NONE.
THEOREM PermissionsStoredWell == Spec => []StoredWell
<1>1. TypeOK /\ StoredWell /\ [Next]_vars => (TypeOK /\ StoredWell)'
  BY TypeNext, StoredWellNext
<1>2. QED
  BY <1>1, TypeInit, StoredWellInit, PTL DEF Spec
-----------------------------------------------------------------------------
LEMMA ViewsAgreeHere ==
    ASSUME TypeOK, StoredWell
    PROVE  ViewsAgree
<1> SUFFICES ASSUME NEW f \in FileId, NEW u \in Address, fileExists(f)
             PROVE  /\ \A l \in PermissionLevel \ {NONE} :
                         checkPermission(f, u, l) <=> getPermissionLevel(f, u) >= l
                    /\ checkPermission(f, u, NONE) <=> getPermissionLevel(f, u) # NONE
  BY DEF ViewsAgree
<1> DEFINE p == permissions[f][u]
<1>1. p \in Permission /\ (p.isActive => p.level # NONE)
  BY DEF TypeOK, StoredWell
<1>2. CASE InForce(p)
  <2>1. getPermissionLevel(f, u) = p.level /\ p.level \in 1..4
    BY <1>1, <1>2 DEF getPermissionLevel, InForce, Permission, PermissionLevel, NONE, ADMIN
  <2>2. \A l \in PermissionLevel : checkPermission(f, u, l) <=> p.level >= l
    BY <1>2, <2>1 DEF checkPermission, InForce, PermissionLevel, NONE, ADMIN
  <2>3. QED
    BY <2>1, <2>2 DEF PermissionLevel, NONE, ADMIN
<1>3. CASE ~InForce(p)
  <2>1. getPermissionLevel(f, u) = NONE
    BY <1>3 DEF getPermissionLevel
  <2>2. \A l \in PermissionLevel : ~checkPermission(f, u, l)
    BY <1>3 DEF checkPermission, InForce
  <2>3. QED
    BY <2>1, <2>2 DEF PermissionLevel, NONE, ADMIN
<1>4. QED
  BY <1>2, <1>3

\* checkPermission and getPermissionLevel never disagree.
THEOREM ViewsAlwaysAgree == Spec => []ViewsAgree
<1>1. TypeOK /\ StoredWell => ViewsAgree
  BY ViewsAgreeHere
<1>2. QED
  BY <1>1, TypeCorrect, PermissionsStoredWell, PTL

LEMMA GainedStep ==
    ASSUME TypeOK, StoredWell, [Next]_vars, NEW f \in FileId, NEW u \in Address,
           NEW l \in PermissionLevel, ~checkPermission(f, u, l), checkPermission(f, u, l)'
    PROVE  sender' \in Accounts /\ (sender' = fileOwners[f] \/ (f = fileCounter /\ sender' = u))
<1>1. CASE permissions'[f][u] = permissions[f][u]
  <2>1. permissions[f][u].isActive /\ fileExists(f)
    BY <1>1 DEF checkPermission, StoredWell, Unset
  <2>2. permissions[f][u].expiresAt \in Nat
    BY DEF TypeOK, Permission
  <2>3. timestamp <= timestamp'
    BY CounterStep
  <2>4. QED
    BY <1>1, <2>1, <2>2, <2>3, TypeNext DEF checkPermission, TypeOK
<1>2. CASE permissions'[f][u] # permissions[f][u]
  BY <1>2, EntryStep
<1>3. QED
  BY <1>1, <1>2

\* Access is gained only from the owner of the file.
THEOREM GainedFromOwner == Spec => AccessGainedFromOwner
<1> DEFINE Gain == \A f \in FileId, u \in Address, l \in PermissionLevel :
         ~checkPermission(f, u, l) /\ checkPermission(f, u, l)' =>
            /\ sender' \in Accounts
            /\ sender' = fileOwners[f] \/ (f = fileCounter /\ sender' = u)
<1>1. TypeOK /\ StoredWell /\ [Next]_vars => [Gain]_vars
  BY GainedStep
<1>2. QED
  BY <1>1, TypeCorrect, PermissionsStoredWell, PTL DEF Spec, AccessGainedFromOwner
-----------------------------------------------------------------------------
\* What the PermissionChanged event says of an active entry is the entry stored.
LEMMA ActiveEntry ==
    ASSUME NEW p \in Permission, p.isActive, NEW l \in PermissionLevel, NEW e \in Nat
    PROVE  [p EXCEPT !.level = l, !.expiresAt = e]
             = [level |-> l, expiresAt |-> e, isActive |-> TRUE]
<1> DEFINE q == [p EXCEPT !.level = l, !.expiresAt = e]
<1>1. q \in Permission
  BY EntryType
<1>2. q.level = l /\ q.expiresAt = e /\ q.isActive = p.isActive
  BY DEF Permission
<1>3. p.isActive = TRUE
  BY DEF Permission
<1> HIDE DEF q
<1>4. q = [level |-> q.level, expiresAt |-> q.expiresAt, isActive |-> q.isActive]
  BY <1>1 DEF Permission
<1>5. q = [level |-> l, expiresAt |-> e, isActive |-> TRUE]
  BY <1>2, <1>3, <1>4
<1>6. QED
  BY <1>5 DEF q

LEMMA EventsNext ==
    ASSUME TypeOK, EventsTellAll, [Next]_vars
    PROVE  EventsTellAll'
<1>1. ASSUME NEW f \in Int, NEW u, NEW p, Store(f, u, p), Emit(f, u, p)
      PROVE  EventsTellAll'
  BY <1>1 DEF Store, Emit, EventsTellAll
<1>2. ASSUME NEW a \in Accounts, registerFile(a)
      PROVE  EventsTellAll'
  BY <1>1, <1>2 DEF registerFile, TypeOK
<1>3. ASSUME NEW a \in Accounts, NEW f \in FileId, NEW g \in Address,
             NEW l \in PermissionLevel, NEW e \in Expirations,
             grantPermission(a, f, g, l, e)
      PROVE  EventsTellAll'
  BY <1>1, <1>3 DEF grantPermission, FileId
<1>4. ASSUME NEW a \in Accounts, NEW f \in FileId, NEW g \in Address,
             NEW l \in PermissionLevel, NEW e \in Expirations,
             modifyPermission(a, f, g, l, e)
      PROVE  EventsTellAll'
  <2>1. permissions[f][g] \in Permission /\ permissions[f][g].isActive
    BY <1>4 DEF modifyPermission, TypeOK
  <2>2. [permissions[f][g] EXCEPT !.level = l, !.expiresAt = e]
          = [level |-> l, expiresAt |-> e, isActive |-> TRUE]
    BY <1>4, <2>1, ActiveEntry, ExpirationIsNat DEF modifyPermission
  <2>3. QED
    BY <1>1, <1>4, <2>2 DEF modifyPermission, FileId
<1>5. ASSUME NEW a \in Accounts, NEW f \in FileId, NEW g \in Address,
             revokePermission(a, f, g)
      PROVE  EventsTellAll'
  BY <1>1, <1>5 DEF revokePermission, FileId, EventsTellAll
<1>6. ASSUME NEW a \in Accounts, NEW f \in FileId, NEW n \in Address,
             transferOwnership(a, f, n)
      PROVE  EventsTellAll'
  BY <1>1, <1>6 DEF transferOwnership, FileId
<1>7. CASE Mine \/ UNCHANGED vars
  BY <1>7 DEF Mine, vars, EventsTellAll
<1>8. QED
  BY <1>2, <1>3, <1>4, <1>5, <1>6, <1>7 DEF Next

\* Whoever follows the events knows every permission.
THEOREM EventsAlwaysTellAll == Spec => []EventsTellAll
<1>1. Init => EventsTellAll
  BY DEF Init, EventsTellAll
<1>2. TypeOK /\ EventsTellAll /\ [Next]_vars => (TypeOK /\ EventsTellAll)'
  BY TypeNext, EventsNext
<1>3. QED
  BY <1>1, <1>2, TypeInit, PTL DEF Spec
-----------------------------------------------------------------------------
\* A file that exists either has a new owner, who starts as OwnerAdmin, or the
\* owner it had, whose entry only the owner has written.
LEMMA OwnerStep ==
    ASSUME TypeOK, [Next]_vars, NEW f \in FileId, f < fileCounter'
    PROVE  \/ permissions'[f][fileOwners'[f]] = OwnerAdmin
           \/ /\ fileOwners'[f] = fileOwners[f]
              /\ permissions'[f][fileOwners[f]] # permissions[f][fileOwners[f]]
                   => sender' = fileOwners[f]
<1> DEFINE Goal ==
           \/ permissions'[f][fileOwners'[f]] = OwnerAdmin
           \/ /\ fileOwners'[f] = fileOwners[f]
              /\ permissions'[f][fileOwners[f]] # permissions[f][fileOwners[f]]
                   => sender' = fileOwners[f]
<1>0. fileOwners[f] \in Address /\ fileCounter \in Int
  BY DEF TypeOK
<1>1. ASSUME NEW a \in Address, NEW g \in FileId, Store(g, a, OwnerAdmin),
             fileOwners' = [fileOwners EXCEPT ![g] = a]
      PROVE  Goal
  <2>1. fileOwners'[f] = IF f = g THEN a ELSE fileOwners[f]
    BY <1>1 DEF TypeOK
  <2>2. \A u \in Address :
          permissions'[f][u] = IF f = g /\ u = a THEN OwnerAdmin ELSE permissions[f][u]
    BY <1>1, OwnerAdminType, StoreType DEF Store, TypeOK
  <2>3. QED
    BY <1>0, <2>1, <2>2
<1>2. CASE fileOwners' = fileOwners /\ fileCounter' = fileCounter
  <2>1. fileCounter' # fileCounter + 1
    BY <1>0, <1>2
  <2>2. QED
    BY <1>0, <1>2, <2>1, EntryStep
<1>3. ASSUME NEW a \in Accounts, registerFile(a)
      PROVE  Goal
  BY <1>1, <1>3, NewFileIsFileId DEF registerFile, Address
<1>4. ASSUME NEW a \in Accounts, NEW g \in FileId, NEW n \in Address,
             transferOwnership(a, g, n)
      PROVE  Goal
  BY <1>1, <1>4 DEF transferOwnership
<1>5. ASSUME NEW a \in Accounts, NEW g \in FileId, NEW v \in Address,
             \/ \E l \in PermissionLevel, e \in Expirations :
                  grantPermission(a, g, v, l, e) \/ modifyPermission(a, g, v, l, e)
             \/ revokePermission(a, g, v)
      PROVE  fileOwners' = fileOwners /\ fileCounter' = fileCounter
  BY <1>5 DEF grantPermission, modifyPermission, revokePermission
<1>6. CASE Mine \/ UNCHANGED vars
  BY <1>2, <1>6 DEF Mine, vars
<1>7. QED
  BY <1>2, <1>3, <1>4, <1>5, <1>6 DEF Next

\* The owner's own entry is at its owner's mercy alone.
THEOREM OwnerOwnsItsEntry == Spec => OwnerLosesOnlyByItself
<1> DEFINE Kept == \A f \in FileId : f < fileCounter' =>
         \/ permissions'[f][fileOwners'[f]] = OwnerAdmin
         \/ /\ fileOwners'[f] = fileOwners[f]
            /\ permissions'[f][fileOwners[f]] # permissions[f][fileOwners[f]]
                 => sender' = fileOwners[f]
<1>1. TypeOK /\ [Next]_vars => [Kept]_vars
  BY OwnerStep
<1>2. QED
  BY <1>1, TypeCorrect, PTL DEF Spec, OwnerLosesOnlyByItself
-----------------------------------------------------------------------------
\* Access is lost only in a transaction of the file's owner, or at the second the
\* permission expires; transfers leave the former owner what it has.
AccessLostToOwnerOrClock ==
    [][\A f \in FileId, u \in Address, l \in PermissionLevel :
         checkPermission(f, u, l) /\ ~checkPermission(f, u, l)' =>
            \/ sender' \in Accounts /\ sender' = fileOwners[f]
            \/ /\ permissions[f][u].expiresAt # 0
               /\ timestamp < permissions[f][u].expiresAt
               /\ permissions[f][u].expiresAt <= timestamp']_vars

LEMMA LostStep ==
    ASSUME TypeOK, [Next]_vars, NEW f \in FileId, NEW u \in Address,
           NEW l \in PermissionLevel, checkPermission(f, u, l), ~checkPermission(f, u, l)'
    PROVE  \/ sender' \in Accounts /\ sender' = fileOwners[f]
           \/ /\ permissions[f][u].expiresAt # 0
              /\ timestamp < permissions[f][u].expiresAt
              /\ permissions[f][u].expiresAt <= timestamp'
<1>0. /\ f \in Int /\ fileCounter \in Int /\ fileCounter' \in Int /\ f < fileCounter
      /\ fileCounter <= fileCounter' /\ permissions[f][u].expiresAt \in Nat /\ timestamp \in Nat
  BY CounterStep, TypeNext DEF checkPermission, fileExists, TypeOK, FileId, Permission
<1>1. CASE permissions'[f][u] = permissions[f][u]
  <2>1. f < fileCounter'
    BY <1>0
  <2>2. permissions[f][u].expiresAt # 0 /\ permissions[f][u].expiresAt <= timestamp'
    BY <1>1, <2>1 DEF checkPermission, fileExists
  <2>3. timestamp < permissions[f][u].expiresAt
    BY <1>0, <2>2 DEF checkPermission
  <2>4. QED
    BY <2>2, <2>3
<1>2. CASE permissions'[f][u] # permissions[f][u]
  <2>1. f # fileCounter
    BY <1>0
  <2>2. QED
    BY <1>2, <2>1, EntryStep
<1>3. QED
  BY <1>1, <1>2

\* Nobody but the owner of a file, and the clock, takes access to it away.
THEOREM LostToOwnerOrClock == Spec => AccessLostToOwnerOrClock
<1> DEFINE Loss == \A f \in FileId, u \in Address, l \in PermissionLevel :
         checkPermission(f, u, l) /\ ~checkPermission(f, u, l)' =>
            \/ sender' \in Accounts /\ sender' = fileOwners[f]
            \/ /\ permissions[f][u].expiresAt # 0
               /\ timestamp < permissions[f][u].expiresAt
               /\ permissions[f][u].expiresAt <= timestamp'
<1>1. TypeOK /\ [Next]_vars => [Loss]_vars
  BY LostStep
<1>2. QED
  BY <1>1, TypeCorrect, PTL DEF Spec, AccessLostToOwnerOrClock
=============================================================================
