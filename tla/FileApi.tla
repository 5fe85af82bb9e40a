------------------------------- MODULE FileApi -------------------------------
(***************************************************************************)
(* The routes of backend/app/api/files.py and permissions.py: who may do   *)
(* what to a file, composed with what is then done to it (FileStore) and   *)
(* with what check_permission promises (AccessControl, which               *)
(* PermissionManager implements).                                          *)
(*                                                                         *)
(* A step here is a step of FileStore, a change of the permission rows, or *)
(* both.  The steps of FileStore that ask for no right are taken as they   *)
(* are.  Owner says who uploads the file that gets an identifier: the row  *)
(* keeps it and no route changes it.                                       *)
(***************************************************************************)
EXTENDS FileStore, Integers

CONSTANTS
    Users,
    Callers,     \* users whose requests arrive: core/security.py knows one
    Owner,       \* the user who uploads a file
    PermIds, GrantLevels, Durations,
    Lag,         \* AccessControl's bound on the age of an answer
    Stay,        \* bound on the time between an answer and the use made of it
    MaxTime      \* bound on the clock

ASSUME OwnerAssumption == Owner \in [FileIds -> Users] /\ Callers \subseteq Users

VARIABLES
    now,
    perms,       \* rows of the permissions table
    ask          \* until it is used: who the request of each worker is for, how
                 \* often its right was checked, and when last

apiVars == <<vars, now, perms, ask>>

Access == INSTANCE AccessControl WITH
    Clients <- {}, Keys <- FileIds \X Users, rows <- perms, answers <- << >>

ASSUME LevelsAssumption == GrantLevels \subseteq Access!Levels
ASSUME BoundsAssumption ==
    Lag \in Nat \ {0} /\ Stay \in Nat /\ MaxTime \in Nat \ {0} /\ Durations \subseteq Int

NoOne == [checks |-> 0]

ApiTypeOK ==
    /\ TypeOK
    /\ now \in 1..MaxTime
    /\ DOMAIN perms \subseteq PermIds
    /\ \A p \in DOMAIN perms : perms[p].key \in FileIds \X Users
    /\ ask \in [Workers -> {NoOne} \cup [checks : {1, 2}, user : Callers, at : 1..MaxTime]]

ApiInit == Init /\ now = 1 /\ perms = << >> /\ ask = [w \in Workers |-> NoOne]

\* check_permission may answer allowed to u now.
MayAnswer(u, f, level, allowed) == Access!MayAnswer(<<f, u>>, level, allowed)

Asked(w, u, n) == ask' = [ask EXCEPT ![w] = [checks |-> n, user |-> u, at |-> now]]
Quiet == UNCHANGED <<now, perms>>

\* What was answered is used up, or the request has ended.
Spend(w) == ask' = [ask EXCEPT ![w] = NoOne]
-----------------------------------------------------------------------------
(* files.py *)

\* upload_file asks for no right: whoever calls owns the file.
Upload(w, f) == Owner[f] \in Callers /\ BeginUpload(w, f) /\ Quiet /\ UNCHANGED ask

\* download_file: the row, then the level read.  Being the owner is no reason.
\* Both are one step: of a row deleted in between, the answer is what it was and
\* the proxy looks again.
Download(w, u, f) ==
    /\ BeginDownload(w, f)
    /\ MayAnswer(u, f, "read", TRUE)
    /\ Asked(w, u, 1)
    /\ Quiet

\* The second answer is taken to be the first one.
BadCheckAgain(w) ==
    /\ ask[w].checks = 1
    /\ At(w, "fetch") /\ Asked(w, ask[w].user, 2)
    /\ UNCHANGED <<stores, history, job>>
    /\ Quiet

\* download_encrypted_file asks again, then looks the row up again; a deletion
\* between the two is one before both, or else Fetch finds no object.
CheckAgain(w) ==
    /\ ask[w].checks = 1
    /\ \/ /\ At(w, "fetch")
          /\ MayAnswer(ask[w].user, job[w].file, "read", TRUE)
          /\ job[w].file \in rows
          /\ Asked(w, ask[w].user, 2)
          /\ UNCHANGED <<stores, history, job>>
       \/ /\ Refuse(w)
          /\ MayAnswer(ask[w].user, job[w].file, "read", FALSE) \/ job[w].file \notin rows
          /\ Spend(w)
    /\ Quiet

FetchChecked(w) == ask[w].checks = 2 /\ Fetch(w) /\ Spend(w) /\ Quiet

\* delete_file: the level delete, or else the owner.
Delete(w, u, f) ==
    /\ BeginDelete(w, f)
    /\ MayAnswer(u, f, "delete", TRUE) \/ Owner[f] = u
    /\ Asked(w, u, 1)
    /\ Quiet

\* The file goes, and its permissions stay.
BadDeleteShared(w) == DeleteRow(w) /\ Spend(w) /\ Quiet

\* The permissions of the file go with its row.
DeleteShared(w) ==
    /\ DeleteRow(w)
    /\ IF job[w].file \in rows \ rows'
         THEN Access!Withdraw({p \in DOMAIN perms : perms[p].key[1] = job[w].file})
         ELSE Quiet
    /\ Spend(w)

\* The steps that ask for no right.
Continue(w) ==
    /\ \/ PutObject(w) \/ StoreKey(w) \/ Cleanup(w) \/ InsertRow(w)
       \/ AuditUpload(w) \/ Reply(w)
       \/ DeleteObject(w) \/ DeleteKey(w) \/ AuditDelete(w)
       \/ AuditDownload(w) \/ Abort(w)
    /\ Spend(w)
    /\ Quiet

\* list_files: the caller's own files, and those an active row gives at least
\* something on.  The table is read, not the cache.
BadListed(u) ==
    {f \in rows : \/ Owner[f] = u
                  \/ \E p \in DOMAIN perms : /\ perms[p].key = <<f, u>>
                                             /\ Access!NotExpired(perms[p], now)}
Listed(u) ==
    {f \in rows : \/ Owner[f] = u
                  \/ \E p \in DOMAIN perms : /\ perms[p].key = <<f, u>>
                                             /\ perms[p].revokedAt = Access!Never
                                             /\ Access!NotExpired(perms[p], now)}
-----------------------------------------------------------------------------
(* permissions.py *)

Free == \E w \in Workers : job[w] = Idle

\* grant_permission: the owner, of a file that exists, to any user; also to
\* itself.  PermissionManager has the steps of the handler after the commit.
Grant(u, f, g, l, d, p) ==
    /\ Free
    /\ Owner[f] = u
    /\ Share(f) /\ Access!Grant(<<f, g>>, l, d, p)
    /\ UNCHANGED ask

\* revoke_permission: the owner of the file the row names.  A revoked row
\* still refers to the file.
Revoke(u, p) ==
    /\ Free
    /\ p \in DOMAIN perms /\ perms[p].key[1] \in rows
    /\ Owner[perms[p].key[1]] = u
    /\ Access!Withdraw({p})
    /\ UNCHANGED <<stores, history, job, ask>>

\* get_file_permissions: what u sees of f, revoked rows included.  Nobody but
\* the owner sees any.
FilePermissions(u, f) ==
    {p \in DOMAIN perms : f \in rows /\ Owner[f] = u /\ perms[p].key[1] = f}
-----------------------------------------------------------------------------
\* The next step of w uses what it was answered.
Allowed(w) == At(w, "deleteObject") \/ (At(w, "fetch") /\ ask[w].checks = 2)

\* No worker stays longer than Stay between an answer and its use.
Tick ==
    /\ now < MaxTime /\ \A w \in Workers : Allowed(w) => now < ask[w].at + Stay
    /\ Access!Tick
    /\ UNCHANGED <<stores, history, job, ask>>

ApiNext ==
    /\ \/ \E w \in Workers :
            \/ \E f \in FileIds : Upload(w, f)
            \/ \E u \in Callers, f \in FileIds : Download(w, u, f) \/ Delete(w, u, f)
            \/ CheckAgain(w) \/ FetchChecked(w) \/ DeleteShared(w) \/ Continue(w)
       \/ \E u \in Callers, p \in PermIds :
            \/ \E f \in FileIds, g \in Users, l \in GrantLevels, d \in Durations :
                 Grant(u, f, g, l, d, p)
            \/ Revoke(u, p)
       \/ Tick
    /\ UNCHANGED site

ApiSpec == ApiInit /\ [][ApiNext]_apiVars
-----------------------------------------------------------------------------
(* Properties *)

\* User u holds level n of f, or held it less than d ago.
Held(u, f, n, d) ==
    \E p \in DOMAIN perms :
        /\ perms[p].key = <<f, u>>
        /\ Access!LEVEL_HIERARCHY[perms[p].level] >= Access!LEVEL_HIERARCHY[n]
        /\ perms[p].revokedAt = Access!Never \/ now < perms[p].revokedAt + d
        /\ perms[p].expires = Access!Never \/ now < perms[p].expires + d

\* Content is fetched only for who holds, when it is fetched, a right to read that
\* very file, or lost it less than Lag + Stay ago; it is removed only for the owner
\* or for who so holds a right to delete.  A right revoked, expired or gone with
\* its file between a check and the use buys no more than that, however long the
\* request rested between its two checks.
ActsByRight ==
    [][\A w \in Workers :
         /\ At(w, "fetch") /\ job'[w].pc = "auditDownload" =>
              Held(ask[w].user, job[w].file, "read", Lag + Stay)
         /\ At(w, "deleteObject") /\ job'[w] # job[w] =>
              \/ Owner[job[w].file] = ask[w].user
              \/ Held(ask[w].user, job[w].file, "delete", Lag + Stay)]_apiVars

\* No right escapes the owner: every row that is not revoked is of a file that
\* exists, so get_file_permissions shows it and revoke_permission reaches it; a
\* right does not outlive the file.
RightsStayVisible ==
    \A p \in DOMAIN perms : perms[p].revokedAt = Access!Never =>
        LET f == perms[p].key[1] IN p \in FilePermissions(Owner[f], f) /\ f \in shared

\* u has had some row of f in force for Lag at least.
LongShared(u, f) ==
    \E p \in DOMAIN perms :
        /\ perms[p].key = <<f, u>> /\ perms[p].grantedAt + Lag <= now
        /\ perms[p].revokedAt = Access!Never /\ Access!NotExpired(perms[p], now)

\* Listing reads the table and download reads the cache; they disagree for Lag at
\* most.  What list_files shows as shared download may allow, and it cannot refuse
\* it once the share is Lag old; what download cannot refuse list_files shows, and
\* what it may allow is a right held less than Lag ago.
ListingAgrees ==
    \A u \in Users, f \in FileIds :
        /\ f \in Listed(u) /\ Owner[f] # u => MayAnswer(u, f, "read", TRUE)
        /\ f \in rows /\ ~MayAnswer(u, f, "read", FALSE) => f \in Listed(u)
        /\ LongShared(u, f) => ~MayAnswer(u, f, "read", FALSE)
        /\ MayAnswer(u, f, "read", TRUE) => Held(u, f, "read", Lag)

\* tests/test_auth_flow.py:54-66 uploads a file and expects 200 when the same
\* user downloads it.
OwnerMayDownload ==
    \A f \in acked \cap rows : MayAnswer(Owner[f], f, "read", TRUE)
=============================================================================
