---------------------------- MODULE FileApiProofs ----------------------------
(***************************************************************************)
(* Theorems about FileApi: the routes implement FileStore, so what is      *)
(* proved of the store holds behind the checks too, and the checks and the *)
(* store agree on who may do what.                                         *)
(***************************************************************************)
EXTENDS FileApi, FileStoreProofs

Rank == Access!LEVEL_HIERARCHY
Never == Access!Never

LEMMA RankType == \A l \in Access!Levels : Rank[l] \in 0..3
BY DEF Rank, Access!Levels, Access!LEVEL_HIERARCHY

LEMMA SqlMaxIsHeld ==
    ASSUME NEW S \in SUBSET Access!Levels, S # {}
    PROVE  Access!SqlMax(S) \in S
<1>1. \E l \in S : \A m \in S : Access!CollationRank[m] <= Access!CollationRank[l]
  <2>1. CASE "write" \in S
    BY <2>1 DEF Access!Levels, Access!CollationRank
  <2>2. CASE "write" \notin S /\ "read" \in S
    BY <2>2 DEF Access!Levels, Access!CollationRank
  <2>3. CASE "write" \notin S /\ "read" \notin S /\ "delete" \in S
    BY <2>3 DEF Access!Levels, Access!CollationRank
  <2>4. CASE S = {"admin"}
    BY <2>4 DEF Access!CollationRank
  <2>5. QED
    BY <2>1, <2>2, <2>3, <2>4 DEF Access!Levels
<1>2. QED
  BY <1>1 DEF Access!SqlMax

\* The level computed of several rows is the level of one of them.
LEMMA LevelIsHeld ==
    ASSUME NEW S \in SUBSET Access!Levels, S # {}
    PROVE  \E l \in S : Access!EffectiveInt(S) = Rank[l]
BY SqlMaxIsHeld DEF Access!EffectiveInt, Rank
-----------------------------------------------------------------------------
(* The inductive invariant *)

RowsWell ==
    \A p \in DOMAIN perms :
        perms[p] \in [key : FileIds \X Users, level : Access!Levels, grantedAt : 1..now,
                      expires : Nat, revokedAt : 0..now, traced : BOOLEAN]

\* Held, of the rows R at instant t.
HeldOf(R, t, u, f, n, d) ==
    \E p \in DOMAIN R :
        /\ R[p].key = <<f, u>>
        /\ Rank[R[p].level] >= Rank[n]
        /\ R[p].revokedAt = Never \/ t < R[p].revokedAt + d
        /\ R[p].expires = Never \/ t < R[p].expires + d

\* A request allowed to read or delete was so at the instant it keeps, which is no
\* longer ago than a worker may stay.
AllowedBy(w) ==
    Allowed(w) =>
        /\ ask[w].at \in 1..now /\ now <= ask[w].at + Stay
        /\ At(w, "fetch") =>
             HeldOf(perms, ask[w].at, ask[w].user, job[w].file, "read", Lag)
        /\ At(w, "deleteObject") =>
             \/ Owner[job[w].file] = ask[w].user
             \/ HeldOf(perms, ask[w].at, ask[w].user, job[w].file, "delete", Lag)

Asks == {NoOne} \cup [checks : {1, 2}, user : Callers, at : 1..MaxTime]

RightsInv ==
    /\ now \in 1..MaxTime
    /\ DOMAIN perms \subseteq PermIds /\ RowsWell
    /\ ask \in [Workers -> Asks]
    /\ \A w \in Workers : AllowedBy(w)
    /\ RightsStayVisible

ApiInv == StoreInv /\ RightsInv

\* An answer of the permission service rests on a right of this instant.
LEMMA AnswerIsRight ==
    ASSUME RowsWell, now \in Nat, NEW u, NEW f, NEW n \in Access!Levels,
           MayAnswer(u, f, n, TRUE)
    PROVE  HeldOf(perms, now, u, f, n, Lag)
<1>1. PICK t \in 1..now, v \in -1..3 :
        now < t + Lag /\ Access!HadLevel(perms, <<f, u>>, t, v) /\ v >= Rank[n]
  BY DEF MayAnswer, Access!MayAnswer, Rank, Access!LEVEL_HIERARCHY, Access!NoLevel
<1>2. PICK S \in SUBSET Access!Possible(perms, <<f, u>>, t) :
        v = Access!EffectiveInt({perms[p].level : p \in S})
  BY <1>1 DEF Access!HadLevel
<1>3. S # {}
  <2>1. SUFFICES ASSUME S = {} PROVE FALSE
    OBVIOUS
  <2>2. v = -1
    BY <1>2, <2>1 DEF Access!EffectiveInt, Access!NoLevel
  <2>3. QED
    BY <1>1, <2>2, RankType
<1>4. {perms[p].level : p \in S} \in SUBSET Access!Levels
  BY <1>2 DEF Access!Possible, RowsWell
<1>5. PICK p \in S : v = Rank[perms[p].level]
  BY <1>2, <1>3, <1>4, LevelIsHeld
<1>6. /\ p \in DOMAIN perms /\ perms[p].key = <<f, u>>
      /\ perms[p].grantedAt <= t
      /\ perms[p].revokedAt = Never \/ t <= perms[p].revokedAt
      /\ perms[p].expires = Never \/ perms[p].expires > t
  BY <1>5 DEF Access!Possible, Access!NotExpired, Never
<1>7. perms[p].grantedAt \in Nat /\ perms[p].revokedAt \in Nat /\ perms[p].expires \in Nat
  BY <1>6 DEF RowsWell
<1>8. /\ perms[p].grantedAt <= now
      /\ perms[p].revokedAt = Never \/ now < perms[p].revokedAt + Lag
      /\ perms[p].expires = Never \/ now < perms[p].expires + Lag
  BY <1>1, <1>6, <1>7, BoundsAssumption
<1>9. QED
  BY <1>1, <1>5, <1>6, <1>8 DEF HeldOf

LEMMA AllowedIsRight ==
    ASSUME ApiInv, NEW u, NEW f, NEW n \in {"read", "delete"}, MayAnswer(u, f, n, TRUE)
    PROVE  HeldOf(perms, now, u, f, n, Lag)
<1>1. RowsWell /\ now \in Nat
  BY DEF ApiInv, RightsInv
<1>2. n \in Access!Levels
  BY DEF Access!Levels
<1>3. QED
  BY <1>1, <1>2, AnswerIsRight

\* What a step may do to a row: withdraw it now.
RowsKept ==
    \A p \in DOMAIN perms :
        /\ p \in DOMAIN perms'
        /\ perms'[p].key = perms[p].key /\ perms'[p].level = perms[p].level
        /\ perms'[p].grantedAt = perms[p].grantedAt
        /\ perms'[p].expires = perms[p].expires
        /\ \/ perms'[p].revokedAt = perms[p].revokedAt
           \/ perms[p].revokedAt = Never /\ perms'[p].revokedAt = now

\* What was held at an instant that has passed still was.
LEMMA HeldStays ==
    ASSUME RowsKept, now \in Nat, NEW u, NEW f, NEW n, NEW t \in 1..now,
           HeldOf(perms, t, u, f, n, Lag)
    PROVE  HeldOf(perms', t, u, f, n, Lag)
<1>1. PICK p \in DOMAIN perms :
        /\ perms[p].key = <<f, u>>
        /\ Rank[perms[p].level] >= Rank[n]
        /\ perms[p].revokedAt = Never \/ t < perms[p].revokedAt + Lag
        /\ perms[p].expires = Never \/ t < perms[p].expires + Lag
  BY DEF HeldOf
<1>2. t < now + Lag
  BY BoundsAssumption
<1>3. QED
  BY <1>1, <1>2 DEF HeldOf, RowsKept
-----------------------------------------------------------------------------
(* The routes implement the store *)

LEMMA StoreStep == [ApiNext]_apiVars => [Next]_vars
<1> SUFFICES ASSUME [ApiNext]_apiVars PROVE [Next]_vars
  OBVIOUS
<1>1. CASE UNCHANGED apiVars
  BY <1>1 DEF apiVars
<1>2. ASSUME UNCHANGED site, NEW w \in Workers, NEW f \in FileIds,
             BeginUpload(w, f) \/ BeginDelete(w, f) \/ BeginDownload(w, f)
      PROVE  Next
  BY <1>2 DEF Next
<1>3. ASSUME UNCHANGED site, NEW w \in Workers,
             \/ PutObject(w) \/ StoreKey(w) \/ Cleanup(w) \/ InsertRow(w)
             \/ AuditUpload(w) \/ Reply(w)
             \/ DeleteObject(w) \/ DeleteKey(w) \/ DeleteRow(w) \/ AuditDelete(w)
             \/ Refuse(w) \/ Fetch(w) \/ AuditDownload(w)
             \/ Abort(w)
      PROVE  Next
  BY <1>3 DEF Next
<1>4. ASSUME UNCHANGED site, UNCHANGED <<stores, history, job>>
      PROVE  UNCHANGED vars
  BY <1>4 DEF vars, stores, history
<1>5. ASSUME UNCHANGED site, NEW w \in Workers, NEW f \in FileIds, Upload(w, f)
      PROVE  Next
  BY <1>2, <1>5 DEF Upload
<1>6. ASSUME UNCHANGED site, NEW w \in Workers, NEW u \in Callers, NEW f \in FileIds,
             Download(w, u, f) \/ Delete(w, u, f)
      PROVE  Next
  BY <1>2, <1>6 DEF Download, Delete
<1>7. ASSUME UNCHANGED site, NEW w \in Workers,
             CheckAgain(w) \/ FetchChecked(w) \/ DeleteShared(w) \/ Continue(w)
      PROVE  Next \/ UNCHANGED vars
  BY <1>3, <1>4, <1>7 DEF CheckAgain, FetchChecked, DeleteShared, Continue
<1>8. ASSUME UNCHANGED site, NEW u \in Callers, NEW p \in PermIds, NEW f \in FileIds,
             NEW g \in Users, NEW l \in GrantLevels, NEW d \in Durations,
             Grant(u, f, g, l, d, p)
      PROVE  Next
  BY <1>8 DEF Grant, Next
<1>9. ASSUME UNCHANGED site, NEW u \in Callers, NEW p \in PermIds, Revoke(u, p)
      PROVE  UNCHANGED vars
  BY <1>4, <1>9 DEF Revoke
<1>10. ASSUME UNCHANGED site, Tick
       PROVE  UNCHANGED vars
  BY <1>4, <1>10 DEF Tick
<1>11. QED
  BY <1>1, <1>5, <1>6, <1>7, <1>8, <1>9, <1>10 DEF ApiNext

\* Behind the routes the store does nothing FileStore does not describe.
THEOREM ApiImplementsStore == ApiSpec => Spec
<1>1. ApiInit => Init
  BY DEF ApiInit
<1>2. QED
  BY <1>1, StoreStep, PTL DEF ApiSpec, Spec
-----------------------------------------------------------------------------
(* Permissions *)

LEMMA GrantKeeps ==
    ASSUME RowsWell, now \in Nat \ {0}, NEW k \in FileIds \X Users,
           NEW l \in Access!Levels, NEW d \in Int, NEW p, Access!Grant(k, l, d, p)
    PROVE  /\ RowsWell' /\ RowsKept /\ now' = now
           /\ DOMAIN perms' = DOMAIN perms \cup {p}
           /\ perms'[p].key = k /\ p \notin DOMAIN perms
           /\ \A q \in DOMAIN perms : perms'[q] = perms[q]
<1> DEFINE new == [key |-> k, level |-> l, grantedAt |-> now,
                   expires |-> Access!Expiry(d), revokedAt |-> Never, traced |-> FALSE]
<1>1. /\ now' = now /\ p \notin DOMAIN perms
      /\ perms' = [q \in DOMAIN perms \cup {p} |-> IF q = p THEN new ELSE perms[q]]
  BY DEF Access!Grant, Never
<1>2. Access!Expiry(d) \in Nat /\ Never \in 0..now
  BY DEF Access!Expiry, Access!Never, Never
<1>3. new \in [key : FileIds \X Users, level : Access!Levels, grantedAt : 1..now,
               expires : Nat, revokedAt : 0..now, traced : BOOLEAN]
  BY <1>2
<1> HIDE DEF new
<1>4. /\ DOMAIN perms' = DOMAIN perms \cup {p}
      /\ perms'[p] = new /\ \A q \in DOMAIN perms : perms'[q] = perms[q]
  BY <1>1
<1>5. RowsWell'
  BY <1>1, <1>3, <1>4 DEF RowsWell
<1>6. RowsKept
  BY <1>4 DEF RowsKept
<1>7. new.key = k
  BY DEF new
<1>8. QED
  BY <1>1, <1>4, <1>5, <1>6, <1>7

LEMMA WithdrawKeeps ==
    ASSUME RowsWell, now \in Nat \ {0}, NEW P, Access!Withdraw(P)
    PROVE  /\ RowsWell' /\ RowsKept /\ now' = now
           /\ DOMAIN perms' = DOMAIN perms
           /\ \A p \in DOMAIN perms \cap P : perms'[p].revokedAt # Never
<1>1. /\ now' = now
      /\ perms' = [p \in DOMAIN perms |->
                     IF p \in P /\ perms[p].revokedAt = Never
                       THEN [perms[p] EXCEPT !.revokedAt = now] ELSE perms[p]]
  BY DEF Access!Withdraw, Never
<1>2. DOMAIN perms' = DOMAIN perms
  BY <1>1
<1>3. ASSUME NEW p \in DOMAIN perms
      PROVE  /\ perms'[p].key = perms[p].key /\ perms'[p].level = perms[p].level
             /\ perms'[p].grantedAt = perms[p].grantedAt
             /\ perms'[p].expires = perms[p].expires
             /\ perms'[p].revokedAt = IF p \in P /\ perms[p].revokedAt = Never
                                        THEN now ELSE perms[p].revokedAt
  <2>1. CASE p \in P /\ perms[p].revokedAt = Never
    <3>1. perms'[p] = [perms[p] EXCEPT !.revokedAt = now]
      BY <1>1, <2>1
    <3>2. QED
      BY <2>1, <3>1
  <2>2. CASE ~(p \in P /\ perms[p].revokedAt = Never)
    BY <1>1, <2>2
  <2>3. QED
    BY <2>1, <2>2
<1>4. RowsWell'
  BY <1>1, <1>2, <1>3 DEF RowsWell
<1>5. RowsKept
  BY <1>2, <1>3 DEF RowsKept
<1>6. Never # now
  BY DEF Never, Access!Never
<1>7. QED
  BY <1>1, <1>2, <1>3, <1>4, <1>5, <1>6

LEMMA NothingKeeps ==
    ASSUME RowsWell, Quiet
    PROVE  RowsWell' /\ RowsKept /\ now' = now /\ perms' = perms
BY DEF RowsWell, RowsKept, Quiet
-----------------------------------------------------------------------------
(* Every step keeps the invariant *)

\* A worker that stays where it is keeps what allowed it.
LEMMA AllowedStays ==
    ASSUME RowsKept, now \in Nat, NEW v \in Workers, AllowedBy(v),
           job'[v] = job[v], ask'[v] = ask[v],
           \/ now' = now
           \/ now' = now + 1 /\ (Allowed(v) => now < ask[v].at + Stay)
    PROVE  AllowedBy(v)'
<1>1. Allowed(v)' <=> Allowed(v)
  BY DEF Allowed, At
<1>2. SUFFICES ASSUME Allowed(v) PROVE AllowedBy(v)'
  BY <1>1 DEF AllowedBy
<1>3. /\ ask[v].at \in 1..now /\ now <= ask[v].at + Stay
      /\ At(v, "fetch") => HeldOf(perms, ask[v].at, ask[v].user, job[v].file, "read", Lag)
      /\ At(v, "deleteObject") =>
           \/ Owner[job[v].file] = ask[v].user
           \/ HeldOf(perms, ask[v].at, ask[v].user, job[v].file, "delete", Lag)
  BY <1>2 DEF AllowedBy
<1>4. ASSUME NEW n, HeldOf(perms, ask[v].at, ask[v].user, job[v].file, n, Lag)
      PROVE  HeldOf(perms', ask[v].at, ask[v].user, job[v].file, n, Lag)
  BY <1>3, <1>4, HeldStays
<1>5. ask[v].at \in 1..now' /\ now' <= ask[v].at + Stay
  BY <1>2, <1>3, BoundsAssumption
<1>6. QED
  BY <1>3, <1>4, <1>5 DEF AllowedBy, At

\* The steps of w that ask for no right and end, or lead where none is used.
LEMMA GoOnKeeps ==
    ASSUME ApiInv, NEW w \in Workers, NEW pc, Moved(w, pc, job[w].file), Spend(w),
           pc \notin {"fetch", "deleteObject"},
           RowsKept, RowsWell', now' = now, DOMAIN perms' \subseteq PermIds,
           RightsStayVisible'
    PROVE  RightsInv'
<1>1. now \in Nat /\ ask \in [Workers -> Asks]
  BY DEF ApiInv, RightsInv
<1>2. /\ ask' \in [Workers -> Asks]
      /\ \A v \in Workers \ {w} : ask'[v] = ask[v]
  BY <1>1 DEF Spend, Asks
<1>3. ASSUME NEW v \in Workers \ {w} PROVE AllowedBy(v)'
  BY <1>1, <1>2, AllowedStays DEF Moved, ApiInv, RightsInv
<1>4. job'[w].pc = pc
  BY DEF Moved, Idle
<1>5. AllowedBy(w)'
  BY <1>4 DEF AllowedBy, Allowed, At
<1>6. QED
  BY <1>2, <1>3, <1>5 DEF RightsInv, ApiInv

\* The steps of w that ask for a right, and are given it now.
LEMMA AskKeeps ==
    ASSUME ApiInv, NEW w \in Workers, NEW n \in {1, 2}, NEW u \in Callers,
           Asked(w, u, n), Quiet, \A v \in Workers \ {w} : job'[v] = job[v],
           rows' = rows, shared' = shared,
           job'[w].pc = "fetch" => HeldOf(perms, now, u, job'[w].file, "read", Lag),
           job'[w].pc = "deleteObject" =>
             \/ Owner[job'[w].file] = u
             \/ HeldOf(perms, now, u, job'[w].file, "delete", Lag)
    PROVE  RightsInv'
<1>1. now \in 1..MaxTime /\ ask \in [Workers -> Asks] /\ RowsWell
  BY DEF ApiInv, RightsInv
<1>2. [checks |-> n, user |-> u, at |-> now] \in Asks
  BY <1>1 DEF Asks
<1>3. /\ ask' \in [Workers -> Asks]
      /\ ask'[w].user = u /\ ask'[w].at = now
      /\ \A v \in Workers \ {w} : ask'[v] = ask[v]
  BY <1>1, <1>2 DEF Asked
<1>4. RowsWell' /\ RowsKept /\ now' = now /\ perms' = perms
  BY <1>1, NothingKeeps
<1>5. ASSUME NEW v \in Workers \ {w} PROVE AllowedBy(v)'
  BY <1>1, <1>3, <1>4, AllowedStays DEF ApiInv, RightsInv
<1>6. now \in 1..now /\ now <= now + Stay
  BY <1>1, BoundsAssumption
<1>7. AllowedBy(w)'
  BY <1>3, <1>4, <1>6 DEF AllowedBy, At
<1>8. RightsStayVisible'
  BY <1>4 DEF ApiInv, RightsInv, RightsStayVisible, FilePermissions
<1>9. QED
  BY <1>1, <1>3, <1>4, <1>5, <1>7, <1>8 DEF RightsInv, ApiInv

\* No worker moves.
LEMMA RestKeeps ==
    ASSUME ApiInv, UNCHANGED <<job, ask>>, RowsKept, RowsWell',
           \/ now' = now
           \/ now' = now + 1 /\ \A v \in Workers : Allowed(v) => now < ask[v].at + Stay,
           now' \in 1..MaxTime, DOMAIN perms' \subseteq PermIds, RightsStayVisible'
    PROVE  RightsInv'
<1>1. now \in Nat
  BY DEF ApiInv, RightsInv
<1>2. ASSUME NEW v \in Workers PROVE AllowedBy(v)'
  BY <1>1, AllowedStays DEF ApiInv, RightsInv
<1>3. QED
  BY <1>2 DEF ApiInv, RightsInv

LEMMA VisibleStays ==
    ASSUME RightsStayVisible, perms' = perms, rows \subseteq rows', shared \subseteq shared'
    PROVE  RightsStayVisible'
BY DEF RightsStayVisible, FilePermissions

LEMMA UploadRights ==
    ASSUME ApiInv, NEW w \in Workers, NEW f \in FileIds, Upload(w, f)
    PROVE  RightsInv'
<1>1. "putObject" \in BusyPc
  BY DEF BusyPc, UploadPc
<1>2. Moved(w, "putObject", f)
  BY <1>1, StartMoves DEF Upload, BeginUpload, ApiInv, StoreInv
<1>3. RowsWell' /\ RowsKept /\ now' = now /\ perms' = perms /\ ask' = ask
  BY NothingKeeps DEF Upload, ApiInv, RightsInv
<1>4. now \in Nat
  BY DEF ApiInv, RightsInv
<1>5. ASSUME NEW v \in Workers \ {w} PROVE AllowedBy(v)'
  BY <1>2, <1>3, <1>4, AllowedStays DEF Moved, ApiInv, RightsInv
<1>6. AllowedBy(w)'
  BY <1>2 DEF Moved, AllowedBy, Allowed, At
<1>7. RightsStayVisible'
  BY <1>3, VisibleStays DEF Upload, BeginUpload, stores, ApiInv, RightsInv
<1>8. QED
  BY <1>3, <1>5, <1>6, <1>7 DEF ApiInv, RightsInv

LEMMA DownloadRights ==
    ASSUME ApiInv, NEW w \in Workers, NEW u \in Callers, NEW f \in FileIds, Download(w, u, f)
    PROVE  RightsInv'
<1>1. "fetch" \in BusyPc
  BY DEF BusyPc, DownloadPc
<1>2. Moved(w, "fetch", f)
  BY <1>1, StartMoves DEF Download, BeginDownload, ApiInv, StoreInv
<1>3. HeldOf(perms, now, u, f, "read", Lag)
  BY AllowedIsRight DEF Download
<1>4. UNCHANGED <<rows, shared>> /\ Asked(w, u, 1) /\ Quiet
  BY DEF Download, BeginDownload, stores
<1>5. QED
  BY <1>2, <1>3, <1>4, AskKeeps DEF Moved

LEMMA DeleteRights ==
    ASSUME ApiInv, NEW w \in Workers, NEW u \in Callers, NEW f \in FileIds, Delete(w, u, f)
    PROVE  RightsInv'
<1>1. "deleteObject" \in BusyPc
  BY DEF BusyPc, DeletePc
<1>2. Moved(w, "deleteObject", f)
  BY <1>1, StartMoves DEF Delete, BeginDelete, ApiInv, StoreInv
<1>3. Owner[f] = u \/ HeldOf(perms, now, u, f, "delete", Lag)
  BY AllowedIsRight DEF Delete
<1>4. UNCHANGED <<rows, shared>> /\ Asked(w, u, 1) /\ Quiet
  BY DEF Delete, BeginDelete, stores
<1>5. QED
  BY <1>2, <1>3, <1>4, AskKeeps DEF Moved

LEMMA CheckAgainRights ==
    ASSUME ApiInv, NEW w \in Workers, CheckAgain(w)
    PROVE  RightsInv'
<1>0. job[w].pc = "fetch" /\ Quiet
  BY DEF CheckAgain, At, Refuse
<1>1. CASE /\ MayAnswer(ask[w].user, job[w].file, "read", TRUE)
           /\ Asked(w, ask[w].user, 2)
           /\ UNCHANGED <<stores, job>>
  <2>1. PICK u : u = ask[w].user
    OBVIOUS
  <2>2. u \in Callers
    BY <2>1 DEF CheckAgain, ApiInv, RightsInv, Asks, NoOne
  <2>3. HeldOf(perms, now, u, job[w].file, "read", Lag)
    BY <1>1, <2>1, AllowedIsRight
  <2>4. Asked(w, u, 2) /\ job' = job /\ rows' = rows /\ shared' = shared
    BY <1>1, <2>1 DEF stores
  <2>5. QED
    BY <1>0, <2>2, <2>3, <2>4, AskKeeps
<1>2. CASE Refuse(w) /\ Spend(w)
  <2>1. Moved(w, "idle", job[w].file)
    BY <1>2, EndMoves DEF Refuse, ApiInv, StoreInv
  <2>2. RowsWell' /\ RowsKept /\ now' = now /\ perms' = perms
    BY <1>0, NothingKeeps DEF ApiInv, RightsInv
  <2>3. RightsStayVisible'
    BY <1>2, <2>2, VisibleStays DEF Refuse, stores, ApiInv, RightsInv
  <2>4. DOMAIN perms' \subseteq PermIds
    BY <2>2 DEF ApiInv, RightsInv
  <2>5. QED
    BY <1>2, <2>1, <2>2, <2>3, <2>4, GoOnKeeps
<1>3. QED
  BY <1>1, <1>2 DEF CheckAgain

LEMMA FetchRights ==
    ASSUME ApiInv, NEW w \in Workers, FetchChecked(w)
    PROVE  RightsInv'
<1>1. job[w].pc = "fetch" /\ Spend(w)
  BY DEF FetchChecked, Fetch, At
<1>2. PICK pc \in {"auditDownload", "idle"} : Moved(w, pc, job[w].file)
  BY <1>1, GotoMoves, EndMoves
     DEF FetchChecked, Fetch, ApiInv, StoreInv, BusyPc, DownloadPc
<1>3. RowsWell' /\ RowsKept /\ now' = now /\ perms' = perms
  BY NothingKeeps DEF FetchChecked, ApiInv, RightsInv
<1>4. RightsStayVisible'
  BY <1>3, VisibleStays DEF FetchChecked, Fetch, stores, ApiInv, RightsInv
<1>5. DOMAIN perms' \subseteq PermIds
  BY <1>3 DEF ApiInv, RightsInv
<1>6. QED
  BY <1>1, <1>2, <1>3, <1>4, <1>5, GoOnKeeps

LEMMA DeleteSharedRights ==
    ASSUME ApiInv, NEW w \in Workers, DeleteShared(w)
    PROVE  RightsInv'
<1> DEFINE f == job[w].file
           P == {p \in DOMAIN perms : perms[p].key[1] = f}
<1>1. job[w].pc = "deleteRow" /\ Spend(w) /\ DeleteRow(w)
  BY DEF DeleteShared, DeleteRow, At
<1>2. PICK pc \in {"auditDelete", "idle"} : Moved(w, pc, f)
  BY <1>1, GotoMoves, EndMoves DEF DeleteRow, ApiInv, StoreInv, BusyPc, DeletePc
<1>3. now \in 1..MaxTime /\ now \in Nat \ {0}
  BY DEF ApiInv, RightsInv
<1>4. \/ UNCHANGED <<rows, shared>>
      \/ rows' = rows \ {f} /\ shared' = shared \ {f}
  BY <1>1 DEF DeleteRow
<1>5. CASE f \in rows \ rows'
  <2>1. Access!Withdraw(P)
    BY <1>5 DEF DeleteShared
  <2>2. /\ RowsWell' /\ RowsKept /\ now' = now /\ DOMAIN perms' = DOMAIN perms
        /\ \A p \in DOMAIN perms \cap P : perms'[p].revokedAt # Never
    BY <1>3, <2>1, WithdrawKeeps DEF ApiInv, RightsInv
  <2>3. ASSUME NEW p \in DOMAIN perms', perms'[p].revokedAt = Never
        PROVE  perms[p].revokedAt = Never /\ perms[p].key[1] # f /\ perms'[p].key = perms[p].key
    <3>1. p \in DOMAIN perms /\ now # Never
      BY <1>3, <2>2 DEF Never, Access!Never
    <3>2. QED
      BY <2>2, <2>3, <3>1 DEF RowsKept
  <2>4. RightsStayVisible'
    BY <1>4, <2>2, <2>3 DEF RightsStayVisible, FilePermissions, ApiInv, RightsInv, Never
  <2>5. QED
    BY <1>1, <1>2, <1>3, <2>2, <2>4, GoOnKeeps DEF ApiInv, RightsInv
<1>6. CASE f \notin rows \ rows'
  <2>1. RowsWell' /\ RowsKept /\ now' = now /\ perms' = perms
    BY <1>6, NothingKeeps DEF DeleteShared, ApiInv, RightsInv
  <2>2. rows' = rows
    BY <1>4, <1>6
  <2>3. RightsStayVisible'
    BY <1>4, <1>6, <2>1, <2>2 DEF RightsStayVisible, FilePermissions, ApiInv, RightsInv
  <2>4. QED
    BY <1>1, <1>2, <1>3, <2>1, <2>3, GoOnKeeps DEF ApiInv, RightsInv
<1>7. QED
  BY <1>5, <1>6

\* A step that asks for no right leads nowhere a right is used.
LEMMA ContinueMoves ==
    ASSUME TypeOK, NEW w \in Workers, Continue(w)
    PROVE  \E pc \in (BusyPc \ {"fetch", "auditDownload", "deleteObject"}) \cup {"idle"} :
             Moved(w, pc, job[w].file)
<1> DEFINE To == {"storeKey", "insertRow", "cleanup", "auditUpload", "reply",
                  "deleteKey", "deleteRow"}
           Goal == \E pc \in (BusyPc \ {"fetch", "auditDownload", "deleteObject"})
                              \cup {"idle"} :
                     Moved(w, pc, job[w].file)
<1>1. ASSUME End(w) PROVE Goal
  BY <1>1, EndMoves
<1>2. ASSUME NEW pc \in To, job[w].pc # "idle", Goto(w, pc) PROVE Goal
  <2>1. pc \in BusyPc \ {"fetch", "auditDownload", "deleteObject"}
    BY DEF UploadPc, DeletePc, BusyPc
  <2>2. QED
    BY <1>2, <2>1, GotoMoves
<1> HIDE DEF Goal
<1>3. ASSUME PutObject(w) \/ StoreKey(w) \/ InsertRow(w) \/ AuditUpload(w)
      PROVE  Goal
  BY <1>1, <1>2, <1>3 DEF PutObject, StoreKey, InsertRow, AuditUpload, At
<1>4. ASSUME DeleteObject(w) \/ DeleteKey(w)
      PROVE  Goal
  BY <1>1, <1>2, <1>4 DEF DeleteObject, DeleteKey, At
<1>5. ASSUME Cleanup(w) \/ Reply(w) \/ AuditDelete(w) \/ AuditDownload(w) \/ Abort(w)
      PROVE  Goal
  BY <1>1, <1>5 DEF Cleanup, Reply, AuditDelete, AuditDownload, Abort
<1>6. QED
  BY <1>3, <1>4, <1>5 DEF Continue, Goal

LEMMA ContinueRights ==
    ASSUME ApiInv, NEW w \in Workers, Continue(w)
    PROVE  RightsInv'
<1>1. PICK pc \in (BusyPc \ {"fetch", "auditDownload", "deleteObject"}) \cup {"idle"} :
        Moved(w, pc, job[w].file)
  BY ContinueMoves DEF ApiInv, StoreInv
<1>2. RowsWell' /\ RowsKept /\ now' = now /\ perms' = perms /\ Spend(w)
  BY NothingKeeps DEF Continue, ApiInv, RightsInv
<1>3. rows \subseteq rows' /\ shared' = shared
  BY DEF Continue, PutObject, StoreKey, Cleanup, InsertRow, AuditUpload, Reply,
         DeleteObject, DeleteKey, AuditDelete, AuditDownload, Abort, stores
<1>4. RightsStayVisible' /\ DOMAIN perms' \subseteq PermIds
  BY <1>2, <1>3, VisibleStays DEF ApiInv, RightsInv
<1>5. QED
  BY <1>1, <1>2, <1>4, GoOnKeeps

LEMMA GrantRights ==
    ASSUME ApiInv, NEW u, NEW p \in PermIds, NEW f \in FileIds, NEW g \in Users,
           NEW l \in GrantLevels, NEW d \in Durations, Grant(u, f, g, l, d, p)
    PROVE  RightsInv'
<1> DEFINE k == <<f, g>>
<1>1. k \in FileIds \X Users /\ l \in Access!Levels /\ d \in Int /\ now \in Nat \ {0}
  BY LevelsAssumption, BoundsAssumption DEF ApiInv, RightsInv
<1>2. /\ RowsWell' /\ RowsKept /\ now' = now
      /\ DOMAIN perms' = DOMAIN perms \cup {p}
      /\ perms'[p].key = k /\ p \notin DOMAIN perms
      /\ \A q \in DOMAIN perms : perms'[q] = perms[q]
  BY <1>1, GrantKeeps DEF Grant, ApiInv, RightsInv
<1>3. f \in rows /\ rows' = rows /\ shared' = shared \cup {f} /\ UNCHANGED <<job, ask>>
  BY DEF Grant, Share
<1>4. RightsStayVisible'
  BY <1>2, <1>3 DEF RightsStayVisible, FilePermissions, ApiInv, RightsInv
<1>5. QED
  BY <1>2, <1>3, <1>4, RestKeeps DEF ApiInv, RightsInv

LEMMA RevokeRights ==
    ASSUME ApiInv, NEW u, NEW p \in PermIds, Revoke(u, p)
    PROVE  RightsInv'
<1>1. now \in Nat \ {0} /\ Access!Withdraw({p})
  BY DEF Revoke, ApiInv, RightsInv
<1>2. RowsWell' /\ RowsKept /\ now' = now /\ DOMAIN perms' = DOMAIN perms
  BY <1>1, WithdrawKeeps DEF ApiInv, RightsInv
<1>3. UNCHANGED <<rows, shared, job, ask>>
  BY DEF Revoke, stores
<1>4. ASSUME NEW q \in DOMAIN perms', perms'[q].revokedAt = Never
      PROVE  perms[q].revokedAt = Never /\ perms'[q].key = perms[q].key
  BY <1>1, <1>2, <1>4 DEF RowsKept, Never, Access!Never
<1>5. RightsStayVisible'
  BY <1>2, <1>3, <1>4 DEF RightsStayVisible, FilePermissions, ApiInv, RightsInv, Never
<1>6. QED
  BY <1>2, <1>3, <1>5, RestKeeps DEF ApiInv, RightsInv

LEMMA TickRights ==
    ASSUME ApiInv, Tick
    PROVE  RightsInv'
<1>1. /\ now' = now + 1 /\ perms' = perms /\ now' \in 1..MaxTime /\ now \in Nat
      /\ \A w \in Workers : Allowed(w) => now < ask[w].at + Stay
      /\ UNCHANGED <<rows, shared, job, ask>>
  BY BoundsAssumption DEF Tick, Access!Tick, stores, ApiInv, RightsInv
<1>2. RowsWell' /\ RowsKept
  BY <1>1 DEF RowsWell, RowsKept, ApiInv, RightsInv
<1>3. RightsStayVisible'
  BY <1>1, VisibleStays DEF ApiInv, RightsInv
<1>4. QED
  BY <1>1, <1>2, <1>3, RestKeeps DEF ApiInv, RightsInv
-----------------------------------------------------------------------------
LEMMA ApiInitInv == ApiInit => ApiInv
<1> SUFFICES ASSUME ApiInit PROVE ApiInv
  OBVIOUS
<1>1. StoreInv
  BY StoreInit DEF ApiInit
<1>2. now \in 1..MaxTime /\ DOMAIN perms = {} /\ ask \in [Workers -> Asks]
  BY BoundsAssumption DEF ApiInit, Asks
<1>3. \A w \in Workers : AllowedBy(w)
  BY DEF ApiInit, Init, Idle, AllowedBy, Allowed, At
<1>4. QED
  BY <1>1, <1>2, <1>3 DEF ApiInv, RightsInv, RowsWell, RightsStayVisible

LEMMA ApiNextInv == ApiInv /\ [ApiNext]_apiVars => ApiInv'
<1> SUFFICES ASSUME ApiInv, [ApiNext]_apiVars PROVE ApiInv'
  OBVIOUS
<1>1. StoreInv'
  BY StoreStep, StoreNext DEF ApiInv
<1>2. RightsInv'
  <2>1. CASE UNCHANGED apiVars
    <3>1. /\ now' = now /\ perms' = perms /\ now \in Nat
          /\ UNCHANGED <<rows, shared, job, ask>>
      BY <2>1 DEF apiVars, vars, ApiInv, RightsInv
    <3>2. RowsWell' /\ RowsKept
      BY <3>1 DEF RowsWell, RowsKept, ApiInv, RightsInv
    <3>3. RightsStayVisible'
      BY <3>1, VisibleStays DEF ApiInv, RightsInv
    <3>4. QED
      BY <3>1, <3>2, <3>3, RestKeeps DEF ApiInv, RightsInv
  <2>2. ASSUME NEW w \in Workers, NEW f \in FileIds, Upload(w, f) PROVE RightsInv'
    BY <2>2, UploadRights
  <2>3. ASSUME NEW w \in Workers, NEW u \in Callers, NEW f \in FileIds,
               Download(w, u, f) \/ Delete(w, u, f)
        PROVE  RightsInv'
    BY <2>3, DownloadRights, DeleteRights
  <2>4. ASSUME NEW w \in Workers,
               CheckAgain(w) \/ FetchChecked(w) \/ DeleteShared(w) \/ Continue(w)
        PROVE  RightsInv'
    BY <2>4, CheckAgainRights, FetchRights, DeleteSharedRights, ContinueRights
  <2>5. ASSUME NEW u \in Callers, NEW p \in PermIds, NEW f \in FileIds, NEW g \in Users,
               NEW l \in GrantLevels, NEW d \in Durations, Grant(u, f, g, l, d, p)
        PROVE  RightsInv'
    BY <2>5, GrantRights
  <2>6. ASSUME NEW u \in Callers, NEW p \in PermIds, Revoke(u, p) PROVE RightsInv'
    BY <2>6, RevokeRights
  <2>7. CASE Tick
    BY <2>7, TickRights
  <2>8. QED
    BY <2>1, <2>2, <2>3, <2>4, <2>5, <2>6, <2>7 DEF ApiNext
<1>3. QED
  BY <1>1, <1>2 DEF ApiInv

LEMMA ApiInvHolds == ApiSpec => []ApiInv
BY ApiInitInv, ApiNextInv, PTL DEF ApiSpec
-----------------------------------------------------------------------------
(* Who may download *)

\* The rows of u's rights on f in force at some point of tick t, and all through it.
Rights(u, f, t) == Access!Possible(perms, <<f, u>>, t)
SureRights(u, f, t) == Access!Sure(perms, <<f, u>>, t)

\* Any level is enough to read, and none is not.
LEMMA AnyLevelReads ==
    ASSUME RowsWell, NEW S \in SUBSET DOMAIN perms
    PROVE  /\ Access!EffectiveInt({perms[p].level : p \in S}) \in -1..3
           /\ S = {} <=> Access!EffectiveInt({perms[p].level : p \in S}) = -1
<1> DEFINE L == {perms[p].level : p \in S}
<1>1. CASE S = {}
  BY <1>1 DEF Access!EffectiveInt, Access!NoLevel
<1>2. CASE S # {}
  <2>1. L \in SUBSET Access!Levels /\ L # {}
    BY <1>2 DEF RowsWell
  <2>2. PICK l \in L : Access!EffectiveInt(L) = Rank[l]
    BY <2>1, LevelIsHeld
  <2>3. Access!EffectiveInt(L) \in 0..3
    BY <2>1, <2>2, RankType
  <2>4. QED
    BY <1>2, <2>3
<1>3. QED
  BY <1>1, <1>2

\* A download may be allowed exactly when the user had some row of the file at an
\* instant less than Lag ago, and refused exactly when at one it surely had none.
LEMMA DownloadRule ==
    ASSUME RowsWell, NEW u, NEW f
    PROVE  /\ MayAnswer(u, f, "read", TRUE) <=>
                \E t \in 1..now : now < t + Lag /\ Rights(u, f, t) # {}
           /\ MayAnswer(u, f, "read", FALSE) <=>
                \E t \in 1..now : now < t + Lag /\ SureRights(u, f, t) = {}
<1>1. \A b \in BOOLEAN : MayAnswer(u, f, "read", b) <=>
        \E t \in 1..now, v \in -1..3 :
          now < t + Lag /\ Access!HadLevel(perms, <<f, u>>, t, v) /\ (b <=> v >= 0)
  BY DEF MayAnswer, Access!MayAnswer, Access!LEVEL_HIERARCHY, Access!NoLevel
<1>2. ASSUME NEW t, NEW v
      PROVE  Access!HadLevel(perms, <<f, u>>, t, v) <=>
               \E S \in SUBSET Rights(u, f, t) :
                 /\ SureRights(u, f, t) \subseteq S
                 /\ v = Access!EffectiveInt({perms[p].level : p \in S})
  BY DEF Access!HadLevel, Rights, SureRights
<1>3. \A t : Rights(u, f, t) \subseteq DOMAIN perms
  BY DEF Rights, Access!Possible
<1>4. ASSUME NEW t \in 1..now
      PROVE  SureRights(u, f, t) \subseteq Rights(u, f, t)
  BY <1>4 DEF SureRights, Rights, Access!Sure, Access!Possible, RowsWell
<1>5. ASSUME NEW t \in 1..now
      PROVE  /\ (\E v \in -1..3 : Access!HadLevel(perms, <<f, u>>, t, v) /\ v >= 0)
                  <=> Rights(u, f, t) # {}
             /\ (\E v \in -1..3 : Access!HadLevel(perms, <<f, u>>, t, v) /\ ~(v >= 0))
                  <=> SureRights(u, f, t) = {}
  <2>1. ASSUME NEW S \in SUBSET Rights(u, f, t)
        PROVE  /\ Access!EffectiveInt({perms[p].level : p \in S}) \in -1..3
               /\ S = {} <=> Access!EffectiveInt({perms[p].level : p \in S}) = -1
    BY <1>3, AnyLevelReads
  <2>2. ASSUME NEW v \in -1..3, Access!HadLevel(perms, <<f, u>>, t, v)
        PROVE  /\ v >= 0 => Rights(u, f, t) # {}
               /\ ~(v >= 0) => SureRights(u, f, t) = {}
    <3>1. PICK S \in SUBSET Rights(u, f, t) :
            /\ SureRights(u, f, t) \subseteq S
            /\ v = Access!EffectiveInt({perms[p].level : p \in S})
      BY <1>2, <2>2
    <3>2. S = {} <=> v = -1
      BY <2>1, <3>1
    <3>3. QED
      BY <3>1, <3>2
  <2>3. ASSUME Rights(u, f, t) # {}
        PROVE  \E v \in -1..3 : Access!HadLevel(perms, <<f, u>>, t, v) /\ v >= 0
    <3>1. PICK v \in -1..3 : v = Access!EffectiveInt({perms[p].level : p \in Rights(u, f, t)})
      BY <2>1
    <3>2. v # -1
      BY <2>1, <2>3, <3>1
    <3>3. Access!HadLevel(perms, <<f, u>>, t, v)
      BY <1>2, <1>4, <3>1
    <3>4. QED
      BY <3>2, <3>3
  <2>4. ASSUME SureRights(u, f, t) = {}
        PROVE  \E v \in -1..3 : Access!HadLevel(perms, <<f, u>>, t, v) /\ ~(v >= 0)
    <3>1. -1 = Access!EffectiveInt({perms[p].level : p \in {}})
      BY DEF Access!EffectiveInt, Access!NoLevel
    <3>2. Access!HadLevel(perms, <<f, u>>, t, -1)
      BY <1>2, <2>4, <3>1
    <3>3. QED
      BY <3>2
  <2>5. QED
    BY <2>2, <2>3, <2>4
<1>6. QED
  BY <1>1, <1>5
-----------------------------------------------------------------------------
(* What follows *)

LEMMA TypeHere == ASSUME ApiInv PROVE ApiTypeOK
BY DEF ApiInv, RightsInv, StoreInv, ApiTypeOK, RowsWell, Asks

\* Content is fetched only by a request that was checked twice.
LEMMA OnlyCheckedFetch ==
    ASSUME ApiInv, [ApiNext]_apiVars, NEW w \in Workers,
           At(w, "fetch"), job'[w].pc = "auditDownload"
    PROVE  Allowed(w)
<1>0. TypeOK /\ job[w].pc = "fetch" /\ job[w] # Idle /\ job'[w].pc # job[w].pc
  BY DEF ApiInv, StoreInv, At, Idle
<1>1. ASSUME job' = job PROVE FALSE
  BY <1>0, <1>1
<1>2. ASSUME NEW v \in Workers, NEW pc \in {p \in BusyPc : p # "auditDownload"} \cup {"idle"},
             NEW f, Moved(v, pc, f)
      PROVE  FALSE
  BY <1>0, <1>2 DEF Moved, Idle
<1>3. CASE UNCHANGED apiVars
  BY <1>1, <1>3 DEF apiVars, vars
<1>4. ASSUME NEW v \in Workers, NEW f \in FileIds, NEW pc \in {"putObject", "fetch", "deleteObject"},
             Start(v, pc, f)
      PROVE  FALSE
  <2>1. pc \in BusyPc
    BY DEF BusyPc, UploadPc, DownloadPc, DeletePc
  <2>2. QED
    BY <1>0, <1>2, <1>4, <2>1, StartMoves
<1>5. ASSUME NEW v \in Workers, NEW f \in FileIds,
             Upload(v, f) \/ \E u \in Callers : Download(v, u, f) \/ Delete(v, u, f)
      PROVE  FALSE
  BY <1>4, <1>5 DEF Upload, BeginUpload, Download, BeginDownload, Delete, BeginDelete
<1>6. ASSUME NEW v \in Workers, CheckAgain(v) PROVE FALSE
  BY <1>0, <1>1, <1>2, <1>6, EndMoves DEF CheckAgain, Refuse
<1>7. ASSUME NEW v \in Workers, FetchChecked(v) PROVE Allowed(w)
  <2>1. CASE v = w
    BY <1>0, <1>7, <2>1 DEF FetchChecked, Allowed, At
  <2>2. CASE v # w
    BY <1>0, <1>7, <2>2 DEF FetchChecked, Fetch, Goto, End, TypeOK
  <2>3. QED
    BY <2>1, <2>2
<1>8. ASSUME NEW v \in Workers, DeleteShared(v) PROVE FALSE
  <2>1. "auditDelete" \in BusyPc /\ job[v].pc = "deleteRow"
    BY <1>8 DEF BusyPc, DeletePc, DeleteShared, DeleteRow, At
  <2>2. Moved(v, "auditDelete", job[v].file) \/ Moved(v, "idle", job[v].file)
    BY <1>0, <1>8, <2>1, GotoMoves, EndMoves DEF DeleteShared, DeleteRow
  <2>3. QED
    BY <1>2, <2>1, <2>2
<1>9. ASSUME NEW v \in Workers, Continue(v) PROVE FALSE
  BY <1>0, <1>2, <1>9, ContinueMoves
<1>10. ASSUME NEW u \in Callers, NEW p \in PermIds, NEW f \in FileIds, NEW g \in Users,
              NEW l \in GrantLevels, NEW d \in Durations, Grant(u, f, g, l, d, p)
       PROVE  FALSE
  BY <1>1, <1>10 DEF Grant, Share
<1>11. ASSUME NEW u \in Callers, NEW p \in PermIds, Revoke(u, p) PROVE FALSE
  BY <1>1, <1>11 DEF Revoke
<1>12. CASE Tick
  BY <1>1, <1>12 DEF Tick
<1>13. ASSUME NEW v \in Workers,
              CheckAgain(v) \/ FetchChecked(v) \/ DeleteShared(v) \/ Continue(v)
       PROVE  Allowed(w)
  BY <1>6, <1>7, <1>8, <1>9, <1>13
<1>14. QED
  BY <1>3, <1>5, <1>10, <1>11, <1>12, <1>13 DEF ApiNext

\* What is used now was held less than Lag before an answer at most Stay old.
LEMMA AllowedHeld ==
    ASSUME ApiInv, NEW w \in Workers, Allowed(w)
    PROVE  /\ At(w, "fetch") => Held(ask[w].user, job[w].file, "read", Lag + Stay)
           /\ At(w, "deleteObject") =>
                \/ Owner[job[w].file] = ask[w].user
                \/ Held(ask[w].user, job[w].file, "delete", Lag + Stay)
<1>1. AllowedBy(w) /\ RowsWell /\ now \in Nat
  BY DEF ApiInv, RightsInv
<1>2. PICK t, u, f : t = ask[w].at /\ u = ask[w].user /\ f = job[w].file
  OBVIOUS
<1>3. t \in 1..now /\ now <= t + Stay
  BY <1>1, <1>2 DEF AllowedBy
<1>4. ASSUME NEW n, HeldOf(perms, t, u, f, n, Lag) PROVE Held(u, f, n, Lag + Stay)
  <2>1. PICK p \in DOMAIN perms :
          /\ perms[p].key = <<f, u>>
          /\ Rank[perms[p].level] >= Rank[n]
          /\ perms[p].revokedAt = Never \/ t < perms[p].revokedAt + Lag
          /\ perms[p].expires = Never \/ t < perms[p].expires + Lag
    BY <1>4 DEF HeldOf
  <2>2. perms[p].revokedAt \in Nat /\ perms[p].expires \in Nat
    BY <1>1 DEF RowsWell
  <2>3. /\ perms[p].revokedAt = Never \/ now < perms[p].revokedAt + (Lag + Stay)
        /\ perms[p].expires = Never \/ now < perms[p].expires + (Lag + Stay)
    BY <1>1, <1>3, <2>1, <2>2, BoundsAssumption
  <2>4. QED
    BY <2>1, <2>3 DEF Held, Rank, Never
<1>5. QED
  BY <1>1, <1>2, <1>4 DEF AllowedBy

LEMMA ActsHere ==
    ASSUME ApiInv, [ApiNext]_apiVars, NEW w \in Workers
    PROVE  /\ At(w, "fetch") /\ job'[w].pc = "auditDownload" =>
                Held(ask[w].user, job[w].file, "read", Lag + Stay)
           /\ At(w, "deleteObject") /\ job'[w] # job[w] =>
                \/ Owner[job[w].file] = ask[w].user
                \/ Held(ask[w].user, job[w].file, "delete", Lag + Stay)
BY OnlyCheckedFetch, AllowedHeld DEF Allowed

\* Whoever has had a row of a file for Lag, whatever its level, is not refused the
\* download: no cache entry older than the grant is believed any longer.
LEMMA LongSharedReads ==
    ASSUME ApiInv, NEW u, NEW f, LongShared(u, f)
    PROVE  ~MayAnswer(u, f, "read", FALSE)
<1>1. RowsWell /\ now \in Nat
  BY DEF ApiInv, RightsInv
<1>2. PICK p \in DOMAIN perms :
        /\ perms[p].key = <<f, u>> /\ perms[p].grantedAt + Lag <= now
        /\ perms[p].revokedAt = Never /\ Access!NotExpired(perms[p], now)
  BY DEF LongShared, Never
<1>3. perms[p].grantedAt \in Nat /\ perms[p].expires \in Nat
  BY <1>1, <1>2 DEF RowsWell
<1>4. ASSUME NEW t \in 1..now, now < t + Lag PROVE SureRights(u, f, t) # {}
  <2>1. perms[p].grantedAt < t
    BY <1>1, <1>2, <1>3, <1>4, BoundsAssumption
  <2>2. perms[p].expires = Never \/ perms[p].expires > t
    BY <1>1, <1>2, <1>3 DEF Access!NotExpired, Never
  <2>3. p \in SureRights(u, f, t)
    BY <1>2, <2>1, <2>2 DEF SureRights, Access!Sure, Access!NotExpired, Never
  <2>4. QED
    BY <2>3
<1>5. QED
  BY <1>1, <1>4, DownloadRule

\* The rows list_files reads are the ones of now, an answer the service may give.
LEMMA ListingHere == ASSUME ApiInv PROVE ListingAgrees
<1> SUFFICES ASSUME NEW u \in Users, NEW f \in FileIds
             PROVE  /\ f \in Listed(u) /\ Owner[f] # u => MayAnswer(u, f, "read", TRUE)
                    /\ f \in rows /\ ~MayAnswer(u, f, "read", FALSE) => f \in Listed(u)
                    /\ LongShared(u, f) => ~MayAnswer(u, f, "read", FALSE)
                    /\ MayAnswer(u, f, "read", TRUE) => Held(u, f, "read", Lag)
  BY DEF ListingAgrees
<1>1. now \in 1..now /\ now < now + Lag /\ RowsWell
  BY BoundsAssumption DEF ApiInv, RightsInv
<1>2. ASSUME f \in Listed(u), Owner[f] # u
      PROVE  MayAnswer(u, f, "read", TRUE)
  <2>1. PICK p \in DOMAIN perms :
          /\ perms[p].key = <<f, u>> /\ perms[p].revokedAt = Never
          /\ Access!NotExpired(perms[p], now)
    BY <1>2 DEF Listed, Never
  <2>2. p \in Rights(u, f, now)
    BY <1>1, <2>1 DEF Rights, Access!Possible, Never, RowsWell
  <2>3. QED
    BY <1>1, <2>2, DownloadRule
<1>3. ASSUME f \in rows, ~MayAnswer(u, f, "read", FALSE)
      PROVE  f \in Listed(u)
  <2>1. SureRights(u, f, now) # {}
    BY <1>1, <1>3, DownloadRule
  <2>2. PICK p \in DOMAIN perms :
          /\ perms[p].key = <<f, u>>
          /\ perms[p].revokedAt = Never \/ now < perms[p].revokedAt
          /\ Access!NotExpired(perms[p], now)
    BY <2>1 DEF SureRights, Access!Sure, Never
  <2>3. perms[p].revokedAt = Never
    BY <1>1, <2>2 DEF RowsWell
  <2>4. QED
    BY <1>3, <2>2, <2>3 DEF Listed, Never
<1>4. LongShared(u, f) => ~MayAnswer(u, f, "read", FALSE)
  BY LongSharedReads
<1>5. ASSUME MayAnswer(u, f, "read", TRUE)
      PROVE  Held(u, f, "read", Lag)
  <2>1. HeldOf(perms, now, u, f, "read", Lag)
    BY <1>5, AllowedIsRight
  <2>2. QED
    BY <2>1 DEF HeldOf, Held, Rank, Never
<1>6. QED
  BY <1>2, <1>3, <1>4, <1>5

\* Every reachable state of the routes is well formed.
THEOREM RoutesTypeCorrect == ApiSpec => []ApiTypeOK
<1>1. ApiInv => ApiTypeOK
  BY TypeHere
<1>2. QED
  BY <1>1, ApiInvHolds, PTL

\* Nothing is read or removed but by right, whatever happens between the check
\* and the use.
THEOREM AlwaysByRight == ApiSpec => ActsByRight
<1> DEFINE Acts == \A w \in Workers :
         /\ At(w, "fetch") /\ job'[w].pc = "auditDownload" =>
              Held(ask[w].user, job[w].file, "read", Lag + Stay)
         /\ At(w, "deleteObject") /\ job'[w] # job[w] =>
              \/ Owner[job[w].file] = ask[w].user
              \/ Held(ask[w].user, job[w].file, "delete", Lag + Stay)
<1>1. ApiInv /\ [ApiNext]_apiVars => [Acts]_apiVars
  BY ActsHere
<1>2. QED
  BY <1>1, ApiInvHolds, PTL DEF ApiSpec, ActsByRight

\* The owner of a file sees every right on it and can end it.
THEOREM RightsNeverHide == ApiSpec => []RightsStayVisible
<1>1. ApiInv => RightsStayVisible
  BY DEF ApiInv, RightsInv
<1>2. QED
  BY <1>1, ApiInvHolds, PTL

\* Listing and download agree up to the lag.
THEOREM ListingAlwaysAgrees == ApiSpec => []ListingAgrees
<1>1. ApiInv => ListingAgrees
  BY ListingHere
<1>2. QED
  BY <1>1, ApiInvHolds, PTL

\* What FileStore promises holds behind the routes.
COROLLARY StoreHoldsBehindRoutes ==
    ApiSpec => [](UploadDurable /\ DownloadableHasKey /\ DeletedIsGone /\ ListedHasObject)
BY ApiImplementsStore, UploadsEndure, KeysOutliveObjects, DeletedStaysGone,
   ListedKeepsObject, PTL

\* Behind the routes, too, a file only moves forward.
THEOREM RoutesKeepLifecycle == ApiSpec => StoreIsLifecycle
BY ApiImplementsStore, StoreImplementsLifecycle, PTL
\* Why OwnerMayDownload fails: owning a file is no reason to read it, and an owner
\* without a row of its own file is refused until it grants itself one.
THEOREM OwnerNeedsARow ==
    ApiSpec => [](\A f \in FileIds :
                    (\A p \in DOMAIN perms : perms[p].key # <<f, Owner[f]>>)
                      => ~MayAnswer(Owner[f], f, "read", TRUE))
<1>1. ASSUME ApiInv, NEW f \in FileIds,
             \A p \in DOMAIN perms : perms[p].key # <<f, Owner[f]>>
      PROVE  ~MayAnswer(Owner[f], f, "read", TRUE)
  <2>1. \A t : Rights(Owner[f], f, t) = {}
    BY <1>1 DEF Rights, Access!Possible
  <2>2. QED
    BY <1>1, <2>1, DownloadRule DEF ApiInv, RightsInv
<1>2. ApiInv => \A f \in FileIds :
                  (\A p \in DOMAIN perms : perms[p].key # <<f, Owner[f]>>)
                    => ~MayAnswer(Owner[f], f, "read", TRUE)
  BY <1>1
<1>3. QED
  BY <1>2, ApiInvHolds, PTL
=============================================================================
