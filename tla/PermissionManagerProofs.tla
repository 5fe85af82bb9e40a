----------------------- MODULE PermissionManagerProofs -----------------------
(***************************************************************************)
(* Theorems about PermissionManager, for every number of workers, files,   *)
(* users and rows and every TTL, lag and duration: the age of answers, the *)
(* coherence of the cache for a single worker, the audit trail, and the    *)
(* implementation of AccessControl.                                        *)
(***************************************************************************)
EXTENDS PermissionManager, TLAPS, FiniteSetTheorems

-----------------------------------------------------------------------------
(* Levels *)

\* The text order is total on the four level names, so max(level) over a
\* non-empty set of rows is the level of one of them, and the last of them.
LEMMA SqlMaxIsLast ==
    ASSUME NEW S \in SUBSET Levels, S # {}
    PROVE  /\ SqlMax(S) \in S
           /\ \A m \in S : CollationRank[m] <= CollationRank[SqlMax(S)]
<1>1. \E l \in S : \A m \in S : CollationRank[m] <= CollationRank[l]
  <2>1. CASE "write" \in S
    BY <2>1 DEF Levels, CollationRank
  <2>2. CASE "write" \notin S /\ "read" \in S
    BY <2>2 DEF Levels, CollationRank
  <2>3. CASE "write" \notin S /\ "read" \notin S /\ "delete" \in S
    BY <2>3 DEF Levels, CollationRank
  <2>4. CASE S = {"admin"}
    BY <2>4 DEF CollationRank
  <2>5. QED
    BY <2>1, <2>2, <2>3, <2>4 DEF Levels
<1>2. QED
  BY <1>1 DEF SqlMax

\* Ranks are small numbers.
LEMMA RankOfLevel ==
    ASSUME NEW l \in Levels
    PROVE  LEVEL_HIERARCHY[l] \in 0..3
BY DEF Levels, LEVEL_HIERARCHY

\* What check_permission computes is NoLevel or the rank of a level really
\* held: func.max may pick a low level, never a level nobody granted.
LEMMA EffectiveIntIsHeld ==
    ASSUME NEW S \in SUBSET Levels
    PROVE  /\ EffectiveInt(S) \in Int
           /\ EffectiveInt(S) = NoLevel \/ \E l \in S : EffectiveInt(S) = LEVEL_HIERARCHY[l]
<1>1. CASE S = {}
  BY <1>1 DEF EffectiveInt, NoLevel
<1>2. CASE S # {}
  <2>1. SqlMax(S) \in S
    BY <1>2, SqlMaxIsLast
  <2>2. LEVEL_HIERARCHY[SqlMax(S)] \in Int
    BY <2>1, RankOfLevel
  <2>3. QED
    BY <1>2, <2>1, <2>2 DEF EffectiveInt
<1>3. QED
  BY <1>1, <1>2

-----------------------------------------------------------------------------
(* Type correctness *)

\* A worker at a pc holds the record of that pc.
LEMMA JobShape ==
    ASSUME TypeOK, NEW w \in Workers
    PROVE  /\ job[w].pc \in WritingPc => job[w] \in WriteJob
           /\ job[w].pc = "query" => job[w] \in QueryJob
           /\ job[w].pc = "fill" => job[w] \in FillJob
           /\ job[w].pc \in {"allowed", "denied"} => job[w] \in AnswerJob
           /\ job[w].pc = "idle" <=> job[w] = Idle
BY DEF TypeOK, Job, Idle, WriteJob, QueryJob, FillJob, AnswerJob, WritingPc

LEMMA VerdictType ==
    ASSUME NEW k \in Keys, NEW n \in Levels, NEW l \in Int, now \in Nat
    PROVE  /\ Verdict(k, n, l) \in AnswerJob
           /\ Verdict(k, n, l).pc = "allowed" => l >= LEVEL_HIERARCHY[n]
           /\ Verdict(k, n, l).key = k
           /\ Verdict(k, n, l).need = n
           /\ Verdict(k, n, l).at = now
BY DEF Verdict, AnswerJob

LEMMA TypeInit == Init => TypeOK
BY DEF Init, TypeOK, Job

LEMMA TypeNext == TypeOK /\ [Next]_vars => TypeOK'
<1> SUFFICES ASSUME TypeOK, [Next]_vars PROVE TypeOK'
  OBVIOUS
<1> USE TimeAssumption, LevelsAssumption
<1>1. ASSUME NEW w \in Workers, NEW k \in Keys, NEW l \in GrantLevels,
             NEW d \in Durations, NEW p \in PermIds, GrantCommit(w, k, l, d, p)
      PROVE  TypeOK'
  <2>1. NewRow(k, l, d) \in Row
    BY DEF NewRow, Row, Expiry, Never, TypeOK
  <2>2. DOMAIN perms' \subseteq PermIds /\ perms' \in [DOMAIN perms' -> Row]
    BY <1>1, <2>1 DEF GrantCommit, TypeOK, Put
  <2>3. [pc |-> "auditGrant", perm |-> p, key |-> k] \in WriteJob
    BY DEF WriteJob, WritingPc
  <2>4. job' \in [Workers -> Job]
    BY <1>1, <2>3 DEF GrantCommit, TypeOK, Job
  <2>5. QED
    BY <1>1, <2>2, <2>4 DEF GrantCommit, TypeOK
<1>2. ASSUME NEW w \in Workers, GrantAudit(w)
      PROVE  TypeOK'
  <2>1. job[w] \in WriteJob
    BY <1>2, JobShape DEF GrantAudit, WritingPc
  <2>2. job' \in [Workers -> Job]
    BY <1>2, <2>1 DEF GrantAudit, Goto, TypeOK, Job, WriteJob, WritingPc
  <2>3. audit' \subseteq Block
    BY <1>2, <2>1 DEF GrantAudit, TypeOK, WriteJob, Block
  <2>4. QED
    BY <1>2, <2>2, <2>3 DEF GrantAudit, TypeOK
<1>3. ASSUME NEW w \in Workers, StoreHash(w)
      PROVE  TypeOK'
  <2>1. job[w] \in WriteJob
    BY <1>3, JobShape DEF StoreHash, WritingPc
  <2>2. job' \in [Workers -> Job]
    BY <1>3, <2>1 DEF StoreHash, Goto, TypeOK, Job, WriteJob, WritingPc
  <2>3. DOMAIN perms' \subseteq PermIds /\ perms' \in [DOMAIN perms' -> Row]
    <3>1. CASE perms' = perms
      BY <3>1 DEF TypeOK
    <3>2. CASE perms' = [perms EXCEPT ![job[w].perm].traced = TRUE]
      <4>1. ASSUME NEW p \in DOMAIN perms
            PROVE  [perms[p] EXCEPT !.traced = TRUE] \in Row
        BY DEF TypeOK, Row
      <4>2. QED
        BY <3>2, <4>1 DEF TypeOK
    <3>3. QED
      BY <1>3, <3>1, <3>2 DEF StoreHash
  <2>4. QED
    BY <1>3, <2>2, <2>3 DEF StoreHash, TypeOK
<1>4. ASSUME NEW w \in Workers, NEW p \in PermIds, RevokeCommit(w, p)
      PROVE  TypeOK'
  <2>1. perms[p].key \in Keys
    BY <1>4 DEF RevokeCommit, TypeOK, Row
  <2>2. job' \in [Workers -> Job]
    BY <1>4, <2>1 DEF RevokeCommit, TypeOK, Job, WriteJob, WritingPc
  <2>3. DOMAIN perms' \subseteq PermIds /\ perms' \in [DOMAIN perms' -> Row]
    BY <1>4 DEF RevokeCommit, TypeOK, Row
  <2>4. QED
    BY <1>4, <2>2, <2>3 DEF RevokeCommit, TypeOK
<1>5. ASSUME NEW w \in Workers, RevokeAudit(w)
      PROVE  TypeOK'
  <2>1. job[w] \in WriteJob
    BY <1>5, JobShape DEF RevokeAudit, WritingPc
  <2>2. job' \in [Workers -> Job]
    BY <1>5, <2>1 DEF RevokeAudit, Goto, BeIdle, TypeOK, Job, WriteJob, WritingPc
  <2>3. audit' \subseteq Block /\ interrupted' \subseteq Keys
    BY <1>5, <2>1 DEF RevokeAudit, TypeOK, WriteJob, Block
  <2>4. QED
    BY <1>5, <2>2, <2>3 DEF RevokeAudit, TypeOK
<1>6. ASSUME NEW w \in Workers, Invalidate(w)
      PROVE  TypeOK'
  <2>1. DOMAIN cache' \subseteq Keys /\ cache' \in [DOMAIN cache' -> Entry]
    BY <1>6 DEF Invalidate, Drop, Restrict, TypeOK
  <2>2. job' \in [Workers -> Job]
    BY <1>6 DEF Invalidate, BeIdle, TypeOK, Job
  <2>3. QED
    BY <1>6, <2>1, <2>2 DEF Invalidate, TypeOK
<1>7. ASSUME NEW w \in Workers, NEW k \in Keys, NEW n \in Needs, CheckHit(w, k, n)
      PROVE  TypeOK'
  <2>1. cache[k].level \in Int
    BY <1>7 DEF CheckHit, TypeOK, Entry
  <2>2. Verdict(k, n, cache[k].level) \in AnswerJob
    BY <2>1, VerdictType DEF TypeOK
  <2>3. QED
    BY <1>7, <2>2 DEF CheckHit, TypeOK, Job
<1>8. ASSUME NEW w \in Workers, NEW k \in Keys, NEW n \in Needs, CheckMiss(w, k, n)
      PROVE  TypeOK'
  BY <1>8 DEF CheckMiss, TypeOK, Job, QueryJob
<1>9. ASSUME NEW w \in Workers, CheckQuery(w)
      PROVE  TypeOK'
  <2>1. job[w] \in QueryJob
    BY <1>9, JobShape DEF CheckQuery
  <2>2. ActiveLevels(perms, job[w].key, now) \in SUBSET Levels
    BY DEF ActiveLevels, ActiveRows, TypeOK, Row
  <2>3. EffectiveInt(ActiveLevels(perms, job[w].key, now)) \in Int
    BY <2>2, EffectiveIntIsHeld
  <2>4. QED
    BY <1>9, <2>1, <2>3 DEF CheckQuery, TypeOK, Job, QueryJob, FillJob
<1>10. ASSUME NEW w \in Workers, CheckFill(w)
       PROVE  TypeOK'
  <2>1. job[w] \in FillJob
    BY <1>10, JobShape DEF CheckFill
  <2>2. Verdict(job[w].key, job[w].need, job[w].level) \in AnswerJob
    BY <2>1, VerdictType DEF FillJob, TypeOK
  <2>3. [level |-> job[w].level, readAt |-> job[w].at, exp |-> now + TTL] \in Entry
    BY <2>1 DEF FillJob, Entry, TypeOK
  <2>4. DOMAIN cache' \subseteq Keys /\ cache' \in [DOMAIN cache' -> Entry]
    BY <1>10, <2>1, <2>3 DEF CheckFill, TypeOK, FillJob, Put
  <2>5. QED
    BY <1>10, <2>2, <2>4 DEF CheckFill, TypeOK, Job
<1>11. ASSUME NEW w \in Workers, Return(w)
       PROVE  TypeOK'
  BY <1>11 DEF Return, BeIdle, TypeOK, Job
<1>12. ASSUME NEW w \in Workers, Abort(w)
       PROVE  TypeOK'
  <2>1. interrupted' \subseteq Keys
    BY <1>12, JobShape DEF Abort, TypeOK, WriteJob
  <2>2. QED
    BY <1>12, <2>1 DEF Abort, BeIdle, TypeOK, Job
<1>13. ASSUME NEW k \in Keys, Evict(k)
       PROVE  TypeOK'
  <2>1. DOMAIN cache' \subseteq Keys /\ cache' \in [DOMAIN cache' -> Entry]
    BY <1>13 DEF Evict, Drop, Restrict, TypeOK
  <2>2. QED
    BY <1>13, <2>1 DEF Evict, TypeOK
<1>14. CASE Tick
  <2>1. DOMAIN cache' \subseteq Keys /\ cache' \in [DOMAIN cache' -> Entry]
    BY <1>14 DEF Tick, Restrict, TypeOK
  <2>2. QED
    BY <1>14, <2>1 DEF Tick, TypeOK
<1>15. CASE UNCHANGED vars
  BY <1>15 DEF vars, TypeOK
<1>16. ASSUME NEW w \in Workers, NEW f \in Files, DeleteFile(w, f)
       PROVE  TypeOK'
  <2>1. ASSUME NEW p \in DOMAIN perms
        PROVE  [perms[p] EXCEPT !.revokedAt = now] \in Row
    BY DEF TypeOK, Row
  <2>2. DOMAIN perms' \subseteq PermIds /\ perms' \in [DOMAIN perms' -> Row]
    BY <1>16, <2>1 DEF DeleteFile, TypeOK
  <2>3. QED
    BY <1>16, <2>2 DEF DeleteFile, TypeOK
<1>17. QED
  BY <1>1, <1>2, <1>3, <1>4, <1>5, <1>6, <1>7, <1>8, <1>9, <1>10, <1>11, <1>12,
     <1>13, <1>14, <1>15, <1>16 DEF Next

\* Every reachable state is well formed.
THEOREM TypeCorrect == Spec => []TypeOK
BY TypeInit, TypeNext, PTL DEF Spec
-----------------------------------------------------------------------------
(* Bounded staleness *)

\* No step deletes a row or changes what it grants, and a step that revokes
\* one does so at the current instant.
LEMMA RowsStable ==
    ASSUME TypeOK, [Next]_vars, NEW q \in DOMAIN perms
    PROVE  /\ q \in DOMAIN perms'
           /\ perms'[q].key = perms[q].key
           /\ perms'[q].level = perms[q].level
           /\ perms'[q].grantedAt = perms[q].grantedAt
           /\ perms'[q].expires = perms[q].expires
           /\ \/ perms'[q].revokedAt = perms[q].revokedAt
              \/ perms[q].revokedAt = Never /\ perms'[q].revokedAt = now
<1> DEFINE Goal == /\ q \in DOMAIN perms'
                   /\ perms'[q].key = perms[q].key
                   /\ perms'[q].level = perms[q].level
                   /\ perms'[q].grantedAt = perms[q].grantedAt
                   /\ perms'[q].expires = perms[q].expires
                   /\ \/ perms'[q].revokedAt = perms[q].revokedAt
                      \/ perms[q].revokedAt = Never /\ perms'[q].revokedAt = now
<1>1. CASE perms' = perms
  BY <1>1
<1>2. ASSUME NEW w \in Workers, NEW k \in Keys, NEW l \in GrantLevels,
             NEW d \in Durations, NEW p \in PermIds, GrantCommit(w, k, l, d, p)
      PROVE  Goal
  BY <1>2 DEF GrantCommit, Put
<1>3. ASSUME NEW w \in Workers, StoreHash(w)
      PROVE  Goal
  <2>1. perms[q] \in Row
    BY DEF TypeOK
  <2>2. CASE perms' = [perms EXCEPT ![job[w].perm].traced = TRUE]
    BY <2>1, <2>2 DEF Row
  <2>3. QED
    BY <1>1, <1>3, <2>2 DEF StoreHash
<1>4. ASSUME NEW w \in Workers, NEW p \in PermIds, RevokeCommit(w, p)
      PROVE  Goal
  BY <1>4 DEF RevokeCommit, TypeOK, Row
<1>5. ASSUME NEW w \in Workers, NEW f \in Files, DeleteFile(w, f)
      PROVE  Goal
  <2>1. perms[q] \in Row
    BY DEF TypeOK
  <2>2. QED
    BY <1>5, <2>1 DEF DeleteFile, Row
<1>6. QED
  BY <1>1, <1>2, <1>3, <1>4, <1>5
     DEF Next, vars, GrantAudit, RevokeAudit, Invalidate, CheckHit, CheckMiss,
         CheckQuery, CheckFill, Return, Abort, Evict, Tick

\* What was held at an instant that has passed stays held at that instant.
LEMMA HeldStable ==
    ASSUME TypeOK, [Next]_vars, NEW k, NEW n, NEW t \in Nat, t <= now, Held(perms, k, n, t)
    PROVE  Held(perms', k, n, t)
<1>1. CASE n = NoLevel
  BY <1>1 DEF Held
<1>2. CASE n # NoLevel
  <2>1. PICK p \in DOMAIN perms :
          /\ perms[p].key = k
          /\ LEVEL_HIERARCHY[perms[p].level] = n
          /\ perms[p].grantedAt <= t
          /\ perms[p].revokedAt = Never \/ t <= perms[p].revokedAt
          /\ perms[p].expires = Never \/ t < perms[p].expires
    BY <1>2 DEF Held
  <2>2. /\ p \in DOMAIN perms'
        /\ perms'[p].key = perms[p].key
        /\ perms'[p].level = perms[p].level
        /\ perms'[p].grantedAt = perms[p].grantedAt
        /\ perms'[p].expires = perms[p].expires
        /\ \/ perms'[p].revokedAt = perms[p].revokedAt
           \/ perms[p].revokedAt = Never /\ perms'[p].revokedAt = now
    BY RowsStable
  <2>3. perms'[p].revokedAt = Never \/ t <= perms'[p].revokedAt
    BY <2>1, <2>2
  <2>4. QED
    BY <2>1, <2>2, <2>3 DEF Held
<1>3. QED
  BY <1>1, <1>2

\* The level the query computes is held at the instant of the query.
LEMMA QueryIsHeld ==
    ASSUME TypeOK, HeldInvariant, NEW k \in Keys
    PROVE  Held(perms, k, EffectiveInt(ActiveLevels(perms, k, now)), now)
<1>1. ActiveLevels(perms, k, now) \in SUBSET Levels
  BY DEF ActiveLevels, ActiveRows, TypeOK, Row
<1>2. CASE EffectiveInt(ActiveLevels(perms, k, now)) = NoLevel
  BY <1>2 DEF Held
<1>3. CASE \E l \in ActiveLevels(perms, k, now) :
             EffectiveInt(ActiveLevels(perms, k, now)) = LEVEL_HIERARCHY[l]
  <2>1. PICK p \in ActiveRows(perms, k, now) :
             EffectiveInt(ActiveLevels(perms, k, now)) = LEVEL_HIERARCHY[perms[p].level]
    BY <1>3 DEF ActiveLevels
  <2>2. /\ p \in DOMAIN perms
        /\ perms[p].key = k
        /\ perms[p].revokedAt = Never
        /\ perms[p].expires = Never \/ perms[p].expires > now
        /\ perms[p].grantedAt <= now
    BY DEF ActiveRows, NotExpired, HeldInvariant
  <2>3. perms[p].expires = Never \/ now < perms[p].expires
    BY <2>2 DEF TypeOK, Row
  <2>4. QED
    BY <2>1, <2>2, <2>3 DEF Held
<1>4. QED
  BY <1>1, <1>2, <1>3, EffectiveIntIsHeld

\* A row held at a passed instant t still grants its level, with staleness s,
\* to an answer given less than s after t.
LEMMA HeldGrants ==
    ASSUME TypeOK, NEW k, NEW n \in Int, NEW need \in Levels, NEW t \in Nat,
           NEW s \in Nat, Held(perms, k, n, t), n >= LEVEL_HIERARCHY[need],
           t <= now, now < t + s
    PROVE  \E p \in DOMAIN perms : Grants(perms[p], k, LEVEL_HIERARCHY[need], now, s)
<1>1. n # NoLevel
  BY RankOfLevel DEF NoLevel
<1>2. PICK p \in DOMAIN perms :
        /\ perms[p].key = k
        /\ LEVEL_HIERARCHY[perms[p].level] = n
        /\ perms[p].grantedAt <= t
        /\ perms[p].revokedAt = Never \/ t <= perms[p].revokedAt
        /\ perms[p].expires = Never \/ t < perms[p].expires
  BY <1>1 DEF Held
<1>3. perms[p] \in Row /\ now \in Nat
  BY DEF TypeOK
<1>4. Grants(perms[p], k, LEVEL_HIERARCHY[need], now, s)
  BY <1>2, <1>3, RankOfLevel DEF Grants, Row
<1>5. QED
  BY <1>4

LEMMA ClockStep ==
    ASSUME TypeOK, [Next]_vars
    PROVE  now' = now \/ (Tick /\ now' = now + 1)
BY DEF Next, vars, GrantCommit, GrantAudit, StoreHash, RevokeCommit, RevokeAudit,
       Invalidate, DeleteFile, CheckHit, CheckMiss, CheckQuery, CheckFill, Return, Abort, Evict, Tick

\* An entry present after a step was there before it, unchanged and not past
\* its end, or a worker has just stored it.
LEMMA CacheEffect ==
    ASSUME TypeOK, HeldInvariant, [Next]_vars, NEW k \in DOMAIN cache'
    PROVE  \/ k \in DOMAIN cache /\ cache'[k] = cache[k] /\ now' < cache[k].exp
           \/ \E w \in Workers : CheckFill(w) /\ k = job[w].key
<1> DEFINE Kept == k \in DOMAIN cache /\ cache'[k] = cache[k] /\ now' < cache[k].exp
<1>1. CASE cache' = cache /\ now' = now
  BY <1>1 DEF HeldInvariant
<1>2. ASSUME NEW w \in Workers, Invalidate(w)
      PROVE  Kept
  BY <1>2 DEF Invalidate, Drop, Restrict, HeldInvariant
<1>3. ASSUME NEW w \in Workers, CheckFill(w), k # job[w].key
      PROVE  Kept
  BY <1>3 DEF CheckFill, Put, HeldInvariant
<1>4. ASSUME NEW j \in Keys, Evict(j)
      PROVE  Kept
  BY <1>4 DEF Evict, Drop, Restrict, HeldInvariant
<1>5. CASE Tick
  BY <1>5 DEF Tick, Restrict, TypeOK, Entry
<1>6. QED
  BY <1>1, <1>2, <1>3, <1>4, <1>5
     DEF Next, vars, GrantCommit, GrantAudit, StoreHash, RevokeCommit, RevokeAudit,
         DeleteFile, CheckHit, CheckMiss, CheckQuery, Return, Abort

\* A worker that holds a level to store or an answer after a step held it
\* before, or has just computed it.
LEMMA JobEffect ==
    ASSUME TypeOK, [Next]_vars, NEW w \in Workers,
           job'[w].pc \in {"fill", "allowed", "denied"}
    PROVE  \/ job'[w] = job[w]
           \/ CheckQuery(w) /\ job'[w].pc = "fill"
           \/ CheckFill(w) /\ job'[w].pc # "fill"
           \/ \E k \in Keys, n \in Needs : CheckHit(w, k, n) /\ job'[w].pc # "fill"
<1> DEFINE Goal == \/ job'[w] = job[w]
                   \/ CheckQuery(w) /\ job'[w].pc = "fill"
                   \/ CheckFill(w) /\ job'[w].pc # "fill"
                   \/ \E k \in Keys, n \in Needs : CheckHit(w, k, n) /\ job'[w].pc # "fill"
<1> USE DEF TypeOK
<1>1. CASE job' = job
  BY <1>1
<1>2. ASSUME NEW v \in Workers, NEW k \in Keys, NEW l \in GrantLevels,
             NEW d \in Durations, NEW p \in PermIds, GrantCommit(v, k, l, d, p)
      PROVE  Goal
  BY <1>2 DEF GrantCommit
<1>3. ASSUME NEW v \in Workers, NEW pc \in WritingPc, job[v].pc \in WritingPc, Goto(v, pc)
      PROVE  Goal
  <2>1. CASE v = w
    <3>1. job[v] \in WriteJob
      BY <1>3, JobShape
    <3>2. job'[v].pc = pc
      BY <1>3, <3>1 DEF Goto, WriteJob
    <3>3. QED
      BY <2>1, <3>2 DEF WritingPc
  <2>2. QED
    BY <1>3, <2>1 DEF Goto
<1>4. ASSUME NEW v \in Workers, BeIdle(v)
      PROVE  Goal
  BY <1>4 DEF BeIdle, Idle
<1>5. ASSUME NEW v \in Workers, NEW p \in PermIds, RevokeCommit(v, p)
      PROVE  Goal
  BY <1>5 DEF RevokeCommit
<1>6. ASSUME NEW v \in Workers, NEW k \in Keys, NEW n \in Needs, CheckHit(v, k, n)
      PROVE  Goal
  BY <1>6 DEF CheckHit, Verdict
<1>7. ASSUME NEW v \in Workers, NEW k \in Keys, NEW n \in Needs, CheckMiss(v, k, n)
      PROVE  Goal
  BY <1>7 DEF CheckMiss
<1>8. ASSUME NEW v \in Workers, CheckQuery(v)
      PROVE  Goal
  <2>1. CASE v = w
    BY <1>8, <2>1 DEF CheckQuery
  <2>2. CASE v # w
    BY <1>8, <2>2 DEF CheckQuery
  <2>3. QED
    BY <2>1, <2>2
<1>9. ASSUME NEW v \in Workers, CheckFill(v)
      PROVE  Goal
  <2>1. job'[v].pc \in {"allowed", "denied"}
    BY <1>9 DEF CheckFill, Verdict
  <2>2. CASE v = w
    BY <1>9, <2>1, <2>2
  <2>3. CASE v # w
    BY <1>9, <2>3 DEF CheckFill
  <2>4. QED
    BY <2>2, <2>3
<1>10. ASSUME NEW v \in Workers, GrantAudit(v) \/ StoreHash(v) \/ RevokeAudit(v)
       PROVE  Goal
  BY <1>10, <1>3, <1>4 DEF GrantAudit, StoreHash, RevokeAudit, WritingPc
<1>11. QED
  BY <1>1, <1>2, <1>4, <1>5, <1>6, <1>7, <1>8, <1>9, <1>10
     DEF Next, vars, Invalidate, DeleteFile, Return, Abort, Evict, Tick

\* A row that a step adds is granted at the current instant and not revoked.
LEMMA NewRowIsOfNow ==
    ASSUME TypeOK, [Next]_vars, NEW p \in DOMAIN perms', p \notin DOMAIN perms
    PROVE  perms'[p].grantedAt = now /\ perms'[p].revokedAt = Never /\ now' = now
<1>1. PICK w \in Workers, k \in Keys, l \in GrantLevels, d \in Durations,
           q \in PermIds : GrantCommit(w, k, l, d, q)
  BY DEF Next, vars, GrantAudit, StoreHash, RevokeCommit, RevokeAudit,
     Invalidate, DeleteFile, CheckHit, CheckMiss, CheckQuery, CheckFill, Return, Abort,
     Evict, Tick
<1>2. QED
  BY <1>1 DEF GrantCommit, Put, NewRow

LEMMA HeldInit == Init => HeldInvariant /\ AllowedJustified
BY DEF Init, HeldInvariant, AllowedJustified, Idle

LEMMA HeldNext ==
    ASSUME TypeOK, TypeOK', HeldInvariant, [Next]_vars
    PROVE  HeldInvariant'
<1> USE TimeAssumption
<1>1. \A p \in DOMAIN perms' : perms'[p].grantedAt <= now'
  <2> TAKE p \in DOMAIN perms'
  <2>1. CASE p \in DOMAIN perms
    BY <2>1, RowsStable, ClockStep DEF HeldInvariant, TypeOK, Row
  <2>2. CASE p \notin DOMAIN perms
    BY <2>2, NewRowIsOfNow DEF TypeOK
  <2>3. QED
    BY <2>1, <2>2
<1>2. ASSUME NEW k \in DOMAIN cache'
      PROVE  /\ Held(perms', k, cache'[k].level, cache'[k].readAt)
             /\ cache'[k].readAt <= now'
             /\ now' < cache'[k].exp
             /\ cache'[k].exp <= cache'[k].readAt + Staleness
  <2>1. CASE k \in DOMAIN cache /\ cache'[k] = cache[k] /\ now' < cache[k].exp
    <3>1. cache[k] \in Entry
      BY <2>1 DEF TypeOK
    <3>2. Held(perms', k, cache[k].level, cache[k].readAt)
      BY <2>1, <3>1, HeldStable DEF HeldInvariant, Entry
    <3>3. cache[k].readAt <= now'
      BY <2>1, <3>1, ClockStep DEF HeldInvariant, Entry, TypeOK
    <3>4. QED
      BY <2>1, <3>2, <3>3 DEF HeldInvariant
  <2>2. ASSUME NEW w \in Workers, CheckFill(w), k = job[w].key
        PROVE  /\ Held(perms', k, cache'[k].level, cache'[k].readAt)
               /\ cache'[k].readAt <= now'
               /\ now' < cache'[k].exp
               /\ cache'[k].exp <= cache'[k].readAt + Staleness
    <3>1. job[w] \in FillJob
      BY <2>2, JobShape DEF CheckFill
    <3>2. cache'[k] = [level |-> job[w].level, readAt |-> job[w].at, exp |-> now + TTL]
      BY <2>2 DEF CheckFill, Put
    <3>3. Held(perms, k, job[w].level, job[w].at) /\ job[w].at <= now /\ now <= job[w].at + MaxLag
      BY <2>2 DEF CheckFill, HeldInvariant
    <3>4. Held(perms', k, job[w].level, job[w].at)
      BY <3>1, <3>3, HeldStable DEF FillJob
    <3>5. now' = now
      BY <2>2 DEF CheckFill
    <3>6. QED
      BY <3>1, <3>2, <3>3, <3>4, <3>5 DEF Staleness, FillJob, TypeOK
  <2>3. QED
    BY <2>1, <2>2, CacheEffect
<1>3. ASSUME NEW w \in Workers
      PROVE  /\ job'[w].pc = "fill" =>
                  /\ Held(perms', job'[w].key, job'[w].level, job'[w].at)
                  /\ job'[w].at <= now'
                  /\ now' <= job'[w].at + MaxLag
             /\ job'[w].pc \in {"allowed", "denied"} => job'[w].at <= now'
  <2>1. CASE job'[w] = job[w]
    <3>1. ASSUME job[w].pc = "fill"
          PROVE  /\ Held(perms', job[w].key, job[w].level, job[w].at)
                 /\ job[w].at <= now'
                 /\ now' <= job[w].at + MaxLag
      <4>1. job[w] \in FillJob
        BY <3>1, JobShape
      <4>2. Held(perms', job[w].key, job[w].level, job[w].at)
        BY <3>1, <4>1, HeldStable DEF HeldInvariant, FillJob
      <4>3. job[w].at <= now' /\ now' <= job[w].at + MaxLag
        BY <3>1, <4>1, ClockStep DEF HeldInvariant, FillJob, TypeOK, Tick
      <4>4. QED
        BY <4>2, <4>3
    <3>2. ASSUME job[w].pc \in {"allowed", "denied"}
          PROVE  job[w].at <= now'
      <4>1. job[w] \in AnswerJob
        BY <3>2, JobShape
      <4>2. QED
        BY <3>2, <4>1, ClockStep DEF HeldInvariant, AnswerJob, TypeOK
    <3>3. QED
      BY <2>1, <3>1, <3>2
  <2>2. CASE CheckQuery(w)
    <3>1. job[w] \in QueryJob
      BY <2>2, JobShape DEF CheckQuery
    <3>2. /\ job'[w].pc = "fill"
          /\ job'[w].key = job[w].key
          /\ job'[w].at = now
          /\ job'[w].level = EffectiveInt(ActiveLevels(perms, job[w].key, now))
          /\ now' = now
      BY <2>2 DEF CheckQuery, TypeOK
    <3>3. Held(perms, job[w].key, EffectiveInt(ActiveLevels(perms, job[w].key, now)), now)
      BY <3>1, QueryIsHeld DEF QueryJob
    <3>4. Held(perms', job'[w].key, job'[w].level, job'[w].at)
      BY <2>2, <3>2, <3>3 DEF CheckQuery
    <3>5. QED
      BY <3>2, <3>4 DEF TypeOK
  <2>3. CASE CheckFill(w) \/ \E k \in Keys, n \in Needs : CheckHit(w, k, n)
    <3>1. job'[w].at = now /\ job'[w].pc # "fill" /\ now' = now
      BY <2>3 DEF CheckFill, CheckHit, Verdict, TypeOK
    <3>2. QED
      BY <3>1 DEF TypeOK
  <2>4. QED
    BY <2>1, <2>2, <2>3, JobEffect
<1>4. QED
  BY <1>1, <1>2, <1>3 DEF HeldInvariant

LEMMA AllowedNext ==
    ASSUME TypeOK, HeldInvariant, AllowedJustified, [Next]_vars
    PROVE  AllowedJustified'
<1> USE TimeAssumption
<1> SUFFICES ASSUME NEW w \in Workers, job'[w].pc = "allowed"
             PROVE  \E p \in DOMAIN perms' :
                       Grants(perms'[p], job'[w].key, LEVEL_HIERARCHY[job'[w].need],
                              job'[w].at, Staleness)
  BY DEF AllowedJustified
<1>1. Staleness \in Nat \ {0}
  BY DEF Staleness
<1>2. CASE job'[w] = job[w]
  <2>1. job[w] \in AnswerJob
    BY <1>2, JobShape
  <2>2. LEVEL_HIERARCHY[job[w].need] \in Int
    BY <2>1, RankOfLevel DEF AnswerJob
  <2>3. PICK p \in DOMAIN perms :
           Grants(perms[p], job[w].key, LEVEL_HIERARCHY[job[w].need], job[w].at, Staleness)
    BY <1>2 DEF AllowedJustified
  <2>4. job[w].at \in Nat /\ job[w].at <= now
    BY <1>2, <2>1 DEF HeldInvariant, AnswerJob
  <2>5. /\ p \in DOMAIN perms'
        /\ perms'[p].key = perms[p].key
        /\ perms'[p].level = perms[p].level
        /\ perms'[p].grantedAt = perms[p].grantedAt
        /\ perms'[p].expires = perms[p].expires
        /\ perms'[p].revokedAt = Never \/ job[w].at < perms'[p].revokedAt + Staleness
    BY <1>1, <2>3, <2>4, RowsStable DEF Grants, TypeOK
  <2>6. QED
    BY <1>2, <2>3, <2>5 DEF Grants
<1>3. ASSUME NEW k \in Keys, NEW need \in Levels, NEW n \in Int, NEW t \in Nat,
             job'[w] = Verdict(k, need, n), Held(perms, k, n, t),
             t <= now, now < t + Staleness, perms' = perms, now' = now
      PROVE  \E p \in DOMAIN perms' :
                Grants(perms'[p], job'[w].key, LEVEL_HIERARCHY[job'[w].need],
                       job'[w].at, Staleness)
  <2>1. n >= LEVEL_HIERARCHY[need]
    BY <1>3, VerdictType DEF TypeOK
  <2>2. PICK p \in DOMAIN perms : Grants(perms[p], k, LEVEL_HIERARCHY[need], now, Staleness)
    BY <1>1, <1>3, <2>1, HeldGrants
  <2>3. QED
    BY <1>3, <2>2 DEF Verdict
<1>4. CASE CheckFill(w)
  <2>1. job[w] \in FillJob
    BY <1>4, JobShape DEF CheckFill
  <2>2. /\ job'[w] = Verdict(job[w].key, job[w].need, job[w].level)
        /\ perms' = perms
        /\ now' = now
    BY <1>4 DEF CheckFill, TypeOK
  <2>3. /\ Held(perms, job[w].key, job[w].level, job[w].at)
        /\ job[w].at <= now
        /\ now < job[w].at + Staleness
    BY <1>4, <2>1 DEF CheckFill, HeldInvariant, Staleness, FillJob, TypeOK
  <2>4. QED
    BY <1>3, <2>1, <2>2, <2>3 DEF FillJob
<1>5. ASSUME NEW k \in Keys, NEW need \in Needs, CheckHit(w, k, need)
      PROVE  \E p \in DOMAIN perms' :
                Grants(perms'[p], job'[w].key, LEVEL_HIERARCHY[job'[w].need],
                       job'[w].at, Staleness)
  <2>1. k \in DOMAIN cache /\ cache[k] \in Entry
    BY <1>5 DEF CheckHit, TypeOK
  <2>2. /\ job'[w] = Verdict(k, need, cache[k].level)
        /\ perms' = perms
        /\ now' = now
    BY <1>5 DEF CheckHit, TypeOK
  <2>3. /\ Held(perms, k, cache[k].level, cache[k].readAt)
        /\ cache[k].readAt <= now
        /\ now < cache[k].readAt + Staleness
    BY <1>1, <2>1 DEF HeldInvariant, Entry, TypeOK
  <2>4. need \in Levels
    BY LevelsAssumption
  <2>5. QED
    BY <1>3, <2>1, <2>2, <2>3, <2>4 DEF Entry
<1>6. QED
  BY <1>2, <1>4, <1>5, JobEffect

\* Whatever the number of workers, their interleaving, their failures and the
\* evictions of Redis, a True answer of check_permission rests on a row granted
\* before it and revoked or expired for less than TTL + MaxLag.
THEOREM BoundedStaleness == Spec => []AllowedJustified
<1>1. TypeOK /\ HeldInvariant /\ AllowedJustified /\ [Next]_vars
        => (TypeOK /\ HeldInvariant /\ AllowedJustified)'
  BY TypeNext, HeldNext, AllowedNext
<1>2. QED
  BY <1>1, TypeInit, HeldInit, PTL DEF Spec
-----------------------------------------------------------------------------
(* The deployment of the repository, a single worker; and the audit trail of
   permissions, for any number. *)

\* A step leaves the rows the query selects for k as they are, or it starts a
\* writer of k, or deletes the file of k.
LEMMA ActiveStep ==
    ASSUME TypeOK, [Next]_vars, NEW k, NEW t
    PROVE  \/ ActiveLevels(perms', k, t) = ActiveLevels(perms, k, t)
           \/ \E w \in Workers : job'[w].pc \in WritingPc /\ job'[w].key = k
           \/ \E w \in Workers, f \in Files : DeleteFile(w, f) /\ k[1] = f
<1> DEFINE Same == ActiveLevels(perms', k, t) = ActiveLevels(perms, k, t)
           Starts == \E w \in Workers : job'[w].pc \in WritingPc /\ job'[w].key = k
<1>1. CASE perms' = perms
  BY <1>1
<1>2. ASSUME NEW w \in Workers, NEW j \in Keys, NEW l \in GrantLevels,
             NEW d \in Durations, NEW p \in PermIds, GrantCommit(w, j, l, d, p)
      PROVE  Same \/ Starts
  <2>1. CASE j = k
    BY <1>2, <2>1 DEF GrantCommit, TypeOK, WritingPc
  <2>2. CASE j # k
    <3>1. ActiveRows(perms', k, t) = ActiveRows(perms, k, t)
      BY <1>2, <2>2 DEF GrantCommit, Put, NewRow, ActiveRows
    <3>2. \A q \in ActiveRows(perms, k, t) : perms'[q].level = perms[q].level
      BY <1>2 DEF GrantCommit, Put, ActiveRows
    <3>3. QED
      BY <3>1, <3>2 DEF ActiveLevels
  <2>3. QED
    BY <2>1, <2>2
<1>3. ASSUME NEW w \in Workers, StoreHash(w)
      PROVE  Same
  <2>1. ASSUME perms' = [perms EXCEPT ![job[w].perm].traced = TRUE]
        PROVE  Same
    <3>1. DOMAIN perms' = DOMAIN perms
      BY <2>1
    <3>2. ASSUME NEW q \in DOMAIN perms
          PROVE  /\ perms'[q].key = perms[q].key
                 /\ perms'[q].level = perms[q].level
                 /\ perms'[q].expires = perms[q].expires
                 /\ perms'[q].revokedAt = perms[q].revokedAt
      BY <2>1, perms[q] \in Row DEF TypeOK, Row
    <3>3. ActiveRows(perms', k, t) = ActiveRows(perms, k, t)
      BY <3>1, <3>2 DEF ActiveRows, NotExpired
    <3>4. QED
      BY <3>2, <3>3 DEF ActiveLevels, ActiveRows
  <2>2. QED
    BY <1>1, <1>3, <2>1 DEF StoreHash
<1>4. ASSUME NEW w \in Workers, NEW p \in PermIds, RevokeCommit(w, p)
      PROVE  Same \/ Starts
  <2>1. CASE perms[p].key = k
    BY <1>4, <2>1 DEF RevokeCommit, TypeOK, WritingPc
  <2>2. CASE perms[p].key # k
    <3>1. DOMAIN perms' = DOMAIN perms /\ perms'[p].key = perms[p].key
      BY <1>4, perms[p] \in Row DEF RevokeCommit, TypeOK, Row
    <3>2. \A q \in DOMAIN perms \ {p} : perms'[q] = perms[q]
      BY <1>4 DEF RevokeCommit
    <3>3. ActiveRows(perms', k, t) = ActiveRows(perms, k, t)
      BY <2>2, <3>1, <3>2 DEF ActiveRows
    <3>4. \A q \in ActiveRows(perms, k, t) : perms'[q].level = perms[q].level
      BY <2>2, <3>2 DEF ActiveRows
    <3>5. QED
      BY <3>3, <3>4 DEF ActiveLevels
  <2>3. QED
    BY <2>1, <2>2
<1>5. ASSUME NEW w \in Workers, NEW f \in Files, DeleteFile(w, f), k[1] # f
      PROVE  Same
  <2>1. DOMAIN perms' = DOMAIN perms
    BY <1>5 DEF DeleteFile
  <2>2. ASSUME NEW q \in DOMAIN perms
        PROVE  perms'[q].key = perms[q].key /\ (perms[q].key = k => perms'[q] = perms[q])
    BY <1>5, perms[q] \in Row DEF DeleteFile, TypeOK, Row
  <2>3. ActiveRows(perms', k, t) = ActiveRows(perms, k, t)
    BY <2>1, <2>2 DEF ActiveRows
  <2>4. \A q \in ActiveRows(perms, k, t) : perms'[q].level = perms[q].level
    BY <2>2 DEF ActiveRows
  <2>5. QED
    BY <2>3, <2>4 DEF ActiveLevels
<1>6. QED
  BY <1>1, <1>2, <1>3, <1>4, <1>5
     DEF Next, vars, GrantAudit, RevokeAudit, Invalidate, CheckHit, CheckMiss,
         CheckQuery, CheckFill, Return, Abort, Evict, Tick

\* With one worker, an entry that is undisturbed after a step (no writer of its
\* key at work or interrupted) was there and undisturbed before it, unless the
\* worker has just stored it.
LEMMA QuietStep ==
    ASSUME TypeOK, [Next]_vars, NEW w \in Workers, Workers = {w},
           NEW k \in DOMAIN cache', k \notin interrupted',
           ~(job'[w].pc \in WritingPc /\ job'[w].key = k),
           ~(CheckFill(w) /\ k = job[w].key)
    PROVE  /\ k \in DOMAIN cache
           /\ cache'[k] = cache[k]
           /\ k \notin interrupted
           /\ ~(job[w].pc \in WritingPc /\ job[w].key = k)
<1> DEFINE Goal == /\ k \in DOMAIN cache
                   /\ cache'[k] = cache[k]
                   /\ k \notin interrupted
                   /\ ~(job[w].pc \in WritingPc /\ job[w].key = k)
<1>1. CASE job[w].pc \notin WritingPc /\ cache' = cache /\ interrupted' = interrupted
  BY <1>1
<1>2. ASSUME job[w].pc \in WritingPc, NEW pc \in WritingPc, Goto(w, pc),
             cache' = cache, interrupted' = interrupted
      PROVE  Goal
  <2>1. job[w] \in WriteJob
    BY <1>2, JobShape
  <2>2. job'[w].pc = pc /\ job'[w].key = job[w].key
    BY <1>2, <2>1 DEF Goto, WriteJob, TypeOK
  <2>3. QED
    BY <1>2, <2>2
<1>3. CASE GrantAudit(w) \/ StoreHash(w)
  BY <1>2, <1>3 DEF GrantAudit, StoreHash, WritingPc
<1>4. CASE RevokeAudit(w)
  <2>1. CASE BeIdle(w) /\ interrupted' = interrupted \cup {job[w].key}
    BY <1>4, <2>1 DEF RevokeAudit
  <2>2. QED
    BY <1>2, <1>4, <2>1 DEF RevokeAudit, WritingPc
<1>5. CASE Invalidate(w)
  BY <1>5 DEF Invalidate, Drop, Restrict
<1>6. CASE CheckFill(w)
  BY <1>6 DEF CheckFill, Put, WritingPc
<1>7. CASE Abort(w)
  BY <1>7 DEF Abort
<1>8. ASSUME NEW j \in Keys, Evict(j)
      PROVE  Goal
  BY <1>8 DEF Evict, Drop, Restrict
<1>9. CASE Tick
  BY <1>9 DEF Tick, Restrict
<1>10. CASE UNCHANGED vars
  BY <1>10 DEF vars
<1>11. CASE \/ \E j \in Keys, l \in GrantLevels, d \in Durations, p \in PermIds :
                 GrantCommit(w, j, l, d, p)
            \/ \E p \in PermIds : RevokeCommit(w, p)
            \/ \E j \in Keys, n \in Needs : CheckHit(w, j, n) \/ CheckMiss(w, j, n)
            \/ CheckQuery(w) \/ Return(w)
  BY <1>1, <1>11 DEF GrantCommit, RevokeCommit, CheckHit, CheckMiss, CheckQuery, Return,
     Idle, WritingPc
<1>12. ASSUME NEW f \in Files, DeleteFile(w, f)
       PROVE  Goal
  BY <1>12 DEF DeleteFile, Idle, WritingPc
<1>13. QED
  BY <1>3, <1>4, <1>5, <1>6, <1>7, <1>8, <1>9, <1>10, <1>11, <1>12 DEF Next

LEMMA CoherentInit == Init => CoherentInvariant
BY DEF Init, CoherentInvariant, CacheCoherent, Idle

LEMMA CoherentNext ==
    ASSUME TypeOK, CoherentInvariant, [Next]_vars
    PROVE  CoherentInvariant'
<1> SUFFICES ASSUME Cardinality(Workers) = 1
             PROVE  CoherentInvariant'
  BY DEF CoherentInvariant, CacheCoherent
<1>1. PICK w : Workers = {w}
  BY WorkersAssumption, FS_Singleton
<1>2. w \in Workers
  BY <1>1
<1>3. ASSUME NEW k \in DOMAIN cache', k \notin interrupted',
             ~(job'[w].pc \in WritingPc /\ job'[w].key = k)
      PROVE  cache'[k].level = EffectiveInt(ActiveLevels(perms', k, cache'[k].readAt))
  <2>1. CASE CheckFill(w) /\ k = job[w].key
    <3>1. cache'[k].level = job[w].level /\ cache'[k].readAt = job[w].at /\ perms' = perms
      BY <2>1 DEF CheckFill, Put
    <3>2. QED
      BY <1>2, <2>1, <3>1 DEF CheckFill, CoherentInvariant
  <2>2. CASE ~(CheckFill(w) /\ k = job[w].key)
    <3>1. /\ k \in DOMAIN cache
          /\ cache'[k] = cache[k]
          /\ k \notin interrupted
          /\ ~(job[w].pc \in WritingPc /\ job[w].key = k)
      BY <1>1, <1>2, <1>3, <2>2, QuietStep
    <3>2. cache[k].level = EffectiveInt(ActiveLevels(perms, k, cache[k].readAt))
      BY <1>1, <3>1 DEF CoherentInvariant, CacheCoherent, Writing
    <3>3. ActiveLevels(perms', k, cache[k].readAt) = ActiveLevels(perms, k, cache[k].readAt)
      <4>1. k \in Keys
        BY <3>1 DEF TypeOK
      <4>2. ~ \E v \in Workers, f \in Files : DeleteFile(v, f) /\ k[1] = f
        BY <1>3, <4>1 DEF DeleteFile
      <4>3. QED
        BY <1>1, <1>3, <4>2, ActiveStep
    <3>4. QED
      BY <3>1, <3>2, <3>3
  <2>3. QED
    BY <2>1, <2>2
<1>4. ASSUME job'[w].pc = "fill"
      PROVE  job'[w].level = EffectiveInt(ActiveLevels(perms', job'[w].key, job'[w].at))
  <2>1. CASE job'[w] = job[w]
    <3>1. job[w].level = EffectiveInt(ActiveLevels(perms, job[w].key, job[w].at))
      BY <1>2, <1>4, <2>1 DEF CoherentInvariant
    <3>2. ActiveLevels(perms', job[w].key, job[w].at) = ActiveLevels(perms, job[w].key, job[w].at)
      <4>1. ~ \E v \in Workers, f \in Files : DeleteFile(v, f)
        BY <1>1, <1>4, <2>1 DEF DeleteFile, Idle
      <4>2. QED
        BY <1>1, <1>4, <4>1, ActiveStep DEF WritingPc
    <3>3. QED
      BY <2>1, <3>1, <3>2
  <2>2. CASE CheckQuery(w)
    <3>1. /\ job'[w].key = job[w].key
          /\ job'[w].at = now
          /\ job'[w].level = EffectiveInt(ActiveLevels(perms, job[w].key, now))
          /\ perms' = perms
      BY <1>2, <2>2 DEF CheckQuery, TypeOK
    <3>2. QED
      BY <3>1
  <2>3. QED
    BY <1>2, <1>4, <2>1, <2>2, JobEffect
<1>5. CacheCoherent'
  BY <1>1, <1>3 DEF CacheCoherent, Writing
<1>6. QED
  BY <1>1, <1>4, <1>5 DEF CoherentInvariant

\* In the deployment of the repository, a cached level outlives the rows it was
\* computed from only through their expiry or an interrupted writer.
THEOREM CacheStaysCoherent == Spec => []CacheCoherent
<1>1. TypeOK /\ CoherentInvariant /\ [Next]_vars => (TypeOK /\ CoherentInvariant)'
  BY TypeNext, CoherentNext
<1>2. CoherentInvariant => CacheCoherent
  BY DEF CoherentInvariant
<1>3. QED
  BY <1>1, <1>2, TypeInit, CoherentInit, PTL DEF Spec
-----------------------------------------------------------------------------
(* Revocations *)

\* A level the query gives at a passed instant is granted now by a row that is
\* not revoked, up to the staleness of its expiry.
LEMMA ActiveGrants ==
    ASSUME TypeOK, HeldInvariant, NEW k, NEW need \in Levels, NEW t \in Nat,
           t <= now, now < t + Staleness,
           EffectiveInt(ActiveLevels(perms, k, t)) >= LEVEL_HIERARCHY[need]
    PROVE  \E p \in DOMAIN perms :
              /\ perms[p].revokedAt = Never
              /\ Grants(perms[p], k, LEVEL_HIERARCHY[need], now, Staleness)
<1>1. ActiveLevels(perms, k, t) \in SUBSET Levels
  BY DEF ActiveLevels, ActiveRows, TypeOK, Row
<1>2. EffectiveInt(ActiveLevels(perms, k, t)) # NoLevel
  BY RankOfLevel DEF NoLevel
<1>3. PICK p \in ActiveRows(perms, k, t) :
         EffectiveInt(ActiveLevels(perms, k, t)) = LEVEL_HIERARCHY[perms[p].level]
  BY <1>1, <1>2, EffectiveIntIsHeld DEF ActiveLevels
<1>4. /\ p \in DOMAIN perms
      /\ perms[p].key = k
      /\ perms[p].revokedAt = Never
      /\ perms[p].expires = Never \/ perms[p].expires > t
      /\ perms[p].grantedAt <= now
  BY DEF ActiveRows, NotExpired, HeldInvariant
<1>5. perms[p] \in Row /\ now \in Nat /\ Staleness \in Nat
  BY <1>4, TimeAssumption DEF TypeOK, Staleness
<1>6. perms[p].expires = Never \/ now < perms[p].expires + Staleness
  BY <1>4, <1>5 DEF Row
<1>7. QED
  BY <1>3, <1>4, <1>6 DEF Grants

LEMMA RevocationInit == Init => RevocationImmediate
BY DEF Init, RevocationImmediate, Idle

LEMMA RevocationNext ==
    ASSUME TypeOK, HeldInvariant, CoherentInvariant, RevocationImmediate, [Next]_vars
    PROVE  RevocationImmediate'
<1> DEFINE Sound(rows, j) ==
       \E p \in DOMAIN rows :
          /\ rows[p].revokedAt = Never
          /\ Grants(rows[p], j.key, LEVEL_HIERARCHY[j.need], j.at, Staleness)
<1> USE TimeAssumption
<1> SUFFICES ASSUME Cardinality(Workers) = 1, NEW w \in Workers,
                    job'[w].pc = "allowed", job'[w].key \notin interrupted'
             PROVE  Sound(perms', job'[w])
  BY DEF RevocationImmediate
<1>1. Workers = {w}
  BY WorkersAssumption, FS_Singleton
<1>2. Staleness \in Nat \ {0}
  BY DEF Staleness
<1>3. CASE job'[w] = job[w]
  <2>1. perms' = perms /\ interrupted' = interrupted
    BY <1>1, <1>3 DEF Next, vars, GrantCommit, GrantAudit, StoreHash, RevokeCommit,
       RevokeAudit, Invalidate, DeleteFile, CheckHit, CheckMiss, CheckQuery, CheckFill,
       Return, Abort, Evict, Tick, BeIdle, Idle, WritingPc, TypeOK
  <2>2. QED
    BY <1>3, <2>1 DEF RevocationImmediate
<1>4. CASE CheckFill(w)
  <2>1. job[w] \in FillJob
    BY <1>4, JobShape DEF CheckFill
  <2>2. /\ job'[w] = Verdict(job[w].key, job[w].need, job[w].level)
        /\ perms' = perms
    BY <1>4 DEF CheckFill, TypeOK
  <2>3. job[w].level >= LEVEL_HIERARCHY[job[w].need]
    BY <2>1, <2>2, VerdictType DEF FillJob, TypeOK
  <2>4. /\ job[w].level = EffectiveInt(ActiveLevels(perms, job[w].key, job[w].at))
        /\ job[w].at <= now
        /\ now < job[w].at + Staleness
    BY <1>4, <2>1 DEF CheckFill, HeldInvariant, CoherentInvariant, Staleness, FillJob, TypeOK
  <2>5. \E p \in DOMAIN perms :
           /\ perms[p].revokedAt = Never
           /\ Grants(perms[p], job[w].key, LEVEL_HIERARCHY[job[w].need], now, Staleness)
    BY <2>1, <2>3, <2>4, ActiveGrants DEF FillJob
  <2>6. QED
    BY <2>2, <2>5 DEF Verdict
<1>5. ASSUME NEW k \in Keys, NEW need \in Needs, CheckHit(w, k, need)
      PROVE  Sound(perms', job'[w])
  <2>1. k \in DOMAIN cache /\ cache[k] \in Entry /\ need \in Levels
    BY <1>5, LevelsAssumption DEF CheckHit, TypeOK
  <2>2. /\ job'[w] = Verdict(k, need, cache[k].level)
        /\ perms' = perms
        /\ interrupted' = interrupted
        /\ job[w] = Idle
    BY <1>5 DEF CheckHit, TypeOK
  <2>3. cache[k].level >= LEVEL_HIERARCHY[need] /\ k \notin interrupted
    BY <2>1, <2>2, VerdictType DEF Entry, TypeOK
  <2>4. ~Writing(k)
    BY <1>1, <2>2 DEF Writing, Idle, WritingPc
  <2>5. cache[k].level = EffectiveInt(ActiveLevels(perms, k, cache[k].readAt))
    BY <2>1, <2>3, <2>4 DEF CoherentInvariant, CacheCoherent
  <2>6. cache[k].readAt <= now /\ now < cache[k].readAt + Staleness
    BY <1>2, <2>1 DEF HeldInvariant, Entry, TypeOK
  <2>7. \E p \in DOMAIN perms :
           /\ perms[p].revokedAt = Never
           /\ Grants(perms[p], k, LEVEL_HIERARCHY[need], now, Staleness)
    BY <2>1, <2>3, <2>5, <2>6, ActiveGrants DEF Entry
  <2>8. QED
    BY <2>2, <2>7 DEF Verdict
<1>6. QED
  BY <1>3, <1>4, <1>5, JobEffect

\* In the deployment of the repository, a completed revocation binds the very
\* next check.
THEOREM RevocationBindsAtOnce == Spec => []RevocationImmediate
<1> DEFINE Inv == TypeOK /\ HeldInvariant /\ CoherentInvariant /\ RevocationImmediate
<1>1. Init => Inv
  BY TypeInit, HeldInit, CoherentInit, RevocationInit
<1>2. Inv /\ [Next]_vars => Inv'
  BY TypeNext, HeldNext, CoherentNext, RevocationNext
<1>3. QED
  BY <1>1, <1>2, PTL DEF Spec
-----------------------------------------------------------------------------
(* The audit trail *)

LEMMA AuditInit == Init => AuditInvariant
BY DEF Init, AuditInvariant, AuditFaithful, Idle

\* A row is born untraced, and gets its hash from the worker that stores it.
LEMMA TracedStep ==
    ASSUME TypeOK, [Next]_vars, NEW p \in DOMAIN perms', perms'[p].traced
    PROVE  \/ p \in DOMAIN perms /\ perms[p].traced
           \/ \E w \in Workers : job[w].pc = "storeHash" /\ job[w].perm = p
<1> DEFINE Goal == \/ p \in DOMAIN perms /\ perms[p].traced
                   \/ \E w \in Workers : job[w].pc = "storeHash" /\ job[w].perm = p
<1>1. CASE perms' = perms
  BY <1>1
<1>2. ASSUME NEW w \in Workers, NEW k \in Keys, NEW l \in GrantLevels,
             NEW d \in Durations, NEW q \in PermIds, GrantCommit(w, k, l, d, q)
      PROVE  Goal
  BY <1>2 DEF GrantCommit, Put, NewRow
<1>3. ASSUME NEW w \in Workers, StoreHash(w)
      PROVE  Goal
  BY <1>1, <1>3 DEF StoreHash, TypeOK
<1>4. ASSUME NEW w \in Workers, NEW q \in PermIds, RevokeCommit(w, q)
      PROVE  Goal
  <2>1. perms[q] \in Row
    BY <1>4 DEF RevokeCommit, TypeOK
  <2>2. QED
    BY <1>1, <1>4, <2>1 DEF RevokeCommit, Row
<1>5. ASSUME NEW w \in Workers, NEW f \in Files, DeleteFile(w, f)
      PROVE  Goal
  <2>1. p \in DOMAIN perms /\ perms[p] \in Row
    BY <1>5 DEF DeleteFile, TypeOK
  <2>2. QED
    BY <1>5, <2>1 DEF DeleteFile, Row
<1>6. QED
  BY <1>1, <1>2, <1>3, <1>4, <1>5
     DEF Next, vars, GrantAudit, RevokeAudit, Invalidate, CheckHit, CheckMiss,
         CheckQuery, CheckFill, Return, Abort, Evict, Tick

\* What each step adds to the trail, and the row it speaks of.
LEMMA BlockStep ==
    ASSUME TypeOK, [Next]_vars
    PROVE  /\ audit \subseteq audit'
           /\ \A b \in audit' \ audit : \E w \in Workers :
                /\ b.perm = job[w].perm
                /\ job[w].pc \in {"auditGrant", "auditRevoke"}
                /\ b.action = "PERMISSION_REVOKED" => job[w].pc = "auditRevoke"
<1> DEFINE Goal == /\ audit \subseteq audit'
                   /\ \A b \in audit' \ audit : \E w \in Workers :
                        /\ b.perm = job[w].perm
                        /\ job[w].pc \in {"auditGrant", "auditRevoke"}
                        /\ b.action = "PERMISSION_REVOKED" => job[w].pc = "auditRevoke"
<1>1. ASSUME NEW w \in Workers, GrantAudit(w) \/ RevokeAudit(w)
      PROVE  Goal
  BY <1>1 DEF GrantAudit, RevokeAudit
<1>2. QED
  BY <1>1
     DEF Next, vars, GrantCommit, StoreHash, RevokeCommit, Invalidate, DeleteFile,
         CheckHit, CheckMiss, CheckQuery, CheckFill, Return, Abort, Evict, Tick

\* A revoked row stays revoked.
LEMMA RevokedStays ==
    ASSUME TypeOK, [Next]_vars, NEW p \in DOMAIN perms, perms[p].revokedAt # Never
    PROVE  p \in DOMAIN perms' /\ perms'[p].revokedAt # Never
BY RowsStable

\* A writer's row and the block behind it are there when the step it stands at
\* needs them.
LEMMA WriterStep ==
    ASSUME TypeOK, AuditInvariant, [Next]_vars, NEW w \in Workers,
           job'[w].pc \in {"auditGrant", "storeHash", "auditRevoke"}
    PROVE  /\ job'[w].perm \in DOMAIN perms'
           /\ job'[w].pc = "storeHash" =>
                [action |-> "PERMISSION_GRANTED", perm |-> job'[w].perm] \in audit'
           /\ job'[w].pc = "auditRevoke" => perms'[job'[w].perm].revokedAt # Never
<1> DEFINE Goal == /\ job'[w].perm \in DOMAIN perms'
                   /\ job'[w].pc = "storeHash" =>
                        [action |-> "PERMISSION_GRANTED", perm |-> job'[w].perm] \in audit'
                   /\ job'[w].pc = "auditRevoke" => perms'[job'[w].perm].revokedAt # Never
<1> USE DEF TypeOK
<1>1. CASE job'[w] = job[w]
  BY <1>1, RowsStable, RevokedStays, BlockStep DEF AuditInvariant
<1>2. ASSUME NEW k \in Keys, NEW l \in GrantLevels,
             NEW d \in Durations, NEW p \in PermIds, GrantCommit(w, k, l, d, p)
      PROVE  Goal
  BY <1>2 DEF GrantCommit, Put
<1>3. CASE GrantAudit(w)
  <2>1. job[w] \in WriteJob
    BY <1>3, JobShape DEF GrantAudit, WritingPc
  <2>2. job'[w].perm = job[w].perm /\ job'[w].pc # "auditRevoke" /\ perms' = perms
    BY <1>3, <2>1 DEF GrantAudit, Goto, WriteJob, WritingPc
  <2>3. job'[w].pc = "storeHash" =>
          audit' = audit \cup {[action |-> "PERMISSION_GRANTED", perm |-> job[w].perm]}
    BY <1>3, <2>1 DEF GrantAudit, Goto, WriteJob, WritingPc
  <2>4. job[w].perm \in DOMAIN perms
    BY <1>3 DEF GrantAudit, AuditInvariant
  <2>5. QED
    BY <2>2, <2>3, <2>4
<1>4. ASSUME NEW p \in PermIds, RevokeCommit(w, p)
      PROVE  Goal
  <2>1. job'[w].pc = "auditRevoke" /\ job'[w].perm = p
    BY <1>4 DEF RevokeCommit
  <2>2. now # Never /\ perms[p] \in Row
    BY <1>4 DEF Never, RevokeCommit
  <2>3. p \in DOMAIN perms' /\ perms'[p].revokedAt # Never
    BY <1>4, <2>2 DEF RevokeCommit, Row
  <2>4. QED
    BY <2>1, <2>3
<1>5. ASSUME StoreHash(w) \/ RevokeAudit(w)
      PROVE  FALSE
  <2>1. job[w] \in WriteJob
    BY <1>5, JobShape DEF StoreHash, RevokeAudit, WritingPc
  <2>2. QED
    BY <1>5, <2>1 DEF StoreHash, RevokeAudit, Goto, BeIdle, Idle, WriteJob, WritingPc
<1>6. ASSUME NEW v \in Workers, v # w,
             \/ GrantAudit(v) \/ StoreHash(v) \/ RevokeAudit(v) \/ Invalidate(v)
             \/ \E k \in Keys, l \in GrantLevels, d \in Durations, p \in PermIds :
                  GrantCommit(v, k, l, d, p)
             \/ \E p \in PermIds : RevokeCommit(v, p)
             \/ \E k \in Keys, n \in Needs : CheckHit(v, k, n) \/ CheckMiss(v, k, n)
             \/ CheckQuery(v) \/ CheckFill(v) \/ Return(v) \/ Abort(v)
      PROVE  job'[w] = job[w]
  BY <1>6 DEF GrantCommit, GrantAudit, StoreHash, RevokeCommit, RevokeAudit, Invalidate,
     CheckHit, CheckMiss, CheckQuery, CheckFill, Return, Abort, Goto, BeIdle
<1>7. ASSUME \/ Invalidate(w) \/ CheckQuery(w) \/ CheckFill(w) \/ Return(w) \/ Abort(w)
             \/ \E k \in Keys, n \in Needs : CheckHit(w, k, n) \/ CheckMiss(w, k, n)
      PROVE  FALSE
  BY <1>7 DEF Invalidate, CheckHit, CheckMiss, CheckQuery, CheckFill, Return, Abort,
     BeIdle, Idle, Verdict
<1>8. CASE \/ \E v \in Workers, f \in Files : DeleteFile(v, f)
           \/ (\E k \in Keys : Evict(k)) \/ Tick \/ UNCHANGED vars
  BY <1>1, <1>8 DEF DeleteFile, Evict, Tick, vars
<1>9. QED
  BY <1>1, <1>2, <1>3, <1>4, <1>5, <1>6, <1>7, <1>8 DEF Next

LEMMA AuditNext ==
    ASSUME TypeOK, AuditInvariant, [Next]_vars
    PROVE  AuditInvariant'
<1>1. ASSUME NEW b \in audit'
      PROVE  /\ b.perm \in DOMAIN perms'
             /\ b.action = "PERMISSION_REVOKED" => perms'[b.perm].revokedAt # Never
  <2>1. /\ b.perm \in DOMAIN perms
        /\ b.action = "PERMISSION_REVOKED" => perms[b.perm].revokedAt # Never
    BY <1>1, BlockStep DEF AuditInvariant, AuditFaithful
  <2>2. QED
    BY <2>1, RowsStable, RevokedStays
<1>2. ASSUME NEW p \in DOMAIN perms', perms'[p].traced
      PROVE  [action |-> "PERMISSION_GRANTED", perm |-> p] \in audit'
  BY <1>2, TracedStep, BlockStep DEF AuditInvariant, AuditFaithful
<1>3. QED
  BY <1>1, <1>2, WriterStep DEF AuditInvariant, AuditFaithful

\* The audit trail of permissions speaks of committed rows only, and a row with
\* a blockchain_hash has its block, for any number of workers and failures.
THEOREM TrailFaithful == Spec => []AuditFaithful
<1>1. TypeOK /\ AuditInvariant /\ [Next]_vars => (TypeOK /\ AuditInvariant)'
  BY TypeNext, AuditNext
<1>2. AuditInvariant => AuditFaithful
  BY DEF AuditInvariant
<1>3. QED
  BY <1>1, <1>2, TypeInit, AuditInit, PTL DEF Spec
-----------------------------------------------------------------------------
(* The refinement: PermissionManager implements AccessControl. *)


LEMMA SameLevels == \A S : Access!EffectiveInt(S) = EffectiveInt(S)
BY DEF EffectiveInt, Access!EffectiveInt, SqlMax, Access!SqlMax, LEVEL_HIERARCHY,
   Access!LEVEL_HIERARCHY, CollationRank, Access!CollationRank, NoLevel, Access!NoLevel

\* What a key had at a tick that has begun, it has had for ever: rows granted or
\* withdrawn later do not change it.
LEMMA HadLevelStable ==
    ASSUME TypeOK, [Next]_vars, NEW k, NEW t \in Nat, t <= now, NEW v,
           Access!HadLevel(perms, k, t, v)
    PROVE  Access!HadLevel(perms', k, t, v)
<1>1. PICK S \in SUBSET Access!Possible(perms, k, t) :
         Access!Sure(perms, k, t) \subseteq S /\ v = EffectiveInt({perms[p].level : p \in S})
  BY SameLevels DEF Access!HadLevel
<1>2. ASSUME NEW p \in S
      PROVE  p \in Access!Possible(perms', k, t) /\ perms'[p].level = perms[p].level
  <2>1. /\ p \in DOMAIN perms
        /\ perms[p].key = k
        /\ perms[p].grantedAt <= t
        /\ perms[p].revokedAt = Never \/ t <= perms[p].revokedAt
        /\ perms[p].expires = Never \/ perms[p].expires > t
    BY DEF Access!Possible, Access!NotExpired, Access!Never, Never
  <2>2. /\ p \in DOMAIN perms'
        /\ perms'[p].key = perms[p].key
        /\ perms'[p].level = perms[p].level
        /\ perms'[p].grantedAt = perms[p].grantedAt
        /\ perms'[p].expires = perms[p].expires
        /\ \/ perms'[p].revokedAt = perms[p].revokedAt
           \/ perms[p].revokedAt = Never /\ perms'[p].revokedAt = now
    BY <2>1, RowsStable
  <2>3. QED
    BY <2>1, <2>2 DEF Access!Possible, Access!NotExpired, Access!Never, Never
<1>3. ASSUME NEW p \in Access!Sure(perms', k, t)
      PROVE  p \in Access!Sure(perms, k, t)
  <2>1. /\ p \in DOMAIN perms'
        /\ perms'[p].key = k
        /\ perms'[p].grantedAt < t
        /\ perms'[p].revokedAt = Never \/ t < perms'[p].revokedAt
        /\ perms'[p].expires = Never \/ perms'[p].expires > t
    BY DEF Access!Sure, Access!NotExpired, Access!Never, Never
  <2>2. p \in DOMAIN perms
    BY <2>1, NewRowIsOfNow DEF TypeOK
  <2>3. /\ perms'[p].key = perms[p].key
        /\ perms'[p].grantedAt = perms[p].grantedAt
        /\ perms'[p].expires = perms[p].expires
        /\ \/ perms'[p].revokedAt = perms[p].revokedAt
           \/ perms[p].revokedAt = Never /\ perms'[p].revokedAt = now
    BY <2>2, RowsStable
  <2>4. QED
    BY <2>1, <2>2, <2>3 DEF Access!Sure, Access!NotExpired, Access!Never, Never
<1>4. {perms'[p].level : p \in S} = {perms[p].level : p \in S}
  BY <1>2
<1>5. S \in SUBSET Access!Possible(perms', k, t) /\ Access!Sure(perms', k, t) \subseteq S
  BY <1>1, <1>2, <1>3
<1>6. QED
  BY <1>1, <1>4, <1>5, SameLevels DEF Access!HadLevel

\* The query reads a level the key has in the tick of the query.
LEMMA QueryHadLevel ==
    ASSUME TypeOK, HeldInvariant, HadInvariant, NEW k
    PROVE  Access!HadLevel(perms, k, now, EffectiveInt(ActiveLevels(perms, k, now)))
<1>1. ActiveRows(perms, k, now) \in SUBSET Access!Possible(perms, k, now)
  BY DEF ActiveRows, NotExpired, HeldInvariant, Access!Possible, Access!NotExpired,
     Access!Never, Never
<1>2. Access!Sure(perms, k, now) \subseteq ActiveRows(perms, k, now)
  BY DEF ActiveRows, NotExpired, HadInvariant, Access!Sure, Access!NotExpired,
     Access!Never, Never, TypeOK, Row
<1>3. QED
  BY <1>1, <1>2, SameLevels DEF Access!HadLevel, ActiveLevels

LEMMA HadInit == Init => HadInvariant
BY DEF Init, HadInvariant, Idle

LEMMA HadNext ==
    ASSUME TypeOK, HeldInvariant, HadInvariant, [Next]_vars
    PROVE  HadInvariant'
<1>1. \A p \in DOMAIN perms' : perms'[p].revokedAt <= now'
  <2> TAKE p \in DOMAIN perms'
  <2>1. CASE p \in DOMAIN perms
    BY <2>1, RowsStable, ClockStep DEF HadInvariant, TypeOK, Row
  <2>2. CASE p \notin DOMAIN perms
    BY <2>2, NewRowIsOfNow, ClockStep DEF TypeOK, Never
  <2>3. QED
    BY <2>1, <2>2
<1>2. ASSUME NEW k \in DOMAIN cache'
      PROVE  cache'[k].readAt >= 1 /\ Access!HadLevel(perms', k, cache'[k].readAt, cache'[k].level)
  <2>1. CASE k \in DOMAIN cache /\ cache'[k] = cache[k]
    <3>1. PICK e : e = cache[k]
      OBVIOUS
    <3>2. e.readAt \in Nat /\ e.readAt <= now /\ Access!HadLevel(perms, k, e.readAt, e.level)
      BY <2>1, <3>1 DEF HadInvariant, HeldInvariant, TypeOK, Entry
    <3>3. Access!HadLevel(perms', k, e.readAt, e.level)
      BY <3>2, HadLevelStable
    <3>4. QED
      BY <2>1, <3>1, <3>3 DEF HadInvariant
  <2>2. ASSUME NEW w \in Workers, CheckFill(w), k = job[w].key
        PROVE  cache'[k].readAt >= 1 /\ Access!HadLevel(perms', k, cache'[k].readAt, cache'[k].level)
    <3>1. job[w] \in FillJob
      BY <2>2, JobShape DEF CheckFill
    <3>2. PICK j : j = job[w]
      OBVIOUS
    <3>3. /\ cache'[k].readAt = j.at
          /\ cache'[k].level = j.level
      BY <2>2, <3>2 DEF CheckFill, Put
    <3>4. j.at \in Nat /\ j.at >= 1 /\ j.at <= now /\ Access!HadLevel(perms, k, j.at, j.level)
      BY <2>2, <3>1, <3>2 DEF CheckFill, HadInvariant, HeldInvariant, FillJob
    <3>5. Access!HadLevel(perms', k, j.at, j.level)
      BY <3>4, HadLevelStable
    <3>6. QED
      BY <3>3, <3>4, <3>5
  <2>3. QED
    BY <2>1, <2>2, CacheEffect
<1>3. ASSUME NEW w \in Workers, job'[w].pc = "fill"
      PROVE  job'[w].at >= 1 /\ Access!HadLevel(perms', job'[w].key, job'[w].at, job'[w].level)
  <2>1. PICK j : j = job'[w]
    OBVIOUS
  <2>2. CASE job'[w] = job[w]
    <3>1. j.at \in Nat /\ j.at >= 1 /\ j.at <= now /\ Access!HadLevel(perms, j.key, j.at, j.level)
      BY <1>3, <2>1, <2>2, JobShape DEF HadInvariant, HeldInvariant, FillJob
    <3>2. Access!HadLevel(perms', j.key, j.at, j.level)
      BY <3>1, HadLevelStable
    <3>3. QED
      BY <2>1, <3>1, <3>2
  <2>3. CASE CheckQuery(w)
    <3>1. /\ j.key = job[w].key
          /\ j.at = now
          /\ j.level = EffectiveInt(ActiveLevels(perms, job[w].key, now))
      BY <2>1, <2>3 DEF CheckQuery, TypeOK
    <3>2. now \in Nat /\ now >= 1 /\ Access!HadLevel(perms, j.key, j.at, j.level)
      BY <3>1, QueryHadLevel DEF TypeOK
    <3>3. Access!HadLevel(perms', j.key, j.at, j.level)
      BY <3>1, <3>2, HadLevelStable
    <3>4. QED
      BY <2>1, <3>1, <3>2, <3>3
  <2>4. QED
    BY <1>3, <2>2, <2>3, JobEffect
<1>4. QED
  BY <1>1, <1>2, <1>3 DEF HadInvariant
-----------------------------------------------------------------------------
(* The steps *)

\* A level the key had less than Staleness ago justifies the answer.
LEMMA HadLevelAnswers ==
    ASSUME TypeOK, NEW k, NEW n \in Levels, NEW t \in Nat, NEW v,
           Access!HadLevel(perms, k, t, v), 1 <= t, t <= now, now < t + Staleness
    PROVE  Access!MayAnswer(k, n, v >= LEVEL_HIERARCHY[n])
<1>1. PICK S \in SUBSET Access!Possible(perms, k, t) :
         v = EffectiveInt({perms[p].level : p \in S})
  BY SameLevels DEF Access!HadLevel
<1>2. {perms[p].level : p \in S} \in SUBSET Levels
  BY DEF Access!Possible, TypeOK, Row
<1>3. v \in NoLevel..LEVEL_HIERARCHY["admin"]
  BY <1>1, <1>2, EffectiveIntIsHeld, RankOfLevel DEF NoLevel, LEVEL_HIERARCHY
<1>4. t \in 1..now
  BY DEF TypeOK
<1>5. QED
  BY <1>3, <1>4 DEF Access!MayAnswer, Access!NoLevel, NoLevel, Access!LEVEL_HIERARCHY,
     LEVEL_HIERARCHY

\* A verdict on such a level is an answer of AccessControl.
LEMMA VerdictStep ==
    ASSUME TypeOK, NEW w \in Workers, NEW k \in Keys, NEW n \in Levels, NEW v \in Int,
           NEW t \in Nat, Access!HadLevel(perms, k, t, v), 1 <= t, t <= now,
           now < t + Staleness, job[w].pc \notin {"allowed", "denied"},
           job' = [job EXCEPT ![w] = Verdict(k, n, v)], now' = now, perms' = perms
    PROVE  Access!Answer(w, k, n, v >= LEVEL_HIERARCHY[n])
<1>1. Access!MayAnswer(k, n, v >= LEVEL_HIERARCHY[n])
  BY HadLevelAnswers
<1>2. /\ job'[w].pc \in {"allowed", "denied"}
      /\ job'[w].pc = "allowed" <=> v >= LEVEL_HIERARCHY[n]
      /\ job'[w].key = k
      /\ job'[w].need = n
  BY DEF Verdict, TypeOK
<1>3. (job'[w].pc = "allowed") = (v >= LEVEL_HIERARCHY[n])
  BY <1>2
<1>4. Answered'[w] = [key |-> k, need |-> n, allowed |-> v >= LEVEL_HIERARCHY[n]]
  BY <1>2, <1>3 DEF Answered
<1>5. ASSUME NEW u \in Workers, u # w
      PROVE  Answered'[u] = Answered[u]
  BY <1>5 DEF Answered, TypeOK
<1>6. Answered' = [Answered EXCEPT ![w] =
                     [key |-> k, need |-> n, allowed |-> v >= LEVEL_HIERARCHY[n]]]
  <2>1. PICK a : a = Answered
    OBVIOUS
  <2>2. PICK b : b = Answered'
    OBVIOUS
  <2>3. a = [u \in Workers |-> a[u]] /\ b = [u \in Workers |-> b[u]]
    BY <2>1, <2>2 DEF Answered
  <2>4. \A u \in Workers \ {w} : b[u] = a[u]
    BY <1>5, <2>1, <2>2
  <2>5. b[w] = [key |-> k, need |-> n, allowed |-> v >= LEVEL_HIERARCHY[n]]
    BY <1>4, <2>2
  <2>6. b = [a EXCEPT ![w] = [key |-> k, need |-> n, allowed |-> v >= LEVEL_HIERARCHY[n]]]
    BY <2>3, <2>4, <2>5
  <2>7. QED
    BY <2>1, <2>2, <2>6
<1>7. Answered[w] = Access!NoAnswer
  BY DEF Answered, Access!NoAnswer
<1>8. QED
  BY <1>1, <1>6, <1>7 DEF Access!Answer

\* A worker that turns to other work has forgotten what it was told.
LEMMA ForgetStep ==
    ASSUME TypeOK, NEW w \in Workers, now' = now, perms' = perms,
           \A u \in Workers \ {w} : job'[u] = job[u],
           job'[w].pc \notin {"allowed", "denied"}
    PROVE  Access!Forget(w)
BY DEF Answered, Access!Forget, Access!NoAnswer

\* Workers that go on with their work have been told nothing new.
LEMMA SilentStep ==
    ASSUME TypeOK, NEW w \in Workers,
           \A u \in Workers \ {w} : job'[u] = job[u],
           job[w].pc \notin {"allowed", "denied"},
           job'[w].pc \notin {"allowed", "denied"}
    PROVE  Answered' = Answered
BY DEF Answered

LEMMA AccessInit == Init => Access!Init
BY DEF Init, Access!Init, Answered, Idle, Access!NoAnswer

\* Every step of the service is one of AccessControl, or leaves it as it is.
LEMMA AccessNext ==
    ASSUME TypeOK, HeldInvariant, HadInvariant, [Next]_vars
    PROVE  [Access!Next]_<<now, perms, Answered>>
<1> DEFINE Goal == [Access!Next]_<<now, perms, Answered>>
<1> USE TimeAssumption, LevelsAssumption
<1>1. ASSUME NEW w \in Workers, NEW k \in Keys, NEW l \in GrantLevels,
             NEW d \in Durations, NEW p \in PermIds, GrantCommit(w, k, l, d, p)
      PROVE  Goal
  <2>1. Answered' = Answered
    BY <1>1, SilentStep DEF GrantCommit, Idle, TypeOK
  <2>2. Access!Grant(k, l, d, p)
    BY <1>1, <2>1 DEF GrantCommit, Put, NewRow, Expiry, Never, Access!Grant, Access!Expiry,
       Access!Never
  <2>3. l \in Access!Levels
    BY DEF Levels, Access!Levels
  <2>4. QED
    BY <2>2, <2>3 DEF Access!Next
<1>2. ASSUME NEW w \in Workers, StoreHash(w)
      PROVE  Goal
  <2>1. Answered' = Answered
    BY <1>2, SilentStep DEF StoreHash, Goto, TypeOK
  <2>2. CASE perms' = [perms EXCEPT ![job[w].perm].traced = TRUE] /\ job[w].perm \in DOMAIN perms
    BY <1>2, <2>1, <2>2 DEF StoreHash, Access!Trace, Access!Next
  <2>3. CASE perms' = perms
    BY <1>2, <2>1, <2>3 DEF StoreHash
  <2>4. QED
    BY <1>2, <2>2, <2>3 DEF StoreHash, TypeOK
<1>3. ASSUME NEW w \in Workers, NEW p \in PermIds, RevokeCommit(w, p)
      PROVE  Goal
  <2>1. Answered' = Answered
    BY <1>3, SilentStep DEF RevokeCommit, Idle, TypeOK
  <2>2. perms' = [q \in DOMAIN perms |->
                    IF q \in {p} /\ perms[q].revokedAt = Never
                      THEN [perms[q] EXCEPT !.revokedAt = now] ELSE perms[q]]
    BY <1>3 DEF RevokeCommit, TypeOK
  <2>3. Access!Withdraw({p})
    BY <1>3, <2>1, <2>2 DEF RevokeCommit, Access!Withdraw, Access!Never, Never
  <2>4. {p} \in SUBSET PermIds
    OBVIOUS
  <2>5. QED
    BY <2>3, <2>4 DEF Access!Next
<1>4. ASSUME NEW w \in Workers, NEW f \in Files, DeleteFile(w, f)
      PROVE  Goal
  <2> DEFINE P == {p \in DOMAIN perms : perms[p].key[1] = f}
  <2>1. Answered' = Answered
    BY <1>4 DEF DeleteFile, Answered
  <2>2. Access!Withdraw(P)
    BY <1>4, <2>1 DEF DeleteFile, Access!Withdraw, Access!Never, Never
  <2>3. P \in SUBSET PermIds
    BY DEF TypeOK
  <2> HIDE DEF P
  <2>4. QED
    BY <2>2, <2>3 DEF Access!Next
<1>5. ASSUME NEW w \in Workers, NEW k \in Keys, NEW n \in Needs, CheckHit(w, k, n)
      PROVE  Goal
  <2>1. /\ cache[k].level \in Int /\ cache[k].readAt \in Nat
        /\ Access!HadLevel(perms, k, cache[k].readAt, cache[k].level)
        /\ 1 <= cache[k].readAt /\ cache[k].readAt <= now
        /\ now < cache[k].readAt + Staleness
    BY <1>5 DEF CheckHit, HadInvariant, HeldInvariant, TypeOK, Entry, Staleness
  <2>2. Access!Answer(w, k, n, cache[k].level >= LEVEL_HIERARCHY[n])
    <3>1. /\ job[w].pc \notin {"allowed", "denied"}
          /\ job' = [job EXCEPT ![w] = Verdict(k, n, cache[k].level)]
          /\ now' = now /\ perms' = perms
      BY <1>5 DEF CheckHit, Idle
    <3>2. PICK t \in Nat, v \in Int : t = cache[k].readAt /\ v = cache[k].level
      BY <2>1
    <3>3. n \in Levels
      OBVIOUS
    <3>4. Access!Answer(w, k, n, v >= LEVEL_HIERARCHY[n])
      BY <2>1, <3>1, <3>2, <3>3, VerdictStep
    <3>5. QED
      BY <3>2, <3>4
  <2>3. n \in Access!Levels /\ (cache[k].level >= LEVEL_HIERARCHY[n]) \in BOOLEAN
    BY DEF Levels, Access!Levels
  <2>4. QED
    BY <2>2, <2>3 DEF Access!Next
<1>6. ASSUME NEW w \in Workers, CheckFill(w)
      PROVE  Goal
  <2>1. PICK j \in FillJob : j = job[w]
    BY <1>6, JobShape DEF CheckFill
  <2>2. /\ Access!HadLevel(perms, j.key, j.at, j.level)
        /\ 1 <= j.at /\ j.at <= now
        /\ now < j.at + Staleness
    BY <1>6, <2>1 DEF CheckFill, HadInvariant, HeldInvariant, TypeOK, FillJob, Staleness
  <2>3. Access!Answer(w, j.key, j.need, j.level >= LEVEL_HIERARCHY[j.need])
    BY <1>6, <2>1, <2>2, VerdictStep DEF CheckFill, FillJob
  <2>4. j.key \in Keys /\ j.need \in Access!Levels /\ (j.level >= LEVEL_HIERARCHY[j.need]) \in BOOLEAN
    BY <2>1 DEF FillJob, Levels, Access!Levels
  <2>5. QED
    BY <2>3, <2>4 DEF Access!Next
<1>7. ASSUME NEW w \in Workers, Return(w) \/ Abort(w)
      PROVE  Goal
  <2>1. Access!Forget(w)
    BY <1>7, ForgetStep DEF Return, Abort, BeIdle, Idle, TypeOK
  <2>2. QED
    BY <2>1 DEF Access!Next
<1>8. ASSUME NEW w \in Workers,
             \/ GrantAudit(w) \/ RevokeAudit(w) \/ Invalidate(w) \/ CheckQuery(w)
             \/ \E k \in Keys, n \in Needs : CheckMiss(w, k, n)
      PROVE  Goal
  <2>1. job[w].pc \notin {"allowed", "denied"} /\ now' = now /\ perms' = perms
    BY <1>8 DEF GrantAudit, RevokeAudit, Invalidate, CheckQuery, CheckMiss, Idle
  <2>2. \A u \in Workers \ {w} : job'[u] = job[u]
    BY <1>8 DEF GrantAudit, RevokeAudit, Invalidate, CheckQuery, CheckMiss, Goto, BeIdle, TypeOK
  <2>3. job'[w].pc \notin {"allowed", "denied"}
    <3>1. job[w].pc \in WritingPc => job[w] \in WriteJob
      BY JobShape
    <3>2. QED
      BY <1>8, <3>1 DEF GrantAudit, RevokeAudit, Invalidate, CheckQuery, CheckMiss, Goto,
         BeIdle, TypeOK, Idle, WriteJob, WritingPc
  <2>4. QED
    BY <2>1, <2>2, <2>3, SilentStep
<1>9. CASE Tick
  <2>1. Answered' = Answered
    BY <1>9 DEF Tick, Answered
  <2>2. Access!Tick
    BY <1>9, <2>1 DEF Tick, Access!Tick
  <2>3. QED
    BY <2>2 DEF Access!Next
<1>10. CASE (\E k \in Keys : Evict(k)) \/ UNCHANGED vars
  BY <1>10 DEF Evict, vars, Answered
<1>11. QED
  BY <1>1, <1>2, <1>3, <1>4, <1>5, <1>6, <1>7, <1>8, <1>9, <1>10 DEF Next

\* Whatever the workers, the cache, the clock and the failures do, check_permission
\* gives only answers AccessControl allows: that of the table at an instant less
\* than TTL + MaxLag ago.
THEOREM ServiceIsAccessControl == Spec => AnswersFromTheTable
<1> DEFINE Inv == TypeOK /\ HeldInvariant /\ HadInvariant
<1>1. Init => Inv
  BY TypeInit, HeldInit, HadInit
<1>2. Inv /\ [Next]_vars => Inv'
  BY TypeNext, HeldNext, HadNext
<1>3. Inv /\ [Next]_vars => [Access!Next]_<<now, perms, Answered>>
  BY AccessNext
<1>4. QED
  BY <1>1, <1>2, <1>3, AccessInit, PTL DEF Spec, AnswersFromTheTable, Access!Spec
-----------------------------------------------------------------------------
(* The other side: no right is refused for long. *)

\* If a key had less than n in a tick all through which row p gave it n or more,
\* func.max took another row for the maximum, of a level below n.
LEMMA HadLessIsMasked ==
    ASSUME TypeOK, NEW k, NEW n \in 0..3, NEW t \in Nat, t <= now, now < t + Staleness,
           NEW v, Access!HadLevel(perms, k, t, v), ~(v >= n),
           NEW p \in DOMAIN perms, perms[p].key = k,
           LEVEL_HIERARCHY[perms[p].level] >= n, Steady(perms[p], now, Staleness)
    PROVE  Masked(perms, k, perms[p].level, n, now)
<1> USE TimeAssumption
<1>1. PICK S \in SUBSET Access!Possible(perms, k, t) :
         Access!Sure(perms, k, t) \subseteq S /\ v = EffectiveInt({perms[q].level : q \in S})
  BY SameLevels DEF Access!HadLevel
<1> DEFINE L == {perms[q].level : q \in S}
<1>2. Staleness \in Nat /\ now \in Nat /\ \A q \in DOMAIN perms : perms[q] \in Row
  BY DEF Staleness, TypeOK
<1>3. S \subseteq DOMAIN perms /\ L \in SUBSET Levels
  BY <1>1, <1>2 DEF Access!Possible, Row
<1>4. p \in S
  <2>1. perms[p].grantedAt \in Nat /\ perms[p].revokedAt \in Nat /\ perms[p].expires \in Nat
    BY <1>2 DEF Row
  <2>2. /\ perms[p].grantedAt < t
        /\ perms[p].revokedAt = Never \/ t < perms[p].revokedAt
        /\ perms[p].expires = Never \/ perms[p].expires > t
    BY <1>2, <2>1 DEF Steady
  <2>3. QED
    BY <1>1, <2>2 DEF Access!Sure, Access!NotExpired, Access!Never, Never
<1>5. perms[p].level \in L
  BY <1>4
<1>6. /\ SqlMax(L) \in L
      /\ CollationRank[perms[p].level] <= CollationRank[SqlMax(L)]
      /\ v = LEVEL_HIERARCHY[SqlMax(L)]
  BY <1>1, <1>3, <1>5, SqlMaxIsLast DEF EffectiveInt
<1>7. PICK q \in S : perms[q].level = SqlMax(L)
  BY <1>6
<1>8. /\ perms[p].level \in Levels /\ perms[q].level \in Levels
      /\ LEVEL_HIERARCHY[perms[q].level] < n
  BY <1>2, <1>3, <1>4, <1>6, <1>7, RankOfLevel DEF Row
<1>9. CollationRank[perms[p].level] < CollationRank[perms[q].level]
  <2>1. perms[p].level # perms[q].level
    BY <1>8, RankOfLevel
  <2>2. CollationRank[perms[p].level] <= CollationRank[perms[q].level]
    BY <1>6, <1>7
  <2>3. QED
    BY <1>8, <2>1, <2>2 DEF Levels, CollationRank
<1>10. Grants(perms[q], k, LEVEL_HIERARCHY["read"], now, Staleness)
  <2>1. /\ perms[q].key = k
        /\ perms[q].grantedAt <= t
        /\ perms[q].revokedAt = Never \/ t <= perms[q].revokedAt
        /\ perms[q].expires = Never \/ perms[q].expires > t
    BY <1>1, <1>7 DEF Access!Possible, Access!NotExpired, Access!Never, Never
  <2>2. /\ perms[q].grantedAt \in Nat /\ perms[q].revokedAt \in Nat /\ perms[q].expires \in Nat
    BY <1>2, <1>3 DEF Row
  <2>3. LEVEL_HIERARCHY[perms[q].level] >= LEVEL_HIERARCHY["read"]
    BY <1>8 DEF Levels, LEVEL_HIERARCHY
  <2>4. /\ perms[q].grantedAt <= now
        /\ perms[q].revokedAt = Never \/ now < perms[q].revokedAt + Staleness
        /\ perms[q].expires = Never \/ now < perms[q].expires + Staleness
    BY <1>2, <2>1, <2>2
  <2>5. QED
    BY <2>1, <2>3, <2>4 DEF Grants
<1>11. QED
  BY <1>3, <1>8, <1>9, <1>10 DEF Masked

\* A row that masks another at an instant that has passed does so for ever.
LEMMA MaskedStable ==
    ASSUME TypeOK, [Next]_vars, NEW k, NEW l, NEW n, NEW t \in Nat, t <= now,
           Masked(perms, k, l, n, t)
    PROVE  Masked(perms', k, l, n, t)
<1> USE TimeAssumption
<1>1. PICK q \in DOMAIN perms :
        /\ Grants(perms[q], k, LEVEL_HIERARCHY["read"], t, Staleness)
        /\ LEVEL_HIERARCHY[perms[q].level] < n
        /\ CollationRank[l] < CollationRank[perms[q].level]
  BY DEF Masked
<1>2. /\ q \in DOMAIN perms'
      /\ perms'[q].key = perms[q].key
      /\ perms'[q].level = perms[q].level
      /\ perms'[q].grantedAt = perms[q].grantedAt
      /\ perms'[q].expires = perms[q].expires
      /\ \/ perms'[q].revokedAt = perms[q].revokedAt
         \/ perms[q].revokedAt = Never /\ perms'[q].revokedAt = now
  BY RowsStable
<1>3. Staleness \in Nat \ {0} /\ now \in Nat
  BY DEF Staleness, TypeOK
<1>4. perms'[q].revokedAt = Never \/ t < perms'[q].revokedAt + Staleness
  BY <1>1, <1>2, <1>3 DEF Grants
<1>5. Grants(perms'[q], k, LEVEL_HIERARCHY["read"], t, Staleness)
  BY <1>1, <1>2, <1>4 DEF Grants
<1>6. QED
  BY <1>1, <1>2, <1>5 DEF Masked

\* A row that is steady at a passed instant after a step was so before it.
LEMMA SteadyBefore ==
    ASSUME TypeOK, [Next]_vars, NEW t \in Nat, t <= now,
           NEW p \in DOMAIN perms', Steady(perms'[p], t, Staleness)
    PROVE  /\ p \in DOMAIN perms /\ Steady(perms[p], t, Staleness)
           /\ perms'[p].key = perms[p].key /\ perms'[p].level = perms[p].level
<1> USE TimeAssumption
<1>1. Staleness \in Nat \ {0} /\ now \in Nat
  BY DEF Staleness, TypeOK
<1>2. p \in DOMAIN perms
  BY <1>1, NewRowIsOfNow DEF Steady
<1>3. /\ perms'[p].key = perms[p].key
      /\ perms'[p].level = perms[p].level
      /\ perms'[p].grantedAt = perms[p].grantedAt
      /\ perms'[p].expires = perms[p].expires
      /\ \/ perms'[p].revokedAt = perms[p].revokedAt
         \/ perms[p].revokedAt = Never /\ perms'[p].revokedAt = now
  BY <1>2, RowsStable
<1>4. QED
  BY <1>2, <1>3 DEF Steady

\* What DeniedJustified says of one worker and one row.
Justified(w, p) ==
    LET n == LEVEL_HIERARCHY[job[w].need]
    IN  /\ perms[p].key = job[w].key
        /\ LEVEL_HIERARCHY[perms[p].level] >= n
        /\ Steady(perms[p], job[w].at, Staleness)
        => Masked(perms, job[w].key, perms[p].level, n, job[w].at)

LEMMA DeniedInit == Init => DeniedJustified
BY DEF Init, DeniedJustified, Idle

LEMMA DeniedNext ==
    ASSUME TypeOK, HeldInvariant, HadInvariant, DeniedJustified, [Next]_vars
    PROVE  DeniedJustified'
<1> USE TimeAssumption
<1> SUFFICES ASSUME NEW w \in Workers, job'[w].pc = "denied", NEW p \in DOMAIN perms'
             PROVE  Justified(w, p)'
  BY DEF DeniedJustified, Justified
<1>1. Staleness \in Nat \ {0} /\ now \in Nat
  BY DEF Staleness, TypeOK
<1>2. CASE job'[w] = job[w]
  <2>1. job[w] \in AnswerJob
    BY <1>2, JobShape
  <2>2. PICK j : j = job[w]
    OBVIOUS
  <2>3. j.at \in Nat /\ j.at <= now
    BY <1>2, <2>1, <2>2 DEF HeldInvariant, AnswerJob
  <2>4. SUFFICES ASSUME perms'[p].key = j.key,
                        LEVEL_HIERARCHY[perms'[p].level] >= LEVEL_HIERARCHY[j.need],
                        Steady(perms'[p], j.at, Staleness)
                 PROVE  Masked(perms', j.key, perms'[p].level, LEVEL_HIERARCHY[j.need], j.at)
    BY <1>2, <2>2 DEF Justified
  <2>5. /\ p \in DOMAIN perms /\ Steady(perms[p], j.at, Staleness)
        /\ perms'[p].key = perms[p].key /\ perms'[p].level = perms[p].level
    BY <2>3, <2>4, SteadyBefore
  <2>6. Masked(perms, j.key, perms[p].level, LEVEL_HIERARCHY[j.need], j.at)
    BY <1>2, <2>2, <2>4, <2>5 DEF DeniedJustified
  <2>7. Masked(perms', j.key, perms[p].level, LEVEL_HIERARCHY[j.need], j.at)
    BY <2>3, <2>6, MaskedStable
  <2>8. QED
    BY <2>5, <2>7
<1>3. ASSUME NEW k \in Keys, NEW need \in Levels, NEW v \in Int, NEW t \in Nat,
             job'[w] = Verdict(k, need, v), Access!HadLevel(perms, k, t, v),
             t <= now, now < t + Staleness, perms' = perms, now' = now
      PROVE  Justified(w, p)'
  <2>1. ~(v >= LEVEL_HIERARCHY[need]) /\ LEVEL_HIERARCHY[need] \in 0..3
    BY <1>3, RankOfLevel DEF Verdict
  <2>2. job'[w].key = k /\ job'[w].need = need /\ job'[w].at = now
    BY <1>3 DEF Verdict
  <2>3. SUFFICES ASSUME perms[p].key = k,
                        LEVEL_HIERARCHY[perms[p].level] >= LEVEL_HIERARCHY[need],
                        Steady(perms[p], now, Staleness)
                 PROVE  Masked(perms, k, perms[p].level, LEVEL_HIERARCHY[need], now)
    BY <1>3, <2>2 DEF Justified, Masked
  <2>4. QED
    BY <1>3, <2>1, <2>3, HadLessIsMasked
<1>4. CASE CheckFill(w)
  <2>1. job[w] \in FillJob
    BY <1>4, JobShape DEF CheckFill
  <2>2. PICK j : j = job[w]
    OBVIOUS
  <2>3. job'[w] = Verdict(j.key, j.need, j.level) /\ perms' = perms /\ now' = now
    BY <1>4, <2>2 DEF CheckFill, TypeOK
  <2>4. j.key \in Keys /\ j.need \in Levels /\ j.level \in Int /\ j.at \in Nat
    BY <2>1, <2>2 DEF FillJob
  <2>5. Access!HadLevel(perms, j.key, j.at, j.level)
    BY <1>4, <2>2 DEF CheckFill, HadInvariant
  <2>6. j.at <= now /\ now < j.at + Staleness
    BY <1>1, <1>4, <2>2, <2>4 DEF CheckFill, HeldInvariant, Staleness
  <2>7. QED
    BY <1>3, <2>3, <2>4, <2>5, <2>6
<1>5. ASSUME NEW k \in Keys, NEW need \in Needs, CheckHit(w, k, need)
      PROVE  Justified(w, p)'
  <2>1. PICK e : e = cache[k]
    OBVIOUS
  <2>2. k \in DOMAIN cache /\ e \in Entry
    BY <1>5, <2>1 DEF CheckHit, TypeOK
  <2>3. job'[w] = Verdict(k, need, e.level) /\ perms' = perms /\ now' = now
    BY <1>5, <2>1 DEF CheckHit, TypeOK
  <2>4. e.level \in Int /\ e.readAt \in Nat /\ e.exp \in Nat /\ need \in Levels
    BY <2>2, LevelsAssumption DEF Entry
  <2>5. Access!HadLevel(perms, k, e.readAt, e.level)
    BY <2>1, <2>2 DEF HadInvariant
  <2>6. e.readAt <= now /\ now < e.exp /\ e.exp <= e.readAt + Staleness
    BY <2>1, <2>2 DEF HeldInvariant
  <2>7. e.readAt <= now /\ now < e.readAt + Staleness
    BY <1>1, <2>4, <2>6
  <2>8. QED
    BY <1>3, <2>3, <2>4, <2>5, <2>7
<1>6. QED
  BY <1>2, <1>4, <1>5, JobEffect

\* Whatever the number of workers, their failures and the -1 entries of Redis, a
\* False answer of check_permission means that no row has given the level asked
\* for TTL + MaxLag ticks, unless func.max prefers a lower one.
THEOREM NoRightRefusedForLong == Spec => []DeniedJustified
<1>1. /\ TypeOK /\ HeldInvariant /\ HadInvariant /\ DeniedJustified /\ [Next]_vars
      => (TypeOK /\ HeldInvariant /\ HadInvariant /\ DeniedJustified)'
  BY TypeNext, HeldNext, HadNext, DeniedNext
<1>2. QED
  BY <1>1, TypeInit, HeldInit, HadInit, DeniedInit, PTL DEF Spec
-----------------------------------------------------------------------------
(* How often func.max is right. *)

\* The sets of levels of which the alphabetical maximum is the highest level.
Plain(S) == (\E l \in Levels : S \subseteq {l}) \/ S = {"read", "write"}

\* What func.max and the ranks take for the maximum, level by level.
LEMMA MaximaByCases ==
    ASSUME NEW S \in SUBSET Levels, S # {}
    PROVE  /\ "write" \in S => EffectiveInt(S) = 1
           /\ "write" \notin S /\ "read" \in S => EffectiveInt(S) = 0
           /\ S \subseteq {"delete", "admin"} /\ "delete" \in S => EffectiveInt(S) = 2
           /\ S = {"admin"} => EffectiveInt(S) = 3
           /\ "admin" \in S => HighestInt(S) = 3
           /\ "admin" \notin S /\ "delete" \in S => HighestInt(S) = 2
           /\ S \subseteq {"read", "write"} /\ "write" \in S => HighestInt(S) = 1
           /\ S = {"read"} => HighestInt(S) = 0
<1> DEFINE Ranks == {LEVEL_HIERARCHY[l] : l \in S}
<1>1. /\ SqlMax(S) \in S
      /\ \A m \in S : CollationRank[m] <= CollationRank[SqlMax(S)]
      /\ EffectiveInt(S) = LEVEL_HIERARCHY[SqlMax(S)]
  BY SqlMaxIsLast DEF EffectiveInt
<1>2. /\ "write" \in S => SqlMax(S) = "write"
      /\ "write" \notin S /\ "read" \in S => SqlMax(S) = "read"
      /\ S \subseteq {"delete", "admin"} /\ "delete" \in S => SqlMax(S) = "delete"
      /\ S = {"admin"} => SqlMax(S) = "admin"
  <2>1. PICK l : l = SqlMax(S)
    OBVIOUS
  <2>2. l \in S /\ l \in Levels /\ \A m \in S : CollationRank[m] <= CollationRank[l]
    BY <1>1, <2>1
  <2>3. "write" \in S => l = "write"
    BY <2>2 DEF Levels, CollationRank
  <2>4. "write" \notin S /\ "read" \in S => l = "read"
    BY <2>2 DEF Levels, CollationRank
  <2>5. S \subseteq {"delete", "admin"} /\ "delete" \in S => l = "delete"
    BY <2>2 DEF Levels, CollationRank
  <2>6. S = {"admin"} => l = "admin"
    BY <2>2
  <2>7. QED
    BY <2>1, <2>3, <2>4, <2>5, <2>6
<1>3. ASSUME NEW n \in Ranks, \A l \in S : LEVEL_HIERARCHY[l] <= n
      PROVE  HighestInt(S) = n
  <2>1. HighestInt(S) \in Ranks /\ \A l \in S : LEVEL_HIERARCHY[l] <= HighestInt(S)
    BY <1>3 DEF HighestInt
  <2>2. Ranks \subseteq 0..3
    BY RankOfLevel
  <2>3. HighestInt(S) <= n /\ n <= HighestInt(S)
    BY <1>3, <2>1
  <2>4. QED
    BY <1>3, <2>1, <2>2, <2>3
<1>4. /\ "admin" \in S => 3 \in Ranks /\ \A l \in S : LEVEL_HIERARCHY[l] <= 3
      /\ "admin" \notin S /\ "delete" \in S
           => 2 \in Ranks /\ \A l \in S : LEVEL_HIERARCHY[l] <= 2
      /\ S \subseteq {"read", "write"} /\ "write" \in S
           => 1 \in Ranks /\ \A l \in S : LEVEL_HIERARCHY[l] <= 1
      /\ S = {"read"} => 0 \in Ranks /\ \A l \in S : LEVEL_HIERARCHY[l] <= 0
  BY DEF Levels, LEVEL_HIERARCHY
<1>5. /\ S # {"admin"} \/ LEVEL_HIERARCHY["admin"] = 3
      /\ LEVEL_HIERARCHY["write"] = 1 /\ LEVEL_HIERARCHY["read"] = 0
      /\ LEVEL_HIERARCHY["delete"] = 2 /\ LEVEL_HIERARCHY["admin"] = 3
  BY DEF LEVEL_HIERARCHY
<1>6. QED
  BY <1>1, <1>2, <1>3, <1>4, <1>5

\* func.max over the names of the levels (permission_manager.py:106) gives the
\* highest one exactly for at most one level, and for read with write.
THEOREM RightExactlyWhenPlain ==
    ASSUME NEW S \in SUBSET Levels
    PROVE  /\ EffectiveInt(S) <= HighestInt(S)
           /\ EffectiveInt(S) = HighestInt(S) <=> Plain(S)
<1>1. CASE S = {}
  BY <1>1 DEF EffectiveInt, HighestInt, Plain, Levels, NoLevel
<1>2. CASE "admin" \in S /\ S # {"admin"}
  <2>1. HighestInt(S) = 3 /\ EffectiveInt(S) \in {0, 1, 2}
    BY <1>2, MaximaByCases DEF Levels
  <2>2. ~Plain(S)
    BY <1>2 DEF Plain
  <2>3. QED
    BY <2>1, <2>2
<1>3. CASE "admin" \notin S /\ "delete" \in S /\ S # {"delete"}
  <2>1. HighestInt(S) = 2 /\ EffectiveInt(S) \in {0, 1}
    BY <1>3, MaximaByCases DEF Levels
  <2>2. ~Plain(S)
    BY <1>3 DEF Plain
  <2>3. QED
    BY <2>1, <2>2
<1>4. CASE S \in {{"admin"}, {"delete"}, {"write"}, {"read"}, {"read", "write"}}
  <2>1. EffectiveInt(S) = HighestInt(S) /\ HighestInt(S) \in {0, 1, 2, 3}
    BY <1>4, MaximaByCases
  <2>2. Plain(S)
    BY <1>4 DEF Plain, Levels
  <2>3. QED
    BY <2>1, <2>2
<1>5. QED
  BY <1>1, <1>2, <1>3, <1>4 DEF Levels

\* With one worker, the level check_permission caches and answers from is the
\* highest of the rows in force exactly when their levels are plain.
HighestWhenPlain ==
    Cardinality(Workers) = 1 =>
        \A w \in Workers : job[w].pc = "fill" =>
            LET A == ActiveLevels(perms, job[w].key, job[w].at)
            IN  job[w].level = HighestInt(A) <=> Plain(A)

\* The comment at permission_manager.py:105 ("highest level") holds for the keys
\* whose rows are plain, and for no other, in every state of a single worker.
THEOREM LoneWorkerFillsHighest == Spec => []HighestWhenPlain
<1>1. TypeOK /\ CoherentInvariant /\ [Next]_vars => (TypeOK /\ CoherentInvariant)'
  BY TypeNext, CoherentNext
<1>2. TypeOK /\ CoherentInvariant => HighestWhenPlain
  <2> SUFFICES ASSUME TypeOK, CoherentInvariant, Cardinality(Workers) = 1,
                      NEW w \in Workers, job[w].pc = "fill"
               PROVE  LET A == ActiveLevels(perms, job[w].key, job[w].at)
                      IN  job[w].level = HighestInt(A) <=> Plain(A)
    BY DEF HighestWhenPlain
  <2>1. ActiveLevels(perms, job[w].key, job[w].at) \in SUBSET Levels
    BY DEF ActiveLevels, ActiveRows, TypeOK, Row
  <2>2. job[w].level = EffectiveInt(ActiveLevels(perms, job[w].key, job[w].at))
    BY DEF CoherentInvariant
  <2>3. QED
    BY <2>1, <2>2, RightExactlyWhenPlain
<1>3. QED
  BY <1>1, <1>2, TypeInit, CoherentInit, PTL DEF Spec
=============================================================================
