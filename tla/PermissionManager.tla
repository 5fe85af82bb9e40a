-------------------------- MODULE PermissionManager --------------------------
(***************************************************************************)
(* backend/app/services/permission_manager.py: rows of the permissions     *)
(* table, the Redis cache of one level per (file, user), and the workers   *)
(* (backend processes) that run grant_permission, check_permission and     *)
(* revoke_permission on them.                                              *)
(*                                                                         *)
(* A handler is cut at every point where another process, the clock, a     *)
(* failure or a kill can come between two of its effects: each database    *)
(* commit, each Redis command and each audit block is a step.  Inside one  *)
(* process the handlers are coroutines that never suspend between these    *)
(* steps, so one worker runs one handler at a time.  The deployment of the *)
(* repository is Workers = {w}; more workers model a scaled-out backend.   *)
(*                                                                         *)
(* Time is a counter of ticks.  Fields of rows and entries that the        *)
(* program does not store (the instant of a revocation, the instant of the *)
(* query behind a cache entry) are history, used by properties only.       *)
(*                                                                         *)
(* Operators named Bad... are mistakes the code does not make; they show   *)
(* that the properties would notice them, and nothing else uses them.      *)
(***************************************************************************)
EXTENDS PermissionLevels, FiniteSets, Functions

CONSTANTS
    Workers,      \* backend processes
    Files, Users,
    PermIds,      \* identifiers uuid4 may draw for permission rows
    GrantLevels,  \* levels asked for in grant requests
    Needs,        \* levels the API checks for
    Durations,    \* durations asked for, 0 and negatives meaning unlimited
    TTL,          \* life of a cache entry, 300 s in the code
    MaxLag,       \* longest stay of a worker between its query and its SETEX
    MaxTime       \* bound on the clock

ASSUME WorkersAssumption == IsFiniteSet(Workers)
ASSUME LevelsAssumption == GrantLevels \subseteq Levels /\ Needs \subseteq Levels
ASSUME TimeAssumption ==
    /\ TTL \in Nat \ {0}
    /\ MaxLag \in Nat
    /\ MaxTime \in Nat
    /\ Durations \subseteq Int

VARIABLES
    now,          \* the clock all processes share
    perms,        \* rows of the permissions table, by id
    cache,        \* live Redis entries, by key
    job,          \* what each worker is doing
    audit,        \* blocks written about permissions
    deleted,      \* files that are gone, and their rows with them
    interrupted   \* history: keys whose last writer stopped before its DEL,
                  \* or had none to make

vars == <<now, perms, cache, job, audit, deleted, interrupted>>

Keys == Files \X Users          \* perm:{file_id}:{user_id}
Never == 0                      \* expires_at NULL, and "not revoked"

Row == [key : Keys, level : Levels, grantedAt : Nat, expires : Nat,
        revokedAt : Nat, traced : BOOLEAN]
Entry == [level : Int, readAt : Nat, exp : Nat]
Block == [action : {"PERMISSION_GRANTED", "PERMISSION_REVOKED"}, perm : PermIds]

Idle == [pc |-> "idle"]
WritingPc == {"auditGrant", "storeHash", "auditRevoke", "invalidate"}
WriteJob  == [pc : WritingPc, perm : PermIds, key : Keys]
QueryJob  == [pc : {"query"}, key : Keys, need : Levels]
FillJob   == [pc : {"fill"}, key : Keys, need : Levels, level : Int, at : Nat]
AnswerJob == [pc : {"allowed", "denied"}, key : Keys, need : Levels, at : Nat]
Job == {Idle} \cup WriteJob \cup QueryJob \cup FillJob \cup AnswerJob

TypeOK ==
    /\ now \in Nat \ {0}
    /\ DOMAIN perms \subseteq PermIds /\ perms \in [DOMAIN perms -> Row]
    /\ DOMAIN cache \subseteq Keys /\ cache \in [DOMAIN cache -> Entry]
    /\ job \in [Workers -> Job]
    /\ audit \subseteq Block
    /\ deleted \subseteq Files
    /\ interrupted \subseteq Keys

Put(f, x, y) == [z \in DOMAIN f \cup {x} |-> IF z = x THEN y ELSE f[z]]
Drop(f, x) == Restrict(f, DOMAIN f \ {x})
-----------------------------------------------------------------------------
(* The rows of the table the query of check_permission selects for key k at
   instant t, and their levels. *)
NotExpired(row, t) == row.expires = Never \/ row.expires > t
ActiveRows(rows, k, t) ==
    {p \in DOMAIN rows : /\ rows[p].key = k
                         /\ rows[p].revokedAt = Never
                         /\ NotExpired(rows[p], t)}
ActiveLevels(rows, k, t) == {rows[p].level : p \in ActiveRows(rows, k, t)}

\* Any duration but 0 added to the clock.
BadExpiry(d) == IF d # 0 THEN now + d ELSE Never

Expiry(d) == IF d > 0 THEN now + d ELSE Never

NewRow(k, l, d) == [key |-> k, level |-> l, grantedAt |-> now,
                    expires |-> Expiry(d), revokedAt |-> Never, traced |-> FALSE]

Goto(w, pc) == job' = [job EXCEPT ![w].pc = pc]
BeIdle(w) == job' = [job EXCEPT ![w] = Idle]

Init ==
    /\ now = 1
    /\ perms = << >>
    /\ cache = << >>
    /\ job = [w \in Workers |-> Idle]
    /\ audit = {}
    /\ deleted = {}
    /\ interrupted = {}
-----------------------------------------------------------------------------
(* grant_permission *)

\* Nothing looks for an earlier row with the same file, grantee and level:
\* models/permission.py:25-26 wants no such constraint.  A table made by init-db.sql
\* (line 61, UNIQUE) refuses the second row, and then this step does not happen.
GrantCommit(w, k, l, d, p) ==
    /\ job[w] = Idle
    /\ k[1] \notin deleted
    /\ p \notin DOMAIN perms
    /\ perms' = Put(perms, p, NewRow(k, l, d))
    /\ job' = [job EXCEPT ![w] = [pc |-> "auditGrant", perm |-> p, key |-> k]]
    /\ UNCHANGED <<now, cache, audit, deleted, interrupted>>

\* The hash stored although create_block failed.
BadGrantAudit(w) ==
    /\ job[w].pc = "auditGrant"
    /\ \/ audit' = audit \cup {[action |-> "PERMISSION_GRANTED", perm |-> job[w].perm]}
       \/ audit' = audit
    /\ Goto(w, "storeHash")
    /\ UNCHANGED <<now, perms, cache, deleted, interrupted>>

\* create_block; an exception is logged and the handler goes on to the DEL,
\* whose key comes from the arguments.
GrantAudit(w) ==
    /\ job[w].pc = "auditGrant"
    /\ \/ /\ audit' = audit \cup {[action |-> "PERMISSION_GRANTED", perm |-> job[w].perm]}
          /\ Goto(w, "storeHash")
       \/ audit' = audit /\ Goto(w, "invalidate")
    /\ UNCHANGED <<now, perms, cache, deleted, interrupted>>

\* perm.blockchain_hash = ...; db.commit(), inside the same try.
StoreHash(w) ==
    /\ job[w].pc = "storeHash"
    /\ \/ /\ job[w].key[1] \notin deleted
          /\ perms' = [perms EXCEPT ![job[w].perm].traced = TRUE]
       \/ perms' = perms
    /\ Goto(w, "invalidate")
    /\ UNCHANGED <<now, cache, audit, deleted, interrupted>>
-----------------------------------------------------------------------------
(* revoke_permission *)

\* The cache key of the DEL built with the user who revokes.
BadRevokeCommit(w, p) ==
    /\ job[w] = Idle
    /\ p \in DOMAIN perms /\ perms[p].key[1] \notin deleted
    /\ perms' = IF perms[p].revokedAt = Never
                  THEN [perms EXCEPT ![p].revokedAt = now] ELSE perms
    /\ \E u \in Users :
         job' = [job EXCEPT ![w] =
                   [pc |-> "auditRevoke", perm |-> p, key |-> <<perms[p].key[1], u>>]]
    /\ UNCHANGED <<now, cache, audit, deleted, interrupted>>

\* A row already revoked is revoked again: no UPDATE, but the same steps.
RevokeCommit(w, p) ==
    /\ job[w] = Idle
    /\ p \in DOMAIN perms /\ perms[p].key[1] \notin deleted
    /\ perms' = IF perms[p].revokedAt = Never
                  THEN [perms EXCEPT ![p].revokedAt = now] ELSE perms
    /\ job' = [job EXCEPT ![w] = [pc |-> "auditRevoke", perm |-> p, key |-> perms[p].key]]
    /\ UNCHANGED <<now, cache, audit, deleted, interrupted>>

\* create_block.  When its INSERT fails the session is rolled back and the
\* attributes of perm are expired, so perm.file_id in the cache key raises
\* (PendingRollbackError) and the DEL is never reached; a failure before the
\* flush leaves them loaded.
RevokeAudit(w) ==
    /\ job[w].pc = "auditRevoke"
    /\ \/ /\ audit' = audit \cup {[action |-> "PERMISSION_REVOKED", perm |-> job[w].perm]}
          /\ Goto(w, "invalidate")
          /\ UNCHANGED interrupted
       \/ /\ Goto(w, "invalidate")
          /\ UNCHANGED <<audit, interrupted>>
       \/ /\ BeIdle(w)
          /\ interrupted' = interrupted \cup {job[w].key}
          /\ UNCHANGED audit
    /\ UNCHANGED <<now, perms, cache, deleted>>

\* The DEL forgotten.
BadInvalidate(w) ==
    /\ job[w].pc = "invalidate"
    /\ interrupted' = interrupted \ {job[w].key}
    /\ BeIdle(w)
    /\ UNCHANGED <<now, perms, cache, audit, deleted>>

\* self.redis.delete(cache_key), the last step of both writers.
Invalidate(w) ==
    /\ job[w].pc = "invalidate"
    /\ cache' = Drop(cache, job[w].key)
    /\ interrupted' = interrupted \ {job[w].key}
    /\ BeIdle(w)
    /\ UNCHANGED <<now, perms, audit, deleted>>
-----------------------------------------------------------------------------
(* delete_file: the commit that deletes the row of f.  The rows that refer to
   it go too (init-db.sql), and nobody deletes their cache keys. *)
DeleteFile(w, f) ==
    /\ job[w] = Idle
    /\ f \notin deleted
    /\ deleted' = deleted \cup {f}
    /\ perms' = [p \in DOMAIN perms |->
                   IF perms[p].key[1] = f /\ perms[p].revokedAt = Never
                     THEN [perms[p] EXCEPT !.revokedAt = now] ELSE perms[p]]
    /\ interrupted' = interrupted \cup {k \in Keys : k[1] = f}
    /\ UNCHANGED <<now, cache, job, audit>>
-----------------------------------------------------------------------------
(* check_permission *)

Verdict(k, need, level) ==
    [pc |-> IF level >= LEVEL_HIERARCHY[need] THEN "allowed" ELSE "denied",
     key |-> k, need |-> need, at |-> now]

\* A sliding expiration: every hit renews the entry.
BadCheckHit(w, k, need) ==
    /\ job[w] = Idle
    /\ k \in DOMAIN cache
    /\ job' = [job EXCEPT ![w] = Verdict(k, need, cache[k].level)]
    /\ cache' = [cache EXCEPT ![k].exp = now + TTL]
    /\ UNCHANGED <<now, perms, audit, deleted, interrupted>>

\* redis.get finds an entry: answered from it.
CheckHit(w, k, need) ==
    /\ job[w] = Idle
    /\ k \in DOMAIN cache
    /\ job' = [job EXCEPT ![w] = Verdict(k, need, cache[k].level)]
    /\ UNCHANGED <<now, perms, cache, audit, deleted, interrupted>>

CheckMiss(w, k, need) ==
    /\ job[w] = Idle
    /\ k \notin DOMAIN cache
    /\ job' = [job EXCEPT ![w] = [pc |-> "query", key |-> k, need |-> need]]
    /\ UNCHANGED <<now, perms, cache, audit, deleted, interrupted>>

\* now = utcnow() and the query with func.max: one step, as the query reads the
\* table the instant it is sent; the tick of both is the same.
CheckQuery(w) ==
    /\ job[w].pc = "query"
    /\ job' = [job EXCEPT ![w] =
         [pc |-> "fill", key |-> job[w].key, need |-> job[w].need, at |-> now,
          level |-> EffectiveInt(ActiveLevels(perms, job[w].key, now))]]
    /\ UNCHANGED <<now, perms, cache, audit, deleted, interrupted>>

\* redis.setex(cache_key, 300, ..), the same for a level and for -1.
CheckFill(w) ==
    /\ job[w].pc = "fill"
    /\ cache' = Put(cache, job[w].key,
                    [level |-> job[w].level, readAt |-> job[w].at, exp |-> now + TTL])
    /\ interrupted' = interrupted \ {job[w].key}
    /\ job' = [job EXCEPT ![w] = Verdict(job[w].key, job[w].need, job[w].level)]
    /\ UNCHANGED <<now, perms, audit, deleted>>

\* The caller takes the answer and the request goes on without this module.
Return(w) ==
    /\ job[w].pc \in {"allowed", "denied"}
    /\ BeIdle(w)
    /\ UNCHANGED <<now, perms, cache, audit, deleted, interrupted>>
-----------------------------------------------------------------------------
(* Environment *)

\* An exception (a lost connection to PostgreSQL or Redis) ends the handler,
\* or the process is killed and restarted.
Abort(w) ==
    /\ job[w] # Idle
    /\ interrupted' = IF job[w].pc \in WritingPc
                        THEN interrupted \cup {job[w].key} ELSE interrupted
    /\ BeIdle(w)
    /\ UNCHANGED <<now, perms, cache, audit, deleted>>

\* Redis drops an entry early (eviction, or a restart that lost the SETEX).
Evict(k) ==
    /\ k \in DOMAIN cache
    /\ cache' = Drop(cache, k)
    /\ UNCHANGED <<now, perms, job, audit, deleted, interrupted>>

\* SETEX for a level, a plain SET for -1.
BadTick ==
    /\ now < MaxTime
    /\ \A w \in Workers : job[w].pc = "fill" => now < job[w].at + MaxLag
    /\ now' = now + 1
    /\ cache' = Restrict(cache, {k \in DOMAIN cache :
                   cache[k].exp > now + 1 \/ cache[k].level = NoLevel})
    /\ UNCHANGED <<perms, job, audit, deleted, interrupted>>

\* The clock moves, and Redis forgets the entries whose TTL is over.
Tick ==
    /\ now < MaxTime
    /\ \A w \in Workers : job[w].pc = "fill" => now < job[w].at + MaxLag
    /\ now' = now + 1
    /\ cache' = Restrict(cache, {k \in DOMAIN cache : cache[k].exp > now + 1})
    /\ UNCHANGED <<perms, job, audit, deleted, interrupted>>

Next ==
    \/ \E w \in Workers :
         \/ \E k \in Keys, l \in GrantLevels, d \in Durations, p \in PermIds :
              GrantCommit(w, k, l, d, p)
         \/ GrantAudit(w) \/ StoreHash(w)
         \/ \E p \in PermIds : RevokeCommit(w, p)
         \/ RevokeAudit(w) \/ Invalidate(w)
         \/ \E f \in Files : DeleteFile(w, f)
         \/ \E k \in Keys, n \in Needs : CheckHit(w, k, n) \/ CheckMiss(w, k, n)
         \/ CheckQuery(w) \/ CheckFill(w) \/ Return(w) \/ Abort(w)
    \/ \E k \in Keys : Evict(k)
    \/ Tick

Spec == Init /\ [][Next]_vars
-----------------------------------------------------------------------------
(* Properties *)

\* Every answer lags less than this behind the table.
Staleness == TTL + MaxLag

\* The row is of key k, gives at least level n, and at instant t it was granted and
\* had been revoked or expired, if at all, for less than s ticks.
Grants(row, k, n, t, s) ==
    /\ row.key = k
    /\ LEVEL_HIERARCHY[row.level] >= n
    /\ row.grantedAt <= t
    /\ row.revokedAt = Never \/ t < row.revokedAt + s
    /\ row.expires = Never \/ t < row.expires + s

\* However many workers share the table and the cache, and wherever they are
\* interrupted, check_permission answers True only on the strength of a row of
\* that file and user, of the level asked or more, that was granted and whose
\* revocation or expiry is less than Staleness old.
AllowedJustified ==
    \A w \in Workers : job[w].pc = "allowed" =>
        \E p \in DOMAIN perms :
            Grants(perms[p], job[w].key, LEVEL_HIERARCHY[job[w].need], job[w].at, Staleness)

\* At instant t the row had been granted for s ticks, and was in force.
Steady(row, t, s) ==
    /\ row.grantedAt + s <= t
    /\ row.revokedAt = Never \/ t < row.revokedAt
    /\ row.expires = Never \/ t < row.expires

\* A row of k that gave less than n, less than Staleness before t, has a level
\* func.max prefers to l.
Masked(rows, k, l, n, t) ==
    \E p \in DOMAIN rows :
        /\ Grants(rows[p], k, LEVEL_HIERARCHY["read"], t, Staleness)
        /\ LEVEL_HIERARCHY[rows[p].level] < n
        /\ CollationRank[l] < CollationRank[rows[p].level]

\* Nor is a right refused for longer than the cache may be behind: a False answer
\* means that no row of that file and user has given the level asked for Staleness
\* ticks, however many grants lost their DEL and whatever -1 was cached, unless
\* the alphabetical maximum hides the row behind one of a lower level.
DeniedJustified ==
    \A w \in Workers : job[w].pc = "denied" =>
        \A p \in DOMAIN perms :
            LET n == LEVEL_HIERARCHY[job[w].need]
            IN  /\ perms[p].key = job[w].key
                /\ LEVEL_HIERARCHY[perms[p].level] >= n
                /\ Steady(perms[p], job[w].at, Staleness)
                => Masked(perms, job[w].key, perms[p].level, n, job[w].at)

\* At instant t, key k had level n in the table rows: a row of k with exactly
\* that rank was granted, not revoked and not expired then.
Held(rows, k, n, t) ==
    \/ n = NoLevel
    \/ \E p \in DOMAIN rows :
         /\ rows[p].key = k
         /\ LEVEL_HIERARCHY[rows[p].level] = n
         /\ rows[p].grantedAt <= t
         /\ rows[p].revokedAt = Never \/ t <= rows[p].revokedAt
         /\ rows[p].expires = Never \/ t < rows[p].expires

\* The strengthening behind AllowedJustified.  A cache entry, and a level a
\* worker is about to cache, was truly held when it was read; the entry dies
\* less than Staleness after that, whatever committed in between.
HeldInvariant ==
    /\ \A p \in DOMAIN perms : perms[p].grantedAt <= now
    /\ \A k \in DOMAIN cache :
         /\ Held(perms, k, cache[k].level, cache[k].readAt)
         /\ cache[k].readAt <= now
         /\ now < cache[k].exp
         /\ cache[k].exp <= cache[k].readAt + Staleness
    /\ \A w \in Workers :
         /\ job[w].pc = "fill" =>
              /\ Held(perms, job[w].key, job[w].level, job[w].at)
              /\ job[w].at <= now
              /\ now <= job[w].at + MaxLag
         /\ job[w].pc \in {"allowed", "denied"} => job[w].at <= now

\* With one worker, a revocation whose handler reached the DEL binds the very
\* next check: a True answer on a key no writer was interrupted on rests on a
\* row that is not revoked at all (its expiry alone may be cached too long).
RevocationImmediate ==
    Cardinality(Workers) = 1 =>
        \A w \in Workers :
            job[w].pc = "allowed" /\ job[w].key \notin interrupted =>
                \E p \in DOMAIN perms :
                    /\ perms[p].revokedAt = Never
                    /\ Grants(perms[p], job[w].key, LEVEL_HIERARCHY[job[w].need],
                              job[w].at, Staleness)

Writing(k) == \E w \in Workers : job[w].pc \in WritingPc /\ job[w].key = k

\* With one worker, a live cache entry is the answer the query would give for
\* the instant it was computed at, unless a writer of that key is at work or was
\* interrupted: grants and revocations both reach the cache.
CacheCoherent ==
    Cardinality(Workers) = 1 =>
        \A k \in DOMAIN cache :
            k \notin interrupted /\ ~Writing(k) =>
                cache[k].level = EffectiveInt(ActiveLevels(perms, k, cache[k].readAt))

\* The strengthening behind the two properties above: a level that the worker
\* is about to cache is still what the query would give.
CoherentInvariant ==
    /\ CacheCoherent
    /\ Cardinality(Workers) = 1 =>
         \A w \in Workers : job[w].pc = "fill" =>
             job[w].level = EffectiveInt(ActiveLevels(perms, job[w].key, job[w].at))

\* The audit trail never runs ahead of the table, and a row that carries a
\* blockchain_hash has its block: blocks speak of committed rows, a
\* PERMISSION_REVOKED block of a revoked one.
AuditFaithful ==
    /\ \A b \in audit :
         /\ b.perm \in DOMAIN perms
         /\ b.action = "PERMISSION_REVOKED" => perms[b.perm].revokedAt # Never
    /\ \A p \in DOMAIN perms :
         perms[p].traced => [action |-> "PERMISSION_GRANTED", perm |-> p] \in audit

\* The strengthening behind AuditFaithful: the writer at work has committed the
\* row its next step is about.
AuditInvariant ==
    /\ AuditFaithful
    /\ \A w \in Workers :
         /\ job[w].pc \in {"auditGrant", "storeHash", "auditRevoke"} =>
              job[w].perm \in DOMAIN perms
         /\ job[w].pc = "storeHash" =>
              [action |-> "PERMISSION_GRANTED", perm |-> job[w].perm] \in audit
         /\ job[w].pc = "auditRevoke" => perms[job[w].perm].revokedAt # Never

\* permission_manager.py:105 says the query fetches the highest level among the
\* rows not revoked and not expired.
FilledWithHighest ==
    \A w \in Workers : job[w].pc = "fill" =>
        job[w].level = HighestInt(ActiveLevels(perms, job[w].key, job[w].at))

-----------------------------------------------------------------------------
(* Refinement *)

\* What each worker has just been told by check_permission.
Answered ==
    [w \in Workers |->
       IF job[w].pc \in {"allowed", "denied"}
         THEN [key |-> job[w].key, need |-> job[w].need, allowed |-> job[w].pc = "allowed"]
         ELSE [allowed |-> "not asked"]]

Access == INSTANCE AccessControl WITH
    Clients <- Workers, Lag <- Staleness, rows <- perms, answers <- Answered

\* The service implements AccessControl: whatever the workers, the cache and the
\* failures do, every answer, True or False, is the one the query would have
\* given at some instant less than Staleness ago.
AnswersFromTheTable == Access!Spec

\* The strengthening behind it: a cached level, and one about to be cached, is
\* one the key had at some point of the tick it was read in, and no row was
\* withdrawn in the future.
HadInvariant ==
    /\ \A p \in DOMAIN perms : perms[p].revokedAt <= now
    /\ \A k \in DOMAIN cache :
         cache[k].readAt >= 1 /\ Access!HadLevel(perms, k, cache[k].readAt, cache[k].level)
    /\ \A w \in Workers : job[w].pc = "fill" =>
         job[w].at >= 1 /\ Access!HadLevel(perms, job[w].key, job[w].at, job[w].level)
=============================================================================
