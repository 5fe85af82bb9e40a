# Formal model of the zero-trust file and identity system

TLA+ specifications of the backend, its stores and its smart contracts, TLC
runs on small instances, and theorems checked by TLAPS. Paths are relative to
`src/`.

## 1. Inventory

| Component | State it keeps | Operations | Hard part |
|---|---|---|---|
| Permission service (`backend/app/services/permission_manager.py`) | rows of `permissions`; one Redis key per (file, user) holding a level or -1 for 300 s | grant, check, revoke | cache filled and invalidated outside the transaction; steps that fail between commit and DEL; several processes |
| Audit chain (`services/blockchain_simulator.py`, `models/audit_log.py`) | rows of `audit_logs`, each naming the hash of another | `create_block`, `verify_chain` | last block read without a lock; two readings of the clock |
| File store (`services/crypto_proxy.py`, `api/files.py`, `core/minio_client.py`, `core/vault_client.py`) | an object in MinIO, a key in Vault, a row in PostgreSQL | upload, download, list, delete | three stores and no common transaction |
| Permissions contract (`contracts/contracts/Permissions.sol`) | owners and permissions by file | register, grant, modify, revoke, transfer; two views of a permission | expiry at a block's time; re-activation; owner's own entry |
| Identity registry (`contracts/contracts/IdentityRegistry.sol`, `api/blockchain.py`) | identities by address | register, verify, revoke | transaction, receipt, timeout, retry |
| Client singletons (`core/minio_client.py`, `core/vault_client.py`) | one instance per process, the bucket | first use, initialisation | the instance is published before it is initialised, without a lock |
| API routes (`api/permissions.py`, `api/files.py`, `core/security.py`) | none of their own | ownership and level checks before the services, listings | check, then use; the right of a download is asked twice; tables read beside the cache |
| Login flow (`contracts/integration.py`) | none | Keycloak token, then `verifier` on chain | a token outlives a revocation |
| Key manager (`services/key_manager.py`) | attributes of a Keycloak user | store, read, revoke a key | the PUT replaces all attributes |
| Front end (`frontend/src`) | the token and the keys of uploaded files in `localStorage` | login, upload, share, list | the key of a file lives in one browser only |
| Command line of the permissions contract (`contracts/integration-backend.py`) | none | grant, revoke, check | the status of a receipt is not read |
| Realm setup (`keycloak/scripts`, `setup_keycloak.py`) | realm, clients, users in Keycloak | create everything | stopped half-way and run again |

How they interact. A route of the API asks the permission service, then calls
the file store; both write blocks to the audit chain in the *same* SQLAlchemy
session, so every `create_block` commits whatever that session holds, and a
failed one may leave it unusable. Handlers are `async def` functions whose only
suspension is the read of an uploaded body, before any effect: one process runs
one handler at a time, and concurrency is between processes, with the clock and
with Redis. The dependencies `get_minio_client` and `get_vault_client` are plain
functions, though, which the framework calls in threads of a pool: the making of
a client is the one place where threads of one process meet. The contracts stand
apart: no route writes `Permissions.sol`, and `IdentityRegistry` is reached through
`/blockchain`.

What makes each correct, in a sentence: an answer of `check_permission` is never
older than the cache allows; a block follows a committed block and the verifier
accepts it; an acknowledged file keeps its three parts and a deleted one loses
them; content is read and removed only for those who have the right, and no right
escapes the owner; on chain, access comes from the owner only and both views of it agree.
Every hazard behind these sentences is in `PROJECT.json`, at its line.

## 2. Modules

| Module | Models | Checked by |
|---|---|---|
| `PermissionLevels` | the levels, the rank of `LEVEL_HIERARCHY` and the alphabetical order `func.max` uses | through `PermissionManager` |
| `AccessControl` | what the permission service promises: rows, and answers that lag them by a bounded time; no cache, no worker, no failure | through `PermissionManager`, which implements it, and `FileApi`, which uses it |
| `PermissionManager` | the permission service | `MCPermissionManager_{staleness,coherence,highest}.cfg` |
| `PermissionManagerProofs` | theorems about it; it implements `AccessControl` | TLAPS |
| `AuditLedger` | what the audit trail is for its readers: an append-only tree of blocks; no writer, no transaction, no failure | through `AuditChain`, which implements it |
| `AuditChain` | the audit chain | `MCAuditChain_{forks,verify}.cfg` |
| `AuditChainProofs` | theorems about it; it implements `AuditLedger` | TLAPS |
| `FileLifecycle` | what the routes promise of a file: new, served, broken, gone; no stores, no workers, no failures | through `FileStore`, which implements it |
| `FileStore` | upload, download, delete, and the sharing that interferes with them | through `FileApi` |
| `FileApi` | the routes: who may do what, over `FileStore` and `AccessControl` | `MCFileApi_{all,owner}.cfg` |
| `FileStoreProofs`, `FileApiProofs` | theorems about them; `FileStore` implements `FileLifecycle`, `FileApi` implements `FileStore` | TLAPS |
| `ClientSingleton` | how the clients of MinIO and Vault are made | `MCClientSingleton_race.cfg` |
| `ClientSingletonProofs` | theorems about it | TLAPS |
| `PermissionsContract` | the contract | `MCPermissionsContract_all.cfg` |
| `PermissionsContractProofs` | theorems about it | TLAPS |
| `IdentityLife` | what the registry is for those who ask it: registered once, revoked once; no transactions, receipts or callers | through `IdentityService`, which implements it |
| `IdentityRegistry` | the contract: its state, transactions and view | through `IdentityService` |
| `IdentityService` | the contract in use: node, API route, scripts, login flow, `KeyManager` | `MCIdentityService_{all,tokens}.cfg` |
| `IdentityServiceProofs` | theorems about both; `IdentityService` implements `IdentityLife` | TLAPS |
| `RealmSetup` | the five programs that configure Keycloak | `MCRealmSetup_all.cfg` |
| `RealmSetupProofs` | theorems about it | TLAPS |

Operators named `Bad...` are mistakes the code does not make. Each stands before
the definition it spoils, and substituting it breaks the property `PROJECT.json`
("mutants") pairs it with.

### PermissionManager

A handler is cut at each effect another process can see: every commit, Redis
command and block is a step.

| Code | Actions |
|---|---|
| `grant_permission` | `GrantCommit` (row, `:30-60`), `GrantAudit` (block, or the `except`), `StoreHash` (`blockchain_hash`, second commit), `Invalidate` (DEL) |
| `revoke_permission` | `RevokeCommit`, `RevokeAudit`, `Invalidate` |
| `delete_file`, the commit that deletes the row | `DeleteFile`: the permissions of the file go with it (`init-db.sql:54`), their cache keys do not |
| `check_permission` | `CheckHit`, or `CheckMiss`, `CheckQuery`, `CheckFill`; then `Return` |
| anything raised, a kill | `Abort`, from any point |
| Redis, the clock | `Evict`, `Tick` (which also ends the entries whose TTL is over) |

`RevokeAudit` has three outcomes. The block is written; or its creation fails
before the flush and the handler goes on; or its INSERT fails, which leaves the
session in need of a rollback, so that `perm.file_id` on the next line raises and
the DEL is never reached. `grant_permission` builds its key from its arguments
and has no such path.

`query` and `fill` are separate because `now = utcnow()` and the SETEX are: a
worker may stay `MaxLag` ticks between them. `interrupted` is history: the keys
whose last writer stopped before its DEL and that no DEL or SETEX has touched
since.

A row that goes with its file is kept in `perms` as revoked at that instant, and
`deleted` says that no route will find it again: a session that deletes a row and
one that revokes it look the same to every query.

`PermissionManager` instantiates `AccessControl` with the refinement mapping

| `AccessControl` | is |
|---|---|
| `rows` | `perms` |
| `answers` | `Answered`: the verdict a worker is about to return |
| `Lag` | `TTL + MaxLag` |
| `Clients` | `Workers` |

and `AnswersFromTheTable == Access!Spec`. `AccessControl` counts time in the same
ticks, and several things happen within one: `Sure` are the rows in force all
through a tick, `Possible` those in force at some point of it, and an answer may
know any set between the two.

Left out: users and files that do not exist and invalid levels, both refused
before any effect. Two simplifications. `GrantCommit` adds a second row of a level a
user holds: the ORM has no constraint against it, while `UNIQUE(file_id,
grantee_id, level)` of `init-db.sql:61` would refuse it, so on such a table the model
only has more behaviours. And the reading of the clock in `CheckQuery` (`:104`) falls
into the same tick as the query (`:106`).

### AuditChain

`utcnow()` gives a new instant at each call, and the hashed data contain one, so
a hash is represented by the instant hashed (SHA-256 without collisions). The
row's `timestamp` is a second instant, drawn by the column default at the flush.
`Fail` ends a creation anywhere: every caller swallows the exception. That no two
workers read the same microsecond is an assumption of the model's clock; what a tie
between two blocks would do to `ORDER BY timestamp` is not modelled.

`ChainIsLedger` instantiates `AuditLedger` with `blocks <- chain` and
`Width <- Cardinality(Workers)`: of the writers nothing is left but the block that a
commit adds.

### FileStore

One step per remote effect. `site` is the installation, fixed by `Init` and never
changed. With `site.failures`, a call that raises may have had its effect or
not, and a process may be killed before any step. `site.cascade` says whether the
deletion of a row deletes the permissions that refer to it: `init-db.sql:54` says
so, `models/permission.py:16` does not, and which of the two made the table
depends on how the database was created. `Share` is what `grant_permission` adds
for this module, `Refuse` the second check of a download that fails. `drawn`,
`acked` and `attempted` are history.

| Code | Actions |
|---|---|
| `upload_encrypted_file` | `BeginUpload`, `PutObject`, `StoreKey`, `Cleanup` (the object taken back), `InsertRow`, `AuditUpload`, `Reply` |
| `delete_file` | `BeginDelete`, `DeleteObject`, `DeleteKey`, `DeleteRow`, `AuditDelete` |
| `download_file`, `download_encrypted_file` | `BeginDownload`, `Refuse` or `Fetch`, `AuditDownload` |

A block about a row that is gone is refused by the foreign key of `init-db.sql:70`
(`audit_logs.file_id`), and the refusal is logged: `AuditDelete` and
`AuditDownload` may therefore skip it on a site without failures too. When the block
of a download is refused, or the file deleted meanwhile, reading the file's name for
the header (`files.py:110`) may fail: the caller gets a 500 for a download that was
served and recorded. No store tells the two answers apart, so `AuditDownload` ends
both.

Where deletions do not cascade, the DELETE of a shared file is refused after its
object and key are gone (`DeleteRow`, first branch): the row stays listed without
content. `ListedHasObject` claims nothing there.

`StoreIsLifecycle` instantiates `FileLifecycle`: `Phase(f)` reads the three stores
together (`served`: row, object and key; `broken`: a row without its object; `gone`:
neither, after a deletion was begun), `asked` is `attempted`, `promised` is `acked`
and `trail` the blocks. A row with its object and without its key would be
`"unreadable"`, which `FileLifecycle` does not have: no step may lead there.

### FileApi

Every route of `files.py` and `permissions.py`, with the user it serves. A step is
a step of `FileStore`, a change of the permission rows of `AccessControl`, or
both; the steps that ask for no right are `FileStore`'s as they are (`Continue`).
`ask` says whom a worker serves, how often the right was checked and when last; it is
kept until the answer is used.

| Route | Actions |
|---|---|
| `upload_file` | `Upload`: no right is asked, the caller becomes `Owner` |
| `download_file`, then the proxy | `Download` (row, then the level read), `CheckAgain` (the level and the row again), `FetchChecked` |
| `delete_file` | `Delete` (the level delete, or the owner), `DeleteShared` (the row, and with it its permissions) |
| `list_files` | `Listed` |
| `grant_permission`, `revoke_permission` | `Grant`, `Revoke`, both for the owner only |
| `get_file_permissions` | `FilePermissions`: of one's own files, nothing of others' (403) |

Every check is `MayAnswer`: what `AccessControl` lets the permission service answer,
and nothing more precise, so that the module rests on the promise that
`ServiceIsAccessControl` proves of the cache. `Owner` is a constant function of the
identifiers, because the owner of a row is written once and no route changes it.
`get_current_user` always returns one user; the routes are written for any, and
`Callers` may be any set of users. `Grant` and `Revoke` are one step here: the rest of
their handlers (block, hash, DEL) is in `PermissionManager`. The lookup of the
row and the check of the level are one step too, in `Download` and in `CheckAgain`: a
file deleted between the two is found missing by the next lookup, or by `Fetch`, which
finds no object.

A worker may rest between any two steps, except that at most `Stay` ticks lie between
the last answer it got and the use it makes of it (`Tick`). Nothing in the code
enforces that: a process that sleeps longer at this point acts on an older right, and
`Stay` says how much older. Between the two checks of a download it may rest as long
as it likes.

### ClientSingleton

`__new__`, cut wherever `cls._instance` or `self` is read or written, and one
`_init_client` call by call.

| Code | Actions |
|---|---|
| `if cls._instance is None` | `Enter` |
| `cls._instance = super().__new__(cls)`, `cls._instance._init_client()` | `Publish`, `CallInit`: of the instance that is `cls._instance` then |
| `self.client = Minio(...)`; `base_url`, `token`, `transit_key` | `SetAttributes` |
| `bucket_exists`, or the health request | `Check` |
| `make_bucket` | `MakeBucket` |
| `except: logger.error; raise` | `Raise`: the instance stays published |
| `return cls._instance`, the route's call | `Return`, `Use` |
| the service, the process | `Flip`, `Restart` |

`VaultClient` behaves as `MinIOClient` with a bucket that is there from the start.
A constructor that refuses its configuration is not modelled: the configuration
is a constant of the process.

### PermissionsContract

One action per transaction that succeeds; a failed `require` changes nothing, so
it has no step. `fileExists` needs no variable: files are numbered in order and
never removed. `seen` is what a reader of the events knows, so that the claim
"the events are the audit trail" becomes the invariant `seen = permissions`.

`revokePermission` refuses to touch the owner's own ADMIN, and that is the only
guard of it: `grantPermission` and `modifyPermission` let the owner replace its
own entry by a lower level or an expired one. `OwnerLosesOnlyByItself` says what
is left: nobody else can.

### IdentityRegistry and IdentityService

`IdentityRegistry` has one operator per transaction, whose guard is the
conjunction of its `require`s; `IdentityService` says who sends them, when they
are mined and who reads the result.

| Code | Actions |
|---|---|
| `contract.functions....transact` | `Send`: the gas is estimated by executing the call, so what would revert *now* is never sent |
| `revoke_identity`, `register_address.py`, `register*.js` | `revoke_identity`, `Register`; `Answer` when the receipt is there, `Timeout` when the wait gives up and the transaction stays |
| the Hardhat node | `MineRegistration`, `MineRevocation`, `MineRevert`; `MineNothing`, because a call to an address without code succeeds; `Restart`, because `docker-compose.yml` keeps its chain in memory |
| `deploy.js` | `Deploy`, enabled while the life has no transaction: the address everything else has as a constant is that of the first one |
| `integration.py` | `RequestToken`, then `SkipChain`, `VerifyOnChain` or `Refuse` |
| `KeyManager.stocker_cle`, `revoquer_cle` | `PutAttributes`: the PUT replaces all attributes, `ethereum_did` with them. Nothing in the repository calls them; the model lets them happen at any time |

Two callers may both pass the estimate for the same address; the second
transaction then reverts when it is mined. All transactions come from
`accounts[0]`, so the node includes them in the order of their nonces and `txs`
serves as pool and as receipts. `acked` (addresses answered "Révoquée") and
`checked` (the chain confirmed this session) are history. A caller whose node
restarted still waits for a nonce of an earlier life, and can only time out.

`ServiceIsLife` instantiates `IdentityLife`: `Dates(u)` is the entry of `u` on the
chain of this life (empty, a date of registration, and one of revocation), `count`
the contract's counter, `told` is `acked`. The transactions, their receipts, the
waits and the deployments are stutters.

A session is the *access* token `authentifier_utilisateur` returns. The refresh token
it returns beside it (`integration.py:64,77,86`) is not followed: whoever holds one
renews the session at Keycloak, which asks no chain, so that what
`SessionsRestOnChain` says of the end of a session ends with the first access token.

Left out besides: the encrypted key itself in `KeyManager`, its read, and the hash of
the encrypted data in the contract, which nothing reads.

### RealmSetup

A program is a sequence of calls (`Calls`), an operator the program's run. A creation
that finds the thing already there is answered 409 and changes nothing. `Refused` is
any other status, which the programs only print; `Stop` is an exception, `set -e` or
an operator. `answersId` says whether Keycloak's answer to the creation of a scope
carries the id `configure-realm.sh` reads from it: the code depends on it, and both
cases are initial states. A password is the count of what the realm's policy measures.
A run is `clean` when all its calls went through; a password that the policy of the
program's own realm refuses (400, which the programs print at most) leaves it clean,
so that `CleanRunConfigures` promises a user for `configure_keycloak.py` only.

## 3. Runs

Bounds are model values and small numbers in the `.cfg` files; every bound is a
constant of the module.

| Run | Instance | What it shows |
|---|---|---|
| `staleness` | 2 workers, 1 file, 1 user, 1 row, read and write, durations -2 and 1, TTL 2, lag 1, clock to 4 | `AllowedJustified`, with the bound `TTL + MaxLag` exactly (one less is violated); `DeniedJustified`: nor is a right refused for longer than that, unless `func.max` hides it; `AnswersFromTheTable`: the service, cache and failures and all, implements `AccessControl`; `AuditFaithful`; a negative duration is unlimited |
| `coherence` | 1 worker, 1 file, 2 users, 2 rows, read and admin, durations 0 and 1, TTL 2, lag 1, clock to 2 | `CacheCoherent` and `RevocationImmediate`, with overlapping rows of one key and with rows of two keys |
| `chain` | 3 workers, clock to 9 (4 blocks) | `ChainIsLedger`: the table implements `AuditLedger`; `ForkBounded`: forks are at most as wide as the workers are many |
| `files` | 2 workers, 1 file, its owner and a second user, 1 row, read and delete, durations 0 and 1, lag 2, stay 0, clock to 3; three installations: calls fail or not with cascading deletes, and calls fail without (where none fails, a site without cascade does nothing else) | nothing acknowledged is lost (`UploadDurable`); what can be downloaded has its key; the three stores together implement `FileLifecycle` (`StoreIsLifecycle`); where calls succeed and deletes cascade, no row without its object; content is read and removed only for who holds the right at that moment, or lost it less than lag + stay ago, however long the request rested between its checks (`ActsByRight`); every right in force is on a file that exists and in its owner's sight (`RightsStayVisible`); listing and download disagree for no longer than the lag, in both directions (`ListingAgrees`) |
| `clients` | 3 threads, a service that comes and goes, restarts | an instance without attributes is handed out only while they are being set (`BareOnlyInRace`), and that ends (`BareEnds`); unless an initialisation failed the bucket is there (`BucketBehindInstance`) |
| `contract` | 3 accounts, 1 file, expirations one second ago, now and in one second, clock to 3 | views agree, events tell all, access is gained from owners only, the owner's own entry is touched by the owner only |
| `identity` | 1 account, 2 callers, 1 user, 1 login, lifespan 1, 3 transactions a life, 2 lives, clock to 3 | the registry's entries and counter agree (`RegistryConsistent`); the contract with all that calls it implements `IdentityLife` (`ServiceIsLife`): among other things a revocation answered is in force; it is final (`RevokedForEver`); a sent one lands, even after a timeout (`RevocationLands`); a confirmed access token outlives it by one lifespan at most (`SessionsRestOnChain`) |
| `realm` | 2 operators, any programs, 2 failures, with and without ids in answers | a run whose calls all succeed leaves the realm complete, over any remains and beside any other run, and one of `configure-realm.sh` that gets no id all but the mapper and its attachment (`CleanRunConfigures`); no program undoes what works (`NothingTakenBack`) |

Why these are enough. Staleness needs one writer and one reader of a key, a fill that
overtakes a DEL and a hit at the last instant of the entry: two workers and a clock of
TTL + lag + 1, the worst case being a row read in the first tick. A second row of the
same key matters to the maximum only, and a second key can only interfere through a
wrong cache key; both are in `coherence`, whose two users share two rows. With one row
no level is ever hidden behind another: what `DeniedJustified` excepts is the business
of its theorem, and of `highest_level`. In the chain, a fork needs one worker per
branch, and four blocks let every branch of three be continued. The properties of the
file store speak of one file and two handlers; that identifiers are never mixed, for
any number of files, is left to the theorems, which need no bound. In `files` the
second user and one row are what a right needs to be granted, used, withdrawn and used
once more, and a clock of lag + stay + 1 lets a use be too late by one tick. `Stay` is
0 there: whatever the other worker and the owner do in that tick comes between an
answer and its use, and any number of ticks between the two checks, while rests across
ticks after the last answer are left to `AlwaysByRight`, which holds for every `Stay`.
Three threads let one instance be replaced twice while it is initialised. The
contract's entries of different files never meet: every function indexes by the file
first. In the registry every function indexes by the address, and every script
registers the deployer's, so one account is enough; three transactions are a
registration and two revocations that race, or a revocation between two registrations.
Realm setup needs two operators for every interleaving of two programs, and a third
run of one after a failure is among its behaviours. Symmetry is over rows, workers,
accounts and operators, and over the users of the permission service, which no
definition tells apart. `AnswersFromTheTable`, `ChainIsLedger`, `StoreIsLifecycle` and
`ActsByRight` are safety properties as symmetric as the models, so symmetry is sound
there; `identity` and `clients` have a liveness property and use none. What a
refinement implies is not run beside it: `LinksBackwards` (`LedgerSuffices`),
`DeletedIsGone` (`LifecycleSuffices`) and `AckMeansRevoked` (`LifeSuffices`) are
proved, both from the abstract modules and directly. The systems may stop when their
bounds are reached, so deadlock is not checked, except in `realm`, where another run
can always start, and in `clients`, which has no bound to reach.

Runs that end in a counterexample, each about a sentence of the repository:

| Run | Property | The sentence |
|---|---|---|
| `highest_level` | `FilledWithHighest` | `permission_manager.py:105`: the highest level is fetched. It is the last in alphabetical order: read, then admin, gives read. |
| `chain_verify` | `ChainVerifies` | `blockchain_simulator.py:86-89`: a stored block matches its hash. The instant hashed is not the instant stored. |
| `owner_download` | `OwnerMayDownload` | `tests/test_auth_flow.py:54-66`: the user who uploads a file downloads it (200). `files.py:91` asks for a row that gives read; upload makes none, and there is no way around it for the owner, as the deletion has. |
| `tokens` | `TokensNeedBoth` | `integration.py:49`: tokens are returned if both validations succeed. A token without a `did` skips the second (the comment at `:74` calls this a shortcut for tests). `KeyManager`, if anything called it, would remove the `did`. |

Fairness is assumed in two modules. `WF_vars(Mine)` in `IdentityService`, because
`hardhat.config.js` sets `mining.auto`, so that a node that runs includes what is
pending. Callers, deployments and logins are owed nothing: a person may never
start a script. `RevocationLands` needs no more, since a restart of the node
empties the registry and thereby makes the address inactive too. And
`WF_vars(Step(t))` for each thread of `ClientSingleton`: the operating system
schedules the threads of the pool, and every call of `_init_client` either
answers or raises. A thread need not enter, and the service need not come back.
The other modules have no liveness property: no handler waits for another.

## 4. Theorems

All are checked by TLAPS for every value of the constants, from the assumptions the
modules name (`WorkersAssumption`: finitely many workers; `LevelsAssumption`: requests
name levels of the hierarchy; `TimeAssumption`: a positive TTL, natural lag;
`SitesAssumption`: what an installation is; `OwnerAssumption` and `BoundsAssumption`
of `FileApi`: every file has an owner among the users, a positive lag, a natural stay;
`AccountsAssumption`, `BoundsAssumption` for the contract; finitely many workers and a
natural bound on the clock for the chain; finitely many accounts, claims distinct from
them and a positive number of lives for the registry; `ThreadsAssumption`: finitely
many threads; `RealmAssumption`, `NoUserAssumption`: a natural bound on failures, and
a value for the missing user that is not a password).

**`BoundedStaleness`: `Spec => []AllowedJustified`.** `AllowedJustified` is not
inductive: it says nothing of the cache that the next answer comes from.
`HeldInvariant` adds it. A level in the cache, or about to be stored, was really
held by some row at the instant it was read (`Held`), and the entry ends before
`TTL + MaxLag` after that instant. Three facts carry the induction. Rows are
never changed otherwise, and a revocation carries the current instant
(`RowsStable`), so what was held at a past instant stays held at that instant
(`HeldStable`). The query's answer is held now: `func.max` may choose the wrong
row, never a level nobody granted (`EffectiveIntIsHeld`, `QueryIsHeld`). What was
held `s` ago grants with staleness `s` (`HeldGrants`). `CacheEffect` and
`JobEffect` say which steps touch an entry or an answer, so that the induction
has three cases and not one per action.

**`NoRightRefusedForLong`: `Spec => []DeniedJustified`**, the other side of the
cache, for any number of workers: a False answer was true less than `TTL + MaxLag`
ago, although any grant may lose its DEL and a -1 or a lower level may be stored
after it. What the entry was read from is compared with the rows as they are now:
a row in force all that time was in force when the query ran, so the query's answer
is at least the one `func.max` prefers (`SqlMaxIsLast`), and when this is still too
low some other row hides it (`Masked`). Without that exception the property is false,
and the exception is exact: `RightExactlyWhenPlain` shows that `func.max` gives the
highest rank for the empty set, single levels and `{read, write}`, and for no other
set of levels, and `LoneWorkerFillsHighest` that with one worker the level cached is
the highest in force for the keys with such levels, and for no other.

**`CacheStaysCoherent` and `RevocationBindsAtOnce`**, for a single worker. The
strengthening `CoherentInvariant` adds that the level about to be stored is still the
query's: with one worker nothing comes between the query and the SETEX (`ActiveStep`:
a step that changes the active rows of a key starts a writer of it or deletes its
file; `QuietStep`: an entry undisturbed after a step was undisturbed before). With two
workers both fail, and only `BoundedStaleness` remains.

**`TrailFaithful`: `Spec => []AuditFaithful`**, for any number of workers:
`AuditInvariant` adds that a writer's row is committed before the step that
speaks of it.

**`ServiceIsAccessControl`: `Spec => AnswersFromTheTable`**, the refinement. A step
of `PermissionManager` maps to a grant, a withdrawal, an answer or a step of
`AccessControl`'s clock, or to a stutter. Only the answers are not plain: the level
answered comes from the cache or from a query, possibly ticks ago. `HadInvariant`
says that a cached level, and one about to be cached, is a level its key had at
some point of the tick it was read in (`HadLevel`); `HeldInvariant` bounds that
tick's age. It is stable because what happens later can only add rows that are
not yet `Possible` in that tick, or withdraw rows that stay `Possible` in it
(`HadLevelStable`), and a query reads a level of this kind because the rows active
now lie between `Sure` and `Possible`.

**File store.** `StoreInv` is inductive, with a lemma for each action. Before its
row is inserted a file is known to nobody but its upload (`UploadIsAlone`), which
has written as much as its step says (`UploadKeepsPace`); a deletion has removed
as much as its step says, and has been counted in `attempted` (`DeleteKeepsPace`,
`DeletedWasAttempted`). `UploadsEndure`, `KeysOutliveObjects` and `DeletedStaysGone`
follow for any number of workers and files, in every installation. The part
`DeleteIsAtWork` (an object that is missing although its file is listed is missing
because of a deletion that runs) gives `ListedKeepsObject`.

**`StoreImplementsLifecycle`: `Spec => StoreIsLifecycle`.** A step on one file leaves
the phases of the others alone (`StaysWithFile`). The insertion of the row maps to
`Publish`, the removal of the object to `Erase`, of the row to `Unlist`, an answer
to `Promise`, a block to `Record`; every other step stutters. `LifeInv` adds to
`StoreInv` what the guards of `FileLifecycle` ask for: a delete or a download is of a
file that was listed when it began, so that no block speaks of a new one, and a file
that is attempted and not listed has no content. `LifecycleSuffices` derives
`UploadDurable`, `DownloadableHasKey` and `DeletedIsGone` from `FileLifecycle` and the
types, so nothing the routes' users rely on was lost in the abstraction.

**Routes.** `ApiImplementsStore: ApiSpec => Spec`: whatever the routes check or change
beside, what they do to a file is a step of `FileStore` or none. The theorems of the
store therefore hold behind the routes (`StoreHoldsBehindRoutes`), and `StoreInv` is
at hand for what the routes add. `AlwaysByRight` rests on `AnswerIsRight` (an answer
that allows something names a row that gives it, or gave it less than `Lag` ago), on
`HeldStays` (a row only ever gains a revocation of the current instant, so what was
held at the answer stays held with an allowance that grows with the clock), on
`AllowedStays`, the invariant that a worker about to use an answer holds what it was
told, with `Lag` and the time since the answer, at most `Stay`, as allowance
(`AllowedHeld`), and on `OnlyCheckedFetch`: nothing but `FetchChecked` reads content.
`RightsNeverHide` needs `RowsWell`, and the cascade: the file of a row that is not
revoked is `shared` and still there. `ListingAlwaysAgrees` has four parts: two compare
the rows listed now with those between `Sure` and `Possible` now; `LongSharedReads`
says that a row in force for `Lag` is refused by neither check; and what may be read
was held less than `Lag` ago by `AnswerIsRight`. `RoutesKeepLifecycle` takes the
lifecycle through `ApiImplementsStore` to the routes.

Whom a download is refused: `DownloadRule` gives the exact
condition under which the permission service may answer a check of the level read:
every level reads (`AnyLevelReads`), so True needs some right of the user at a tick
not older than `Lag`, and False some tick without a sure one.  `OwnerNeedsARow`:
an owner without a row of its own file is refused by every answer.

**Permissions contract.** `ViewsAlwaysAgree` and the type theorem need
`StoredWell` (nothing stored for unregistered files, active entries have a
level); `EventsAlwaysTellAll` holds because a revocation, which emits neither
level nor expiration, changes neither; `GainedFromOwner` and `OwnerOwnsItsEntry`
are action properties, proved from `StoredWell` and the type of the state by cases
on the transaction. `LostToOwnerOrClock` is the converse of `GainedFromOwner`:
access is lost to a transaction of the owner or at the second of its expiration,
and to nothing else. Both rest on `EntryStep`, which tells what a transaction may do
to an entry; the converse is proved and not run.

**Audit chain.** `Numbered` says that committed blocks and pending creations hold
distinct hashes and distinct instants, all in the past, so that a newest block
always exists. `LinksLeadBack` adds to it what each writer has read: a committed
block older than its own hash (`LinkInvariant`). `ForksAreNarrow` counts, for each
hash, the blocks that continue it plus the writers about to: no more than there
are workers, since once a continuation is committed nobody reads that hash as the
last one (`ForkInvariant`). `LoneWriterNeverBreaks` is the case of one worker.
`ChainImplementsLedger: Spec => ChainIsLedger` puts the three together: a commit maps
to `Append`, every other step to a stutter. `Numbered` gives new hashes and new
timestamps (`DatesDiffer`), `LinkInvariant` the block continued, `ForkInvariant` the
room for one more successor. `LedgerSuffices` derives `LinksBackwards` and
`ForkBounded` from `AuditLedger` alone, the latter by induction over its steps.
`NoBlockVerifies`: the instant hashed is older than the instant stored in every
block, so that `verify_chain` accepts the empty table and no other.

**Identity registry.** `RegistryEffect` says that a step leaves the registry
alone, registers one account, revokes one, or starts an empty chain; each theorem
is then an induction with these four cases. `RegistryAlwaysConsistent` treats
entries and counter apart. `RevocationIsFinal` follows from the effects alone.
`AckAlwaysMeansRevoked` needs what lies between a mined transaction and its
answer: `AckInvariant` says that a revocation with a successful receipt has
`Landed`, that without a contract the registry is empty, and that answers mean
transactions, so that the contract cannot be deployed after one.
`SessionsAlwaysRestOnChain` adds that access tokens are never older than a lifespan
(`SessionGood`). `ServiceImplementsLife: Spec => ServiceIsLife` maps a mined
registration to `Register`, a mined revocation to `Revoke`, an answer to `Tell`, a
restart of the node to `Begin`, a tick of the clock to `Tick`, all else to a
stutter; that nobody registers an address somebody was told is revoked comes from
`AckInvariant`, which holds by `AckInvariantHolds`. `LifeSuffices` derives
`AckMeansRevoked` from `IdentityLife` and the types.

**Client singletons.** `SingletonInv` has a part for each theorem. `OncePerThread`: as
long as there is no instance none has been made, so the instances made and the
threads about to publish one are together no more than the threads; hence the type
of `made`. `Published`: `_init_client` is called on an instance. `BareOnlyInRace` is
inductive as it stands: the thread to which a bare instance is due stays until it
sets the attributes. `BucketComes`: without a failure the bucket is there or a thread
past the publication is at work; `BucketStandsBehind` follows when there is none.
`LoneThreadFindsAttributes`: with a single thread no request meets an instance
without attributes, so that the race is the only way there. `LoneThread` says that
from the publication on there is an instance, and that the one in use is it.

**Realm setup.** `Reached(r)` says what the calls of run `r` before `r.pc` have left
behind, and `RealmInv` says that every clean run of a program that configures
everything has reached as much. It is inductive because no call takes anything back
(`GrowsNext`; the settings of a client come with the client, `OfClient`), so that the
others' steps do no harm (`StillFollows`), and because each call that goes through
adds its part to what the calls before it left (`CallAdds`, `PlaceOf`).
`CleanRunsConfigure` reads it at the end of the program, for `configure-realm.sh` with
and without the id, `NothingIsTakenBack` follows from `GrowsNext`, and so does
`ConfiguredForGood`: a complete realm stays complete.

Out of the prover's reach, and left to TLC: `RevocationLands` and `BareEnds`, which
are liveness under fairness. Every other property of a passing run is the subject
of a theorem. No module uses recursion, so nothing is lost to induction over data.

## 5. Plan

Done:

1. `PermissionManager`, its runs and theorems: the decision everything else rests on.
2. `AuditChain` and its theorems.
3. `FileStore`.
4. `PermissionsContract` and its theorems.
5. `IdentityRegistry` and `IdentityService`: the contract, `/blockchain/revoke`
   with receipt and timeout, the login flow, `KeyManager`'s PUT; their theorems.
6. `RealmSetup`.

7. `AccessControl`, the promise of the permission service, and the theorem that
   `PermissionManager` implements it; `DeleteFile` in `PermissionManager`.
8. `FileApi`, the routes over the store and that promise; proofs of `FileStore` and
   of `FileApi`, which implements it.
9. `ClientSingleton`; its proofs and those of `RealmSetup`.
10. `AuditLedger`, `FileLifecycle` and `IdentityLife`, the promises of the chain, the
   store and the registry, with the theorems that the detailed modules implement
   them and that they suffice; `DeniedJustified`, and how far each finding reaches
   (`LoneWorkerFillsHighest`, `NoBlockVerifies`, `OwnerNeedsARow`).

Next, in this order:

11. `FileApi` over several rows of a key in a run, when a larger time bound allows;
    today only the theorems cover them, and a
    positive `Stay`.
12. The steps of `grant_permission` and `revoke_permission` after their commits in
    `FileApi` too, so that the audit trail of both modules becomes one.
13. Ties of two workers in one microsecond in `AuditChain`, and the renewal of a session
    by its refresh token in `IdentityService`.

## 6. Not modelled, and why

- *Front end.* `ProtectedRoute.jsx:5` reads a `token` that `AuthContext` does not
  provide, so the pages behind it (upload, list, share) always redirect and their
  code is never reached; the requests they would send are those of `FileApi`. What
  remains is a login form and one token in `localStorage`.
- *Command line of the permissions contract.* `integration-backend.py` keeps no
  state; its transactions are those of `PermissionsContract`. It announces success
  without reading the status of the receipt, calls `hasPermission`, which the
  contract does not have, and talks to a contract `deploy.js` does not deploy.
- *Authentication of the API.* `get_current_user` returns a constant user. `auth.py`
  and `main.py` keep no state.
- *Encryption.* The AES-GCM and SHA-256 wrappers are single calls of a library;
  `get_file_key` of the Vault client has no caller.
- *Schema.* `init-db.sql` and the ORM describe different tables (`users` lacks
  `keycloak_id` there, the CHECK on `permissions.level` excludes `delete`,
  `audit_logs` has `metadata` for `data`), and no code creates the ORM's. The models
  take the columns from the ORM, and from `init-db.sql` what its foreign keys do:
  cascading permissions (`FileStore`, `DeleteFile`), refused blocks (`FileStore`).
  That deleting a file sets `audit_logs.file_id` of old blocks to NULL
  (`init-db.sql:70`), and the audit trigger, are left out.
- *Samples and tooling.* `Lock.sol` is the sample Hardhat generates; the scripts that
  print slides and status reports keep no state of the system.

Facts met while modelling that no run claims anything about. No sentence of the
repository contradicts these: under the ORM's foreign key the deletion of a shared
file is refused after its content is gone (`FileStore`); the owner of a file on chain
can grant or modify away its own ADMIN (`PermissionsContract`); a client
`zt-frontend-client` made by any program but `create-clients.sh` does not accept the
password grant that `integration.py` uses (`RealmSetup`). Two others contradict what the
programs print, and are noted without a run of their own: `testpass123` is refused by
the password policy that the same program installs, while `configure-realm.sh:220`
prints that `testuser` was created with it and the summaries of `setup_keycloak.py` and
`configure-realm.sh` list it; and that summary (`configure-realm.sh:230`) lists the
mapper also when, for want of the scope's id, none was made. In the model the first is
`CreateUser`, the second the case of `CleanRunConfigures` without `scopeId`.
