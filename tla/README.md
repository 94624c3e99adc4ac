# Loremaster in TLA+

A TLA+ model of Loremaster, a daily deduction game: one published case per UTC day, played once per
anonymous guest against an HTTP API backed by PostgreSQL, with a browser client that retries, and
with Redis for suggestions, rate limits and a small job queue.  The modules are checked by TLC on
small instances and, where a theorem says so, proved by TLAPS for every value of the constants.

Source paths below are relative to the repository; `PROJECT.json` maps every definition to the
lines it stands for.

## 1. Inventory

| Component | Where | State | Operations | What makes it correct |
|---|---|---|---|---|
| Attempt engine | `packages/domain/src/attempt-engine.ts` | none (pure); a snapshot is state, evidence level e, wrong guesses at the level w, all wrong guesses W | `applyGuess`, `revealEvidence`, `giveUp`, `expire`, `scoreSolvedAttempt`, `assertValidAttemptSnapshot` | counters stay consistent, the game ends, evidence costs what it should, wasting guesses never pays |
| Gameplay transactions | `packages/database/src/gameplay/{attempts,reconciliation,attempt-records,profile}.ts` | the guest's rows: attempts, guesses, receipts, finalizations, participation days, contributions, regional knowledge, leaderboard entries | `readCurrentCase`, `readOwnedAttempt`, `startCurrentAttempt`, `executeGameplayCommand`, `readProfile` | idempotent retries, one attempt per slot, one finalization, no play outside the window, nothing lost |
| Transaction runtime | `packages/database/src/gameplay/runtime.ts`, `deadline.ts`, `pool.ts` | pool clients, abort listeners | `transaction`, `acquireClient`, `runWork`, `lockGuest`, `databaseNow` | one release per client, no COMMIT after a cancellation was reported, timeouts end waits |
| Schema | `packages/database/migrations` | constraints, triggers, roles | CHECK, UNIQUE, exclusion, freeze and receipt triggers | no statement of the code runs into a constraint except where it is meant to arbitrate |
| Sessions | `packages/database/src/identity`, `apps/api/src/security` | token and CSRF hashes, absolute expiry | create, authenticate | one session per guest, expiry never extended |
| Profile aggregates | `packages/domain/src/aggregates.ts` | none | streaks over days of participation, rates over finalized games, rounding | agree with their definition over every history |
| Leaderboard | `packages/domain/src/leaderboard.ts`, `packages/database/src/gameplay/leaderboard.ts` | entries (append-only) | rank, keyset page | a page chain repeats and skips nobody who was there when it began |
| Projections | `packages/domain/src/projections.ts` | none | `projectAttempt`, ... | nothing is disclosed before its level or the end |
| Suggestions | `packages/database/src/gameplay/suggestions.ts`, `packages/cache/src/suggestions*` | Redis keys and their registry | authorize, read through, write | only the open attempt's revision is served; at most 15 keys |
| Warm queue | `packages/queue/src`, `apps/worker/src` | BullMQ lists, admission reservations, job locks | reconcile, process, drain | bounded outstanding jobs; the current revision ends up cached |
| Rate limiter | `packages/cache/src/limiter*`, `apps/api/src/security/rate-limit.ts` | per-minute counters, key capacity, local windows | consume | limits and capacity hold across processes |
| HTTP API | `apps/api/src` | requests in flight, deadlines | routes, shutdown | every request ends by its deadline, answers map codes to statuses |
| Web controller | `apps/web/src/state`, `apps/web/src/api`, `apps/web/src/session` | displayed case and attempt, pending intent in `sessionStorage`, reads in flight | initialize, start, submit, replay, reconcile, refresh | an intent is sent until it is settled, with one key; what is shown does not go back |
| Web reporting | `apps/web/src/reporting` | profile, leaderboard pages | refresh, load more | pages of one slot, no duplicates, fresh after a game has ended |
| Content import | `packages/database/src/content` | packs, revisions, entities | validate, import, publish | one published revision per window, published ones frozen |
| Configuration and contracts | `packages/config`, `packages/contracts` | none; the environment and secret files read at start | parse, validate | no two purposes share a key; production is sealed |
| Local platform | `scripts/s9-local.mjs`, `s9-common.mjs`, `s9-secrets.mjs` | containers, cluster, registry, Git repository, records in `.cache/s9` | cluster, promote, bootstrap, migration, sync, destroy | credentials fit the data they opened; Argo CD is given what it can run |
| Observer, observability, views, other scripts | `apps/queue-observer`, `packages/observability`, `apps/web/src/**/*.tsx`, `scripts` | counters | sampling, rendering | no shared state that other parts rely on |

**How they interact.**  The browser sends a mutation with an idempotency key; the API
authenticates the session, applies the rate limits and calls one gameplay transaction.  A
transaction locks the guest's row, so transactions of one guest are serial and those of different
guests share nothing but the leaderboard's order.  Time is the database's: it is read after the
lock, and it decides which slot is open and whether an attempt is over.  Nothing expires by itself:
an attempt that is past its close is finalized by whichever transaction meets it next.  Suggestions
are authorized by a transaction that commits before Redis is asked.  The queue only fills the cache
and no request waits for it.

**What is hard.**  Retries that meet their first try, before, during or after its commit; two tabs of
one guest; the close of the slot and the end of the session between any two statements; a crash or
cancellation between any two statements; several attempts expired by one profile read; in the
browser, answers that arrive out of order and a page that is reloaded in the middle.
`PROJECT.json` lists each hazard at its line with the properties that watch it.

## 2. Modules

| Module | Models | Kind |
|---|---|---|
| `AttemptEngine` | the pure rules, parameterised by the number of levels and guesses | operators |
| `AttemptLife` | one attempt under every order of moves, beside a count of what the player did | specification |
| `GuestLedger` | the rows of one guest and what each statement sequence does to them | operators |
| `Gameplay` | concurrent transactions on the ledgers, their locks, clock reads, sessions and rollbacks | specification |
| `GameBook` | what the backend promises a guest: one game per slot, one effect per key | abstract specification |
| `MCGameplay` | request sets and bounds for TLC | model |
| `PlayService` | the backend as one tab sees it: a guest, today's slot, one attempt per slot, used keys | operators |
| `WebController` | one tab's `GameController`, its reads, its stored intent, and the requests on the wire | specification |
| `TransactionRuntime` | `transaction()`: borrowing, statements, cancellation, release, beside the server and the network | specification |
| `WarmQueue` | producers, BullMQ's job per revision, workers, the cache and its registry | specification |
| `RequestPolicy` | what the middleware may refuse, which limits count whom, what the client makes of an answer | operators |
| `SharedLimiter` | the local window and the limiter's script in Redis | operators |
| `ApiServer` | processes, requests from connection to answer, deadlines, Redis connections, shutdown | specification |
| `Configuration` | which environments start a server, a worker or an observer, and with what keys | operators |
| `MCApiServer` | requests and environments for TLC | model |
| `ContentPack` | `validateContentPack` and the rows a pack becomes | operators |
| `ContentImport` | importers' commands, statement by statement, with whom they wait for | specification |
| `MCContentImport` | packs with every fault, rivals, three runs | model |
| `PublicViews` | profile statistics, streaks, ranks, one page of the leaderboard | operators |
| `Reporting` | the browser's reports over games that end, keys that rotate and reads that pass each other | specification |
| `MCReporting` | entries, histories and key rings for TLC | model |
| `LocalPlatform` | the platform tool's commands call by call, each cut off anywhere | specification |
| `MCLocalPlatform` | groups of credentials and images for TLC | model |
| `GameplayProofs` (the engine and one attempt too), `TransactionRuntimeProofs`, `WarmQueueProofs`, `WebControllerProofs`, `ApiServerProofs`, `ContentImportProofs`, `ReportingProofs`, `LocalPlatformProofs` | lemmas and theorems | proofs |

`AttemptLife` and `GuestLedger` extend `AttemptEngine`; `Gameplay` extends `GuestLedger` and
instantiates `GameBook` through a refinement mapping.  `WebController` extends `PlayService`.
`TransactionRuntime` stands alone: it is what the single steps `Begin`, `Commit` and `Abort` of
`Gameplay` are made of.  `ApiServer` extends `RequestPolicy` and `SharedLimiter`;
`ContentImport` extends `ContentPack`, `Reporting` extends `PublicViews`.  `WarmQueue` and
`LocalPlatform` stand alone.

### 2.1 State and actions of `Gameplay`

| TLA+ | Code |
|---|---|
| `ledger[g]` | the committed rows of guest g in every gameplay table |
| `expiresAt[g]` | `guest_sessions.expires_at`; migration 0003 allows one session per guest |
| `guestLock[g]` | who holds the row lock of `SELECT ... FROM guests ... FOR UPDATE` |
| `tx[c]` | the transaction of connection c: where it is, what it has read and written |
| `now` | `clock_timestamp()` |
| `Begin`, `Lock`, `CheckSession` | `transaction()`, `lockGuest`, `sessionIsLive` |
| `PeekCurrent`, `ReadAttempt` | `readCurrentCase` (look-up before the lock), `readOwnedAttempt` |
| `ReplayReceipt` | the branch of `startCurrentAttempt` and `executeGameplayCommand` that finds a receipt |
| `StartAttempt`, `ExecuteCommand` | the other branches, up to the receipt |
| `InsertReceipt` | the receipt's INSERT and its trigger's second look at the session |
| `ReadProfile`, `ExpireNext` | `readProfile`: lock the open attempts, sample, expire one after the other |
| `Commit`, `Abort` | COMMIT; ROLLBACK or the end of the connection, from any point |

A transaction works on a draft of its guest's whole ledger and publishes it at COMMIT.  With the
row lock held that is what PostgreSQL does, since every writer of these rows takes it first; should
the lock be lost, publishing the draft overwrites what others committed in between, which is how a
lost update shows (`NothingIsLost` and its mutant).  Statements between two waits or clock reads of
the code are one action.

Abstractions, and why they are sound for the properties stated:

- The request is drawn when a step first depends on it; until then a transaction knows only its guest.
- A receipt keeps its command instead of the SHA-256 fingerprint: fingerprints are taken to be injective.
- One entity is the answer, one is not, one is not in the case.  Two spellings of one entity id
  (public id and UUID) have different fingerprints in the code and so count as two commands.
- A slot has at most one published revision, as the schema's exclusion constraint has it.
- Malformed keys and versions (`INVALID_COMMAND`) are rejected before anything is touched and left out.
- `randomUUID` never returns an id in use.  The clock of the database does not go back.
- `elapsed` is a number of ticks times `TickMs`, 45 s in the runs, so that the time bonus varies.

### 2.2 State and actions of `WebController`

| TLA+ | Code |
|---|---|
| `pending` | the record in `sessionStorage`; the one variable of the page a reload keeps |
| `status`, `mutation`, `view`, `shown` | `status`, `mutationStatus`, `currentCase`, `displayedAttempt` of the controller's state |
| `ready` | `#sessionReady` |
| `boot` | the session request that `initialize` awaits |
| `current`, `owned[i]` | the reads in flight of `#currentRead` and `#ownedReads`: asked, or answered and not yet handled |
| `task` | the mutation, replay or reconciliation under way, and what it awaits |
| `net` | copies of mutation requests that have not reached the server |
| `Refresh`, `HandleCurrent`, `HandleOwned`, `ReadFails` | `refreshCurrentCase`, `#refreshOwnedAttempt`, `#handleReadFailure` |
| `Reload`, `NewSession`, `SessionAnswered`, `SessionFails` | the constructor; `initialize` before and after its await; `SessionBootstrap` |
| `StartAttempt`, `SubmitCommand`, `RunNewMutation`, `Transmit` | the methods of these names; `#executeMutation` up to its await |
| `MutationSucceeds`, `MutationUnauthenticated`, `MutationRefused`, `MutationUncertain`, `RefusalShown` | `#executeMutation` after its await and the branches of `#handleMutationFailure`, the last one after its refresh |
| `ReplayPending`, `ReconcilePending`, `StartReconciled`, `CommandReconciled` | `replayPendingOperation`, `reconcilePendingOperation`, `#reconcilePending` |
| `Deliver`, `Rollover`, `SessionEnds`, `OtherTabPlays` | the network and the world |

JavaScript runs to completion, so an action is all that one event sets off until the next await.  The
continuation of an await that is over runs before the next event is taken: `Quiet` holds back every
other event of the page until then.  A request and its answer are separate steps, so anything may
happen between the server's reading and the page's handling of a response.

- A projection is its attempt, state, version and last guess; the data for display are left out.
- The server answers atomically here; what its transactions do inside is `Gameplay`.  Midnight expires
  open attempts at once, which is how every later request finds them.
- The player uses the buttons that `gameplay.tsx` offers in a state, not the controller's methods at will.
- One disturbance of `MaxFaults` is a failed read, an answer that is lost or proves nothing, a reload,
  a move of another tab, or the end of the session.  Midnight is not counted; the slots bound it.
- The focus events, the rollover timer and the retry button are all `Refresh`, at any time.
- A command for an attempt of another guest is answered 404 `UNKNOWN_ATTEMPT`, which the client does not
  know as a mutation error: it takes the answer for malformed and keeps the intent, so that is
  `MutationUncertain`, not `MutationRefused`.

### 2.3 State and actions of `TransactionRuntime`

The one variable maps each call of `transaction()` to a record.

| TLA+ | Code |
|---|---|
| `pc` | the `await` the call is at: `acquireClient`, one of the statements, `cancellationComplete` |
| `outcome` | what the call returned or will throw |
| `aborted`, `listening` | the deadline's signal; whether `cancel` is registered with it |
| `started`, `ending` | `transactionStarted`; whether `cancellationComplete` is set |
| `queued`, `client`, `releases` | the pending `connect()`; the client (`released` is `client # "lent"`); calls of `client.release` |
| `conn`, `ended`, `reply` | the connection, the client's `end` event, the answer to the statement awaited |
| `db`, `executing` | the server's transaction and the statement it has received |
| `Call`, `AcquireTimeout`, `Borrow`, `ConnectFails` | `acquireClient` and its line 96 for the client that comes too late |
| `BeginReturns` ... `CommitReturns`, `StatementFails`, `StatementLost` | the `try` block, statement by statement, and what `catch` does first |
| `RollbackReturns`, `RollbackLost` | the rest of the `catch` block |
| `Abort`, `Cancel`, `End` | the signal (`apps/api/src/http/deadline.ts`), `cancel`, the client's `end` |
| `Execute`, `ExecuteFails`, `Break`, `ServerRollsBack` | PostgreSQL and the network, which go on whatever the page thinks |

The role and the timeouts are one statement, and so are those of `work`; `work` may also fail after
its last statement.  A call without a deadline is one that is never aborted.  A statement that was on
its way when the connection broke may or may not have been received; one that was received is
executed, connection or not.  A failed ROLLBACK means a lost connection.

### 2.4 State and actions of `WarmQueue`

| TLA+ | Code |
|---|---|
| `job[r]` | BullMQ's job of revision r: its state, attempts made, times stalled, the day it was added |
| `reserved`, `late` | the ZSET of `PRODUCER_ADMISSION_V1_LUA`; commands Redis executes after their producer gave up |
| `producer[p]` | where `run()` of `producer.ts` is |
| `worker[w]` | running, draining or down, and where `processWarmJob` is |
| `keyUntil`, `registeredUntil` | the cache's keys and the registry of `CACHE_SET_V1_LUA`, with the day each ends |
| `Reconcile` ... `Release`, `GiveUp` | `run()` await by await; its deadline of one second or a lost connection |
| `Take`, `ReadIndex`, `WriteIndex`, `Complete`, `FailTransiently` | `processWarmJob`, `readIndex`, the cache writer |
| `Drain`, `Cut`, `Restart` | `stop()` of `worker.ts`, the kill after it, the next process |
| `Promote`, `Stall`, `AddJob`, `RemoveJob`, `Finish` | what BullMQ does by itself or when asked (external) |

Redis runs one command or script at a time.  A reservation ends two seconds after it was made, one
second after its run; so it does not end while the run, or what the run sent, is still to come.
`Uncacheable` are revisions whose index the cache's validation rejects: their jobs are poison.

### 2.5 State and actions of `ApiServer`

| TLA+ | Code |
|---|---|
| `life[p]`, `stage[p]` | whether the process listens (`start()`); how far `stop()` is |
| `window[p]`, `limiter` | the local window of `rate-limit.ts`; the keys of `LIMITER_V1_LUA` in Redis |
| `client[p]` | the limiter's `BoundedRedisConnection` |
| `req[r]` | one request: the await it is at, its answer, its connection, what it committed, how it was counted |
| `Arrive`, `Authenticated`, `BodyArrives`, `HandlerReturns`, ... | the middleware of `app.ts` between two awaits |
| `RunScript`, `Undelivered`, `GiveUp`, `LostWithClient`, `Connected`, `Broken` | a limiter command and every way it ends |
| `Deadline`, `Disconnect`, `Deliver` | `deadline.ts`; the client leaves, or reads the answer |
| `Signal`, `CutConnections`, `ServerClosed`, `ProducerStopped`, `DatabaseClosed` | `stop()` of `server.ts`, await by await |

A transaction is one step here that succeeds, fails or is cut off; what it does inside is
`TransactionRuntime` and `Gameplay`.  A request is what the checks tell apart: the operation, where it
says it comes from, which cookie and token it carries, what its body is.  A command Redis received may
be executed after its process gave it up.

### 2.6 State and actions of `ContentImport`

`stored` holds the committed packs, revisions and catalogue of regions; `run[r]` the command of one
operator: the statement it is at, what it wrote and has not committed, its verdict.  There is one
action per statement of `import.ts`.  A statement that meets a row another transaction wrote and has
not committed waits for it (`WaitsFor`); a circle of waits ends in `Deadlock`.  `Disconnect` cuts a
transaction off anywhere, at COMMIT with either result.  A text is the set of faults that the
validation tells apart, a name is itself with its normal form.

### 2.7 State and actions of `Reporting`

`entries` and `games` are the database's, the games those of either guest in turn; `rings` says which key rings the processes that serve have;
`read` are the browser's requests, each answered at one moment (`Serve`) and handled at a later one
(`BoardReturns`, `ProfileReturns`); `board`, `profile`, `leaderboard` and `profileRead` are the public
and private fields of `ReportingController`.  `Play` is what the guest's commands make of today's game,
`refreshAfterTerminal` the page's effect (`app.tsx:135`) once it shows a game that is over: today's or
an earlier slot's, however it ended, in either session, just ended or found so on a reload; the model
does not remember for which games the effect has run, so it may run again.  `Solve`, `Deploy` and
`Retire` are the world.  The variable `board` also remembers what its first page was read from, which
only properties look at.

A game is the snapshot of its attempt and whether it was guessed at.  The statistics tell apart what
`calculateProfileStatistics` takes apart: the finalized games (counts, accuracy, knowledge) and the days
of participation (streaks); a game given up unguessed is only the first, an open one with guesses only
the second.  One region is named by every game, worth what `regionalPerformanceHundredths` says.
`readProfile` does not call `calculateRegionalKnowledge` but reads the sums that `finalize` stored
(`profile.ts:72`): that they are these sums is `KnowledgeIsTheSum` of `Gameplay`.

### 2.8 State and actions of `LocalPlatform`

| TLA+ | Code |
|---|---|
| `docker`, `registry`, `kube` | whose cluster and containers there are; what they hold |
| `files` | the records under `.cache/s9`: marker, images, promotion, secrets, bootstrap |
| `repo`, `built`, `chart` | the local Git repository's main; the images on the host; the chart in the checkout |
| `cmd` | the command running, the call it is at, what it holds in memory |
| `FindCluster` ... `InstallArgo` | `createCluster` |
| `Admit` ... `SavePromotion` | `promote` |
| `ReadSecrets` ... `SaveBootstrap` | `prepareSecrets` and `bootstrap` |
| `PushSnapshot`, `ServeGit`, `ApplyApplication`, `SaveSource` | `sync` |
| `DeleteCluster`, `RemoveRegistry`, `RemoveGit` | `destroy` |
| `Fail` | a call fails, the code throws, or the process is killed: nothing is undone |

Between commands the operator rebuilds images, edits the chart, and loses or restores `secrets.json`;
at any time somebody else may own a container or cluster of the tool's names.  An `images.json` put back
by hand is not among these disturbances.

### 2.9 `Configuration`

Pure operators: which environments `parseServerEnvironment`, `parseApiRedisConfiguration`,
`parseWorkerConfiguration` and `parseObserverConfiguration` accept and what keys and origins come of
them, secrets given in the environment or in files included.  `MCApiServer` evaluates its two
properties over every mix of keys, modes and files; `ApiServerProofs` proves them for all.

## 3. Runs

| Run | Question | Bounds |
|---|---|---|
| `attempt_life` | Do the rules keep the counters valid and the game finite and fair? | the code's own: 5 levels of 3 guesses; the state space is complete |
| `gameplay_day` | Do keys, versions, guesses, receipts and the lock hold together when two connections race through a day? | 1 guest, 2 connections, 3 keys, 1 slot of 2 ticks, the close at tick 2, versions 0..1, every command and read on 2 attempt ids |
| `gameplay_days` | Across the close of a slot, into the next one and past the end of the session: is everything finalized once, in its window, on every path, and does it implement `GameBook`? | 2 slots of 1 tick with different regions, a session that expires at tick 1 or 2, 3 keys, 2 connections |
| `gameplay_live` | Does every request end? | 2 connections, 1 key, no symmetry |
| `transaction_runtime` | Whatever is aborted, breaks or comes too late: is every client released once and clean, is the caller told the truth about the commit, and does every call end? | a write and a read that share a pool of one client; the state space is complete |
| `web_controller` | Does a stored intent act once, survive until it is settled, and never make the controller wait for nothing? | 2 guests in turn, 3 slots of which 2 have a case, versions 0..2, 2 intents, 2 disturbances |
| `web_late_read` | Do late responses never overwrite newer state, as `plans/s6-web.md:351` says? (they do) | 1 slot, 2 intents, no disturbance |
| `warm_queue` | Do the queue and the cache keep their bounds, and is the last day's revision cached in the end? | 3 days of which one cannot be cached, 2 producers, 1 worker, 1 outstanding job, 2 keys with the registry's, 2 attempts, 1 disturbance |
| `api` | Do the limits hold, does whoever can be answered find the pool open, and is an uncertain command replayed? | 1 process, a command or a new browser beside one of six requests, limits of 1 and 2 (the local one binds for new sessions, the shared one for commands), one tick (a minute), 1 signal |
| `content` | Is what the importer says true, and can what is published be played? | 3 runs: packs with every fault, rivals for a revision or a window, a second try |
| `reporting` | Do pages fit together, and do reports belong to the guest, the slot and the history? | the first guest with 3 past games (expired unguessed, solved, exhausted), the second with none, today's open or solved, 4 entries of which 3 tie, pages of 2, 2 key rotations, 3 reads |
| `local_platform` | Do credentials stay those of the data, and is Argo CD given only what it can run? | 2 groups of credentials, 2 images in 2 builds, 2 clusters, 2 sets of credentials |

**Why the bounds are enough.**  The lock serializes a guest's transactions and no transaction reads
another guest's rows, so one guest shows every interleaving that matters; two connections give each
race between a transaction and the one it waits for or follows; three keys allow a first command, its
retry and a competing one; two attempt ids are what two slots can use and one spare for an unknown
attempt.  The concurrent runs play a shorter game (2 levels, one guess each) because the engine is
explored at full size by `attempt_life`, and the shorter one still has an advance, an exhaustion and
an evidence limit.  Symmetry is declared on keys, ids and connections in the safety runs only.
For the tab, two intents are a START and a command, or a command and the one that follows it with the
first one's copy still on the wire; two disturbances allow a lost answer followed by a reload, a move
of another tab or the end of the session; three slots with a gap give a START whose slot has passed
into a day without a case and into one with another case; the second guest is the one after a loss.
`CHECK_DEADLOCK FALSE` because a tab that has used up its bounds and handled every answer stops, and
so do calls that have all ended.
Calls of `transaction()` share nothing but the pool, so two of them over one client give every way in
which one waits for, gives up on, or inherits the client of the other; one may be a write and one a
read, the two ways in which COMMIT is treated.

For the queue, one outstanding job and three days are the least with which a job can be refused (a job
of yesterday that is stuck keeps out today's, the hard case for `CurrentIsWarmed`), a registry be
full of yesterday's keys, and a job be too old; one disturbance (a run given up, a failed read or
write, a drain, a kill) may strike anywhere, and a second one only repeats what the first left.
For the API, limits of one and two are reached by two requests; for commands the shared limit is below
the local one, which stands for what other processes have used, and for new sessions above it.  Three importers are enough for a rival and a
retry, and for every circle of waits that two regions allow.  For the reports, a page of two with a tie of three
puts the cursor into the tie; two rotations are one more than a key ring remembers; three reads are
two pages and a refresh, or a profile beside them.  For the platform, two of each is what tells an old
one from the current one, and `Fail` after any call stands for every interruption.
`CHECK_DEADLOCK FALSE` also in `api`, `content` and `reporting`: requests, imports and reads are bounded.

Every property has a mutant in `PROJECT.json`: a slip of the code, defined beside the operator it
replaces, that makes TLC report exactly that property.

**Fairness.**  `FairSpec` assumes that a connection that can take a step, or fail at the
`lock_timeout` that `transaction()` sets (1 s at most), or be refused by the receipt's trigger, does
one of these eventually.  Nothing obliges clients to send or the clock to move.
`FairSpec` of `TransactionRuntime` assumes that the server executes what it received and notices a
lost client, that the pool lends a client it has, and that the library settles what is awaited.  It
assumes nothing of deadlines, so `CallsEnd` holds without one; a call in a queue is served because
every client comes back.
`FairSpec` of `WarmQueue` assumes that midnight comes, that the producers' timer fires and their runs go
on, that Redis executes what it received and expires reservations, that a worker that can work does,
and that a worker that is down is started again, as its deployment does.  It assumes no failure.

### 3.1 What was found

`web_late_read` violates `ReadsNeverGoBack`, with one tab and no failure: `LatestRead`'s generations
order the reads of one resource among themselves, but not a read against a mutation.  A focus event
reads the attempt, the server answers, a guess is sent and answered and shown, then the older read is
handled and `#applyAttempt` puts the attempt before the guess back.  The player sees the guess gone
until the next read; a command sent meanwhile is refused as stale, so nothing is lost on the server.

`TimeoutsDidNotCommit` holds with an exception that it names.  `plans/s5-api-transport.md:306` says
"Never emit 504 while work can still commit"; a write stops listening before COMMIT for that reason.
If the deadline passes during COMMIT and the connection then breaks, `timeoutError` maps the lost
statement to a timeout although the server may commit.  The idempotency key covers this case:
`docs/architecture/s7-acceptance.md:95` speaks of "receipt uncertainty", and the page keeps the intent.

### 3.2 Also observed

Behaviours that the models have, or that came up while they were written, and that no run is spent on.

- On exhaustion `applyGuess` stores W = 15 whatever W was (`attempt-engine.ts:146`).  Reveals discard
  guesses, so an attempt may be exhausted with fewer; `docs/architecture/game-rules.md:28` says
  "Increment W".  Score and knowledge are zero either way, and the schema's CHECK requires 15.
- A read handled while a mutation is under way may find the session lost; the mutation, served before,
  then sets `READY` again (`controller.ts:450`), while line 570 says "state still fails closed".
- An `initialize` that fails leaves `#sessionReady` false, and the error card's only button calls
  `refreshCurrentCase`, which then returns at once (`controller.ts:268`, `gameplay.tsx:671`).
- A rollover timer that fires a moment early is not set again for that close (`controller.ts:591`).
- `refreshAfterTerminal` joins a first-page request that was sent before the solve
  (`reporting/controller.ts:136`); a profile read aborted by `reset` still reports its failure (line 94).
  Cursors signed with a key rotated twice, or sent to a process of the older deployment, are refused.
- A signal while `listen` is awaited finds `started` false, and `stop()` closes everything but the
  server (`server.ts:323`), which then accepts connections with its pool closed;
  `docs/development/README.md:59` says that it stops accepting.  `AnsweredBeforeThePoolCloses` names
  this exception.
- The operations that read a session list no 504 among their statuses, though the deadline answers
  with it; the client takes it for a malformed response, and retries.
- `redis-connection.ts:98` drops the promise of a newer client that is connecting: the limiter degrades
  for that request.
- The content validation accepts NUL characters and year 0, which PostgreSQL refuses with codes that
  `mapDatabaseError` takes for an unavailable database (exit 3, which
  `docs/development/content-import.md` gives to credentials and connectivity).  So are deadlocks of two
  importers that insert the same regions in different orders, and a COMMIT whose answer is lost.
- The content validation accepts control characters in names that the cache's validation rejects: such
  a revision is never cached, and every day's job for it is poison.
- A worker or observer without any mode is `local`: it takes secrets from the environment and `redis://`.
- A platform command killed between `kind create cluster` and its marker leaves a cluster that every
  command, `destroy` too, refuses to touch; a `destroy` that fails after it deleted the cluster cannot
  be resumed; `images.json` is saved before the policy is asserted; `promote` pushes to port 5001
  whoever owns it, and only the namespace it asks for first makes that the tool's own.

## 4. Proofs

All theorems hold for every value of the constants that satisfies the named assumptions, which TLC
evaluates in the runs: `EngineAssumption`, `LedgerAssumption`, `GameplayAssumption` (any number of
guests, connections, slots, keys, ids, regions and levels up to the engine's five),
`RuntimeAssumption`, `WarmAssumption`, `ServiceAssumption`, `BoundsAssumption`, `LimiterAssumption`,
`LimitsAssumption` and `ServerAssumption` (limits are numbers; finitely many requests),
`ContentAssumption`, `ReportingAssumption` (the entries of a slot are finitely many and no two have one
id, as `assertUniqueCandidates` demands; a history is finitely many games with snapshots of the engine;
some slot is the last), those of
`LocalPlatform` (there is a credential; the migration's image is pushed after the workloads') and
`UnsetAssumption`.
Each invariant below was checked by TLC on the instance of its run before it was proved.

- **Engine** (beginning of `GameplayProofs`): each accepted transition keeps `ValidSnapshot`; scores lie in
  0..1350 and regional performance in 0..100.
- **One attempt** (`GameplayProofs`): all five properties of `attempt_life`.  `EvidenceIsPaidFor`
  is not inductive: the invariant adds that the attempt is valid and that levels, reveals and wrong
  guesses are tied together also while guesses were discarded.
- **Ledger** (`GameplayProofs`): every operator maps ledgers to ledgers, only adds rows, keeps
  finished attempts, and leaves valid snapshots.  `Kept(L, t)` says that the books of a ledger add up at
  time t: one attempt per slot and per id, the counters of an open attempt equal to its stored guesses
  (`Counts`), its effects owed while it is open and booked once when it is over (`Owed`), receipts
  inside the window of their slot.  Each operator keeps it and either changes nothing a guest could
  notice (`Quiet`: attempts whose day is over are closed) or does exactly one start or move
  (`Begun`, `Played`).
- **Backend, who writes** (`GameplayProofs`, `IInv`): the state is well typed; a transaction past
  its lock holds it, alone; what it drafted grows from the committed ledger and keeps what was
  finished; receipts lie before the session's expiry.  The second part is needed because
  a commit publishes a draft made several steps earlier: only the lock makes it certain that the
  ledger it was drafted from is still the committed one.  From it follow `TypeOK`, `LockIsHeld`,
  `FinishedForever` and `NothingIsLost`.
- **Backend, what is written** (`GameplayProofs`, `BooksInv`): `Kept` of every committed ledger and of
  every draft, at the time its transaction has read; what a transaction between two statements still
  has to write (`Promised`) and what it will answer (`Told`) agree with its draft, whose rows are no
  later than the receipt that vouches for them (`Vouched`).  The properties
  are about committed rows, and a draft is half written for several steps, so `Kept` alone is not
  inductive.  From it follow `NoConstraintFails`, `OneAttemptPerSlot`, `FinalizedOnce`,
  `KnowledgeIsTheSum`, `EffectsInsideWindow`, `BookMatchesReceipts`, `NoElapsedAttemptShownOpen`,
  `OnlyNewReceiptsPlay`, `CommitsInTimeOrder` and `RefusedLeavesNoRows`.
  `KnowledgeIsTheSum` compares increments with a sum over a set, which is recursive.  Its part of
  `Kept` is `Known`, and what is needed of sums (`SumsGrow`: one more share adds its part, in whatever
  order the sum picks) follows by taking the least of the subsets where it would fail (`LeastSubset`).
- **Refinement of `GameBook`** (`GameplayKeepsTheBook`): initial states map to initial states; a commit
  is either `Quiet`, which is the end of some days in the book or nothing, or `Settled`, which is one
  `Start` or `Move` of the book by an unused key; every other step leaves the book alone.
- **Runtime** (`TransactionRuntimeProofs`, from `RuntimeAssumption`): the five safety properties of
  `transaction_runtime`, for any number of calls and any pool.  Every action replaces one call's
  record, so `IInv` is one predicate of a record: while the connection is up, the call and the server
  agree on the statement under way and on what its reply says of the transaction (`InStep`); a client
  is lent exactly between borrowing and release (`Released`); a write whose COMMIT has been sent is not
  listening any more (`Decided`).
- **Queue** (`WarmQueueProofs`, from `WarmAssumption`): `OutstandingIsBounded` and `KeysAreBounded` for
  any number of days, producers, workers and disturbances.  The bound on outstanding jobs is not
  inductive: a producer past the admission script adds its job later, perhaps after it gave up.
  `Reserving` says that its revision stays reserved until then and that nobody else can take the
  reservation away; `Busy` that a worker reports only on an active job of its own, so no report brings a
  dropped job back; `Accounted` that a key and its registry entry live equally long.  The counts are
  of filtered sets, by the library's theorems about cardinalities.
- **Web controller** (`WebControllerProofs`, from `ServiceAssumption` and `BoundsAssumption`): the four
  invariants of `web_controller` and its action property, for any number of guests, slots,
  versions, intents and disturbances.
  First, every step of page or world is progress of the service (`Progress`: receipts stay, versions
  never fall, a finished attempt is final, a session revives only as a new guest's), so what was once true of an
  operation (`OpKnown`) or of a response (`Honest`) stays true however late it is looked at.
  Then `IInv`, one part per place where something stale may lie: copies under way carry the stored key
  and, once forgotten, can take no effect (`WireSound`); the task's intent is the stored one or none is
  stored (`TaskSound`); a reply waiting for the page is final for its command (`ReplySound`); while a
  session is asked for nothing of the last one is handled (`SessionSound`); reads answered and not
  handled are about this guest and no older than the screen (`CurrentSound`, `OwnedSound`); and the
  screen, beside the stored START, is about this guest and no earlier slot (`ScreenSound`).
  None of the parts is inductive without the others: `ForgottenCommandsAreDead` needs that a
  reconciliation is right, that needs the screen, the screen the reads, and the reads the session.
- **API** (`ApiServerProofs`, `ApiInvariant`): the three properties of `api`, for any number of
  processes, of requests in flight and of ticks, any limits and capacities and any requests.
  *The pool*: where a connection is open, its process is still up or draining, unless it came to listen
  after the signal (`Attended`); that needs that a process which does not listen yet has no requests
  (`Placed`).  *The limits*: a request is counted before it is let through, and each step either lets
  nobody new through (`Quiet`) or one request that it counted.  Of a process, at most as many
  requests are in the current window as it says, at most the limit in any, and none in one to come
  (`LocalSound`); requests, not only admissions, are counted, since one that waits for Redis may yet
  be let through without it.  Of Redis besides (`SharedSound`), a key outlives the minute it counts
  (`CountersSound`): without `KeyLife > Minute` a counter could vanish within its minute.
  *Uncertainty*: whoever sent a command that was committed hears success, a cut, `REQUEST_TIMEOUT` or
  `INTERNAL_ERROR` (`Uncertain`), and `retryDirective` replays after each of the last three.
- **Content** (`ContentImportProofs`, from `ContentAssumption`: the lists of a pack are arrays, its numbers
  integers): `VerdictIsTruthful` and `PublishedCanBePlayed` for any number of imports of any packs
  and any normalisation of names.  First, what the validator passes (`AcceptedPack`): the tables refuse
  nothing of it but a NUL character, because what repeats by the letter repeats when it is normalised,
  two entities that share a name share their id, and four pieces of evidence that cover 1 to 4 are
  there once each.  Then `ContentInvariant`: what a transaction has written tells where it is
  (`Progress`), a key is in one place only, committed or not (`KeysApart`), and a window that has passed
  the exclusion overlaps none published and none that waits for its commit (`WindowsApart`).
  `PublishedCanBePlayed` speaks of committed rows and is not inductive without the open ones.
- **Reports** (`ReportingProofs`, from `ReportingAssumption`): first what the two reports compute.
  `ProfileIsRight`: the streaks over the days of participation, and the counts, accuracy and regional
  knowledge of the finalized games, of any finite history on any day are what their definitions name.
  A game is worth 0 to 100 points (`WorthOfCase`), and the sums of the code, folds over the cases in
  order, are the number of points there are (`SumFold`, `SamePoints`).  The longest streak is a fold over the days in order, and what
  a sort and a fold return is found by looking at the least place where they would go wrong
  (`Sorting`, `FoldExists`, `StreakFold`), as induction cannot be cited; by the same
  means `CountingBack` shows that the recursive function which counts days back finds the one streak a
  day can end.  `TrueRanks`: the rank that `rankLeaderboard` hands down from tie to tie is one more than
  the number of better entries, which is what `readDailyLeaderboardPage` counts; `PageFacts`: a page is
  in order and leaves out nothing up to its last row.
  Then the browser (`ReportingInvariant`), for any number of reads, slots, entries, games, pages and key
  rings.  The properties speak of what is shown and are not inductive: `Requested` says that the
  request under way is for the page the board waits for, `RequestOK` that every other read of the
  leaderboard is aborted or of an earlier generation, `LatestOK` the same of the profile, `BoardRead`
  that an answer on its way is a page of the leaderboard at one moment, no earlier than the first
  page shown.  With these a page that arrives continues the ones shown (`NextPage`), and entries that
  come meanwhile only push true ranks down (`TogetherGrows`).  `PagesAreOneLeaderboard` and
  `ReportsAreTheGuests` follow.
- **Platform** (`LocalPlatformProofs`, `PlatformInvariant`): `OneGeneration` and `ArgoCanRun` for any
  number of clusters, credentials, images and builds.  Credentials are applied one by one and any call
  may be the last, so what is inductive is that they are a prefix of one set (`OneSet`) which is
  complete before data and roles exist (`Credentialed`, `BootstrapSound`).  The records under
  `.cache/s9` outlive the cluster they speak of; they count only for the cluster of their number
  (`Recorded`), and no number is given twice (`Numbered`).  That the migration's image is pushed last
  (`OrderAssumption`) makes its presence vouch for the others (`Complete`).
- **Configuration** (end of `ApiServerProofs`, from `UnsetAssumption`): an environment that is accepted gives
  no two purposes one key, and a production one is sealed, by cases over where each secret comes from.

**Only model-checked.**  Liveness (`RequestsEnd`, `CallsEnd`, `CurrentIsWarmed`), which is out of the
prover's reach.  `ReadsNeverGoBack` is false, as its run shows.
Type invariants of the modules with theorems are proved; where a run does not list them the theorem
stands alone.

## 5. Plan

Modules, in order; each with its model, its runs and, where marked (P), theorems.

1. `AttemptEngine`, `AttemptLife`, `GuestLedger`, `Gameplay`, `GameBook` (P) -- done.
2. `PlayService`, `WebController` (P) -- done.
3. `TransactionRuntime` (P) -- done.
4. `WarmQueue` (P) -- done.
5. `RequestPolicy`, `SharedLimiter`, `ApiServer` (P) -- done.
6. `ContentPack`, `ContentImport` (P) -- done.
7. `PublicViews`, `Reporting` (P) -- done.
8. `Configuration` (P), `LocalPlatform` (P) -- done.

## 6. Not modelled

- Rendering (`*.tsx`) beyond which buttons a state offers, `projections.ts` and the zod schemas: they
  copy and check data and keep no state.
- Queue observer, metrics and health endpoints: they sample counters that nothing else reads.
- Filtering and ranking of suggestions, the bytes of cursors and cookies, numeric settings, header formats.
- The platform's `import`, `status`, `forward` and `render`, the evidence and test harness scripts
  (`scripts/s8-*`, `s9-evidence.mjs`), image builds and the Helm chart's contents.  `import` leaves its
  temporary Secret behind when it is killed.
- The closing of the pool inside `TransactionRuntime`; roles and grants of the schema.
- TLS, hashing and signatures are taken to work.  PostgreSQL's row locks, constraint checks and atomic
  commit, Redis's atomic scripts, and what BullMQ promises of its jobs are modelled by what the code
  relies on.
