# Axiomify: TLA+ specifications and proofs

Axiomify is a TypeScript web framework: a core that routes and dispatches
requests, servers it runs on, and some thirty packages of plugins. Most of the
code is per-request computation. The parts with state that outlives a request,
and with steps that interleave, are the ones modelled here, those with the
most to lose first: the distributed job queue (`packages/jobs`), the life of a
request and of a server (`packages/core`, `packages/native`), what a client
holds between requests (`packages/session`, `packages/auth`), the response
cache (`packages/cache`) and the client runtime of generated SDKs
(`packages/sdk-runtime`).

Paths below are relative to `src/`. `PROJECT.json` has the machine-readable
side: the source lines of every definition, the runs, the mutants that show
that each property can fail, the hazards and the theorems.

## 1. Inventory

### The job queue (`packages/jobs/src`)

| Part | State | Operations | What is hard |
|---|---|---|---|
| `JobScheduler`, execution (`scheduler.ts`) | handlers; the copy of the job a worker was given | `enqueue`, `executeJob`, `handleJobFailure`, `runWithTimeout` | timeouts and leases, a copy that ages, errors after `complete()`, crashes |
| `JobScheduler`, worker loop (`scheduler.ts`) | `running`, `timer`, `activeWorkers`, `pendingAcquires` | `start`, `stop`, `tick` | callbacks in any order, several timers, a drain with a deadline |
| `JobScheduler`, cron (`scheduler.ts`) | `cronTasks` with `lastRun`, the local lock | `schedule`, `checkCronSchedules` | overlapping checks, a lock that expires, several processes |
| `SQLJobStorage` (`storage.ts`) | table `axiomify_jobs` | `save`, `acquireNext`, `complete`, `fail`, `clear` | methods of two statements, leases |
| `RedisJobStorage` (`storage.ts`) | a key per job, a sorted set of pending jobs, index sets, cron locks | the same, `acquireCronLock` | methods of up to six commands, no reclaiming |
| `MemoryJobStorage` (`storage.ts`) | a map | the same, `purge` | nothing: no method awaits |
| `SagaCoordinator` (`scheduler.ts`) | `executedSteps`, in memory | `addStep`, `execute` | a rollback that fails half way, and runs as independent jobs |
| `jobsModule` (`index.ts`) | the scheduler it mounts | its `onClose` hook | what "close" means to the dispatcher |

The scheduler calls the storage and awaits; the storages of several processes
share a database and nothing else. `tick()` starts checks of the cron tasks
and calls of `acquireNext` without waiting for them. The saga coordinator only
enqueues. `jobsModule` ties the end of the loop to a hook of the core.

Correct means: a job is in the hands of one worker at a time; every failure
costs one attempt and only an exhausted job becomes a dead letter; an outcome
is reopened by nobody but the worker it came from; a job is settled some day
whatever crashes; the loop neither exceeds its slots nor falls asleep; after
`stop()` nothing is acquired; a cron task fires once per matching minute; a
failed saga undoes all that it had done, and nothing else.

### The SDK runtime (`packages/sdk-runtime/src`)

| Part | State | Operations | What is hard |
|---|---|---|---|
| `BaseClient` (`client.ts`) | `inFlightRequests`, response cache | `request`, `executeHttpRequest` | callers that join, fail and start again across awaits |
| `CircuitBreaker` (`circuit-breaker.ts`) | state, `failures`, `halfOpenSuccessfulRequests`, `lastStateChange` | `run`, `onSuccess`, `onFailure` | results that arrive in another state than they left in |
| `withRetry` (`retry.ts`) | attempts | the loop | runs inside the breaker |
| `OfflineQueue` (`offline.ts`) | the queue | `enqueue`, `flush` | a flush that overlaps another |

Correct means: identical GETs share one round trip, every caller gets an
answer, the breaker's state and counters agree.

### The server (`packages/core/src`, `packages/native/src`)

| Part | State | Operations | What is hard |
|---|---|---|---|
| adapters (`native/src/index.ts`, `http2.ts`, `body.ts`) | `_inflight`, a timer and an abort flag per request | receive, read the body, time out, abort | who answers first, what is still counted |
| response (`response.ts`) | `headersSent`, `isStreaming`, `onStreamClose` | `send`, `sendRaw`, `stream`, `sseInit`, `sseSend` | streams that begin late or end early |
| dispatcher (`core/src/dispatcher.ts`, `lifecycle.ts`, `registry.ts`) | the hooks | `handle`, `handleMatchedRoute`, `handleError` | handlers that time out and run on, hooks on every path |
| shutdown (`native/src/index.ts`) | drain waiters, the force timer | `drain`, callbacks of plugins, `onShutdown` | requests that go on coming |
| cluster (`listenClustered`) | `liveWorkers`, heartbeats, restarts under way | fork, respawn, `SIGUSR2`, `SIGTERM` | exits and restarts that overlap |

Correct means: a request gets one response, a 504 at the latest, and its
`onClose` hooks run once; nothing is closed under a request that is still
served; a drain does not wait for nobody; a worker that is lost is replaced,
and a restart costs no capacity.

### What a client holds (`packages/session`, `packages/auth`, `packages/cache`)

| Part | State | Operations | What is hard |
|---|---|---|---|
| sessions (`session/src/session.ts`) | the record in the store, `SessionInternal` in each request, the cookie | load, write, `save`, `touch`, `regenerate`, `destroy`, three hooks | a whole record read at the start and written at the end; ids that change in between |
| refresh tokens (`auth/src/index.ts`) | the tokens of a `TokenStore` | `createRefreshHandler` | a store that fails between save and revoke; refreshes that overlap; an answer cut off in between |
| response cache (`cache/src/plugin.ts`, stores) | entries, refresh locks | lookup, revalidate, store, `invalidatePath` | locks that expire, writes that come after an invalidation |

Correct means: a destroyed session stays destroyed, and what a handler wrote is
saved under the id its client has; a client always has a token that works, and
a used one is dead; one request refreshes an entry, and a value from the cache
has a bounded age. Not all of this is so; section 3 says what is shown instead,
and where the code differs.

### Other stateful packages, not modelled

| Package | State | Hard behaviour | Properties to state |
|---|---|---|---|
| `rate-limit` | counters per key and window | eviction at the limit, window boundaries | the count equals that of a reference definition |
| `ws` | rooms, subscriptions, presence | join and leave across awaits and nodes | a room's subscription is there exactly while it has members |
| `auth`, key sets | cached keys | a refresh shared by requests | one fetch at a time |

Packages without such state (headers, schemas, documents, files, compression,
logging, code generation and the command line) are listed in `PROJECT.json`
with the reason they are left out.

## 2. Modules

    JobLifecycle              what a queue promises for a job
      ^ implemented by
    SqlJobs, RedisJobs        storage, execution, failures, crashes
    SchedulerLoop             the loop of one process around them
    CronSchedules             the cron checks of several processes
    SagaCoordinator           execute() and its jobs, on an abstract scheduler
    SdkClient                 cache, deduplication, breaker and retries
    HttpServer                requests through adapter and dispatcher; drain
    Cluster                   the primary process and its workers
    Sessions, RefreshTokens   what a client holds
    CacheSwr                  the response cache and its refresh locks
    *Proofs                   theorems
    MC*                       constants for TLC

`MCScheduler` runs `SchedulerLoop`, `CronSchedules` and `SagaCoordinator`,
`MCCredentials` runs `Sessions` and `RefreshTokens`: modules that share no
state, of which each behaviour is about one.

Definitions whose comment begins with "Mutant of" are plausible bugs in the
definition that follows them. Nothing refers to them; each is put in its
place to see that a property notices.

### JobLifecycle

The abstract specification: a status per job and the set of its holders.
`Submit`, `Claim` of a job nobody holds, `Settle` by its only holder, `Abandon`
(a worker is gone) and `Wipe`. There are no clocks, statements or attempts.

### SqlJobs (`storage.ts` 140-378, `scheduler.ts` 187-220 and 313-437)

`row` is the table; a worker slot has a phase `pc`, the job it was given
(`held`), the attempts of its copy (`copy`) and those `fail()` has selected
(`seen`). One action is one SQL statement or one stretch of code between two
awaits: `Acquire` is the atomic `UPDATE ... RETURNING`; `FailSelect` and
`FailUpdate`, `DlqSelect` and `DlqUpdate` or `DlqInsert` are the two statements
of `fail()` and `save()`, and anything may happen in between, `Clear` included.
`CompleteThenThrows` is the path on which an error after `complete()`, in the
same `try` block, is taken for a failure of the job. A second `INSERT` of one
id rejects, nobody catches it, and the process goes down with all its slots.

Time is relative: `due` is the distance to the `runAt` or `lockedAt` of a row,
`left` what remains of the time a worker's step may take. `Tick` counts both
down and does not pass a deadline: a handler is cut off by `JobTimeout`, a
storage call takes at most `StoreTime`. A call reads `Date.now()` on entry and
its statement is executed up to `StoreTime` later; `Acquire` chooses that
delay, so the clock it compares with may be stale.

Assumed: the processes agree on the time; handlers are asynchronous (one that
blocks the event loop is not raced against its timeout, `scheduler.ts` 419); a
storage call ends within `StoreTime`.

### RedisJobs (`storage.ts` 384-691, `scheduler.ts` 285-437)

`job` is the key of each job, `pending` the sorted set, `listed` and `tracked`
the index sets. A call of `save`, `complete` or `fail` becomes, after its `GET`,
the sequence `todo` of commands still to be issued; `Exec` issues one, and
crashes and other clients come in between. `acquireNext` is `Poll` (the range
query and `MGET`), then for each candidate the Lua script: `Locked` or
`Refused`, or `ReplyLost`, after which the code goes on with the next
candidate. Candidates may be stale when their turn comes. `CutShort` is what is
left when a client issues nothing more: after a `Crash`, or, in
`EnqueueRejects`, because a command of `save()` has failed while the process
lives on.

Redis is external: each command and each script is atomic. The storage never
compares a lease with a clock, so time is only the set `due`. Assumed:
`defaultRetryDelayMs` is positive, so that a script holding an old candidate
refuses a job that was failed and put back meanwhile. `clear()` is left out.

### SchedulerLoop (`scheduler.ts` 235-311, `index.ts`)

One callback of the event loop per action. `this.timer` remembers the last
timer set, the others are `strays` that `stop()` cannot clear. `Tick` is the
whole recursive `tick()`: it reserves every free slot, or sets a timer when no
slot is free and no acquire is in flight. `AcquireJob` and `AcquireNothing` are
the callbacks of `acquireNext`, `JobEnds` that of `executeJob`.
`RequestCloses` is the `onClose` hook of `jobsModule`, which the dispatcher
(`packages/core/src/dispatcher.ts` 86) runs at the end of every request.

### CronSchedules (`scheduler.ts` 443-498, `storage.ts` 732-748)

Several checks per process are under way at once, since `tick()` does not wait
for them. A check reads the clock in `Begin`, asks for the lock in `Lock`, and
in `Won` stamps `lastRun` with the clock it began with and goes on to enqueue.
Which minutes a cron expression matches is a parameter; whether a task has an
expression or a number of seconds is chosen initially. The lock is that of
`acquireCronLock` in Redis, or one per process where the storage has none.

### SagaCoordinator (`scheduler.ts` 504-569)

`Execute` is the forward loop and the rollback loop of `execute()`. Compensation
jobs wait in order of their `runAt`; slots `Take` them, and a failed one is
`delayed` and comes back behind the others. `CompensationRejected` is an
enqueue that rejects; its job may be in the storage all the same. `Crash` takes
down any of the running compensations, which come back by their lease, or
`execute()` with its `executedSteps`, which does not. The scheduler underneath
is represented by what the other modules show of it.

### SdkClient (`client.ts`, `circuit-breaker.ts`, `retry.ts`, `cache.ts`)

A caller either joins the request in flight for its key (`Join`) or is admitted
by the breaker and fetches (`Launch`); fetches end, are retried after a delay,
and `onSuccess` or `onFailure` is applied in the state the breaker is in by
then. A cache hit or a refusal by the breaker ends the call where it begins and
changes at most the breaker. Time is the flag `cooled`. `Uncache` stands for
expiry and eviction, in any order.

### HttpServer (`native/src`, `core/src/dispatcher.ts`)

A request has a phase `pc`: what its code is awaiting. Each action is the code
between two awaits, or a callback: the request timer (`TimeoutUws`,
`TimeoutH2`), the abort of the client, the size limit, the end of a stream.
Hooks, plugins and handlers belong to the application: at each await they may
answer (`UserSends`), stream, throw, return, or do nothing for ever. A handler
that exceeds the timeout of its route is `detached` and may still answer or
stream. To answer is `Commit`, which sets `headersSent` and clears the timer of
the request, and then the response (`Respond`), or an exception of the
serializer (`RespondThrows`), after which nothing has been written and nobody
else will write. `writes` counts the responses begun on the connection. It is
less than `headersSent` says in that case, and more for the 504 of HTTP/2 and
the 413, which go past the response object. `Finish` is the `finally` of the
adapter, which wakes `drain()`; `Signal`, `BridgesDone`, `OnShutdownDone` and
`ForceExit` are the shutdown.

Assumed: abort handlers registered with uWebSockets.js add up (`readBody` and
the adapter each register one). A client that reuses a connection is a new
request. HTTP/1 parsing, headers and the contents of bodies are left out.

### Cluster (`native/src/index.ts` 986-1244)

`worker` is the sequence of workers ever forked, with the state the primary
keeps of each (`STARTING`, `READY`, `DRAINING`) and what the primary cannot
see: whether it hangs and which signal is on its way. `timers` counts respawn
timers, `restart` holds the list of each rolling restart and its position, and
a replacement carries the listener that goes on with its restart. A second
`SIGUSR2` starts a second list beside the first, as in the code. A worker may
exit at any time and hang while it is `READY`; the check of heartbeats kills
only `READY` ones. The delays of respawns are left open.

### Sessions (`session/src/session.ts`)

`req` is `SessionInternal` with its flags, and two positions: `pc` in the hooks
and `hc` in the handler, since a handler that has timed out runs on beside the
hooks. A call of the store is two steps, the effect and the reply; it may fail
before or after the effect. A record holds the set of requests whose writes it
contains, and whether the absolute timeout has passed for it. `Persist` is
`persist()` up to its await, with what it decided in `awaits`. `killed` and
`saved` are histories for the properties.

### RefreshTokens (`auth/src/index.ts` 246-333)

A refresh is `Exists`, `Sign`, `SaveNext`, `Revoke`, `Send`; each call of the
store may fail, done or not. A token is a number. `CutOff` is the timeout of
the route (`core/src/registry.ts` 408), that of the adapter, or a client that
goes away: the client has its answer or none, the handler runs on, and `Send`
no longer reaches anybody. `LogOut` is the application's use of `revoke()`.

### CacheSwr (`cache/src/plugin.ts`, `store.ts`, `redis.ts`)

One path with its `GET` and `HEAD` entry. A command of the store is split where
something may come in between: it is issued, it takes effect, and its reply is
there, all of it within `StoreTime`. A request looks up (`Lookup`), and on the
reply computes the age of what it has found: it is served (`Hit`), runs the
handler (`Miss`), or asks for the refresh lock (`Ask`). The claim lives from
`TakeLock`, its holder works from `Claim` on; `ServeStale` serves what was found
before the lock was awaited. The handler reads the data (`ReadsData`) some time
before it answers; `finish()` then issues the `Write` and the `Release`, waits
for neither, and each may come late or fail. Commands of one request keep their
order, as they do on a connection to Redis; those of different requests need
not. `Update` changes the data, after which `invalidatePath()` deletes key by
key. A `late` request is one its key was deleted under. An entry may be there
from the start, since the store may outlive the process.

## 3. Runs

`tlc -config <cfg> <module>` in this directory. The runs take from a second to
a minute each.

| Run | States | Shows |
|---|---|---|
| `sql_safety` | 139 833 | with a lease that outlives the job: one owner, current copies, dead letters are exhausted jobs, each failure counts once, and a completed job is reopened by nobody but the slot that completed it; with two faults, clears and errors after `complete()` |
| `sql_lifecycle` | 61 026 | without those errors, and with `dlqQueue` empty: refinement of `JobLifecycle` (completion is final, only exhausted jobs fail), every job settles |
| `scheduler` | 602 990 | the loop: slots respected, no stall, polling goes on, nothing acquired after `stop()`; cron: once per minute and process, no minute missed, intervals kept; saga: the rollback undoes the finished steps and no others, and ends |
| `redis_safety` | 43 185 | one owner without leases, current copies, no settled job in the sorted set, failures counted; until something fails, no pending job is missing from the sorted set, and index sets agree with the keys |
| `redis_lifecycle` | 25 694 | with `dlqQueue` empty: refinement of `JobLifecycle`, and every job settles unless something fails |
| `sdk_requests` | 1 156 | breaker consistent, flights shared, map exact, all callers answered |
| `server` | 3 892 754 | at most one response, `onClose` at most once and under no open stream, nothing closed before the drain, no drain that waits for nobody |
| `server_timeout` | violation | `TimeoutArmed`: a request without an answer has its timer |
| `cluster` | 312 809 | no place lost, capacity returns, restarts end |
| `credentials` | 3 254 940 | a destroyed session comes back only through another request that held it, writes are saved under the id the client has; rotation costs a client its token only if its answer was cut off |
| `refresh_lockout` | violation | `NeverLockedOut`: a client that is not logged out has a token that works |
| `cache` | 4 081 917 | one refresher under a claim in force, no claim beyond its lifetime, bounded staleness, invalidated values come back only from requests under way |

With `dlqQueue` empty the last failure goes through `fail()`, otherwise through
`save()`; the two runs of each storage take one each.

### Two promises that do not hold

Two runs check what the documentation says, and find it violated.

- `server_timeout`. `docs/packages/native.md` 205: "Answer with `504` if headers
  are not sent within N ms". `send()` sets `headersSent` and clears the timer
  of the request before it serializes (`native/src/response.ts` 178 and 188,
  `http2.ts` 392 and 400). When the serializer throws, `handleError`
  (`core/src/dispatcher.ts` 199) finds `headersSent` set and answers nothing:
  the client has no response, the process has no timer, and the request ends
  as if it had been served. `OneResponse` therefore says "at most one".
- `refresh_lockout`. `docs/packages/auth.md` 92-95 has the new pair returned
  first and the old token revoked afterwards, and "makes the worst case a
  recoverable retry instead of a permanent logout". The code awaits `revoke()`
  (`auth/src/index.ts` 322) and sends afterwards (328), and `send()` is without
  effect when a timeout or an abort has come in between: the client's only
  token is dead and it never gets the next one. What does hold is
  `RotationSafe`: nothing but such an answer costs a client its token, an error
  of the handler itself leaves it untouched, and a used token is dead.

### Further differences between documentation and code

Found while modelling; no run of this project is about them. The models take
the side of the code, so that the first five can be seen in their behaviours.

- `docs/packages/jobs.md` 108 has `completed` "Emitted when a job completes
  successfully", but its listeners run in the same `try` block as `complete()`
  (`scheduler.ts` 371): an error of theirs is handled as a failure of the job,
  which is reopened, or becomes a dead letter. `ReopenedByItsWorker` says that
  this costs an attempt and that nobody else does it.
- `jobsModule` stops the worker loop in an `onClose` hook (`jobs/src/index.ts`
  57, "Stop loops when app closes"), but `onClose` hooks run at the end of each
  request: the first one stops the loop. `SchedulerLoop` has it as
  `RequestCloses`.
- `packages/jobs/README.md` 13: "ensuring exactly one cluster worker fires cron
  intervals". The lock lasts five seconds of the minute and `lastRun` is local
  (`scheduler.ts` 464-465): in `CronSchedules` each process enqueues the task.
  What is shown is once per process.
- `docs/packages/jobs.md` 27 says of locked tasks that they "auto-expire and
  are made available for retry". In Redis nothing reads the lease (`storage.ts`
  561): a job whose worker died stays `running`. `EveryJobSettles` of
  `RedisJobs` is about behaviours without such a fault.
- `packages/jobs/README.md` 14: "executing compensating rollback tasks in
  reverse order". They are enqueued in that order (`scheduler.ts` 546); a retry
  or a second slot lets one overtake another.
- `docs/plugins-and-hooks.md` 47: "`onClose` always runs". It does not for a
  stream that closes before the `finally` block, for one that the wrapper of a
  `HEAD` or a response schema announces and that never begins, and after an SSE
  buffer has overflowed. `CloseHooksOnce` says at most once.
- A stream is not counted in `_inflight` once its handler has returned, nor is
  a handler that runs on after its timeout: a drain waits for neither, and
  `DrainedBeforeShutdown` does not speak of them.
- `gracefulShutdown()` of `core` clears its force timer before it awaits
  `onShutdown` (`core/src/shutdown.ts` 44): an `onShutdown` that hangs is not
  cut off. The adapters have a shutdown of their own.
- In the cluster `onPrimary` is called at the first `WORKER_READY`, since
  `liveWorkers` counts workers that are starting; overlapping `SIGUSR2` leave
  surplus workers; a replacement that exits early stalls its lane of the
  restart; respawn timers fork during a shutdown; a worker that hangs after
  `SIGTERM` is never killed.
- A handler that regenerates its session after it has timed out destroys the
  old id and never stores the new one; a `persist()` that fails in
  `onPostHandler` is not tried again in `onClose`.
- Two refreshes with one token both succeed, and a logout beside a refresh
  does not reach the new token (`auth/src/index.ts` 279).
- `docs/packages/cache.md` 71 promises exactly one claimant per
  `refreshLockTtl` window. A request that has found a stale entry may claim
  after another one has refreshed it and released the claim; and a refresher
  slower than the lock deletes the claim of its successor. `OneRefresher` is
  about refreshers at the same time, where awaiting the lock, the handler and
  the release fit into `refreshLockTtl`: the claim lives from its effect in the
  store, the handler runs from the reply on.
- The same page: `age <= ttl + swr` is served. The age is computed before the
  lock is awaited (`plugin.ts` 530, 536), so that what is served may be older by
  as long as that takes; `BoundedStaleness` has the term.
- A claim is not released when the response is a stream or the client is gone;
  it lasts for `refreshLockTtl`.
- The "online" listener of `OfflineQueue` (`offline.ts` 15) flushes without a
  processor, and so empties the queue.
- `lockDurationMs` and `jobTimeoutMs` both default to 30 s (`scheduler.ts` 155,
  157), so `LeaseOutlivesJob` fails for the defaults: a handler that uses its
  whole timeout loses its lease before `complete()` or `fail()`, and a second
  worker may be given the job, although `docs/packages/jobs.md` 152 promises "a
  single worker execution". `SqlJobs` with `LockDuration` 3 and `JobTimeout` 3
  violates `OneOwner`.
- Each empty acquire sets a poll timer of its own, and each timer refills all
  slots (`scheduler.ts` 296): in `SchedulerLoop` there is no bound on `strays`,
  while `docs/packages/jobs.md` 26 speaks of one polling interval.
- `stop()` waits for active workers only (`scheduler.ts` 252); an acquire in
  flight starts its job after `stop()` has resolved. `packages/jobs/README.md`
  178: "Stops polling and waits for active jobs to finish executing."
- A handler that has timed out runs on while its slot is given away
  (`scheduler.ts` 433), so that more than `maxConcurrency` handlers may run.
- The cron lock is keyed by pattern (`scheduler.ts` 482): of two tasks with the
  same interval of at most five seconds the first takes the lock every time.
- In `HALF_OPEN` every request is admitted (`circuit-breaker.ts` 31);
  `halfOpenMaxProbeRequests` limits successes, not, as
  `packages/sdk-runtime/README.md` 179 says, the "probe requests allowed".
- Retries run inside the breaker (`client.ts` 180) and reach the network while
  it is open; `packages/sdk-runtime/README.md` 184 promises a shield "until the
  cooldown period expires".

### Bounds, and why they are enough

- Two jobs, two workers, two processes: all races modelled are between two
  holders of one job; the second job is there for priorities and for a slot
  that has moved on. Two attempts give a retry and a last attempt.
- `MaxFaults` is 1 or 2 per behaviour: enough for a fault during the recovery
  from another. `DlqInsert` against an existing row crashes without using up
  the bound. Liveness needs the bound: a job that kills its process each time
  is handed out for ever, since a reclaimed job keeps its attempts.
- `sql_*`: `StoreTime` 1, `JobTimeout` 1, `LockDuration` 5, the least integer
  that satisfies `LeaseOutlivesJob`; with 4 `OneOwner` is violated.
- The loop's counters saturate at their bounds and "one less" of a saturated
  counter may be as many as before, so that the run covers any number of
  timers and callbacks. `failures` of the breaker saturates at its
  threshold, beyond which the code does not distinguish values.
- `scheduler`, cron checks: a minute of 9 units, an interval of 8, a lock of 3
  and calls of 1, over two minutes and a bit. `EveryMinuteFires` needs a minute
  longer than two locks and a lost reply, `OncePerProcess` and `IntervalKept`
  a lock longer than two calls; the code has 60 s against 5 s. Three checks: two
  that overlap in one process, one in the other.
- `scheduler`, saga: four steps, three slots, so that compensations overtake
  each other while the rollback is still enqueueing; two faults, so that an
  enqueue may reject before a process dies.
- `server`: two requests, so that one may be in flight at the signal and one
  come after it. All that several parties do, they do to one request.
- `cluster`: one or two workers, one or two replaced at a time, three
  replacements, so that two restarts of a worker and of a pair overlap; one
  failure, at any point.
- `credentials`: two requests, three ids (the old session and two new ones),
  two calls by handlers, one fault; three refreshes, of which two overlap and
  one comes after, four tokens, two errors. Both sessions options are chosen
  initially.
- `cache`: two requests, over entries that may be there from the start, so that
  both find one stale and compete for its lock, or one invalidated under way is
  stored beside a newer one. Handlers and calls take up to 1 unit and the lock
  lasts 4, the least integer for which a refresh fits into it; freshness 1,
  staleness 5, one change of the data, one fault and 9 units of time, in which
  an entry is made, grows stale and is served at the bound, and a claim that
  nobody releases ends.
- `server_timeout` and `refresh_lockout` need one request and one refresh.
- Sagas, checks of the cron, requests, restarts and the clock of the cache come
  to an end: `scheduler`, `server`, `server_timeout`, `cluster`, `credentials`,
  `refresh_lockout` and `cache` do not look for deadlock; the other runs do.
  That the loop never comes to an end by itself is `NeverStalls`.
- Symmetry is used for the requests of `server`, `credentials` and `cache`,
  which do not differ and of which only invariants are checked. Elsewhere jobs
  differ in priority, or a run checks liveness.

### Fairness

Weak fairness throughout, of steps the runtime takes by itself: a pending
timer or `setImmediate` fires, a call of the storage settles, time passes, an
idle slot polls again (which `scheduler` shows of `tick()`, as `PollsAgain`), a
handler ends or is cut off by `runWithTimeout`, a fetch settles or is aborted
after `timeoutMs`. Not assumed: that a handler succeeds, that a process
survives, that anyone calls `start`, `stop`, `enqueue` or `request`, that a
drain ends. A saga's compensation that is running when its process dies is
found again, as its lease runs out.
`Cluster`: a forked worker that has not hung reports, one that got a signal it
can take exits, the heartbeat check finds a `READY` worker that hangs, respawn
timers fire; not assumed is that workers stay up. `HttpServer`, `Sessions`,
`RefreshTokens` and `CacheSwr` have none: handlers may take for ever.
`CronSchedules` has no fairness: its `Tick` cannot pass a due check, so the
one promise about the future is an invariant with a deadline.

## 4. Proofs

`tlapm <module>` checks each of these from nothing, in two minutes or less.
They hold for any sets, durations and bounds that satisfy the `ASSUME` of the
module they extend. These assumptions only say what the constants are, but for
one of `Sessions`: there is at least one id, that of the session stored
initially. Further conditions are named in the theorems that need them.

**SqlJobsProofs.** `TypeCorrect` needs no condition. The others assume
`LeaseOutlivesJob`: `LockDuration > JobTimeout + 3 * StoreTime`, that is the
acquiring call, the handler, a `complete()` that fails and the `fail()` or
`save()` after it. `LeaseGivesOneOwner`, `LeaseKeepsCopies`,
`LeaseKeepsDeadLetters` and `LeaseCountsFailures` follow from `SafeInv`.
`OneOwner` alone is not inductive: that `Acquire` cannot take a row in
somebody's hands depends on its lease being in force, hence on how much of it
the holder still needs. `WorkerInv` says so: the row of a held job has more
lease left than the worker's current step has time, plus what the phases after
it may need (`Reserve`). It also says that the worker's copy is current, that
its phase agrees with the copy about the last attempt, and that a completed
row in someone's hands is due to a late error.
`LateErrorsReopen` says what such an error can do, under the same condition:
the completed job is reopened by the slot that has it in hand, as it lets go of
it and with one more attempt; another worker, a reclaim or a dead letter never
does it. `SqlImplementsLifecycle` assumes moreover that there are no such errors
(`~LateErrors`), since in `JobLifecycle` completion is final. Every action is
shown to be a step of `JobLifecycle`, or none, under the mapping of rows to
statuses and of `held` to owners.

**RedisJobsProofs.** `RedisOneOwner`, `RedisCopyIsCurrent`,
`RedisIndexAgrees`, `RedisEveryFailureCounts` and `RedisTypes`, for any jobs,
workers, producers and faults, and without a condition on durations, since a
lease is never taken back. A call of `save()`, `complete()` or `fail()` is a
sequence of commands, so the invariant says what is left of each call at each
of its commands and what the keys and sets are then: `ProducerInv` for a new
job, `OpenInv` for a worker up to the `SET` of the outcome, `SettledInv` from
there to its last command. A client is alone with its job all that time: the
sorted set does not name it, and `ClientInv` adds that no worker has it left as
a candidate from before while it is being written as `pending`, which is what
makes stale candidates harmless. `RestInv` is about jobs nobody has, and holds
as far as no fault has cut off a call; `CutShortKeeps` is the one lemma for both
ways to cut one off, the death of a process and a command of `save()` that
rejects. `RedisImplementsLifecycle` assumes
`~LateErrors` as `SqlImplementsLifecycle` does, for the same reason.

**SchedulerProofs.** `LoopRespectsSlots`, `LoopNeverStalls` and `LoopStops`,
for any `maxConcurrency`. `LoopInv` is the two invariants and the types; the
lemma about `Tick` is what they rest on: it returns with a timer set or an
acquire in flight. For the cron checks: `CronTypes`; and, if the lock lasts
longer than two calls of the storage (`LockOutlivesCalls`; 5 s in the code),
`CronOncePerProcess` and `CronIntervalKept`, for any processes, tasks, patterns
and numbers of overlapping checks, with a shared or a local lock. `lastRun` is
stamped after an await, so a check may ask for the lock although its task is
not due any more. `CheckInv` says that the lock is then held until after its
call; and that a check that has got the lock has a task that is still due and
holds the lock until after any call that has begun by now. So the stamps of a
task only grow, by an interval or a minute, and a minute that was enqueued is
one that the stamp has reached (`FiresInv`).

`CronEveryMinuteFires` is a promise with a deadline, and therefore an invariant:
as long as a task has not been enqueued for its minute, the minute has not
passed. It holds for any number of tasks, processes and checks if no two tasks
have one pattern (they would compete for one lock) and if a minute is longer
than what may come first (`MinuteIsLong`): three passes over the tasks
(`Pass`, two calls for each), a lock, and for every fault another two passes and
a lock. With 60 s against a lock of 5 s, one task and calls of half a second
that allows for seven faults in a minute. The condition is sufficient, not
necessary: `scheduler` checks a minute of 9 units where the theorem asks for
21. `TimeInv` bounds how far a check can be from its `now`. `TaskInv` has three
parts: until somebody has got
the lock for the minute, it is free by `Wait`, and the process has a check that
will find it free or is going to begin one (`SeekInv`); who has got it has got
it by `Take` and keeps it until its calls are through (`HoldInv`); and a stamp
of the minute belongs to a check that has the lock and is about to enqueue
(`StampInv`), so that all others still find the task due. A fault moves `Wait`
by one round (`FaultPutsOff`).

**SagaProofs.** `RollbackIsExact`, for any number of steps, slots, attempts and
faults. `RollbackInv` adds the loop invariant: at step `undo`, all finished
steps above it are dealt with, and jobs are about finished steps only.

**SdkClientProofs.** `BreakerCounts`, `MapFollowsFlights` and `GetsAreShared`,
for any callers and thresholds. `OneFlightPerGet` is not inductive by itself; it
follows from the map being exact.

**ServerProofs.** `ServerAnswersOnce`, `ServerClosesOnce` and
`ServerDrains`, for any set of requests, finite or not, and without
assumptions. `AnswerInv` says where a response that `headersSent` does not know
of may come from, and that a handler that runs on finds the request answered or
aborted once its error path is through; an answer that has thrown only makes
`headersSent` say more than there is, which is why the theorem is about at most
one response. `CloseInv` that the two places that run
the `onClose` hooks exclude each other. Since requests share nothing but the
count, each action is considered for its own request only (`Alone`).
`CountInv` adds that the requests in flight are finitely many and that those of
the time of the signal had arrived by then: every step lets one request enter,
go on or leave.

`ClusterKeepsPlaces`, for any target, parallelism, number of restarts and
failures. `PlacesKept` is not inductive: a replacement may be told to drain by
a second restart before it has reported, and when it reports, it takes its
predecessor away without filling the place. `PlacesInv` counts such workers
(`Owing`): each was itself replaced by one that counts, so the workers and
timers are as many as the places and those owed together.

**CredentialsProofs.** `LoggedOutStaysOut`, `NoSessionIsLost` and
`SessionTypes`, for any requests, ids, calls and faults. `Saves` follows what a
handler has written: it is in what the request holds, and until the hooks are
through it is saved under the id the request has, or marked for `persist()`.
Saved means once: that another request with the same session does not overwrite
it afterwards is neither claimed nor true.
`Named` says that the client knows that id, or nothing has to be stored under
it; `Buried` that of the requests that can still write to a session nobody
else held when it was destroyed there are only those that destroyed it.
`RotationIsSafe`, for any number of refreshes, tokens, errors and answers that
are cut off. `NextInv` follows the token a refresh has made up: unknown to the
client and to all others until it is sent, and in the store from the moment it
is saved; so no revocation, which is always of a known token, can hit it.
`RevokedInv` says why a known token may be invalid. `KeptInv` says that the
client has a token that works, or will be sent one, or that a refresh whose
answer was cut off has revoked its token; the last is a state of affairs that
stays, and the only one in which `NeverLockedOut` fails.

**CacheSwrProofs.** `CacheHasOneRefresher`, `CacheIsNeverTooStale` and
`CacheTypes`, for any requests and durations. `OneRefresher` has its condition
in itself: `HandlerTime + 2 * StoreTime < LockTtl`, since a claim lives from its
effect in the store, its holder may hear of it `StoreTime` later, works for
`HandlerTime`, and its release may take `StoreTime` to arrive. `ClaimInv`: the
lock of a holder is the one it has made, and of its life no more has gone than
the steps so far may take (`Spent`); it is therefore in force throughout, nobody
else can take it, and a release deletes no other. That a claim ends by itself,
released or not, needs no condition. For `CacheKeepsUp`, `CacheInv` dates values:
what a handler has read was current when it ran, an entry was current at most
`HandlerTime` before it was stored, and one that is served stale passed the test
of its age at most `StoreTime` ago (`InTime`, `Dated`); `LockInv` bounds how long
each await has lasted (`Punctual`).

Only model-checked: all liveness (`EveryJobSettles`, `PollsAgain`,
`RollbackEnds`, `EveryRequestReturns`, `CapacityReturns`,
`RestartEnds`), which the prover does not handle. `EveryMinuteFires` for tasks
that share a pattern is not covered by the theorem, nor by a run, which has one
task.

## 5. Not modelled

- The order by `runAt` among jobs of one priority, and all payloads, names and
  results.
- Clocks that differ between processes; handlers that block the event loop.
- `getJobs` and other methods that only read; events, but for the listener of
  `completed` that throws; `RedisJobStorage.clear()`.
- The matching of cron fields, and the conversion of patterns.
- Hooks of `BaseClient`, URLs, headers, token providers, and the contents of
  responses.
- In the server: WebSockets, parsing, routing, validation, serialization, the
  proxy for platforms without `SO_REUSEPORT`, and `gracefulShutdown()` of `core`.
- In sessions and tokens: cookies and signatures, key sets, OAuth, API keys.
- In the cache: `Vary`, ETags, eviction, and keys of other paths.
- `OfflineQueue`, `MemoryJobStorage`, `rate-limit`, `ws`, `vault`, `db`.

Most of the repository has no state that outlives a call. The user interface
of the studio (some 33 000 lines), the command line with its code generators
(24 000), and the packages for schemas, documents, files, headers and logs are
input, output and formatting; a model of them would repeat the code. They are
listed in `PROJECT.json` with status `not_modelled`, and they are the reason why
the lines modelled are a small share of all lines.

## 6. Plan

The first five modules of the plan this project began with are there: cache,
sessions, refresh tokens, server, cluster. What is left, in this order:

1. Proofs: a minute in which tasks share a pattern, and a tight bound on its
   length.
2. The rooms of `ws` with an abstract specification of presence, and
   `OfflineQueue`.
3. `RateLimit` and the cron fields as operators, checked against reference
   definitions over bounded inputs.
4. Redis `clear()`, and `MemoryJobStorage` as a third implementation of
   `JobLifecycle`.
