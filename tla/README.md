# A TLA+ model of salesdata-api

salesdata-api is a FastAPI service in front of a DuckDB (or PostgreSQL or SQLite)
warehouse. One process runs one asyncio event loop; blocking work goes to three
bounded thread pools. This directory holds TLA+ modules for the parts of it where
the order of events decides about correctness, the TLC configurations that check
them on small instances, and proofs checked by TLAPS. `PROJECT.json` maps every
definition to the source lines it models.

Paths below are relative to `src/`.

## 1. Inventory

| Part | State | Operations | What makes it correct |
|---|---|---|---|
| Async connection pool, `core/db/pool/async_pool.py` + `adaptive.py` | idle heap, `_in_use` with placeholders, waiter list, lock, adaptive limit | `acquire`, `release`, `close_all`, `metrics` | bounded size, exclusive ownership, no lost slot, no lost wakeup, every acquire ends |
| Database session, `core/db/session.py` | the pool, the adapters | `get_async_session`, `create_session`, `warmup_async`, `close` | broken or dirty connections are not reused, every session returns its connection |
| Executors, `core/concurrency/executors.py` | three thread pools | `run`, `shutdown` | a job outlives the task that awaited it, and no thread outlives the shutdown |
| Query service, `core/services/query_service.py`, `core/db/sql_policy.py` | a semaphore per cost class | `run`, `_execute_gated`, `_apply_result_limits`, `_invalidate_after_write` | no permit is lost, results are cut where they must be, a write invalidates what it outdated |
| Query cache coordinator, `core/caching/query_cache_coordinator.py` | L1, reverse index, in-flight futures | `get_or_execute`, `invalidate_tables`, `clear_all`, `persist_l2` | one leader per key, no stale result left behind, followers get the leader's answer |
| L1 cache, `core/db/cache.py` | LRU order, TTL stamps | `get`, `put`, `invalidate` | bounded size and age |
| L2 cache, `core/caching/query_result_cache.py` | SQLite rows, across restarts | lookup, insert, delete | an invalidated row does not come back |
| Persistence queue, `core/caching/persistence_queue.py` | queue, worker tasks | `start`, `submit`, `stop` | nothing accepted is lost silently |
| Synchronous pool, `core/db/pool/sync_pool.py` | as the async pool, with threads and a condition variable | `acquire`, `release`, `close_all`, `metrics` | as the async pool |
| Service database, `core/storage/service_db.py` | the synchronous pool; SQLite's transactions and write lock; the schema | `execute`, `fetch_one`, `fetch_all`, `transaction`, `disconnect`, `create_tables`, `initialize_admin_user` | no open transaction returns to the pool, every operation ends, no process runs on half a schema |
| Authentication, `core/auth/`, `core/app/api/routes/auth.py`, `bootstrap_admin.py` | users, API keys, user and key caches, token revocation times | login, registration, role change, key creation, revocation, deletion | a revoked credential stops working, one admin always remains |
| Login rate limiter, `core/auth/rate_limiter.py` | attempt times per client | `check_and_record`, `reset` | at most N attempts per window |
| Observability write queue, `core/observability/write_queue.py` | deque, flusher thread | `enqueue`, `start`, `stop` | what was enqueued is written once |
| Lifecycle, `core/app/lifespan.py` | ordered steps, service container | startup, shutdown | dependants stop before what they use, shutdown ends |
| Alerts, `core/observability/alerts.py` | counters at the last check, firing codes | `evaluate` | each increment is reported once |
| Performance profiling, `core/performance/` | the trace of a request, histograms | `stage`, `observe` | timers belong to their own stage, no division by zero |
| Adaptive sampling, `core/performance/adaptive_sampler.py` | sampling rate, window, escalation deadline | `should_sample`, `record_outcome` | after a bad outcome every request is traced for a while |
| Exporters, dashboard, request logging, resource collectors, remaining routes | none that another part depends on | | |

How they interact. A request passes the authentication middleware and reaches
`QueryService.run`. A SELECT goes through the coordinator: L1, then L2 (service
executor), then `_execute_gated`, which takes a cost semaphore and runs, under a timer, a
database session; the session checks a connection out of the pool and runs the statement
in the database executor. The result fills L1 and a job for L2 is queued. A write skips
the cache, runs the same way and then invalidates L1 and L2. Each request leaves records
in the observability queue, whose thread writes them to the service database. Startup and
shutdown create and close the pool, the executors and the queues.

What is hard. Between two `await`s a task is alone, so the interesting points are the
awaits: a task can be overtaken, time out or be cancelled there, and a cancelled task
leaves its executor thread running. The pool's lock is awaited *while held* in one
place, the eviction of a broken connection, and that makes every other lock statement
of the pool such a point. L2 outlives the process while the index that knows its rows
does not. Most database calls turn an error into `False` or `None`, which the callers
often ignore. Shutdown waits with timeouts for threads it cannot stop. The list `hazards`
in `PROJECT.json` has each of these at its line, with the properties that would notice.

## 2. Modules

```
BoundedPool <.. AsyncPool, SyncPool          (refined by)

                  +--- AsyncPool <--+-- AsyncSession <-- MC_AsyncSession
                  |         ^       |         ^
                  |         |       +---------|------- MC_AsyncPool
AdaptiveSizer <---+  AsyncPoolProofs <-- AsyncSessionProofs
                  |
                  +--- SyncPool <--- ServiceDatabase <-- MC_ServiceDatabase
                           ^                ^
                     SyncPoolProofs <-- ServiceDatabaseProofs

QueryCache <--+-- MC_QueryCache       Accounts <--+-- MC_Accounts
              +-- QueryCacheProofs                +-- AccountsProofs

Executors <-- PersistenceQueue <--+
                                  +-- Lifespan <--+-- MC_Lifespan
                   WriteQueue <---+               +-- LifespanProofs

Clock <-- ApiKeys, RateLimiter,
          CacheAges, Sampling  <-------------+
                                             +-- MC_Parts, PartsProofs
QueryGate, RequestTrace, Histogram,          |
AlertMonitor, ServiceSchema  <---------------+
```

An arrow points to the module that is extended; the dotted one to the module instantiated
under a refinement mapping.

**BoundedPool** is what both pools promise: a connection is idle or lent to one user, one
is created only when none is idle and fewer than `MaxConn` are lent, and only a lent
connection comes back. It has no locks, queues, timers or sizers. Three of its actions are
concessions to the code: `Condemn`, as a broken connection leaves the books before its
close has ended; `Drop` without removal from the books, as a cancelled acquire may leave
its placeholder; and `Adopt`, as a creation in flight at `close_all()` installs itself
afterwards. The mapping is `idle <- available`, `lent <- inUse \cup reserved`,
`holds <- conn`, `open <-` "`close_all()` has not run".

**AdaptiveSizer** is the adaptive limit, whose `Adjust` both pools apply in `Metrics`.

**AsyncPool** models `AsyncConnectionPool` and `AdaptiveSizer`. A key stands for
`id(conn)` and for the placeholder that precedes it; the three books `available`,
`inUse` and `reserved` are the heap and the two kinds of entries of `_in_use`.
`pc[c]` is the await a task is suspended at, and one action is the code from one
await to the next. An uncontended `asyncio.Lock` does not suspend, so each critical
section is one action guarded by a free lock, and `lock` has an owner only during an
eviction. `acquire()` is `BeginAcquire`, `TakeIdle`, `Reserve`, `QueueUp`, `Wakeup`,
`WaitTimeout`, `GiveUp`, `CreateOk`, `CreateFail`, `Unreserve`, `Install`; `release()`
is `BeginRelease`, `ReleaseUnknown`, `ReturnIdle`, `EvictBegin`, `EvictEnd`. The
`Cancel...` actions raise `CancelledError` at each await, with the handler that runs
there: a woken task takes its wakeup with it, a task at the lock of `Install` leaves
its placeholder behind. `Metrics`, `CloseAll`, `CloseDone` and `Warmup` are the
pool-wide operations.

**AsyncSession** extends the pool with what `get_async_session` does with a
connection: statement, classification of the error, rollback, return or discard.
It also has the executor thread that a cancelled task abandons (`orphans`), and the
executor's shutdown. Every step of it is a step of `AsyncPool` or leaves the pool's
variables alone.

**QueryCache** models `QueryService.run` over the coordinator. A result is the version
of every table it was computed from, so "stale" is a comparison with the committed
versions. `ReadLeads`, `L2Lookup`, `L2Hit`, `L2Miss`, `Execute`, `Executed` are a
leader; `ReadFollows` a follower, and `Conclude` the completion of the future they
share. `BeginWrite`, `WriteCommits`, `Invalidate`, `L2Drop`, `L2Clear` are a write
statement, `AbandonWrite` and `OrphanCommits` one whose task timed out, `Restart` the
loss of everything but the warehouse and L2. `overlap` and `unannounced` are history:
they record why a stale entry is one the design admits. Expiry and LRU eviction are
entries that may vanish at any moment; **CacheAges** has them in full.

**SyncPool** models `SyncConnectionPool`. A step is what a thread does between two
acquisitions of the condition's lock, or one call outside of it. `waiters` are the
threads in the condition's queue; a thread at `wait` that is not among them has been
notified and is on its way to the lock. Which sleeper `notify()` takes, and who gets the
lock first, is a choice. `late` are the threads whose deadline has passed. `acquire()` is
`BeginAcquire`, `TakeIdle`, `Reserve`, `Wait`, `Refuse`, `CreateOk`, `CreateFail`,
`Unreserve`, `Install`; `release()` is `BeginRelease`, `ReleaseUnknown`, `ReturnIdle`,
`Evict`.

**ServiceDatabase** extends it with the operations of `ServiceDatabase` and with
SQLite: `tx[k]` is the transaction on connection `k` (none, begun, reading a current or
an old snapshot, or holding the write lock), `failed` the history of connections on which an
`execute()` raised or a rollback failed. An operation's begin, statements, commit and
rollback are actions of their own, each of which may raise.

**Accounts** models users, roles and session tokens: `login_user`, `register_user`,
`update_user_role`, the authentication middleware, and the bootstrap script, over the
users table. A step of a task is one executor job, or the handler's code between two
of them. A token carries the role that the login read and an issue time in whole
seconds. `stale`, `excused` are history: what a request has read, or a token was minted
from, has changed since. `Restart` clears the middleware's memory; tokens live on, as
their key comes from the environment.

**Executors** are the three thread pools as the next modules need them: a call is
queued, runs in a thread, and ends there whether or not somebody still awaits it;
cancelling `run()` withdraws a queued call and abandons a running one (`RunsCancelled`);
a pool that is shut down refuses new calls and finishes the others.

**PersistenceQueue** models `CachePersistenceQueue`: `SubmitJob` with its two refusals,
`TakeJob` and `JobEnds` of the workers, and `stop()` as `BeginStop`, `Drained` or
`DrainTimeout`; both of the latter cancel the workers with what they have in hand.
`outcome` says what became of each job.

**WriteQueue** models `ObservabilityWriteQueue`: the flush thread (`CheckStop`, `Wake`)
and `stop()` (`StopFlusher`, `JoinReturns`) share `TakeRecord`, `EndDrain` and `Flush`,
since `stop()` drains from its own thread when the join has timed out. `WriteRecord`
computes which rows a record can leave, four writes that fail independently. `written`
and `lost` are history.

**Lifespan** composes the three with `ApplicationLifespan`: five steps started in order
in either mode, `StepFails` at any of them, requests that record and persist, a sampler
that may crash, and the reverse shutdown, split wherever it waits (`ClosePersistence`,
`StopFlushing`, `Disconnect`, `ShutPool`, `CloseExecutors`, `CloseWarehouse`,
`ClosePerformance`, `EndShutdown`).

**Clock** is a bounded clock for the modules in which durations are compared.

**ApiKeys** models the creation, revocation, deletion and validation of API keys, with
the cache that each process keeps. A handler's await of the executor splits it, so that a
lookup (`BeginValidate`, `Looked`, `CacheValidated`) can be overtaken by a removal
(`BeginRemove`, `Removed`, `Evicted`). Every statement may fail, which the code does not
tell from success.

**RateLimiter** models the sliding window with the login and the registration routes;
`granted` is the history of allowed attempts since the last `reset()`.

**CacheAges** models how long entries live: the LRU and the TTL half of the hybrid L1
cache with their different evictions, and L2's `expires_at`. An entry of `lru` remembers,
for `HitAge` only, until when L2 would have served it and how long its leader took to
resume.

**QueryGate** models `POST /api/query`: the classification of a statement, abstracted to
five features that the regular expressions see, the scopes, `asyncio.Semaphore` as
CPython implements it (external: a woken waiter has been handed its permit, and one that
is cancelled passes it on), the timer, and the cut of the result.

**RequestTrace** models the trace of one request, whose active node is moved by the task
and by every executor thread that carries its context. The tree has no lock, so
`start()`, `finish()` and `complete()` are split where the other thread can come between:
`StartStage`, `Attach`, `Activate`; `FinishStage`, `TakeActive`, `FinishNode`,
`ResumeParent`; `RequestEnds`, `FinishAll`, `Complete`. `call` says where each actor is
and what it has read. The timer is recorded with `ResumeParent`, as no step reads the
timers. `overlapped` is history: two calls on the tree have been under way at once.

**Histogram** models the bucket counts and the marker positions of the P² estimate, in
integers of 1/(2·`QDen`); heights are left out, so a value may fall into any cell.

**AlertMonitor** models `evaluate()`: thresholds, counter deltas against the previous
check, and logging at the edges.

**ServiceSchema** models `create_tables()` and `initialize_admin_user()` of the server
and the bootstrap script as two processes on one file that may die between any two
statements.

**Sampling** models the adaptive sampler between the two calls that the profiling
middleware makes for each request; `lastBad` is history. Rates are whole percentages.

**MC_Parts** puts the last nine side by side. They share no state, so a variable `part`
picks the one a behaviour exercises and the others stand still: the state space is the
sum of theirs, not the product.

The definitions whose comment begins with "Mutant of the next action" (or operator) are
plausible mistakes. No specification uses them; each, put in the place of the definition
it precedes, violates the property `PROJECT.json` names, which shows that the property
depends on that code.

Left out of these modules: statistics counters, the heap order of `_available` (a
choice), the sizer's rolling wait average (a nondeterministic pressure signal), the
times themselves where no clock is mentioned (a timer may fire at any moment its wait is
pending), the rows, and the text of statements.

## 3. Runs

| Run | Question | Instance |
|---|---|---|
| `pool` | Does the pool stay within `max_conn`, hand each connection to one task, never pool a closed one, keep every slot and waiter accounted for, never leave a connection idle beside a sleeping waiter, and so implement `BoundedPool`? | 3 tasks, limit 1..2, 2 cancellations, one shutdown; 916 thousand states up to symmetry |
| `session` | Over real sessions: are broken and dirty connections kept out, do every acquire and every session end? | 2 tasks, 1 connection, 1 cancellation; 116 thousand states |
| `cache` | After any interleaving of reads, writes, cancellations, failed deletes and restarts, is every stale entry one the design admits? Is there one leader per key, and does every request end? | 2 callers; two SELECTs that share a table, one read by one caller and both by the other, who also makes 1 write of both tables, or one SELECT over two tables and 2 writes; 250 thousand states |
| `service_db` | Is the synchronous pool bounded and exclusive, does no thread sleep beside an idle connection, which transactions stay open on pooled connections, does every operation end, do the pool and the composition implement `BoundedPool` and the pool? | 2 threads, 1..2 connections, one `disconnect()` |
| `accounts` | How long does a role that was taken away go on being honored, from the cache and from tokens? What does the last-admin guard guarantee? | 2 users, 2 requests, 1 token, 2 clock readings; 2.5 million states up to symmetry |
| `server` | What still runs, or is unwritten, after a shutdown, also one that raised, and does every shutdown end? | both modes; 2 records and 1 cache write, or 1 record and 2 cache writes, 1 warehouse query, one thread per pool, 1 worker, a queue of 1; 403 thousand states |
| `parts` | The nine components of `MC_Parts`: how long is a revoked key accepted, how many attempts pass in a window, how old do cached results get, are permits, result limits, timers, markers, alert deltas, the schema and the escalation of sampling right? | below; 1.3 million states |
| `service_db_lock` | counterexample to a comment of `ServiceDatabase` | as `service_db` |
| `last_admin` | counterexample to a comment of `update_user_role()` | 2 users, 2 requests |
| `pool_leak` | counterexample to a comment of `acquire()` | 2 tasks, 1 cancellation |
| `session_shared` | counterexample to a sentence of `docs/Architecture.md` | 2 tasks, 1 cancellation |
| `cache_follower` | counterexample to the coordinator's docstring | 2 callers |

Why the bounds are enough. Two connections and three tasks give a holder, a second
holder and a waiter, so that the limit is reached, a wakeup can be overtaken by a
newcomer, and the sizer can shrink below what is in use. Two cancellations are needed
for the one inside the cancellation handler (`CancelCleanup`). `NumConns` counts the
keys alive at a time: `MaxConn` in the books, one per task after a `close_all`, so five
for three tasks never run out. `Cooldown` of 2 separates the first idle check from the
second; the code's larger constant only lengthens the streak. In the session model one
connection already makes its two users meet, and `Cooldown = 1` keeps the liveness
graph small. In `QueryCache` a SELECT over one table and one over both, and writes of
one and of both, give partial overlap of tags; a second write meets what the first one's
invalidation left; one pending L2 job is enough for it to run after an invalidation. Two
keys, two callers and two writes together (8.5 million states) were explored once with
the same result, and are too slow for a routine run. In the service database the limit
starts at one, so two threads give a holder and a sleeper, and grows to two, so that one
can hold the write lock against the other; three threads (1.2 million states) were
explored once for safety, with the same result. In `Accounts` two admins and two requests
are the least with which two demotions overlap, or a demotion overtakes a login or a
lookup; a token of each issue time comes before, in and after the second of a role change.

In `server` the second cache write fills the queue while the first is in a worker's hand,
or is dropped; `MaxBatch = 1` makes the two records two batches, so that `stop()` can
drain one while the thread still flushes the other; with one thread per pool a call can
be queued behind a running one when it is withdrawn. The two queues meet only in the order
of the shutdown, so not both are given two items; all four together (792 thousand states)
were explored once with the same result.

In `parts`: one key and two handlers, so that a lookup and a removal overlap, with
`KeyTTL = 2` in a clock of `MaxTime = 6`, three lifetimes; one caller, two attempts and a
window of 2, so that attempts on both ends of a window occur; two cache keys over
`L1Size = 1`, so that each put evicts; three queries, one permit for two classes and two
for the third, so that a cancelled waiter has somebody behind it; rows of sizes 1 and 3
under `MaxRows = 2` and `MaxBytes = 4` in answers of up to `MaxLen = 3` rows, so that either
limit cuts first; two threads and
six nodes (root, dispatch, four more), so that the stages of two abandoned calls come
between the request's; once two calls on the tree have overlapped, four nodes and one call
of `run()` (`TraceScope`), as then only the shape of the tree is claimed; eleven observations of the 0.9-quantile, the first five of
which only fill the markers, with at most `MaxTotal = 2` increments of a counter between
and after health checks; two names and two addresses, so that either may collide;
two requests, rates from 40 to 100 and an escalation of 3 over windows of 2, so that an
adjustment falls into an escalation.

All bounds are named constants: `NumConns`, `MaxCancels`, `MaxWrites`, `MaxJobs`,
`MaxTime`, `MaxTokens`, `MaxRecords`, `MaxNodes`, `MaxCount`, `MaxTotal`, `MaxSampled`,
`MaxLen`. (`MaxConn`, `MaxBatch`, `MaxRows`, `MaxBytes`, `L1Size`, `MaxAttempts`, `Window` and the lifetimes are
parameters of the code. In `QueryGate` a request's identity is used again only when its
abandoned statement has ended.)

Symmetry is over tasks only, and only in runs without liveness properties. Deadlock is
checked in every run but two: a server that has shut down or failed to start stops, and in
`parts` clocks and counters reach their bounds.

Fairness. In `FairSpec` and `SessionFairSpec` each task's progress inside the pool is
strongly fair: the event loop runs every ready task, timers fire, executor jobs return
or raise, and `asyncio.Lock` serves its queue in order, so a task at the lock is not
overtaken for ever by evictions. A statement on a held connection is weakly fair: it
returns, or the query timer cancels its task. Nothing is assumed about when tasks start
work, about cancellation, resizing or shutdown. In `QueryCache` a task's progress is
weakly fair for the same reasons. `DbFairSpec` has weak fairness for each thread's next
step, for deadlines and for a driver's call: the operating system schedules the threads,
the lock of the condition is held for bookkeeping and a close only, and SQLite's busy
timeout bounds a call. `LifeSpec` has weak fairness for the shutdown's own steps, for each
thread of a pool and for the flush thread: the event loop and the threads run, a driver's
call ends, and the timeouts of both `stop()`s pass; nothing is assumed of the workers or
of the sampler. `Accounts` and the parts claim no liveness. `AcquireEnds` states its
exception: tasks that start new acquires for ever may overtake a woken task, which then
queues again with a fresh timeout (`async_pool.py:124`).

### Disagreements between the code and what it says

Five have a run that shows the behaviour:

* `pool_leak`: `acquire()` gives its reserved slot back if the creation fails or is
  cancelled, but not if the task is cancelled at the lock statement that follows
  (`async_pool.py:141`), nor at the lock inside the handler. The comment at line 132
  promises that a cancelled acquire never shrinks the capacity.
* `session_shared`: a timed-out query returns its connection as healthy while the
  executor thread still runs on it, and the next session's statement joins it there
  (`session.py:463`), where `docs/Architecture.md` promises that live connections are
  not shared.
* `cache_follower`: followers await the shared future without a shield
  (`query_cache_coordinator.py:145`); cancelling one cancels it for all.
* `service_db_lock`: `execute()` does not roll back when a statement raises
  (`service_db.py:241`), although SQLite's transaction has begun, and the connection goes
  back to the pool with the write lock held, or with a snapshot that ages. The comment at
  line 74 expects write locks to be brief. `IdleUnlessFailed` and `FreshUnlessFailed` say
  that this, and a rollback that fails, are the only ways. It also concerns the modules
  whose tables these are; section 5 says what it takes from them.
* `last_admin`: the guard of `update_user_role()` and the update it guards are two
  executor jobs (`auth.py:553`, `auth.py:565`), so two concurrent demotions can leave no
  admin, which the comment at line 549 says is refused. `LastAdminKept` says that without
  such an overlap the guard suffices.

Others are visible in the models without a run of their own.

Pools and sessions:

* `SQLiteAdapter` has no `close()`, so `SyncConnectionPool.close_all()`
  (`sync_pool.py:176`) closes nothing that is still referenced.
* A failed creation gives its slot back without waking a waiter, in both pools
  (`async_pool.py:131`, `sync_pool.py:111`): the waiter may sit out its timeout beside a
  free slot.
* `_safe_rollback` (`session.py:117`) swallows a failed rollback, so the branch that
  would condemn the connection (`session.py:456`) is reached only when the executor
  refuses the job. `IdleIsCleanUnlessSwallowed` has the exception in its hypothesis.
* The pool's docstring says that the lock covers bookkeeping only; `release(broken=True)`
  awaits the close under it (`async_pool.py:203`). `SlotsAccounted` and `WaitersAlive`
  are stated for behaviours in which no such release happened.
* A wakeup can go to a waiter that has just given up (`async_pool.py:33` says it never
  does); `IdleReachesWaiter` excludes that case with `dropped`.
* `close_all()` does not call off creations in flight: they install afterwards, and
  `CapacityBound` and the slot count hold only until then (`BoundedPool`'s `Adopt`).

Queries and caches:

* A result looked up before a write can enter L1 or L2 after the write's invalidation,
  where it stays until it expires (`overlapped` in `NoUnexplainedStale`).
* `extract_tables` misses the second table of `FROM a, b` and takes the schema for the
  table in `FROM s.t`, although its docstring (`sql_policy.py:103`) wants an uncertain
  result to end in a full clear; `NoUnexplainedStale` is about statements it reads
  completely.
* An L2 hit enters L1 with a full TTL, so L1 serves what L2 already considers stale,
  which the comment at `query_cache_coordinator.py:48` excludes. `HitAge` has the bound
  that does hold.
* The semaphores of `query_limits.py` bound requests, not statements: a timed-out request
  gives its permit back while its statement runs on (`query_service.py:156`).
* A thread abandoned by its request goes on moving the request's active trace node, without
  a lock. A stage it closes may be the request's, so timers carry another stage's name or
  duration (`request_profiler.py:210`). A node that one thread starts between
  `node.finish()` and `self.current = node.parent` of the other (`trace.py:120`) is
  forgotten, and one started past the check of `_completed` (`request_profiler.py:204`)
  while `complete()` runs is too late: neither ever gets a duration, although `complete()`
  is to finish "any still-open stages" (line 280). `complete()` itself may find the active
  node gone and raise `TraceStateError` out of the middleware's `finally`
  (`fastapi.py:143`). `TimersAreTheirOwn` claims each of its parts only where this cannot
  happen: before a running call is abandoned, or while no two calls have overlapped.

Accounts and keys:

* A lookup in flight while a role changes caches the old role after the eviction
  (`middleware.py:161`), and a login in flight mints a token that the revocation does not
  reach (`auth.py:429`): the exceptions in `CachedAdminExplained` and
  `AdminTokenExplained`.
* A token minted in the second of a role change, but after it, is refused although it
  does not "predate" the change (`middleware.py:198`). Revocations are lost by a restart
  (`middleware.py:45`), tokens are not.
* The comment at `api_key_service.py:46` calls a redundant lookup the worst case of a race
  on the key cache; a lookup that a revocation overtakes caches the revoked key, which is
  then accepted until the entry expires. `CachedKeyExpires` bounds that by one lifetime.
* Creating, revoking and deleting a key report success, and the bootstrap script prints a
  key, although the statement failed: the `False` of `ServiceDatabase` is not looked at.
* `initialize_admin_user()` fails every startup while another account has the address
  `INITIAL_ADMIN_EMAIL`, and creates nobody when a viewer has taken the name.
* `bootstrap_admin.py:175` says that the middleware never checks a login's JWT; it accepts
  one (`middleware.py:183`).

Lifecycle:

* In synchronous mode `asyncio.run()` always raises, as `lifespan_context()` has a running
  loop, and the persistence queue is not drained; the comment at `lifespan.py:427` calls
  that a case that should not happen.
* The data warehouse step's shutdown only logs (`lifespan.py:149`): the pool's connections
  stay open, against the order described at line 529.
* When the drain times out, the abandoned call goes on in its thread and may write to the
  service database after `disconnect()`, which connects again.
* A sampler that crashed makes `CollectorScheduler.stop()` raise, and the shutdown ends
  there: the export loop is not cancelled and the container not cleared
  (`lifespan.py:605`).
* `_active` of an executor counts awaiting coroutines, so abandoned threads are missing
  (`executors.py:100`).
* Of the four writes of an observability record only `end_trace`'s SELECT is not guarded
  (`request_tracer.py:120`); its error drops the audit row of the record.

## 4. Proofs

Each theorem holds for every value of the constants that its module's assumptions admit:
any sets of tasks, threads, keys, queries or users, and any bounds. A safety property of
a run is proved the same way each time. The property itself is seldom kept by every step,
so the module states a stronger invariant next to it (named `...Inv`, the conjunction of
named parts); TLC checked that one on the run first; the proof shows that it holds
initially, that each action keeps it (one step per action), and that the property
follows. Facts about sequences, counting and the models' own operators that several steps
need are lemmas.

| Module | Theorem | States |
|---|---|---|
| `AsyncPoolProofs` | `PoolInvariant`, `QueueInvariant` | `[]PoolInv`, `[]QueueInv` |
| | `PoolTypes`, `PoolCapacity`, `PoolExclusive`, `PoolClosedNeverIdle` | `TypeOK`, `CapacityBound`, `ExclusiveUse`, `ClosedNeverIdle` |
| | `PoolSlotsAccounted`, `PoolWaitersAlive`, `PoolIdleReachesWaiter` | `SlotsAccounted`, `WaitersAlive`, `IdleReachesWaiter` |
| | `RefinesBoundedPool` | `Spec => ImplementsBoundedPool` |
| `AsyncSessionProofs` | `SessionsUseThePool`, `SessionsRefineBoundedPool` | `SessionSpec => Spec` and so `BoundedPool` |
| | `SessionInvariant`, `BrokenStaysOut`, `IdleIsClean` | `SessionInv`, `BrokenNeverReused`, `IdleIsCleanUnlessSwallowed` |
| `SyncPoolProofs` | `SyncInvariant`, `SyncCapacity`, `SyncExclusive`, `SyncNoLostWakeup` | `SyncInv`, `CapacityBound`, `ExclusiveUse`, `NoLostWakeup` |
| | `SyncRefinesBoundedPool` | `Spec => ImplementsBoundedPool` |
| `ServiceDatabaseProofs` | `ImplementsPool`, `DbIdleUnlessFailed`, `DbFreshUnlessFailed` | `DbSpec => Spec`, `IdleUnlessFailed`, `FreshUnlessFailed` |
| `QueryCacheProofs` | `OneLeaderPerKey`, `StaleIsExplained` | `FlightsOwned`, `NoUnexplainedStale` |
| `AccountsProofs` | `AccountsInvariant`, `CachedAdmins`, `AdminTokens`, `LastAdminGuarded`, `RevocationsLast` | `AccountsInv`, `CachedAdminExplained`, `AdminTokenExplained`, `LastAdminKept`, `RefusedForGood` |
| `LifespanProofs` | `ServerInvariant`, `EachRecordOnce`, `RecordsAreKept`, `FlushThenClose`, `CacheWritesThenClose`, `ShutdownIsQuiet` | `ServerInv`, `RecordsOnce`, `RecordsSettle`, `FlushedBeforeClose`, `CacheWritesBeforeClose`, `QuietAfterShutdown` |
| `PartsProofs` | `KeyExpires`, `WindowIsBounded`, `AgeIsBounded`, `GateKeepsPermits`, `AnswersArePrefixes`, `TimersStayOwn`, `MarkersNeverMeet`, `AlertsAreExact`, `StartsComplete`, `EscalationIsHeld` | `CachedKeyExpires`, `WindowBound`, `HitAge`, `GateNeverShrinks`, `LimitsArePrefix`, `TimersAreTheirOwn`, `MarkersApart`, `AlertsReportOnce`, `StartedOnFullSchema`, `EscalationHolds` |

What the strengthenings add, and why they are needed:

* **Async pool.** Counting the connections needs the three books to be disjoint
  (`BooksDisjoint`), or moving a key from one to another could change the sum. That they
  stay disjoint needs to know which tasks have a key and where that key is: a creation in
  flight has its key in `reserved` and nowhere else until `close_all()` (`KeysOwned`), or
  `Install` could register a connection that is idle. A closed connection stays out of
  `available` because only its last holder still knows it and it is no longer in `inUse`,
  so `release()` finds no entry (`ClosedHeld`). `QueueInv` adds the waiter list: every
  entry belongs to a task that still waits, once only (`WaitersOwned`); without an
  eviction nobody is ever stopped at the lock (`Uncontended`), which is what makes
  `SlotsAccounted` and `WaitersAlive` true; and idle connections never outnumber the tasks
  on their way to one (`IdleCovered`), a count where `IdleReachesWaiter` asks for one
  task. The weaker statement is not inductive: two idle connections and one woken task,
  which takes one of them, leave the other beside the sleepers.
* **Sessions.** A step of a session is a step of the pool or leaves the pool's variables
  alone (`SessionsUseThePool`), so the pool's invariants are at hand. On top of them, a
  condemned connection is with a task at its eviction or with nobody (`CondemnedOut`), and
  a dirty one is there or under its rollback (`FailedOut`).
* **Refinement.** `RefinesBoundedPool` and `SyncRefinesBoundedPool` map each action to one
  of `BoundedPool`'s or to a stutter (`...RefinesStep`). The invariants carry the argument: that
  `TakeIdle` takes an idle key, that `Reserve` creates below `MaxConn`, and that
  `release()` gives back what its task was lent. `close_all()` empties the books while
  tasks still hold keys, so what they give back later is a stutter.
* **Synchronous pool.** A `release()` that adds a connection also notifies a sleeper that
  was not notified before, a thread that takes a connection uses up at most its own
  wakeup, and nobody reserves, goes to sleep or gives up while a connection is idle. The
  proof compares cardinalities before and after each action (`WakeupStep`).
* **Service database.** On a connection without a recorded failure a transaction is open
  only while a thread that holds it is inside an operation (`Accounted`).
* **Query cache.** `FlightsOwned` is inductive with the types. `NoUnexplainedStale` follows a
  result to wherever it can be: a leader's hand (`ValuesExplained`), a queued job
  (`JobsExplained`), L1 and L2. It needs that a lookup that meets an unsettled write is
  marked (`LookupsMarked`), and that L1's reverse index lists every statement L1 holds
  (`Indexed`), or `invalidate_tables()` would miss one. L1's part is stricter than L2's:
  once `Invalidate` has run, a write that is still deleting from L2 explains nothing in L1,
  and otherwise a leader could copy the difference over.
* **Accounts.** What a request has read of a row is marked once the row changes
  (`ReadsMarked`); a demotion that nobody has overtaken takes the admin role only while
  another user has it (`DemotionsChecked`); every token is older than now
  (`IssuedBefore`), so revoking catches all of them, the one minted in the same second
  included.
* **Lifecycle.** Records are counted by pairwise disjoint places, each of which holds a
  record once (`PlacesApart`, `HeldOnce`); the sum in `RecordsOnce` is their cardinality.
  `ServerInv` says for each closed step what it has left (`PoolsClosed`, `FlusherClosed`,
  `PersistenceClosed`, `PerformanceClosed`), with the order of the steps
  (`PhasesInOrder`) and the accounts of the persistence queue (`PersistInv`): a pending
  job is in the queue or in a worker's hand, and a background call is in a worker's hand,
  as long as `stop()` has not cancelled the workers.
* **API keys.** The cache may take a key after its eviction, so the proof bounds by when:
  what a lookup found was valid when it began (`FoundAlive`), and the entry's life is
  counted from there (`CachedAlive`).
* **Rate limiter.** A bucket is the rest of the granted attempts after those before the
  cutoff (`BucketIsRest`), both in the order of time. An attempt is allowed when fewer
  than `MaxAttempts` are left, so the one `MaxAttempts` back has been popped.
* **Cache lifetimes.** What L2 gave out was alive when it was read (`ReadAlive`), and that
  is kept by everything the LRU half does to its order.
* **Query gate.** A class's queue holds exactly its requests that wait or have been woken,
  each once (`QueuesHoldWaiters`); `WakeKeepsClass` then shows that `release()` and
  `_wake_up_next()` conserve the sum of permits and holders.
* **Result limits.** The loop of `_apply_result_limits()` is a recursive function over the
  rows; its loop invariant (`Kept`) says that what it has taken is the longest prefix of the
  rows seen that fits, and that it has stopped exactly when that is not all of them.
* **Trace.** As long as no two calls on the tree have overlapped (`Serial`), what a call has
  read still holds, so the nodes without a duration are the lineage of the node that is
  active after it (`Successor`); a node starts after its parent, so finishing it takes
  exactly one node from that lineage. Until a running call is abandoned, one call of `run()`
  is awaited at a time and nobody else is in the tree (`OneCall`), hence no overlap; the open
  scopes are then a path to the active node (`OnePath`), so that the innermost scope always
  ends the active node and each node it ends has its timer (`Timed`). The theorem is about
  nothing beyond these two hypotheses.
* **Histogram, alerts, schema, sampling.** The five first observations are the markers
  themselves (`MarkersInv`), and afterwards a nudge needs a gap of two; nothing is told of
  a counter before it is first seen (`UnseenUntold`); a process at statement *i* has made
  the first *i* objects, and nothing is ever dropped (`CreatedSoFar`); the last bad outcome
  decides until when the full rate holds (`EscalatedByLast`).

The assumptions are on the constants alone, each named in the module that declares them.
`Clients`, `Threads`, `Tasks` and `Queries` are finite where a proof counts them, as a process
has finitely many tasks and threads; `MinConn <= MaxConn <= NumConns`; `Cooldown`, the
lifetimes, the window and the limits are positive; sentinels differ from the values they
stand among; the jobs of the persistence queue are the background pool's calls and there is
at least one worker; the texts a client may send are a nonempty set and the sizes of rows
are naturals. None restricts what
the code may be configured with beyond what it requires itself.

Induction. The library's induction theorems take a predicate as a parameter, which the
provers here cannot instantiate. Two recursions are reasoned about all the same
(`Recursion`, the cut of an answer, the lineage of a node): the numbers at which a claim
fails are a set of naturals, which has a least element (`LeastElement`), and the least one
contradicts the step. For that both are written as recursive functions.

Only model-checked are the liveness properties (`AcquireEnds`, `SessionEnds`,
`RequestsEnd`, `OperationsEnd`, `ShutdownEnds`): the prover has no rule for fairness or
`ENABLED`. The five runs that expect a violation show counterexamples, which are not
theorems.

## 5. Not modelled

* The fault of `service_db_lock` is in `ServiceDatabase` alone. `Accounts`, `ApiKeys` and
  the L2 lookup of `QueryCache` take what they read from the service
  database as fresh, and a call that failed as having changed nothing. With a connection
  left in a transaction neither is certain: a later read on it may see an aged snapshot,
  and an update whose commit failed may be committed by the next user. So where
  `NoUnexplainedStale`, `CachedAdminExplained`, `AdminTokenExplained`, `LastAdminKept`
  and `CachedKeyExpires` name the only ways for something old to be served or
  honored, or for the last admin to go, this fault is one more, which they leave out by
  assumption.
* That adaptive sampling meets its target volume is a statement about probabilities.
* Exporters, the dashboard, request logging and the read-only routes format or list, and
  keep no state another part depends on; so do the registry's ring of profiles and the
  aggregator. The collectors' loop is in `Lifespan`, what they measure is not.
* The synchronous session, the instrumented transactions and `delete_user()` have no
  caller.
* Row conversion in the adapters, password hashing, listings and the text of audit entries
  are computations without a state; of `sql_policy.py` the matching itself.
* `configure_executors()` and the sizing from the CPU count run once, before any use.

## 6. Plan

Every safety property that a run checks is a theorem. Two action properties are theorems
without a standing run, having been explored once on the instances of `accounts` and
`server`: `RefusedForGood` and `RecordsSettle`. Others worth stating are that the
persistence queue never gives a settled job another outcome, and that the sampler's rate
moves only at the end of its window.
