------------------------------- MODULE Lifespan -------------------------------
(***************************************************************************)
(* ApplicationLifespan (core/app/lifespan.py) as run_api.py drives it: the *)
(* five lifecycle steps started in order and shut down in reverse, over    *)
(* the executors, the cache persistence queue and the observability write  *)
(* queue they own, while requests use them.                                *)
(*                                                                         *)
(* A step of startup or shutdown that waits is split where it waits; the   *)
(* event loop is blocked while the executors are shut down.  uvicorn       *)
(* begins the shutdown when no request is left.                            *)
(***************************************************************************)
EXTENDS PersistenceQueue, WriteQueue

VARIABLES
  mode,         \* "async" as in run_api.py, or "sync", the default
  phase,        \* of the lifespan
  started,      \* how many steps have started, in order
  closing,      \* how many of them shutdown has yet to shut down
  sampler,      \* the CollectorScheduler's task: none, running, crashed or ended
  exporter,     \* the OpenTelemetry export task
  warehouse,    \* the DuckDB pool
  serviceDb,    \* the service database
  container     \* steps whose services the DependencyContainer lists

lifeVars == <<mode, phase, started, closing, sampler, exporter, warehouse, serviceDb, container>>
resourceVars == <<sampler, exporter, warehouse, serviceDb>>
serverVars == <<execVars, persistVars, queueVars, lifeVars>>

Steps ==
  <<"performance", "data_warehouse", "executors", "service_database", "persistence_queue">>

\* The phases: starting, serving, stopping, stopped; failed, when startup raised and
\* what has started keeps running until the process exits; aborted, when shutdown raised.
LifeInit ==
  /\ ExecInit /\ PersistInit /\ QueueInit
  /\ mode \in {"sync", "async"} /\ phase = "starting"
  /\ started = 0 /\ closing = 0
  /\ sampler = "none" /\ exporter = "none"
  /\ warehouse = "none" /\ serviceDb = "none"
  /\ container = {}

----------------------------------------------------------------------------
(* Startup *)

Starting(s) == phase = "starting" /\ started < Len(Steps) /\ Steps[started + 1] = s

\* DependencyContainer.register(), of each service that the step returns.
Register(s) == container' = container \cup {s}

\* _register(), then the step joins _started_steps.
Started ==
  /\ Register(Steps[started + 1])
  /\ started' = started + 1
  /\ UNCHANGED <<mode, phase, closing>>

\* Both loops are optional, and need the event loop of the asynchronous mode.
StartPerformance ==
  /\ Starting("performance")
  /\ sampler' \in {"none", "running"} /\ exporter' \in {"none", "running"}
  /\ mode = "sync" => sampler' = "none" /\ exporter' = "none"
  /\ Started
  /\ UNCHANGED <<warehouse, serviceDb, execVars, persistVars, queueVars>>

\* run_api.py configures both databases.
StartWarehouse ==
  /\ Starting("data_warehouse")
  /\ warehouse' = "open"
  /\ Started
  /\ UNCHANGED <<sampler, exporter, serviceDb, execVars, persistVars, queueVars>>

StartExecutors ==
  /\ Starting("executors")
  /\ Started
  /\ UNCHANGED <<resourceVars, execVars, persistVars, queueVars>>

\* Connects, creates the tables and starts the flush thread.
StartServiceDb ==
  /\ Starting("service_database")
  /\ serviceDb' = "open" /\ StartFlusher
  /\ Started
  /\ UNCHANGED <<sampler, exporter, warehouse, execVars, persistVars>>

StartPersistence ==
  /\ Starting("persistence_queue")
  /\ StartWorkers
  /\ Started
  /\ UNCHANGED <<resourceVars, execVars, queueVars>>

\* A step raises, some of its work done: the sampler runs when the export interval
\* turns out not to be a number, the service database is connected when a table
\* cannot be created.
StepFails ==
  /\ \/ Starting("performance") /\ sampler' \in {"none", "running"} /\ mode = "async"
        /\ UNCHANGED serviceDb
     \/ Starting("data_warehouse") /\ UNCHANGED <<sampler, serviceDb>>
     \/ Starting("service_database") /\ serviceDb' \in {"none", "open"}
        /\ UNCHANGED sampler
  /\ phase' = "failed"
  /\ UNCHANGED <<mode, started, closing, exporter, warehouse, container,
                 execVars, persistVars, queueVars>>

\* run_api.py's lifespan() warms the pool up before it yields; a connection that
\* cannot be created raises there.
Serve ==
  /\ phase = "starting" /\ started = Len(Steps)
  /\ phase' \in {"serving", "failed"}
  /\ UNCHANGED <<mode, started, closing, resourceVars, container,
                 execVars, persistVars, queueVars>>

----------------------------------------------------------------------------
(* Requests, and the sampling loop *)

\* The observability middleware, once the response is there.
RequestRecorded ==
  /\ phase = "serving" /\ serviceDb = "open"
  /\ Emit
  /\ UNCHANGED <<lifeVars, execVars, persistVars>>

\* QueryCacheCoordinator: routes run only in asynchronous mode.
ResultPersisted(j) ==
  /\ phase = "serving" /\ mode = "async"
  /\ SubmitJob(j)
  /\ UNCHANGED <<lifeVars, queueVars>>

RequestCalls == Calls \ Jobs

\* A call may outlast the request that awaited it.
RequestCall(c) ==
  /\ phase = "serving" /\ mode = "async"
  /\ \/ Run(c)
     \/ c \in awaited /\ (RunReturns(c) \/ RunsCancelled({c}))
  /\ UNCHANGED <<lifeVars, persistVars, queueVars>>

\* The event loop runs nothing else while ExecutorsStep waits for the threads.
LoopBlocked == phase = "stopping" /\ closing = 3

\* A collector raises: _run() has no handler, and nobody awaits the task yet.
SamplerCrashes ==
  /\ phase \in {"starting", "serving", "stopping"} /\ ~LoopBlocked
  /\ sampler = "running"
  /\ sampler' = "crashed"
  /\ UNCHANGED <<mode, phase, started, closing, exporter, warehouse, serviceDb, container,
                 execVars, persistVars, queueVars>>

Work(w) ==
  /\ ~LoopBlocked
  /\ TakeJob(w) \/ JobEnds(w)
  /\ UNCHANGED <<lifeVars, queueVars>>

Thread(c) == ThreadStep(c) /\ UNCHANGED <<lifeVars, persistVars, queueVars>>

FlushStep == FlusherStep /\ UNCHANGED <<lifeVars, execVars, persistVars>>

----------------------------------------------------------------------------
(* Shutdown *)

BeginShutdown ==
  /\ phase = "serving" /\ awaited \cap RequestCalls = {}
  /\ phase' = "stopping" /\ closing' = started
  /\ UNCHANGED <<mode, started, resourceVars, container, execVars, persistVars, queueVars>>

Closing(s) == phase = "stopping" /\ closing > 0 /\ Steps[closing] = s

Closed == closing' = closing - 1 /\ UNCHANGED <<mode, phase, started, container>>

ClosePersistence ==
  /\ Closing("persistence_queue") /\ mode = "async"
  /\ \/ /\ BeginStop \/ Drained \/ DrainTimeout
        /\ UNCHANGED lifeVars
     \/ /\ stopping \in {"done", "overdue"}
        /\ Closed
        /\ UNCHANGED <<resourceVars, execVars, persistVars>>
  /\ UNCHANGED queueVars

\* asyncio.run() inside lifespan_context()'s loop raises, and that is swallowed.
ClosePersistenceSync ==
  /\ Closing("persistence_queue") /\ mode = "sync"
  /\ Closed
  /\ UNCHANGED <<resourceVars, execVars, persistVars, queueVars>>

StopFlushing ==
  /\ Closing("service_database")
  /\ StopFlusher
  /\ UNCHANGED <<lifeVars, execVars, persistVars>>

\* disconnect(), once stop() has returned.
Disconnect ==
  /\ Closing("service_database") /\ flusher["stop"] = "done"
  /\ serviceDb' = "closed"
  /\ Closed
  /\ UNCHANGED <<sampler, exporter, warehouse, execVars, persistVars, queueVars>>

\* shutdown_all_executors(): one pool after the other, each awaited.
PoolOrder == <<"db", "service", "background">>

\* Mutant of the next action: a pool is waited for before it is told to shut down.
ShutPoolOffByOne(i) ==
  /\ Closing("executors") /\ PoolOrder[i] \notin down
  /\ \A k \in 1..i : Quiescent(PoolOrder[k])
  /\ Shut(PoolOrder[i])
  /\ UNCHANGED <<lifeVars, persistVars, queueVars>>

ShutPool(i) ==
  /\ Closing("executors") /\ PoolOrder[i] \notin down
  /\ \A k \in 1..(i - 1) : Quiescent(PoolOrder[k])
  /\ Shut(PoolOrder[i])
  /\ UNCHANGED <<lifeVars, persistVars, queueVars>>

CloseExecutors ==
  /\ Closing("executors") /\ \A p \in Pools : Quiescent(p)
  /\ Closed
  /\ UNCHANGED <<resourceVars, execVars, persistVars, queueVars>>

\* Only logs: the pool and its connections stay open.
CloseWarehouse ==
  /\ Closing("data_warehouse")
  /\ Closed
  /\ UNCHANGED <<resourceVars, execVars, persistVars, queueVars>>

\* Mutant of the next action: the crashed sampler's exception is swallowed, but the
\* export loop is not reached either.
ClosePerformanceSamplerOnly ==
  /\ Closing("performance")
  /\ sampler' = IF sampler = "none" THEN "none" ELSE "ended"
  /\ Closed
  /\ UNCHANGED <<exporter, warehouse, serviceDb, execVars, persistVars, queueVars>>

\* CollectorScheduler.stop(), unless it raises.
SamplerStops == sampler' = IF sampler = "running" THEN "ended" ELSE sampler

\* stop() suppresses only CancelledError: a sampler that crashed raises here, the
\* export loop is not cancelled and the container not cleared.
ClosePerformance ==
  /\ Closing("performance")
  /\ IF sampler = "crashed"
       THEN /\ phase' = "aborted"
            /\ UNCHANGED <<mode, started, closing, container, resourceVars>>
       ELSE /\ SamplerStops
            /\ exporter' = IF exporter = "running" THEN "ended" ELSE exporter
            /\ Closed
            /\ UNCHANGED <<warehouse, serviceDb>>
  /\ UNCHANGED <<execVars, persistVars, queueVars>>

EndShutdown ==
  /\ phase = "stopping" /\ closing = 0
  /\ phase' = "stopped" /\ started' = 0 /\ container' = {}
  /\ UNCHANGED <<mode, closing, resourceVars, execVars, persistVars, queueVars>>

----------------------------------------------------------------------------
Startup ==
  \/ StartPerformance \/ StartWarehouse \/ StartExecutors \/ StartServiceDb
  \/ StartPersistence \/ Serve

Shutdown ==
  \/ ClosePersistence \/ ClosePersistenceSync \/ StopFlushing \/ Disconnect
  \/ \E i \in 1..3 : ShutPool(i)
  \/ CloseExecutors \/ CloseWarehouse \/ ClosePerformance \/ EndShutdown

LifeNext ==
  \/ Startup \/ StepFails
  \/ RequestRecorded
  \/ \E j \in Jobs : ResultPersisted(j)
  \/ \E c \in RequestCalls : RequestCall(c)
  \/ SamplerCrashes
  \/ \E w \in Consumers : Work(w)
  \/ \E c \in Calls : Thread(c)
  \/ FlushStep
  \/ BeginShutdown \/ Shutdown

\* The threads and the event loop run, calls end, and the timeouts of stop() pass.
LifeFairness ==
  /\ WF_serverVars(Shutdown) /\ WF_serverVars(FlushStep)
  /\ \A c \in Calls : WF_serverVars(Thread(c))

LifeSpec == LifeInit /\ [][LifeNext]_serverVars /\ LifeFairness

----------------------------------------------------------------------------
(* Properties *)

\* After a shutdown, also one that raised, nothing of the server works on in the
\* background: no thread of a pool, no worker (in asynchronous mode), no sampler, no
\* export loop unless the shutdown raised, and the flush thread has been told to end.
QuietAfterShutdown ==
  phase \in {"stopped", "aborted"} =>
    /\ \A p \in Pools : Quiescent(p)
    /\ mode = "async" => \A w \in Consumers : worker[w] = "none"
    /\ flusher["thread"] # "off" => stopSet
    /\ sampler # "running"
    /\ exporter = "running" => phase = "aborted" /\ sampler = "crashed"

\* Two drains may run at the same time and either transaction may fail, but a record
\* is in the queue, in one batch, written or lost, and never written twice.
RecordsOnce ==
  Cardinality(Emitted) =
    Len(records) + Len(batch["thread"]) + Len(batch["stop"])
      + Cardinality(written) + Cardinality(lost)

\* However the two drains interleave, no record that was emitted is forgotten, and one
\* that has been written or lost stays so.
RecordsSettle ==
  [][Emitted \subseteq Emitted' /\ written \subseteq written' /\ lost \subseteq lost']_serverVars

\* stop() drains before the database is closed: whatever requests recorded has been
\* written, was lost with its transaction, or is in the last batch of a flush thread
\* that outlived the join.
FlushedBeforeClose ==
  serviceDb = "closed" => records = <<>> /\ batch["stop"] = <<>>

\* The shutdown order lets cache writes finish while the service database is open:
\* unless the drain timed out, no background call is pending once it is closed and
\* every job that was accepted has completed or failed.
CacheWritesBeforeClose ==
  serviceDb = "closed" /\ mode = "async" /\ stopping # "overdue" =>
    /\ Pending("background") = {}
    /\ \A j \in Jobs : outcome[j] \notin {"pending", "cancelled"}

----------------------------------------------------------------------------
(* The inductive invariant: what startup has started and what each closed step has left *)

\* The steps are shut down in reverse: shutdown has left step k behind.
Past(k) == phase \in {"stopping", "stopped", "aborted"} /\ closing < k

PhasesInOrder ==
  /\ phase \in {"starting", "serving", "stopping", "stopped", "failed", "aborted"}
  /\ mode \in {"sync", "async"}
  /\ started \in 0..Len(Steps) /\ closing \in 0..Len(Steps)
  /\ phase = "starting" /\ started < Len(Steps) => ~accepting
  /\ (phase = "starting" /\ started = Len(Steps)) \/ phase = "serving" => accepting
  /\ phase = "serving" => started = Len(Steps)
  /\ phase = "stopped" => closing = 0
  /\ phase = "aborted" => closing = 1 /\ sampler = "crashed"

\* No request is served once a queue is told to stop.
StopsAfterServing ==
  /\ stopping # "off" => phase \in {"stopping", "stopped", "aborted"}
  /\ flusher["stop"] # "off" => phase \in {"stopping", "stopped", "aborted"} /\ stopSet

PersistenceClosed ==
  /\ Past(5) /\ mode = "async" => stopping \in {"done", "overdue"}
  /\ phase = "stopping" /\ stopping = "off" => accepting

FlusherClosed ==
  /\ flusher["stop"] \in {"flush", "done"} => records = <<>>
  /\ flusher["stop"] = "done" => batch["stop"] = <<>>
  /\ serviceDb = "closed" => flusher["stop"] = "done" /\ Past(4)
  /\ Past(4) => flusher["stop"] = "done"

PoolsClosed == Past(3) => \A p \in Pools : Quiescent(p)

PerformanceClosed ==
  Past(1) => sampler # "running" /\ exporter # "running"

ServerInv ==
  /\ QueueTypeOK /\ PersistInv /\ PhasesInOrder /\ StopsAfterServing
  /\ PersistenceClosed /\ FlusherClosed /\ PoolsClosed /\ PerformanceClosed

\* A shutdown that has begun ends, or raises: no wait in it is for ever.
ShutdownEnds == phase = "stopping" ~> phase \in {"stopped", "aborted"}
=============================================================================
