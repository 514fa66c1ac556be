--------------------------- MODULE PersistenceQueue ---------------------------
(***************************************************************************)
(* CachePersistenceQueue (core/caching/persistence_queue.py): a bounded    *)
(* queue of coroutines, each of which runs one call in the background      *)
(* executor (QueryCacheCoordinator.persist_l2() and the access counts),    *)
(* and a few worker tasks on the event loop.                               *)
(***************************************************************************)
EXTENDS Executors, Sequences, SequencesExt

CONSTANTS
  Jobs,         \* the calls of the background pool: nothing else uses it
  Consumers,    \* the worker tasks
  MaxJobs       \* maxsize

ASSUME PersistenceAssumption ==
  /\ Jobs = {c \in Calls : CallPool[c] = "background"}
  /\ Jobs \cap {"none", "idle"} = {}
  /\ Consumers # {}
  /\ MaxJobs \in Nat \ {0}

VARIABLES
  queued,       \* _queue
  accepting,    \* _accepting
  worker,       \* what each worker task does: "none", "idle" or its job
  outcome,      \* what became of each job: its counter, or "cancelled"
  stopping      \* where stop() is

persistVars == <<queued, accepting, worker, outcome, stopping>>

\* The outcome of a job: none, pending, dropped, completed, failed or cancelled.
PersistInit ==
  /\ queued = <<>> /\ accepting = FALSE
  /\ worker = [w \in Consumers |-> "none"]
  /\ outcome = [j \in Jobs |-> "none"]
  /\ stopping = "off"

\* _unfinished_tasks of asyncio.Queue: task_done() is called for every job, also for
\* one that was cancelled.
InHand == {j \in Jobs : \E w \in Consumers : worker[w] = j}

Unfinished == ToSet(queued) \cup InHand

\* Starting twice changes nothing.
StartWorkers ==
  /\ accepting' = TRUE
  /\ worker' = IF accepting THEN worker ELSE [w \in Consumers |-> "idle"]
  /\ UNCHANGED <<queued, outcome, stopping>>

\* Dropped, and its coroutine closed, when the queue is full or not accepting.
SubmitJob(j) ==
  /\ outcome[j] = "none"
  /\ IF accepting /\ Len(queued) < MaxJobs
       THEN queued' = Append(queued, j) /\ outcome' = [outcome EXCEPT ![j] = "pending"]
       ELSE outcome' = [outcome EXCEPT ![j] = "dropped"] /\ UNCHANGED queued
  /\ UNCHANGED <<accepting, worker, stopping, execVars>>

\* _worker_loop(): the worker takes a job and its coroutine enters run().
TakeJob(w) ==
  /\ worker[w] = "idle" /\ queued # <<>>
  /\ queued' = Tail(queued)
  /\ worker' = [worker EXCEPT ![w] = Head(queued)]
  /\ Run(Head(queued))
  /\ UNCHANGED <<accepting, outcome, stopping>>

Finish(w, o) ==
  /\ outcome' = [outcome EXCEPT ![worker[w]] = o]
  /\ worker' = [worker EXCEPT ![w] = "idle"]
  /\ UNCHANGED <<queued, accepting, stopping>>

\* The call's exception, if it raised one, fails the job and not the worker.
JobEnds(w) ==
  /\ worker[w] \in Jobs /\ RunReturns(worker[w])
  /\ \E o \in {"completed", "failed"} : Finish(w, o)

BeginStop ==
  /\ stopping = "off"
  /\ accepting' = FALSE
  /\ stopping' = IF \A w \in Consumers : worker[w] = "none" THEN "done" ELSE "join"
  /\ UNCHANGED <<queued, worker, outcome, execVars>>

\* Every worker is cancelled and awaited.  One that has a job abandons its call: the
\* job is neither completed nor failed, and what is queued is never awaited.
CancelWorkers ==
  /\ outcome' = [j \in Jobs |-> IF j \in InHand THEN "cancelled" ELSE outcome[j]]
  /\ worker' = [w \in Consumers |-> "none"]
  /\ RunsCancelled(InHand)

\* Mutant of the next action: stop() goes on when the queue is empty, although a
\* worker may still have a job.
DrainedWhenEmpty ==
  /\ stopping = "join" /\ queued = <<>>
  /\ stopping' = "done"
  /\ CancelWorkers
  /\ UNCHANGED <<queued, accepting>>

\* join() returns within the timeout.
Drained ==
  /\ stopping = "join" /\ Unfinished = {}
  /\ stopping' = "done"
  /\ CancelWorkers
  /\ UNCHANGED <<queued, accepting>>

DrainTimeout ==
  /\ stopping = "join" /\ Unfinished # {}
  /\ stopping' = "overdue"
  /\ CancelWorkers
  /\ UNCHANGED <<queued, accepting>>

----------------------------------------------------------------------------
(* Where the jobs are *)

PersistTypeOK ==
  /\ call \in [Calls -> {"new", "queued", "running", "ended", "withdrawn", "refused"}]
  /\ queued \in Seq(Jobs) /\ accepting \in BOOLEAN
  /\ worker \in [Consumers -> Jobs \cup {"none", "idle"}]
  /\ outcome \in [Jobs -> {"none", "pending", "dropped", "completed", "failed", "cancelled"}]
  /\ stopping \in {"off", "join", "done", "overdue"}

\* Until stop() cancels the workers, a job that is pending is in the queue or in a
\* worker's hand, and only a worker's job is in the background pool.
JobsHeld ==
  stopping \in {"off", "join"} =>
    /\ \A j \in Jobs : outcome[j] # "cancelled"
    /\ \A j \in Jobs : outcome[j] = "pending" => j \in Unfinished
    /\ Pending("background") \subseteq InHand

\* When stop() has drained the queue, all of them are settled.
JobsSettled ==
  stopping = "done" =>
    /\ \A j \in Jobs : outcome[j] \notin {"pending", "cancelled"}
    /\ Pending("background") = {}

\* The workers exist from start() to stop().
WorkersAlive ==
  /\ stopping = "off" => \A w \in Consumers : worker[w] = "none" <=> ~accepting
  /\ stopping \in {"done", "overdue"} => \A w \in Consumers : worker[w] = "none"

PersistInv == PersistTypeOK /\ JobsHeld /\ JobsSettled /\ WorkersAlive
============================================================================
