------------------------------ MODULE Executors ------------------------------
(***************************************************************************)
(* The three thread pools of core/concurrency/executors.py.  A coroutine   *)
(* awaits run(); the call it submitted runs in a thread of the pool.       *)
(* Cancelling the coroutine withdraws a call that no thread has taken yet  *)
(* and abandons one that is running.                                       *)
(***************************************************************************)
EXTENDS Naturals, FiniteSets

CONSTANTS
  Calls,        \* the blocking calls that may be submitted
  CallPool,     \* [Calls -> Pools]: run_in_db_executor(), ..._service_..., ..._background
  Workers       \* [Pools -> Nat]: max_workers, as configure_executors() sets it

Pools == {"db", "service", "background"}

ASSUME ExecutorsAssumption ==
  CallPool \in [Calls -> Pools] /\ Workers \in [Pools -> Nat \ {0}]

VARIABLES
  call,         \* the state of each call
  awaited,      \* calls a run() still awaits: each pool's `_active` counts its own
  down          \* pools whose shutdown() has begun: they refuse new calls

execVars == <<call, awaited, down>>

\* A call is new, queued, running, ended, withdrawn or refused.
ExecInit ==
  /\ call = [c \in Calls |-> "new"]
  /\ awaited = {} /\ down = {}

Of(p) == {c \in Calls : CallPool[c] = p}

Running(p) == {c \in Of(p) : call[c] = "running"}

Pending(p) == {c \in Of(p) : call[c] \in {"queued", "running"}}

\* A pool that has been shut down raises RuntimeError.
Run(c) ==
  /\ call[c] = "new"
  /\ IF CallPool[c] \in down
       THEN call' = [call EXCEPT ![c] = "refused"] /\ UNCHANGED awaited
       ELSE call' = [call EXCEPT ![c] = "queued"] /\ awaited' = awaited \cup {c}
  /\ UNCHANGED down

ThreadTakes(c) ==
  /\ call[c] = "queued"
  /\ Cardinality(Running(CallPool[c])) < Workers[CallPool[c]]
  /\ call' = [call EXCEPT ![c] = "running"]
  /\ UNCHANGED <<awaited, down>>

ThreadEnds(c) ==
  /\ call[c] = "running"
  /\ call' = [call EXCEPT ![c] = "ended"]
  /\ UNCHANGED <<awaited, down>>

\* run() resumes with the call's result or exception.
RunReturns(c) == call[c] = "ended" /\ awaited' = awaited \ {c} /\ UNCHANGED <<call, down>>

\* The coroutines in run() are cancelled: their `finally` runs, the threads go on.
RunsCancelled(cs) ==
  /\ call' = [c \in Calls |-> IF c \in cs /\ call[c] = "queued" THEN "withdrawn" ELSE call[c]]
  /\ awaited' = awaited \ cs
  /\ UNCHANGED down

\* ThreadPoolExecutor.shutdown(): new calls are refused, queued ones still run.
Shut(p) == down' = down \cup {p} /\ UNCHANGED <<call, awaited>>

\* shutdown(wait=True) returns.
Quiescent(p) == p \in down /\ Pending(p) = {}

ThreadStep(c) == ThreadTakes(c) \/ ThreadEnds(c)
=============================================================================
