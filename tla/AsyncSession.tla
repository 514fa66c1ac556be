---------------------------- MODULE AsyncSession ----------------------------
(***************************************************************************)
(* QueryService._execute over DatabaseSession.get_async_session            *)
(* (core/db/session.py), composed with the pool: a task checks a           *)
(* connection out, runs one statement on it in a thread of the database    *)
(* executor, rolls back after an ordinary error, and returns or discards   *)
(* the connection.  QueryService wraps all of it in a timer                *)
(* (asyncio.wait_for), which is one of the sources of cancellation.        *)
(*                                                                         *)
(* A thread cannot be cancelled.  Cancelling the task that awaits it only  *)
(* abandons it: it goes on using the connection until the driver returns.  *)
(***************************************************************************)
EXTENDS AsyncPool

VARIABLES
  stage,        \* what a task that holds a connection awaits
  orphans,      \* connections on which an abandoned executor job still runs
  dirty,        \* connections left by a failed statement and not rolled back
  condemned,    \* connections on which a connection-level error was recognised
  swallowed,    \* history: _safe_rollback swallowed a failed rollback
  executorUp    \* the database executor accepts jobs

sessionVars == <<stage, orphans, dirty, condemned, swallowed, executorUp>>
allVars == <<vars, sessionVars>>

SessionInit ==
  /\ Init
  /\ stage = [c \in Clients |-> "none"]
  /\ orphans = {} /\ dirty = {} /\ condemned = {}
  /\ swallowed = FALSE
  /\ executorUp = TRUE

Stage(c, s) == stage' = [stage EXCEPT ![c] = s]

----------------------------------------------------------------------------
\* A connection nobody can reach any more is forgotten.
Reachable == available \cup inUse \cup {conn[c] : c \in Clients}

Forget ==
  /\ orphans' = orphans \cap Reachable'
  /\ dirty' = dirty \cap Reachable'
  /\ condemned' = condemned \cap Reachable'
  /\ UNCHANGED <<stage, swallowed, executorUp>>

\* The pool's own steps; create_session() needs the executor to open an adapter, a
\* new one for every slot.
PoolProgress(c) ==
  /\ \/ Enter(c)
     \/ Wakeup(c) \/ WaitTimeout(c) \/ GiveUp(c) \/ Cleanup(c)
     \/ executorUp /\ CreateOk(c)
     \/ CreateFail(c) \/ Unreserve(c) \/ Install(c)
     \/ ReleaseUnknown(c) \/ ReturnIdle(c) \/ EvictBegin(c) \/ EvictEnd(c)
  /\ Forget

PoolCancel(c) ==
  /\ \/ CancelEnter(c) \/ CancelWait(c) \/ CancelCleanup(c)
     \/ CancelCreate(c) \/ CancelReserved(c) \/ CancelRelease(c) \/ CancelClosing(c)
  /\ Forget

Open(c) ==
  /\ BeginAcquire(c)
  /\ UNCHANGED sessionVars

\* session.fetch_all(): the statement is handed to the executor; after the
\* executor's shutdown the hand-over itself raises, which is an ordinary error,
\* and so does the rollback it leads to, which condemns the connection.
BeginQuery(c) ==
  /\ pc[c] = "hold" /\ stage[c] = "none" /\ executorUp
  /\ Stage(c, "query")
  /\ UNCHANGED <<vars, orphans, dirty, condemned, swallowed, executorUp>>

QueryRejected(c) ==
  /\ pc[c] = "hold" /\ stage[c] = "none" /\ ~executorUp
  /\ BeginRelease(c, TRUE)
  /\ UNCHANGED sessionVars

QueryOk(c) ==
  /\ stage[c] = "query"
  /\ BeginRelease(c, FALSE)
  /\ Stage(c, "none")
  /\ UNCHANGED <<orphans, dirty, condemned, swallowed, executorUp>>

\* Mutant of the next action: broken=True is not passed on.
ConnectionErrorReturns(c) ==
  /\ stage[c] = "query"
  /\ BeginRelease(c, FALSE)
  /\ Stage(c, "none")
  /\ dirty' = dirty \cup {conn[c]}
  /\ condemned' = condemned \cup {conn[c]}
  /\ UNCHANGED <<orphans, swallowed, executorUp>>

\* is_connection_level_error(exc): the connection is discarded without rollback.
ConnectionError(c) ==
  /\ stage[c] = "query"
  /\ BeginRelease(c, TRUE)
  /\ Stage(c, "none")
  /\ dirty' = dirty \cup {conn[c]}
  /\ condemned' = condemned \cup {conn[c]}
  /\ UNCHANGED <<orphans, swallowed, executorUp>>

\* Mutant of the next action: no rollback after an error.
QueryErrorNoRollback(c) ==
  /\ stage[c] = "query"
  /\ BeginRelease(c, FALSE)
  /\ dirty' = dirty \cup {conn[c]}
  /\ Stage(c, "none")
  /\ UNCHANGED <<orphans, condemned, swallowed, executorUp>>

\* Any other Exception: await session.rollback(), in the executor again.
QueryError(c) ==
  /\ stage[c] = "query" /\ executorUp
  /\ dirty' = dirty \cup {conn[c]}
  /\ Stage(c, "rollback")
  /\ UNCHANGED <<vars, orphans, condemned, swallowed, executorUp>>

\* The same when the executor was shut down meanwhile: handing the rollback over
\* raises, and the connection is treated as broken.
QueryErrorRejected(c) ==
  /\ stage[c] = "query" /\ ~executorUp
  /\ dirty' = dirty \cup {conn[c]}
  /\ Stage(c, "none")
  /\ BeginRelease(c, TRUE)
  /\ UNCHANGED <<orphans, condemned, swallowed, executorUp>>

\* Mutant of the next action: the statement is retried for ever.
RollbackOkRetries(c) ==
  /\ stage[c] = "rollback"
  /\ dirty' = dirty \ {conn[c]}
  /\ Stage(c, "none")
  /\ UNCHANGED <<vars, orphans, condemned, swallowed, executorUp>>

RollbackOk(c) ==
  /\ stage[c] = "rollback"
  /\ dirty' = dirty \ {conn[c]}
  /\ BeginRelease(c, FALSE)
  /\ Stage(c, "none")
  /\ UNCHANGED <<orphans, condemned, swallowed, executorUp>>

\* _safe_rollback catches what the driver raises, so session.rollback() returns
\* normally and `broken_connection = True` is not reached.
RollbackFails(c) ==
  /\ stage[c] = "rollback"
  /\ swallowed' = TRUE
  /\ BeginRelease(c, FALSE)
  /\ Stage(c, "none")
  /\ UNCHANGED <<orphans, dirty, condemned, executorUp>>

\* The query timer, or the caller going away, cancels the task.  A job the executor
\* has not started is withdrawn; one that runs goes on without its task.
CancelUse(c) ==
  /\ CancelHold(c)
  /\ \/ orphans' = orphans
     \/ stage[c] # "none" /\ orphans' = orphans \cup {conn[c]}
  /\ Stage(c, "none")
  /\ UNCHANGED <<dirty, condemned, swallowed, executorUp>>

\* The abandoned job returns; its statement may have failed.
OrphanEnds(k) ==
  /\ k \in orphans
  /\ orphans' = orphans \ {k}
  /\ dirty' \in {dirty, dirty \cup {k}}
  /\ UNCHANGED <<vars, stage, condemned, swallowed, executorUp>>

ShutdownExecutor ==
  /\ executorUp
  /\ executorUp' = FALSE
  /\ UNCHANGED <<vars, stage, orphans, dirty, condemned, swallowed>>

PoolWide ==
  /\ \/ \E target \in 1..MaxConn : Warmup(target)
     \/ Metrics
     \/ CloseAll
     \/ CloseDone
  /\ Forget

----------------------------------------------------------------------------
Use(c) ==
  \/ BeginQuery(c) \/ QueryRejected(c)
  \/ QueryOk(c) \/ ConnectionError(c) \/ QueryError(c) \/ QueryErrorRejected(c)
  \/ RollbackOk(c) \/ RollbackFails(c)

SessionNext ==
  \/ \E c \in Clients :
       Open(c) \/ PoolProgress(c) \/ PoolCancel(c) \/ Use(c) \/ CancelUse(c)
  \/ \E k \in Conns : OrphanEnds(k)
  \/ ShutdownExecutor
  \/ PoolWide

SessionSpec == SessionInit /\ [][SessionNext]_allVars

\* Besides the pool's fairness: every statement and rollback returns or its task is
\* cancelled by the query timer.
SessionFairness ==
  \A c \in Clients :
    /\ SF_allVars(PoolProgress(c))
    /\ WF_allVars(Use(c))

SessionFairSpec == SessionSpec /\ SessionFairness

----------------------------------------------------------------------------
\* A connection on which a connection-level error was recognised is never idle
\* again, whatever is cancelled on the way to its eviction (get_async_session:
\* it "must never go back to `_available`").
BrokenNeverReused == condemned \cap available = {}

\* Without cancellation and with working rollbacks, an idle connection carries
\* nothing of a failed statement over to its next user.
IdleIsCleanUnlessSwallowed ==
  (cancels = 0 /\ ~swallowed) => available \cap dirty = {}

\* The inductive invariant behind the two, beside the pool's own: a task works on a
\* connection only while it holds it; what is known of a connection is known of one
\* that still exists; a condemned connection is on its way to its eviction or belongs
\* to nobody; so is one with a failed statement, unless its rollback is under way.
StagesHeld ==
  /\ stage \in [Clients -> {"none", "query", "rollback"}]
  /\ \A c \in Clients : stage[c] # "none" => pc[c] = "hold"

MarksKnown == orphans \cup dirty \cup condemned \subseteq Conns \cap Reachable

CondemnedOut ==
  \A k \in condemned :
    /\ k \notin available
    /\ \A c \in Clients : conn[c] = k => pc[c] \in {"discard", "closing"}

FailedOut ==
  (cancels = 0 /\ ~swallowed) =>
    /\ orphans = {}
    /\ \A k \in dirty :
         /\ k \notin available
         /\ \A c \in Clients : conn[c] = k =>
              pc[c] \in {"discard", "closing"} \/ stage[c] = "rollback"

SessionInv == PoolInv /\ StagesHeld /\ MarksKnown /\ CondemnedOut /\ FailedOut

\* Every session gives its connection back: what is checked out leaves the task.
SessionEnds ==
  \A c \in Clients : conn[c] # None ~> conn[c] = None

\* No connection is worked on by two threads (docs: "a pool slot never shares a live
\* database connection with another slot").
OneJobPerConnection ==
  \A c \in Clients :
    (stage[c] # "none" \/ pc[c] = "closing") => conn[c] \notin orphans
=============================================================================
