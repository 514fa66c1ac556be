-------------------------- MODULE ServiceDatabase --------------------------
(***************************************************************************)
(* ServiceDatabase (core/storage/service_db.py): execute(), fetch_one(),   *)
(* fetch_all() and transaction() on pooled SQLite connections, called from *)
(* the service and background executors, the observability thread and the  *)
(* event loop.                                                             *)
(*                                                                         *)
(* SQLite, as sqlite3.connect() opens it here, is external: a write        *)
(* statement begins a transaction by itself and only commit() or           *)
(* rollback() ends it, whether or not the statement succeeded; one         *)
(* connection at a time has the write lock, and waits for it are bounded   *)
(* by busy_timeout; in WAL mode a SELECT inside a transaction fixes a      *)
(* snapshot, and a transaction whose snapshot is no longer the newest      *)
(* cannot write.                                                           *)
(***************************************************************************)
EXTENDS SyncPool

VARIABLES
  stage,        \* what a thread with a connection does next
  tx,           \* the transaction state of each connection
  failed        \* history: connections on which execute() raised, or a rollback
                \* failed, since they last committed or rolled back

dbVars == <<stage, tx, failed>>
allVars == <<vars, dbVars>>

\* start   an operation has its connection
\* commit  execute(): the statement has run
\* block   transaction(): inside the `with` block
\* undo    transaction(): the block or its commit raised
Stages == {"start", "commit", "block", "undo"}

\* none     no transaction        open   begun, nothing read or written
\* current  reads the newest snapshot    old   reads an outdated one
\* write    has the write lock
TxStates == {"none", "open", "current", "old", "write"}

DbInit ==
  /\ Init
  /\ stage = [t \in Threads |-> "start"]
  /\ tx = [k \in Conns |-> "none"]
  /\ failed = {}

----------------------------------------------------------------------------
(* SQLite *)

CanWrite(k) == tx[k] # "old" /\ \A j \in Conns \ {k} : tx[j] # "write"

SetTx(k, s) == tx' = [tx EXCEPT ![k] = s]

Select(k) == SetTx(k, IF tx[k] = "open" THEN "current" ELSE tx[k])

WriteStatement(k) == CanWrite(k) /\ SetTx(k, "write")

\* A violated constraint keeps the write lock, a lock that stays busy leaves the
\* transaction begun, an outdated snapshot and a malformed statement change nothing.
FailedStatement(k) ==
  \/ CanWrite(k) /\ SetTx(k, "write")
  \/ ~CanWrite(k) /\ SetTx(k, IF tx[k] = "none" THEN "open" ELSE tx[k])
  \/ UNCHANGED tx

\* What was written becomes visible; snapshots of others grow old.
Commit(k) ==
  tx' = [j \in Conns |-> IF j = k THEN "none"
                         ELSE IF tx[k] = "write" /\ tx[j] = "current" THEN "old" ELSE tx[j]]

----------------------------------------------------------------------------
(* execute(), fetch_one(), fetch_all() *)

Stage(t, s) == stage' = [stage EXCEPT ![t] = s]

At(t, s) == pc[t] = "hold" /\ stage[t] = s

\* The operation ends; _acquire()'s `finally` releases the connection, never broken.
Done(t) == BeginRelease(t, FALSE) /\ Stage(t, "start")

Fetch(t) ==
  /\ At(t, "start")
  /\ Select(conn[t]) \/ UNCHANGED tx
  /\ Done(t)
  /\ UNCHANGED failed

Execute(t) ==
  /\ At(t, "start")
  /\ WriteStatement(conn[t])
  /\ Stage(t, "commit")
  /\ UNCHANGED <<vars, failed>>

\* The error is logged and raised; nothing is rolled back.
ExecuteFails(t) ==
  /\ At(t, "start")
  /\ FailedStatement(conn[t])
  /\ failed' = failed \cup {conn[t]}
  /\ Done(t)

\* Mutant of the next action: execute() does not commit.
ExecuteKeepsOpen(t) ==
  /\ At(t, "commit")
  /\ Done(t)
  /\ UNCHANGED <<tx, failed>>

ExecuteCommits(t) ==
  /\ At(t, "commit")
  /\ Commit(conn[t])
  /\ failed' = failed \ {conn[t]}
  /\ Done(t)

\* A commit that raises may or may not have ended the transaction.
ExecuteCommitFails(t) ==
  /\ At(t, "commit")
  /\ SetTx(conn[t], "none") \/ UNCHANGED tx
  /\ failed' = failed \cup {conn[t]}
  /\ Done(t)

----------------------------------------------------------------------------
(* transaction() *)

EnterBlock(t) ==
  /\ At(t, "start")
  /\ Stage(t, "block")
  /\ UNCHANGED <<vars, tx, failed>>

\* execute_on() and fetch_one_on().  The observability writers swallow an error and
\* go on with the next statement.
BlockStatement(t) ==
  /\ At(t, "block")
  /\ WriteStatement(conn[t]) \/ Select(conn[t]) \/ FailedStatement(conn[t])
  /\ UNCHANGED <<vars, stage, failed>>

BlockRaises(t) ==
  /\ At(t, "block")
  /\ Stage(t, "undo")
  /\ UNCHANGED <<vars, tx, failed>>

BlockCommits(t) ==
  /\ At(t, "block")
  /\ Commit(conn[t])
  /\ failed' = failed \ {conn[t]}
  /\ Done(t)

BlockCommitFails(t) ==
  /\ At(t, "block")
  /\ SetTx(conn[t], "none") \/ UNCHANGED tx
  /\ Stage(t, "undo")
  /\ UNCHANGED <<vars, failed>>

\* Mutant of the next action: transaction() only re-raises.
UndoNothing(t) ==
  /\ At(t, "undo")
  /\ Done(t)
  /\ UNCHANGED <<tx, failed>>

Undo(t) ==
  /\ At(t, "undo")
  /\ SetTx(conn[t], "none")
  /\ failed' = failed \ {conn[t]}
  /\ Done(t)

\* "Rollback failed" is logged, and the connection returns to the pool.
UndoFails(t) ==
  /\ At(t, "undo")
  /\ failed' = failed \cup {conn[t]}
  /\ Done(t)
  /\ UNCHANGED tx

----------------------------------------------------------------------------
(* The pool's steps.  A connection nobody refers to is finalized. *)

Forget ==
  LET reachable == available' \cup inUse' \cup {conn'[t] : t \in Threads}
  IN  /\ tx' = [k \in Conns |-> IF k \in reachable THEN tx[k] ELSE "none"]
      /\ failed' = failed \cap reachable
      /\ UNCHANGED stage

Acquire(t) ==
  /\ \/ TakeIdle(t) \/ Reserve(t) \/ Wait(t) \/ Refuse(t)
     \/ CreateOk(t) \/ CreateFail(t) \/ Unreserve(t) \/ Install(t)
  /\ Forget

\* Mutant of the next action: the adapter is not released.
ReleaseForgotten(t) ==
  /\ pc[t] = "release"
  /\ Leave(t)
  /\ UNCHANGED <<bookVars, waiters, sizerVars, late, closed>>
  /\ Forget

Release(t) ==
  /\ ReleaseUnknown(t) \/ ReturnIdle(t)
  /\ Forget

Call(t) == BeginAcquire(t) /\ UNCHANGED dbVars

DeadlinePasses(t) == Expire(t) /\ UNCHANGED dbVars

\* disconnect() leaves _pool in place, so that operations go on and open new
\* connections.
Disconnect == CloseAll /\ Forget

PoolMetrics == Metrics /\ UNCHANGED dbVars

----------------------------------------------------------------------------
Operate(t) ==
  \/ Fetch(t) \/ Execute(t) \/ ExecuteFails(t) \/ ExecuteCommits(t) \/ ExecuteCommitFails(t)
  \/ EnterBlock(t) \/ BlockRaises(t) \/ BlockCommits(t) \/ BlockCommitFails(t)
  \/ Undo(t) \/ UndoFails(t)

DbNext ==
  \/ \E t \in Threads :
       \/ Call(t) \/ DeadlinePasses(t) \/ Acquire(t) \/ Release(t)
       \/ Operate(t) \/ BlockStatement(t)
  \/ Disconnect
  \/ PoolMetrics

DbSpec == DbInit /\ [][DbNext]_allVars

\* Threads are scheduled, get the pool's lock and pass their deadline; statements
\* return, at the latest after busy_timeout, and a block has finitely many of them.
DbFairSpec ==
  /\ DbSpec
  /\ \A t \in Threads :
       /\ WF_allVars(Acquire(t)) /\ WF_allVars(Release(t))
       /\ WF_allVars(DeadlinePasses(t)) /\ WF_allVars(Operate(t))

----------------------------------------------------------------------------
(* Properties *)

\* Every variable of the database layer has its type, and one connection at a time
\* has the write lock.
DbTypeOK ==
  /\ TypeOK
  /\ stage \in [Threads -> Stages]
  /\ tx \in [Conns -> TxStates]
  /\ failed \subseteq Conns
  /\ \A j, k \in Conns : tx[j] = "write" /\ tx[k] = "write" => j = k

\* transaction() and execute() leave no transaction behind on a pooled connection,
\* whatever fails inside a transaction() block; only an execute() that raised, or a
\* rollback that failed, does.
IdleUnlessFailed == \A k \in available : tx[k] # "none" => k \in failed

\* A fetch returns what is committed, unless an earlier execute() on the same
\* connection raised: its transaction is still open, so the first fetch fixes a
\* snapshot for all later ones.
FreshUnlessFailed ==
  \A t \in Threads : At(t, "start") /\ tx[conn[t]] \in {"current", "old"} => conn[t] \in failed

\* Every operation ends: it gets a connection or MaxConnectionsExceeded by its
\* deadline, and returns what it got.
OperationsEnd == \A t \in Threads : pc[t] # "idle" ~> pc[t] = "idle"

\* The write lock is held only by an operation in progress, so that waiting for it
\* helps (ServiceDatabase.__init__: "a brief write lock is retried instead of
\* raising immediately").
WriteLockIsBrief == \A k \in available : tx[k] # "write"

\* The inductive invariant behind IdleUnlessFailed and FreshUnlessFailed: whatever
\* left a transaction open on a connection is recorded in failed, or is an operation
\* that still holds the connection.
Working(t) == pc[t] = "hold" /\ stage[t] # "start"

Accounted ==
  \A k \in Conns : tx[k] # "none" =>
    k \in failed \/ \E t \in Threads : conn[t] = k /\ Working(t)

DbInv ==
  /\ SyncInv /\ DbTypeOK /\ Accounted
  /\ \A t \in Threads : pc[t] # "hold" => stage[t] = "start"
=============================================================================
