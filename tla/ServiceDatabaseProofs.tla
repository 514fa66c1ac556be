----------------------- MODULE ServiceDatabaseProofs -----------------------
(***************************************************************************)
(* Proofs about ServiceDatabase for any number of threads and connections: *)
(* it implements SyncPool, so that the pool's theorems hold of it, and the *)
(* transactions left open are exactly accounted for by failed operations.  *)
(***************************************************************************)
EXTENDS ServiceDatabase, SyncPoolProofs

\* Every step of the database layer is a step of the pool or leaves the pool alone.
LEMMA PoolStep == [DbNext]_allVars => [Next]_vars
<1> SUFFICES ASSUME [DbNext]_allVars PROVE [Next]_vars
  OBVIOUS
<1>1. ASSUME NEW t \in Threads, Operate(t) \/ BlockStatement(t)
      PROVE  UNCHANGED vars \/ BeginRelease(t, FALSE)
  BY <1>1 DEF Operate, BlockStatement, Fetch, Execute, ExecuteFails, ExecuteCommits,
              ExecuteCommitFails, EnterBlock, BlockRaises, BlockCommits, BlockCommitFails,
              Undo, UndoFails, Done
<1>2. ASSUME NEW t \in Threads, Call(t) \/ DeadlinePasses(t) \/ Acquire(t) \/ Release(t)
      PROVE  Next
  BY <1>2 DEF Call, DeadlinePasses, Acquire, Release, Next, Progress
<1>3. Disconnect \/ PoolMetrics => Next
  BY DEF Disconnect, PoolMetrics, Next
<1>4. UNCHANGED allVars => UNCHANGED vars
  BY DEF allVars
<1>5. FALSE \in BOOLEAN
  OBVIOUS
<1> QED BY <1>1, <1>2, <1>3, <1>4, <1>5 DEF DbNext, Next

\* ServiceDatabase uses the pool as its specification allows: the database layer
\* implements SyncPool (service_db.py _acquire() against sync_pool.py).
THEOREM ImplementsPool == DbSpec => Spec
<1>1. DbInit => Init
  BY DEF DbInit
<1> QED BY <1>1, PoolStep, PTL DEF DbSpec, Spec

\* The pool's invariant holds under the database layer.
THEOREM DbPoolInvariant == DbSpec => []SyncInv
  BY ImplementsPool, SyncInvariant, PTL

\* Every step keeps the accounts: a transaction is open only on a connection with a
\* recorded failure or in the hands of an operation in progress, and at most one
\* connection has the write lock.
LEMMA AccountedStep == DbInv /\ SyncInv' /\ [DbNext]_allVars => DbInv'
<1> SUFFICES ASSUME DbInv, SyncInv', [DbNext]_allVars
             PROVE  DbInv'
  OBVIOUS
<1> DEFINE Staged == \A t \in Threads : pc[t] # "hold" => stage[t] = "start"
           Rest == stage \in [Threads -> Stages] /\ tx \in [Conns -> TxStates]
                   /\ failed \subseteq Conns
           OneWriter == \A j, k \in Conns : tx[j] = "write" /\ tx[k] = "write" => j = k
           Books == Rest /\ OneWriter /\ Accounted /\ Staged
<1>1. SyncInv /\ Books
  BY DEF DbInv, DbTypeOK
<1>2. pc \in [Threads -> PcValues] /\ conn \in [Threads -> Conns \cup {None}]
  BY <1>1 DEF SyncInv, TypeOK
<1>3. \A t \in Threads : pc[t] = "hold" =>
        conn[t] \in Conns /\ \A u \in Threads \ {t} : conn[u] # conn[t]
  BY <1>1, <1>2 DEF SyncInv, KeysOwned, ExclusiveUse
<1>4. SUFFICES Books'
  BY DEF DbInv, DbTypeOK, SyncInv
<1> USE DEF Stages, TxStates, Accounted, Working, At, Stage
\* The connection of a thread in an operation, and what may happen to it.
<1>5. ASSUME NEW t \in Threads, Operate(t) \/ BlockStatement(t)
      PROVE  Books'
  <2> DEFINE k == conn[t]
  <2>1. pc[t] = "hold" /\ k \in Conns /\ \A u \in Threads \ {t} : conn[u] # k
    BY <1>3, <1>5 DEF Operate, BlockStatement, Fetch, Execute, ExecuteFails, ExecuteCommits,
              ExecuteCommitFails, EnterBlock, BlockRaises, BlockCommits, BlockCommitFails,
              Undo, UndoFails
  <2>2. stage[t] = "start" /\ tx[k] # "none" => k \in failed
    BY <1>1, <2>1
  <2> USE <1>1, <1>2, <2>1, <2>2
      DEF Done, BeginRelease, Goto, SetTx, Select, WriteStatement, FailedStatement, Commit, CanWrite,
          vars, threadVars
  <2>3. CASE Fetch(t)
    BY <2>3 DEF Fetch
  <2>4. CASE Execute(t)
    BY <2>4 DEF Execute
  <2>5. CASE ExecuteFails(t)
    BY <2>5 DEF ExecuteFails
  <2>6. CASE ExecuteCommits(t)
    BY <2>6 DEF ExecuteCommits
  <2>7. CASE ExecuteCommitFails(t)
    BY <2>7 DEF ExecuteCommitFails
  <2>8. CASE EnterBlock(t)
    BY <2>8 DEF EnterBlock
  <2>9. CASE BlockStatement(t)
    BY <2>9 DEF BlockStatement
  <2>10. CASE BlockRaises(t)
    BY <2>10 DEF BlockRaises
  <2>11. CASE BlockCommits(t)
    BY <2>11 DEF BlockCommits
  <2>12. CASE BlockCommitFails(t)
    BY <2>12 DEF BlockCommitFails
  <2>13. CASE Undo(t)
    BY <2>13 DEF Undo
  <2>14. CASE UndoFails(t)
    BY <2>14 DEF UndoFails
  <2> QED
    BY <1>5, <2>3, <2>4, <2>5, <2>6, <2>7, <2>8, <2>9, <2>10, <2>11, <2>12, <2>13, <2>14 DEF Operate
<1>6. ASSUME Forget, \A t \in Threads : pc[t] = "hold" => pc'[t] = "hold" /\ conn'[t] = conn[t]
      PROVE  Books'
  BY <1>1, <1>2, <1>6 DEF Forget
<1>7. ASSUME NEW t \in Threads, Acquire(t) \/ Release(t)
      PROVE  Books'
  <2>1. Forget
    BY <1>7 DEF Acquire, Release
  <2>2. \A u \in Threads : pc[u] = "hold" => pc'[u] = "hold" /\ conn'[u] = conn[u]
    BY <1>2, <1>7
    DEF Acquire, Release, TakeIdle, Reserve, Wait, Refuse, CreateOk, CreateFail, Unreserve, Install,
        ReleaseUnknown, ReturnIdle, Goto, Leave, AtTop, Notified
  <2> QED BY <1>6, <2>1, <2>2
<1>8. CASE Disconnect
  BY <1>6, <1>8 DEF Disconnect, CloseAll, threadVars
<1>9. ASSUME NEW t \in Threads, Call(t) \/ DeadlinePasses(t)
      PROVE  Books'
  BY <1>1, <1>2, <1>9 DEF Call, DeadlinePasses, BeginAcquire, Expire, Goto, dbVars
<1>10. CASE PoolMetrics \/ UNCHANGED allVars
  BY <1>1, <1>10 DEF PoolMetrics, Metrics, threadVars, dbVars, allVars, vars
<1> QED BY <1>5, <1>7, <1>8, <1>9, <1>10 DEF DbNext

\* DbInv is an invariant of the database layer, whatever statement, commit or rollback
\* fails and however threads interleave.
THEOREM DbInvariant == DbSpec => []DbInv
<1>1. DbInit /\ SyncInv => DbInv
  BY DEF DbInit, DbInv, DbTypeOK, Accounted, SyncInv, Stages, TxStates
<1>2. DbInv /\ SyncInv' /\ [DbNext]_allVars => DbInv'
  BY AccountedStep
<1> QED BY <1>1, <1>2, DbPoolInvariant, PTL DEF DbSpec

\* A connection goes back to the pool with a transaction open only after an execute()
\* that raised or a rollback that failed on it.
THEOREM DbIdleUnlessFailed == DbSpec => []IdleUnlessFailed
<1>1. DbInv => IdleUnlessFailed
  <2> SUFFICES ASSUME DbInv, NEW k \in available, tx[k] # "none" PROVE k \in failed
    BY DEF IdleUnlessFailed
  <2>1. k \in Conns /\ None \notin Conns
    BY SyncPoolAssumption DEF DbInv, SyncInv, TypeOK, Conns
  <2>2. \A t \in Threads : conn[t] # k
    BY <2>1 DEF DbInv, SyncInv, ExclusiveUse
  <2> QED BY <2>1, <2>2 DEF DbInv, Accounted
<1> QED BY DbInvariant, <1>1, PTL

\* A fetch reads an old snapshot only on such a connection.
THEOREM DbFreshUnlessFailed == DbSpec => []FreshUnlessFailed
<1>1. DbInv => FreshUnlessFailed
  <2> SUFFICES ASSUME DbInv, NEW t \in Threads, At(t, "start"), tx[conn[t]] \in {"current", "old"}
               PROVE  conn[t] \in failed
    BY DEF FreshUnlessFailed
  <2>1. conn[t] \in Conns /\ \A u \in Threads \ {t} : conn[u] # conn[t]
    BY DEF DbInv, SyncInv, TypeOK, KeysOwned, ExclusiveUse, At
  <2> QED BY <2>1 DEF DbInv, Accounted, Working, At
<1> QED BY DbInvariant, <1>1, PTL

=============================================================================
