------------------------- MODULE AsyncSessionProofs -------------------------
(***************************************************************************)
(* Sessions over the pool, for any number of tasks, connections and        *)
(* cancellations: a session uses the pool only through its operations, so  *)
(* all that is proved of the pool holds here; a broken connection never    *)
(* goes back to the idle heap; and without cancellation neither does one   *)
(* whose failed statement was not rolled back.                             *)
(***************************************************************************)
EXTENDS AsyncSession, AsyncPoolProofs

\* Steps of the pool alone, as the session lets it take them.
PoolStep ==
  \/ \E c \in Clients : PoolProgress(c) \/ PoolCancel(c)
  \/ PoolWide

\* Every step of a session is a step of the pool or leaves the pool alone
\* (get_async_session goes through acquire() and release() only).
LEMMA SessionStepIsPoolStep == [SessionNext]_allVars => [Next]_vars
<1> SUFFICES ASSUME [SessionNext]_allVars PROVE [Next]_vars
  OBVIOUS
<1>1. ASSUME NEW c \in Clients, Open(c) \/ PoolProgress(c) \/ PoolCancel(c) PROVE Next
  BY <1>1 DEF Open, PoolProgress, PoolCancel, Next, Progress, Cancel
<1>2. ASSUME NEW c \in Clients, Use(c) PROVE UNCHANGED vars \/ Next
  <2>1. UNCHANGED vars \/ \E b \in BOOLEAN : BeginRelease(c, b)
    BY <1>2 DEF Use, BeginQuery, QueryRejected, QueryOk, ConnectionError, QueryError,
                QueryErrorRejected, RollbackOk, RollbackFails
  <2> QED BY <2>1 DEF Next
<1>3. ASSUME NEW c \in Clients, CancelUse(c) PROVE Next
  BY <1>3 DEF CancelUse, Next, Cancel
<1>4. ASSUME NEW k \in Conns, OrphanEnds(k) PROVE UNCHANGED vars
  BY <1>4 DEF OrphanEnds
<1>5. CASE ShutdownExecutor
  BY <1>5 DEF ShutdownExecutor
<1>6. CASE PoolWide
  BY <1>6 DEF PoolWide, Next
<1>7. CASE UNCHANGED allVars
  BY <1>7 DEF allVars
<1> QED BY <1>1, <1>2, <1>3, <1>4, <1>5, <1>6, <1>7 DEF SessionNext

\* The composition implements the pool: every invariant proved of the pool is one of
\* the sessions that share it.
THEOREM SessionsUseThePool == SessionSpec => Spec
<1>1. SessionInit => Init
  BY DEF SessionInit
<1> QED BY <1>1, SessionStepIsPoolStep, PTL DEF SessionSpec, Spec

\* Hence sessions do to the connections only what BoundedPool allows.
THEOREM SessionsRefineBoundedPool == SessionSpec => ImplementsBoundedPool
BY SessionsUseThePool, RefinesBoundedPool, PTL

----------------------------------------------------------------------------
(* What a step of the pool does to a connection on its way out *)

\* A known connection that is neither idle nor on its way back, with every task that
\* has it using it or evicting it.
Out(k) ==
  /\ k \in Conns \cap Reachable
  /\ k \notin available
  /\ \A c \in Clients : conn[c] = k => pc[c] \in {"hold", "discard", "closing"}

\* A step of the pool does not bring it back, and its tasks go on with it or give it
\* up: only release() and its cancellation, which are the session's steps, end a hold.
LEMMA OutStaysOut ==
  ASSUME PoolInv, PoolStep, NEW k, Out(k)
  PROVE  /\ k \notin available'
         /\ \A c \in Clients : conn'[c] = k =>
              /\ conn[c] = k
              /\ pc'[c] = pc[c] \/ (pc[c] = "discard" /\ pc'[c] = "closing")
<1> DEFINE Goal == /\ k \notin available'
                   /\ \A c \in Clients : conn'[c] = k =>
                        /\ conn[c] = k
                        /\ pc'[c] = pc[c] \/ (pc[c] = "discard" /\ pc'[c] = "closing")
<1>t. /\ pc \in [Clients -> PcValues] /\ conn \in [Clients -> Conns \cup {None}]
      /\ None \notin Conns /\ None # k /\ available \subseteq Conns
  BY PoolAssumption DEF PoolInv, TypeOK, Conns, Out
<1>o. /\ k \notin available /\ k \in Conns
      /\ \A c \in Clients : conn[c] = k => pc[c] \in {"hold", "discard", "closing"}
  BY DEF Out
<1>f. k \notin FreshKeys
  <2>1. k \in inUse \/ k \in {conn[c] : c \in Clients}
    BY DEF Out, Reachable
  <2> QED BY <2>1 DEF FreshKeys
<1>u. FreshKeys # {} => (CHOOSE x \in FreshKeys : TRUE) \in FreshKeys
  OBVIOUS
<1> USE <1>t, <1>o DEF Goto, Leave, poolVars, taskVars, envVars
<1>1. ASSUME NEW c \in Clients, TakeIdle(c) PROVE Goal
  BY <1>1 DEF TakeIdle
<1>2. ASSUME NEW c \in Clients, Reserve(c) PROVE Goal
  BY <1>2, <1>f, <1>u DEF Reserve
<1>3. ASSUME NEW c \in Clients,
             QueueUp(c) \/ Wakeup(c) \/ WaitTimeout(c) \/ GiveUp(c) \/ Cleanup(c)
      PROVE  Goal
  BY <1>3 DEF QueueUp, Wakeup, Woken, WaitTimeout, GiveUp, Cleanup
<1>4. ASSUME NEW c \in Clients,
             CreateOk(c) \/ CreateFail(c) \/ Unreserve(c) \/ Install(c)
      PROVE  Goal
  BY <1>4 DEF CreateOk, CreateFail, Unreserve, Install
<1>5. ASSUME NEW c \in Clients, ReleaseUnknown(c) \/ ReturnIdle(c) PROVE Goal
  BY <1>5 DEF ReleaseUnknown, ReturnIdle
<1>6. ASSUME NEW c \in Clients, EvictBegin(c) \/ EvictEnd(c) PROVE Goal
  BY <1>6 DEF EvictBegin, EvictEnd
<1>7. ASSUME NEW c \in Clients,
             \/ CancelEnter(c) \/ CancelWait(c) \/ CancelCleanup(c) \/ CancelCreate(c)
             \/ CancelReserved(c) \/ CancelRelease(c) \/ CancelClosing(c)
      PROVE  Goal
  BY <1>7 DEF CancelEnter, CancelWait, CancelCleanup, CancelCreate, CancelReserved,
              CancelRelease, CancelClosing
<1>8. ASSUME NEW target \in 1..MaxConn, Warmup(target) PROVE Goal
  <2>1. available = {} /\ inUse = {} /\ \A c \in Clients : pc[c] = "idle"
    BY <1>8 DEF Warmup
  <2>2. \E c \in Clients : conn[c] = k
    BY <2>1 DEF Out, Reachable
  <2> QED BY <2>1, <2>2
<1>9. CASE Metrics \/ CloseAll \/ CloseDone
  BY <1>9 DEF Metrics, CloseAll, CloseDone
<1> QED
  BY <1>1, <1>2, <1>3, <1>4, <1>5, <1>6, <1>7, <1>8, <1>9
  DEF PoolStep, PoolProgress, PoolCancel, PoolWide, Enter

\* A step of the pool ends nobody's hold.
LEMMA HoldStays ==
  ASSUME PoolInv, PoolStep, NEW c \in Clients, pc[c] = "hold"
  PROVE  pc'[c] = "hold"
<1>t. pc \in [Clients -> PcValues]
  BY DEF PoolInv, TypeOK
<1> USE <1>t DEF Goto, Leave, poolVars, taskVars, envVars
<1>1. ASSUME NEW d \in Clients, PoolProgress(d) PROVE pc'[c] = "hold"
  BY <1>1
  DEF PoolProgress, Enter, TakeIdle, Reserve, QueueUp, Wakeup, Woken, WaitTimeout, GiveUp, Cleanup,
      CreateOk, CreateFail, Unreserve, Install, ReleaseUnknown, ReturnIdle, EvictBegin, EvictEnd
<1>2. ASSUME NEW d \in Clients, PoolCancel(d) PROVE pc'[c] = "hold"
  BY <1>2
  DEF PoolCancel, CancelEnter, CancelWait, CancelCleanup, CancelCreate, CancelReserved,
      CancelRelease, CancelClosing
<1>3. CASE PoolWide
  BY <1>3 DEF PoolWide, Warmup, Metrics, CloseAll, CloseDone
<1> QED BY <1>1, <1>2, <1>3 DEF PoolStep

\* Cancellations are only counted up.
LEMMA CancelsGrow ==
  ASSUME PoolInv, [Next]_vars, cancels' = 0
  PROVE  cancels = 0
<1>t. cancels \in Nat
  BY DEF PoolInv, TypeOK
<1>1. cancels' = cancels \/ Cancelled
  BY DEF Next, Progress, Enter, Cancel, BeginAcquire, TakeIdle, Reserve, QueueUp, Wakeup,
         WaitTimeout, GiveUp, Cleanup, CreateOk, CreateFail, Unreserve, Install, ReleaseUnknown,
         ReturnIdle, EvictBegin, EvictEnd, BeginRelease, CancelEnter, CancelWait, CancelCleanup,
         CancelCreate, CancelReserved, CancelHold, CancelRelease, CancelClosing, Warmup, Metrics,
         CloseAll, CloseDone, vars, envVars
<1> QED BY <1>t, <1>1 DEF Cancelled

----------------------------------------------------------------------------
(* The invariant of the sessions *)

\* The pool's steps, with Forget.
LEMMA PoolStepSession ==
  ASSUME SessionInv, PoolStep, [Next]_vars
  PROVE  StagesHeld' /\ MarksKnown' /\ CondemnedOut' /\ FailedOut'
<1>1. Forget
  BY DEF PoolStep, PoolProgress, PoolCancel, PoolWide
<1>2. PoolInv
  BY DEF SessionInv
<1>3. StagesHeld'
  BY <1>1, <1>2, HoldStays DEF Forget, SessionInv, StagesHeld
<1>4. MarksKnown'
  BY <1>1 DEF Forget, SessionInv, MarksKnown
<1>5. CondemnedOut'
  <2> SUFFICES ASSUME NEW k \in condemned'
               PROVE  /\ k \notin available'
                      /\ \A c \in Clients : conn'[c] = k => pc'[c] \in {"discard", "closing"}
    BY DEF CondemnedOut
  <2>1. k \in condemned
    BY <1>1 DEF Forget
  <2>2. /\ Out(k)
        /\ \A c \in Clients : conn[c] = k => pc[c] \in {"discard", "closing"}
    BY <2>1 DEF SessionInv, MarksKnown, CondemnedOut, Out
  <2> QED BY <1>2, <2>2, OutStaysOut
<1>6. FailedOut'
  <2> SUFFICES ASSUME cancels' = 0, ~swallowed'
               PROVE  /\ orphans' = {}
                      /\ \A k \in dirty' :
                           /\ k \notin available'
                           /\ \A c \in Clients : conn'[c] = k =>
                                pc'[c] \in {"discard", "closing"} \/ stage'[c] = "rollback"
    BY DEF FailedOut
  <2>1. cancels = 0 /\ ~swallowed /\ stage' = stage /\ orphans' \subseteq orphans
        /\ dirty' \subseteq dirty
    BY <1>1, <1>2, CancelsGrow DEF Forget
  <2>2. ASSUME NEW k \in dirty'
        PROVE  /\ k \notin available'
               /\ \A c \in Clients : conn'[c] = k =>
                    pc'[c] \in {"discard", "closing"} \/ stage'[c] = "rollback"
    <3>1. k \in dirty
      BY <2>1
    <3>2. /\ k \in Conns \cap Reachable /\ k \notin available
          /\ \A c \in Clients : conn[c] = k =>
               pc[c] \in {"discard", "closing"} \/ stage[c] = "rollback"
      BY <2>1, <3>1 DEF SessionInv, MarksKnown, FailedOut
    <3>3. \A c \in Clients : stage[c] = "rollback" => pc[c] = "hold"
      BY DEF SessionInv, StagesHeld
    <3>4. Out(k)
      BY <3>2, <3>3 DEF Out
    <3> QED BY <1>2, <2>1, <3>2, <3>4, OutStaysOut
  <2> QED BY <2>1, <2>2 DEF SessionInv, FailedOut
<1> QED BY <1>3, <1>4, <1>5, <1>6

\* What release() does at its start: the task leaves its hold.
LEMMA BeginReleaseFrame ==
  ASSUME PoolInv, NEW c \in Clients, NEW b \in BOOLEAN, BeginRelease(c, b)
  PROVE  /\ pc[c] = "hold" /\ pc' = [pc EXCEPT ![c] = IF b THEN "discard" ELSE "release"]
         /\ conn[c] \in Conns /\ \A d \in Clients : d # c => conn[d] # conn[c]
         /\ conn[c] \notin available
         /\ UNCHANGED <<available, inUse, conn, cancels>> /\ Reachable' = Reachable
<1>1. /\ pc[c] = "hold" /\ pc' = [pc EXCEPT ![c] = IF b THEN "discard" ELSE "release"]
      /\ UNCHANGED <<available, inUse, conn, cancels>>
  BY DEF BeginRelease, Goto, poolVars
<1>2. conn[c] \in Conns
  BY <1>1 DEF PoolInv, TypeOK, KeysOwned, Keyless
<1>3. conn[c] # None
  BY <1>2, PoolAssumption DEF Conns
<1> QED BY <1>1, <1>2, <1>3 DEF PoolInv, ExclusiveUse, Reachable

\* A statement that ends well, with or without a rollback before it, gives back a
\* connection that is neither condemned nor marked by a failed statement.
LEMMA ReturnSession ==
  ASSUME SessionInv, NEW c \in Clients, BeginRelease(c, FALSE),
         stage' = [stage EXCEPT ![c] = "none"], UNCHANGED <<orphans, condemned>>,
         \/ stage[c] = "query" /\ UNCHANGED <<dirty, swallowed>>
         \/ stage[c] = "rollback" /\ dirty' = dirty \ {conn[c]} /\ UNCHANGED swallowed
         \/ stage[c] = "rollback" /\ dirty' = dirty /\ swallowed'
  PROVE  StagesHeld' /\ MarksKnown' /\ CondemnedOut' /\ FailedOut'
<1>t. /\ pc \in [Clients -> PcValues] /\ PoolInv
  BY DEF SessionInv, PoolInv, TypeOK
<1>1. /\ pc[c] = "hold" /\ pc' = [pc EXCEPT ![c] = "release"]
      /\ \A d \in Clients : d # c => conn[d] # conn[c]
      /\ UNCHANGED <<available, inUse, conn, cancels>> /\ Reachable' = Reachable
  BY <1>t, BeginReleaseFrame
<1>2. conn[c] \notin condemned
  BY <1>1 DEF SessionInv, CondemnedOut
<1>3. StagesHeld'
  BY <1>t, <1>1 DEF SessionInv, StagesHeld
<1>4. MarksKnown'
  BY <1>1 DEF SessionInv, MarksKnown
<1>5. CondemnedOut'
  BY <1>t, <1>1, <1>2 DEF SessionInv, CondemnedOut
<1>6. FailedOut'
  BY <1>t, <1>1 DEF SessionInv, FailedOut, StagesHeld
<1> QED BY <1>3, <1>4, <1>5, <1>6

\* A connection that is given up as broken is on its way to its eviction.
LEMMA DiscardSession ==
  ASSUME SessionInv, NEW c \in Clients, BeginRelease(c, TRUE),
         stage' \in {stage, [stage EXCEPT ![c] = "none"]}, stage'[c] = "none",
         UNCHANGED <<orphans, swallowed>>,
         dirty \subseteq dirty', dirty' \subseteq dirty \cup {conn[c]},
         condemned \subseteq condemned', condemned' \subseteq condemned \cup {conn[c]}
  PROVE  StagesHeld' /\ MarksKnown' /\ CondemnedOut' /\ FailedOut'
<1>t. /\ pc \in [Clients -> PcValues] /\ PoolInv
  BY DEF SessionInv, PoolInv, TypeOK
<1>1. /\ pc[c] = "hold" /\ pc' = [pc EXCEPT ![c] = "discard"]
      /\ conn[c] \in Conns /\ \A d \in Clients : d # c => conn[d] # conn[c]
      /\ conn[c] \notin available
      /\ UNCHANGED <<available, inUse, conn, cancels>> /\ Reachable' = Reachable
  BY <1>t, BeginReleaseFrame
<1>2. /\ pc'[c] = "discard"
      /\ \A d \in Clients : d # c => pc'[d] = pc[d] /\ stage'[d] = stage[d]
  BY <1>t, <1>1 DEF SessionInv, StagesHeld
<1>3. StagesHeld'
  BY <1>2 DEF SessionInv, StagesHeld
<1>4. MarksKnown'
  BY <1>1 DEF SessionInv, MarksKnown, Reachable
<1>5. CondemnedOut'
  BY <1>1, <1>2 DEF SessionInv, CondemnedOut
<1>6. FailedOut'
  BY <1>1, <1>2 DEF SessionInv, FailedOut
<1> QED BY <1>3, <1>4, <1>5, <1>6

\* A statement and its rollback: the steps of a task that holds its connection.
LEMMA UseSession ==
  ASSUME SessionInv, NEW c \in Clients, Use(c)
  PROVE  StagesHeld' /\ MarksKnown' /\ CondemnedOut' /\ FailedOut'
<1>s. stage[c] \in {"none", "query", "rollback"} /\ (stage[c] # "none" => pc[c] = "hold")
  BY DEF SessionInv, StagesHeld
<1>1. CASE BeginQuery(c)
  <2>1. /\ stage' = [stage EXCEPT ![c] = "query"] /\ pc[c] = "hold" /\ stage[c] = "none"
        /\ UNCHANGED <<available, inUse, conn, pc, cancels, orphans, dirty, condemned, swallowed>>
    BY <1>1 DEF BeginQuery, Stage, vars, poolVars, taskVars, envVars
  <2>2. Reachable' = Reachable
    BY <2>1 DEF Reachable
  <2> QED BY <2>1, <2>2 DEF SessionInv, StagesHeld, MarksKnown, CondemnedOut, FailedOut
<1>2. CASE QueryError(c)
  <2>1. /\ stage' = [stage EXCEPT ![c] = "rollback"] /\ pc[c] = "hold"
        /\ dirty' = dirty \cup {conn[c]}
        /\ UNCHANGED <<available, inUse, conn, pc, cancels, orphans, condemned, swallowed>>
    BY <1>s, <1>2 DEF QueryError, Stage, vars, poolVars, taskVars, envVars
  <2>2. Reachable' = Reachable
    BY <2>1 DEF Reachable
  <2>3. conn[c] \in Conns
    BY <2>1 DEF SessionInv, PoolInv, TypeOK, KeysOwned, Keyless
  <2>4. conn[c] \notin available /\ \A d \in Clients : d # c => conn[d] # conn[c]
    BY <2>3, PoolAssumption DEF SessionInv, PoolInv, ExclusiveUse, Conns
  <2>5. StagesHeld'
    BY <2>1 DEF SessionInv, StagesHeld
  <2>6. MarksKnown'
    BY <2>1, <2>2, <2>3 DEF SessionInv, MarksKnown, Reachable
  <2>7. CondemnedOut'
    BY <2>1 DEF SessionInv, CondemnedOut
  <2>8. FailedOut'
    BY <2>1, <2>4 DEF SessionInv, FailedOut, StagesHeld
  <2> QED BY <2>5, <2>6, <2>7, <2>8
<1>3. CASE QueryOk(c) \/ RollbackOk(c) \/ RollbackFails(c)
  <2>1. /\ BeginRelease(c, FALSE) /\ stage' = [stage EXCEPT ![c] = "none"]
        /\ UNCHANGED <<orphans, condemned>>
        /\ \/ stage[c] = "query" /\ UNCHANGED <<dirty, swallowed>>
           \/ stage[c] = "rollback" /\ dirty' = dirty \ {conn[c]} /\ UNCHANGED swallowed
           \/ stage[c] = "rollback" /\ dirty' = dirty /\ swallowed'
    BY <1>3 DEF QueryOk, RollbackOk, RollbackFails, Stage
  <2> QED BY <2>1, ReturnSession
<1>4. CASE QueryRejected(c) \/ ConnectionError(c) \/ QueryErrorRejected(c)
  <2>1. /\ BeginRelease(c, TRUE) /\ UNCHANGED <<orphans, swallowed>>
        /\ stage' \in {stage, [stage EXCEPT ![c] = "none"]}
        /\ dirty \subseteq dirty' /\ dirty' \subseteq dirty \cup {conn[c]}
        /\ condemned \subseteq condemned' /\ condemned' \subseteq condemned \cup {conn[c]}
    BY <1>4 DEF QueryRejected, ConnectionError, QueryErrorRejected, Stage, sessionVars
  <2>2. stage'[c] = "none"
    BY <1>4 DEF QueryRejected, ConnectionError, QueryErrorRejected, Stage, sessionVars, SessionInv,
                StagesHeld
  <2> QED BY <2>1, <2>2, DiscardSession
<1> QED BY <1>1, <1>2, <1>3, <1>4 DEF Use

\* A session that starts, is cancelled while it uses its connection, or whose
\* abandoned job ends, and the executor's shutdown.
LEMMA OtherSession ==
  ASSUME SessionInv,
         \/ \E c \in Clients : Open(c) \/ CancelUse(c)
         \/ \E k \in Conns : OrphanEnds(k)
         \/ ShutdownExecutor
         \/ UNCHANGED allVars
  PROVE  StagesHeld' /\ MarksKnown' /\ CondemnedOut' /\ FailedOut'
<1>t. /\ pc \in [Clients -> PcValues] /\ PoolInv /\ cancels \in Nat
  BY DEF SessionInv, PoolInv, TypeOK
<1>1. ASSUME NEW c \in Clients, Open(c)
      PROVE  StagesHeld' /\ MarksKnown' /\ CondemnedOut' /\ FailedOut'
  <2>1. /\ pc[c] = "idle" /\ pc' = [pc EXCEPT ![c] = "enter"]
        /\ UNCHANGED <<available, inUse, conn, cancels, stage, orphans, dirty, condemned, swallowed>>
    BY <1>1 DEF Open, BeginAcquire, Goto, poolVars, envVars, sessionVars
  <2>2. Reachable' = Reachable
    BY <2>1 DEF Reachable
  <2>3. \A d \in Clients : pc[d] # "idle" => pc'[d] = pc[d]
    BY <1>t, <2>1
  <2> QED BY <2>1, <2>2, <2>3 DEF SessionInv, StagesHeld, MarksKnown, CondemnedOut, FailedOut
<1>2. ASSUME NEW c \in Clients, CancelUse(c)
      PROVE  StagesHeld' /\ MarksKnown' /\ CondemnedOut' /\ FailedOut'
  <2>1. /\ pc[c] = "hold" /\ pc' = [pc EXCEPT ![c] = "release"]
        /\ stage' = [stage EXCEPT ![c] = "none"]
        /\ orphans' \subseteq orphans \cup {conn[c]}
        /\ cancels' = cancels + 1
        /\ UNCHANGED <<available, inUse, conn, dirty, condemned, swallowed>>
    BY <1>2 DEF CancelUse, CancelHold, Cancelled, Goto, Stage, poolVars
  <2>2. Reachable' = Reachable /\ conn[c] \in Conns \cap Reachable
    BY <2>1 DEF Reachable, SessionInv, PoolInv, TypeOK, KeysOwned, Keyless
  <2>3. conn[c] \notin condemned
    BY <2>1 DEF SessionInv, CondemnedOut
  <2>4. StagesHeld'
    BY <1>t, <2>1 DEF SessionInv, StagesHeld
  <2>5. MarksKnown'
    BY <2>1, <2>2 DEF SessionInv, MarksKnown
  <2>6. CondemnedOut'
    BY <1>t, <2>1, <2>3 DEF SessionInv, CondemnedOut
  <2>7. FailedOut'
    BY <1>t, <2>1 DEF FailedOut
  <2> QED BY <2>4, <2>5, <2>6, <2>7
<1>3. ASSUME NEW k \in Conns, OrphanEnds(k)
      PROVE  StagesHeld' /\ MarksKnown' /\ CondemnedOut' /\ FailedOut'
  <2>1. /\ k \in orphans /\ orphans' \subseteq orphans /\ dirty' \subseteq dirty \cup {k}
        /\ UNCHANGED <<available, inUse, conn, pc, cancels, stage, condemned, swallowed>>
    BY <1>3 DEF OrphanEnds, vars, poolVars, taskVars, envVars
  <2>2. Reachable' = Reachable
    BY <2>1 DEF Reachable
  <2>3. StagesHeld' /\ CondemnedOut'
    BY <2>1 DEF SessionInv, StagesHeld, CondemnedOut
  <2>4. MarksKnown'
    BY <2>1, <2>2 DEF SessionInv, MarksKnown
  <2>5. FailedOut'
    BY <2>1 DEF SessionInv, FailedOut
  <2> QED BY <2>3, <2>4, <2>5
<1>4. CASE ShutdownExecutor \/ UNCHANGED allVars
  <2>1. UNCHANGED <<available, inUse, conn, pc, cancels, stage, orphans, dirty, condemned, swallowed>>
    BY <1>4 DEF ShutdownExecutor, allVars, sessionVars, vars, poolVars, taskVars, envVars
  <2>2. Reachable' = Reachable
    BY <2>1 DEF Reachable
  <2> QED BY <2>1, <2>2 DEF SessionInv, StagesHeld, MarksKnown, CondemnedOut, FailedOut
<1> QED BY <1>1, <1>2, <1>3, <1>4

\* The invariant of the sessions holds in every state.
THEOREM SessionInvariant == SessionSpec => []SessionInv
<1>1. SessionInit => SessionInv
  <2> SUFFICES ASSUME SessionInit PROVE SessionInv
    OBVIOUS
  <2>1. PoolInv
    BY InitInv DEF SessionInit
  <2>2. StagesHeld /\ MarksKnown /\ CondemnedOut /\ FailedOut
    BY DEF SessionInit, StagesHeld, MarksKnown, CondemnedOut, FailedOut
  <2> QED BY <2>1, <2>2 DEF SessionInv
<1>2. SessionInv /\ [SessionNext]_allVars => SessionInv'
  <2> SUFFICES ASSUME SessionInv, [SessionNext]_allVars PROVE SessionInv'
    OBVIOUS
  <2>1. [Next]_vars
    BY SessionStepIsPoolStep
  <2>2. PoolInv'
    BY <2>1, TypeStep, OwnershipStep, CapacityStep DEF SessionInv, PoolInv
  <2>3. StagesHeld' /\ MarksKnown' /\ CondemnedOut' /\ FailedOut'
    <3>1. CASE PoolStep
      BY <2>1, <3>1, PoolStepSession
    <3>2. CASE \E c \in Clients : Use(c)
      BY <3>2, UseSession
    <3>3. CASE \/ \E c \in Clients : Open(c) \/ CancelUse(c)
               \/ \E k \in Conns : OrphanEnds(k)
               \/ ShutdownExecutor
               \/ UNCHANGED allVars
      BY <3>3, OtherSession
    <3> QED BY <3>1, <3>2, <3>3 DEF SessionNext, PoolStep
  <2> QED BY <2>2, <2>3 DEF SessionInv
<1> QED BY <1>1, <1>2, PTL DEF SessionSpec

\* A connection on which a connection-level error was recognised is never idle again,
\* whatever is cancelled on the way to its eviction (get_async_session: it "must never
\* go back to `_available`").
THEOREM BrokenStaysOut == SessionSpec => []BrokenNeverReused
<1>1. SessionInv => BrokenNeverReused
  BY DEF SessionInv, CondemnedOut, BrokenNeverReused
<1> QED BY SessionInvariant, <1>1, PTL

\* Until a task is cancelled or a rollback fails unseen, the next user of an idle
\* connection meets nothing of a failed statement (session.py: rollback before release).
THEOREM IdleIsClean == SessionSpec => []IdleIsCleanUnlessSwallowed
<1>1. SessionInv => IdleIsCleanUnlessSwallowed
  BY DEF SessionInv, FailedOut, IdleIsCleanUnlessSwallowed
<1> QED BY SessionInvariant, <1>1, PTL
=============================================================================
