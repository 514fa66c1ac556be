--------------------------- MODULE SyncPoolProofs ---------------------------
(***************************************************************************)
(* Proofs about SyncPool for any number of threads and connections and any *)
(* pool bounds.  SyncInv is inductive; the type invariant and the three    *)
(* safety invariants are among its conjuncts.                              *)
(***************************************************************************)
EXTENDS SyncPool, FiniteSetTheorems, TLAPS

\* Every step keeps the types: what acquire(), release(), metrics() and close_all()
\* write stays in range, the sizer's size between its bounds included.
LEMMA TypeStep == TypeOK /\ KeysOwned /\ [Next]_vars => TypeOK'
<1> SUFFICES ASSUME TypeOK, KeysOwned, [Next]_vars
             PROVE  TypeOK'
  OBVIOUS
<1> USE SyncPoolAssumption, SizerAssumption
    DEF TypeOK, PcValues, Acquiring, bookVars, sizerVars, threadVars, Goto, Leave, LeaveLoop
<1>1. ASSUME NEW t \in Threads, BeginAcquire(t) PROVE TypeOK'
  BY <1>1 DEF BeginAcquire
<1>2. ASSUME NEW t \in Threads, Expire(t) PROVE TypeOK'
  BY <1>2 DEF Expire
<1>3. ASSUME NEW t \in Threads, TakeIdle(t) PROVE TypeOK'
  BY <1>3 DEF TakeIdle
<1>4. ASSUME NEW t \in Threads, Reserve(t) PROVE TypeOK'
  BY <1>4 DEF Reserve, FreshKeys, Conns
<1>5. ASSUME NEW t \in Threads, Wait(t) PROVE TypeOK'
  BY <1>5 DEF Wait
<1>6. ASSUME NEW t \in Threads, Refuse(t) PROVE TypeOK'
  BY <1>6 DEF Refuse
<1>7. ASSUME NEW t \in Threads, CreateOk(t) PROVE TypeOK'
  BY <1>7 DEF CreateOk
<1>8. ASSUME NEW t \in Threads, CreateFail(t) PROVE TypeOK'
  BY <1>8 DEF CreateFail
<1>9. ASSUME NEW t \in Threads, Unreserve(t) PROVE TypeOK'
  BY <1>9 DEF Unreserve
<1>10. ASSUME NEW t \in Threads, Install(t) PROVE TypeOK'
  BY <1>10 DEF Install, KeysOwned, Creating, Conns
<1>11. ASSUME NEW t \in Threads, NEW b \in BOOLEAN, BeginRelease(t, b) PROVE TypeOK'
  BY <1>11 DEF BeginRelease
<1>12. ASSUME NEW t \in Threads, ReleaseUnknown(t) PROVE TypeOK'
  BY <1>12 DEF ReleaseUnknown
<1>13. ASSUME NEW t \in Threads, ReturnIdle(t) PROVE TypeOK'
  BY <1>13 DEF ReturnIdle, Notify
<1>14. ASSUME NEW t \in Threads, Evict(t) PROVE TypeOK'
  BY <1>14 DEF Evict, Notify
<1>15. CASE Metrics
  BY <1>15 DEF Metrics, Adjust
<1>16. CASE CloseAll
  BY <1>16 DEF CloseAll
<1>17. CASE UNCHANGED vars
  BY <1>17 DEF vars
<1> QED
  BY <1>1, <1>2, <1>3, <1>4, <1>5, <1>6, <1>7, <1>8, <1>9, <1>10, <1>11, <1>12, <1>13,
     <1>14, <1>15, <1>16, <1>17
  DEF Next, Progress

\* Every step keeps the ownership invariants: a key is in one book and belongs to one
\* thread, and only threads in Condition.wait() are in its queue.
LEMMA OwnershipStep ==
  SyncInv /\ [Next]_vars => (BooksDisjoint /\ KeysOwned /\ QueueWaits /\ ExclusiveUse)'
<1> DEFINE Own == BooksDisjoint /\ KeysOwned /\ QueueWaits /\ ExclusiveUse
<1> SUFFICES ASSUME SyncInv, [Next]_vars
             PROVE  Own'
  OBVIOUS
<1>0. TypeOK /\ Own
  BY DEF SyncInv
<1> USE <1>0, SyncPoolAssumption, SizerAssumption
    DEF TypeOK, BooksDisjoint, KeysOwned, QueueWaits, ExclusiveUse,
        PcValues, Acquiring, Creating, Conns, bookVars, sizerVars, threadVars,
        Goto, Leave, LeaveLoop, AtTop, Notified
<1>1. ASSUME NEW t \in Threads, BeginAcquire(t) PROVE Own'
  BY <1>1 DEF BeginAcquire
<1>2. ASSUME NEW t \in Threads, Expire(t) PROVE Own'
  BY <1>2 DEF Expire
<1>3. ASSUME NEW t \in Threads, TakeIdle(t) PROVE Own'
  BY <1>3 DEF TakeIdle
<1>4. ASSUME NEW t \in Threads, Reserve(t) PROVE Own'
  <2> DEFINE k == CHOOSE x \in FreshKeys : TRUE
  <2>1. k \in FreshKeys
    BY <1>4 DEF Reserve
  <2>2. k \in Conns /\ k \notin available /\ k \notin inUse /\ k \notin reserved
    BY <2>1 DEF FreshKeys
  <2>3. \A u \in Threads : conn[u] # k
    BY <2>1 DEF FreshKeys
  <2>4. /\ reserved' = reserved \cup {k}
        /\ conn' = [conn EXCEPT ![t] = k]
        /\ pc' = [pc EXCEPT ![t] = "create"]
        /\ waiters' = waiters \ {t}
        /\ UNCHANGED <<available, inUse, closed>>
        /\ conn[t] = None
    BY <1>4 DEF Reserve
  <2> HIDE DEF k
  <2> QED BY <2>2, <2>3, <2>4
<1>5. ASSUME NEW t \in Threads, Wait(t) PROVE Own'
  BY <1>5 DEF Wait
<1>6. ASSUME NEW t \in Threads, Refuse(t) PROVE Own'
  BY <1>6 DEF Refuse
<1>7. ASSUME NEW t \in Threads, CreateOk(t) PROVE Own'
  BY <1>7 DEF CreateOk
<1>8. ASSUME NEW t \in Threads, CreateFail(t) PROVE Own'
  BY <1>8 DEF CreateFail
<1>9. ASSUME NEW t \in Threads, Unreserve(t) PROVE Own'
  <2>1. conn[t] # None /\ \A u \in Threads \ {t} : conn[u] # conn[t]
    BY <1>9 DEF Unreserve
  <2>2. BooksDisjoint'
    BY <1>9, <2>1 DEF Unreserve
  <2>3. KeysOwned'
    BY <1>9, <2>1 DEF Unreserve
  <2>4. QueueWaits' /\ ExclusiveUse'
    BY <1>9, <2>1 DEF Unreserve
  <2> QED BY <2>2, <2>3, <2>4
<1>10. ASSUME NEW t \in Threads, Install(t) PROVE Own'
  <2>1. conn[t] # None /\ \A u \in Threads \ {t} : conn[u] # conn[t]
    BY <1>10 DEF Install
  <2>2. BooksDisjoint'
    BY <1>10, <2>1 DEF Install
  <2>3. KeysOwned'
    BY <1>10, <2>1 DEF Install
  <2>4. QueueWaits' /\ ExclusiveUse'
    BY <1>10, <2>1 DEF Install
  <2> QED BY <2>2, <2>3, <2>4
<1>11. ASSUME NEW t \in Threads, NEW b \in BOOLEAN, BeginRelease(t, b) PROVE Own'
  BY <1>11 DEF BeginRelease
<1>12. ASSUME NEW t \in Threads, ReleaseUnknown(t) PROVE Own'
  BY <1>12 DEF ReleaseUnknown
<1>13. ASSUME NEW t \in Threads, ReturnIdle(t) PROVE Own'
  <2>1. conn[t] # None /\ \A u \in Threads \ {t} : conn[u] # conn[t]
    BY <1>13 DEF ReturnIdle
  <2>2. BooksDisjoint'
    BY <1>13, <2>1 DEF ReturnIdle
  <2>3. KeysOwned'
    BY <1>13, <2>1 DEF ReturnIdle
  <2>4. QueueWaits'
    BY <1>13 DEF ReturnIdle, Notify
  <2>5. ExclusiveUse'
    BY <1>13, <2>1 DEF ReturnIdle
  <2> QED BY <2>2, <2>3, <2>4, <2>5
<1>14. ASSUME NEW t \in Threads, Evict(t) PROVE Own'
  <2>1. BooksDisjoint'
    BY <1>14 DEF Evict
  <2>2. KeysOwned'
    BY <1>14 DEF Evict
  <2>3. QueueWaits'
    BY <1>14 DEF Evict, Notify
  <2>4. ExclusiveUse'
    BY <1>14 DEF Evict
  <2> QED BY <2>1, <2>2, <2>3, <2>4
<1>15. CASE Metrics
  BY <1>15 DEF Metrics
<1>16. CASE CloseAll
  BY <1>16 DEF CloseAll
<1>17. CASE UNCHANGED vars
  BY <1>17 DEF vars
<1> QED
  BY <1>1, <1>2, <1>3, <1>4, <1>5, <1>6, <1>7, <1>8, <1>9, <1>10, <1>11, <1>12, <1>13,
     <1>14, <1>15, <1>16, <1>17
  DEF Next, Progress

\* Adding a key adds at most one, removing a key removes at most one.
LEMMA CardinalitySteps ==
  ASSUME NEW S, IsFiniteSet(S), NEW x
  PROVE  /\ Cardinality(S \cup {x}) \in Nat
         /\ Cardinality(S \cup {x}) <= Cardinality(S) + 1
         /\ Cardinality(S \ {x}) \in Nat
         /\ Cardinality(S \ {x}) <= Cardinality(S)
         /\ Cardinality(S \ {x}) >= Cardinality(S) - 1
<1>1. Cardinality(S) \in Nat
  BY FS_CardinalityType
<1>2. IsFiniteSet(S \cup {x}) /\ IsFiniteSet(S \ {x})
  BY FS_AddElement, FS_RemoveElement
<1>3. Cardinality(S \cup {x}) \in Nat /\ Cardinality(S \ {x}) \in Nat
  BY <1>2, FS_CardinalityType
<1>4. Cardinality(S \cup {x}) = IF x \in S THEN Cardinality(S) ELSE Cardinality(S) + 1
  BY FS_AddElement
<1>5. Cardinality(S \ {x}) = IF x \in S THEN Cardinality(S) - 1 ELSE Cardinality(S)
  BY FS_RemoveElement
<1> QED BY <1>1, <1>3, <1>4, <1>5

\* The pool's books are finite.
LEMMA FiniteBooks ==
  ASSUME TypeOK
  PROVE  /\ IsFiniteSet(available) /\ Cardinality(available) \in Nat
         /\ IsFiniteSet(inUse) /\ Cardinality(inUse) \in Nat
         /\ IsFiniteSet(reserved) /\ Cardinality(reserved) \in Nat
<1>1. IsFiniteSet(Conns)
  BY SyncPoolAssumption, SizerAssumption, FS_Interval DEF Conns
<1>2. IsFiniteSet(available) /\ IsFiniteSet(inUse) /\ IsFiniteSet(reserved)
  BY <1>1, FS_Subset DEF TypeOK
<1> QED BY <1>2, FS_CardinalityType

\* Every step keeps the number of connections the pool owns within max_conn: acquire()
\* reserves a slot only when nothing is idle, so that comparing len(_in_use) alone
\* with the current size is enough.
LEMMA CapacityStep == SyncInv /\ [Next]_vars => CapacityBound'
<1> SUFFICES ASSUME SyncInv, [Next]_vars, ~closed'
             PROVE  (Cardinality(available) + Occupied <= MaxConn)'
  BY DEF CapacityBound
<1> DEFINE Bounded == Cardinality(available) + Occupied <= MaxConn
<1>1. /\ IsFiniteSet(available) /\ Cardinality(available) \in Nat
      /\ IsFiniteSet(inUse) /\ Cardinality(inUse) \in Nat
      /\ IsFiniteSet(reserved) /\ Cardinality(reserved) \in Nat
  BY FiniteBooks DEF SyncInv
<1>2. ~closed =>
        Cardinality(available) + Cardinality(inUse) + Cardinality(reserved) <= MaxConn
  BY <1>1, SizerAssumption DEF SyncInv, CapacityBound, Occupied
<1>3. CASE ~closed /\ UNCHANGED bookVars
  BY <1>1, <1>2, <1>3, SizerAssumption DEF Occupied, bookVars
<1>4. ASSUME NEW t \in Threads, TakeIdle(t) PROVE Bounded'
  <2>1. PICK k \in available : available' = available \ {k} /\ inUse' = inUse \cup {k}
    BY <1>4 DEF TakeIdle
  <2>2. ~closed /\ reserved' = reserved
    BY <1>4 DEF TakeIdle
  <2>3. Cardinality(available') = Cardinality(available) - 1
    BY <1>1, <2>1, FS_RemoveElement
  <2>4. Cardinality(inUse') = Cardinality(inUse) + 1
    BY <1>1, <2>1, FS_AddElement DEF SyncInv, BooksDisjoint
  <2> QED BY <1>1, <1>2, <2>2, <2>3, <2>4, SizerAssumption DEF Occupied
<1>5. ASSUME NEW t \in Threads, Reserve(t) PROVE Bounded'
  <2>1. PICK k : reserved' = reserved \cup {k}
    BY <1>5 DEF Reserve
  <2>2. available' = {} /\ inUse' = inUse /\ Occupied < current
    BY <1>5 DEF Reserve
  <2>3. Cardinality(reserved') <= Cardinality(reserved) + 1 /\ Cardinality(reserved') \in Nat
    BY <1>1, <2>1, CardinalitySteps
  <2>4. Cardinality(available') = 0
    BY <2>2, FS_EmptySet
  <2>5. current \in Int /\ current <= MaxConn
    BY SizerAssumption DEF SyncInv, TypeOK
  <2> QED BY <1>1, <2>2, <2>3, <2>4, <2>5, SizerAssumption DEF Occupied
<1>6. ASSUME NEW t \in Threads, Unreserve(t) PROVE Bounded'
  <2>1. reserved' = reserved \ {conn[t]} /\ UNCHANGED <<available, inUse, closed>>
    BY <1>6 DEF Unreserve
  <2>2. Cardinality(reserved') <= Cardinality(reserved) /\ Cardinality(reserved') \in Nat
    BY <1>1, <2>1, CardinalitySteps
  <2> QED BY <1>1, <1>2, <2>1, <2>2, SizerAssumption DEF Occupied
<1>7. ASSUME NEW t \in Threads, Install(t) PROVE Bounded'
  <2>1. /\ reserved' = reserved \ {conn[t]} /\ inUse' = inUse \cup {conn[t]}
        /\ UNCHANGED <<available, closed>>
    BY <1>7 DEF Install
  <2>2. conn[t] \in reserved
    BY <1>7, <2>1 DEF Install, SyncInv, KeysOwned, Creating
  <2>3. Cardinality(reserved') = Cardinality(reserved) - 1
    BY <1>1, <2>1, <2>2, FS_RemoveElement
  <2>4. Cardinality(inUse') <= Cardinality(inUse) + 1 /\ Cardinality(inUse') \in Nat
    BY <1>1, <2>1, CardinalitySteps
  <2> QED BY <1>1, <1>2, <2>1, <2>3, <2>4, SizerAssumption DEF Occupied
<1>8. ASSUME NEW t \in Threads, ReturnIdle(t) PROVE Bounded'
  <2>1. /\ conn[t] \in inUse
        /\ inUse' = inUse \ {conn[t]} /\ available' = available \cup {conn[t]}
        /\ UNCHANGED <<reserved, closed>>
    BY <1>8 DEF ReturnIdle
  <2>2. Cardinality(inUse') = Cardinality(inUse) - 1
    BY <1>1, <2>1, FS_RemoveElement
  <2>3. Cardinality(available') <= Cardinality(available) + 1 /\ Cardinality(available') \in Nat
    BY <1>1, <2>1, CardinalitySteps
  <2> QED BY <1>1, <1>2, <2>1, <2>2, <2>3, SizerAssumption DEF Occupied
<1>9. ASSUME NEW t \in Threads, Evict(t) PROVE Bounded'
  <2>1. inUse' = inUse \ {conn[t]} /\ UNCHANGED <<available, reserved, closed>>
    BY <1>9 DEF Evict
  <2>2. Cardinality(inUse') <= Cardinality(inUse) /\ Cardinality(inUse') \in Nat
    BY <1>1, <2>1, CardinalitySteps
  <2> QED BY <1>1, <1>2, <2>1, <2>2, SizerAssumption DEF Occupied
<1>10. ASSUME NEW t \in Threads,
              \/ BeginAcquire(t) \/ Expire(t) \/ Wait(t) \/ Refuse(t)
              \/ CreateOk(t) \/ CreateFail(t) \/ ReleaseUnknown(t)
              \/ \E b \in BOOLEAN : BeginRelease(t, b)
       PROVE  ~closed /\ UNCHANGED bookVars
  BY <1>10 DEF BeginAcquire, Expire, Wait, Refuse, CreateOk, CreateFail, ReleaseUnknown, BeginRelease
<1>11. CASE Metrics \/ UNCHANGED vars
  BY <1>3, <1>11 DEF Metrics, vars
<1>12. ~CloseAll
  BY DEF CloseAll
<1> QED
  BY <1>3, <1>4, <1>5, <1>6, <1>7, <1>8, <1>9, <1>10, <1>11, <1>12 DEF Next, Progress

\* Every step keeps the wakeups paired with the idle connections.  A thread that takes
\* a connection uses up at most its own wakeup; release() adds one connection and
\* wakes one sleeper, which had not been woken before; nobody reserves, sleeps or
\* gives up while a connection is idle.
LEMMA WakeupStep == SyncInv /\ [Next]_vars => NoLostWakeup'
<1> DEFINE W == {t \in Threads : Notified(t)}
<1> SUFFICES ASSUME SyncInv, [Next]_vars, waiters' # {}
             PROVE  Cardinality(available') <= Cardinality(W')
  BY DEF NoLostWakeup
<1>1. IsFiniteSet(available) /\ Cardinality(available) \in Nat
  BY FiniteBooks DEF SyncInv
<1>2. IsFiniteSet(W) /\ Cardinality(W) \in Nat /\ IsFiniteSet(W') /\ Cardinality(W') \in Nat
  <2>1. W \subseteq Threads /\ W' \subseteq Threads
    OBVIOUS
  <2>2. IsFiniteSet(W) /\ IsFiniteSet(W')
    BY <2>1, SyncPoolAssumption, FS_Subset
  <2> QED BY <2>2, FS_CardinalityType
<1>3. waiters # {} => Cardinality(available) <= Cardinality(W)
  BY DEF SyncInv, NoLostWakeup
<1>4. pc \in [Threads -> PcValues] /\ QueueWaits
  BY DEF SyncInv, TypeOK
<1>5. CASE available' = {}
  <2>1. Cardinality(available') = 0
    BY <1>5, FS_EmptySet
  <2> QED BY <1>2, <2>1
<1>6. CASE UNCHANGED <<available, waiters>> /\ W' = W
  BY <1>3, <1>6
<1>7. ASSUME NEW t \in Threads,
             \/ BeginAcquire(t) \/ Expire(t) \/ CreateOk(t) \/ CreateFail(t) \/ Unreserve(t)
             \/ Install(t) \/ ReleaseUnknown(t) \/ \E b \in BOOLEAN : BeginRelease(t, b)
      PROVE  UNCHANGED <<available, waiters>> /\ W' = W
  BY <1>4, <1>7
  DEF BeginAcquire, Expire, CreateOk, CreateFail, Unreserve, Install, ReleaseUnknown, BeginRelease,
      Goto, Leave, Notified, bookVars
<1>8. ASSUME NEW t \in Threads, Reserve(t) \/ Wait(t) \/ Refuse(t) PROVE available' = {}
  BY <1>8 DEF Reserve, Wait, Refuse, bookVars
<1>9. ASSUME NEW t \in Threads, TakeIdle(t) PROVE Cardinality(available') <= Cardinality(W')
  <2>1. PICK k \in available : available' = available \ {k}
    BY <1>9 DEF TakeIdle
  <2>2. Cardinality(available') = Cardinality(available) - 1
    BY <1>1, <2>1, FS_RemoveElement
  <2>3. waiters' = waiters \ {t} /\ pc' = [pc EXCEPT ![t] = "hold"]
    BY <1>9 DEF TakeIdle, LeaveLoop, Goto
  <2>4. (W \ {t}) \subseteq W'
    BY <1>4, <2>3 DEF Notified
  <2>5. Cardinality(W \ {t}) <= Cardinality(W')
    BY <1>2, <2>4, FS_Subset
  <2>6. Cardinality(W \ {t}) \in Nat /\ Cardinality(W \ {t}) >= Cardinality(W) - 1
    BY <1>2, CardinalitySteps
  <2>7. Cardinality(available) <= Cardinality(W)
    BY <1>3, <2>3
  <2> QED BY <1>1, <1>2, <2>2, <2>5, <2>6, <2>7
<1>10. ASSUME NEW t \in Threads, ReturnIdle(t) PROVE Cardinality(available') <= Cardinality(W')
  <2>1. /\ available' = available \cup {conn[t]} /\ Notify
        /\ pc[t] = "release" /\ pc' = [pc EXCEPT ![t] = "idle"]
    BY <1>10 DEF ReturnIdle, Leave, Goto
  <2>2. waiters # {}
    BY <2>1 DEF Notify
  <2>3. PICK u \in waiters : waiters' = waiters \ {u}
    BY <2>1, <2>2 DEF Notify
  <2>4. u \in Threads /\ pc[u] = "wait"
    BY <1>4, <2>3 DEF QueueWaits, SyncInv, TypeOK
  <2>5. u \notin W /\ (W \cup {u}) \subseteq W'
    BY <1>4, <2>1, <2>3, <2>4 DEF Notified
  <2>6. Cardinality(W \cup {u}) = Cardinality(W) + 1
    BY <1>2, <2>5, FS_AddElement
  <2>7. Cardinality(W \cup {u}) <= Cardinality(W')
    BY <1>2, <2>5, FS_Subset
  <2>8. Cardinality(available') <= Cardinality(available) + 1 /\ Cardinality(available') \in Nat
    BY <1>1, <2>1, CardinalitySteps
  <2> QED BY <1>1, <1>2, <1>3, <2>2, <2>6, <2>7, <2>8
<1>11. ASSUME NEW t \in Threads, Evict(t) PROVE Cardinality(available') <= Cardinality(W')
  <2>1. /\ available' = available /\ Notify
        /\ pc[t] = "discard" /\ pc' = [pc EXCEPT ![t] = "idle"]
    BY <1>11 DEF Evict, Leave, Goto
  <2>2. waiters # {} /\ waiters' \subseteq waiters
    BY <2>1 DEF Notify
  <2>3. W \subseteq W'
    BY <1>4, <2>1, <2>2 DEF Notified
  <2>4. Cardinality(W) <= Cardinality(W')
    BY <1>2, <2>3, FS_Subset
  <2> QED BY <1>1, <1>2, <1>3, <2>1, <2>2, <2>4
<1>12. CASE Metrics
  BY <1>6, <1>12 DEF Metrics, bookVars, threadVars, Notified
<1>13. CASE CloseAll
  BY <1>5, <1>13 DEF CloseAll
<1>14. CASE UNCHANGED vars
  BY <1>6, <1>14 DEF vars, bookVars, threadVars, Notified
<1> QED
  BY <1>5, <1>6, <1>7, <1>8, <1>9, <1>10, <1>11, <1>12, <1>13, <1>14 DEF Next, Progress

\* The initial pool is empty and nobody uses it.
LEMMA InitInv == Init => SyncInv
<1> SUFFICES ASSUME Init PROVE SyncInv
  OBVIOUS
<1>1. TypeOK
  <2>1. closed \in BOOLEAN
    BY Zenon DEF Init
  <2>2. pc \in [Threads -> PcValues] /\ conn \in [Threads -> Conns \cup {None}]
    BY DEF Init, PcValues
  <2>3. current \in MinConn..MaxConn /\ streak \in 0..Cooldown
    BY SizerAssumption DEF Init, SizerInit
  <2>4. /\ available \subseteq Conns /\ inUse \subseteq Conns /\ reserved \subseteq Conns
        /\ waiters \subseteq Threads /\ late \subseteq Threads
    BY DEF Init
  <2> QED BY <2>1, <2>2, <2>3, <2>4 DEF TypeOK
<1>2. BooksDisjoint /\ KeysOwned /\ QueueWaits /\ ExclusiveUse /\ NoLostWakeup
  BY DEF Init, BooksDisjoint, KeysOwned, QueueWaits, ExclusiveUse, NoLostWakeup, Creating
<1>3. CapacityBound
  BY SizerAssumption, FS_EmptySet DEF Init, CapacityBound, Occupied
<1> QED BY <1>1, <1>2, <1>3 DEF SyncInv

\* SyncInv is an invariant of the pool under any interleaving of threads, failed
\* creation, timeout, eviction and close_all().
THEOREM SyncInvariant == Spec => []SyncInv
<1>1. SyncInv /\ [Next]_vars => SyncInv'
  BY TypeStep, OwnershipStep, CapacityStep, WakeupStep DEF SyncInv
<1> QED BY InitInv, <1>1, PTL DEF Spec

\* The synchronous pool never owns more than max_conn connections before close_all().
THEOREM SyncCapacity == Spec => []CapacityBound
<1>1. SyncInv => CapacityBound
  BY DEF SyncInv
<1> QED BY SyncInvariant, <1>1, PTL

\* No connection is handed to two threads, or idle while a thread has it.
THEOREM SyncExclusive == Spec => []ExclusiveUse
<1>1. SyncInv => ExclusiveUse
  BY DEF SyncInv
<1> QED BY SyncInvariant, <1>1, PTL

\* While a thread sleeps in acquire(), every idle connection has a notified thread
\* coming for it.
THEOREM SyncNoLostWakeup == Spec => []NoLostWakeup
<1>1. SyncInv => NoLostWakeup
  BY DEF SyncInv
<1> QED BY SyncInvariant, <1>1, PTL

\* The abstract pool counts as this one does.
LEMMA SameCardinality == ASSUME NEW S PROVE Promised!Cardinality(S) = Cardinality(S)
BY DEF Promised!Cardinality, Cardinality

\* Every step of the pool is one that BoundedPool allows, or changes nothing that it
\* speaks of.
LEMMA BoundedPoolStep == SyncInv /\ [Next]_vars => [Promised!Next]_(Promised!poolState)
<1> DEFINE Step == Promised!Next
           Stutter == UNCHANGED Promised!poolState
<1> SUFFICES ASSUME SyncInv, [Next]_vars
             PROVE  Step \/ Stutter
  OBVIOUS
<1>0. TypeOK /\ BooksDisjoint /\ KeysOwned /\ ExclusiveUse
  BY DEF SyncInv
<1> USE <1>0, SyncPoolAssumption, SizerAssumption
    DEF TypeOK, bookVars, threadVars, Goto, AtTop, Notified, Promised!poolState, Promised!Has
<1>1. ASSUME NEW t \in Threads, TakeIdle(t) PROVE Promised!Lend(t)
  BY <1>1 DEF TakeIdle, KeysOwned, Promised!Lend
<1>2. ASSUME NEW t \in Threads, Reserve(t) PROVE Promised!Create(t)
  <2> DEFINE k == CHOOSE x \in FreshKeys : TRUE
  <2>1. k \in FreshKeys
    BY <1>2 DEF Reserve
  <2>2. k \in Conns \ Promised!Known
    BY <2>1 DEF FreshKeys, Promised!Known
  <2>3. Cardinality(inUse \cup reserved) < MaxConn
    <3>1. /\ IsFiniteSet(inUse) /\ Cardinality(inUse) \in Nat
          /\ IsFiniteSet(reserved) /\ Cardinality(reserved) \in Nat
      BY FiniteBooks
    <3>2. Cardinality(inUse \cap reserved) \in Nat
      BY <3>1, FS_CardinalityType, FS_Intersection
    <3>3. Cardinality(inUse \cup reserved)
            = Cardinality(inUse) + Cardinality(reserved) - Cardinality(inUse \cap reserved)
      BY <3>1, FS_Union
    <3>4. Occupied < current /\ current \in Int /\ current <= MaxConn
      BY <1>2 DEF Reserve
    <3> QED BY <3>1, <3>2, <3>3, <3>4 DEF Occupied
  <2>4. /\ conn[t] = None /\ available = {}
        /\ reserved' = reserved \cup {k} /\ conn' = [conn EXCEPT ![t] = k]
        /\ UNCHANGED <<available, inUse, closed>>
    BY <1>2 DEF Reserve, KeysOwned
  <2> HIDE DEF k
  <2> QED BY <2>2, <2>3, <2>4, SameCardinality DEF Promised!Create
<1>3. ASSUME NEW t \in Threads, Unreserve(t) PROVE Promised!Drop(t)
  <2>1. conn[t] # None /\ conn[t] \notin inUse
    BY <1>3 DEF Unreserve, KeysOwned, Creating
  <2> QED BY <1>3, <2>1 DEF Unreserve, Leave, Promised!Drop
<1>4. ASSUME NEW t \in Threads, Install(t) PROVE Step \/ Stutter
  <2>1. conn[t] # None /\ conn[t] \notin available
    BY <1>4 DEF Install, KeysOwned, ExclusiveUse
  <2>2. (inUse \cup reserved)' = inUse \cup reserved \cup {conn[t]}
    BY <1>4 DEF Install
  <2>3. UNCHANGED <<available, conn, closed>>
    BY <1>4 DEF Install
  <2>4. CASE ~closed
    <3>1. conn[t] \in reserved
      BY <1>4, <2>4 DEF Install, KeysOwned, Creating
    <3> QED BY <2>2, <2>3, <3>1
  <2>5. CASE closed
    BY <2>1, <2>2, <2>3, <2>5 DEF Promised!Adopt, Promised!Next
  <2> QED BY <2>4, <2>5
<1>5. ASSUME NEW t \in Threads, ReturnIdle(t) PROVE Promised!Return(t)
  BY <1>5 DEF ReturnIdle, Leave, BooksDisjoint, Promised!Return
<1>6. ASSUME NEW t \in Threads, Evict(t) PROVE Promised!Drop(t)
  <2>1. conn[t] # None /\ conn[t] \in inUse /\ conn[t] \notin reserved
    BY <1>6 DEF Evict, KeysOwned, BooksDisjoint
  <2> QED BY <1>6, <2>1 DEF Evict, Leave, Promised!Drop
<1>7. ASSUME NEW t \in Threads, ReleaseUnknown(t) PROVE Promised!Drop(t)
  BY <1>7 DEF ReleaseUnknown, Leave, KeysOwned, Promised!Drop
<1>8. ASSUME NEW t \in Threads,
             \/ BeginAcquire(t) \/ Expire(t) \/ Wait(t) \/ Refuse(t)
             \/ CreateOk(t) \/ CreateFail(t)
             \/ \E b \in BOOLEAN : BeginRelease(t, b)
      PROVE  Stutter
  BY <1>8 DEF BeginAcquire, Expire, Wait, Refuse, CreateOk, CreateFail, BeginRelease
<1>9. CASE CloseAll
  BY <1>9 DEF CloseAll, Promised!Close, Promised!Next
<1>10. CASE Metrics \/ UNCHANGED vars
  BY <1>10 DEF Metrics, vars
<1> QED
  BY <1>1, <1>2, <1>3, <1>4, <1>5, <1>6, <1>7, <1>8, <1>9, <1>10
  DEF Next, Progress, Promised!Next

\* The synchronous pool implements BoundedPool: whichever thread notify() picks and
\* whoever times out, connections are lent, made, returned and dropped only as
\* BoundedPool allows.
THEOREM SyncRefinesBoundedPool == Spec => ImplementsBoundedPool
<1>1. Init => Promised!Init
  BY DEF Init, Promised!Init
<1> QED
  BY SyncInvariant, BoundedPoolStep, <1>1, PTL DEF Spec, ImplementsBoundedPool, Promised!Spec
=============================================================================
