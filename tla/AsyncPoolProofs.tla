--------------------------- MODULE AsyncPoolProofs ---------------------------
(***************************************************************************)
(* Proofs about AsyncPool for any number of tasks, connections and         *)
(* cancellations and any pool bounds.  PoolInv is inductive and holds the  *)
(* type invariant and the invariants of the connections; QueueInv adds     *)
(* those of the waiters; with PoolInv every step is one of BoundedPool.    *)
(***************************************************************************)
EXTENDS AsyncPool, FiniteSetTheorems, WellFoundedInduction, SequenceTheorems, TLAPS

\* list.remove on the waiter list takes out one occurrence and keeps the order of the
\* others (async_pool.py: GiveUp, Cleanup).
LEMMA RemoveFirstElements ==
  ASSUME NEW S, NEW s \in Seq(S), NEW e
  PROVE  \/ RemoveFirst(s, e) = s /\ \A i \in 1..Len(s) : s[i] # e
         \/ \E j \in 1..Len(s) :
              /\ s[j] = e
              /\ RemoveFirst(s, e) \in Seq(S)
              /\ Len(RemoveFirst(s, e)) = Len(s) - 1
              /\ \A i \in 1..(Len(s) - 1) :
                   RemoveFirst(s, e)[i] = IF i < j THEN s[i] ELSE s[i + 1]
<1>1. CASE ~ \E i \in 1..Len(s) : s[i] = e
  BY <1>1 DEF RemoveFirst
<1>2. CASE \E i \in 1..Len(s) : s[i] = e
  <2> DEFINE I == {i \in 1..Len(s) : s[i] = e}
             j == Min(I)
  <2>1. I \in SUBSET Nat /\ I # {}
    BY <1>2
  <2>2. PICK m \in I : \A n \in I : m <= n
    <3> HIDE DEF I
    <3>1. PICK x \in I : \A y \in I : <<y, x>> \notin OpToRel(<, Nat)
      BY <2>1, NatLessThanWellFounded, WFMin
    <3>2. \A y \in I : ~ (y < x)
      BY <2>1, <3>1 DEF OpToRel
    <3>3. \A y \in I : x <= y
      <4> TAKE y \in I
      <4>1. x \in Nat /\ y \in Nat
        BY <2>1, <3>1
      <4> QED BY <3>2, <4>1
    <3> QED BY <3>1, <3>3
  <2>3. j \in 1..Len(s) /\ s[j] = e
    <3>1. j \in I
      BY <2>2 DEF Min
    <3> QED BY <3>1
  <2>4. SelectInSeq(s, LAMBDA v : v = e) = j
    BY <2>1 DEF SelectInSeq
  <2>5. RemoveFirst(s, e) = SubSeq(s, 1, j - 1) \o SubSeq(s, j + 1, Len(s))
    BY <1>2, <2>4 DEF RemoveFirst, RemoveAt
  <2> HIDE DEF j
  <2> DEFINE a == SubSeq(s, 1, j - 1)
             b == SubSeq(s, j + 1, Len(s))
  <2>6. /\ a \in Seq(S) /\ Len(a) = j - 1
        /\ \A i \in 1..(j - 1) : a[i] = s[i]
    BY <2>3, SubSeqProperties, ElementOfSeq, LenProperties
  <2>7. /\ b \in Seq(S) /\ Len(b) = Len(s) - j
        /\ \A i \in 1..(Len(s) - j) : b[i] = s[j + i]
    BY <2>3, SubSeqProperties, ElementOfSeq, LenProperties
  <2> HIDE DEF a, b
  <2>8. Len(s) \in Nat /\ j \in Nat /\ 1 <= j /\ j <= Len(s)
    BY <2>3, LenProperties
  <2>9. /\ a \o b \in Seq(S) /\ Len(a \o b) = Len(s) - 1
        /\ \A i \in 1..(Len(s) - 1) :
             (a \o b)[i] = IF i <= j - 1 THEN a[i] ELSE b[i - (j - 1)]
    <3>1. Len(a) + Len(b) = Len(s) - 1
      BY <2>6, <2>7, <2>8
    <3>2. /\ a \o b \in Seq(S) /\ Len(a \o b) = Len(a) + Len(b)
          /\ \A i \in 1..(Len(a) + Len(b)) :
               (a \o b)[i] = IF i <= Len(a) THEN a[i] ELSE b[i - Len(a)]
      BY <2>6, <2>7, ConcatProperties
    <3> QED BY <2>6, <3>1, <3>2
  <2>10. ASSUME NEW i \in 1..(Len(s) - 1)
         PROVE  (a \o b)[i] = IF i < j THEN s[i] ELSE s[i + 1]
    <3>1. CASE i < j
      BY <2>6, <2>8, <2>9, <3>1
    <3>2. CASE ~ (i < j)
      <4>1. i - (j - 1) \in 1..(Len(s) - j) /\ j + (i - (j - 1)) = i + 1
        BY <2>8, <3>2
      <4>2. (a \o b)[i] = b[i - (j - 1)]
        BY <2>8, <2>9, <3>2
      <4> QED BY <2>7, <3>2, <4>1, <4>2
    <3> QED BY <3>1, <3>2
  <2> QED BY <2>3, <2>5, <2>9, <2>10 DEF a, b
<1> QED BY <1>1, <1>2

\* list.remove keeps the list's type.
LEMMA RemoveFirstType ==
  ASSUME NEW S, NEW s \in Seq(S), NEW e
  PROVE  RemoveFirst(s, e) \in Seq(S)
BY RemoveFirstElements

\* Abandoning a waiter replaces it and nothing else (async_pool.py: CancelCleanup).
LEMMA ReplaceAllElements ==
  ASSUME NEW S, NEW s \in Seq(S), NEW e, NEW f \in S
  PROVE  /\ Len(ReplaceAll(s, e, f)) = Len(s)
         /\ \A i \in 1..Len(s) : ReplaceAll(s, e, f)[i] = IF s[i] = e THEN f ELSE s[i]
<1>1. \A i \in 1..Len(s) : (IF s[i] = e THEN f ELSE s[i]) \in S
  BY ElementOfSeq
<1> QED BY <1>1, IsASeq, LenProperties DEF ReplaceAll

\* Abandoning a waiter keeps the list's type (async_pool.py: CancelCleanup).
LEMMA ReplaceAllType ==
  ASSUME NEW S, NEW s \in Seq(S), NEW e, NEW f \in S
  PROVE  ReplaceAll(s, e, f) \in Seq(S)
<1>1. \A i \in 1..Len(s) : (IF s[i] = e THEN f ELSE s[i]) \in S
  BY ElementOfSeq
<1> QED BY <1>1, IsASeq, LenProperties DEF ReplaceAll

\* Every step keeps the types: what acquire(), release(), metrics(), close_all() and
\* cancellation write stays in range, the sizer's size between its bounds included.
LEMMA TypeStep == TypeOK /\ KeysOwned /\ [Next]_vars => TypeOK'
<1> SUFFICES ASSUME TypeOK, KeysOwned, [Next]_vars
             PROVE  TypeOK'
  OBVIOUS
<1> USE PoolAssumption, SizerAssumption DEF TypeOK, PcValues, Acquiring, poolVars, sizerVars, taskVars, envVars, Goto
<1>1. waiters # <<>> => Tail(waiters) \in Seq(Clients \cup {None})
  BY HeadTailProperties
<1>2. \A c \in Clients : RemoveFirst(waiters, c) \in Seq(Clients \cup {None})
  BY RemoveFirstType
<1>3. \A c \in Clients : ReplaceAll(waiters, c, None) \in Seq(Clients \cup {None})
  BY ReplaceAllType
<1>4. TypeOK'
  <2>1. ASSUME NEW c \in Clients, BeginAcquire(c) PROVE TypeOK'
    BY <2>1 DEF BeginAcquire
  <2>2. ASSUME NEW c \in Clients, TakeIdle(c) PROVE TypeOK'
    BY <2>2 DEF TakeIdle
  <2>3. ASSUME NEW c \in Clients, Reserve(c) PROVE TypeOK'
    BY <2>3 DEF Reserve, FreshKeys, Conns
  <2>4. ASSUME NEW c \in Clients, QueueUp(c) PROVE TypeOK'
    BY <2>4, AppendProperties DEF QueueUp
  <2>5. ASSUME NEW c \in Clients, Wakeup(c) PROVE TypeOK'
    BY <2>5 DEF Wakeup
  <2>6. ASSUME NEW c \in Clients, WaitTimeout(c) PROVE TypeOK'
    BY <2>6 DEF WaitTimeout
  <2>7. ASSUME NEW c \in Clients, GiveUp(c) PROVE TypeOK'
    BY <1>2, <2>7 DEF GiveUp
  <2>8. ASSUME NEW c \in Clients, Cleanup(c) PROVE TypeOK'
    BY <1>2, <2>8 DEF Cleanup
  <2>9. ASSUME NEW c \in Clients, CreateOk(c) PROVE TypeOK'
    BY <2>9 DEF CreateOk
  <2>10. ASSUME NEW c \in Clients, CreateFail(c) PROVE TypeOK'
    BY <2>10 DEF CreateFail
  <2>11. ASSUME NEW c \in Clients, Unreserve(c) PROVE TypeOK'
    BY <2>11 DEF Unreserve, Leave
  <2>12. ASSUME NEW c \in Clients, Install(c) PROVE TypeOK'
    BY <2>12 DEF Install, KeysOwned, Creating, Keyless, Conns
  <2>13. ASSUME NEW c \in Clients, ReleaseUnknown(c) PROVE TypeOK'
    BY <2>13 DEF ReleaseUnknown, Leave
  <2>14. ASSUME NEW c \in Clients, ReturnIdle(c) PROVE TypeOK'
    BY <1>1, <2>14 DEF ReturnIdle, Leave, WakeOldest
  <2>15. ASSUME NEW c \in Clients, EvictBegin(c) PROVE TypeOK'
    BY <2>15 DEF EvictBegin
  <2>16. ASSUME NEW c \in Clients, EvictEnd(c) PROVE TypeOK'
    BY <1>1, <2>16 DEF EvictEnd, Leave, WakeOldest
  <2>17. ASSUME NEW c \in Clients, CancelEnter(c) PROVE TypeOK'
    BY <2>17 DEF CancelEnter, Cancelled
  <2>18. ASSUME NEW c \in Clients, CancelWait(c) PROVE TypeOK'
    BY <2>18 DEF CancelWait, Cancelled
  <2>19. ASSUME NEW c \in Clients, CancelCleanup(c) PROVE TypeOK'
    BY <1>3, <2>19 DEF CancelCleanup, Cancelled
  <2>20. ASSUME NEW c \in Clients, CancelCreate(c) PROVE TypeOK'
    BY <2>20 DEF CancelCreate, Cancelled
  <2>21. ASSUME NEW c \in Clients, CancelReserved(c) PROVE TypeOK'
    BY <2>21 DEF CancelReserved, Leave, Cancelled
  <2>22. ASSUME NEW c \in Clients, CancelHold(c) PROVE TypeOK'
    BY <2>22 DEF CancelHold, Cancelled
  <2>23. ASSUME NEW c \in Clients, CancelRelease(c) PROVE TypeOK'
    BY <2>23 DEF CancelRelease, Leave, Cancelled
  <2>24. ASSUME NEW c \in Clients, CancelClosing(c) PROVE TypeOK'
    BY <2>24 DEF CancelClosing, Leave, Cancelled
  <2>25. ASSUME NEW c \in Clients, NEW b \in BOOLEAN, BeginRelease(c, b) PROVE TypeOK'
    BY <2>25 DEF BeginRelease
  <2>26. ASSUME NEW t \in 1..MaxConn, Warmup(t) PROVE TypeOK'
    BY <2>26 DEF Warmup, Conns
  <2>27. CASE Metrics
    BY <2>27 DEF Metrics, Adjust
  <2>28. CASE CloseAll
    BY <2>28 DEF CloseAll
  <2>29. CASE CloseDone
    BY <2>29 DEF CloseDone
  <2>30. CASE UNCHANGED vars
    BY <2>30 DEF vars
  <2> QED
    BY <2>1, <2>2, <2>3, <2>4, <2>5, <2>6, <2>7, <2>8, <2>9, <2>10, <2>11, <2>12, <2>13, <2>14, <2>15, <2>16, <2>17, <2>18, <2>19, <2>20, <2>21, <2>22, <2>23, <2>24, <2>25, <2>26, <2>27, <2>28, <2>29, <2>30
    DEF Next, Progress, Enter, Cancel
<1> QED BY <1>4

\* Every step keeps the ownership invariants: a key is in one book, belongs to one
\* task, and a closed key is in no book.
LEMMA OwnershipStep ==
  PoolInv /\ [Next]_vars =>
    (BooksDisjoint /\ KeysOwned /\ ExclusiveUse /\ ClosedHeld /\ ClosedNeverIdle)'
<1> DEFINE Own == BooksDisjoint /\ KeysOwned /\ ExclusiveUse /\ ClosedHeld /\ ClosedNeverIdle
<1> SUFFICES ASSUME PoolInv, [Next]_vars
             PROVE  Own'
  OBVIOUS
<1>1. TypeOK /\ Own
  BY DEF PoolInv
<1> USE <1>1, PoolAssumption, SizerAssumption
    DEF TypeOK, BooksDisjoint, KeysOwned, ExclusiveUse, ClosedHeld, ClosedNeverIdle,
        PcValues, Acquiring, Creating, Keyless, Conns,
        poolVars, sizerVars, taskVars, envVars, Goto
<1>2. Own'
  <2>1. ASSUME NEW c \in Clients, BeginAcquire(c) PROVE Own'
    BY <2>1 DEF BeginAcquire
  <2>2. ASSUME NEW c \in Clients, TakeIdle(c) PROVE Own'
    BY <2>2 DEF TakeIdle
  <2>3. ASSUME NEW c \in Clients, Reserve(c) PROVE Own'
    <3> DEFINE k == CHOOSE x \in FreshKeys : TRUE
    <3>1. k \in FreshKeys
      BY <2>3 DEF Reserve
    <3>2. k \in Conns /\ k \notin available /\ k \notin inUse /\ k \notin reserved
      BY <3>1 DEF FreshKeys
    <3>3. \A d \in Clients : conn[d] # k
      BY <3>1 DEF FreshKeys
    <3>4. /\ reserved' = reserved \cup {k}
          /\ conn' = [conn EXCEPT ![c] = k]
          /\ pc' = [pc EXCEPT ![c] = "create"]
          /\ UNCHANGED <<available, inUse, closed, shutdown>>
          /\ conn[c] = None
      BY <2>3 DEF Reserve
    <3> HIDE DEF k
    <3> QED BY <3>2, <3>3, <3>4
  <2>4. ASSUME NEW c \in Clients, QueueUp(c) PROVE Own'
    BY <2>4 DEF QueueUp
  <2>5. ASSUME NEW c \in Clients, Wakeup(c) PROVE Own'
    BY <2>5 DEF Wakeup, Woken
  <2>6. ASSUME NEW c \in Clients, WaitTimeout(c) PROVE Own'
    BY <2>6 DEF WaitTimeout
  <2>7. ASSUME NEW c \in Clients, GiveUp(c) PROVE Own'
    BY <2>7 DEF GiveUp
  <2>8. ASSUME NEW c \in Clients, Cleanup(c) PROVE Own'
    BY <2>8 DEF Cleanup
  <2>9. ASSUME NEW c \in Clients, CreateOk(c) PROVE Own'
    BY <2>9 DEF CreateOk
  <2>10. ASSUME NEW c \in Clients, CreateFail(c) PROVE Own'
    BY <2>10 DEF CreateFail
  <2>11. ASSUME NEW c \in Clients, Unreserve(c) PROVE Own'
    <3>0. conn[c] # None /\ \A d \in Clients \ {c} : conn[d] # conn[c]
      BY <2>11 DEF Unreserve
    <3>1. BooksDisjoint'
      BY <2>11, <3>0 DEF Unreserve, Leave
    <3>2. KeysOwned'
      BY <2>11, <3>0 DEF Unreserve, Leave
    <3>3. ExclusiveUse'
      BY <2>11, <3>0 DEF Unreserve, Leave
    <3>4. ClosedHeld'
      BY <2>11, <3>0 DEF Unreserve, Leave
    <3>5. ClosedNeverIdle'
      BY <2>11, <3>0 DEF Unreserve, Leave
    <3> QED BY <3>1, <3>2, <3>3, <3>4, <3>5
  <2>12. ASSUME NEW c \in Clients, Install(c) PROVE Own'
    <3>0. conn[c] # None /\ \A d \in Clients \ {c} : conn[d] # conn[c]
      BY <2>12 DEF Install
    <3>1. BooksDisjoint'
      BY <2>12, <3>0 DEF Install
    <3>2. KeysOwned'
      BY <2>12, <3>0 DEF Install
    <3>3. ExclusiveUse'
      BY <2>12, <3>0 DEF Install
    <3>4. ClosedHeld'
      BY <2>12, <3>0 DEF Install
    <3>5. ClosedNeverIdle'
      BY <2>12, <3>0 DEF Install
    <3> QED BY <3>1, <3>2, <3>3, <3>4, <3>5
  <2>13. ASSUME NEW c \in Clients, ReleaseUnknown(c) PROVE Own'
    BY <2>13 DEF ReleaseUnknown, Leave
  <2>14. ASSUME NEW c \in Clients, ReturnIdle(c) PROVE Own'
    <3>0. conn[c] # None /\ \A d \in Clients \ {c} : conn[d] # conn[c]
      BY <2>14 DEF ReturnIdle
    <3>1. BooksDisjoint'
      BY <2>14, <3>0 DEF ReturnIdle, Leave
    <3>2. KeysOwned'
      BY <2>14, <3>0 DEF ReturnIdle, Leave
    <3>3. ExclusiveUse'
      BY <2>14, <3>0 DEF ReturnIdle, Leave
    <3>4. ClosedHeld'
      BY <2>14, <3>0 DEF ReturnIdle, Leave
    <3>5. ClosedNeverIdle'
      BY <2>14, <3>0 DEF ReturnIdle, Leave
    <3> QED BY <3>1, <3>2, <3>3, <3>4, <3>5
  <2>15. ASSUME NEW c \in Clients, EvictBegin(c) PROVE Own'
    <3>0. conn[c] # None /\ \A d \in Clients \ {c} : conn[d] # conn[c]
      BY <2>15 DEF EvictBegin
    <3>1. BooksDisjoint'
      BY <2>15, <3>0 DEF EvictBegin
    <3>2. KeysOwned'
      BY <2>15, <3>0 DEF EvictBegin
    <3>3. ExclusiveUse'
      BY <2>15, <3>0 DEF EvictBegin
    <3>4. ClosedHeld'
      BY <2>15, <3>0 DEF EvictBegin
    <3>5. ClosedNeverIdle'
      BY <2>15, <3>0 DEF EvictBegin
    <3> QED BY <3>1, <3>2, <3>3, <3>4, <3>5
  <2>16. ASSUME NEW c \in Clients, EvictEnd(c) PROVE Own'
    BY <2>16 DEF EvictEnd, Leave, WakeOldest
  <2>17. ASSUME NEW c \in Clients, CancelEnter(c) PROVE Own'
    BY <2>17 DEF CancelEnter, Cancelled
  <2>18. ASSUME NEW c \in Clients, CancelWait(c) PROVE Own'
    BY <2>18 DEF CancelWait, Cancelled
  <2>19. ASSUME NEW c \in Clients, CancelCleanup(c) PROVE Own'
    BY <2>19 DEF CancelCleanup, Cancelled
  <2>20. ASSUME NEW c \in Clients, CancelCreate(c) PROVE Own'
    BY <2>20 DEF CancelCreate, Cancelled
  <2>21. ASSUME NEW c \in Clients, CancelReserved(c) PROVE Own'
    BY <2>21 DEF CancelReserved, Leave, Cancelled
  <2>22. ASSUME NEW c \in Clients, CancelHold(c) PROVE Own'
    BY <2>22 DEF CancelHold, Cancelled
  <2>23. ASSUME NEW c \in Clients, CancelRelease(c) PROVE Own'
    BY <2>23 DEF CancelRelease, Leave, Cancelled
  <2>24. ASSUME NEW c \in Clients, CancelClosing(c) PROVE Own'
    BY <2>24 DEF CancelClosing, Leave, Cancelled
  <2>25. ASSUME NEW c \in Clients, NEW b \in BOOLEAN, BeginRelease(c, b) PROVE Own'
    BY <2>25 DEF BeginRelease
  <2>26. ASSUME NEW t \in 1..MaxConn, Warmup(t) PROVE Own'
    BY <2>26 DEF Warmup
  <2>27. CASE Metrics
    BY <2>27 DEF Metrics, Adjust
  <2>28. CASE CloseAll
    BY <2>28 DEF CloseAll
  <2>29. CASE CloseDone
    BY <2>29 DEF CloseDone
  <2>30. CASE UNCHANGED vars
    BY <2>30 DEF vars
  <2> QED
    BY <2>1, <2>2, <2>3, <2>4, <2>5, <2>6, <2>7, <2>8, <2>9, <2>10, <2>11, <2>12, <2>13, <2>14, <2>15, <2>16, <2>17, <2>18, <2>19, <2>20, <2>21, <2>22, <2>23, <2>24, <2>25, <2>26, <2>27, <2>28, <2>29, <2>30
    DEF Next, Progress, Enter, Cancel
<1> QED BY <1>2

\* Adding a key adds at most one, removing a key adds none.
LEMMA CardinalitySteps ==
  ASSUME NEW S, IsFiniteSet(S), NEW x
  PROVE  /\ Cardinality(S \cup {x}) \in Nat
         /\ Cardinality(S \cup {x}) <= Cardinality(S) + 1
         /\ Cardinality(S \ {x}) \in Nat
         /\ Cardinality(S \ {x}) <= Cardinality(S)
<1>1. Cardinality(S) \in Nat
  BY FS_CardinalityType
<1>2. IsFiniteSet(S \cup {x}) /\ IsFiniteSet(S \ {x})
  BY FS_AddElement, FS_RemoveElement
<1>3. Cardinality(S \cup {x}) \in Nat /\ Cardinality(S \ {x}) \in Nat
  BY <1>2, FS_CardinalityType
<1>4. Cardinality(S \cup {x}) = IF x \in S THEN Cardinality(S) ELSE Cardinality(S) + 1
  BY FS_AddElement
<1>5. Cardinality(S \ {x}) = IF x \in S THEN Cardinality(S) - 1 ELSE Cardinality(S)
  BY FS_RemoveElement
<1> QED BY <1>1, <1>3, <1>4, <1>5

\* Every step keeps the number of connections the pool owns within max_conn.  A
\* reservation needs an empty _available, so comparing len(_in_use) alone with the
\* current size is enough; every other step moves a key between books.
LEMMA CapacityStep == PoolInv /\ [Next]_vars => CapacityBound'
<1> SUFFICES ASSUME PoolInv, [Next]_vars, shutdown' = "no"
             PROVE  (Cardinality(available) + Occupied <= MaxConn)'
  BY DEF CapacityBound
<1>1. ASSUME NEW S \in SUBSET Conns
      PROVE  IsFiniteSet(S) /\ Cardinality(S) \in Nat
  <2>1. IsFiniteSet(Conns)
    BY PoolAssumption, FS_Interval DEF Conns
  <2>2. IsFiniteSet(S)
    BY <2>1, FS_Subset
  <2> QED BY <2>2, FS_CardinalityType
<1>2. /\ IsFiniteSet(available) /\ Cardinality(available) \in Nat
      /\ IsFiniteSet(inUse) /\ Cardinality(inUse) \in Nat
      /\ IsFiniteSet(reserved) /\ Cardinality(reserved) \in Nat
  BY <1>1 DEF PoolInv, TypeOK
<1>3. shutdown = "no" =>
        Cardinality(available) + Cardinality(inUse) + Cardinality(reserved) <= MaxConn
  BY <1>2, PoolAssumption, SizerAssumption DEF PoolInv, CapacityBound, Occupied
<1>4. CASE shutdown = "no" /\ UNCHANGED <<available, inUse, reserved>>
  BY <1>2, <1>3, <1>4, PoolAssumption, SizerAssumption DEF Occupied
<1>5. ASSUME NEW c \in Clients, TakeIdle(c) PROVE (Cardinality(available) + Occupied <= MaxConn)'
  <2>1. PICK k \in available : available' = available \ {k} /\ inUse' = inUse \cup {k}
    BY <1>5 DEF TakeIdle
  <2>2. shutdown = "no" /\ reserved' = reserved
    BY <1>5 DEF TakeIdle, envVars
  <2>3. Cardinality(available') = Cardinality(available) - 1
    BY <1>2, <2>1, FS_RemoveElement
  <2>4. Cardinality(inUse') = Cardinality(inUse) + 1
    BY <1>2, <2>1, FS_AddElement DEF PoolInv, BooksDisjoint
  <2> QED BY <1>2, <1>3, <2>2, <2>3, <2>4, PoolAssumption, SizerAssumption DEF Occupied
<1>6. ASSUME NEW c \in Clients, Reserve(c) PROVE (Cardinality(available) + Occupied <= MaxConn)'
  <2>1. PICK k : reserved' = reserved \cup {k}
    BY <1>6 DEF Reserve
  <2>2. available' = {} /\ inUse' = inUse /\ Occupied < current
    BY <1>6 DEF Reserve
  <2>3. Cardinality(reserved') <= Cardinality(reserved) + 1 /\ Cardinality(reserved') \in Nat
    BY <1>2, <2>1, CardinalitySteps
  <2>4. Cardinality(available') = 0
    BY <2>2, FS_EmptySet
  <2>5. current \in Int /\ current <= MaxConn
    BY PoolAssumption, SizerAssumption DEF PoolInv, TypeOK
  <2> QED BY <1>2, <2>2, <2>3, <2>4, <2>5, PoolAssumption, SizerAssumption DEF Occupied
<1>7. ASSUME NEW c \in Clients, Unreserve(c) PROVE (Cardinality(available) + Occupied <= MaxConn)'
  <2>1. /\ reserved' = reserved \ {conn[c]}
        /\ UNCHANGED <<available, inUse, shutdown>>
    BY <1>7 DEF Unreserve, envVars
  <2>2. Cardinality(reserved') <= Cardinality(reserved) /\ Cardinality(reserved') \in Nat
    BY <1>2, <2>1, CardinalitySteps
  <2> QED BY <1>2, <1>3, <2>1, <2>2, PoolAssumption, SizerAssumption DEF Occupied
<1>8. ASSUME NEW c \in Clients, Install(c) PROVE (Cardinality(available) + Occupied <= MaxConn)'
  <2>1. /\ reserved' = reserved \ {conn[c]} /\ inUse' = inUse \cup {conn[c]}
        /\ UNCHANGED <<available, shutdown>>
    BY <1>8 DEF Install, envVars
  <2>2. conn[c] \in reserved
    BY <1>8, <2>1 DEF Install, PoolInv, KeysOwned, Creating
  <2>3. Cardinality(reserved') = Cardinality(reserved) - 1
    BY <1>2, <2>1, <2>2, FS_RemoveElement
  <2>4. Cardinality(inUse') <= Cardinality(inUse) + 1 /\ Cardinality(inUse') \in Nat
    BY <1>2, <2>1, CardinalitySteps
  <2> QED BY <1>2, <1>3, <2>1, <2>3, <2>4, PoolAssumption, SizerAssumption DEF Occupied
<1>9. ASSUME NEW c \in Clients, ReturnIdle(c) PROVE (Cardinality(available) + Occupied <= MaxConn)'
  <2>1. /\ conn[c] \in inUse
        /\ inUse' = inUse \ {conn[c]} /\ available' = available \cup {conn[c]}
        /\ UNCHANGED <<reserved, shutdown>>
    BY <1>9 DEF ReturnIdle
  <2>2. Cardinality(inUse') = Cardinality(inUse) - 1
    BY <1>2, <2>1, FS_RemoveElement
  <2>3. Cardinality(available') <= Cardinality(available) + 1 /\ Cardinality(available') \in Nat
    BY <1>2, <2>1, CardinalitySteps
  <2> QED BY <1>2, <1>3, <2>1, <2>2, <2>3, PoolAssumption, SizerAssumption DEF Occupied
<1>10. ASSUME NEW c \in Clients, EvictBegin(c) PROVE (Cardinality(available) + Occupied <= MaxConn)'
  <2>1. /\ inUse' = inUse \ {conn[c]}
        /\ UNCHANGED <<available, reserved, shutdown>>
    BY <1>10 DEF EvictBegin, envVars
  <2>2. Cardinality(inUse') <= Cardinality(inUse) /\ Cardinality(inUse') \in Nat
    BY <1>2, <2>1, CardinalitySteps
  <2> QED BY <1>2, <1>3, <2>1, <2>2, PoolAssumption, SizerAssumption DEF Occupied
<1>11. ASSUME NEW t \in 1..MaxConn, Warmup(t) PROVE (Cardinality(available) + Occupied <= MaxConn)'
  <2>1. PICK n \in 0..t : available' = 1..n
    BY <1>11 DEF Warmup
  <2>2. Cardinality(available') = n
    BY <2>1, FS_Interval
  <2>3. inUse' = {} /\ reserved' = {}
    BY <1>11 DEF Warmup
  <2> QED BY <2>2, <2>3, FS_EmptySet, PoolAssumption, SizerAssumption DEF Occupied
<1>12. ASSUME NEW c \in Clients,
              \/ BeginAcquire(c) \/ QueueUp(c) \/ Wakeup(c) \/ WaitTimeout(c) \/ GiveUp(c)
              \/ Cleanup(c) \/ CreateOk(c) \/ CreateFail(c) \/ ReleaseUnknown(c) \/ EvictEnd(c)
              \/ Cancel(c)
              \/ \E b \in BOOLEAN : BeginRelease(c, b)
       PROVE  shutdown = "no" /\ UNCHANGED <<available, inUse, reserved>>
  BY <1>12
  DEF BeginAcquire, QueueUp, Wakeup, WaitTimeout, GiveUp, Cleanup, CreateOk, CreateFail,
      ReleaseUnknown, EvictEnd, Cancel, CancelEnter, CancelWait, CancelCleanup, CancelCreate,
      CancelReserved, CancelHold, CancelRelease, CancelClosing, BeginRelease, poolVars, envVars
<1>13. CASE Metrics \/ UNCHANGED vars
  BY <1>4, <1>13 DEF Metrics, poolVars, envVars, vars
<1>14. ~ CloseAll /\ ~ CloseDone
  BY DEF CloseAll, CloseDone
<1> QED
  BY <1>4, <1>5, <1>6, <1>7, <1>8, <1>9, <1>10, <1>11, <1>12, <1>13, <1>14
  DEF Next, Progress, Enter

\* The initial pool is empty.
LEMMA InitInv == Init => PoolInv
<1> SUFFICES ASSUME Init PROVE PoolInv
  OBVIOUS
<1>1. TypeOK
  <2>1. waiters \in Seq(Clients \cup {None})
    BY EmptySeq DEF Init
  <2>2. discards \in BOOLEAN /\ dropped \in BOOLEAN
    BY Zenon DEF Init
  <2>3. /\ pc \in [Clients -> PcValues]
        /\ conn \in [Clients -> Conns \cup {None}]
    BY DEF Init, PcValues
  <2>4. /\ current \in MinConn..MaxConn
        /\ streak \in 0..Cooldown
        /\ cancels \in Nat
    BY SizerAssumption DEF Init, SizerInit
  <2>5. /\ available \subseteq Conns /\ inUse \subseteq Conns /\ reserved \subseteq Conns
        /\ closed \subseteq Conns
        /\ lock \in Clients \cup {None}
        /\ shutdown \in {"no", "closing", "closed"}
    BY DEF Init
  <2> QED BY <2>1, <2>2, <2>3, <2>4, <2>5 DEF TypeOK
<1>2. BooksDisjoint /\ KeysOwned /\ ClosedHeld /\ ExclusiveUse /\ ClosedNeverIdle
  BY DEF Init, BooksDisjoint, KeysOwned, ClosedHeld, ExclusiveUse, ClosedNeverIdle,
         Creating, Keyless
<1>3. CapacityBound
  BY SizerAssumption, FS_EmptySet DEF Init, CapacityBound, Occupied
<1> QED BY <1>1, <1>2, <1>3 DEF PoolInv

\* PoolInv is an invariant of the pool under any interleaving, timeout, failed
\* creation, eviction, cancellation and shutdown.
THEOREM PoolInvariant == Spec => []PoolInv
<1>1. PoolInv /\ [Next]_vars => PoolInv'
  BY TypeStep, OwnershipStep, CapacityStep DEF PoolInv
<1> QED BY InitInv, <1>1, PTL DEF Spec

\* Types hold in every state of the pool, the sizer's bounds included.  Not provable
\* alone: that a key being installed is a key follows from KeysOwned.
THEOREM PoolTypes == Spec => []TypeOK
<1>1. PoolInv => TypeOK
  BY DEF PoolInv
<1> QED BY PoolInvariant, <1>1, PTL

\* The pool never owns more than max_conn connections before close_all().
THEOREM PoolCapacity == Spec => []CapacityBound
<1>1. PoolInv => CapacityBound
  BY DEF PoolInv
<1> QED BY PoolInvariant, <1>1, PTL

\* No connection is handed to two tasks, or idle while a task has it.
THEOREM PoolExclusive == Spec => []ExclusiveUse
<1>1. PoolInv => ExclusiveUse
  BY DEF PoolInv
<1> QED BY PoolInvariant, <1>1, PTL

\* A closed connection is never idle again.
THEOREM PoolClosedNeverIdle == Spec => []ClosedNeverIdle
<1>1. PoolInv => ClosedNeverIdle
  BY DEF PoolInv
<1> QED BY PoolInvariant, <1>1, PTL

----------------------------------------------------------------------------
(* The queue of waiters *)

\* Every step keeps the waiter list in order: QueueUp appends a task that is not listed,
\* a task leaves "wait", "gaveup" and "cleanup" only woken, by removing itself or, when
\* cancelled twice, by abandoning its entry.
LEMMA WaitersStep == QueueInv /\ [Next]_vars => WaitersOwned'
<1> SUFFICES ASSUME QueueInv, [Next]_vars
             PROVE  WaitersOwned'
  OBVIOUS
<1>0. /\ WaitersOwned
      /\ pc \in [Clients -> PcValues]
      /\ waiters \in Seq(Clients \cup {None}) /\ Len(waiters) \in Nat
      /\ None \notin Clients
  BY PoolAssumption, LenProperties DEF QueueInv, PoolInv, TypeOK
<1>a. \A i \in 1..Len(waiters) : waiters[i] # None => waiters[i] \in Clients
  BY <1>0, ElementOfSeq
<1>b. WakeOldest /\ waiters # <<>> =>
        /\ Len(waiters') = Len(waiters) - 1
        /\ \A i \in 1..(Len(waiters) - 1) : waiters'[i] = waiters[i + 1]
  BY <1>0, HeadTailProperties DEF WakeOldest
<1>c. WakeOldest /\ waiters = <<>> => waiters' = waiters
  BY DEF WakeOldest
<1> USE <1>0 DEF WaitersOwned, Goto, Leave, poolVars, taskVars, envVars
<1>1. ASSUME NEW c \in Clients, QueueUp(c) PROVE WaitersOwned'
  <2>1. \A i \in 1..Len(waiters) : waiters[i] # c
    BY <1>1 DEF QueueUp
  <2>2. /\ Len(waiters') = Len(waiters) + 1
        /\ \A i \in 1..Len(waiters) : waiters'[i] = waiters[i]
        /\ waiters'[Len(waiters) + 1] = c
    BY <1>1, AppendProperties DEF QueueUp
  <2>3. pc' = [pc EXCEPT ![c] = "wait"]
    BY <1>1 DEF QueueUp
  <2> QED BY <1>a, <2>1, <2>2, <2>3
<1>2. ASSUME NEW c \in Clients, GiveUp(c) \/ Cleanup(c) PROVE WaitersOwned'
  <2>1. waiters' = RemoveFirst(waiters, c) /\ pc' = [pc EXCEPT ![c] = "idle"]
    BY <1>2 DEF GiveUp, Cleanup
  <2>2. CASE waiters' = waiters /\ \A i \in 1..Len(waiters) : waiters[i] # c
    BY <1>a, <2>1, <2>2
  <2>3. ASSUME NEW j \in 1..Len(waiters), waiters[j] = c,
               Len(waiters') = Len(waiters) - 1,
               \A i \in 1..(Len(waiters) - 1) :
                 waiters'[i] = IF i < j THEN waiters[i] ELSE waiters[i + 1]
        PROVE  WaitersOwned'
    <3> DEFINE f(i) == IF i < j THEN i ELSE i + 1
    <3>1. \A i \in 1..Len(waiters') :
            f(i) \in 1..Len(waiters) /\ f(i) # j /\ waiters'[i] = waiters[f(i)]
      BY <2>3
    <3>2. \A i1, i2 \in 1..Len(waiters') : f(i1) = f(i2) => i1 = i2
      BY <2>3
    <3> HIDE DEF f
    <3>3. \A i \in 1..Len(waiters') : waiters'[i] # c
      BY <2>3, <3>1
    <3>4. \A i \in 1..Len(waiters') : waiters'[i] # None =>
            pc'[waiters'[i]] \in {"wait", "gaveup", "cleanup"}
      BY <1>a, <2>1, <3>1, <3>3
    <3>5. ASSUME NEW i1 \in 1..Len(waiters'), NEW i2 \in 1..Len(waiters'),
                 waiters'[i1] = waiters'[i2], waiters'[i1] # None
          PROVE  i1 = i2
      <4>1. waiters[f(i1)] = waiters[f(i2)] /\ waiters[f(i1)] # None
        BY <3>1, <3>5
      <4>2. f(i1) \in 1..Len(waiters) /\ f(i2) \in 1..Len(waiters)
        BY <3>1
      <4>3. f(i1) = f(i2)
        BY ONLY <4>1, <4>2, WaitersOwned DEF WaitersOwned
      <4> QED BY ONLY <4>3, <3>2, i1 \in 1..Len(waiters'), i2 \in 1..Len(waiters')
    <3>6. \A i, k \in 1..Len(waiters') :
            waiters'[i] = waiters'[k] /\ waiters'[i] # None => i = k
      BY ONLY <3>5
    <3> QED BY ONLY <3>4, <3>6, Zenon DEF WaitersOwned
  <2>4. \/ waiters' = waiters /\ \A i \in 1..Len(waiters) : waiters[i] # c
        \/ \E j \in 1..Len(waiters) :
             /\ waiters[j] = c
             /\ Len(waiters') = Len(waiters) - 1
             /\ \A i \in 1..(Len(waiters) - 1) :
                  waiters'[i] = IF i < j THEN waiters[i] ELSE waiters[i + 1]
    BY ONLY <1>0, <2>1, RemoveFirstElements
  <2> QED BY ONLY <2>2, <2>3, <2>4
<1>3. ASSUME NEW c \in Clients, CancelCleanup(c) PROVE WaitersOwned'
  <2>1. waiters' = ReplaceAll(waiters, c, None) /\ pc' = [pc EXCEPT ![c] = "idle"]
    BY <1>3 DEF CancelCleanup
  <2>2. /\ Len(waiters') = Len(waiters)
        /\ \A i \in 1..Len(waiters) : waiters'[i] = IF waiters[i] = c THEN None ELSE waiters[i]
    BY <2>1, ReplaceAllElements
  <2> QED BY <1>a, <2>1, <2>2
<1>4. ASSUME NEW c \in Clients, ReturnIdle(c) \/ EvictEnd(c) PROVE WaitersOwned'
  <2>1. /\ WakeOldest /\ pc' = [pc EXCEPT ![c] = "idle"]
        /\ pc[c] \in {"release", "closing"}
    BY <1>4 DEF ReturnIdle, EvictEnd
  <2>2. CASE waiters = <<>>
    BY <1>a, <1>c, <2>1, <2>2
  <2>3. CASE waiters # <<>>
    BY <1>a, <1>b, <2>1, <2>3
  <2> QED BY <2>2, <2>3
<1>5. ASSUME NEW c \in Clients, Wakeup(c) PROVE WaitersOwned'
  <2>1. \A i \in 1..Len(waiters) : waiters[i] # c
    BY <1>5 DEF Wakeup, Woken, ToSet
  <2> QED BY <1>5, <1>a, <2>1 DEF Wakeup
<1>6. ASSUME NEW c \in Clients, WaitTimeout(c) \/ CancelWait(c) PROVE WaitersOwned'
  BY <1>6, <1>a DEF WaitTimeout, CancelWait
<1>7. ASSUME NEW c \in Clients,
             \/ BeginAcquire(c) \/ TakeIdle(c) \/ Reserve(c) \/ CreateOk(c) \/ CreateFail(c)
             \/ Unreserve(c) \/ Install(c) \/ ReleaseUnknown(c) \/ EvictBegin(c)
             \/ CancelEnter(c) \/ CancelCreate(c) \/ CancelReserved(c) \/ CancelHold(c)
             \/ CancelRelease(c) \/ CancelClosing(c)
             \/ \E b \in BOOLEAN : BeginRelease(c, b)
      PROVE  WaitersOwned'
  <2>1. /\ waiters' = waiters /\ pc[c] \notin {"wait", "gaveup", "cleanup"}
        /\ \E s : pc' = [pc EXCEPT ![c] = s]
    BY <1>7
    DEF BeginAcquire, TakeIdle, Reserve, CreateOk, CreateFail, Unreserve, Install, ReleaseUnknown,
        EvictBegin, CancelEnter, CancelCreate, CancelReserved, CancelHold, CancelRelease,
        CancelClosing, BeginRelease
  <2> QED BY <1>a, <2>1
<1>8. ASSUME UNCHANGED <<waiters, pc>> PROVE WaitersOwned'
  BY <1>8
<1>9. (\E t \in 1..MaxConn : Warmup(t)) \/ Metrics \/ CloseAll \/ CloseDone \/ UNCHANGED vars
        => UNCHANGED <<waiters, pc>>
  BY DEF Warmup, Metrics, CloseAll, CloseDone, vars
<1> QED
  BY <1>1, <1>2, <1>3, <1>4, <1>5, <1>6, <1>7, <1>8, <1>9 DEF Next, Progress, Enter, Cancel

\* Until release(broken=True) is called, no step takes the lock for longer than itself,
\* so no task can be cancelled at it and no waiter abandoned.
LEMMA UncontendedStep == QueueInv /\ [Next]_vars => Uncontended'
<1> SUFFICES ASSUME QueueInv, [Next]_vars, ~discards'
             PROVE  (/\ LockFree
                     /\ \A c \in Clients : pc[c] \notin {"discard", "closing"}
                     /\ \A i \in 1..Len(waiters) : waiters[i] # None)'
  BY DEF Uncontended
<1>0. /\ Uncontended
      /\ pc \in [Clients -> PcValues] /\ discards \in BOOLEAN
      /\ waiters \in Seq(Clients \cup {None}) /\ Len(waiters) \in Nat
      /\ None \notin Clients
  BY PoolAssumption, LenProperties DEF QueueInv, PoolInv, TypeOK
<1> DEFINE Quiet == /\ LockFree
                    /\ \A c \in Clients : pc[c] \notin {"discard", "closing"}
                    /\ \A i \in 1..Len(waiters) : waiters[i] # None
<1> USE <1>0 DEF Goto, Leave, poolVars, taskVars, envVars, LockFree
<1>1. ~discards
  BY DEF Next, Progress, Enter, Cancel, BeginAcquire, TakeIdle, Reserve, QueueUp, Wakeup,
         WaitTimeout, GiveUp, Cleanup, CreateOk, CreateFail, Unreserve, Install, ReleaseUnknown,
         ReturnIdle, EvictBegin, EvictEnd, CancelEnter, CancelWait, CancelCleanup, CancelCreate,
         CancelReserved, CancelHold, CancelRelease, CancelClosing, BeginRelease, Warmup, Metrics,
         CloseAll, CloseDone, vars
<1>2. Quiet
  BY <1>1 DEF Uncontended
<1>3. ASSUME NEW c \in Clients, QueueUp(c) PROVE Quiet'
  <2>1. /\ Len(waiters') = Len(waiters) + 1
        /\ \A i \in 1..Len(waiters) : waiters'[i] = waiters[i]
        /\ waiters'[Len(waiters) + 1] = c
    BY <1>3, AppendProperties DEF QueueUp
  <2> QED BY <1>2, <1>3, <2>1 DEF QueueUp
<1>4. ASSUME NEW c \in Clients, GiveUp(c) \/ Cleanup(c) PROVE Quiet'
  <2>1. /\ waiters' = RemoveFirst(waiters, c) /\ pc' = [pc EXCEPT ![c] = "idle"]
        /\ lock' = lock
    BY <1>4 DEF GiveUp, Cleanup
  <2>2. CASE waiters' = waiters
    BY <1>2, <2>1, <2>2
  <2>3. ASSUME NEW j \in 1..Len(waiters),
               Len(waiters') = Len(waiters) - 1,
               \A i \in 1..(Len(waiters) - 1) :
                 waiters'[i] = IF i < j THEN waiters[i] ELSE waiters[i + 1]
        PROVE  Quiet'
    <3>1. \A i \in 1..(Len(waiters) - 1) : i \in 1..Len(waiters) /\ i + 1 \in 1..Len(waiters)
      OBVIOUS
    <3>2. \A i \in 1..Len(waiters') : waiters'[i] # None
      BY <1>2, <2>3, <3>1
    <3>3. lock' = None /\ \A d \in Clients : pc'[d] \notin {"discard", "closing"}
      BY <1>2, <2>1
    <3> QED BY <3>2, <3>3
  <2>4. \/ RemoveFirst(waiters, c) = waiters
        \/ \E j \in 1..Len(waiters) :
             /\ Len(RemoveFirst(waiters, c)) = Len(waiters) - 1
             /\ \A i \in 1..(Len(waiters) - 1) :
                  RemoveFirst(waiters, c)[i] = IF i < j THEN waiters[i] ELSE waiters[i + 1]
    BY RemoveFirstElements
  <2> QED BY <2>1, <2>2, <2>3, <2>4
<1>5. ASSUME NEW c \in Clients, ReturnIdle(c) PROVE Quiet'
  <2>1. WakeOldest /\ pc' = [pc EXCEPT ![c] = "idle"] /\ lock' = lock
    BY <1>5 DEF ReturnIdle
  <2>2. CASE waiters = <<>>
    BY <1>2, <2>1, <2>2 DEF WakeOldest
  <2>3. CASE waiters # <<>>
    <3>1. /\ Len(waiters') = Len(waiters) - 1
          /\ \A i \in 1..(Len(waiters) - 1) : waiters'[i] = waiters[i + 1]
      BY <2>1, <2>3, HeadTailProperties DEF WakeOldest
    <3> QED BY <1>2, <2>1, <3>1
  <2> QED BY <2>2, <2>3
<1>6. ASSUME NEW c \in Clients,
             \/ BeginAcquire(c) \/ TakeIdle(c) \/ Reserve(c) \/ Wakeup(c) \/ WaitTimeout(c)
             \/ CreateOk(c) \/ CreateFail(c) \/ Unreserve(c) \/ Install(c) \/ ReleaseUnknown(c)
             \/ CancelWait(c) \/ CancelCreate(c) \/ CancelHold(c)
             \/ \E b \in BOOLEAN : BeginRelease(c, b)
      PROVE  Quiet'
  <2>1. /\ waiters' = waiters /\ lock' = lock
        /\ \E s : s \notin {"discard", "closing"} /\ pc' = [pc EXCEPT ![c] = s]
    BY <1>6
    DEF BeginAcquire, TakeIdle, Reserve, Wakeup, WaitTimeout, CreateOk, CreateFail, Unreserve,
        Install, ReleaseUnknown, CancelWait, CancelCreate, CancelHold, BeginRelease
  <2> QED BY <1>2, <2>1
<1>7. ASSUME NEW c \in Clients
      PROVE  /\ ~EvictBegin(c) /\ ~EvictEnd(c)
             /\ ~CancelEnter(c) /\ ~CancelCleanup(c) /\ ~CancelReserved(c)
             /\ ~CancelRelease(c) /\ ~CancelClosing(c)
  BY <1>2
  DEF EvictBegin, EvictEnd, CancelEnter, CancelCleanup, CancelReserved, CancelRelease, CancelClosing
<1>8. UNCHANGED <<waiters, pc, lock>> => Quiet'
  BY <1>2
<1>9. (\E t \in 1..MaxConn : Warmup(t)) \/ Metrics \/ CloseAll \/ CloseDone \/ UNCHANGED vars
        => UNCHANGED <<waiters, pc, lock>>
  BY DEF Warmup, Metrics, CloseAll, CloseDone, vars
<1> QED
  BY <1>3, <1>4, <1>5, <1>6, <1>7, <1>8, <1>9 DEF Next, Progress, Enter, Cancel

\* Until then, every step keeps the entries of _in_use paired with the tasks that will
\* take them out: a task enters and leaves the pool together with its entry.
LEMMA SlotsStep == QueueInv /\ [Next]_vars => SlotsAccounted'
<1> DEFINE Holding == {"hold", "release", "discard"}
           Slots == /\ \A k : k \in reserved <=> \E c \in Clients : pc[c] \in Creating /\ conn[c] = k
                    /\ \A k : k \in inUse <=> \E c \in Clients : pc[c] \in Holding /\ conn[c] = k
<1> SUFFICES ASSUME QueueInv, [Next]_vars, ~discards', shutdown' = "no"
             PROVE  Slots'
  BY DEF SlotsAccounted, Creating
<1>0. /\ TypeOK /\ ExclusiveUse /\ KeysOwned /\ Uncontended /\ SlotsAccounted
      /\ None \notin Conns
  BY PoolAssumption DEF QueueInv, PoolInv, Conns
<1> USE <1>0 DEF TypeOK, Goto, Leave, poolVars, taskVars, envVars, Creating
<1>1. ~discards /\ shutdown = "no"
  BY DEF Next, Progress, Enter, Cancel, BeginAcquire, TakeIdle, Reserve, QueueUp, Wakeup,
         WaitTimeout, GiveUp, Cleanup, CreateOk, CreateFail, Unreserve, Install, ReleaseUnknown,
         ReturnIdle, EvictBegin, EvictEnd, CancelEnter, CancelWait, CancelCleanup, CancelCreate,
         CancelReserved, CancelHold, CancelRelease, CancelClosing, BeginRelease, Warmup, Metrics,
         CloseAll, CloseDone, vars
<1>2. Slots
  BY <1>1 DEF SlotsAccounted
<1>3. LockFree /\ \A c \in Clients : pc[c] \notin {"discard", "closing"}
  BY <1>1 DEF Uncontended
<1>4. ASSUME NEW c \in Clients, TakeIdle(c) PROVE Slots'
  <2>1. PICK k \in available : inUse' = inUse \cup {k} /\ conn' = [conn EXCEPT ![c] = k]
    BY <1>4 DEF TakeIdle
  <2>2. pc[c] = "enter" /\ pc' = [pc EXCEPT ![c] = "hold"] /\ reserved' = reserved
    BY <1>4 DEF TakeIdle
  <2> QED BY <1>2, <2>1, <2>2
<1>5. ASSUME NEW c \in Clients, Reserve(c) PROVE Slots'
  <2>1. PICK k : reserved' = reserved \cup {k} /\ conn' = [conn EXCEPT ![c] = k]
    BY <1>5 DEF Reserve
  <2>2. pc[c] = "enter" /\ pc' = [pc EXCEPT ![c] = "create"] /\ inUse' = inUse
    BY <1>5 DEF Reserve
  <2> QED BY <1>2, <2>1, <2>2
<1>6. ASSUME NEW c \in Clients, Unreserve(c) PROVE Slots'
  <2>1. \A d \in Clients \ {c} : conn[d] # conn[c]
    BY <1>6 DEF Unreserve, ExclusiveUse, KeysOwned, Keyless
  <2> QED BY <1>2, <1>6, <2>1 DEF Unreserve
<1>7. ASSUME NEW c \in Clients, Install(c) PROVE Slots'
  <2>1. \A d \in Clients \ {c} : conn[d] # conn[c]
    BY <1>7 DEF Install, ExclusiveUse, KeysOwned, Keyless
  <2> QED BY <1>2, <1>7, <2>1 DEF Install
<1>8. ASSUME NEW c \in Clients, ReturnIdle(c) PROVE Slots'
  <2>1. \A d \in Clients \ {c} : conn[d] # conn[c]
    BY <1>8 DEF ReturnIdle, ExclusiveUse, KeysOwned, Keyless
  <2> QED BY <1>2, <1>8, <2>1 DEF ReturnIdle
<1>9. ASSUME NEW c \in Clients, ReleaseUnknown(c) PROVE FALSE
  BY <1>2, <1>9 DEF ReleaseUnknown
<1>10. ASSUME NEW c \in Clients
       PROVE  /\ ~EvictBegin(c) /\ ~EvictEnd(c)
              /\ ~CancelEnter(c) /\ ~CancelCleanup(c) /\ ~CancelReserved(c)
              /\ ~CancelRelease(c) /\ ~CancelClosing(c)
  BY <1>3
  DEF EvictBegin, EvictEnd, CancelEnter, CancelCleanup, CancelReserved, CancelRelease, CancelClosing
<1>11. ASSUME NEW c \in Clients,
              \/ BeginAcquire(c) \/ QueueUp(c) \/ Wakeup(c) \/ WaitTimeout(c) \/ GiveUp(c)
              \/ Cleanup(c) \/ CreateOk(c) \/ CreateFail(c)
              \/ CancelWait(c) \/ CancelCreate(c) \/ CancelHold(c)
              \/ \E b \in BOOLEAN : BeginRelease(c, b)
       PROVE  Slots'
  <2>1. UNCHANGED <<inUse, reserved, conn>>
    BY <1>11
    DEF BeginAcquire, QueueUp, Wakeup, WaitTimeout, GiveUp, Cleanup, CreateOk, CreateFail,
        CancelWait, CancelCreate, CancelHold, BeginRelease, Woken
  <2>2. \A d \in Clients : /\ (pc'[d] \in Creating) <=> (pc[d] \in Creating)
                           /\ (pc'[d] \in Holding) <=> (pc[d] \in Holding)
    BY <1>11
    DEF BeginAcquire, QueueUp, Wakeup, WaitTimeout, GiveUp, Cleanup, CreateOk, CreateFail,
        CancelWait, CancelCreate, CancelHold, BeginRelease, Woken
  <2> QED BY <1>2, <2>1, <2>2
<1>12. ASSUME NEW t \in 1..MaxConn, Warmup(t) PROVE Slots'
  BY <1>2, <1>12 DEF Warmup
<1>13. Metrics \/ UNCHANGED vars => Slots'
  BY <1>2 DEF Metrics, vars
<1>14. ~CloseAll /\ ~CloseDone
  BY <1>1 DEF CloseAll, CloseDone
<1> QED
  BY <1>4, <1>5, <1>6, <1>7, <1>8, <1>9, <1>10, <1>11, <1>12, <1>13, <1>14
  DEF Next, Progress, Enter, Cancel

\* Every step keeps idle connections covered by tasks on their way to take one.  Whoever
\* takes a connection was coming and takes one away from both sides; release() adds one
\* connection and wakes one task, which was not coming before; a coming task that times
\* out or is cancelled has wasted its wakeup; nobody queues while a connection is idle.
LEMMA IdleStep == QueueInv /\ [Next]_vars => IdleCovered'
<1> SUFFICES ASSUME QueueInv, [Next]_vars, waiters' # <<>>, ~dropped'
             PROVE  Cardinality(available') <= Cardinality(Coming')
  BY DEF IdleCovered
<1> DEFINE Covered == Cardinality(available) <= Cardinality(Coming)
<1>0. /\ WaitersOwned /\ IdleCovered /\ Uncontended
      /\ pc \in [Clients -> PcValues] /\ dropped \in BOOLEAN
      /\ waiters \in Seq(Clients \cup {None}) /\ Len(waiters) \in Nat
      /\ None \notin Clients
  BY PoolAssumption, LenProperties DEF QueueInv, PoolInv, TypeOK
<1>1. IsFiniteSet(available) /\ Cardinality(available) \in Nat
  <2>1. IsFiniteSet(Conns) /\ available \subseteq Conns
    BY PoolAssumption, FS_Interval DEF Conns, QueueInv, PoolInv, TypeOK
  <2>2. IsFiniteSet(available)
    BY <2>1, FS_Subset
  <2> QED BY <2>2, FS_CardinalityType
<1>2. /\ IsFiniteSet(Coming) /\ Cardinality(Coming) \in Nat
      /\ IsFiniteSet(Coming') /\ Cardinality(Coming') \in Nat
  <2>1. Coming \subseteq Clients /\ Coming' \subseteq Clients
    BY DEF Coming
  <2>2. IsFiniteSet(Coming) /\ IsFiniteSet(Coming')
    BY <2>1, PoolAssumption, FS_Subset
  <2> QED BY <2>2, FS_CardinalityType
<1>3. ~dropped
  BY <1>0
  DEF Next, Progress, Enter, Cancel, BeginAcquire, TakeIdle, Reserve, QueueUp, Wakeup,
      WaitTimeout, GiveUp, Cleanup, CreateOk, CreateFail, Unreserve, Install, ReleaseUnknown,
      ReturnIdle, EvictBegin, EvictEnd, CancelEnter, CancelWait, CancelCleanup, CancelCreate,
      CancelReserved, CancelHold, CancelRelease, CancelClosing, BeginRelease, Warmup, Metrics,
      CloseAll, CloseDone, vars, WakeOldest, envVars
<1>4. waiters # <<>> => Covered
  BY <1>3 DEF IdleCovered, QueueInv
<1>5. CASE available' = {}
  <2>1. Cardinality(available') = 0
    BY <1>5, FS_EmptySet
  <2> QED BY <1>2, <2>1
<1>6. CASE waiters # <<>> /\ available' = available /\ Coming \subseteq Coming'
  <2>1. Cardinality(Coming) <= Cardinality(Coming')
    BY <1>2, <1>6, FS_Subset
  <2> QED BY <1>1, <1>2, <1>4, <1>6, <2>1
<1> USE <1>0 DEF Goto, Leave, poolVars, taskVars, envVars
<1>7. ASSUME NEW c \in Clients, TakeIdle(c) PROVE Covered'
  <2>1. PICK k \in available : available' = available \ {k}
    BY <1>7 DEF TakeIdle
  <2>2. Cardinality(available') = Cardinality(available) - 1
    BY <1>1, <2>1, FS_RemoveElement
  <2>3. waiters' = waiters /\ pc[c] = "enter" /\ pc' = [pc EXCEPT ![c] = "hold"]
    BY <1>7 DEF TakeIdle
  <2>4. c \in Coming /\ (Coming \ {c}) \subseteq Coming'
    BY <2>3 DEF Coming, Woken
  <2>5. Cardinality(Coming \ {c}) = Cardinality(Coming) - 1
    BY <1>2, <2>4, FS_RemoveElement
  <2>6. Cardinality(Coming \ {c}) <= Cardinality(Coming')
    BY <1>2, <2>4, FS_Subset
  <2>7. Covered
    BY <1>4, <2>3
  <2> QED BY <1>1, <1>2, <2>2, <2>5, <2>6, <2>7
<1>8. ASSUME NEW c \in Clients, Reserve(c) \/ QueueUp(c) PROVE available' = {}
  BY <1>8 DEF Reserve, QueueUp
<1>9. ASSUME NEW c \in Clients, WakeOldest, waiters # <<>>,
             \E s : s # "wait" /\ pc' = [pc EXCEPT ![c] = s], pc[c] \notin {"wait", "enter"}
      PROVE  \E d \in Clients : d \notin Coming /\ (Coming \cup {d}) \subseteq Coming'
  <2> DEFINE d == Head(waiters)
  <2>1. /\ Len(waiters') = Len(waiters) - 1
        /\ \A i \in 1..(Len(waiters) - 1) : waiters'[i] = waiters[i + 1]
        /\ waiters' \in Seq(Clients \cup {None})
        /\ d = waiters[1] /\ d \in Clients \cup {None} /\ 1 \in 1..Len(waiters)
    BY <1>9, HeadTailProperties, EmptySeq DEF WakeOldest
  <2>2. d \in Clients /\ pc[d] = "wait" /\ d # c
    BY <1>9, <2>1 DEF WakeOldest
  <2>3. d \in ToSet(waiters)
    BY <2>1 DEF ToSet
  <2>4. d \notin Coming
    BY <2>2, <2>3 DEF Coming, Woken
  <2>5. \A i \in 1..(Len(waiters) - 1) : waiters'[i] # d
    BY <2>1, <2>2 DEF WaitersOwned
  <2>6. /\ DOMAIN waiters' = 1..(Len(waiters) - 1)
        /\ DOMAIN waiters = 1..Len(waiters)
    BY <2>1, LenProperties
  <2>7. d \notin ToSet(waiters')
    BY <2>5, <2>6 DEF ToSet
  <2>8. ToSet(waiters') \subseteq ToSet(waiters)
    BY <2>1, <2>6 DEF ToSet
  <2>9. d \in Coming'
    BY <1>9, <2>2, <2>7 DEF Coming, Woken
  <2>10. Coming \subseteq Coming'
    BY <1>9, <2>8 DEF Coming, Woken
  <2> QED BY <2>2, <2>4, <2>9, <2>10
<1>10. ASSUME NEW c \in Clients, ReturnIdle(c) PROVE Covered'
  <2>1. /\ WakeOldest /\ pc[c] = "release" /\ pc' = [pc EXCEPT ![c] = "idle"]
        /\ available' = available \cup {conn[c]}
    BY <1>10 DEF ReturnIdle
  <2>2. waiters # <<>>
    BY <2>1 DEF WakeOldest
  <2>3. PICK d \in Clients : d \notin Coming /\ (Coming \cup {d}) \subseteq Coming'
    BY <1>9, <2>1, <2>2
  <2>4. Cardinality(Coming \cup {d}) = Cardinality(Coming) + 1
    BY <1>2, <2>3, FS_AddElement
  <2>5. Cardinality(Coming \cup {d}) <= Cardinality(Coming')
    BY <1>2, <2>3, FS_Subset
  <2>6. Cardinality(available') <= Cardinality(available) + 1 /\ Cardinality(available') \in Nat
    BY <1>1, <2>1, CardinalitySteps
  <2>7. Covered
    BY <1>4, <2>2
  <2> QED BY <1>1, <1>2, <2>4, <2>5, <2>6, <2>7
<1>11. ASSUME NEW c \in Clients, EvictEnd(c) PROVE Covered'
  <2>1. /\ WakeOldest /\ pc[c] = "closing" /\ pc' = [pc EXCEPT ![c] = "idle"]
        /\ available' = available
    BY <1>11 DEF EvictEnd
  <2>2. waiters # <<>>
    BY <2>1 DEF WakeOldest
  <2>3. Coming \subseteq Coming'
    BY <1>9, <2>1, <2>2
  <2> QED BY <1>6, <2>1, <2>2, <2>3
<1>12. ASSUME NEW c \in Clients, GiveUp(c) \/ Cleanup(c) PROVE Covered'
  <2>1. /\ waiters' = RemoveFirst(waiters, c) /\ pc[c] \in {"gaveup", "cleanup"}
        /\ pc' = [pc EXCEPT ![c] = "idle"] /\ available' = available
    BY <1>12 DEF GiveUp, Cleanup
  <2>2. \/ waiters' = waiters
        \/ \E j \in 1..Len(waiters) :
             /\ waiters' \in Seq(Clients \cup {None})
             /\ Len(waiters') = Len(waiters) - 1
             /\ \A i \in 1..(Len(waiters) - 1) :
                  waiters'[i] = IF i < j THEN waiters[i] ELSE waiters[i + 1]
    <3> DEFINE rest == RemoveFirst(waiters, c)
    <3>1. \/ rest = waiters
          \/ \E j \in 1..Len(waiters) :
               /\ rest \in Seq(Clients \cup {None})
               /\ Len(rest) = Len(waiters) - 1
               /\ \A i \in 1..(Len(waiters) - 1) :
                    rest[i] = IF i < j THEN waiters[i] ELSE waiters[i + 1]
      BY RemoveFirstElements
    <3> HIDE DEF rest
    <3>2. waiters' = rest
      BY <2>1 DEF rest
    <3> QED BY <3>1, <3>2
  <2>3. waiters # <<>>
    BY <2>2, EmptySeq
  <2>4. ToSet(waiters') \subseteq ToSet(waiters)
    <3>1. CASE waiters' = waiters
      BY <3>1
    <3>2. ASSUME NEW j \in 1..Len(waiters),
                 waiters' \in Seq(Clients \cup {None}),
                 Len(waiters') = Len(waiters) - 1,
                 \A i \in 1..(Len(waiters) - 1) :
                   waiters'[i] = IF i < j THEN waiters[i] ELSE waiters[i + 1]
          PROVE  ToSet(waiters') \subseteq ToSet(waiters)
      <4>1. DOMAIN waiters' = 1..(Len(waiters) - 1) /\ DOMAIN waiters = 1..Len(waiters)
        BY <3>2, LenProperties
      <4>2. \A i \in 1..(Len(waiters) - 1) : i \in 1..Len(waiters) /\ i + 1 \in 1..Len(waiters)
        OBVIOUS
      <4> QED BY <3>2, <4>1, <4>2 DEF ToSet
    <3> QED BY <2>2, <3>1, <3>2
  <2>5. Coming \subseteq Coming'
    BY <2>1, <2>4 DEF Coming, Woken
  <2> QED BY <1>6, <2>1, <2>3, <2>5
<1>13. ASSUME NEW c \in Clients, CancelCleanup(c) PROVE Covered'
  <2>1. /\ waiters' = ReplaceAll(waiters, c, None) /\ pc[c] = "cleanup"
        /\ pc' = [pc EXCEPT ![c] = "idle"] /\ available' = available
    BY <1>13 DEF CancelCleanup
  <2>2. /\ waiters' \in Seq(Clients \cup {None})
        /\ Len(waiters') = Len(waiters)
        /\ \A i \in 1..Len(waiters) : waiters'[i] = IF waiters[i] = c THEN None ELSE waiters[i]
    BY <2>1, ReplaceAllElements, ReplaceAllType
  <2>3. waiters # <<>>
    BY <2>2, EmptySeq
  <2>4. DOMAIN waiters' = 1..Len(waiters) /\ DOMAIN waiters = 1..Len(waiters)
    BY <2>2, LenProperties
  <2>5. ToSet(waiters') \subseteq ToSet(waiters) \cup {None}
    BY <2>2, <2>4 DEF ToSet
  <2>6. Coming \subseteq Coming'
    BY <2>1, <2>5 DEF Coming, Woken
  <2> QED BY <1>6, <2>1, <2>3, <2>6
<1>14. ASSUME NEW c \in Clients, WaitTimeout(c) \/ CancelWait(c) \/ CancelEnter(c)
       PROVE  waiters # <<>> /\ available' = available /\ Coming \subseteq Coming'
  BY <1>14 DEF WaitTimeout, CancelWait, CancelEnter, Coming, Woken
<1>15. ASSUME NEW c \in Clients,
              \/ BeginAcquire(c) \/ Wakeup(c) \/ CreateOk(c) \/ CreateFail(c) \/ Unreserve(c)
              \/ Install(c) \/ ReleaseUnknown(c) \/ EvictBegin(c)
              \/ CancelCreate(c) \/ CancelReserved(c) \/ CancelHold(c)
              \/ CancelRelease(c) \/ CancelClosing(c)
              \/ \E b \in BOOLEAN : BeginRelease(c, b)
       PROVE  waiters # <<>> /\ available' = available /\ Coming \subseteq Coming'
  <2>1. /\ waiters' = waiters /\ available' = available
        /\ \E s : /\ pc' = [pc EXCEPT ![c] = s]
                  /\ c \notin Coming \/ s = "enter"
    BY <1>15
    DEF BeginAcquire, Wakeup, CreateOk, CreateFail, Unreserve, Install, ReleaseUnknown,
        EvictBegin, CancelCreate, CancelReserved, CancelHold, CancelRelease, CancelClosing,
        BeginRelease, Coming, Woken
  <2> QED BY <2>1 DEF Coming, Woken
<1>16. ASSUME NEW t \in 1..MaxConn, Warmup(t) PROVE FALSE
  <2>1. ~discards /\ waiters # <<>> /\ \A c \in Clients : pc[c] = "idle"
    BY <1>16 DEF Warmup
  <2>2. 1 \in 1..Len(waiters)
    BY <2>1, EmptySeq
  <2>3. waiters[1] \in Clients
    BY <2>1, <2>2, ElementOfSeq DEF Uncontended
  <2> QED BY <2>1, <2>2, <2>3 DEF WaitersOwned
<1>17. Metrics \/ CloseDone \/ UNCHANGED vars
         => waiters # <<>> /\ available' = available /\ Coming' = Coming
  BY DEF Metrics, CloseDone, vars, Coming, Woken
<1>18. CloseAll => available' = {}
  BY DEF CloseAll
<1> QED
  BY <1>5, <1>6, <1>7, <1>8, <1>10, <1>11, <1>12, <1>13, <1>14, <1>15, <1>16, <1>17, <1>18
  DEF Next, Progress, Enter, Cancel

\* The queue of waiters keeps its order, its owners and its promise to them.
THEOREM QueueInvariant == Spec => []QueueInv
<1>1. Init => QueueInv
  <2>1. Init => WaitersOwned /\ Uncontended /\ SlotsAccounted /\ IdleCovered
    BY EmptySeq DEF Init, WaitersOwned, Uncontended, SlotsAccounted, IdleCovered, LockFree
  <2> QED BY <2>1, InitInv DEF QueueInv
<1>2. PoolInv /\ [Next]_vars => PoolInv'
  BY TypeStep, OwnershipStep, CapacityStep DEF PoolInv
<1>3. QueueInv /\ [Next]_vars => QueueInv'
  BY <1>2, WaitersStep, UncontendedStep, SlotsStep, IdleStep DEF QueueInv
<1> QED BY <1>1, <1>3, PTL DEF Spec

\* As long as no eviction awaits a close under the lock, every entry of _in_use has a
\* task that will take it out again.
THEOREM PoolSlotsAccounted == Spec => []SlotsAccounted
<1>1. QueueInv => SlotsAccounted
  BY DEF QueueInv
<1> QED BY QueueInvariant, <1>1, PTL

\* As long as no eviction awaits a close under the lock, every listed waiter is awaited,
\* or about to be removed, by one task.
THEOREM PoolWaitersAlive == Spec => []WaitersAlive
<1>1. QueueInv => WaitersAlive
  <2> SUFFICES ASSUME QueueInv, ~discards
               PROVE  /\ \A i \in 1..Len(waiters) : waiters[i] \in Clients /\
                           pc[waiters[i]] \in {"wait", "gaveup", "cleanup"}
                      /\ IsInjective(waiters)
    BY DEF WaitersAlive
  <2>1. waiters \in Seq(Clients \cup {None})
    BY DEF QueueInv, PoolInv, TypeOK
  <2>2. \A i \in 1..Len(waiters) : waiters[i] \in Clients /\ waiters[i] # None
    BY <2>1, ElementOfSeq DEF QueueInv, Uncontended
  <2>3. DOMAIN waiters = 1..Len(waiters)
    BY <2>1, LenProperties
  <2> QED BY <2>2, <2>3 DEF QueueInv, WaitersOwned, IsInjective
<1> QED BY QueueInvariant, <1>1, PTL

\* A task queues beside an idle connection only while another is on its way to take it,
\* unless a wakeup was spent on a task that gave up.
THEOREM PoolIdleReachesWaiter == Spec => []IdleReachesWaiter
<1>1. QueueInv => IdleReachesWaiter
  <2> SUFFICES ASSUME QueueInv, available # {}, waiters # <<>>, ~dropped
               PROVE  Coming # {}
    BY DEF IdleReachesWaiter, Coming
  <2>1. IsFiniteSet(available)
    <3>1. IsFiniteSet(Conns) /\ available \subseteq Conns
      BY PoolAssumption, FS_Interval DEF Conns, QueueInv, PoolInv, TypeOK
    <3> QED BY <3>1, FS_Subset
  <2>2. Cardinality(available) # 0 /\ Cardinality(available) \in Nat
    BY <2>1, FS_EmptySet, FS_CardinalityType
  <2>3. Cardinality(available) <= Cardinality(Coming)
    BY DEF QueueInv, IdleCovered
  <2> QED BY <2>2, <2>3, FS_EmptySet
<1> QED BY QueueInvariant, <1>1, PTL

----------------------------------------------------------------------------
(* The abstract pool *)

\* The abstract pool counts as this one does.
LEMMA SameCardinality == ASSUME NEW S PROVE Promised!Cardinality(S) = Cardinality(S)
BY DEF Promised!Cardinality, Cardinality

\* Every step of the pool is one that BoundedPool allows, or changes nothing that it
\* speaks of.
LEMMA BoundedPoolStep == PoolInv /\ [Next]_vars => [Promised!Next]_(Promised!poolState)
<1> DEFINE Step == Promised!Next
           Stutter == UNCHANGED Promised!poolState
<1> SUFFICES ASSUME PoolInv, [Next]_vars
             PROVE  Step \/ Stutter
  OBVIOUS
<1>0. TypeOK /\ BooksDisjoint /\ KeysOwned /\ ExclusiveUse
  BY DEF PoolInv
<1> USE <1>0, PoolAssumption, SizerAssumption
    DEF TypeOK, poolVars, taskVars, envVars, Goto, Promised!poolState, Promised!Has
<1>1. ASSUME NEW c \in Clients, TakeIdle(c) PROVE Promised!Lend(c)
  BY <1>1 DEF TakeIdle, KeysOwned, Keyless, Promised!Lend
<1>2. ASSUME NEW c \in Clients, Reserve(c) PROVE Promised!Create(c)
  <2> DEFINE k == CHOOSE x \in FreshKeys : TRUE
  <2>1. k \in FreshKeys
    BY <1>2 DEF Reserve
  <2>2. k \in Conns \ Promised!Known
    BY <2>1 DEF FreshKeys, Promised!Known
  <2>3. Cardinality(inUse \cup reserved) < MaxConn
    <3>1. IsFiniteSet(Conns)
      BY FS_Interval DEF Conns
    <3>2. IsFiniteSet(inUse) /\ IsFiniteSet(reserved)
      BY <3>1, FS_Subset
    <3>3. /\ Cardinality(inUse) \in Nat /\ Cardinality(reserved) \in Nat
          /\ Cardinality(inUse \cap reserved) \in Nat
      BY <3>2, FS_CardinalityType, FS_Intersection
    <3>4. Cardinality(inUse \cup reserved)
            = Cardinality(inUse) + Cardinality(reserved) - Cardinality(inUse \cap reserved)
      BY <3>2, FS_Union
    <3>5. Occupied < current /\ current \in Int /\ current <= MaxConn
      BY <1>2 DEF Reserve
    <3> QED BY <3>3, <3>4, <3>5 DEF Occupied
  <2>4. /\ conn[c] = None /\ available = {}
        /\ reserved' = reserved \cup {k} /\ conn' = [conn EXCEPT ![c] = k]
        /\ UNCHANGED <<available, inUse, shutdown>>
    BY <1>2 DEF Reserve, KeysOwned, Keyless
  <2> HIDE DEF k
  <2> QED BY <2>2, <2>3, <2>4, SameCardinality DEF Promised!Create
<1>3. ASSUME NEW c \in Clients, Unreserve(c) PROVE Promised!Drop(c)
  <2>1. conn[c] # None /\ conn[c] \notin inUse
    BY <1>3 DEF Unreserve, KeysOwned, Keyless, Creating
  <2> QED BY <1>3, <2>1 DEF Unreserve, Leave, Promised!Drop
<1>4. ASSUME NEW c \in Clients, Install(c) PROVE Step \/ Stutter
  <2>1. conn[c] # None /\ conn[c] \notin available
    BY <1>4 DEF Install, KeysOwned, Keyless, ExclusiveUse
  <2>2. (inUse \cup reserved)' = inUse \cup reserved \cup {conn[c]}
    BY <1>4 DEF Install
  <2>3. UNCHANGED <<available, conn, shutdown>>
    BY <1>4 DEF Install
  <2>4. CASE shutdown = "no"
    <3>1. conn[c] \in reserved
      BY <1>4, <2>4 DEF Install, KeysOwned, Creating
    <3> QED BY <2>2, <2>3, <3>1
  <2>5. CASE shutdown # "no"
    BY <2>1, <2>2, <2>3, <2>5 DEF Promised!Adopt, Promised!Next
  <2> QED BY <2>4, <2>5
<1>5. ASSUME NEW c \in Clients, ReturnIdle(c) PROVE Promised!Return(c)
  BY <1>5 DEF ReturnIdle, Leave, BooksDisjoint, Promised!Return
<1>6. ASSUME NEW c \in Clients, EvictBegin(c) PROVE Promised!Condemn(c)
  BY <1>6 DEF EvictBegin, BooksDisjoint, Promised!Condemn
<1>7. ASSUME NEW c \in Clients,
             \/ ReleaseUnknown(c) \/ EvictEnd(c)
             \/ CancelReserved(c) \/ CancelRelease(c) \/ CancelClosing(c)
      PROVE  Promised!Drop(c)
  <2>1. conn[c] # None
    BY <1>7
    DEF ReleaseUnknown, EvictEnd, CancelReserved, CancelRelease, CancelClosing, KeysOwned, Keyless
  <2>2. /\ conn' = [conn EXCEPT ![c] = None]
        /\ UNCHANGED <<available, inUse, reserved, shutdown>>
    BY <1>7
    DEF ReleaseUnknown, EvictEnd, CancelReserved, CancelRelease, CancelClosing, Leave
  <2> QED BY <2>1, <2>2 DEF Promised!Drop
<1>8. ASSUME NEW c \in Clients,
             \/ BeginAcquire(c) \/ QueueUp(c) \/ Wakeup(c) \/ WaitTimeout(c) \/ GiveUp(c)
             \/ Cleanup(c) \/ CreateOk(c) \/ CreateFail(c)
             \/ CancelEnter(c) \/ CancelWait(c) \/ CancelCleanup(c) \/ CancelCreate(c)
             \/ CancelHold(c)
             \/ \E b \in BOOLEAN : BeginRelease(c, b)
      PROVE  Stutter
  BY <1>8
  DEF BeginAcquire, QueueUp, Wakeup, WaitTimeout, GiveUp, Cleanup, CreateOk, CreateFail,
      CancelEnter, CancelWait, CancelCleanup, CancelCreate, CancelHold, BeginRelease
<1>9. ASSUME NEW t \in 1..MaxConn, Warmup(t) PROVE Promised!Warm
  <2>1. PICK n \in 0..t : available' = 1..n
    BY <1>9 DEF Warmup
  <2>2. 1..n \subseteq Conns \ Promised!Known
    BY <1>9 DEF Warmup, Promised!Known, Conns, KeysOwned, Keyless
  <2>3. Cardinality(1..n) <= MaxConn
    <3>1. n \in Nat /\ n <= MaxConn
      OBVIOUS
    <3>2. Cardinality(1..n) = n
      BY <3>1, FS_Interval
    <3> QED BY <3>1, <3>2
  <2>4. /\ available = {} /\ inUse = {} /\ reserved = {}
        /\ UNCHANGED <<inUse, reserved, conn, shutdown>>
    BY <1>9 DEF Warmup
  <2> QED BY <2>1, <2>2, <2>3, <2>4, SameCardinality DEF Promised!Warm
<1>10. CASE CloseAll
  BY <1>10 DEF CloseAll, Promised!Close, Promised!Next
<1>11. CASE Metrics \/ CloseDone \/ UNCHANGED vars
  BY <1>11 DEF Metrics, CloseDone, vars
<1> QED
  BY <1>1, <1>2, <1>3, <1>4, <1>5, <1>6, <1>7, <1>8, <1>9, <1>10, <1>11
  DEF Next, Progress, Enter, Cancel, Promised!Next

\* The pool implements BoundedPool: whatever times out, fails, is cancelled or shut
\* down, connections are lent, made, returned and dropped only as BoundedPool allows.
THEOREM RefinesBoundedPool == Spec => ImplementsBoundedPool
<1>1. Init => Promised!Init
  BY DEF Init, Promised!Init
<1> QED BY PoolInvariant, BoundedPoolStep, <1>1, PTL DEF Spec, ImplementsBoundedPool, Promised!Spec
=============================================================================
