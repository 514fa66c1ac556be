------------------------------ MODULE SyncPool ------------------------------
(***************************************************************************)
(* SyncConnectionPool (core/db/pool/sync_pool.py), used by threads.        *)
(*                                                                         *)
(* Atomicity.  All state is guarded by one RLock, which only acquire()'s   *)
(* Condition.wait() gives up in the middle of a `with` block, and a thread *)
(* cannot be cancelled: each critical section is one action, the close of  *)
(* a broken connection included.                                           *)
(*                                                                         *)
(* Condition.wait(timeout) leaves its entry in the condition's queue when  *)
(* it times out and removes it after it has the lock again, so notify()    *)
(* may still pick a thread that has timed out.  Whichever way a thread     *)
(* comes back, it looks at the pool before it looks at its deadline.       *)
(*                                                                         *)
(* Data.  As in AsyncPool: keys stand for id(conn) and for placeholders,   *)
(* counters are left out, and the heap's order is a choice; so is the      *)
(* order of the condition's queue.  _current_waiters also counts threads   *)
(* on their way out of acquire(); metrics() then adjusts as for a slow     *)
(* recent wait, which the model always allows.                             *)
(***************************************************************************)
EXTENDS AdaptiveSizer, FiniteSets

CONSTANTS
  Threads,      \* threads that use the pool
  NumConns,     \* bound: connection keys in existence at a time
  None          \* no connection

ASSUME SyncPoolAssumption ==
  /\ IsFiniteSet(Threads)
  /\ NumConns \in Nat /\ MaxConn <= NumConns
  /\ None \notin 1..NumConns

Conns == 1..NumConns

VARIABLES
  available,    \* _available: keys of idle connections
  inUse,        \* keys of _in_use that hold a PoolConnection
  reserved,     \* keys of _in_use that hold the None placeholder
  waiters,      \* the queue of _not_empty
  late,         \* threads in acquire() whose deadline has passed
  pc,           \* where each thread is
  conn,         \* the key a thread reserved or checked out
  closed        \* close_all() has run

bookVars == <<available, inUse, reserved>>
threadVars == <<pc, conn, late>>
vars == <<bookVars, waiters, sizerVars, threadVars, closed>>

\* idle, hold: outside the pool; enter: before the lock of acquire(); wait: in
\* Condition.wait(); create: in self._create(); unreserve, install: after it, before
\* the lock; release, discard: before the lock of release().
Acquiring == {"enter", "wait", "create", "unreserve", "install"}
PcValues == Acquiring \cup {"idle", "hold", "release", "discard"}

Init ==
  /\ available = {} /\ inUse = {} /\ reserved = {}
  /\ waiters = {}
  /\ SizerInit
  /\ pc = [t \in Threads |-> "idle"]
  /\ conn = [t \in Threads |-> None]
  /\ late = {}
  /\ closed = FALSE

Occupied == Cardinality(inUse) + Cardinality(reserved)

FreshKeys ==
  Conns \ (available \cup inUse \cup reserved \cup {conn[t] : t \in Threads})

Goto(t, label) == pc' = [pc EXCEPT ![t] = label]

Leave(t) ==
  /\ Goto(t, "idle")
  /\ conn' = [conn EXCEPT ![t] = None]

\* A thread in wait() that notify() took out of the queue.
Notified(t) == pc[t] = "wait" /\ t \notin waiters

\* The thread has the lock, at the top of the loop in acquire().
AtTop(t) == pc[t] = "enter" \/ Notified(t) \/ (pc[t] = "wait" /\ t \in late)

\* Leaving the loop; after a wait() that timed out, the queue entry is removed.
LeaveLoop(t) ==
  /\ waiters' = waiters \ {t}
  /\ late' = late \ {t}

Notify ==
  IF waiters = {} THEN UNCHANGED waiters ELSE \E t \in waiters : waiters' = waiters \ {t}

----------------------------------------------------------------------------
(* acquire() *)

BeginAcquire(t) ==
  /\ pc[t] = "idle"
  /\ Goto(t, "enter")
  /\ UNCHANGED <<bookVars, waiters, sizerVars, conn, late, closed>>

\* deadline - now() <= 0 from here on.
Expire(t) ==
  /\ pc[t] \in {"enter", "wait"} /\ t \notin late
  /\ late' = late \cup {t}
  /\ UNCHANGED <<bookVars, waiters, sizerVars, pc, conn, closed>>

\* Mutant of the next action: the heap is read and not popped.
TakeIdlePeek(t) ==
  /\ AtTop(t)
  /\ \E k \in available :
       /\ inUse' = inUse \cup {k}
       /\ conn' = [conn EXCEPT ![t] = k]
  /\ LeaveLoop(t)
  /\ Goto(t, "hold")
  /\ UNCHANGED <<available, reserved, sizerVars, closed>>

TakeIdle(t) ==
  /\ AtTop(t)
  /\ \E k \in available :
       /\ available' = available \ {k}
       /\ inUse' = inUse \cup {k}
       /\ conn' = [conn EXCEPT ![t] = k]
  /\ LeaveLoop(t)
  /\ Goto(t, "hold")
  /\ UNCHANGED <<reserved, sizerVars, closed>>

\* Mutant of the next action: acquire() creates while it may, before it looks at the
\* idle connections.
ReserveFirst(t) ==
  /\ AtTop(t)
  /\ Occupied < current /\ FreshKeys # {}
  /\ LET k == CHOOSE x \in FreshKeys : TRUE
     IN  /\ reserved' = reserved \cup {k}
         /\ conn' = [conn EXCEPT ![t] = k]
  /\ LeaveLoop(t)
  /\ Goto(t, "create")
  /\ UNCHANGED <<available, inUse, sizerVars, closed>>

Reserve(t) ==
  /\ AtTop(t)
  /\ available = {} /\ Occupied < current /\ FreshKeys # {}
  /\ LET k == CHOOSE x \in FreshKeys : TRUE
     IN  /\ reserved' = reserved \cup {k}
         /\ conn' = [conn EXCEPT ![t] = k]
  /\ LeaveLoop(t)
  /\ Goto(t, "create")
  /\ UNCHANGED <<available, inUse, sizerVars, closed>>

Wait(t) ==
  /\ AtTop(t)
  /\ available = {} /\ Occupied >= current
  /\ t \notin late
  /\ waiters' = waiters \cup {t}
  /\ Goto(t, "wait")
  /\ UNCHANGED <<bookVars, sizerVars, conn, late, closed>>

\* Mutant of the next action: the deadline is forgotten after a wakeup.
RefuseNever(t) ==
  /\ AtTop(t)
  /\ available = {} /\ Occupied >= current
  /\ t \in late
  /\ waiters' = waiters \cup {t}
  /\ Goto(t, "wait")
  /\ late' = late \ {t}
  /\ UNCHANGED <<bookVars, sizerVars, conn, closed>>

\* MaxConnectionsExceeded.
Refuse(t) ==
  /\ AtTop(t)
  /\ available = {} /\ Occupied >= current
  /\ t \in late
  /\ LeaveLoop(t)
  /\ Goto(t, "idle")
  /\ UNCHANGED <<bookVars, sizerVars, conn, closed>>

CreateOk(t) ==
  /\ pc[t] = "create"
  /\ Goto(t, "install")
  /\ UNCHANGED <<bookVars, waiters, sizerVars, conn, late, closed>>

CreateFail(t) ==
  /\ pc[t] = "create"
  /\ Goto(t, "unreserve")
  /\ UNCHANGED <<bookVars, waiters, sizerVars, conn, late, closed>>

\* The slot is given back; nobody is notified.
Unreserve(t) ==
  /\ pc[t] = "unreserve"
  /\ reserved' = reserved \ {conn[t]}
  /\ Leave(t)
  /\ UNCHANGED <<available, inUse, waiters, sizerVars, late, closed>>

Install(t) ==
  /\ pc[t] = "install"
  /\ reserved' = reserved \ {conn[t]}
  /\ inUse' = inUse \cup {conn[t]}
  /\ Goto(t, "hold")
  /\ UNCHANGED <<available, waiters, sizerVars, conn, late, closed>>

----------------------------------------------------------------------------
(* release() and the pool-wide operations *)

BeginRelease(t, isBroken) ==
  /\ pc[t] = "hold"
  /\ Goto(t, IF isBroken THEN "discard" ELSE "release")
  /\ UNCHANGED <<bookVars, waiters, sizerVars, conn, late, closed>>

\* The connection is not in _in_use: close_all() dropped it.
ReleaseUnknown(t) ==
  /\ pc[t] \in {"release", "discard"} /\ conn[t] \notin inUse
  /\ Leave(t)
  /\ UNCHANGED <<bookVars, waiters, sizerVars, late, closed>>

\* Mutant of the next action: release() notifies nobody.
ReturnIdleSilently(t) ==
  /\ pc[t] = "release" /\ conn[t] \in inUse
  /\ inUse' = inUse \ {conn[t]}
  /\ available' = available \cup {conn[t]}
  /\ Leave(t)
  /\ UNCHANGED <<reserved, waiters, sizerVars, late, closed>>

ReturnIdle(t) ==
  /\ pc[t] = "release" /\ conn[t] \in inUse
  /\ inUse' = inUse \ {conn[t]}
  /\ available' = available \cup {conn[t]}
  /\ Notify
  /\ Leave(t)
  /\ UNCHANGED <<reserved, sizerVars, late, closed>>

Evict(t) ==
  /\ pc[t] = "discard" /\ conn[t] \in inUse
  /\ inUse' = inUse \ {conn[t]}
  /\ Notify
  /\ Leave(t)
  /\ UNCHANGED <<available, reserved, sizerVars, late, closed>>

Metrics ==
  /\ \E slow \in BOOLEAN : Adjust(waiters # {} \/ slow)
  /\ UNCHANGED <<bookVars, waiters, threadVars, closed>>

\* Nobody is notified, and creations in flight install their connection later.
CloseAll ==
  /\ ~closed
  /\ available' = {} /\ inUse' = {} /\ reserved' = {}
  /\ closed' = TRUE
  /\ UNCHANGED <<waiters, sizerVars, threadVars>>

----------------------------------------------------------------------------
Progress(t) ==
  \/ TakeIdle(t) \/ Reserve(t) \/ Wait(t) \/ Refuse(t)
  \/ CreateOk(t) \/ CreateFail(t) \/ Unreserve(t) \/ Install(t)
  \/ ReleaseUnknown(t) \/ ReturnIdle(t) \/ Evict(t)

Next ==
  \/ \E t \in Threads :
       \/ BeginAcquire(t) \/ Expire(t) \/ Progress(t)
       \/ \E isBroken \in BOOLEAN : BeginRelease(t, isBroken)
  \/ Metrics
  \/ CloseAll

Spec == Init /\ [][Next]_vars

----------------------------------------------------------------------------
(* Properties *)

\* Every variable has its type.
TypeOK ==
  /\ available \subseteq Conns /\ inUse \subseteq Conns /\ reserved \subseteq Conns
  /\ waiters \subseteq Threads
  /\ current \in MinConn..MaxConn /\ streak \in 0..Cooldown
  /\ pc \in [Threads -> PcValues]
  /\ conn \in [Threads -> Conns \cup {None}]
  /\ late \subseteq Threads
  /\ closed \in BOOLEAN

\* The pool never owns more connections than max_conn, although acquire() counts
\* only _in_use and creates after it has given the lock back.
CapacityBound == ~closed => Cardinality(available) + Occupied <= MaxConn

\* What a thread reserved, holds or is returning is neither idle nor another
\* thread's.
ExclusiveUse ==
  \A t \in Threads : conn[t] # None =>
    /\ conn[t] \notin available
    /\ \A u \in Threads \ {t} : conn[u] # conn[t]

\* No wakeup is lost: while a thread sleeps in acquire(), every idle connection has
\* a notified thread coming for it, although newcomers may take the connection
\* first and notify() may pick a thread whose wait has just timed out.
NoLostWakeup ==
  waiters # {} =>
    Cardinality(available) <= Cardinality({t \in Threads : Notified(t)})

\* Whatever notify() picks and whoever times out, the pool does to its connections only
\* what BoundedPool allows (sync_pool.py's module docstring).
Promised == INSTANCE BoundedPool
  WITH Users <- Threads, idle <- available, lent <- inUse \cup reserved, holds <- conn,
       open <- ~closed

ImplementsBoundedPool == Promised!Spec

\* The inductive invariant behind these: the books are disjoint, a thread has a key
\* exactly between reservation and return, the key of a creation in flight is
\* reserved (until close_all()) and not in use, and whoever is in the queue waits.
Creating == {"create", "unreserve", "install"}

BooksDisjoint ==
  /\ \A k \in available : k \notin inUse /\ k \notin reserved
  /\ \A k \in inUse : k \notin reserved

KeysOwned ==
  \A t \in Threads :
    /\ pc[t] \in {"idle", "enter", "wait"} <=> conn[t] = None
    /\ pc[t] \in Creating =>
         /\ conn[t] \notin inUse
         /\ ~closed => conn[t] \in reserved

QueueWaits == \A t \in waiters : pc[t] = "wait"

SyncInv ==
  /\ TypeOK /\ BooksDisjoint /\ KeysOwned /\ QueueWaits
  /\ CapacityBound /\ ExclusiveUse /\ NoLostWakeup
=============================================================================
