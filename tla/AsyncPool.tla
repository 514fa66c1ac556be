----------------------------- MODULE AsyncPool -----------------------------
(***************************************************************************)
(* AsyncConnectionPool (core/db/pool/async_pool.py) with its AdaptiveSizer *)
(* (core/db/pool/adaptive.py), used by concurrent asyncio tasks that may   *)
(* time out or be cancelled.                                               *)
(*                                                                         *)
(* Atomicity.  All tasks run on one event loop, so code between two        *)
(* suspension points is one step.  Every `async with self._lock` body is   *)
(* free of awaits except release(broken=True), which awaits conn.close()   *)
(* with the lock held.  Hence an uncontended lock never suspends its       *)
(* taker, each critical section is one action guarded by a free lock, and  *)
(* the lock needs an owner only while an eviction is closing its           *)
(* connection.  A task can be cancelled only where it is suspended: at a   *)
(* real await, or at the lock while an eviction holds it.  (Cancelled      *)
(* while the lock's queue drains, it leaves the pool as if cancelled just  *)
(* before the eviction ended.)                                             *)
(*                                                                         *)
(* Data.  A connection key stands for id(conn), and for the placeholder    *)
(* reserved ahead of it.  The heap order of _available is abstracted to a  *)
(* choice; statistics counters are left out, and the rolling wait average  *)
(* read by the sizer is a nondeterministic pressure signal.                *)
(***************************************************************************)
EXTENDS AdaptiveSizer, Sequences, FiniteSets, SequencesExt

CONSTANTS
  Clients,      \* tasks that use the pool
  NumConns,     \* bound: connection keys in existence at a time
  None,         \* no task, no connection, or a waiter nobody awaits
  MaxCancels    \* bound: task cancellations in a behaviour

ASSUME PoolAssumption ==
  /\ IsFiniteSet(Clients)
  /\ NumConns \in Nat
  /\ None \notin Clients \cup 1..NumConns
  /\ MaxConn <= NumConns
  /\ MaxCancels \in Nat

Conns == 1..NumConns

VARIABLES
  available,    \* _available: keys of idle connections
  inUse,        \* keys of _in_use that hold a PoolConnection
  reserved,     \* keys of _in_use that hold the None placeholder
  waiters,      \* _waiters: the task awaiting each Event, None if nobody does
  lock,         \* owner of _lock at a suspension point
  pc,           \* where each task is suspended
  conn,         \* the key a task reserved or checked out
  closed,       \* keys of connections closed (or being closed) that a task still has
  shutdown,     \* progress of DatabaseSession.close()
  cancels,      \* cancellations so far
  discards,     \* history: some release() had broken=True
  dropped       \* history: some wakeup went to a task that gave up

poolVars == <<available, inUse, reserved, waiters, lock, closed>>
taskVars == <<pc, conn>>
envVars == <<shutdown, cancels, discards, dropped>>
vars == <<poolVars, sizerVars, taskVars, envVars>>

----------------------------------------------------------------------------
(***************************************************************************)
(* Where a task is suspended:                                              *)
(*   idle       outside the pool                                           *)
(*   enter      at the lock, top of the acquire() loop                     *)
(*   wait       in wait_for(waiter.wait())                                 *)
(*   gaveup     timed out, at the lock to remove its waiter                *)
(*   cleanup    cancelled, at the lock to remove its waiter                *)
(*   create     awaiting self._create()                                    *)
(*   unreserve  creation failed, at the lock to give the slot back         *)
(*   install    creation succeeded, at the lock to register the connection *)
(*   hold       using its connection                                       *)
(*   release    at the lock of release(conn)                               *)
(*   discard    at the lock of release(conn, broken=True)                  *)
(*   closing    owning the lock, awaiting the close of a broken connection *)
(***************************************************************************)
Acquiring == {"enter", "wait", "gaveup", "cleanup", "create", "unreserve", "install"}
PcValues == Acquiring \cup {"idle", "hold", "release", "discard", "closing"}

Init ==
  /\ available = {} /\ inUse = {} /\ reserved = {}
  /\ waiters = <<>>
  /\ lock = None
  /\ SizerInit
  /\ pc = [c \in Clients |-> "idle"]
  /\ conn = [c \in Clients |-> None]
  /\ closed = {}
  /\ shutdown = "no"
  /\ cancels = 0 /\ discards = FALSE /\ dropped = FALSE

LockFree == lock = None

\* len(self._in_use): placeholders count.
Occupied == Cardinality(inUse) + Cardinality(reserved)

\* An Event that was set has left the list, so a task that waits but is not
\* listed has been woken.
Woken(c) == pc[c] = "wait" /\ c \notin ToSet(waiters)

\* Keys no object of the process answers to.
FreshKeys ==
  Conns \ (available \cup inUse \cup reserved \cup {conn[c] : c \in Clients})

Goto(c, label) == pc' = [pc EXCEPT ![c] = label]

\* The task leaves the pool without a connection.
Leave(c) ==
  /\ Goto(c, "idle")
  /\ conn' = [conn EXCEPT ![c] = None]

\* if self._waiters: self._waiters.pop(0).set()
WakeOldest ==
  IF waiters = <<>>
    THEN UNCHANGED <<waiters, dropped>>
    ELSE /\ waiters' = Tail(waiters)
         /\ dropped' = (dropped \/ Head(waiters) = None \/ pc[Head(waiters)] # "wait")

----------------------------------------------------------------------------
(* acquire() *)

BeginAcquire(c) ==
  /\ pc[c] = "idle"
  /\ shutdown # "closed"
  /\ Goto(c, "enter")
  /\ UNCHANGED <<poolVars, sizerVars, conn, envVars>>

\* Mutant of the next action: the heap is read, not popped.
TakeIdlePeek(c) ==
  /\ pc[c] = "enter" /\ LockFree
  /\ \E k \in available :
       /\ inUse' = inUse \cup {k}
       /\ conn' = [conn EXCEPT ![c] = k]
  /\ Goto(c, "hold")
  /\ UNCHANGED <<available, reserved, waiters, lock, closed, sizerVars, envVars>>

TakeIdle(c) ==
  /\ pc[c] = "enter" /\ LockFree
  /\ \E k \in available :
       /\ available' = available \ {k}
       /\ inUse' = inUse \cup {k}
       /\ conn' = [conn EXCEPT ![c] = k]
  /\ Goto(c, "hold")
  /\ UNCHANGED <<reserved, waiters, lock, closed, sizerVars, envVars>>

\* Mutant of the next action: the limit is compared with <=.
ReserveOffByOne(c) ==
  /\ pc[c] = "enter" /\ LockFree
  /\ available = {} /\ Occupied <= current
  /\ FreshKeys # {}
  /\ LET k == CHOOSE x \in FreshKeys : TRUE
     IN  /\ reserved' = reserved \cup {k}
         /\ conn' = [conn EXCEPT ![c] = k]
  /\ Goto(c, "create")
  /\ UNCHANGED <<available, inUse, waiters, lock, closed, sizerVars, envVars>>

\* Which fresh key is taken does not matter: keys are opaque.
Reserve(c) ==
  /\ pc[c] = "enter" /\ LockFree
  /\ available = {} /\ Occupied < current
  /\ FreshKeys # {}
  /\ LET k == CHOOSE x \in FreshKeys : TRUE
     IN  /\ reserved' = reserved \cup {k}
         /\ conn' = [conn EXCEPT ![c] = k]
  /\ Goto(c, "create")
  /\ UNCHANGED <<available, inUse, waiters, lock, closed, sizerVars, envVars>>

QueueUp(c) ==
  /\ pc[c] = "enter" /\ LockFree
  /\ available = {} /\ Occupied >= current
  /\ waiters' = Append(waiters, c)
  /\ Goto(c, "wait")
  /\ UNCHANGED <<available, inUse, reserved, lock, closed, sizerVars, conn, envVars>>

\* The loop retries from the top: no connection is handed over with the wakeup.
Wakeup(c) ==
  /\ Woken(c)
  /\ Goto(c, "enter")
  /\ UNCHANGED <<poolVars, sizerVars, conn, envVars>>

\* The timer may fire after the Event was set but before the task resumed: from
\* Python 3.12 on, wait_for then raises although the Event is set.
WaitTimeout(c) ==
  /\ pc[c] = "wait"
  /\ Goto(c, "gaveup")
  /\ dropped' = (dropped \/ Woken(c))
  /\ UNCHANGED <<poolVars, sizerVars, conn, shutdown, cancels, discards>>

\* Mutant of the next action: a timeout retries for ever.
GiveUpKeepsWaiting(c) ==
  /\ pc[c] = "gaveup" /\ LockFree
  /\ Goto(c, "wait")
  /\ UNCHANGED <<poolVars, sizerVars, conn, envVars>>

\* MaxConnectionsExceeded.
GiveUp(c) ==
  /\ pc[c] = "gaveup" /\ LockFree
  /\ waiters' = RemoveFirst(waiters, c)
  /\ Goto(c, "idle")
  /\ UNCHANGED <<available, inUse, reserved, lock, closed, sizerVars, conn, envVars>>

CreateOk(c) ==
  /\ pc[c] = "create"
  /\ Goto(c, "install")
  /\ UNCHANGED <<poolVars, sizerVars, conn, envVars>>

CreateFail(c) ==
  /\ pc[c] = "create"
  /\ Goto(c, "unreserve")
  /\ UNCHANGED <<poolVars, sizerVars, conn, envVars>>

\* The slot is given back; nobody is woken.
Unreserve(c) ==
  /\ pc[c] = "unreserve" /\ LockFree
  /\ reserved' = reserved \ {conn[c]}
  /\ Leave(c)
  /\ UNCHANGED <<available, inUse, waiters, lock, closed, sizerVars, envVars>>

\* The key is registered whether or not close_all() dropped the placeholder.
Install(c) ==
  /\ pc[c] = "install" /\ LockFree
  /\ reserved' = reserved \ {conn[c]}
  /\ inUse' = inUse \cup {conn[c]}
  /\ Goto(c, "hold")
  /\ UNCHANGED <<available, waiters, lock, closed, sizerVars, conn, envVars>>

----------------------------------------------------------------------------
(* release() *)

BeginRelease(c, isBroken) ==
  /\ pc[c] = "hold"
  /\ discards' = (discards \/ isBroken)
  /\ Goto(c, IF isBroken THEN "discard" ELSE "release")
  /\ UNCHANGED <<poolVars, sizerVars, conn, shutdown, cancels, dropped>>

\* Mutant of the next action: an unknown connection is pooled.
ReleaseUnknownPushes(c) ==
  /\ pc[c] = "release" /\ LockFree
  /\ conn[c] \notin inUse
  /\ available' = available \cup {conn[c]}
  /\ Leave(c)
  /\ UNCHANGED <<inUse, reserved, waiters, lock, closed, sizerVars, envVars>>

\* pc is None: close_all() already took the connection out of _in_use.
ReleaseUnknown(c) ==
  /\ pc[c] \in {"release", "discard"} /\ LockFree
  /\ conn[c] \notin inUse
  /\ closed' = closed \ {conn[c]}
  /\ Leave(c)
  /\ UNCHANGED <<available, inUse, reserved, waiters, lock, sizerVars, envVars>>

\* Mutant of the next action: release() wakes nobody.
ReturnIdleNoWake(c) ==
  /\ pc[c] = "release" /\ LockFree
  /\ conn[c] \in inUse
  /\ inUse' = inUse \ {conn[c]}
  /\ available' = available \cup {conn[c]}
  /\ Leave(c)
  /\ UNCHANGED <<reserved, waiters, lock, closed, sizerVars, envVars>>

ReturnIdle(c) ==
  /\ pc[c] = "release" /\ LockFree
  /\ conn[c] \in inUse
  /\ inUse' = inUse \ {conn[c]}
  /\ available' = available \cup {conn[c]}
  /\ WakeOldest
  /\ Leave(c)
  /\ UNCHANGED <<reserved, lock, closed, sizerVars, shutdown, cancels, discards>>

\* The close of a broken connection is awaited with the lock held.
EvictBegin(c) ==
  /\ pc[c] = "discard" /\ LockFree
  /\ conn[c] \in inUse
  /\ inUse' = inUse \ {conn[c]}
  /\ closed' = closed \cup {conn[c]}
  /\ lock' = c
  /\ Goto(c, "closing")
  /\ UNCHANGED <<available, reserved, waiters, sizerVars, conn, envVars>>

EvictEnd(c) ==
  /\ pc[c] = "closing"
  /\ lock' = None
  /\ closed' = closed \ {conn[c]}
  /\ WakeOldest
  /\ Leave(c)
  /\ UNCHANGED <<available, inUse, reserved, sizerVars, shutdown, cancels, discards>>

----------------------------------------------------------------------------
(* Cancellation.  CancelledError is raised at the task's suspension point. *)

Cancelled ==
  /\ cancels < MaxCancels
  /\ cancels' = cancels + 1

\* At the lock, top of the loop: nothing to undo, but a woken task takes its
\* wakeup with it.
CancelEnter(c) ==
  /\ pc[c] = "enter" /\ ~LockFree
  /\ Cancelled
  /\ Goto(c, "idle")
  /\ dropped' = TRUE
  /\ UNCHANGED <<poolVars, sizerVars, conn, shutdown, discards>>

\* Mutant of the next action: a cancelled task leaves its waiter.
CancelWaitForgets(c) ==
  /\ \/ pc[c] = "wait"
     \/ pc[c] = "gaveup" /\ ~LockFree
  /\ Cancelled
  /\ Goto(c, "idle")
  /\ dropped' = (dropped \/ Woken(c))
  /\ UNCHANGED <<poolVars, sizerVars, conn, shutdown, discards>>

\* Queued, woken or already timed out: the handler goes to remove the waiter.
CancelWait(c) ==
  /\ \/ pc[c] = "wait"
     \/ pc[c] = "gaveup" /\ ~LockFree
  /\ Cancelled
  /\ Goto(c, "cleanup")
  /\ dropped' = (dropped \/ Woken(c))
  /\ UNCHANGED <<poolVars, sizerVars, conn, shutdown, discards>>

Cleanup(c) ==
  /\ pc[c] = "cleanup" /\ LockFree
  /\ waiters' = RemoveFirst(waiters, c)
  /\ Goto(c, "idle")
  /\ UNCHANGED <<available, inUse, reserved, lock, closed, sizerVars, conn, envVars>>

\* A second cancellation, inside the handler: the waiter stays in the list and
\* nobody awaits it.
CancelCleanup(c) ==
  /\ pc[c] = "cleanup" /\ ~LockFree
  /\ Cancelled
  /\ waiters' = ReplaceAll(waiters, c, None)
  /\ Goto(c, "idle")
  /\ UNCHANGED <<available, inUse, reserved, lock, closed, sizerVars, conn, shutdown, discards, dropped>>

\* Mutant of the next action: `except Exception` misses the cancellation.
CancelCreateLeaks(c) ==
  /\ pc[c] = "create"
  /\ Cancelled
  /\ Leave(c)
  /\ UNCHANGED <<poolVars, sizerVars, shutdown, discards, dropped>>

\* except BaseException: the reservation is given back once the lock is free.
CancelCreate(c) ==
  /\ pc[c] = "create"
  /\ Cancelled
  /\ Goto(c, "unreserve")
  /\ UNCHANGED <<poolVars, sizerVars, conn, shutdown, discards, dropped>>

\* At the lock of the install or of the give-back: the reservation stays behind.
CancelReserved(c) ==
  /\ pc[c] \in {"install", "unreserve"} /\ ~LockFree
  /\ Cancelled
  /\ Leave(c)
  /\ UNCHANGED <<poolVars, sizerVars, shutdown, discards, dropped>>

\* While the session body runs: CancelledError is no Exception, so the session skips
\* its rollback and returns the connection as healthy.
CancelHold(c) ==
  /\ pc[c] = "hold"
  /\ Cancelled
  /\ Goto(c, "release")
  /\ UNCHANGED <<poolVars, sizerVars, conn, shutdown, discards, dropped>>

\* At the lock of release(): the connection stays in _in_use.
CancelRelease(c) ==
  /\ pc[c] \in {"release", "discard"} /\ ~LockFree
  /\ Cancelled
  /\ closed' = closed \ {conn[c]}
  /\ Leave(c)
  /\ UNCHANGED <<available, inUse, reserved, waiters, lock, sizerVars, shutdown, discards, dropped>>

\* During the close: leaving the `async with` frees the lock, the wakeup is skipped.
CancelClosing(c) ==
  /\ pc[c] = "closing"
  /\ Cancelled
  /\ lock' = None
  /\ closed' = closed \ {conn[c]}
  /\ Leave(c)
  /\ UNCHANGED <<available, inUse, reserved, waiters, sizerVars, shutdown, discards, dropped>>

----------------------------------------------------------------------------
(* Pool-wide operations *)

\* warmup_async(target), run at startup before any task uses the pool: the sizer
\* is raised, connections are created one by one and all released; a creation
\* error ends the loop early.
Warmup(target) ==
  /\ shutdown = "no" /\ current = MinConn
  /\ \A c \in Clients : pc[c] = "idle"
  /\ available = {} /\ inUse = {} /\ reserved = {} /\ streak = 0 /\ ~discards
  /\ current' = IF target > current THEN target ELSE current
  /\ \E created \in 0..target : available' = 1..created
  /\ UNCHANGED <<inUse, reserved, waiters, lock, closed, streak, taskVars, envVars>>

\* metrics() recomputes the size.  Growing wakes nobody.
Metrics ==
  /\ \E slow \in BOOLEAN : Adjust(waiters # <<>> \/ slow)
  /\ UNCHANGED <<poolVars, taskVars, envVars>>

\* close_all() clears the books under the lock and closes the connections after
\* it; no waiter is woken and creations in flight are not called off.
CloseAll ==
  /\ shutdown = "no" /\ LockFree
  /\ closed' = closed \cup (inUse \cap {conn[c] : c \in Clients})
  /\ available' = {} /\ inUse' = {} /\ reserved' = {}
  /\ shutdown' = "closing"
  /\ UNCHANGED <<waiters, lock, sizerVars, taskVars, cancels, discards, dropped>>

\* DatabaseSession.close() forgets the pool: no new session can start.
CloseDone ==
  /\ shutdown = "closing"
  /\ shutdown' = "closed"
  /\ UNCHANGED <<poolVars, sizerVars, taskVars, cancels, discards, dropped>>

----------------------------------------------------------------------------
Enter(c) == TakeIdle(c) \/ Reserve(c) \/ QueueUp(c)

\* What the event loop, the timers and the database executor do for a task.
Progress(c) ==
  \/ Enter(c)
  \/ Wakeup(c) \/ WaitTimeout(c) \/ GiveUp(c) \/ Cleanup(c)
  \/ CreateOk(c) \/ CreateFail(c) \/ Unreserve(c) \/ Install(c)
  \/ ReleaseUnknown(c) \/ ReturnIdle(c) \/ EvictBegin(c) \/ EvictEnd(c)

Cancel(c) ==
  \/ CancelEnter(c) \/ CancelWait(c) \/ CancelCleanup(c)
  \/ CancelCreate(c) \/ CancelReserved(c)
  \/ CancelHold(c) \/ CancelRelease(c) \/ CancelClosing(c)

Next ==
  \/ \E c \in Clients :
       \/ BeginAcquire(c)
       \/ Progress(c)
       \/ Cancel(c)
       \/ \E isBroken \in BOOLEAN : BeginRelease(c, isBroken)
  \/ \E target \in 1..MaxConn : Warmup(target)
  \/ Metrics
  \/ CloseAll
  \/ CloseDone

Spec == Init /\ [][Next]_vars

\* The loop runs every ready task, timers fire and executor jobs end; asyncio.Lock
\* serves its waiters in order, so a task at the lock is not overtaken for ever by
\* evictions (strong fairness).  Nothing is assumed of the tasks' own use of a
\* connection, of cancellation or of close().
FairSpec == Spec /\ \A c \in Clients : SF_vars(Progress(c))

----------------------------------------------------------------------------
(* Properties *)

\* Every variable has its type; the sizer stays between its bounds
\* (AdaptiveSizer.adjust, warmup_async).
TypeOK ==
  /\ available \subseteq Conns /\ inUse \subseteq Conns /\ reserved \subseteq Conns
  /\ closed \subseteq Conns
  /\ waiters \in Seq(Clients \cup {None})
  /\ lock \in Clients \cup {None}
  /\ current \in MinConn..MaxConn
  /\ streak \in 0..Cooldown
  /\ pc \in [Clients -> PcValues]
  /\ conn \in [Clients -> Conns \cup {None}]
  /\ shutdown \in {"no", "closing", "closed"}
  /\ cancels \in Nat
  /\ discards \in BOOLEAN /\ dropped \in BOOLEAN

\* The pool never owns more connections, idle, checked out or reserved, than
\* max_conn, although acquire() compares only len(_in_use) with the limit and the
\* limit itself moves.
CapacityBound ==
  shutdown = "no" => Cardinality(available) + Occupied <= MaxConn

\* A connection belongs to one task at a time: what a task reserved, holds or is
\* returning is neither idle nor another task's.
ExclusiveUse ==
  \A c \in Clients : conn[c] # None =>
    /\ conn[c] \notin available
    /\ \A d \in Clients \ {c} : conn[d] # conn[c]

\* A connection that was closed, by an eviction or by close_all(), is never idle
\* again, so acquire() cannot hand it out: release() after close_all() finds no
\* entry and returns.
ClosedNeverIdle == \A k \in closed : k \notin available

\* As long as no eviction awaited a close under the lock, every entry of _in_use
\* has a task that will take it out again: neither timeout, failed creation nor
\* cancellation leaks a slot.
SlotsAccounted ==
  (~discards /\ shutdown = "no") =>
    /\ reserved = {conn[c] : c \in {d \in Clients : pc[d] \in {"create", "unreserve", "install"}}}
    /\ inUse = {conn[c] : c \in {d \in Clients : pc[d] \in {"hold", "release", "discard"}}}

\* As long as no eviction awaited a close under the lock, every listed waiter
\* belongs to a task that is still waiting or is about to remove it, once only.
WaitersAlive ==
  ~discards =>
    /\ \A i \in 1..Len(waiters) : waiters[i] \in Clients /\
         pc[waiters[i]] \in {"wait", "gaveup", "cleanup"}
    /\ IsInjective(waiters)

\* A task queues while a connection is idle only if another task is on its way to
\* take it, unless a wakeup was spent on a task that gave up.
IdleReachesWaiter ==
  (available # {} /\ waiters # <<>> /\ ~dropped) =>
    \E c \in Clients : Woken(c) \/ pc[c] = "enter"

\* acquire() ends, in a connection or an error, unless other tasks keep starting
\* acquires for ever: a woken task that finds the connection taken queues again
\* with a fresh timeout, so newcomers can overtake it, but nothing else can keep it
\* inside.
AcquireEnds ==
  \A c \in Clients :
    \/ []<><<\E d \in Clients \ {c} : BeginAcquire(d)>>_vars
    \/ pc[c] \in Acquiring ~> pc[c] \notin Acquiring

\* Timeouts, cancellations, evictions and the sizer notwithstanding, the pool does to
\* its connections only what BoundedPool allows (async_pool.py's module docstring).
Promised == INSTANCE BoundedPool
  WITH Users <- Clients, idle <- available, lent <- inUse \cup reserved, holds <- conn,
       open <- shutdown = "no"

ImplementsBoundedPool == Promised!Spec

\* The inductive invariant behind CapacityBound, ExclusiveUse and ClosedNeverIdle:
\* the three books are disjoint, a task has a key exactly between reservation and
\* return, the key of a creation in flight is reserved (until close_all()) and in no
\* other book, and only keys some task still has count as closed.
Creating == {"create", "unreserve", "install"}
Keyless == {"idle", "enter", "wait", "gaveup", "cleanup"}

BooksDisjoint ==
  /\ \A k \in available : k \notin inUse /\ k \notin reserved
  /\ \A k \in inUse : k \notin reserved

KeysOwned ==
  \A c \in Clients :
    /\ pc[c] \in Keyless <=> conn[c] = None
    /\ pc[c] \in Creating =>
         /\ conn[c] \notin inUse /\ conn[c] \notin closed
         /\ shutdown = "no" => conn[c] \in reserved

ClosedHeld ==
  \A k \in closed : k \notin inUse /\ \E c \in Clients : conn[c] = k

PoolInv ==
  /\ TypeOK /\ BooksDisjoint /\ KeysOwned /\ ClosedHeld
  /\ CapacityBound /\ ExclusiveUse /\ ClosedNeverIdle

\* The inductive invariant behind SlotsAccounted, WaitersAlive and IdleReachesWaiter:
\* every listed waiter that is not abandoned belongs, once, to a task that waits or is
\* about to remove it; until the first eviction nobody contends for the lock, so no
\* waiter is abandoned; and while waiters are listed and no wakeup was wasted, idle
\* connections never outnumber the tasks on their way to take one.
Coming == {c \in Clients : Woken(c) \/ pc[c] = "enter"}

WaitersOwned ==
  /\ \A i \in 1..Len(waiters) : waiters[i] # None =>
       pc[waiters[i]] \in {"wait", "gaveup", "cleanup"}
  /\ \A i, j \in 1..Len(waiters) :
       waiters[i] = waiters[j] /\ waiters[i] # None => i = j

Uncontended ==
  ~discards =>
    /\ LockFree
    /\ \A c \in Clients : pc[c] \notin {"discard", "closing"}
    /\ \A i \in 1..Len(waiters) : waiters[i] # None

IdleCovered ==
  (waiters # <<>> /\ ~dropped) => Cardinality(available) <= Cardinality(Coming)

QueueInv == PoolInv /\ WaitersOwned /\ Uncontended /\ SlotsAccounted /\ IdleCovered

\* A cancelled acquire() or release() never loses a slot (comment in acquire(): the
\* reserved slot must be given back "or a cancelled acquire() permanently shrinks
\* effective capacity by one").
CancelKeepsCapacity ==
  shutdown = "no" =>
    reserved = {conn[c] : c \in {d \in Clients : pc[d] \in {"create", "unreserve", "install"}}}
=============================================================================
