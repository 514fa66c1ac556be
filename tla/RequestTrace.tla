----------------------------- MODULE RequestTrace -----------------------------
(***************************************************************************)
(* The trace of one sampled request (core/performance): a tree of timed    *)
(* nodes with one active node, which every `with profiler.stage()` of the  *)
(* request moves.  run() copies the request's context into the thread, so  *)
(* that the SQL adapter's stages there belong to the same tree; a thread   *)
(* that the request has abandoned goes on moving it.                       *)
(*                                                                         *)
(* Atomicity.  The tree has no lock.  Each read of `current` or            *)
(* `_completed` that a call acts on and each write the other thread can    *)
(* see is a step; a check of `current` that is repeated before its use is  *)
(* one read, as it raises either way.                                      *)
(***************************************************************************)
EXTENDS Naturals, Sequences, SequencesExt

CONSTANTS
  Threads,        \* calls of run() the request may make
  MaxNodes        \* bound: nodes of the tree

ASSUME RequestTraceAssumption == "task" \notin Threads /\ MaxNodes \in Nat \ {0}

VARIABLES
  parent,         \* each node's parent, 0 for the root; nodes are numbered as they start
  finished,       \* nodes with a duration
  current,        \* the active node, 0 for None
  completed,      \* _completed
  call,           \* where each actor is in a call on the tree, with its locals
  scopes,         \* the nodes each actor's open `with` statements started
  points,         \* the timers recorded: the node that names it, the node whose duration
                  \* it has, and the node its scope started
  overlapped,     \* history: a call on the tree has begun while another was in one
  thread          \* what became of each call of run()

treeVars == <<parent, finished, current, completed>>
stageVars == <<treeVars, call, scopes, points, overlapped>>
traceVars == <<stageVars, thread>>

Actors == Threads \cup {"task"}
Nodes == 1..Len(parent)

(***************************************************************************)
(* Where an actor is: out of the tree (ready, or done after complete());   *)
(*   start     _completed was false     attached  node is a child, inactive*)
(*   finish    an active node was seen, for the timer's name               *)
(*   taken     node is to be finished   ended     node has its duration    *)
(*   drain     in finish_all()          drained   before _completed is set *)
(***************************************************************************)
Ready == [at |-> "ready", seen |-> 0, node |-> 0]

\* The middleware has opened the root REQUEST node and the "dispatch" stage.
TraceInit ==
  /\ parent = <<0, 1>> /\ current = 2 /\ finished = {} /\ completed = FALSE
  /\ call = [a \in Actors |-> Ready]
  /\ scopes = [a \in Actors |-> IF a = "task" THEN <<2>> ELSE <<>>]
  /\ points = {} /\ overlapped = FALSE
  /\ thread = [t \in Threads |-> "new"]

At(a, where) == call[a].at = where
InTree(a) == ~At(a, "ready") /\ ~At(a, "done")

MoveTo(a, where, node) == call' = [call EXCEPT ![a].at = where, ![a].node = node]

\* The actor begins a call on the tree.
BeginCall(a, where, seen) ==
  /\ At(a, "ready")
  /\ call' = [call EXCEPT ![a] = [at |-> where, seen |-> seen, node |-> 0]]
  /\ overlapped' = (overlapped \/ \E b \in Actors \ {a} : InTree(b))

Leave(a) == call' = [call EXCEPT ![a] = Ready]

----------------------------------------------------------------------------
(* _start_stage(), Trace.start() *)

\* A profiler that has completed raises ProfilerStateError.
StartStage(a) ==
  /\ ~completed
  /\ BeginCall(a, "start", 0)
  /\ UNCHANGED <<treeVars, scopes, points>>

\* A child of the active node; without one the call raises.
Attach(a) ==
  /\ At(a, "start")
  /\ IF current = 0
       THEN Leave(a) /\ UNCHANGED parent
       ELSE /\ Len(parent) < MaxNodes
            /\ parent' = Append(parent, current)
            /\ MoveTo(a, "attached", Len(parent'))
  /\ UNCHANGED <<finished, current, completed, scopes, points, overlapped>>

Activate(a) ==
  /\ At(a, "attached")
  /\ current' = call[a].node
  /\ scopes' = [scopes EXCEPT ![a] = Append(@, call[a].node)]
  /\ Leave(a)
  /\ UNCHANGED <<parent, finished, completed, points, overlapped>>

----------------------------------------------------------------------------
(* _finish_stage(), Trace.finish() *)

FinishStage(a) ==
  /\ scopes[a] # <<>>
  /\ BeginCall(a, "finish", current)
  /\ UNCHANGED <<treeVars, scopes, points>>

\* complete() finishes nodes when every scope of the request is closed.
Completing(a) == scopes[a] = <<>>

\* Without an active node finish() raises TraceStateError, out of complete() too.
TakeActive(a) ==
  /\ At(a, "finish")
  /\ IF current # 0
       THEN MoveTo(a, "taken", current) /\ UNCHANGED scopes
       ELSE /\ IF Completing(a) THEN MoveTo(a, "done", 0) ELSE Leave(a)
            /\ scopes' = [scopes EXCEPT ![a] = IF @ = <<>> THEN @ ELSE Front(@)]
  /\ UNCHANGED <<treeVars, points, overlapped>>

\* TraceNode.finish()
FinishNode(a) ==
  /\ At(a, "taken")
  /\ finished' = finished \cup {call[a].node}
  /\ MoveTo(a, "ended", call[a].node)
  /\ UNCHANGED <<parent, current, completed, scopes, points, overlapped>>

\* The timer is appended to metric_points, which no step reads, in the same step.
\* finish_all() records none.
Return(a) ==
  IF Completing(a)
    THEN MoveTo(a, "drain", 0) /\ UNCHANGED <<scopes, points>>
    ELSE /\ points' = points \cup
              (IF call[a].seen = 0 THEN {}
               ELSE {[name |-> call[a].seen, value |-> call[a].node, scope |-> Last(scopes[a])]})
         /\ scopes' = [scopes EXCEPT ![a] = Front(@)]
         /\ Leave(a)

\* Mutant of the next action: the trace does not resume the parent.
ResumeRoot(a) ==
  /\ At(a, "ended")
  /\ current' = IF call[a].node = 1 THEN 0 ELSE 1
  /\ Return(a)
  /\ UNCHANGED <<parent, finished, completed, overlapped>>

\* The parent of the node that was finished is active again.
ResumeParent(a) ==
  /\ At(a, "ended")
  /\ current' = parent[call[a].node]
  /\ Return(a)
  /\ UNCHANGED <<parent, finished, completed, overlapped>>

----------------------------------------------------------------------------
(* complete() *)

\* The `finally` of the middleware, once its "dispatch" scope is closed.
RequestEnds ==
  /\ scopes["task"] = <<>>
  /\ BeginCall("task", "drain", 0)
  /\ UNCHANGED <<treeVars, scopes, points, thread>>

\* finish_all(): while a node is active, finish it.
FinishAll ==
  /\ At("task", "drain")
  /\ MoveTo("task", IF current = 0 THEN "drained" ELSE "finish", 0)
  /\ UNCHANGED <<treeVars, scopes, points, overlapped, thread>>

Complete ==
  /\ At("task", "drained")
  /\ completed' = TRUE
  /\ MoveTo("task", "done", 0)
  /\ UNCHANGED <<parent, finished, current, scopes, points, overlapped, thread>>

----------------------------------------------------------------------------
(* The request: pool checkouts, transactions, API-key lookups ... *)

Awaiting == \E t \in Threads : thread[t] \in {"queued", "running", "returned"}

\* The request's own code runs, within a scope.
Running == ~Awaiting /\ At("task", "ready") /\ scopes["task"] # <<>>

OpenStage == Running /\ StartStage("task") /\ UNCHANGED thread

CloseStage == Running /\ FinishStage("task") /\ UNCHANGED thread

Calling(t) ==
  /\ Running /\ thread[t] = "new"
  /\ thread' = [thread EXCEPT ![t] = "queued"]
  /\ UNCHANGED stageVars

Returned(t) ==
  /\ thread[t] = "returned"
  /\ thread' = [thread EXCEPT ![t] = "ended"]
  /\ UNCHANGED stageVars

\* A timeout or a cancellation: a queued call is withdrawn, a running one goes on.
CallAbandoned(t) ==
  /\ thread[t] \in {"queued", "running", "returned"}
  /\ thread' = [thread EXCEPT ![t] = CASE @ = "queued" -> "withdrawn" [] @ = "running" -> "abandoned"
                                       [] OTHER -> "ended"]
  /\ UNCHANGED stageVars

----------------------------------------------------------------------------
(* The threads: InstrumentedSQLAdapter around each statement of a call *)

InCall(t) == thread[t] \in {"running", "abandoned"}

CallStarts(t) ==
  /\ thread[t] = "queued"
  /\ thread' = [thread EXCEPT ![t] = "running"]
  /\ UNCHANGED stageVars

Statement(t) ==
  /\ InCall(t) /\ scopes[t] = <<>>
  /\ StartStage(t) /\ UNCHANGED thread

StatementEnds(t) == InCall(t) /\ FinishStage(t) /\ UNCHANGED thread

\* The call returns or raises, ProfilerStateError or TraceStateError included.
CallEnds(t) ==
  /\ InCall(t) /\ At(t, "ready") /\ scopes[t] = <<>>
  /\ thread' = [thread EXCEPT ![t] = IF @ = "running" THEN "returned" ELSE "orphan"]
  /\ UNCHANGED stageVars

\* A call on the tree goes on, in whichever thread.
TreeStep(a) ==
  /\ Attach(a) \/ Activate(a) \/ TakeActive(a) \/ FinishNode(a) \/ ResumeParent(a)
  /\ UNCHANGED thread

TraceNext ==
  \/ OpenStage \/ CloseStage \/ RequestEnds \/ FinishAll \/ Complete
  \/ \E a \in Actors : TreeStep(a)
  \/ \E t \in Threads :
       \/ Calling(t) \/ Returned(t) \/ CallAbandoned(t)
       \/ CallStarts(t) \/ Statement(t) \/ StatementEnds(t) \/ CallEnds(t)

----------------------------------------------------------------------------
Undisturbed == \A t \in Threads : thread[t] \notin {"abandoned", "orphan"}

\* Each node of a tree with its ancestors.
Lineage(nodes) ==
  LET above[n \in 0..Len(nodes)] == IF n = 0 THEN {} ELSE {n} \cup above[nodes[n]]
  IN above

\* Until the request abandons a running call no two calls on the tree overlap, every
\* timer is the one of the stage its scope started, and a completed trace has a timer for
\* each node but the root.  An abandoned thread may close its request's stages, but as long
\* as no call overlaps another, each timer has the name and the duration of one node, and
\* between two calls the nodes without a duration are the active one and its ancestors:
\* none once complete() has returned.  Where calls overlap a node may be lost for good.
TimersAreTheirOwn ==
  /\ Undisturbed =>
       /\ ~overlapped
       /\ \A p \in points : p.name = p.scope
       /\ completed => {p.scope : p \in points} = Nodes \ {1}
  /\ ~overlapped =>
       /\ \A p \in points : p.name = p.value
       /\ (\A a \in Actors : ~InTree(a)) => Nodes \ finished = Lineage(parent)[current]

----------------------------------------------------------------------------
TraceSpec == TraceInit /\ [][TraceNext]_traceVars

Places == {"ready", "start", "attached", "finish", "taken", "ended", "drain", "drained", "done"}

\* A node starts after its parent.
TraceTypeOK ==
  /\ parent \in Seq(Nat) /\ parent # <<>> /\ \A n \in Nodes : parent[n] < n
  /\ current \in 0..Len(parent) /\ finished \subseteq Nodes
  /\ completed \in BOOLEAN /\ overlapped \in BOOLEAN
  /\ scopes \in [Actors -> Seq(Nodes \ {1})]
  /\ call \in [Actors -> [at : Places, seen : Nat, node : Nat]]
  /\ thread \in [Threads -> {"new", "queued", "running", "returned", "ended", "withdrawn",
                            "abandoned", "orphan"}]

\* Which node a call has in hand; only the request completes the trace.
CallsPlaced ==
  /\ \A a \in Actors :
       /\ At(a, "attached") => call[a].node \in Nodes \ {1}
       /\ call[a].at \in {"taken", "ended"} => call[a].node \in Nodes
       /\ call[a].at \in {"drain", "drained", "done"} => a = "task" /\ scopes[a] = <<>>
       /\ call[a].at \in {"finish", "taken", "ended"} /\ Completing(a) => a = "task"
       /\ call[a].at \in {"start", "attached"} => a = "task" \/ scopes[a] = <<>>
  /\ completed => At("task", "done")

\* The node that is active after a call, whether it has moved `current` yet or not.
Successor(a) ==
  CASE At(a, "attached") -> call[a].node [] At(a, "ended") -> parent[call[a].node] [] OTHER -> current

\* As long as no two calls overlapped nothing moves under a call.
Serial ==
  /\ \A a, b \in Actors : InTree(a) /\ InTree(b) => a = b
  /\ \A a \in Actors :
       /\ At(a, "attached") => parent[call[a].node] = current
       /\ call[a].at \in {"taken", "ended"} => call[a].node = current
       /\ call[a].at \in {"finish", "taken", "ended"} /\ ~Completing(a) => call[a].seen = current
  /\ \A a \in Actors : (\A b \in Actors \ {a} : ~InTree(b)) =>
       Nodes \ finished = Lineage(parent)[Successor(a)]
  /\ \A p \in points : p.name = p.value

\* Until a running call is abandoned there is one call at a time, within a stage of the
\* request, and nobody else is in the tree.
OneCall ==
  /\ \A t, u \in Threads :
       {thread[t], thread[u]} \subseteq {"queued", "running", "returned"} => t = u
  /\ Awaiting => scopes["task"] # <<>> /\ At("task", "ready")
  /\ \A t \in Threads : scopes[t] # <<>> \/ InTree(t) => thread[t] = "running"

\* The open scopes are a path below the root that ends at the active node; complete()
\* closes the root.
OnePath ==
  LET stages == scopes["task"] IN
    /\ \A i \in 1..Len(stages) : parent[stages[i]] = IF i = 1 THEN 1 ELSE stages[i - 1]
    /\ \A t \in Threads : scopes[t] # <<>> =>
         scopes[t] = <<current>> /\ parent[current] = Last(stages)
    /\ (\A t \in Threads : scopes[t] = <<>>) /\ stages # <<>> => current = Last(stages)
    /\ stages = <<>> =>
         current \in CASE At("task", "drain") -> {0, 1}
                       [] call["task"].at \in {"drained", "done"} -> {0}
                       [] OTHER -> {1}

\* Every node with a duration has its timer, but for the root and the one in hand.
Timed ==
  /\ {p.scope : p \in points} =
       finished \ ({1} \cup {call[a].node : a \in {b \in Actors : At(b, "ended")}})
  /\ \A p \in points : p.name = p.scope

TraceInv ==
  /\ TraceTypeOK /\ CallsPlaced
  /\ ~overlapped => Serial
  /\ Undisturbed => ~overlapped /\ OneCall /\ OnePath /\ Timed
=============================================================================
