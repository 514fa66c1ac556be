------------------------------- MODULE QueryGate -------------------------------
(***************************************************************************)
(* POST /api/query between the middleware and the warehouse                *)
(* (core/services/query_service.py): the statement is classified from its  *)
(* text, a write needs the scope, one semaphore per cost class admits it,  *)
(* a timer bounds it, and what it read is cut to the result limits.        *)
(***************************************************************************)
EXTENDS Naturals, Sequences, SequencesExt, FiniteSets, FiniteSetsExt

CONSTANTS
  Queries,        \* requests in flight
  Statements,     \* what the classification sees of a text (see StatementText)
  Limit,          \* [Costs -> Nat]: the permits of each semaphore
  RowSizes,       \* sizes of result rows
  MaxRows, MaxBytes,
  MaxLen          \* bound: rows of an answer

Costs == {"fast", "normal", "expensive"}

\* first     its leading keyword, "" when it is blank
\* dml       a writing keyword occurs      heavy   GROUP BY, WINDOW, OVER ... occur
\* join      JOIN, ORDER BY, UNION ...     wide    SELECT * without LIMIT
StatementText ==
  [first : {"", "SELECT", "WITH", "other"}, dml : BOOLEAN, heavy : BOOLEAN,
   join : BOOLEAN, wide : BOOLEAN]

ASSUME QueryGateAssumption ==
  /\ IsFiniteSet(Queries)
  /\ Statements \subseteq StatementText /\ Statements # {}
  /\ Limit \in [Costs -> Nat \ {0}]
  /\ RowSizes \subseteq Nat /\ MaxRows \in Nat /\ MaxBytes \in Nat
  /\ MaxLen \in Nat

----------------------------------------------------------------------------
(* core/db/sql_policy.py *)

ClassifyOperation(s) ==
  IF s.first = "SELECT" \/ (s.first = "WITH" /\ ~s.dml) THEN "read" ELSE "write"

ClassifyCost(s) ==
  IF s.first = "" THEN "fast"
  ELSE IF s.heavy \/ (s.join /\ s.wide) THEN "expensive"
  ELSE IF s.join \/ s.wide THEN "normal" ELSE "fast"

\* Without scopes a caller may read.
HasScope(scopes, required) == required \in (IF scopes = {} THEN {"read"} ELSE scopes)

----------------------------------------------------------------------------
(* _apply_result_limits() *)

\* Mutant of the next operator: the row that crosses the byte limit is still returned.
AddRowOneMore(acc, row) ==
  IF acc.cut \/ acc.bytes > MaxBytes
    THEN [acc EXCEPT !.cut = TRUE]
    ELSE [acc EXCEPT !.out = Append(@, row), !.bytes = @ + row]

\* Once a row does not fit, neither it nor any later one is added.
AddRow(acc, row) ==
  IF acc.cut \/ acc.bytes + row > MaxBytes
    THEN [acc EXCEPT !.cut = TRUE]
    ELSE [acc EXCEPT !.out = Append(@, row), !.bytes = @ + row]

TakeRows(rows) ==
  LET taken[n \in 0..Len(rows)] ==
        IF n = 0 THEN [out |-> <<>>, bytes |-> 0, cut |-> FALSE] ELSE AddRow(taken[n - 1], rows[n])
  IN taken[Len(rows)]

ApplyResultLimits(rows) ==
  LET taken == TakeRows(SubSeq(rows, 1, Min({Len(rows), MaxRows})))
  IN [rows |-> rows, out |-> taken.out, truncated |-> taken.cut \/ Len(rows) > MaxRows]

----------------------------------------------------------------------------
VARIABLES
  stage,          \* where each request is
  text,           \* its statement
  permits,        \* _value of each semaphore
  waiters,        \* its queue, in order
  running,        \* requests whose statement runs in a thread of the executor
  answer          \* the last read answered

gateVars == <<stage, text, permits, waiters, running, answer>>

\* asked    classified and allowed         waiting  in the semaphore's queue
\* granted  handed a permit, yet to resume holding  has the permit
\* written  a write is done, its invalidation is not
Stages == {"idle", "asked", "waiting", "granted", "holding", "written"}

Cost(r) == ClassifyCost(text[r])

GateInit ==
  /\ stage = [r \in Queries |-> "idle"]
  /\ text \in [Queries -> {CHOOSE s \in Statements : TRUE}]
  /\ permits = Limit /\ waiters = [c \in Costs |-> <<>>]
  /\ running = {} /\ answer = ApplyResultLimits(<<>>)

Move(r, to) == stage' = [stage EXCEPT ![r] = to]

\* QueryAuthorizationError becomes a 403.
Ask(r) ==
  /\ stage[r] = "idle" /\ r \notin running
  /\ \E s \in Statements, scopes \in SUBSET {"read", "write"} :
       /\ ClassifyOperation(s) = "write" => HasScope(scopes, "write")
       /\ text' = [text EXCEPT ![r] = s]
  /\ Move(r, "asked")
  /\ UNCHANGED <<permits, waiters, running, answer>>

Sleeping(r) == stage[r] = "waiting"

\* With `free` permits in class c and the requests at `at`, up to n sleepers are handed
\* one, in order.
Wake(c, free, n, at) ==
  LET asleep == {i \in DOMAIN waiters[c] : at[waiters[c][i]] = "waiting"}
      first == {i \in asleep : Cardinality({j \in asleep : j < i}) < Min({free, n})}
      awoken == {waiters[c][i] : i \in first}
  IN /\ permits' = [permits EXCEPT ![c] = free - Cardinality(awoken)]
     /\ stage' = [x \in Queries |-> IF x \in awoken THEN "granted" ELSE at[x]]

GiveBack(r, to) == Wake(Cost(r), permits[Cost(r)] + 1, 1, [stage EXCEPT ![r] = to])

\* async with semaphore: nobody overtakes a waiter, nor one who has yet to resume.
Enter(r) ==
  /\ stage[r] = "asked"
  /\ IF permits[Cost(r)] > 0 /\ waiters[Cost(r)] = <<>>
       THEN /\ permits' = [permits EXCEPT ![Cost(r)] = @ - 1]
            /\ Move(r, "holding") /\ UNCHANGED waiters
       ELSE /\ waiters' = [waiters EXCEPT ![Cost(r)] = Append(@, r)]
            /\ Move(r, "waiting") /\ UNCHANGED permits
  /\ UNCHANGED <<text, running, answer>>

LeaveQueue(r) == waiters' = [waiters EXCEPT ![Cost(r)] = RemoveFirst(@, r)]

\* Those who queued up behind it although a permit was free get theirs.
Resume(r) ==
  /\ stage[r] = "granted"
  /\ LeaveQueue(r)
  /\ Wake(Cost(r), permits[Cost(r)], permits[Cost(r)], [stage EXCEPT ![r] = "holding"])
  /\ UNCHANGED <<text, running, answer>>

\* _execute() has a session, and a thread runs the statement.
Start(r) ==
  /\ stage[r] = "holding" /\ r \notin running
  /\ running' = running \cup {r}
  /\ UNCHANGED <<stage, text, permits, waiters, answer>>

Returns(r) ==
  /\ stage[r] = "holding" /\ r \in running
  /\ running' = running \ {r}
  /\ IF ClassifyOperation(text[r]) = "write"
       THEN GiveBack(r, "written") /\ UNCHANGED answer
       ELSE /\ GiveBack(r, "idle")
            /\ \E rows \in BoundedSeq(RowSizes, MaxLen) : answer' = ApplyResultLimits(rows)
  /\ UNCHANGED <<text, waiters>>

\* The L1 or L2 cache, or another request's leader, has the rows.
AnsweredByCache(r) ==
  /\ stage[r] = "asked" /\ ClassifyOperation(text[r]) = "read"
  /\ \E rows \in BoundedSeq(RowSizes, MaxLen) : answer' = ApplyResultLimits(rows)
  /\ Move(r, "idle")
  /\ UNCHANGED <<text, permits, waiters, running>>

\* The statement raises, no connection is to be had, or the executor refuses it.
Raises(r) ==
  /\ stage[r] = "holding"
  /\ running' = running \ {r}
  /\ GiveBack(r, "idle")
  /\ UNCHANGED <<text, waiters, answer>>

\* Mutant of the next action: the permit is given back where the statement returns.
TimesOutWithPermit(r) ==
  /\ stage[r] = "holding"
  /\ Move(r, "idle")
  /\ UNCHANGED <<text, permits, waiters, running, answer>>

\* max_query_duration_seconds: the permit is given back, a statement that runs goes on.
TimesOut(r) ==
  /\ stage[r] = "holding"
  /\ GiveBack(r, "idle")
  /\ UNCHANGED <<text, waiters, running, answer>>

\* Invalidation raises or not: the write has succeeded.
Invalidated(r) ==
  /\ stage[r] = "written"
  /\ Move(r, "idle")
  /\ UNCHANGED <<text, permits, waiters, running, answer>>

\* The request is cancelled while it waits; a permit handed to it meanwhile goes on.
CancelWaiting(r) ==
  /\ stage[r] \in {"waiting", "granted"}
  /\ LeaveQueue(r)
  /\ LET free == permits[Cost(r)] + (IF Sleeping(r) THEN 0 ELSE 1)
     IN Wake(Cost(r), free, free, [stage EXCEPT ![r] = "idle"])
  /\ UNCHANGED <<text, running, answer>>

\* An abandoned statement ends in its thread.
Ends(r) ==
  /\ r \in running /\ stage[r] # "holding"
  /\ running' = running \ {r}
  /\ UNCHANGED <<stage, text, permits, waiters, answer>>

GateNext ==
  \E r \in Queries :
    \/ Ask(r) \/ Enter(r) \/ Resume(r) \/ Start(r) \/ Returns(r) \/ AnsweredByCache(r)
    \/ Raises(r) \/ TimesOut(r) \/ Invalidated(r) \/ CancelWaiting(r) \/ Ends(r)

----------------------------------------------------------------------------
\* in_use of query_concurrency_metrics().
InUse(c) == Limit[c] - permits[c]

\* However requests time out, fail or are cancelled, each class's permits are those of
\* the requests that hold one, and no request waits while one is free unless somebody has
\* been handed one and will pass the rest on.  What the gate bounds are requests: a
\* statement that was abandoned runs beyond the limit.
GateNeverShrinks ==
  \A c \in Costs :
    LET In(s) == {r \in Queries : stage[r] = s /\ Cost(r) = c} IN
      /\ InUse(c) = Cardinality(In("granted") \cup In("holding"))
      /\ permits[c] > 0 /\ In("waiting") # {} => In("granted") # {}

\* The size of the first n rows.
Bytes(rows, n) ==
  LET size[i \in 0..Len(rows)] == IF i = 0 THEN 0 ELSE size[i - 1] + rows[i]
  IN size[n]

\* The longest prefix within both limits.
IsLongestPrefix(out, rows) ==
  LET fits(n) == n <= MaxRows /\ Bytes(rows, n) <= MaxBytes
      n == Len(out)
  IN /\ n <= Len(rows) /\ out = SubSeq(rows, 1, n) /\ fits(n)
     /\ n < Len(rows) => ~fits(n + 1)

\* What a caller gets is the longest prefix within both limits, and the flag tells
\* whether rows are missing.
LimitsArePrefix ==
  /\ IsLongestPrefix(answer.out, answer.rows)
  /\ answer.truncated <=> Len(answer.out) < Len(answer.rows)

----------------------------------------------------------------------------
GateSpec == GateInit /\ [][GateNext]_gateVars

GateTypeOK ==
  /\ stage \in [Queries -> Stages] /\ text \in [Queries -> Statements]
  /\ permits \in [Costs -> Nat] /\ waiters \in [Costs -> Seq(Queries)]

\* A class's queue holds each of its requests that waits or has yet to resume, once.
QueuesHoldWaiters ==
  \A c \in Costs :
    /\ IsInjective(waiters[c])
    /\ \A r \in Queries :
         stage[r] \in {"waiting", "granted"} /\ Cost(r) = c <=> r \in ToSet(waiters[c])

GateInv == GateTypeOK /\ QueuesHoldWaiters /\ GateNeverShrinks
=============================================================================
