------------------------------ MODULE WriteQueue ------------------------------
(***************************************************************************)
(* ObservabilityWriteQueue (core/observability/write_queue.py): requests   *)
(* enqueue records, a background thread drains them in batches and writes  *)
(* each batch in one transaction, and stop() flushes what is left from     *)
(* its own thread, after a join() that may have timed out.                 *)
(***************************************************************************)
EXTENDS Naturals, Sequences, SequencesExt, FiniteSets

CONSTANTS
  MaxRecords,   \* bound: how many records requests emit
  MaxBatch      \* max_batch

ASSUME WriteQueueAssumption == MaxRecords \in Nat /\ MaxBatch \in Nat \ {0}

Records == 1..MaxRecords

VARIABLES
  records,      \* _queue
  stopSet,      \* _stop_event, set once and never cleared
  flusher,      \* where the flush thread and stop() are
  batch,        \* the batch each of them has drained
  written, lost \* history: records that have a row, and those that have none

queueVars == <<records, stopSet, flusher, batch, written, lost>>

Flushers == {"thread", "stop"}

\* off  not started     check  tests the event     sleep  for flush_interval
\* join  stop() waits for the thread   drain, flush   a batch is taken, written
\* done  returned
QueueInit ==
  /\ records = <<>> /\ stopSet = FALSE
  /\ flusher = [f \in Flushers |-> "off"]
  /\ batch = [f \in Flushers |-> <<>>]
  /\ written = {} /\ lost = {}

Goto(f, s) == flusher' = [flusher EXCEPT ![f] = s]

Emitted == ToSet(records) \cup ToSet(batch["thread"]) \cup ToSet(batch["stop"])
             \cup written \cup lost

StartFlusher ==
  /\ flusher["thread"] = "off"
  /\ Goto("thread", "check")
  /\ UNCHANGED <<records, stopSet, batch, written, lost>>

\* emit_request_observability() on a service manager that has a queue.
Emit ==
  /\ Cardinality(Emitted) < MaxRecords
  /\ records' = Append(records, Cardinality(Emitted) + 1)
  /\ UNCHANGED <<stopSet, flusher, batch, written, lost>>

\* _run(): the event is tested before the sleep, so the last round drains too.
CheckStop ==
  /\ flusher["thread"] = "check"
  /\ Goto("thread", IF stopSet THEN "done" ELSE "sleep")
  /\ UNCHANGED <<records, stopSet, batch, written, lost>>

Wake ==
  /\ flusher["thread"] = "sleep"
  /\ Goto("thread", "drain")
  /\ UNCHANGED <<records, stopSet, batch, written, lost>>

\* _drain(): one get_nowait() at a time, so two drains may interleave.
Full(f) == f = "thread" /\ Len(batch[f]) = MaxBatch

\* Mutant of the next action: the record is read but not removed.
PeekRecord(f) ==
  /\ flusher[f] = "drain" /\ records # <<>> /\ ~Full(f)
  /\ Head(records) \notin ToSet(batch[f])
  /\ batch' = [batch EXCEPT ![f] = Append(@, Head(records))]
  /\ UNCHANGED <<records, stopSet, flusher, written, lost>>

TakeRecord(f) ==
  /\ flusher[f] = "drain" /\ records # <<>> /\ ~Full(f)
  /\ batch' = [batch EXCEPT ![f] = Append(@, Head(records))]
  /\ records' = Tail(records)
  /\ UNCHANGED <<stopSet, flusher, written, lost>>

\* An empty batch is not flushed.
Resume(f) == IF f = "thread" THEN "check" ELSE "done"

EndDrain(f) ==
  /\ flusher[f] = "drain"
  /\ records = <<>> \/ Full(f)
  /\ Goto(f, IF batch[f] = <<>> THEN Resume(f) ELSE "flush")
  /\ UNCHANGED <<records, stopSet, batch, written, lost>>

----------------------------------------------------------------------------
(* write_observability_record(): the rows that one record has in the transaction  *)
(* after each of its four writes, of which any may fail                           *)

\* log_event() swallows the error of its INSERT; the other three do so with theirs.
Insert(rows, row) == {rows, rows \cup {row}}

LogRequest(rows) == Insert(rows, "log")

StartTrace(rows) == Insert(rows, "trace")

\* An UPDATE of no row is no error.  What raises is the SELECT before it, of the start
\* time, and it takes the audit row along.
EndTrace(rows) ==
  {rows, rows \cup {"raised"}} \cup (IF "trace" \in rows THEN {rows \cup {"ended"}} ELSE {})

LogAuditEvent(rows) == IF "raised" \in rows THEN {rows} ELSE Insert(rows, "audit")

WriteRecord ==
  UNION {LogAuditEvent(rows) : rows \in
    UNION {EndTrace(rows) : rows \in UNION {StartTrace(rows) : rows \in LogRequest({})}}}

LeavesRows == {rows \ {"raised"} # {} : rows \in WriteRecord}

----------------------------------------------------------------------------
\* _flush_batch(): the transaction commits whatever rows there are; an error of its own
\* loses them all.
Flush(f) ==
  /\ flusher[f] = "flush"
  /\ \E leaves \in [ToSet(batch[f]) -> LeavesRows] :
       /\ written' = written \cup {r \in ToSet(batch[f]) : leaves[r]}
       /\ lost' = lost \cup {r \in ToSet(batch[f]) : ~leaves[r]}
  /\ batch' = [batch EXCEPT ![f] = <<>>]
  /\ Goto(f, Resume(f))
  /\ UNCHANGED <<records, stopSet>>

\* Mutant of the next action: stop() does not wait for the thread and leaves the
\* rest to it.
StopAtOnce ==
  /\ flusher["stop"] = "off"
  /\ stopSet' = TRUE
  /\ Goto("stop", "done")
  /\ UNCHANGED <<records, batch, written, lost>>

StopFlusher ==
  /\ flusher["stop"] = "off"
  /\ stopSet' = TRUE
  /\ Goto("stop", "join")
  /\ UNCHANGED <<records, batch, written, lost>>

\* join(timeout=5.0) returns when the thread has ended, or gives up; the rest is
\* drained either way.
JoinReturns ==
  /\ flusher["stop"] = "join"
  /\ Goto("stop", "drain")
  /\ UNCHANGED <<records, stopSet, batch, written, lost>>

FlusherStep ==
  \/ CheckStop \/ Wake \/ JoinReturns
  \/ \E f \in Flushers : TakeRecord(f) \/ EndDrain(f) \/ Flush(f)

----------------------------------------------------------------------------
(* Where the records are: records that are emitted are numbered from 1, no place  *)
(* holds a record twice and no two places share one                               *)

QueueTypeOK ==
  /\ records \in Seq(Records) /\ stopSet \in BOOLEAN
  /\ flusher \in [Flushers -> {"off", "check", "sleep", "join", "drain", "flush", "done"}]
  /\ batch \in [Flushers -> Seq(Records)]
  /\ written \subseteq Records /\ lost \subseteq Records

HeldOnce == IsInjective(records) /\ \A f \in Flushers : IsInjective(batch[f])

PlacesApart ==
  /\ \A f \in Flushers : ToSet(batch[f]) \cap (ToSet(records) \cup written \cup lost) = {}
  /\ \A f, g \in Flushers : f # g => ToSet(batch[f]) \cap ToSet(batch[g]) = {}
  /\ ToSet(records) \cap (written \cup lost) = {}
  /\ written \cap lost = {}

Numbered == Emitted = 1..Cardinality(Emitted)

RecordsInv == QueueTypeOK /\ HeldOnce /\ PlacesApart /\ Numbered
=============================================================================
