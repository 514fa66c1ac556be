------------------------------- MODULE MC_Parts -------------------------------
(* Components that do not interact: each behaviour exercises one of them. *)
EXTENDS ApiKeys, RateLimiter, CacheAges, QueryGate, RequestTrace, Histogram, AlertMonitor,
        ServiceSchema, Sampling

VARIABLE part

partsVars == <<part, now, keyVars, limiterVars, ageVars, gateVars, traceVars, histogramVars,
               alertVars, schemaVars, samplingVars>>

Init ==
  /\ part \in {"keys", "limiter", "ages", "gate", "trace", "histogram", "alerts", "schema",
               "sampling"}
  /\ now = 0 /\ KeysInit /\ LimiterInit /\ AgesInit /\ GateInit /\ TraceInit
  /\ HistogramInit /\ AlertInit /\ SchemaInit
  /\ SamplingInit
  \* Names and addresses are interchangeable.
  /\ initial.account = CHOOSE a \in AccountArgs : TRUE
  /\ part # "schema" =>
       initial.usable /\ args = [account |-> initial.account, promote |-> TRUE, skipKey |-> TRUE]

\* Once calls on the tree have overlapped: four nodes, and one call of run().
TraceScope == overlapped => Len(parent') <= 4 /\ \E t \in Threads : thread'[t] = "new"

\* Everything of the other components stands still.
Only(p, step, vars) == part = p /\ step /\ UNCHANGED <<part, vars>>

Next ==
  \/ Only("keys", KeysNext,
          <<limiterVars, ageVars, gateVars, traceVars, histogramVars, alertVars, schemaVars,
            samplingVars>>)
  \/ Only("limiter", LimiterNext,
          <<keyVars, ageVars, gateVars, traceVars, histogramVars, alertVars, schemaVars,
            samplingVars>>)
  \/ Only("ages", AgesNext,
          <<keyVars, limiterVars, gateVars, traceVars, histogramVars, alertVars, schemaVars,
            samplingVars>>)
  \/ Only("gate", GateNext,
          <<now, keyVars, limiterVars, ageVars, traceVars, histogramVars, alertVars, schemaVars,
            samplingVars>>)
  \/ Only("trace", TraceNext /\ TraceScope,
          <<now, keyVars, limiterVars, ageVars, gateVars, histogramVars, alertVars, schemaVars,
            samplingVars>>)
  \/ Only("histogram", HistogramNext,
          <<now, keyVars, limiterVars, ageVars, gateVars, traceVars, alertVars, schemaVars,
            samplingVars>>)
  \/ Only("alerts", AlertNext,
          <<now, keyVars, limiterVars, ageVars, gateVars, traceVars, histogramVars, schemaVars,
            samplingVars>>)
  \/ Only("schema", SchemaNext,
          <<now, keyVars, limiterVars, ageVars, gateVars, traceVars, histogramVars, alertVars,
            samplingVars>>)
  \/ Only("sampling", SamplingNext,
          <<keyVars, limiterVars, ageVars, gateVars, traceVars, histogramVars, alertVars,
            schemaVars>>)

Report == [first |-> "WITH", dml |-> FALSE, heavy |-> TRUE, join |-> FALSE, wide |-> FALSE]
Upsert == [Report EXCEPT !.dml = TRUE]
Scan == [first |-> "SELECT", dml |-> FALSE, heavy |-> FALSE, join |-> FALSE, wide |-> TRUE]

Texts == {Report, Upsert, Scan}

Permits == [c \in Costs |-> IF c = "expensive" THEN 2 ELSE 1]

BucketBounds == <<1, 3>>

Spec == Init /\ [][Next]_partsVars
=============================================================================
