------------------------------ MODULE AlertMonitor ------------------------------
(***************************************************************************)
(* core/observability/alerts.py: every GET /api/health evaluates the same  *)
(* alerts.  Gauges are compared with thresholds, counters with what the    *)
(* last evaluation saw, and an alert is logged when it starts and when it  *)
(* stops.                                                                  *)
(***************************************************************************)
EXTENDS Integers, FiniteSets

CONSTANT MaxTotal   \* bound: how far a counter grows

VARIABLES
  total,            \* the counters of the pool and of the persistence queue
  checked,          \* _prev_counters: the value each check saw last, Unseen before
  pressure,         \* how saturated each gauge is
  poolShown,        \* the pool exists: its section is not None
  firing,           \* _firing
  logged,           \* history: each code's last line in the log
  alerted,          \* history: the deltas that alerts have carried
  skipped           \* history: what each counter had when it was first seen

alertVars ==
  <<total, checked, pressure, poolShown, firing, logged, alerted, skipped>>

\* One of each section's: broken connections and failed jobs are checked alike.
PoolCounters == {"pool_timeouts"}
QueueCounters == {"persistence_dropped"}
CheckedCounters == PoolCounters \cup QueueCounters

Unseen == -1

\* A gauge against its thresholds.
Levels == {"low", "warning", "critical"}

\* "other" stands for an executor, a query class, the queue's depth and the sampler:
\* each has one threshold and one code.
Gauges == {"pool", "other"}

Code(g, level) ==
  IF g = "other" THEN "saturated"
  ELSE IF level = "critical" THEN "pool_saturated" ELSE "pool_under_pressure"

Codes == CheckedCounters \cup {Code(g, l) : g \in Gauges, l \in Levels \ {"low"}}

AlertInit ==
  /\ total = [c \in CheckedCounters |-> 0]
  /\ checked = [c \in CheckedCounters |-> Unseen]
  /\ pressure = [g \in Gauges |-> "low"] /\ poolShown = FALSE
  /\ firing = {}
  /\ logged = [c \in Codes |-> "none"]
  /\ alerted = [c \in CheckedCounters |-> 0] /\ skipped = [c \in CheckedCounters |-> 0]

Grows(c) ==
  /\ total[c] < MaxTotal /\ (c \in PoolCounters => poolShown)
  /\ total' = [total EXCEPT ![c] = @ + 1]
  /\ UNCHANGED <<checked, pressure, poolShown, firing, logged, alerted, skipped>>

PressureChanges(g, level) ==
  /\ g = "pool" => poolShown
  /\ pressure[g] # level
  /\ pressure' = [pressure EXCEPT ![g] = level]
  /\ UNCHANGED <<total, checked, poolShown, firing, logged, alerted, skipped>>

\* DatabaseSession.initialize().
PoolAppears ==
  /\ ~poolShown
  /\ poolShown' = TRUE
  /\ UNCHANGED <<total, checked, pressure, firing, logged, alerted, skipped>>

----------------------------------------------------------------------------
(* evaluate() runs to its end without an await *)

\* A section that is None is not looked at, and its counters keep their last values.
Shown == QueueCounters \cup (IF poolShown THEN PoolCounters ELSE {})

\* Mutant of the next operator: a counter seen for the first time counts from 0.
DeltaFromZero(c) == total[c] - (IF checked[c] = Unseen THEN 0 ELSE checked[c])

\* _check_counter_delta(): the first check only sets the baseline.
Delta(c) == IF checked[c] = Unseen THEN 0 ELSE total[c] - checked[c]

\* A gauge fires as long as it is high, a counter only when it has grown.
Alerts ==
  {c \in Shown : Delta(c) > 0}
    \cup {Code(g, pressure[g]) : g \in {x \in Gauges : pressure[x] # "low"}}

\* The next line of a code: "repeated" if it says the same as the last one.
Line(c, line) == IF logged[c] = line THEN "repeated" ELSE line

\* _log_newly_firing(): edges only.
LogNewlyFiring ==
  /\ logged' = [c \in Codes |-> IF c \in Alerts \ firing THEN Line(c, "raised")
                               ELSE IF c \in firing \ Alerts THEN Line(c, "resolved")
                               ELSE logged[c]]
  /\ firing' = Alerts

Evaluate ==
  /\ checked' = [c \in CheckedCounters |-> IF c \in Shown THEN total[c] ELSE checked[c]]
  /\ alerted' = [c \in CheckedCounters |-> alerted[c] + (IF c \in Shown THEN Delta(c) ELSE 0)]
  /\ skipped' = [c \in CheckedCounters |->
       IF c \in Shown /\ checked[c] = Unseen THEN total[c] ELSE skipped[c]]
  /\ LogNewlyFiring
  /\ UNCHANGED <<total, pressure, poolShown>>

AlertNext ==
  \/ \E c \in CheckedCounters : Grows(c)
  \/ \E g \in Gauges, l \in Levels : PressureChanges(g, l)
  \/ PoolAppears \/ Evaluate

----------------------------------------------------------------------------
\* However the health checks fall, each increment is in exactly one alert, or was there
\* before the first check, or is still to come; and the raised and resolved lines of
\* each code alternate, so that its last one tells whether it fires.
AlertsReportOnce ==
  /\ \A c \in CheckedCounters :
       checked[c] # Unseen => alerted[c] + skipped[c] = checked[c]
  /\ \A c \in Codes : logged[c] # "repeated" /\ (logged[c] = "raised" <=> c \in firing)

----------------------------------------------------------------------------
AlertSpec == AlertInit /\ [][AlertNext]_alertVars

AlertTypeOK ==
  /\ total \in [CheckedCounters -> Nat] /\ checked \in [CheckedCounters -> Nat \cup {Unseen}]
  /\ pressure \in [Gauges -> Levels] /\ poolShown \in BOOLEAN
  /\ firing \subseteq Codes
  /\ logged \in [Codes -> {"none", "raised", "resolved", "repeated"}]
  /\ alerted \in [CheckedCounters -> Int] /\ skipped \in [CheckedCounters -> Nat]

\* Nothing is told of a counter before it is first seen.
UnseenUntold ==
  \A c \in CheckedCounters : checked[c] = Unseen => alerted[c] = 0 /\ skipped[c] = 0

AlertInv == AlertTypeOK /\ UnseenUntold /\ AlertsReportOnce
=============================================================================
