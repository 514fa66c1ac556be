------------------------------- MODULE Sampling -------------------------------
(***************************************************************************)
(* Which requests get a trace: AdaptiveSampler (core/performance/          *)
(* adaptive_sampler.py) as the profiling middleware asks it before each    *)
(* request and tells it of each outcome.  Between the two, requests        *)
(* overlap.  Rates are percentages, rounded down.                          *)
(***************************************************************************)
EXTENDS Clock, FiniteSets

CONSTANTS
  Served,             \* requests in flight
  Target,             \* target_samples_per_second, per tick
  MinRate, MaxRate,
  AdjustInterval, EscalationTime, SlowTime,
  MaxSampled          \* bound: samples in a window

ASSUME SamplingAssumption ==
  /\ Target \in Nat /\ MinRate \in 1..MaxRate /\ MaxRate \in 1..100
  /\ {AdjustInterval, EscalationTime, SlowTime} \subseteq Nat \ {0}

VARIABLES
  rate,               \* _rate_percent
  window,             \* _window_start and _window_sampled
  escalatedUntil,
  served,             \* since when each request runs, and whether it has a profiler
  lastBad             \* history: when the last bad outcome was reported, or Never

samplingVars == <<rate, window, escalatedUntil, served, lastBad>>

Unserved == [running |-> FALSE]
Never == MaxTime + 1

SamplingInit ==
  /\ rate = MaxRate /\ window = [start |-> 0, sampled |-> 0]
  /\ escalatedUntil = 0
  /\ served = [r \in Served |-> Unserved] /\ lastBad = Never

\* The actual rate is compared with the target, and with 1.2 times the target.
Faster == IF (3 * rate) \div 2 + 1 < MaxRate THEN (3 * rate) \div 2 + 1 ELSE MaxRate
Slower == IF (7 * rate) \div 10 > MinRate THEN (7 * rate) \div 10 ELSE MinRate

Adjusted(elapsed) ==
  IF window.sampled < Target * elapsed THEN Faster
  ELSE IF 5 * window.sampled > 6 * Target * elapsed THEN Slower ELSE rate

\* _maybe_adjust_locked() comes first, so that the new rate decides.
ShouldSample(r) ==
  LET due == now - window.start >= AdjustInterval
      at == IF due THEN [start |-> now, sampled |-> 0] ELSE window
  IN /\ ~served[r].running /\ at.sampled < MaxSampled
     /\ rate' = IF due THEN Adjusted(now - window.start) ELSE rate
     /\ \E sampled \in IF now < escalatedUntil \/ rate' = 100 THEN {TRUE} ELSE BOOLEAN :
          /\ window' = IF sampled THEN [at EXCEPT !.sampled = @ + 1] ELSE at
          /\ served' = [served EXCEPT ![r] = [running |-> TRUE, since |-> now, sampled |-> sampled]]
     /\ UNCHANGED <<escalatedUntil, lastBad, now>>

\* Mutant of the next operator: the full rate is set but not held.
EscalateRateOnly == rate' = MaxRate /\ UNCHANGED escalatedUntil

Escalate == rate' = MaxRate /\ escalatedUntil' = now + EscalationTime

\* The `finally` of the middleware: a request that raised or was cancelled counts as 500.
RecordOutcome(r) ==
  /\ served[r].running
  /\ \E failed \in BOOLEAN :
       IF failed \/ now - served[r].since >= SlowTime
         THEN Escalate /\ lastBad' = now
         ELSE UNCHANGED <<rate, escalatedUntil, lastBad>>
  /\ served' = [served EXCEPT ![r] = Unserved]
  /\ UNCHANGED <<window, now>>

SamplingNext ==
  \/ \E r \in Served : ShouldSample(r) \/ RecordOutcome(r)
  \/ Tick /\ UNCHANGED samplingVars

----------------------------------------------------------------------------
\* Whatever the adjustments in between and however requests overlap: while the last bad
\* outcome is less than EscalationTime ago, each request that began after it has a
\* profiler, and the rate stays within its bounds.
EscalationHolds ==
  /\ rate \in MinRate..MaxRate
  /\ lastBad # Never =>
       \A r \in Served :
         served[r].running /\ served[r].since > lastBad
           /\ served[r].since < lastBad + EscalationTime => served[r].sampled

----------------------------------------------------------------------------
SamplingSpec == now = 0 /\ SamplingInit /\ [][SamplingNext]_<<now, samplingVars>>

SamplingTypeOK ==
  /\ now \in Time /\ rate \in MinRate..MaxRate
  /\ window \in [start : Nat, sampled : Nat]
  /\ escalatedUntil \in Nat /\ lastBad \in Nat
  /\ served \in [Served -> {Unserved} \cup [running : {TRUE}, since : Nat, sampled : BOOLEAN]]

\* The last bad outcome decides until when the full rate is held.
EscalatedByLast == lastBad # Never => lastBad <= now /\ escalatedUntil = lastBad + EscalationTime

SamplingInv ==
  /\ SamplingTypeOK /\ EscalatedByLast /\ EscalationHolds
  /\ \A r \in Served : served[r].running => served[r].since <= now
=============================================================================
