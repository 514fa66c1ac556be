------------------------------- MODULE Histogram -------------------------------
(***************************************************************************)
(* core/performance/histogram.py: an observation goes into one bucket and  *)
(* moves the five markers of a P^2 quantile estimate.  The parabola that   *)
(* moves a marker's height divides by the distances between the markers'   *)
(* positions.  Heights are left out: any value may fall into any cell.     *)
(***************************************************************************)
EXTENDS Integers, Sequences, SequencesExt

CONSTANTS
  Bounds,         \* bucket_bounds, ascending
  Values,         \* values observed
  QNum, QDen,     \* the quantile
  MaxCount        \* bound: observations

ASSUME HistogramAssumption ==
  /\ Bounds \in Seq(Nat) /\ \A i, j \in 1..Len(Bounds) : i < j => Bounds[i] <= Bounds[j]
  /\ Values \subseteq Nat
  /\ QDen \in Nat \ {0} /\ QNum \in 1..(QDen - 1)

VARIABLES
  observed,       \* history: the values, in order
  bucket,         \* _bucket_counts, +Inf last
  position,       \* _positions
  desired         \* _desired_positions, in units of 1 / (2 * QDen)

histogramVars == <<observed, bucket, position, desired>>

Unit == 2 * QDen
Buckets == 1..(Len(Bounds) + 1)

HistogramInit ==
  /\ observed = <<>> /\ bucket = [b \in Buckets |-> 0]
  /\ position = <<1, 2, 3, 4, 5>>
  /\ desired = <<Unit, Unit + 4 * QNum, Unit + 8 * QNum, 3 * Unit + 4 * QNum, 5 * Unit>>

Increments == <<0, QNum, 2 * QNum, QDen + QNum, Unit>>

\* bisect_left: a value equal to a bound falls under it.
BucketOf(v) == 1 + Len(SelectSeq(Bounds, LAMBDA b : b < v))

\* Mutant of the next operator: the gap in the direction of the move is not tested.
NudgeAlways(want, pos, i) ==
  LET diff == want[i] - Unit * pos[i] IN
  IF diff >= Unit THEN [pos EXCEPT ![i] = @ + 1]
  ELSE IF diff <= -Unit THEN [pos EXCEPT ![i] = @ - 1] ELSE pos

\* A marker that is a whole position off moves by one, if there is room.
Nudge(want, pos, i) ==
  LET diff == want[i] - Unit * pos[i] IN
  IF diff >= Unit /\ pos[i + 1] - pos[i] > 1 THEN [pos EXCEPT ![i] = @ + 1]
  ELSE IF diff <= -Unit /\ pos[i] - pos[i - 1] > 1 THEN [pos EXCEPT ![i] = @ - 1] ELSE pos

\* _update_markers(): the markers above the value's cell shift, then the inner ones
\* are adjusted from left to right.
UpdateMarkers(cell) ==
  LET want == [i \in 1..5 |-> desired[i] + Increments[i]]
      shifted == [i \in 1..5 |-> IF i > cell + 1 THEN position[i] + 1 ELSE position[i]]
  IN /\ desired' = want
     /\ position' = Nudge(want, Nudge(want, Nudge(want, shifted, 2), 3), 4)

\* The first five values only fill the markers.
Observe(v) ==
  /\ Len(observed) < MaxCount
  /\ observed' = Append(observed, v)
  /\ bucket' = [bucket EXCEPT ![BucketOf(v)] = @ + 1]
  /\ IF Len(observed) < 5
       THEN UNCHANGED <<position, desired>>
       ELSE \E cell \in 0..3 : UpdateMarkers(cell)

HistogramNext == \E v \in Values : Observe(v)

\* The estimate's markers never meet, so that no division is by zero, and the outer
\* two are the first and the last observation, whatever the order of the values.
MarkersApart ==
  /\ \A i \in 1..4 : position[i] < position[i + 1]
  /\ position[1] = 1
  /\ Len(observed) >= 5 => position[5] = Len(observed)

----------------------------------------------------------------------------
HistogramSpec == HistogramInit /\ [][HistogramNext]_histogramVars

MarkersTypeOK ==
  /\ observed \in Seq(Values)
  /\ position \in [1..5 -> Int] /\ desired \in [1..5 -> Int]

\* The first five observations are the markers.
MarkersInv ==
  /\ MarkersTypeOK /\ MarkersApart
  /\ Len(observed) <= 5 => position = <<1, 2, 3, 4, 5>>
=============================================================================
