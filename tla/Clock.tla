--------------------------------- MODULE Clock ---------------------------------
(* Time in ticks, read by time.monotonic() and time.time(), up to a bound. *)
EXTENDS Naturals

CONSTANT MaxTime    \* bound on the clock

ASSUME ClockAssumption == MaxTime \in Nat

VARIABLE now

Time == 0..MaxTime

Tick == now < MaxTime /\ now' = now + 1
=============================================================================
