--------------------------- MODULE AdaptiveSizer ---------------------------
(***************************************************************************)
(* AdaptiveSizer (core/db/pool/adaptive.py): the moving limit on the       *)
(* connections of a pool.  Both pools own one and adjust it in metrics().  *)
(***************************************************************************)
EXTENDS Integers

CONSTANTS
  MinConn,      \* AdaptiveSizer.min
  MaxConn,      \* AdaptiveSizer.max
  Cooldown      \* _COOLDOWN_CHECKS

ASSUME SizerAssumption ==
  /\ MinConn \in Nat /\ MaxConn \in Nat /\ MinConn <= MaxConn
  /\ Cooldown \in Nat \ {0}

VARIABLES
  current,      \* AdaptiveSizer.current
  streak        \* _idle_streak, capped at Cooldown

sizerVars == <<current, streak>>

SizerInit == current = MinConn /\ streak = 0

\* adjust(): one step up under pressure, one step down after enough idle checks.
Adjust(underPressure) ==
  IF underPressure
    THEN /\ streak' = 0
         /\ current' = IF current < MaxConn THEN current + 1 ELSE current
    ELSE IF streak + 1 >= Cooldown /\ current > MinConn
           THEN streak' = 0 /\ current' = current - 1
           ELSE /\ streak' = IF streak < Cooldown THEN streak + 1 ELSE streak
                /\ current' = current
=============================================================================
