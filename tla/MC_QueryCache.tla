--------------------------- MODULE MC_QueryCache ---------------------------
(* A SELECT over a table and one over two; writes of one table and of both.   *)
(* Either both statements and a write of both tables, one caller issuing the  *)
(* first statement only and the other anything, or the second statement and   *)
(* two successive writes by any caller, so that an invalidation meets what an *)
(* abandoned one left.                                                        *)
EXTENDS QueryCache

CONSTANTS k1, k2, t1, t2

VARIABLE scope

MCReads == [k \in Keys |-> IF k = k1 THEN {t1} ELSE {t1, t2}]
MCWriteSets == {{t1}, {t1, t2}}

\* Callers are interchangeable: one of them makes the single write.
Reader == CHOOSE c \in Callers : TRUE

InScope ==
  IF scope = "statements"
    THEN /\ writes' <= 1 /\ pc'[Reader] # "write" /\ key'[Reader] # k2
         /\ \A c \in Callers : pc'[c] = "write" => tables'[c] = Tables
    ELSE \A c \in Callers : key'[c] # k1

MCInit == Init /\ scope \in {"statements", "writes"}

MCSpec ==
  /\ MCInit
  /\ [][Next /\ InScope /\ UNCHANGED scope]_<<vars, scope>>
  /\ Fairness
=============================================================================
