----------------------------- MODULE MC_Lifespan -----------------------------
(* Two records and one cache write, or one record and two cache writes, beside *)
(* one warehouse query.                                                        *)
EXTENDS Lifespan

CONSTANT q1

PoolOf == [c \in Calls |-> IF c = q1 THEN "db" ELSE "background"]

OneThread == [p \in Pools |-> 1]

\* Requests are never obliged to record or to write the cache.
InScope == Cardinality(Emitted') <= 1 \/ \E j \in Jobs : outcome'[j] = "none"

MCSpec == LifeInit /\ [][LifeNext /\ InScope]_serverVars /\ LifeFairness
=============================================================================
