-------------------------- MODULE QueryCacheProofs --------------------------
(***************************************************************************)
(* For any number of callers, statements, tables, writes and jobs: every   *)
(* registered future has exactly one live leader, and L1 and L2 hold       *)
(* nothing stale that the interleaving of a write does not explain.        *)
(***************************************************************************)
EXTENDS QueryCache, TLAPS

USE DEF Resolving

----------------------------------------------------------------------------
(* The operators the steps are built from *)

\* What a leader puts is the result it has in hand, with the mark recomputed.
LEMMA InHandResult ==
  ASSUME TypeOK, NEW c \in Callers, value[c] \in Result
  PROVE  /\ InHand(c) \in Result
         /\ InHand(c).seen = value[c].seen
         /\ InHand(c).overlapped =
              (Stale(key[c], value[c]) /\ (value[c].overlapped \/ c \in overlap))
<1>1. value[c].seen \in UNION {[Reads[k] -> Nat] : k \in Keys} /\ value[c].overlapped \in BOOLEAN
  BY DEF Result
<1>2. Stale(key[c], value[c]) \in BOOLEAN
  BY DEF Stale
<1> QED BY <1>1, <1>2 DEF InHand, Result

\* A write marks the jobs whose statement reads its tables and keeps the others.
LEMMA OvertakenJobs ==
  ASSUME TypeOK, NEW ts, Overtaken(ts)
  PROVE  /\ jobs' \subseteq [key : Keys, result : Result]
         /\ \A j \in jobs' :
              \/ j \in jobs /\ ~Touches(j.key, ts)
              \/ j.result.overlapped
<1> DEFINE mark(j) == [j EXCEPT !.result.overlapped = TRUE]
<1>1. \A j \in jobs : j \in [key : Keys, result : Result]
  BY DEF TypeOK
<1>2. ASSUME NEW j \in jobs
      PROVE  mark(j) \in [key : Keys, result : Result] /\ mark(j).result.overlapped
  <2> DEFINE r == [j.result EXCEPT !.overlapped = TRUE]
  <2>1. r \in Result /\ r.overlapped
    BY <1>1 DEF Result
  <2>2. mark(j) = [j EXCEPT !.result = r]
    OBVIOUS
  <2> HIDE DEF mark, r
  <2> QED BY <1>1, <2>1, <2>2
<1>3. jobs' = {IF Touches(j.key, ts) THEN mark(j) ELSE j : j \in jobs}
  BY DEF Overtaken
<1> HIDE DEF mark
<1> QED BY <1>1, <1>2, <1>3

\* A result of a registered statement, as Execute computes it, is a Result.
LEMMA QueryResult ==
  ASSUME TypeOK, CacheAssumption, NEW k \in Keys
  PROVE  /\ [seen |-> Query(k), overlapped |-> FALSE] \in Result
         /\ ~Stale(k, [seen |-> Query(k), overlapped |-> FALSE])
<1>1. Reads[k] \subseteq Tables
  BY DEF CacheAssumption
<1>2. Query(k) \in [Reads[k] -> Nat]
  BY <1>1 DEF Query, TypeOK
<1>3. \A t \in Reads[k] : ~(Query(k)[t] < ver[t])
  BY <1>1 DEF Query, TypeOK
<1> QED BY <1>2, <1>3 DEF Result, Stale

----------------------------------------------------------------------------
(* The shape of the state *)

\* The empty caches of a fresh process satisfy every part of both invariants.
LEMMA InitInv == Init => FlightsInv /\ FreshInv
<1> SUFFICES ASSUME Init PROVE FlightsInv /\ FreshInv
  OBVIOUS
<1> USE DEF Init
<1>1. TypeOK
  BY DEF TypeOK
<1>2. FlightsOwned
  BY CacheAssumption DEF FlightsOwned, Leading, CacheAssumption
<1>3. Indexed /\ LookupsMarked /\ ValuesExplained /\ JobsExplained /\ L1Explained /\ L2Explained
  BY DEF Indexed, LookupsMarked, ValuesExplained, JobsExplained, L1Explained, L2Explained
<1> QED BY <1>1, <1>2, <1>3 DEF FlightsInv, FreshInv

\* Filling L1 keeps the types of L1 and of its index.
LEMMA FillType ==
  ASSUME TypeOK, NEW k \in Keys, NEW r \in Result, Fill(k, r)
  PROVE  l1' \in [Keys -> Result \cup {None}] /\ tableKeys' \in [Tables -> SUBSET Keys]
BY DEF Fill, TypeOK

\* Concluding a lookup keeps the types of the tasks and of the registrations.
LEMMA ConcludeType ==
  ASSUME TypeOK, NEW c \in Callers, pc[c] \in Resolving, Conclude(c)
  PROVE  /\ inflight' \in [Keys -> Callers \cup {None}] /\ spoiled' \subseteq Callers
         /\ pc' \in [Callers -> Resolving \cup
                       {"idle", "follow", "write", "written", "drop", "clear"}]
         /\ key' \in [Callers -> Keys \cup {None}]
         /\ value' \in [Callers -> Result \cup {None}]
         /\ tables' = tables /\ overlap' \subseteq Callers
         /\ \A d \in Callers : pc'[d] \in Resolving \cup {"follow"} => key'[d] \in Keys
         /\ \A d \in Callers : pc'[d] = "execd" => value'[d] \in Result
<1> USE DEF TypeOK, Conclude
<1> DEFINE done == {c} \cup {d \in Callers : pc[d] = "follow" /\ key[d] = key[c]}
<1>1. /\ pc' = [d \in Callers |-> IF d \in done THEN "idle" ELSE pc[d]]
      /\ key' = [d \in Callers |-> IF d \in done THEN None ELSE key[d]]
  OBVIOUS
<1>2. c \in done
  OBVIOUS
<1> HIDE DEF done
<1>3. /\ inflight' \in [Keys -> Callers \cup {None}] /\ spoiled' \subseteq Callers
      /\ value' \in [Callers -> Result \cup {None}]
      /\ tables' = tables /\ overlap' \subseteq Callers
  OBVIOUS
<1>4. /\ pc' \in [Callers -> Resolving \cup
                    {"idle", "follow", "write", "written", "drop", "clear"}]
      /\ key' \in [Callers -> Keys \cup {None}]
  BY <1>1
<1>5. \A d \in Callers : pc'[d] \in Resolving \cup {"follow"} => key'[d] \in Keys
  BY <1>1
<1>6. \A d \in Callers : pc'[d] = "execd" => value'[d] \in Result
  BY <1>1, <1>2
<1> QED BY <1>3, <1>4, <1>5, <1>6

\* No step leaves the type invariant.
LEMMA TypeStep == FlightsInv /\ [Next]_vars => TypeOK'
<1> SUFFICES ASSUME FlightsInv, [Next]_vars PROVE TypeOK'
  OBVIOUS
<1>t. TypeOK /\ FlightsOwned
  BY DEF FlightsInv
<1>k. \A k \in Keys : Reads[k] \subseteq Tables /\ Tags[k] \subseteq Tables
  BY CacheAssumption DEF CacheAssumption
<1>w. \A ts \in WriteSets : ts \subseteq Tables
  BY CacheAssumption DEF CacheAssumption
<1>u. Unsettled \subseteq Tables
  BY <1>t DEF Unsettled, TypeOK
<1>c. ASSUME NEW ts \in SUBSET Tables, Commit(ts), Overtaken(ts)
      PROVE  /\ ver' \in [Tables -> Nat]
             /\ jobs' \subseteq [key : Keys, result : Result]
             /\ overlap' \subseteq Callers
  <2>1. ver' \in [Tables -> Nat]
    BY <1>t, <1>c DEF Commit, TypeOK
  <2>2. jobs' \subseteq [key : Keys, result : Result]
    BY <1>t, <1>c, OvertakenJobs
  <2> QED BY <1>t, <1>c, <2>1, <2>2 DEF Overtaken, TypeOK
<1> USE DEF Goto, warehouse, caches, flights, tasks, history
<1>1. ASSUME NEW c \in Callers, NEW k \in Keys, ReadLeads(c, k) PROVE TypeOK'
  BY <1>t, <1>1 DEF ReadLeads, TypeOK
<1>2. ASSUME NEW c \in Callers, NEW k \in Keys, ReadFollows(c, k) PROVE TypeOK'
  BY <1>t, <1>2 DEF ReadFollows, TypeOK
<1>3. ASSUME NEW c \in Callers, NEW ts \in WriteSets, BeginWrite(c, ts) PROVE TypeOK'
  BY <1>t, <1>w, <1>3 DEF BeginWrite, TypeOK
<1>4. ASSUME NEW c \in Callers, L2Lookup(c) PROVE TypeOK'
  BY <1>t, <1>4 DEF L2Lookup, TypeOK
<1>5. ASSUME NEW c \in Callers, L2Hit(c) PROVE TypeOK'
  <2>1. key[c] \in Keys /\ value[c] \in Result
    BY <1>t, <1>5 DEF L2Hit, TypeOK
  <2>2. l1' \in [Keys -> Result \cup {None}] /\ tableKeys' \in [Tables -> SUBSET Keys]
    BY <1>t, <1>5, <2>1, InHandResult, FillType DEF L2Hit
  <2> QED BY <1>t, <1>5, <2>2, ConcludeType DEF L2Hit, TypeOK
<1>6. ASSUME NEW c \in Callers, L2Miss(c) PROVE TypeOK'
  BY <1>t, <1>6 DEF L2Miss, TypeOK
<1>7. ASSUME NEW c \in Callers, Execute(c) PROVE TypeOK'
  <2>1. key[c] \in Keys
    BY <1>t, <1>7 DEF Execute, TypeOK
  <2>2. [seen |-> Query(key[c]), overlapped |-> FALSE] \in Result
    BY <1>t, <2>1, CacheAssumption, QueryResult
  <2> QED BY <1>t, <1>7, <2>1, <2>2 DEF Execute, TypeOK
<1>8. ASSUME NEW c \in Callers, Executed(c) PROVE TypeOK'
  <2>1. key[c] \in Keys /\ value[c] \in Result
    BY <1>t, <1>8 DEF Executed, TypeOK
  <2>2. InHand(c) \in Result
    BY <1>t, <2>1, InHandResult
  <2>3. l1' \in [Keys -> Result \cup {None}] /\ tableKeys' \in [Tables -> SUBSET Keys]
    BY <1>t, <1>8, <2>1, <2>2, FillType DEF Executed
  <2>4. jobs' \subseteq [key : Keys, result : Result]
    BY <1>t, <1>8, <2>1, <2>2 DEF Executed, Submit, TypeOK
  <2> QED BY <1>t, <1>8, <2>3, <2>4, ConcludeType DEF Executed, TypeOK
<1>9. ASSUME NEW c \in Callers, ReadFails(c) \/ CancelLeader(c) PROVE TypeOK'
  BY <1>t, <1>9, ConcludeType DEF ReadFails, CancelLeader, TypeOK
<1>10. ASSUME NEW c \in Callers, CancelFollower(c) PROVE TypeOK'
  <2>1. inflight[key[c]] \in Callers
    BY <1>t, <1>10 DEF CancelFollower, FlightsOwned
  <2> DEFINE struck == {d \in Callers : pc[d] = "follow" /\ key[d] = key[c]}
  <2>2. /\ pc' = [d \in Callers |-> IF d \in struck THEN "idle" ELSE pc[d]]
        /\ key' = [d \in Callers |-> IF d \in struck THEN None ELSE key[d]]
    BY <1>10 DEF CancelFollower
  <2> HIDE DEF struck
  <2> QED BY <1>t, <1>10, <2>1, <2>2 DEF CancelFollower, TypeOK
<1>11. ASSUME NEW c \in Callers, WriteCommits(c) PROVE TypeOK'
  <2>1. tables[c] \in SUBSET Tables
    BY <1>t DEF TypeOK
  <2> QED BY <1>t, <1>c, <1>11, <2>1 DEF WriteCommits, TypeOK
<1>12. ASSUME NEW c \in Callers, WriteFails(c) \/ AbandonWrite(c) PROVE TypeOK'
  BY <1>t, <1>12 DEF WriteFails, AbandonWrite, TypeOK
<1>13. ASSUME NEW c \in Callers, Invalidate(c) PROVE TypeOK'
  <2>1. pc' \in [Callers -> {"drop", "clear"} \cup Resolving \cup
                   {"idle", "follow", "write", "written"}]
    BY <1>t, <1>13 DEF Invalidate, TypeOK
  <2>2. /\ l1' \in [Keys -> Result \cup {None}] /\ tableKeys' \in [Tables -> SUBSET Keys]
        /\ \A d \in Callers : pc'[d] = pc[d] \/ pc'[d] \in {"drop", "clear"}
    BY <1>t, <1>13 DEF Invalidate, TypeOK
  <2> QED BY <1>t, <1>13, <2>1, <2>2 DEF Invalidate, TypeOK
<1>14. ASSUME NEW c \in Callers, L2Drop(c) \/ L2Clear(c) \/ L2DropFails(c) PROVE TypeOK'
  <2>1. /\ l2' \in [Keys -> Result \cup {None}]
        /\ unannounced' \subseteq Tables
        /\ UNCHANGED <<warehouse, l1, tableKeys, jobs, flights, key, value, overlap>>
    <3>1. CASE L2Drop(c)
      BY <1>t, <3>1 DEF L2Drop, TypeOK
    <3>2. CASE L2Clear(c)
      BY <1>t, <3>2 DEF L2Clear, TypeOK
    <3>3. CASE L2DropFails(c)
      BY <1>t, <3>3 DEF L2DropFails, TypeOK
    <3> QED BY <1>14, <3>1, <3>2, <3>3
  <2>2. \E ts : Settle(c, ts)
    BY <1>14 DEF L2Drop, L2Clear, L2DropFails
  <2>3. /\ tables' \in [Callers -> SUBSET Tables]
        /\ pc' \in [Callers -> Resolving \cup
                      {"idle", "follow", "write", "written", "drop", "clear"}]
        /\ \A d \in Callers : pc'[d] = pc[d] \/ pc'[d] = "idle"
    BY <1>t, <2>2 DEF Settle, TypeOK
  <2> QED BY <1>t, <2>1, <2>3 DEF TypeOK
<1>15. ASSUME NEW ts \in orphanWrites, OrphanCommits(ts) PROVE TypeOK'
  <2>1. ts \in SUBSET Tables
    BY <1>t DEF TypeOK
  <2> QED BY <1>t, <1>c, <1>15, <2>1 DEF OrphanCommits, TypeOK
<1>16. ASSUME NEW j \in jobs, Persist(j) PROVE TypeOK'
  BY <1>t, <1>16 DEF Persist, CacheResult, TypeOK
<1>17. ASSUME NEW k \in Keys, Evict(k) PROVE TypeOK'
  BY <1>t, <1>17 DEF Evict, TypeOK
<1>18. CASE Restart
  BY <1>t, <1>u, <1>18 DEF Restart, TypeOK
<1>19. CASE UNCHANGED vars
  BY <1>t, <1>19 DEF vars, TypeOK
<1> QED
  BY <1>1, <1>2, <1>3, <1>4, <1>5, <1>6, <1>7, <1>8, <1>9, <1>10, <1>11, <1>12, <1>13,
     <1>14, <1>15, <1>16, <1>17, <1>18, <1>19 DEF Next, Progress

----------------------------------------------------------------------------
(* One leader for each registered future *)

\* The step that completes a future takes away the leader, its followers and its
\* registration together.
LEMMA ConcludeFlights ==
  ASSUME FlightsInv, NEW c \in Callers, pc[c] \in Resolving, Conclude(c)
  PROVE  FlightsOwned'
<1> DEFINE done == {c} \cup {d \in Callers : pc[d] = "follow" /\ key[d] = key[c]}
<1>1. /\ pc' = [d \in Callers |-> IF d \in done THEN "idle" ELSE pc[d]]
      /\ key' = [d \in Callers |-> IF d \in done THEN None ELSE key[d]]
      /\ inflight' = [inflight EXCEPT ![key[c]] = None]
      /\ spoiled' = spoiled \ {c}
  BY DEF Conclude
<1>2. /\ c \in done
      /\ \A d \in done : d # c => pc[d] = "follow" /\ key[d] = key[c]
      /\ \A d \in Callers : pc[d] = "follow" /\ key[d] = key[c] => d \in done
  OBVIOUS
<1> HIDE DEF done
<1>3. TypeOK /\ FlightsOwned /\ None \notin Callers
  BY CacheAssumption DEF FlightsInv, CacheAssumption
<1>4. key[c] \in Keys /\ inflight[key[c]] = c
  BY <1>3 DEF FlightsOwned, Leading, TypeOK
<1>5. ASSUME NEW k \in Keys, NEW d \in Callers
      PROVE  (inflight'[k] = d) <=> Leading(d, k)'
  <2>1. (inflight[k] = d) <=> Leading(d, k)
    BY <1>3 DEF FlightsOwned
  <2>2. inflight'[k] = IF k = key[c] THEN None ELSE inflight[k]
    BY <1>1, <1>3, <1>4 DEF TypeOK
  <2>3. CASE k = key[c]
    <3>1. inflight'[k] # d
      BY <1>3, <2>2, <2>3
    <3>2. ~Leading(d, k)'
      BY <1>1, <1>2, <1>4, <2>1, <2>3 DEF Leading
    <3> QED BY <3>1, <3>2
  <2>4. CASE k # key[c]
    <3>1. Leading(d, k)' <=> Leading(d, k)
      BY <1>1, <1>2, <2>4 DEF Leading
    <3> QED BY <2>1, <2>2, <2>4, <3>1
  <2> QED BY <2>3, <2>4
<1>6. ASSUME NEW d \in Callers, pc'[d] = "follow"
      PROVE  inflight'[key'[d]] \in Callers \ spoiled'
  <2>1. pc[d] = "follow" /\ key'[d] = key[d] /\ key[d] # key[c]
    BY <1>1, <1>2, <1>6
  <2>2. key[d] \in Keys /\ inflight[key[d]] \in Callers \ spoiled
    BY <1>3, <2>1 DEF FlightsOwned, TypeOK
  <2> QED BY <1>1, <1>3, <2>1, <2>2 DEF TypeOK
<1> QED BY <1>5, <1>6 DEF FlightsOwned

\* A step of a task that neither leads nor follows before or after it.
LEMMA BystanderFlights ==
  ASSUME FlightsInv, NEW c \in Callers,
         pc[c] \notin Resolving \cup {"follow"}, UNCHANGED <<flights, key>>,
         \E s : s \notin Resolving \cup {"follow"} /\ pc' = [pc EXCEPT ![c] = s]
  PROVE  FlightsOwned'
<1>1. TypeOK /\ FlightsOwned
  BY DEF FlightsInv
<1>2. PICK s : s \notin Resolving \cup {"follow"} /\ pc' = [pc EXCEPT ![c] = s]
  OBVIOUS
<1>3. \A d \in Callers :
        pc'[d] # pc[d] => pc'[d] \notin Resolving \cup {"follow"}
                          /\ pc[d] \notin Resolving \cup {"follow"}
  BY <1>1, <1>2 DEF TypeOK
<1> QED BY <1>1, <1>3 DEF FlightsOwned, Leading, flights

\* A leader that goes on leading.
LEMMA LeaderFlights ==
  ASSUME FlightsInv, NEW c \in Callers, pc[c] \in Resolving, UNCHANGED <<flights, key>>,
         \E s \in Resolving : pc' = [pc EXCEPT ![c] = s]
  PROVE  FlightsOwned'
<1>1. TypeOK /\ FlightsOwned
  BY DEF FlightsInv
<1>2. \A d \in Callers : pc'[d] # pc[d] => pc'[d] \in Resolving /\ pc[d] \in Resolving
  BY <1>1 DEF TypeOK
<1> QED BY <1>1, <1>2 DEF FlightsOwned, Leading, flights

\* Every registration has its leader, and every follower a leader that answers,
\* after each step of get_or_execute(), of a cancellation and of a restart.
LEMMA FlightsStep == FlightsInv /\ [Next]_vars => FlightsOwned'
<1> SUFFICES ASSUME FlightsInv, [Next]_vars PROVE FlightsOwned'
  OBVIOUS
<1>t. TypeOK /\ FlightsOwned /\ None \notin Callers
  BY CacheAssumption DEF FlightsInv, CacheAssumption
<1> USE DEF Goto
<1>1. ASSUME NEW c \in Callers, NEW k \in Keys, ReadLeads(c, k) PROVE FlightsOwned'
  <2>1. /\ pc' = [pc EXCEPT ![c] = "l2"] /\ key' = [key EXCEPT ![c] = k]
        /\ inflight' = [inflight EXCEPT ![k] = c] /\ spoiled' = spoiled
        /\ pc[c] = "idle" /\ inflight[k] = None
    BY <1>1 DEF ReadLeads
  <2>2. ASSUME NEW q \in Keys, NEW d \in Callers
        PROVE  (inflight'[q] = d) <=> Leading(d, q)'
    <3>1. (inflight[q] = d) <=> Leading(d, q)
      BY <1>t DEF FlightsOwned
    <3> QED BY <1>t, <2>1, <3>1 DEF Leading, TypeOK
  <2>3. ASSUME NEW d \in Callers, pc'[d] = "follow"
        PROVE  inflight'[key'[d]] \in Callers \ spoiled'
    <3>1. d # c /\ pc[d] = "follow" /\ key'[d] = key[d]
      BY <1>t, <2>1, <2>3 DEF TypeOK
    <3>2. inflight[key[d]] \in Callers \ spoiled /\ key[d] \in Keys
      BY <1>t, <3>1 DEF FlightsOwned, TypeOK
    <3> QED BY <1>t, <2>1, <3>1, <3>2 DEF TypeOK
  <2> QED BY <2>2, <2>3 DEF FlightsOwned
<1>2. ASSUME NEW c \in Callers, NEW k \in Keys, ReadFollows(c, k) PROVE FlightsOwned'
  <2>1. inflight[k] \in Callers \ spoiled
    BY <1>t, <1>2 DEF ReadFollows, TypeOK
  <2> QED BY <1>t, <1>2, <2>1 DEF ReadFollows, FlightsOwned, Leading, TypeOK, flights
<1>3. ASSUME NEW c \in Callers, L2Lookup(c) \/ L2Miss(c) \/ Execute(c) PROVE FlightsOwned'
  BY <1>3, LeaderFlights DEF L2Lookup, L2Miss, Execute
<1>4. ASSUME NEW c \in Callers, L2Hit(c) \/ Executed(c) \/ ReadFails(c) \/ CancelLeader(c)
      PROVE  FlightsOwned'
  BY <1>4, ConcludeFlights DEF L2Hit, Executed, ReadFails, CancelLeader
<1>5. ASSUME NEW c \in Callers, CancelFollower(c) PROVE FlightsOwned'
  <2> DEFINE struck == {d \in Callers : pc[d] = "follow" /\ key[d] = key[c]}
  <2>1. /\ pc' = [d \in Callers |-> IF d \in struck THEN "idle" ELSE pc[d]]
        /\ key' = [d \in Callers |-> IF d \in struck THEN None ELSE key[d]]
        /\ inflight' = inflight /\ spoiled' = spoiled \cup {inflight[key[c]]}
        /\ pc[c] = "follow"
    BY <1>5 DEF CancelFollower
  <2>2. \A d \in Callers : d \in struck <=> pc[d] = "follow" /\ key[d] = key[c]
    OBVIOUS
  <2> HIDE DEF struck
  <2>3. key[c] \in Keys
    BY <1>t, <2>1 DEF TypeOK
  <2>4. ASSUME NEW q \in Keys, NEW d \in Callers
        PROVE  (inflight'[q] = d) <=> Leading(d, q)'
    BY <1>t, <2>1, <2>2 DEF FlightsOwned, Leading
  <2>5. ASSUME NEW d \in Callers, pc'[d] = "follow"
        PROVE  inflight'[key'[d]] \in Callers \ spoiled'
    <3>1. pc[d] = "follow" /\ key'[d] = key[d] /\ key[d] # key[c] /\ key[d] \in Keys
      BY <1>t, <2>1, <2>2, <2>5 DEF TypeOK
    <3>2. inflight[key[d]] \in Callers \ spoiled /\ inflight[key[c]] \in Callers
      BY <1>t, <2>1, <3>1 DEF FlightsOwned
    <3>3. inflight[key[d]] # inflight[key[c]]
      BY <1>t, <2>3, <3>1, <3>2 DEF FlightsOwned, Leading
    <3> QED BY <2>1, <3>1, <3>2, <3>3
  <2> QED BY <2>4, <2>5 DEF FlightsOwned
<1>6. ASSUME NEW c \in Callers,
             \/ \E ts \in WriteSets : BeginWrite(c, ts)
             \/ WriteCommits(c) \/ WriteFails(c) \/ Invalidate(c) \/ AbandonWrite(c)
      PROVE  FlightsOwned'
  <2>1. pc[c] \notin Resolving \cup {"follow"} /\ UNCHANGED <<flights, key>>
    BY <1>6 DEF BeginWrite, WriteCommits, WriteFails, Invalidate, AbandonWrite
  <2>2. \E s \in {"idle", "write", "written", "drop", "clear"} : pc' = [pc EXCEPT ![c] = s]
    BY <1>6 DEF BeginWrite, WriteCommits, WriteFails, Invalidate, AbandonWrite
  <2> QED BY <2>1, <2>2, BystanderFlights
<1>7. ASSUME NEW c \in Callers, L2Drop(c) \/ L2Clear(c) \/ L2DropFails(c) PROVE FlightsOwned'
  <2>1. /\ pc[c] \notin Resolving \cup {"follow"} /\ UNCHANGED <<flights, key>>
        /\ \E ts : Settle(c, ts)
    BY <1>7 DEF L2Drop, L2Clear, L2DropFails
  <2>2. pc' = pc \/ pc' = [pc EXCEPT ![c] = "idle"]
    BY <2>1 DEF Settle
  <2>3. CASE pc' = pc
    BY <1>t, <2>1, <2>3 DEF FlightsOwned, Leading, flights
  <2>4. CASE pc' = [pc EXCEPT ![c] = "idle"]
    BY <2>1, <2>4, BystanderFlights
  <2> QED BY <2>2, <2>3, <2>4
<1>8. CASE Restart
  BY <1>t, <1>8 DEF Restart, FlightsOwned, Leading
<1>9. ASSUME UNCHANGED <<flights, pc, key>> PROVE FlightsOwned'
  BY <1>t, <1>9 DEF FlightsOwned, Leading, flights
<1>10. \/ \E ts \in orphanWrites : OrphanCommits(ts)
       \/ \E j \in jobs : Persist(j)
       \/ \E k \in Keys : Evict(k)
       \/ UNCHANGED vars
       => UNCHANGED <<flights, pc, key>>
  BY DEF OrphanCommits, Persist, Evict, vars, tasks
<1> QED
  BY <1>1, <1>2, <1>3, <1>4, <1>5, <1>6, <1>7, <1>8, <1>9, <1>10 DEF Next, Progress

\* One leader per key, no registration that outlives an error or a cancellation, and
\* a live leader for every follower: get_or_execute() and its `finally`, for every
\* number of callers and statements.
THEOREM OneLeaderPerKey == Spec => []FlightsOwned
<1>1. FlightsInv /\ [Next]_vars => FlightsInv'
  BY TypeStep, FlightsStep DEF FlightsInv
<1>2. FlightsInv => FlightsOwned
  BY DEF FlightsInv
<1> QED BY <1>1, <1>2, InitInv, PTL DEF Spec

----------------------------------------------------------------------------
(* Nothing stale without an explanation *)

\* Staleness is about the versions, the statement and the result's own versions.
LEMMA SameStale ==
  ASSUME UNCHANGED ver, NEW k, NEW r
  PROVE  Stale(k, r)' <=> Stale(k, r)
BY DEF Stale

\* A cached result becomes stale only by a write of a table it was computed from.
LEMMA CommitStale ==
  ASSUME CacheAssumption, NEW ts \in SUBSET Tables, Commit(ts), NEW k \in Keys, NEW r,
         Stale(k, r)'
  PROVE  Stale(k, r) \/ Touches(k, ts)
<1>1. Reads[k] \subseteq Tables
  BY DEF CacheAssumption
<1>2. PICK t \in Reads[k] : r.seen[t] < ver'[t]
  BY DEF Stale
<1>3. ver'[t] = IF t \in ts THEN ver[t] + 1 ELSE ver[t]
  BY <1>1 DEF Commit
<1> QED BY <1>2, <1>3 DEF Stale, Touches

\* More unsettled tables explain more.
LEMMA TouchesMore ==
  ASSUME NEW k, NEW A, NEW B, A \subseteq B, Touches(k, A)
  PROVE  Touches(k, B)
BY DEF Touches

\* Steps of get_or_execute() and of its cancellation.
Reading(c) ==
  \/ \E k \in Keys : ReadLeads(c, k) \/ ReadFollows(c, k)
  \/ L2Lookup(c) \/ L2Hit(c) \/ L2Miss(c) \/ Execute(c) \/ Executed(c)
  \/ ReadFails(c) \/ CancelLeader(c) \/ CancelFollower(c)

\* A reader commits, settles and announces nothing.
LEMMA ReadersFrame ==
  ASSUME TypeOK, NEW c \in Callers, Reading(c)
  PROVE  /\ UNCHANGED <<ver, l2, tables, unannounced>>
         /\ Unsettled' = Unsettled /\ Written' = Written
<1>1. UNCHANGED <<ver, l2, tables, unannounced>>
  BY DEF Reading, ReadLeads, ReadFollows, L2Lookup, L2Hit, L2Miss, Execute, Executed, ReadFails,
         CancelLeader, CancelFollower, Conclude, warehouse, caches, tasks, history
<1>2. \A d \in Callers : pc'[d] # pc[d] =>
        pc'[d] \notin {"written", "drop", "clear"} /\ pc[d] \notin {"written", "drop", "clear"}
  <2>1. CASE \/ \E k \in Keys : ReadLeads(c, k) \/ ReadFollows(c, k)
             \/ L2Lookup(c) \/ L2Miss(c) \/ Execute(c)
    BY <2>1 DEF ReadLeads, ReadFollows, L2Lookup, L2Miss, Execute, Goto, TypeOK
  <2>2. CASE L2Hit(c) \/ Executed(c) \/ ReadFails(c) \/ CancelLeader(c)
    BY <2>2 DEF L2Hit, Executed, ReadFails, CancelLeader, Conclude, TypeOK
  <2>3. CASE CancelFollower(c)
    BY <2>3 DEF CancelFollower, TypeOK
  <2> QED BY <2>1, <2>2, <2>3 DEF Reading
<1> QED BY <1>1, <1>2 DEF Unsettled, Written

\* What a leader puts into L1 and submits to L2 is explained.
LEMMA HandExplained ==
  ASSUME FreshInv, NEW c \in Callers, pc[c] \in {"l2got", "execd"}, value[c] \in Result,
         value[c] # None \/ pc[c] = "execd"
  PROVE  Stale(key[c], InHand(c)) =>
           InHand(c).overlapped \/ (pc[c] = "l2got" /\ Touches(key[c], unannounced))
<1>1. InHand(c).seen = value[c].seen
      /\ InHand(c).overlapped =
           (Stale(key[c], value[c]) /\ (value[c].overlapped \/ c \in overlap))
  BY InHandResult DEF FreshInv
<1>2. Stale(key[c], InHand(c)) <=> Stale(key[c], value[c])
  BY <1>1 DEF Stale
<1>3. Stale(key[c], value[c]) =>
        value[c].overlapped \/ c \in overlap
        \/ (pc[c] = "l2got" /\ Touches(key[c], unannounced))
  BY DEF FreshInv, ValuesExplained
<1> QED BY <1>1, <1>2, <1>3

\* A lookup that ends takes its own mark away and nobody else's.
LEMMA ConcludeLookups ==
  ASSUME FreshInv, NEW c \in Callers, Conclude(c), Unsettled' = Unsettled,
         UNCHANGED <<ver, unannounced>>
  PROVE  LookupsMarked' /\ ValuesExplained'
<1>1. /\ \A d \in Callers : pc'[d] \in Resolving => pc'[d] = pc[d] /\ key'[d] = key[d] /\ d # c
      /\ \A d \in Callers : d # c => value'[d] = value[d]
      /\ overlap' = overlap \ {c}
  BY DEF Conclude, FreshInv, TypeOK
<1>2. LookupsMarked'
  BY <1>1 DEF FreshInv, LookupsMarked, Touches
<1>3. ValuesExplained'
  BY <1>1 DEF FreshInv, ValuesExplained, Touches, Stale
<1> QED BY <1>2, <1>3

\* A step that starts, ends and answers no lookup.
LEMMA SteadyLookups ==
  ASSUME FreshInv, UNCHANGED <<ver, key, value>>, overlap \subseteq overlap',
         \A d \in Callers : pc'[d] \in Resolving => pc'[d] = pc[d],
         Unsettled' \subseteq Unsettled, unannounced \subseteq unannounced'
  PROVE  LookupsMarked' /\ ValuesExplained'
<1>1. LookupsMarked'
  BY DEF FreshInv, LookupsMarked, Touches
<1>2. ValuesExplained'
  BY DEF FreshInv, ValuesExplained, Touches, Stale
<1> QED BY <1>1, <1>2

\* A step that changes no cache and explains no less.
LEMMA SteadyCaches ==
  ASSUME FreshInv, UNCHANGED <<ver, l1, l2, tableKeys, jobs>>,
         Unsettled \cup unannounced \subseteq Unsettled' \cup unannounced',
         Written \cup unannounced \subseteq Written' \cup unannounced'
  PROVE  Indexed' /\ JobsExplained' /\ L1Explained' /\ L2Explained'
<1>1. Indexed'
  BY DEF FreshInv, Indexed
<1>2. JobsExplained'
  BY DEF FreshInv, JobsExplained, Stale
<1>3. L1Explained'
  BY DEF FreshInv, L1Explained, Stale, Touches
<1>4. L2Explained'
  BY DEF FreshInv, L2Explained, Stale, Touches
<1> QED BY <1>1, <1>2, <1>3, <1>4

\* A reader's step that puts nothing into a cache.
LEMMA ReadersCaches ==
  ASSUME FreshInv, NEW c \in Callers, Reading(c), UNCHANGED <<l1, tableKeys, jobs>>
  PROVE  Indexed' /\ JobsExplained' /\ L1Explained' /\ L2Explained'
BY ReadersFrame, SteadyCaches DEF FreshInv

\* The steps of get_or_execute() and _resolve(), and a reader's cancellation.
LEMMA ReadersFresh ==
  ASSUME FreshInv, NEW c \in Callers, Reading(c)
  PROVE  /\ Indexed' /\ LookupsMarked' /\ ValuesExplained'
         /\ JobsExplained' /\ L1Explained' /\ L2Explained'
<1>t. TypeOK
  BY DEF FreshInv
<1>f. /\ UNCHANGED <<ver, l2, tables, unannounced>>
      /\ Unsettled' = Unsettled /\ Written' = Written
  BY <1>t, ReadersFrame
<1>q. \A k \in Keys : Reads[k] \subseteq Tables /\ Tags[k] \subseteq Tables
  BY CacheAssumption DEF CacheAssumption
<1> USE DEF Goto, caches, flights, history, warehouse
<1>1. ASSUME NEW k \in Keys, ReadLeads(c, k)
      PROVE  LookupsMarked' /\ ValuesExplained' /\ UNCHANGED <<l1, tableKeys, jobs>>
  <2>1. /\ pc' = [pc EXCEPT ![c] = "l2"] /\ key' = [key EXCEPT ![c] = k] /\ value' = value
        /\ overlap' = IF Touches(k, Unsettled) THEN overlap \cup {c} ELSE overlap
        /\ UNCHANGED <<l1, tableKeys, jobs>>
    BY <1>1 DEF ReadLeads, Touches
  <2>2. LookupsMarked'
    BY <1>t, <1>f, <2>1 DEF FreshInv, LookupsMarked, TypeOK, Touches
  <2>3. ValuesExplained'
    BY <1>t, <1>f, <2>1 DEF FreshInv, ValuesExplained, TypeOK, Touches, Stale
  <2> QED BY <2>1, <2>2, <2>3
<1>2. ASSUME NEW k \in Keys, ReadFollows(c, k)
      PROVE  LookupsMarked' /\ ValuesExplained' /\ UNCHANGED <<l1, tableKeys, jobs>>
  <2>1. /\ pc' = [pc EXCEPT ![c] = "follow"] /\ key' = [key EXCEPT ![c] = k]
        /\ UNCHANGED <<l1, tableKeys, jobs, overlap, value>>
    BY <1>2 DEF ReadFollows
  <2>2. LookupsMarked'
    BY <1>t, <1>f, <2>1 DEF FreshInv, LookupsMarked, TypeOK, Touches
  <2>3. ValuesExplained'
    BY <1>t, <1>f, <2>1 DEF FreshInv, ValuesExplained, TypeOK, Touches, Stale
  <2> QED BY <2>1, <2>2, <2>3
<1>3. ASSUME L2Lookup(c)
      PROVE  LookupsMarked' /\ ValuesExplained' /\ UNCHANGED <<l1, tableKeys, jobs>>
  <2>1. PICK r \in {l2[key[c]], None} : value' = [value EXCEPT ![c] = r]
    BY <1>3 DEF L2Lookup
  <2>2. /\ pc' = [pc EXCEPT ![c] = "l2got"] /\ pc[c] = "l2"
        /\ UNCHANGED <<l1, tableKeys, jobs, overlap, key>>
    BY <1>3 DEF L2Lookup
  <2>3. LookupsMarked'
    BY <1>t, <1>f, <2>2 DEF FreshInv, LookupsMarked, TypeOK, Touches
  <2>4. key[c] \in Keys
    BY <1>t, <2>2 DEF TypeOK
  <2>5. r # None /\ Stale(key[c], r) =>
          r.overlapped \/ c \in overlap \/ Touches(key[c], unannounced)
    <3>1. SUFFICES ASSUME r # None, Stale(key[c], r), ~r.overlapped
                   PROVE  c \in overlap \/ Touches(key[c], unannounced)
      OBVIOUS
    <3>2. Touches(key[c], Unsettled \cup unannounced)
      BY <2>1, <2>4, <3>1 DEF FreshInv, L2Explained
    <3> QED BY <2>2, <3>2 DEF FreshInv, LookupsMarked, Touches
  <2>6. ASSUME NEW d \in Callers, d # c
        PROVE  pc'[d] = pc[d] /\ key'[d] = key[d] /\ value'[d] = value[d]
    BY <1>t, <2>1, <2>2, <2>6 DEF TypeOK
  <2>7. pc'[c] = "l2got" /\ value'[c] = r /\ key'[c] = key[c]
    BY <1>t, <2>1, <2>2 DEF TypeOK
  <2>8. ValuesExplained'
    BY <1>f, <2>2, <2>5, <2>6, <2>7 DEF FreshInv, ValuesExplained, Touches, Stale
  <2> QED BY <2>2, <2>3, <2>8
<1>4. ASSUME L2Miss(c)
      PROVE  LookupsMarked' /\ ValuesExplained' /\ UNCHANGED <<l1, tableKeys, jobs>>
  <2>1. /\ pc' = [pc EXCEPT ![c] = "exec"] /\ pc[c] = "l2got"
        /\ UNCHANGED <<l1, tableKeys, jobs, overlap, value, key>>
    BY <1>4 DEF L2Miss
  <2>2. LookupsMarked'
    BY <1>t, <1>f, <2>1 DEF FreshInv, LookupsMarked, TypeOK, Touches
  <2>3. ValuesExplained'
    BY <1>t, <1>f, <2>1 DEF FreshInv, ValuesExplained, TypeOK, Touches, Stale
  <2> QED BY <2>1, <2>2, <2>3
<1>5. ASSUME Execute(c)
      PROVE  LookupsMarked' /\ ValuesExplained' /\ UNCHANGED <<l1, tableKeys, jobs>>
  <2> DEFINE r == [seen |-> Query(key[c]), overlapped |-> FALSE]
  <2>1. /\ pc' = [pc EXCEPT ![c] = "execd"] /\ pc[c] = "exec"
        /\ value' = [value EXCEPT ![c] = r]
        /\ UNCHANGED <<l1, tableKeys, jobs, overlap, key>>
    BY <1>5 DEF Execute
  <2>2. LookupsMarked'
    BY <1>t, <1>f, <2>1 DEF FreshInv, LookupsMarked, TypeOK, Touches
  <2>3. ~Stale(key[c], r)
    BY <1>t, <2>1, QueryResult, CacheAssumption DEF TypeOK
  <2> HIDE DEF r
  <2>4. ASSUME NEW d \in Callers, d # c
        PROVE  pc'[d] = pc[d] /\ key'[d] = key[d] /\ value'[d] = value[d]
    BY <1>t, <2>1, <2>4 DEF TypeOK
  <2>5. pc'[c] = "execd" /\ value'[c] = r /\ key'[c] = key[c]
    BY <1>t, <2>1 DEF TypeOK
  <2>6. ValuesExplained'
    BY <1>f, <2>1, <2>3, <2>4, <2>5 DEF FreshInv, ValuesExplained, Touches, Stale
  <2> QED BY <2>1, <2>2, <2>6
<1>6. ASSUME L2Hit(c) \/ Executed(c)
      PROVE  /\ Indexed' /\ LookupsMarked' /\ ValuesExplained'
             /\ JobsExplained' /\ L1Explained' /\ L2Explained'
  <2> DEFINE k == key[c]  r == InHand(c)
  <2>1. /\ k \in Keys /\ value[c] \in Result /\ pc[c] \in {"l2got", "execd"}
        /\ value[c] # None \/ pc[c] = "execd"
        /\ Conclude(c) /\ Fill(k, r)
    BY <1>t, <1>6 DEF L2Hit, Executed, TypeOK
  <2>2. Stale(k, r) => r.overlapped \/ (pc[c] = "l2got" /\ Touches(k, unannounced))
    BY <2>1, HandExplained
  <2>3. LookupsMarked' /\ ValuesExplained'
    BY <1>f, <2>1, ConcludeLookups
  <2>4. pc[c] = "l2got" => jobs' = jobs
    BY <1>6 DEF L2Hit, Executed
  <2>5. pc[c] = "execd" => Submit(k, r)
    BY <1>6 DEF L2Hit, Executed
  <2> HIDE DEF k, r
  <2>6. /\ l1' = [l1 EXCEPT ![k] = r]
        /\ tableKeys' = [t \in Tables |-> IF t \in Tags[k] THEN tableKeys[t] \cup {k}
                                                          ELSE tableKeys[t]]
    BY <2>1 DEF Fill
  <2>7. Indexed'
    BY <1>t, <1>q, <2>1, <2>6 DEF FreshInv, Indexed, TypeOK
  <2>8. JobsExplained'
    <3>1. jobs' \subseteq jobs \cup {[key |-> k, result |-> r]}
      BY <2>1, <2>4, <2>5 DEF Submit
    <3>2. pc[c] = "l2got" \/ (Stale(k, r) => r.overlapped)
      BY <2>1, <2>2
    <3> QED BY <1>f, <2>4, <3>1, <3>2 DEF FreshInv, JobsExplained, Stale
  <2>9. L1Explained'
    BY <1>t, <1>f, <2>2, <2>6 DEF FreshInv, L1Explained, TypeOK, Stale, Touches
  <2>10. L2Explained'
    BY <1>f DEF FreshInv, L2Explained, Stale, Touches
  <2> QED BY <2>3, <2>7, <2>8, <2>9, <2>10
<1>7. ASSUME ReadFails(c) \/ CancelLeader(c)
      PROVE  LookupsMarked' /\ ValuesExplained' /\ UNCHANGED <<l1, tableKeys, jobs>>
  BY <1>f, <1>7, ConcludeLookups DEF ReadFails, CancelLeader
<1>8. ASSUME CancelFollower(c)
      PROVE  LookupsMarked' /\ ValuesExplained' /\ UNCHANGED <<l1, tableKeys, jobs>>
  <2>1. /\ \A d \in Callers : pc'[d] \in Resolving => pc'[d] = pc[d] /\ key'[d] = key[d]
        /\ UNCHANGED <<l1, tableKeys, jobs, overlap, value>>
    BY <1>t, <1>8 DEF CancelFollower, TypeOK
  <2>2. LookupsMarked'
    BY <1>f, <2>1 DEF FreshInv, LookupsMarked, Touches
  <2>3. ValuesExplained'
    BY <1>f, <2>1 DEF FreshInv, ValuesExplained, Touches, Stale
  <2> QED BY <2>1, <2>2, <2>3
<1>9. CASE \/ \E k \in Keys : ReadLeads(c, k) \/ ReadFollows(c, k)
           \/ L2Lookup(c) \/ L2Miss(c) \/ Execute(c)
           \/ ReadFails(c) \/ CancelLeader(c) \/ CancelFollower(c)
  <2>1. LookupsMarked' /\ ValuesExplained' /\ UNCHANGED <<l1, tableKeys, jobs>>
    BY <1>1, <1>2, <1>3, <1>4, <1>5, <1>7, <1>8, <1>9
  <2> QED BY <2>1, ReadersCaches
<1> QED BY <1>6, <1>9 DEF Reading

\* A statement that commits makes stale only what it overtakes or leaves unsettled.
LEMMA CommitFresh ==
  ASSUME FreshInv, NEW ts \in SUBSET Tables, Commit(ts), Overtaken(ts),
         UNCHANGED <<l1, l2, tableKeys, key, value>>,
         \A d \in Callers : pc'[d] \in Resolving => pc'[d] = pc[d],
         Unsettled' \subseteq Unsettled \cup ts, unannounced \subseteq unannounced',
         Unsettled \cup unannounced \cup ts \subseteq Unsettled' \cup unannounced',
         Written \cup unannounced \cup ts \subseteq Written' \cup unannounced'
  PROVE  /\ Indexed' /\ LookupsMarked' /\ ValuesExplained'
         /\ JobsExplained' /\ L1Explained' /\ L2Explained'
<1>t. TypeOK
  BY DEF FreshInv
<1>s. \A k \in Keys : \A r : Stale(k, r)' => Stale(k, r) \/ Touches(k, ts)
  BY CommitStale, CacheAssumption
<1>o. \A c \in Callers : pc[c] \in Resolving /\ Touches(key[c], ts) => c \in overlap'
  BY DEF Overtaken
<1>p. overlap \subseteq overlap'
  BY DEF Overtaken
<1>1. Indexed'
  BY DEF FreshInv, Indexed
<1>2. LookupsMarked'
  BY <1>o, <1>p DEF FreshInv, LookupsMarked, Touches
<1>3. ValuesExplained'
  <2> SUFFICES ASSUME NEW c \in Callers, pc'[c] \in {"l2got", "execd"},
                      pc'[c] = "execd" \/ value[c] # None, Stale(key[c], value[c])'
               PROVE  \/ value[c].overlapped \/ c \in overlap'
                      \/ (pc'[c] = "l2got" /\ Touches(key[c], unannounced'))
    BY DEF ValuesExplained, Touches
  <2>1. pc[c] = pc'[c] /\ key[c] \in Keys
    BY <1>t DEF TypeOK
  <2>2. Stale(key[c], value[c]) \/ Touches(key[c], ts)
    BY <2>1, <1>s DEF Stale
  <2>3. CASE Touches(key[c], ts)
    BY <2>1, <2>3, <1>o
  <2>4. CASE Stale(key[c], value[c])
    BY <2>1, <2>4, <1>p DEF FreshInv, ValuesExplained, Touches
  <2> QED BY <2>2, <2>3, <2>4
<1>4. JobsExplained'
  <2>1. \A j \in jobs' : (j \in jobs /\ ~Touches(j.key, ts)) \/ j.result.overlapped
    BY <1>t, OvertakenJobs
  <2>2. \A j \in jobs : j.key \in Keys
    BY <1>t DEF TypeOK
  <2>3. \A j \in jobs' : Stale(j.key, j.result)' => j.result.overlapped
    BY <1>s, <2>1, <2>2 DEF FreshInv, JobsExplained
  <2> QED BY <2>3 DEF JobsExplained, Stale
<1>5. L1Explained'
  <2>1. \A k \in {q \in Keys : Reads[q] \subseteq Tags[q]} :
          l1[k] # None /\ Stale(k, l1[k])' =>
            l1[k].overlapped \/ Touches(k, Written \cup unannounced \cup ts)
    <3> SUFFICES ASSUME NEW k \in Keys, Reads[k] \subseteq Tags[k], l1[k] # None,
                        Stale(k, l1[k])'
                 PROVE  l1[k].overlapped \/ Touches(k, Written \cup unannounced \cup ts)
      OBVIOUS
    <3>1. Stale(k, l1[k]) \/ Touches(k, ts)
      BY <1>s DEF Stale
    <3> QED BY <3>1 DEF FreshInv, L1Explained, Touches
  <2> QED BY <2>1, TouchesMore DEF L1Explained, Stale, Touches
<1>6. L2Explained'
  <2>1. ASSUME NEW k \in Keys, l2[k] # None, Stale(k, l2[k])'
        PROVE  l2[k].overlapped \/ Touches(k, Unsettled \cup unannounced \cup ts)
    <3>1. Stale(k, l2[k]) \/ Touches(k, ts)
      BY <1>s, <2>1 DEF Stale
    <3> QED BY <2>1, <3>1 DEF FreshInv, L2Explained, Touches
  <2> QED BY <2>1, TouchesMore DEF L2Explained, Stale, Touches
<1> QED BY <1>1, <1>2, <1>3, <1>4, <1>5, <1>6

\* A writer's step up to its commit and past it, and the commit of a statement whose
\* task is gone.
LEMMA CommitsFresh ==
  ASSUME FreshInv,
         \/ \E c \in Callers : WriteCommits(c)
         \/ \E ts \in orphanWrites : OrphanCommits(ts)
  PROVE  /\ Indexed' /\ LookupsMarked' /\ ValuesExplained'
         /\ JobsExplained' /\ L1Explained' /\ L2Explained'
<1>t. TypeOK
  BY DEF FreshInv
<1>1. ASSUME NEW c \in Callers, WriteCommits(c)
      PROVE  /\ Indexed' /\ LookupsMarked' /\ ValuesExplained'
             /\ JobsExplained' /\ L1Explained' /\ L2Explained'
  <2>1. /\ pc[c] = "write" /\ pc' = [pc EXCEPT ![c] = "written"]
        /\ UNCHANGED <<l1, l2, tableKeys, key, value, tables, unannounced>>
        /\ Commit(tables[c]) /\ Overtaken(tables[c])
    BY <1>1 DEF WriteCommits, Goto
  <2>2. /\ tables[c] \in SUBSET Tables
        /\ \A d \in Callers : pc'[d] = IF d = c THEN "written" ELSE pc[d]
    BY <1>t, <2>1 DEF TypeOK
  <2>3. Unsettled' = Unsettled \cup tables[c] /\ Written' = Written \cup tables[c]
    BY <2>1, <2>2 DEF Unsettled, Written
  <2> QED BY <2>1, <2>2, <2>3, CommitFresh
<1>2. ASSUME NEW ts \in orphanWrites, OrphanCommits(ts)
      PROVE  /\ Indexed' /\ LookupsMarked' /\ ValuesExplained'
             /\ JobsExplained' /\ L1Explained' /\ L2Explained'
  <2>1. /\ UNCHANGED <<l1, l2, tableKeys, key, value, tables, pc>>
        /\ unannounced' = unannounced \cup ts /\ Commit(ts) /\ Overtaken(ts)
        /\ ts \in SUBSET Tables
    BY <1>t, <1>2 DEF OrphanCommits, TypeOK, tasks
  <2>2. Unsettled' = Unsettled /\ Written' = Written
    BY <2>1 DEF Unsettled, Written
  <2> QED BY <2>1, <2>2, CommitFresh
<1> QED BY <1>1, <1>2

\* Invalidation takes from L1 every well-tagged statement that reads a table of the
\* write, through the index or by clearing it all.
LEMMA InvalidateFresh ==
  ASSUME FreshInv, NEW c \in Callers, Invalidate(c)
  PROVE  /\ Indexed' /\ LookupsMarked' /\ ValuesExplained'
         /\ JobsExplained' /\ L1Explained' /\ L2Explained'
<1> DEFINE ts == tables[c]
<1>t. TypeOK /\ ts \subseteq Tables
  BY DEF FreshInv, TypeOK
<1>q. \A k \in Keys : Reads[k] \subseteq Tables /\ Tags[k] \subseteq Tables
  BY CacheAssumption DEF CacheAssumption
<1>1. /\ pc[c] = "written" /\ unannounced' = unannounced \ ts
      /\ UNCHANGED <<ver, l2, jobs, key, value, tables, overlap>>
  BY DEF Invalidate, warehouse, flights
<1>2. /\ \A d \in Callers : d # c => pc'[d] = pc[d]
      /\ pc'[c] \in {"drop", "clear"}
  BY <1>t DEF Invalidate, Goto, TypeOK
<1>3. ts \subseteq Unsettled /\ Unsettled' = Unsettled
      /\ Written \subseteq Written' \cup ts /\ Written' \subseteq Written
  BY <1>1, <1>2 DEF Unsettled, Written
<1>4. \/ /\ tableKeys' = [t \in Tables |-> IF t \in ts THEN {} ELSE tableKeys[t]]
         /\ l1' = [k \in Keys |-> IF k \in Listed(ts) THEN None ELSE l1[k]]
      \/ /\ tableKeys' = [t \in Tables |-> {}]
         /\ l1' = [k \in Keys |-> None]
  BY DEF Invalidate
<1> HIDE DEF ts
<1>5. \A k \in Keys : l1'[k] # None => l1'[k] = l1[k] /\ Tags[k] \cap ts = {}
  BY <1>t, <1>q, <1>4 DEF FreshInv, Indexed, Listed
<1>6. Indexed'
  <2>1. \A k \in Keys : l1'[k] # None =>
          \A t \in Tags[k] : tableKeys'[t] = tableKeys[t] /\ k \in tableKeys[t]
    BY <1>q, <1>4, <1>5 DEF FreshInv, Indexed
  <2> QED BY <2>1 DEF Indexed
<1>7. LookupsMarked'
  BY <1>1, <1>2, <1>3 DEF FreshInv, LookupsMarked, Touches
<1>8. ValuesExplained'
  <2> SUFFICES ASSUME NEW d \in Callers, pc'[d] \in {"l2got", "execd"},
                      pc'[d] = "execd" \/ value[d] # None, Stale(key[d], value[d])
               PROVE  \/ value[d].overlapped \/ d \in overlap
                      \/ (pc'[d] = "l2got" /\ Touches(key[d], unannounced'))
    BY <1>1 DEF ValuesExplained, Touches, Stale
  <2>1. pc[d] = pc'[d]
    BY <1>2
  <2>2. \/ value[d].overlapped \/ d \in overlap
        \/ (pc[d] = "l2got" /\ Touches(key[d], unannounced))
    BY <2>1 DEF FreshInv, ValuesExplained
  <2>3. ASSUME Touches(key[d], ts) PROVE d \in overlap
    BY <1>3, <2>1, <2>3 DEF FreshInv, LookupsMarked, Touches
  <2>4. Touches(key[d], unannounced) => Touches(key[d], ts) \/ Touches(key[d], unannounced')
    BY <1>1 DEF Touches
  <2> QED BY <2>1, <2>2, <2>3, <2>4
<1>9. JobsExplained'
  BY <1>1 DEF FreshInv, JobsExplained, Stale
<1>10. L1Explained'
  <2> SUFFICES ASSUME NEW k \in Keys, Reads[k] \subseteq Tags[k], l1'[k] # None,
                      Stale(k, l1'[k])
               PROVE  l1'[k].overlapped \/ Touches(k, Written' \cup unannounced')
    BY <1>1 DEF L1Explained, Stale, Touches
  <2>1. l1'[k] = l1[k] /\ Reads[k] \cap ts = {}
    BY <1>5
  <2>2. l1[k].overlapped \/ Touches(k, Written \cup unannounced)
    BY <2>1 DEF FreshInv, L1Explained
  <2>3. Touches(k, Written \cup unannounced) => Touches(k, Written' \cup unannounced')
    BY <1>1, <1>3, <2>1 DEF Touches
  <2> QED BY <2>1, <2>2, <2>3
<1>11. L2Explained'
  <2>1. Unsettled \cup unannounced \subseteq Unsettled' \cup unannounced'
    BY <1>1, <1>3
  <2> QED BY <1>1, <2>1 DEF FreshInv, L2Explained, Stale, Touches
<1> QED BY <1>6, <1>7, <1>8, <1>9, <1>10, <1>11

\* A settled table leaves the writer's set.
LEMMA SettleFrame ==
  ASSUME TypeOK, NEW c \in Callers, NEW ts, Settle(c, ts), pc[c] \in {"drop", "clear"}
  PROVE  /\ \A d \in Callers : pc'[d] \in Resolving => pc'[d] = pc[d]
         /\ Unsettled' \subseteq Unsettled /\ Unsettled \subseteq Unsettled' \cup ts
         /\ Written' = Written
<1>1. /\ \A d \in Callers : d # c => pc'[d] = pc[d] /\ tables'[d] = tables[d]
      /\ tables'[c] = tables[c] \ ts
      /\ pc'[c] = IF tables[c] \subseteq ts THEN "idle" ELSE pc[c]
  BY DEF Settle, Goto, TypeOK
<1>2. Written' = Written
  BY <1>1 DEF Written
<1>3. Unsettled' \subseteq Unsettled
  BY <1>1 DEF Unsettled
<1>4. Unsettled \subseteq Unsettled' \cup ts
  BY <1>1 DEF Unsettled
<1> QED BY <1>1, <1>2, <1>3, <1>4

\* Deleting the rows of a table, or all of them, from L2.
LEMMA DropFresh ==
  ASSUME FreshInv, NEW c \in Callers, L2Drop(c) \/ L2Clear(c) \/ L2DropFails(c)
  PROVE  /\ Indexed' /\ LookupsMarked' /\ ValuesExplained'
         /\ JobsExplained' /\ L1Explained' /\ L2Explained'
<1>t. TypeOK
  BY DEF FreshInv
<1>1. PICK ts :
        /\ Settle(c, ts)
        /\ unannounced' \in {unannounced, unannounced \cup ts}
        /\ \/ l2' = l2 /\ unannounced' = unannounced \cup ts
           \/ \A k \in Keys : l2'[k] = None \/ (l2'[k] = l2[k] /\ ~Touches(k, ts))
  <2>1. CASE L2Drop(c)
    <3>1. PICK t \in tables[c] : /\ l2' = [k \in Keys |-> IF t \in Reads[k] THEN None ELSE l2[k]]
                                 /\ Settle(c, {t})
      BY <2>1 DEF L2Drop
    <3>2. \A k \in Keys : l2'[k] = None \/ (l2'[k] = l2[k] /\ ~Touches(k, {t}))
      BY <3>1 DEF Touches
    <3> QED BY <2>1, <3>1, <3>2 DEF L2Drop, history
  <2>2. CASE L2Clear(c)
    BY <2>2 DEF L2Clear, history
  <2>3. CASE L2DropFails(c)
    BY <2>3 DEF L2DropFails, caches
  <2> QED BY <2>1, <2>2, <2>3
<1>2. /\ pc[c] \in {"drop", "clear"}
      /\ UNCHANGED <<ver, l1, tableKeys, jobs, key, value, overlap>>
  BY DEF L2Drop, L2Clear, L2DropFails, warehouse, caches, history
<1>3. /\ \A d \in Callers : pc'[d] \in Resolving => pc'[d] = pc[d]
      /\ Unsettled' \subseteq Unsettled /\ Unsettled \subseteq Unsettled' \cup ts
      /\ Written' = Written
  BY <1>t, <1>1, <1>2, SettleFrame
<1>4. LookupsMarked' /\ ValuesExplained'
  BY <1>1, <1>2, <1>3, SteadyLookups
<1>5. Indexed'
  BY <1>2 DEF FreshInv, Indexed
<1>6. JobsExplained'
  BY <1>2 DEF FreshInv, JobsExplained, Stale
<1>7. L1Explained'
  BY <1>1, <1>2, <1>3 DEF FreshInv, L1Explained, Stale, Touches
<1>8. L2Explained'
  <2> SUFFICES ASSUME NEW k \in Keys, l2'[k] # None, Stale(k, l2'[k])
               PROVE  l2'[k].overlapped \/ Touches(k, Unsettled' \cup unannounced')
    BY <1>2 DEF L2Explained, Stale, Touches
  <2>1. l2'[k] = l2[k] /\ (unannounced' = unannounced \cup ts \/ ~Touches(k, ts))
    BY <1>1
  <2>2. l2[k].overlapped \/ Touches(k, Unsettled \cup unannounced)
    BY <2>1 DEF FreshInv, L2Explained
  <2>3. Touches(k, Unsettled \cup unannounced) => Touches(k, Unsettled' \cup unannounced')
    BY <1>1, <1>3, <2>1 DEF Touches
  <2> QED BY <2>1, <2>2, <2>3
<1> QED BY <1>4, <1>5, <1>6, <1>7, <1>8

\* The other steps of a writer touch no cache and forget no unsettled table.
LEMMA WritersFresh ==
  ASSUME FreshInv, NEW c \in Callers,
         \/ \E ts \in WriteSets : BeginWrite(c, ts)
         \/ WriteFails(c) \/ AbandonWrite(c)
  PROVE  /\ Indexed' /\ LookupsMarked' /\ ValuesExplained'
         /\ JobsExplained' /\ L1Explained' /\ L2Explained'
<1>t. TypeOK
  BY DEF FreshInv
<1>1. /\ \A d \in Callers : d # c => pc'[d] = pc[d] /\ tables'[d] = tables[d]
      /\ pc'[c] \in {"idle", "write"} /\ pc[c] \in {"idle", "write", "written", "drop", "clear"}
      /\ UNCHANGED <<ver, l1, l2, tableKeys, jobs, key, value, overlap>>
  BY <1>t DEF BeginWrite, WriteFails, AbandonWrite, Goto, TypeOK, warehouse, caches, history
<1>2. unannounced \subseteq unannounced'
  BY DEF BeginWrite, WriteFails, AbandonWrite, history
<1>3. pc[c] \in {"written", "drop", "clear"} => tables[c] \subseteq unannounced'
  BY DEF BeginWrite, WriteFails, AbandonWrite
<1>4. Unsettled' \subseteq Unsettled /\ Unsettled \subseteq Unsettled' \cup unannounced'
  BY <1>1, <1>3 DEF Unsettled
<1>5. Written \subseteq Written' \cup unannounced'
  BY <1>1, <1>3 DEF Written
<1>6. LookupsMarked' /\ ValuesExplained'
  BY <1>1, <1>2, <1>4, SteadyLookups
<1>7. Indexed' /\ JobsExplained' /\ L1Explained' /\ L2Explained'
  BY <1>1, <1>2, <1>4, <1>5, SteadyCaches
<1> QED BY <1>6, <1>7

\* An L2 write may land at any time, also after the invalidation it raced with.
LEMMA PersistFresh ==
  ASSUME FreshInv, NEW j \in jobs, Persist(j)
  PROVE  /\ Indexed' /\ LookupsMarked' /\ ValuesExplained'
         /\ JobsExplained' /\ L1Explained' /\ L2Explained'
<1>t. TypeOK
  BY DEF FreshInv
<1>1. /\ jobs' \subseteq jobs /\ j.key \in Keys
      /\ UNCHANGED <<ver, l1, tableKeys, pc, key, value, tables, overlap, unannounced>>
      /\ \A k \in Keys : l2'[k] = l2[k] \/ (k = j.key /\ l2'[k] = j.result)
  BY <1>t DEF Persist, CacheResult, TypeOK, warehouse, tasks, history
<1>2. Unsettled' = Unsettled /\ Written' = Written
  BY <1>1 DEF Unsettled, Written
<1>3. LookupsMarked' /\ ValuesExplained'
  BY <1>1, <1>2, SteadyLookups
<1>4. Indexed'
  BY <1>1 DEF FreshInv, Indexed
<1>5. JobsExplained'
  BY <1>1 DEF FreshInv, JobsExplained, Stale
<1>6. L1Explained'
  BY <1>1, <1>2 DEF FreshInv, L1Explained, Stale, Touches
<1>7. L2Explained'
  BY <1>1, <1>2 DEF FreshInv, L2Explained, JobsExplained, Stale, Touches
<1> QED BY <1>3, <1>4, <1>5, <1>6, <1>7

\* Eviction, a restart and a stutter.
LEMMA EnvironmentFresh ==
  ASSUME FreshInv, (\E k \in Keys : Evict(k)) \/ Restart \/ UNCHANGED vars
  PROVE  /\ Indexed' /\ LookupsMarked' /\ ValuesExplained'
         /\ JobsExplained' /\ L1Explained' /\ L2Explained'
<1>t. TypeOK
  BY DEF FreshInv
<1>1. CASE Restart
  <2>1. /\ \A c \in Callers : pc'[c] = "idle"
        /\ \A k \in Keys : l1'[k] = None
        /\ jobs' = {} /\ UNCHANGED <<ver, l2>> /\ unannounced' = unannounced \cup Unsettled
    BY <1>1 DEF Restart
  <2>2. Indexed' /\ LookupsMarked' /\ ValuesExplained' /\ JobsExplained' /\ L1Explained'
    BY <2>1 DEF Indexed, LookupsMarked, ValuesExplained, JobsExplained, L1Explained
  <2>3. L2Explained'
    BY <2>1 DEF FreshInv, L2Explained, Stale, Touches
  <2> QED BY <2>2, <2>3
<1>2. CASE (\E k \in Keys : Evict(k)) \/ UNCHANGED vars
  <2>1. /\ UNCHANGED <<ver, l2, tableKeys, jobs, pc, key, value, tables, overlap, unannounced>>
        /\ \A k \in Keys : l1'[k] = None \/ l1'[k] = l1[k]
    BY <1>t, <1>2 DEF Evict, vars, warehouse, caches, tasks, history, TypeOK
  <2>2. Unsettled' = Unsettled /\ Written' = Written
    BY <2>1 DEF Unsettled, Written
  <2>3. LookupsMarked' /\ ValuesExplained'
    BY <2>1, <2>2, SteadyLookups
  <2>4. Indexed'
    BY <2>1 DEF FreshInv, Indexed
  <2>5. JobsExplained'
    BY <2>1 DEF FreshInv, JobsExplained, Stale
  <2>6. L1Explained'
    BY <2>1, <2>2 DEF FreshInv, L1Explained, Stale, Touches
  <2>7. L2Explained'
    BY <2>1, <2>2 DEF FreshInv, L2Explained, Stale, Touches
  <2> QED BY <2>3, <2>4, <2>5, <2>6, <2>7
<1> QED BY <1>1, <1>2

\* Every step keeps every stale result explained, where it is.
LEMMA FreshStep == FlightsInv /\ FreshInv /\ [Next]_vars => FreshInv'
<1> SUFFICES ASSUME FlightsInv, FreshInv, [Next]_vars PROVE FreshInv'
  OBVIOUS
<1>1. TypeOK'
  BY TypeStep
<1>2. /\ Indexed' /\ LookupsMarked' /\ ValuesExplained'
      /\ JobsExplained' /\ L1Explained' /\ L2Explained'
  <2>1. ASSUME NEW c \in Callers, Progress(c)
        PROVE  \/ Reading(c) \/ WriteCommits(c) \/ WriteFails(c) \/ Invalidate(c)
               \/ L2Drop(c) \/ L2Clear(c) \/ L2DropFails(c)
    BY <2>1 DEF Progress, Reading
  <2>2. \/ \E c \in Callers :
             \/ Reading(c) \/ Invalidate(c)
             \/ (\E ts \in WriteSets : BeginWrite(c, ts)) \/ WriteFails(c) \/ AbandonWrite(c)
             \/ L2Drop(c) \/ L2Clear(c) \/ L2DropFails(c)
        \/ (\E c \in Callers : WriteCommits(c)) \/ (\E ts \in orphanWrites : OrphanCommits(ts))
        \/ \E j \in jobs : Persist(j)
        \/ (\E k \in Keys : Evict(k)) \/ Restart \/ UNCHANGED vars
    BY <2>1 DEF Next, Reading
  <2> QED BY <2>2, ReadersFresh, InvalidateFresh, WritersFresh, DropFresh, CommitsFresh,
             PersistFresh, EnvironmentFresh
<1> QED BY <1>1, <1>2 DEF FreshInv

\* Whatever the interleaving of lookups, writes, cancellations, L2 writes and
\* restarts, L1 and L2 hold nothing stale that an unfinished or abandoned
\* invalidation, or a lookup overlapping the write, does not explain
\* (invalidate_tables(), _invalidate_after_write()).
THEOREM StaleIsExplained == Spec => []NoUnexplainedStale
<1>1. FlightsInv /\ FreshInv /\ [Next]_vars => FlightsInv' /\ FreshInv'
  BY TypeStep, FlightsStep, FreshStep DEF FlightsInv
<1>2. FreshInv => NoUnexplainedStale
  <2> SUFFICES ASSUME FreshInv, NEW k \in Keys, Reads[k] \subseteq Tags[k],
                      NEW r \in {l1[k], l2[k]} \ {None}, Stale(k, r)
               PROVE  r.overlapped \/ Touches(k, Unsettled \cup unannounced)
    BY DEF NoUnexplainedStale
  <2>1. CASE r = l1[k]
    <3>1. Written \subseteq Unsettled
      BY DEF Written, Unsettled
    <3> QED BY <2>1, <3>1 DEF FreshInv, L1Explained, Touches
  <2>2. CASE r = l2[k]
    BY <2>2 DEF FreshInv, L2Explained
  <2> QED BY <2>1, <2>2
<1> QED BY <1>1, <1>2, InitInv, PTL DEF Spec
=============================================================================
