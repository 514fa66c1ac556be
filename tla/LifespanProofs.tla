---------------------------- MODULE LifespanProofs ----------------------------
(***************************************************************************)
(* The life cycle of the server, for any number of records, jobs, calls,   *)
(* worker tasks and threads: no record is written twice or disappears, and *)
(* shutdown leaves the queues drained and the background quiet.            *)
(***************************************************************************)
EXTENDS Lifespan, FiniteSetTheorems, SequenceTheorems, TLAPS

----------------------------------------------------------------------------
(* Sequences that hold each element once *)

\* A sequence without repetitions has as many elements as its length.
LEMMA HeldOnceLength ==
  ASSUME NEW S, NEW s \in Seq(S), IsInjective(s)
  PROVE  IsFiniteSet(ToSet(s)) /\ Cardinality(ToSet(s)) = Len(s)
<1>1. s \in [1..Len(s) -> S] /\ DOMAIN s = 1..Len(s) /\ Len(s) \in Nat
  BY LenProperties
<1>2. s \in Bijection(1..Len(s), ToSet(s))
  BY <1>1 DEF Bijection, Injection, Surjection, IsInjective, ToSet
<1>3. ExistsBijection(1..Len(s), ToSet(s))
  BY <1>2 DEF ExistsBijection
<1>4. IsFiniteSet(1..Len(s)) /\ Cardinality(1..Len(s)) = Len(s)
  <2>1. /\ IsFiniteSet(1..Len(s))
        /\ Cardinality(1..Len(s)) = IF 1 > Len(s) THEN 0 ELSE Len(s) - 1 + 1
    BY ONLY <1>1, 1 \in Int, Len(s) \in Int, FS_Interval
  <2> QED BY <1>1, <2>1
<1> QED BY <1>3, <1>4, FS_Bijection

\* Appending a new element.
LEMMA AppendOnce ==
  ASSUME NEW S, NEW s \in Seq(S), NEW e \in S
  PROVE  /\ Append(s, e) \in Seq(S)
         /\ ToSet(Append(s, e)) = ToSet(s) \cup {e}
         /\ IsInjective(s) /\ e \notin ToSet(s) => IsInjective(Append(s, e))
<1>1. /\ Append(s, e) \in Seq(S) /\ Len(Append(s, e)) = Len(s) + 1 /\ Len(s) \in Nat
      /\ \A i \in 1..Len(s) : Append(s, e)[i] = s[i]
      /\ Append(s, e)[Len(s) + 1] = e
  BY AppendProperties, LenProperties
<1>2. DOMAIN s = 1..Len(s) /\ DOMAIN Append(s, e) = 1..(Len(s) + 1)
  BY <1>1, LenProperties
<1>3. ToSet(Append(s, e)) \subseteq ToSet(s) \cup {e}
  BY <1>1, <1>2 DEF ToSet
<1>4. ToSet(s) \cup {e} \subseteq ToSet(Append(s, e))
  <2>1. e \in ToSet(Append(s, e))
    BY <1>1, <1>2 DEF ToSet
  <2>2. ASSUME NEW i \in 1..Len(s) PROVE s[i] \in ToSet(Append(s, e))
    BY <1>1, <1>2, i \in 1..(Len(s) + 1) DEF ToSet
  <2> QED BY <2>1, <2>2, <1>2 DEF ToSet
<1>5. ASSUME IsInjective(s), e \notin ToSet(s) PROVE IsInjective(Append(s, e))
  <2> SUFFICES ASSUME NEW i \in 1..(Len(s) + 1), NEW j \in 1..(Len(s) + 1),
                      Append(s, e)[i] = Append(s, e)[j]
               PROVE  i = j
    BY <1>2 DEF IsInjective
  <2>1. \A k \in 1..Len(s) : s[k] # e
    BY <1>2, <1>5 DEF ToSet
  <2>2. CASE i \in 1..Len(s) /\ j \in 1..Len(s)
    BY <1>1, <1>2, <1>5, <2>2 DEF IsInjective
  <2>3. CASE i = Len(s) + 1 \/ j = Len(s) + 1
    BY <1>1, <2>1, <2>3
  <2> QED BY <1>1, <2>2, <2>3
<1> QED BY <1>1, <1>3, <1>4, <1>5

\* Taking the first element.
LEMMA TakeOnce ==
  ASSUME NEW S, NEW s \in Seq(S), s # <<>>, IsInjective(s)
  PROVE  /\ Head(s) \in S /\ Head(s) \in ToSet(s) /\ Tail(s) \in Seq(S)
         /\ ToSet(Tail(s)) = ToSet(s) \ {Head(s)}
         /\ IsInjective(Tail(s))
<1>1. /\ Len(s) \in Nat \ {0} /\ DOMAIN s = 1..Len(s)
      /\ Head(s) = s[1] /\ Head(s) \in S /\ Tail(s) \in Seq(S)
      /\ Len(Tail(s)) = Len(s) - 1 /\ DOMAIN Tail(s) = 1..(Len(s) - 1)
  BY LenProperties, EmptySeq, HeadTailProperties
<1>2. \A i \in 1..(Len(s) - 1) : Tail(s)[i] = s[i + 1]
  BY <1>1, HeadTailProperties
<1>3. \A i, j \in 1..Len(s) : s[i] = s[j] => i = j
  BY <1>1 DEF IsInjective
<1>4. IsInjective(Tail(s))
  <2> SUFFICES ASSUME NEW i \in 1..(Len(s) - 1), NEW j \in 1..(Len(s) - 1),
                      Tail(s)[i] = Tail(s)[j]
               PROVE  i = j
    BY <1>1 DEF IsInjective
  <2> QED BY <1>1, <1>2, <1>3
<1>5. ToSet(Tail(s)) \subseteq ToSet(s) \ {Head(s)}
  <2> SUFFICES ASSUME NEW i \in 1..(Len(s) - 1)
               PROVE  Tail(s)[i] \in ToSet(s) \ {Head(s)}
    BY <1>1 DEF ToSet
  <2>1. i + 1 \in 1..Len(s) /\ i + 1 # 1 /\ 1 \in 1..Len(s)
    BY <1>1
  <2> QED BY <1>1, <1>2, <1>3, <2>1 DEF ToSet
<1>6. ToSet(s) \ {Head(s)} \subseteq ToSet(Tail(s))
  <2> SUFFICES ASSUME NEW i \in 1..Len(s), s[i] # s[1]
               PROVE  s[i] \in ToSet(Tail(s))
    BY <1>1 DEF ToSet
  <2>1. i - 1 \in 1..(Len(s) - 1) /\ Tail(s)[i - 1] = s[i]
    BY <1>1, <1>2
  <2> QED BY <1>1, <2>1 DEF ToSet
<1>7. Head(s) \in ToSet(s)
  BY <1>1 DEF ToSet
<1> QED BY <1>1, <1>4, <1>5, <1>6, <1>7
----------------------------------------------------------------------------
(* What a step does to the write queue *)

\* Flushing, a request's record only while the server serves, and stop() only when it stops.
QueueStep ==
  \/ StartFlusher \/ (phase = "serving" /\ Emit) \/ FlusherStep
  \/ (phase = "stopping" /\ UNCHANGED phase /\ StopFlusher)
  \/ UNCHANGED queueVars

\* Every step of the process is one of the write queue, or leaves it alone.
LEMMA QueueSteps == [LifeNext]_serverVars => QueueStep
<1> SUFFICES ASSUME [LifeNext]_serverVars PROVE QueueStep
  OBVIOUS
<1>1. CASE Startup
  BY <1>1 DEF Startup, StartPerformance, StartWarehouse, StartExecutors, StartServiceDb,
              StartPersistence, Serve, QueueStep
<1>2. CASE StepFails
  BY <1>2 DEF StepFails, QueueStep
<1>3. CASE RequestRecorded
  BY <1>3 DEF RequestRecorded, QueueStep
<1>4. ASSUME NEW j \in Jobs, ResultPersisted(j) PROVE QueueStep
  BY <1>4 DEF ResultPersisted, QueueStep
<1>5. ASSUME NEW c \in RequestCalls, RequestCall(c) PROVE QueueStep
  BY <1>5 DEF RequestCall, QueueStep
<1>6. CASE SamplerCrashes
  BY <1>6 DEF SamplerCrashes, QueueStep
<1>7. ASSUME NEW w \in Consumers, Work(w) PROVE QueueStep
  BY <1>7 DEF Work, QueueStep
<1>8. ASSUME NEW c \in Calls, Thread(c) PROVE QueueStep
  BY <1>8 DEF Thread, QueueStep
<1>9. CASE FlushStep
  BY <1>9 DEF FlushStep, QueueStep
<1>10. CASE BeginShutdown
  BY <1>10 DEF BeginShutdown, QueueStep
<1>11. CASE Shutdown
  <2>1. ASSUME NEW i \in 1..3, ShutPool(i) PROVE QueueStep
    BY <2>1 DEF ShutPool, QueueStep
  <2>2. CASE StopFlushing
    BY <2>2 DEF StopFlushing, Closing, lifeVars, QueueStep
  <2> QED BY <1>11, <2>1, <2>2 DEF Shutdown, ClosePersistence, ClosePersistenceSync,
                 Disconnect, CloseExecutors, CloseWarehouse, ClosePerformance, EndShutdown,
                 QueueStep
<1>12. CASE UNCHANGED serverVars
  BY <1>12 DEF serverVars, QueueStep
<1> QED BY <1>1, <1>2, <1>3, <1>4, <1>5, <1>6, <1>7, <1>8, <1>9, <1>10, <1>11, <1>12
        DEF LifeNext

----------------------------------------------------------------------------
(* The records *)

\* Records that are in no place yet may be counted: their numbers come next.
LEMMA EmittedFinite ==
  ASSUME QueueTypeOK
  PROVE  /\ Emitted \subseteq Records /\ IsFiniteSet(Emitted) /\ Cardinality(Emitted) \in Nat
         /\ IsFiniteSet(written) /\ Cardinality(written) \in Nat
         /\ IsFiniteSet(lost) /\ Cardinality(lost) \in Nat
<1>1. \A s \in Seq(Records) : ToSet(s) \subseteq Records
  BY LenProperties DEF ToSet
<1>2. Emitted \subseteq Records
  BY <1>1 DEF QueueTypeOK, Emitted, Flushers
<1>3. IsFiniteSet(Records)
  <2>1. MaxRecords \in Int /\ 1 \in Int
    BY WriteQueueAssumption DEF WriteQueueAssumption
  <2> QED BY ONLY <2>1, FS_Interval DEF Records
<1>4. \A S \in SUBSET Records : IsFiniteSet(S)
  BY <1>3, FS_Subset
<1>5. IsFiniteSet(Emitted) /\ IsFiniteSet(written) /\ IsFiniteSet(lost)
  BY <1>2, <1>4 DEF QueueTypeOK
<1> QED BY <1>2, <1>5, FS_CardinalityType

\* Nothing is in the write queue before startup.
LEMMA RecordsStart == QueueInit => RecordsInv
<1> SUFFICES ASSUME QueueInit PROVE RecordsInv
  OBVIOUS
<1>1. QueueTypeOK
  BY EmptySeq DEF QueueInit, QueueTypeOK, Flushers
<1>2. ToSet(<<>>) = {} /\ IsInjective(<<>>)
  BY DEF ToSet, IsInjective
<1>3. Emitted = {} /\ HeldOnce /\ PlacesApart
  BY <1>2 DEF QueueInit, Emitted, HeldOnce, PlacesApart, Flushers
<1>4. Cardinality({}) = 0
  BY FS_EmptySet
<1> QED BY <1>1, <1>3, <1>4 DEF RecordsInv, Numbered
\* A request adds the next number.
LEMMA RecordsEmit == RecordsInv /\ Emit => RecordsInv'
<1> SUFFICES ASSUME RecordsInv, Emit PROVE RecordsInv'
  OBVIOUS
<1> DEFINE n == Cardinality(Emitted)
<1>0. /\ QueueTypeOK /\ HeldOnce /\ PlacesApart /\ Emitted = 1..n
      /\ UNCHANGED <<stopSet, flusher, batch, written, lost>>
  BY DEF RecordsInv, Numbered, Emit
<1>1. n \in Nat /\ IsFiniteSet(Emitted) /\ n + 1 \in Records /\ n + 1 \notin Emitted
  BY <1>0, EmittedFinite, WriteQueueAssumption DEF WriteQueueAssumption, Emit, Records
<1>2. /\ records' \in Seq(Records) /\ IsInjective(records')
      /\ ToSet(records') = ToSet(records) \cup {n + 1}
  <2>1. records \in Seq(Records) /\ IsInjective(records) /\ n + 1 \notin ToSet(records)
    BY <1>0, <1>1 DEF QueueTypeOK, HeldOnce, Emitted
  <2>2. records' = Append(records, n + 1)
    BY DEF Emit
  <2> QED BY ONLY <1>1, <2>1, <2>2, AppendOnce
<1>3. QueueTypeOK' /\ HeldOnce'
  BY <1>0, <1>2 DEF QueueTypeOK, HeldOnce
<1>4. PlacesApart'
  <2>1. /\ \A g \in Flushers : n + 1 \notin ToSet(batch[g])
        /\ n + 1 \notin written \cup lost
    BY <1>1 DEF Emitted, Flushers
  <2>2. PlacesApart /\ batch' = batch /\ written' = written /\ lost' = lost
    BY <1>0
  <2> HIDE DEF n
  <2> QED BY ONLY <1>2, <2>1, <2>2 DEF PlacesApart
<1>5. Emitted' = Emitted \cup {n + 1}
  BY <1>0, <1>2 DEF Emitted
<1>6. Cardinality(Emitted') = n + 1
  BY <1>1, <1>5, FS_AddElement
<1>7. Numbered'
  BY <1>0, <1>1, <1>5, <1>6 DEF Numbered
<1> QED BY <1>3, <1>4, <1>7 DEF RecordsInv

\* A drain moves the oldest record into its batch.
LEMMA RecordsTaken ==
  ASSUME RecordsInv, NEW f \in Flushers, TakeRecord(f)
  PROVE  RecordsInv'
<1> DEFINE r == Head(records)
<1>0. /\ QueueTypeOK /\ HeldOnce /\ PlacesApart /\ Numbered
      /\ UNCHANGED <<stopSet, flusher, written, lost>>
      /\ batch \in [Flushers -> Seq(Records)]
  BY DEF RecordsInv, TakeRecord, QueueTypeOK
<1>1. /\ r \in Records /\ r \in ToSet(records) /\ records' \in Seq(Records)
      /\ ToSet(records') = ToSet(records) \ {r} /\ IsInjective(records')
  <2>1. records \in Seq(Records) /\ records # <<>> /\ IsInjective(records)
    BY <1>0 DEF QueueTypeOK, HeldOnce, TakeRecord
  <2>2. records' = Tail(records)
    BY DEF TakeRecord
  <2> QED BY ONLY <2>1, <2>2, TakeOnce
<1>2. batch' = [batch EXCEPT ![f] = Append(batch[f], r)]
  BY DEF TakeRecord
<1>3. batch'[f] = Append(batch[f], r) /\ \A g \in Flushers \ {f} : batch'[g] = batch[g]
  BY <1>0, <1>2
<1>4. /\ batch'[f] \in Seq(Records) /\ IsInjective(batch'[f])
      /\ ToSet(batch'[f]) = ToSet(batch[f]) \cup {r}
  <2>1. batch[f] \in Seq(Records) /\ IsInjective(batch[f]) /\ r \notin ToSet(batch[f])
    BY <1>0, <1>1 DEF HeldOnce, PlacesApart, Flushers
  <2> QED BY ONLY <1>1, <1>3, <2>1, AppendOnce
<1>5. QueueTypeOK'
  <2>1. batch' \in [Flushers -> Seq(Records)]
    BY <1>0, <1>2, <1>3, <1>4
  <2> QED BY <1>0, <1>1, <2>1 DEF QueueTypeOK
<1>6. HeldOnce'
  BY <1>0, <1>1, <1>3, <1>4 DEF HeldOnce
<1>7. PlacesApart'
  <2>1. \A g \in Flushers :
          ToSet(batch'[g]) = IF g = f THEN ToSet(batch[g]) \cup {r} ELSE ToSet(batch[g])
    BY <1>3, <1>4
  <2>2. PlacesApart /\ written' = written /\ lost' = lost
    BY <1>0
  <2>3. r \notin written \cup lost /\ \A g \in Flushers : r \notin ToSet(batch[g])
    BY <1>1, <2>2 DEF PlacesApart
  <2> HIDE DEF r
  <2>4. ASSUME NEW g \in Flushers
        PROVE  ToSet(batch'[g]) \cap (ToSet(records') \cup written' \cup lost') = {}
    <3>1. ToSet(batch[g]) \cap (ToSet(records) \cup written \cup lost) = {}
      BY <2>2 DEF PlacesApart
    <3> QED BY ONLY <1>1, <2>1, <2>2, <2>3, <3>1, g \in Flushers
  <2>5. ASSUME NEW g \in Flushers, NEW h \in Flushers, g # h
        PROVE  ToSet(batch'[g]) \cap ToSet(batch'[h]) = {}
    <3>1. ToSet(batch[g]) \cap ToSet(batch[h]) = {}
      BY <2>2, <2>5 DEF PlacesApart
    <3> QED BY ONLY <2>1, <2>3, <2>5, <3>1
  <2>6. ToSet(records') \cap (written' \cup lost') = {} /\ written' \cap lost' = {}
    BY <1>1, <2>2 DEF PlacesApart
  <2> QED BY <2>4, <2>5, <2>6 DEF PlacesApart
<1>8. Emitted' = Emitted
  <2> HIDE DEF r
  <2>1. CASE f = "thread"
    <3>1. /\ ToSet(batch'["thread"]) = ToSet(batch["thread"]) \cup {r}
          /\ ToSet(batch'["stop"]) = ToSet(batch["stop"])
      BY <1>3, <1>4, <2>1 DEF Flushers
    <3> QED BY <1>0, <1>1, <3>1 DEF Emitted
  <2>2. CASE f = "stop"
    <3>1. /\ ToSet(batch'["stop"]) = ToSet(batch["stop"]) \cup {r}
          /\ ToSet(batch'["thread"]) = ToSet(batch["thread"])
      BY <1>3, <1>4, <2>2 DEF Flushers
    <3> QED BY <1>0, <1>1, <3>1 DEF Emitted
  <2> QED BY <2>1, <2>2 DEF Flushers
<1>9. Numbered'
  BY <1>0, <1>8 DEF Numbered
<1> QED BY <1>5, <1>6, <1>7, <1>9 DEF RecordsInv

\* A transaction that commits or fails settles each record of its batch one way.
LEMMA RecordsFlushed ==
  ASSUME RecordsInv, NEW f \in Flushers, Flush(f)
  PROVE  RecordsInv'
<1>0. /\ QueueTypeOK /\ HeldOnce /\ PlacesApart /\ Numbered
      /\ UNCHANGED <<records, stopSet>>
      /\ batch \in [Flushers -> Seq(Records)]
  BY DEF RecordsInv, Flush, QueueTypeOK
<1>1. ToSet(<<>>) = {} /\ IsInjective(<<>>) /\ <<>> \in Seq(Records)
  BY EmptySeq DEF ToSet, IsInjective
<1>2. PICK leaves :
        /\ written' = written \cup {r \in ToSet(batch[f]) : leaves[r]}
        /\ lost' = lost \cup {r \in ToSet(batch[f]) : ~leaves[r]}
  BY DEF Flush
<1>3. /\ batch' \in [Flushers -> Seq(Records)]
      /\ batch'[f] = <<>> /\ \A g \in Flushers \ {f} : batch'[g] = batch[g]
  BY <1>0, <1>1 DEF Flush
<1>4. ToSet(batch[f]) \subseteq Records
  BY <1>0, LenProperties DEF ToSet
<1>5. QueueTypeOK'
  <2>1. flusher' \in [Flushers -> {"off", "check", "sleep", "join", "drain", "flush", "done"}]
    BY <1>0 DEF Flush, Goto, Resume, QueueTypeOK
  <2>2. written' \subseteq Records /\ lost' \subseteq Records
    BY <1>0, <1>2, <1>4 DEF QueueTypeOK
  <2> QED BY <1>0, <1>3, <2>1, <2>2 DEF QueueTypeOK
<1>6. HeldOnce'
  BY <1>0, <1>1, <1>3 DEF HeldOnce
<1>6a. /\ written' \cup lost' = written \cup lost \cup ToSet(batch[f])
       /\ \A r \in written' \cap lost' : r \in ToSet(batch[f]) /\ r \in written \cup lost
  BY <1>0, <1>2 DEF PlacesApart
<1>6b. \A g \in Flushers : ToSet(batch'[g]) = IF g = f THEN {} ELSE ToSet(batch[g])
  BY <1>1, <1>3
<1>7. PlacesApart'
  <2>1. /\ \A g \in Flushers : ToSet(batch'[g]) \cap (ToSet(records') \cup written' \cup lost') = {}
        /\ ToSet(records') \cap (written' \cup lost') = {}
    <3>1. PlacesApart /\ records' = records
      BY <1>0
    <3>2. \A g \in Flushers \ {f} : ToSet(batch[g]) \cap ToSet(batch[f]) = {}
      BY <3>1 DEF PlacesApart
    <3>3. /\ \A g \in Flushers : ToSet(batch[g]) \cap (ToSet(records) \cup written \cup lost) = {}
          /\ ToSet(records) \cap (written \cup lost) = {}
      BY <3>1 DEF PlacesApart
    <3> QED BY ONLY <1>6a, <1>6b, <3>1, <3>2, <3>3, f \in Flushers
  <2>2. written' \cap lost' = {}
    BY <1>0, <1>6a DEF PlacesApart
  <2>3. \A g, h \in Flushers : g # h => ToSet(batch'[g]) \cap ToSet(batch'[h]) = {}
    BY <1>0, <1>6b DEF PlacesApart
  <2> QED BY <2>1, <2>2, <2>3 DEF PlacesApart
<1>8. Emitted' = Emitted
  <2>0. records' = records
    BY <1>0
  <2>1. CASE f = "thread"
    <3>1. ToSet(batch'["thread"]) = {} /\ ToSet(batch'["stop"]) = ToSet(batch["stop"])
      BY <1>6b, <2>1 DEF Flushers
    <3> QED BY ONLY <1>6a, <2>0, <2>1, <3>1 DEF Emitted
  <2>2. CASE f = "stop"
    <3>1. ToSet(batch'["stop"]) = {} /\ ToSet(batch'["thread"]) = ToSet(batch["thread"])
      BY <1>6b, <2>2 DEF Flushers
    <3> QED BY ONLY <1>6a, <2>0, <2>2, <3>1 DEF Emitted
  <2> QED BY <2>1, <2>2 DEF Flushers
<1>9. Numbered'
  BY <1>0, <1>8 DEF Numbered
<1> QED BY <1>5, <1>6, <1>7, <1>9 DEF RecordsInv

\* The other steps only move the threads.
LEMMA RecordsKept ==
  ASSUME RecordsInv, UNCHANGED <<records, batch, written, lost>>, QueueTypeOK'
  PROVE  RecordsInv'
BY DEF RecordsInv, HeldOnce, PlacesApart, Numbered, Emitted

\* enqueue(), the flusher and stop() keep each record in one place
\* (write_queue.py).
LEMMA RecordsStep == RecordsInv /\ QueueStep => RecordsInv'
<1> SUFFICES ASSUME RecordsInv, QueueStep PROVE RecordsInv'
  OBVIOUS
<1>0. QueueTypeOK
  BY DEF RecordsInv
<1>1. ASSUME UNCHANGED <<records, batch, written, lost>>, stopSet' \in BOOLEAN,
             NEW f \in Flushers, NEW s \in {"check", "sleep", "join", "drain", "flush", "done"},
             Goto(f, s)
      PROVE  RecordsInv'
  <2>1. QueueTypeOK'
    BY <1>0, <1>1 DEF Goto, QueueTypeOK
  <2> QED BY <1>1, <2>1, RecordsKept
<1>a. CASE StartFlusher \/ StopFlusher \/ CheckStop \/ Wake \/ JoinReturns
  <2>1. stopSet' \in BOOLEAN
    BY <1>0, <1>a DEF StartFlusher, StopFlusher, CheckStop, Wake, JoinReturns, QueueTypeOK
  <2>2. UNCHANGED <<records, batch, written, lost>>
    BY <1>a DEF StartFlusher, StopFlusher, CheckStop, Wake, JoinReturns
  <2>3. \/ \E s \in {"check", "sleep", "drain", "done"} : Goto("thread", s)
        \/ \E s \in {"join", "drain"} : Goto("stop", s)
    BY <1>a DEF StartFlusher, StopFlusher, CheckStop, Wake, JoinReturns
  <2> QED BY <1>1, <2>1, <2>2, <2>3 DEF Flushers
<1>e. ASSUME NEW f \in Flushers, EndDrain(f) PROVE RecordsInv'
  <2>1. /\ UNCHANGED <<records, batch, written, lost>> /\ stopSet' \in BOOLEAN
        /\ \E s \in {"check", "done", "flush"} : Goto(f, s)
    BY <1>0, <1>e DEF EndDrain, Resume, QueueTypeOK
  <2> QED BY <1>1, <2>1
<1>2. CASE Emit
  BY <1>2, RecordsEmit
<1>3. ASSUME NEW f \in Flushers, TakeRecord(f) \/ Flush(f) PROVE RecordsInv'
  BY <1>3, RecordsTaken, RecordsFlushed
<1>4. CASE UNCHANGED queueVars
  BY <1>0, <1>4, RecordsKept DEF queueVars, QueueTypeOK
<1> QED BY <1>a, <1>e, <1>2, <1>3, <1>4 DEF QueueStep, FlusherStep

\* Two drains may run at the same time and either transaction may fail
\* (core/observability/write_queue.py), but a record is in one place only, and is never
\* written twice.
THEOREM EachRecordOnce == LifeSpec => []RecordsOnce
<1>1. LifeInit => RecordsInv
  BY RecordsStart DEF LifeInit
<1>2. RecordsInv /\ [LifeNext]_serverVars => RecordsInv'
  BY QueueSteps, RecordsStep
<1>3. RecordsInv => RecordsOnce
  <2> SUFFICES ASSUME RecordsInv PROVE RecordsOnce
    OBVIOUS
  <2> DEFINE R == ToSet(records)
             T == ToSet(batch["thread"])
             S == ToSet(batch["stop"])
  <2>1. QueueTypeOK /\ HeldOnce /\ PlacesApart
    BY DEF RecordsInv
  <2>2. /\ IsFiniteSet(R) /\ Cardinality(R) = Len(records)
        /\ IsFiniteSet(T) /\ Cardinality(T) = Len(batch["thread"])
        /\ IsFiniteSet(S) /\ Cardinality(S) = Len(batch["stop"])
        /\ Len(records) \in Nat /\ Len(batch["thread"]) \in Nat /\ Len(batch["stop"]) \in Nat
    <3>1. /\ records \in Seq(Records) /\ IsInjective(records)
          /\ batch["thread"] \in Seq(Records) /\ IsInjective(batch["thread"])
          /\ batch["stop"] \in Seq(Records) /\ IsInjective(batch["stop"])
      BY <2>1 DEF QueueTypeOK, HeldOnce, Flushers
    <3> QED BY ONLY <3>1, HeldOnceLength, LenProperties
  <2>3. /\ IsFiniteSet(written) /\ Cardinality(written) \in Nat
        /\ IsFiniteSet(lost) /\ Cardinality(lost) \in Nat
    BY <2>1, EmittedFinite
  <2>4. \A A, B : IsFiniteSet(A) /\ IsFiniteSet(B) /\ A \cap B = {} =>
                    /\ IsFiniteSet(A \cup B)
                    /\ Cardinality(A \cup B) = Cardinality(A) + Cardinality(B)
    <3> SUFFICES ASSUME NEW A, NEW B, IsFiniteSet(A), IsFiniteSet(B), A \cap B = {}
                 PROVE  /\ IsFiniteSet(A \cup B)
                        /\ Cardinality(A \cup B) = Cardinality(A) + Cardinality(B)
      OBVIOUS
    <3>1. /\ IsFiniteSet(A \cup B)
          /\ Cardinality(A \cup B) = Cardinality(A) + Cardinality(B) - Cardinality(A \cap B)
      BY ONLY IsFiniteSet(A), IsFiniteSet(B), FS_Union
    <3>2. Cardinality(A \cap B) = 0 /\ Cardinality(A) \in Nat /\ Cardinality(B) \in Nat
      BY FS_EmptySet, FS_CardinalityType
    <3> QED BY <3>1, <3>2
  <2>5. /\ R \cap T = {} /\ (R \cup T) \cap S = {} /\ (R \cup T \cup S) \cap written = {}
        /\ (R \cup T \cup S \cup written) \cap lost = {}
    BY <2>1 DEF PlacesApart, Flushers
  <2>6. Emitted = R \cup T \cup S \cup written \cup lost
    BY DEF Emitted
  <2> HIDE DEF R, T, S
  <2>7. /\ IsFiniteSet(R \cup T) /\ Cardinality(R \cup T) = Cardinality(R) + Cardinality(T)
    BY <2>2, <2>4, <2>5
  <2>8. /\ IsFiniteSet(R \cup T \cup S)
        /\ Cardinality(R \cup T \cup S) = Cardinality(R \cup T) + Cardinality(S)
    BY <2>2, <2>4, <2>5, <2>7
  <2>9. /\ IsFiniteSet(R \cup T \cup S \cup written)
        /\ Cardinality(R \cup T \cup S \cup written)
             = Cardinality(R \cup T \cup S) + Cardinality(written)
    BY <2>3, <2>4, <2>5, <2>8
  <2>10. Cardinality(Emitted) = Cardinality(R \cup T \cup S \cup written) + Cardinality(lost)
    BY <2>3, <2>4, <2>5, <2>6, <2>9
  <2> QED BY <2>2, <2>3, <2>7, <2>8, <2>9, <2>10 DEF RecordsOnce
<1> QED BY <1>1, <1>2, <1>3, PTL DEF LifeSpec

\* Neither drain of the write queue (core/observability/write_queue.py) forgets a record
\* it has taken, or writes or loses one that is already settled.
THEOREM RecordsAreKept == LifeSpec => RecordsSettle
<1> DEFINE Kept == Emitted \subseteq Emitted' /\ written \subseteq written' /\ lost \subseteq lost'
<1>1. LifeInit => RecordsInv
  BY RecordsStart DEF LifeInit
<1>2. RecordsInv /\ [LifeNext]_serverVars => RecordsInv'
  BY QueueSteps, RecordsStep
<1>3. RecordsInv /\ [LifeNext]_serverVars => [Kept]_serverVars
  <2> SUFFICES ASSUME RecordsInv, QueueStep PROVE Kept
    BY QueueSteps
  <2>1. /\ records \in Seq(Records) /\ batch \in [Flushers -> Seq(Records)]
        /\ "thread" \in Flushers /\ "stop" \in Flushers
    BY DEF RecordsInv, QueueTypeOK, Flushers
  <2>2. CASE UNCHANGED <<records, batch, written, lost>>
    BY <2>2 DEF Emitted
  <2>3. CASE Emit
    <3>1. ToSet(records) \subseteq ToSet(records')
      BY <2>1, <2>3 DEF Emit, ToSet
    <3> QED BY <2>3, <3>1 DEF Emit, Emitted
  <2>4. ASSUME NEW f \in Flushers, TakeRecord(f) PROVE Kept
    <3>1. /\ records # <<>> /\ records' = Tail(records)
          /\ batch' = [batch EXCEPT ![f] = Append(@, Head(records))]
          /\ UNCHANGED <<written, lost>>
      BY <2>4 DEF TakeRecord
    <3>2. IsInjective(records)
      BY DEF RecordsInv, HeldOnce
    <3>3. /\ Head(records) \in Records /\ Head(records) \in ToSet(records)
          /\ ToSet(records') = ToSet(records) \ {Head(records)}
      BY ONLY <2>1, <3>1, <3>2, TakeOnce
    <3>4. batch'[f] = Append(batch[f], Head(records)) /\ batch[f] \in Seq(Records)
      BY <2>1, <3>1
    <3>5. ToSet(batch'[f]) = ToSet(batch[f]) \cup {Head(records)}
      BY ONLY <3>3, <3>4, AppendOnce
    <3>6. \A g \in Flushers \ {f} : batch'[g] = batch[g]
      BY <2>1, <3>1
    <3> QED BY <3>1, <3>3, <3>5, <3>6 DEF Emitted, Flushers
  <2>5. ASSUME NEW f \in Flushers, Flush(f) PROVE Kept
    <3>1. PICK leaves :
            /\ written' = written \cup {r \in ToSet(batch[f]) : leaves[r]}
            /\ lost' = lost \cup {r \in ToSet(batch[f]) : ~leaves[r]}
      BY <2>5 DEF Flush
    <3>2. ToSet(batch[f]) \subseteq written' \cup lost'
      BY <3>1
    <3>3. records' = records /\ \A g \in Flushers \ {f} : batch'[g] = batch[g]
      BY <2>1, <2>5 DEF Flush
    <3> QED BY <3>1, <3>2, <3>3 DEF Emitted, Flushers
  <2>6. \/ UNCHANGED <<records, batch, written, lost>> \/ Emit
        \/ \E f \in Flushers : TakeRecord(f) \/ Flush(f)
    BY DEF QueueStep, FlusherStep, StartFlusher, StopFlusher, CheckStop, Wake, JoinReturns,
           EndDrain, queueVars
  <2> QED BY <2>2, <2>3, <2>4, <2>5, <2>6
<1> QED BY <1>1, <1>2, <1>3, PTL DEF LifeSpec, RecordsSettle

----------------------------------------------------------------------------
(* What a step does to the persistence queue and the executors *)

PersistStep ==
  \/ UNCHANGED <<persistVars, execVars>>
  \/ StartWorkers /\ phase = "starting" /\ UNCHANGED execVars
  \/ phase = "serving" /\ \E j \in Jobs : SubmitJob(j)
  \/ /\ \E c \in RequestCalls : Run(c) \/ RunReturns(c) \/ RunsCancelled({c})
     /\ UNCHANGED persistVars
  \/ \E w \in Consumers : TakeJob(w) \/ JobEnds(w)
  \/ (\E c \in Calls : ThreadStep(c)) /\ UNCHANGED persistVars
  \/ phase = "stopping" /\ (BeginStop \/ Drained \/ DrainTimeout)
  \/ (\E p \in Pools : Shut(p)) /\ UNCHANGED persistVars

\* Every step of the process is one of the persistence queue, or leaves it alone.
LEMMA PersistSteps == [LifeNext]_serverVars => PersistStep
<1> SUFFICES ASSUME [LifeNext]_serverVars PROVE PersistStep
  OBVIOUS
<1>1. CASE Startup
  BY <1>1 DEF Startup, StartPerformance, StartWarehouse, StartExecutors, StartServiceDb,
              StartPersistence, Serve, Starting, PersistStep
<1>2. CASE StepFails
  BY <1>2 DEF StepFails, PersistStep
<1>3. CASE RequestRecorded
  BY <1>3 DEF RequestRecorded, PersistStep
<1>4. ASSUME NEW j \in Jobs, ResultPersisted(j) PROVE PersistStep
  BY <1>4 DEF ResultPersisted, PersistStep
<1>5. ASSUME NEW c \in RequestCalls, RequestCall(c) PROVE PersistStep
  BY <1>5 DEF RequestCall, PersistStep
<1>6. CASE SamplerCrashes
  BY <1>6 DEF SamplerCrashes, PersistStep
<1>7. ASSUME NEW w \in Consumers, Work(w) PROVE PersistStep
  BY <1>7 DEF Work, PersistStep
<1>8. ASSUME NEW c \in Calls, Thread(c) PROVE PersistStep
  BY <1>8 DEF Thread, PersistStep
<1>9. CASE FlushStep
  BY <1>9 DEF FlushStep, PersistStep
<1>10. CASE BeginShutdown
  BY <1>10 DEF BeginShutdown, PersistStep
<1>11. CASE Shutdown
  <2>1. ASSUME NEW i \in 1..3, ShutPool(i) PROVE PersistStep
    <3>1. PoolOrder[i] \in Pools
      BY DEF PoolOrder, Pools
    <3> QED BY <2>1, <3>1 DEF ShutPool, PersistStep
  <2>2. CASE ClosePersistence
    BY <2>2 DEF ClosePersistence, Closing, PersistStep
  <2> QED BY <1>11, <2>1, <2>2 DEF Shutdown, ClosePersistenceSync, StopFlushing,
                 Disconnect, CloseExecutors, CloseWarehouse, ClosePerformance, EndShutdown,
                 PersistStep
<1>12. CASE UNCHANGED serverVars
  BY <1>12 DEF serverVars, PersistStep
<1> QED BY <1>1, <1>2, <1>3, <1>4, <1>5, <1>6, <1>7, <1>8, <1>9, <1>10, <1>11, <1>12
        DEF LifeNext

----------------------------------------------------------------------------
(* What a step does to the life cycle *)

LifeKept ==
  /\ UNCHANGED <<mode, phase, started, closing, exporter, serviceDb>>
  /\ \/ UNCHANGED sampler
     \/ phase \in {"starting", "serving", "stopping"} /\ sampler = "running"
        /\ sampler' = "crashed"
  /\ phase # "stopping" => UNCHANGED accepting

\* One step of startup; the last one starts the workers.
StartsOne ==
  /\ phase = "starting" /\ started < Len(Steps) /\ started' = started + 1
  /\ UNCHANGED <<mode, phase, closing>> /\ serviceDb' \in {serviceDb, "open"}
  /\ IF started' = Len(Steps) THEN accepting' ELSE UNCHANGED accepting

StartupEnds ==
  /\ phase = "starting" /\ phase' \in {"serving", "failed"}
  /\ phase' = "serving" => started = Len(Steps)
  /\ UNCHANGED <<mode, started, closing, accepting>> /\ serviceDb' \in {serviceDb, "none", "open"}

ShutdownBegins ==
  /\ phase = "serving" /\ phase' = "stopping" /\ closing' = started
  /\ UNCHANGED <<mode, started, sampler, exporter, serviceDb>>

\* One step of shutdown, with what it has waited for.
ClosesOne ==
  /\ phase = "stopping" /\ closing > 0 /\ closing' = closing - 1
  /\ UNCHANGED <<mode, phase, started>>
  /\ closing = 5 /\ mode = "async" => stopping \in {"done", "overdue"}
  /\ IF closing = 4 THEN flusher["stop"] = "done" /\ serviceDb' = "closed"
                    ELSE UNCHANGED serviceDb
  /\ closing = 3 => \A p \in Pools : Quiescent(p)
  /\ IF closing = 1 THEN sampler' # "running" /\ exporter' # "running"
                    ELSE UNCHANGED <<sampler, exporter>>

ShutdownEndsOrRaises ==
  /\ phase = "stopping" /\ UNCHANGED <<mode, closing, sampler, exporter, serviceDb>>
  /\ \/ closing = 0 /\ phase' = "stopped" /\ started' = 0
     \/ closing = 1 /\ sampler = "crashed" /\ phase' = "aborted" /\ UNCHANGED started

LifeStep ==
  LifeKept \/ StartsOne \/ StartupEnds \/ ShutdownBegins \/ ClosesOne \/ ShutdownEndsOrRaises

\* The startup steps in the order of build_startup_steps() (lifespan.py).
LEMMA StepOrder ==
  /\ Len(Steps) = 5
  /\ Steps[1] = "performance" /\ Steps[2] = "data_warehouse" /\ Steps[3] = "executors"
  /\ Steps[4] = "service_database" /\ Steps[5] = "persistence_queue"
BY DEF Steps

\* What a step may do to the phases of the process.
LEMMA LifeSteps == PhasesInOrder /\ [LifeNext]_serverVars => LifeStep
<1> SUFFICES ASSUME PhasesInOrder, [LifeNext]_serverVars PROVE LifeStep
  OBVIOUS
<1>s. \A s : Starting(s) => phase = "starting" /\ started < 5 /\ Steps[started + 1] = s
  BY StepOrder DEF Starting
<1>c. /\ Closing("performance") => phase = "stopping" /\ closing = 1
      /\ Closing("data_warehouse") => phase = "stopping" /\ closing = 2
      /\ Closing("executors") => phase = "stopping" /\ closing = 3
      /\ Closing("service_database") => phase = "stopping" /\ closing = 4
      /\ Closing("persistence_queue") => phase = "stopping" /\ closing = 5
  <2>1. closing \in {0, 1, 2, 3, 4, 5}
    BY StepOrder DEF PhasesInOrder
  <2> QED BY <2>1, StepOrder DEF Closing
<1>t. started \in {0, 1, 2, 3, 4, 5}
  BY StepOrder DEF PhasesInOrder
<1>1. CASE Startup
  <2>1. CASE StartPerformance \/ StartWarehouse \/ StartExecutors \/ StartServiceDb
    <3>1. /\ phase = "starting" /\ started < 5 /\ started + 1 # 5
          /\ Started /\ serviceDb' \in {serviceDb, "open"} /\ UNCHANGED accepting
      BY <1>s, <1>t, <2>1, StepOrder DEF StartPerformance, StartWarehouse, StartExecutors,
         StartServiceDb, persistVars, resourceVars
    <3> QED BY <3>1, StepOrder DEF Started, StartsOne, LifeStep
  <2>2. CASE StartPersistence
    <3>1. phase = "starting" /\ started = 4 /\ Started /\ serviceDb' = serviceDb /\ accepting'
      BY <1>s, <1>t, <2>2, StepOrder DEF StartPersistence, StartWorkers, resourceVars
    <3> QED BY <3>1, StepOrder DEF Started, StartsOne, LifeStep
  <2>3. CASE Serve
    BY <2>3 DEF Serve, resourceVars, persistVars, StartupEnds, LifeStep
  <2> QED BY <1>1, <2>1, <2>2, <2>3 DEF Startup
<1>2. CASE StepFails
  <2>1. /\ phase = "starting" /\ phase' = "failed" /\ serviceDb' \in {serviceDb, "none", "open"}
        /\ UNCHANGED <<mode, started, closing, accepting>>
    BY <1>s, <1>2 DEF StepFails, persistVars
  <2> QED BY <2>1 DEF StartupEnds, LifeStep
<1>3. ASSUME UNCHANGED lifeVars, phase # "stopping" => UNCHANGED accepting PROVE LifeStep
  BY <1>3 DEF lifeVars, LifeKept, LifeStep
<1>4. CASE RequestRecorded \/ \E j \in Jobs : ResultPersisted(j)
  BY <1>3, <1>4 DEF RequestRecorded, ResultPersisted, SubmitJob, persistVars
<1>5. CASE \E c \in RequestCalls : RequestCall(c)
  BY <1>3, <1>5 DEF RequestCall, persistVars
<1>6. CASE SamplerCrashes
  BY <1>6 DEF SamplerCrashes, LifeKept, LifeStep, persistVars
<1>7. CASE (\E w \in Consumers : Work(w)) \/ (\E c \in Calls : Thread(c)) \/ FlushStep
  BY <1>3, <1>7 DEF Work, TakeJob, JobEnds, Finish, Thread, FlushStep, persistVars
<1>10. CASE BeginShutdown
  BY <1>10 DEF BeginShutdown, resourceVars, ShutdownBegins, LifeStep
<1>11. CASE Shutdown
  <2>1. CASE ClosePersistence
    <3>1. UNCHANGED lifeVars \/ (stopping \in {"done", "overdue"} /\ Closed
                                 /\ UNCHANGED resourceVars)
      BY <2>1 DEF ClosePersistence
    <3>2. phase = "stopping" /\ closing = 5
      BY <1>c, <2>1 DEF ClosePersistence
    <3> QED BY <1>3, <3>1, <3>2 DEF Closed, resourceVars, ClosesOne, LifeStep
  <2>2. CASE ClosePersistenceSync
    BY <1>c, <2>2 DEF ClosePersistenceSync, Closed, resourceVars, ClosesOne, LifeStep
  <2>3. CASE StopFlushing \/ \E i \in 1..3 : ShutPool(i)
    BY <1>3, <2>3 DEF StopFlushing, ShutPool, persistVars
  <2>4. CASE Disconnect
    BY <1>c, <2>4 DEF Disconnect, Closed, ClosesOne, LifeStep
  <2>5. CASE CloseExecutors
    BY <1>c, <2>5 DEF CloseExecutors, Closed, resourceVars, ClosesOne, LifeStep
  <2>6. CASE CloseWarehouse
    BY <1>c, <2>6 DEF CloseWarehouse, Closed, resourceVars, ClosesOne, LifeStep
  <2>7. CASE ClosePerformance
    <3>1. CASE sampler = "crashed"
      BY <1>c, <2>7, <3>1 DEF ClosePerformance, resourceVars, ShutdownEndsOrRaises, LifeStep
    <3>2. CASE sampler # "crashed"
      BY <1>c, <2>7, <3>2 DEF ClosePerformance, SamplerStops, Closed, ClosesOne, LifeStep
    <3> QED BY <3>1, <3>2
  <2>8. CASE EndShutdown
    BY <2>8 DEF EndShutdown, resourceVars, ShutdownEndsOrRaises, LifeStep
  <2> QED BY <1>11, <2>1, <2>2, <2>3, <2>4, <2>5, <2>6, <2>7, <2>8 DEF Shutdown
<1>12. CASE UNCHANGED serverVars
  BY <1>3, <1>12 DEF serverVars, persistVars
<1> QED BY <1>1, <1>2, <1>4, <1>5, <1>6, <1>7, <1>10, <1>11, <1>12 DEF LifeNext
----------------------------------------------------------------------------
(* The jobs *)

\* Where stop() and the workers stand when a step takes place.
StepContext ==
  /\ phase \in {"starting", "serving"} => stopping = "off"
  /\ phase = "stopping" /\ stopping = "off" => accepting

\* A job is what a worker takes, and only workers take one.
LEMMA JobFacts ==
  /\ Jobs \subseteq Calls /\ Jobs = Of("background")
  /\ RequestCalls \cap Of("background") = {} /\ RequestCalls \subseteq Calls
  /\ "none" \notin Jobs /\ "idle" \notin Jobs /\ Consumers # {}
BY PersistenceAssumption DEF PersistenceAssumption, RequestCalls, Of

\* submit(), the workers and stop() keep the queue's types.
LEMMA PersistTypes ==
  PersistTypeOK /\ PersistStep => PersistTypeOK'
<1> SUFFICES ASSUME PersistTypeOK, PersistStep PROVE PersistTypeOK'
  OBVIOUS
<1> USE JobFacts
<1>1. CASE UNCHANGED <<persistVars, execVars>>
  BY <1>1 DEF PersistTypeOK, persistVars, execVars
<1>2. CASE StartWorkers /\ UNCHANGED execVars
  BY <1>2 DEF PersistTypeOK, StartWorkers, execVars
<1>3. ASSUME NEW j \in Jobs, SubmitJob(j) PROVE PersistTypeOK'
  <2>1. queued' \in Seq(Jobs)
    <3>1. queued' \in {queued, Append(queued, j)} /\ queued \in Seq(Jobs)
      BY <1>3 DEF PersistTypeOK, SubmitJob
    <3> QED BY <3>1, AppendProperties
  <2>2. outcome' \in
          [Jobs -> {"none", "pending", "dropped", "completed", "failed", "cancelled"}]
    BY <1>3 DEF PersistTypeOK, SubmitJob
  <2> QED BY <1>3, <2>1, <2>2 DEF PersistTypeOK, SubmitJob, execVars
<1>4. ASSUME NEW c \in Calls, Run(c) \/ RunReturns(c) \/ RunsCancelled({c}) \/ ThreadStep(c)
      PROVE  call' \in [Calls -> {"new", "queued", "running", "ended", "withdrawn", "refused"}]
  BY <1>4 DEF PersistTypeOK, Run, RunReturns, RunsCancelled, ThreadStep, ThreadTakes, ThreadEnds
<1>5. CASE UNCHANGED persistVars /\ \E c \in Calls :
             Run(c) \/ RunReturns(c) \/ RunsCancelled({c}) \/ ThreadStep(c)
  BY <1>4, <1>5 DEF PersistTypeOK, persistVars
<1>6. ASSUME NEW w \in Consumers, TakeJob(w) PROVE PersistTypeOK'
  <2>1. Head(queued) \in Jobs /\ queued' \in Seq(Jobs)
    BY <1>6, HeadTailProperties DEF PersistTypeOK, TakeJob
  <2>2. call' \in [Calls -> {"new", "queued", "running", "ended", "withdrawn", "refused"}]
    BY <1>4, <1>6, <2>1 DEF TakeJob
  <2> QED BY <1>6, <2>1, <2>2 DEF PersistTypeOK, TakeJob
<1>7. ASSUME NEW w \in Consumers, JobEnds(w) PROVE PersistTypeOK'
  BY <1>7 DEF PersistTypeOK, JobEnds, RunReturns, Finish
<1>8. CASE BeginStop
  BY <1>8 DEF PersistTypeOK, BeginStop, execVars
<1>9. CASE Drained \/ DrainTimeout
  BY <1>9 DEF PersistTypeOK, Drained, DrainTimeout, CancelWorkers, RunsCancelled
<1>10. CASE UNCHANGED persistVars /\ \E p \in Pools : Shut(p)
  BY <1>10 DEF PersistTypeOK, persistVars, Shut
<1> QED BY <1>1, <1>2, <1>3, <1>5, <1>6, <1>7, <1>8, <1>9, <1>10 DEF PersistStep

\* No other call enters the background pool, and threads only empty it.
LEMMA PendingShrinks ==
  ASSUME PersistTypeOK, NEW c \in Calls,
         ThreadStep(c) \/ RunReturns(c)
           \/ (c \in RequestCalls /\ (Run(c) \/ RunsCancelled({c})))
  PROVE  Pending("background")' \subseteq Pending("background")
BY JobFacts DEF PersistTypeOK, Pending, Of, ThreadStep, ThreadTakes, ThreadEnds, RunReturns, Run,
   RunsCancelled

\* submit(), the workers and the drain account for every job
\* (persistence_queue.py).
LEMMA JobsStep == StepContext /\ PersistInv /\ PersistStep => JobsHeld' /\ JobsSettled'
<1> SUFFICES ASSUME StepContext, PersistInv, PersistStep PROVE JobsHeld' /\ JobsSettled'
  OBVIOUS
<1> USE JobFacts
<1>0. PersistTypeOK /\ JobsHeld /\ JobsSettled /\ WorkersAlive
  BY DEF PersistInv
<1>1. ASSUME UNCHANGED <<queued, worker, outcome, stopping>>,
             Pending("background")' \subseteq Pending("background")
      PROVE  JobsHeld' /\ JobsSettled'
  <2>1. Unfinished' = Unfinished /\ InHand' = InHand
    BY <1>1 DEF Unfinished, InHand
  <2> QED BY <1>0, <1>1, <2>1 DEF JobsHeld, JobsSettled
<1>2. CASE UNCHANGED <<persistVars, execVars>>
  <2>1. Pending("background")' = Pending("background")
    BY <1>2 DEF execVars, Pending
  <2> QED BY <1>1, <1>2, <2>1 DEF persistVars
<1>3. CASE StartWorkers /\ phase = "starting" /\ UNCHANGED execVars
  <2>1. stopping = "off" /\ UNCHANGED <<queued, outcome, stopping>>
    BY <1>3 DEF StepContext, StartWorkers
  <2>2. InHand' = InHand
    <3>1. CASE accepting
      BY <1>3, <3>1 DEF StartWorkers, InHand
    <3>2. CASE ~accepting
      <4>1. \A w \in Consumers : worker[w] = "none" /\ worker'[w] = "idle"
        BY <1>0, <1>3, <2>1, <3>2 DEF WorkersAlive, StartWorkers
      <4> QED BY <4>1 DEF InHand
    <3> QED BY <3>1, <3>2
  <2>3. Pending("background")' = Pending("background")
    BY <1>3 DEF execVars, Pending
  <2>4. Unfinished' = Unfinished
    BY <2>1, <2>2 DEF Unfinished
  <2> QED BY <1>0, <2>1, <2>2, <2>3, <2>4 DEF JobsHeld, JobsSettled
<1>4. ASSUME NEW j \in Jobs, SubmitJob(j), phase = "serving" PROVE JobsHeld' /\ JobsSettled'
  <2>1. /\ stopping = "off" /\ stopping' = "off" /\ worker' = worker
        /\ Pending("background")' = Pending("background") /\ InHand' = InHand
    BY <1>4 DEF StepContext, SubmitJob, execVars, Pending, InHand
  <2>2. ToSet(queued) \subseteq ToSet(queued')
        /\ (outcome'[j] = "pending" => j \in ToSet(queued'))
    <3>1. CASE accepting /\ Len(queued) < MaxJobs
      <4>1. queued' = Append(queued, j) /\ queued \in Seq(Jobs)
        BY <1>0, <1>4, <3>1 DEF SubmitJob, PersistTypeOK
      <4>2. ToSet(queued') = ToSet(queued) \cup {j}
        BY <4>1, AppendOnce
      <4> QED BY <4>2
    <3>2. CASE ~(accepting /\ Len(queued) < MaxJobs)
      BY <1>0, <1>4, <3>2 DEF SubmitJob, PersistTypeOK
    <3> QED BY <3>1, <3>2
  <2>3. \A i \in Jobs \ {j} : outcome'[i] = outcome[i]
    BY <1>0, <1>4 DEF SubmitJob, PersistTypeOK
  <2>4. outcome'[j] # "cancelled"
    BY <1>0, <1>4 DEF SubmitJob, PersistTypeOK
  <2>5. JobsHeld'
    BY <1>0, <2>1, <2>2, <2>3, <2>4 DEF JobsHeld, Unfinished
  <2> QED BY <2>1, <2>5 DEF JobsSettled
<1>5. CASE UNCHANGED persistVars /\ \E c \in RequestCalls :
             Run(c) \/ RunReturns(c) \/ RunsCancelled({c})
  BY <1>0, <1>1, <1>5, PendingShrinks DEF persistVars
<1>6. CASE UNCHANGED persistVars /\ \E c \in Calls : ThreadStep(c)
  BY <1>0, <1>1, <1>6, PendingShrinks DEF persistVars
<1>7. ASSUME NEW w \in Consumers, TakeJob(w) PROVE JobsHeld' /\ JobsSettled'
  <2> DEFINE h == Head(queued)
  <2>1. /\ queued \in Seq(Jobs) /\ queued # <<>> /\ worker[w] = "idle"
        /\ queued' = Tail(queued) /\ UNCHANGED <<outcome, stopping>>
    BY <1>0, <1>7 DEF TakeJob, PersistTypeOK
  <2>2. h \in Jobs /\ ToSet(queued) \subseteq ToSet(queued') \cup {h}
    <3>1. /\ Len(queued) \in Nat \ {0} /\ DOMAIN queued = 1..Len(queued) /\ h = queued[1]
          /\ h \in Jobs /\ DOMAIN queued' = 1..(Len(queued) - 1)
          /\ \A i \in 1..(Len(queued) - 1) : queued'[i] = queued[i + 1]
      BY <2>1, HeadTailProperties, LenProperties, EmptySeq
    <3>2. ASSUME NEW i \in 1..Len(queued), i # 1 PROVE queued[i] \in ToSet(queued')
      <4>1. i - 1 \in 1..(Len(queued) - 1) /\ queued'[i - 1] = queued[i]
        BY <3>1, <3>2
      <4> QED BY <3>1, <4>1 DEF ToSet
    <3> QED BY <3>1, <3>2 DEF ToSet
  <2>3. /\ worker'[w] = h /\ \A v \in Consumers \ {w} : worker'[v] = worker[v]
    BY <1>0, <1>7 DEF TakeJob, PersistTypeOK
  <2>4. InHand \cup {h} \subseteq InHand'
    BY <2>1, <2>2, <2>3 DEF InHand
  <2>5. Pending("background")' \subseteq Pending("background") \cup {h}
    BY <1>0, <1>7, <2>2 DEF TakeJob, Run, Pending, Of, PersistTypeOK
  <2>6. stopping \in {"off", "join"}
    BY <1>0, <2>1 DEF WorkersAlive, PersistTypeOK
  <2> HIDE DEF h
  <2>7. Unfinished \subseteq Unfinished'
    BY <2>2, <2>4 DEF Unfinished
  <2> QED BY <1>0, <2>1, <2>4, <2>5, <2>6, <2>7 DEF JobsHeld, JobsSettled
<1>8. ASSUME NEW w \in Consumers, JobEnds(w) PROVE JobsHeld' /\ JobsSettled'
  <2>1. PICK o \in {"completed", "failed"} : Finish(w, o)
    BY <1>8 DEF JobEnds
  <2>2. /\ worker[w] \in Jobs /\ call[worker[w]] = "ended" /\ UNCHANGED <<call, queued, stopping>>
    BY <1>8, <2>1 DEF JobEnds, RunReturns, Finish
  <2>3. stopping \in {"off", "join"}
    BY <1>0, <2>2 DEF WorkersAlive, PersistTypeOK
  <2>4. /\ outcome'[worker[w]] = o /\ \A i \in Jobs \ {worker[w]} : outcome'[i] = outcome[i]
        /\ worker'[w] = "idle" /\ \A v \in Consumers \ {w} : worker'[v] = worker[v]
    BY <1>0, <2>1, <2>2 DEF Finish, PersistTypeOK
  <2>5. InHand \ {worker[w]} \subseteq InHand'
    BY <2>4 DEF InHand
  <2>6. Unfinished \ {worker[w]} \subseteq Unfinished'
    BY <2>2, <2>5 DEF Unfinished
  <2>7. worker[w] \notin Pending("background")' /\ Pending("background")' = Pending("background")
    BY <2>2 DEF Pending
  <2> QED BY <1>0, <2>2, <2>3, <2>4, <2>5, <2>6, <2>7 DEF JobsHeld, JobsSettled
<1>9. CASE phase = "stopping" /\ BeginStop
  <2>1. stopping' = "join"
    BY <1>0, <1>9 DEF StepContext, BeginStop, WorkersAlive
  <2>2. /\ Unfinished' = Unfinished /\ InHand' = InHand /\ UNCHANGED outcome
        /\ Pending("background")' = Pending("background") /\ stopping = "off"
    BY <1>9 DEF BeginStop, Unfinished, InHand, Pending, execVars
  <2> QED BY <1>0, <2>1, <2>2 DEF JobsHeld, JobsSettled
<1>10. CASE Drained
  <2>1. stopping = "join" /\ Unfinished = {} /\ InHand = {} /\ stopping' = "done"
    BY <1>10 DEF Drained, Unfinished
  <2>2. \A j \in Jobs : outcome'[j] = outcome[j]
    BY <1>10, <2>1 DEF Drained, CancelWorkers
  <2>3. Pending("background")' = {}
    <3>1. Pending("background") = {}
      BY <1>0, <2>1 DEF JobsHeld
    <3>2. \A c \in Calls : call'[c] = call[c]
      BY <1>10, <2>1 DEF Drained, CancelWorkers, RunsCancelled
    <3> QED BY <3>1, <3>2 DEF Pending, Of
  <2>4. \A j \in Jobs : outcome[j] \notin {"pending", "cancelled"}
    BY <1>0, <2>1 DEF JobsHeld
  <2> QED BY <2>1, <2>2, <2>3, <2>4 DEF JobsHeld, JobsSettled
<1>11. CASE DrainTimeout
  BY <1>11 DEF DrainTimeout, JobsHeld, JobsSettled
<1>12. CASE UNCHANGED persistVars /\ \E p \in Pools : Shut(p)
  <2>1. Pending("background")' = Pending("background")
    BY <1>12 DEF Shut, Pending
  <2> QED BY <1>1, <1>12, <2>1 DEF persistVars
<1> QED BY <1>2, <1>3, <1>4, <1>5, <1>6, <1>7, <1>8, <1>9, <1>10, <1>11, <1>12 DEF PersistStep

\* A worker only ends when it is cancelled (persistence_queue.py).
LEMMA WorkersStep == StepContext /\ PersistInv /\ PersistStep => WorkersAlive'
<1> SUFFICES ASSUME StepContext, PersistInv, PersistStep PROVE WorkersAlive'
  OBVIOUS
<1> USE JobFacts
<1>0. PersistTypeOK /\ WorkersAlive
  BY DEF PersistInv
<1>1. ASSUME UNCHANGED <<accepting, worker, stopping>> PROVE WorkersAlive'
  BY <1>0, <1>1 DEF WorkersAlive
<1>2. CASE \/ UNCHANGED persistVars
           \/ \E j \in Jobs : SubmitJob(j)
  BY <1>1, <1>2 DEF persistVars, SubmitJob
<1>3. CASE StartWorkers /\ phase = "starting"
  BY <1>0, <1>3 DEF StartWorkers, StepContext, WorkersAlive
<1>4. ASSUME NEW w \in Consumers, TakeJob(w) PROVE WorkersAlive'
  <2>1. Head(queued) \in Jobs
    BY <1>0, <1>4, HeadTailProperties DEF PersistTypeOK, TakeJob
  <2>2. /\ worker[w] = "idle" /\ UNCHANGED <<accepting, stopping>>
        /\ worker'[w] # "none" /\ \A v \in Consumers \ {w} : worker'[v] = worker[v]
    BY <1>0, <1>4, <2>1 DEF TakeJob, PersistTypeOK
  <2> QED BY <1>0, <2>2 DEF WorkersAlive
<1>5. ASSUME NEW w \in Consumers, JobEnds(w) PROVE WorkersAlive'
  <2>2. /\ worker[w] # "none" /\ UNCHANGED <<accepting, stopping>>
        /\ worker'[w] # "none" /\ \A v \in Consumers \ {w} : worker'[v] = worker[v]
    BY <1>0, <1>5 DEF JobEnds, Finish, PersistTypeOK
  <2> QED BY <1>0, <2>2 DEF WorkersAlive
<1>6. CASE BeginStop
  BY <1>0, <1>6 DEF BeginStop, WorkersAlive
<1>7. CASE Drained \/ DrainTimeout
  BY <1>7 DEF Drained, DrainTimeout, CancelWorkers, WorkersAlive
<1> QED BY <1>2, <1>3, <1>4, <1>5, <1>6, <1>7 DEF PersistStep

\* The two together, and the types.
LEMMA PersistInvStep == StepContext /\ PersistInv /\ PersistStep => PersistInv'
BY PersistTypes, JobsStep, WorkersStep DEF PersistInv
----------------------------------------------------------------------------
(* The life cycle *)

\* The stop event stays set, and stop()'s own flush is only begun by shutdown.
LEMMA FlusherStays ==
  ASSUME QueueTypeOK, QueueStep
  PROVE  /\ stopSet => stopSet'
         /\ flusher["stop"] = "done" => flusher'["stop"] = "done"
         /\ flusher["stop"] = "off" /\ flusher'["stop"] # "off" =>
              stopSet' /\ phase = "stopping" /\ UNCHANGED phase
<1>1. CASE StartFlusher \/ (phase = "stopping" /\ UNCHANGED phase /\ StopFlusher)
           \/ CheckStop \/ Wake \/ JoinReturns
  BY <1>1 DEF QueueTypeOK, StartFlusher, StopFlusher, CheckStop, Wake, JoinReturns, Goto, Flushers
<1>2. ASSUME NEW f \in Flushers, TakeRecord(f) \/ EndDrain(f) \/ Flush(f)
      PROVE  /\ stopSet' = stopSet /\ flusher[f] \in {"drain", "flush"}
             /\ \A g \in Flushers \ {f} : flusher'[g] = flusher[g]
  BY <1>2 DEF QueueTypeOK, TakeRecord, EndDrain, Flush, Goto
<1>3. CASE \E f \in Flushers : TakeRecord(f) \/ EndDrain(f) \/ Flush(f)
  BY <1>2, <1>3 DEF Flushers
<1>4. CASE Emit \/ UNCHANGED queueVars
  BY <1>4 DEF Emit, queueVars
<1> QED BY <1>1, <1>3, <1>4 DEF QueueStep, FlusherStep

\* What stop() of the persistence queue has reached stays, and only startup accepts again.
LEMMA StoppingStays ==
  ASSUME PersistStep
  PROVE  /\ stopping \in {"done", "overdue"} => stopping' = stopping
         /\ stopping = "off" /\ stopping' # "off" => phase = "stopping"
         /\ accepting /\ ~accepting' => stopping' # "off" /\ phase = "stopping"
         /\ ~accepting /\ accepting' => phase = "starting"
         /\ stopping' = "off" => stopping = "off"
BY DEF PersistStep, persistVars, StartWorkers, SubmitJob, TakeJob, JobEnds, Finish, BeginStop,
   Drained, DrainTimeout

\* A pool that has nothing to do and takes no calls stays so.
LEMMA QuiescentStays ==
  ASSUME PersistTypeOK, PersistStep, NEW p \in Pools, Quiescent(p)
  PROVE  Quiescent(p)'
<1> USE JobFacts
<1>0. p \in down /\ Pending(p) = {}
  BY DEF Quiescent
<1>1. ASSUME NEW c \in Calls, Run(c) PROVE Quiescent(p)'
  <2>1. CASE CallPool[c] \in down
    BY <1>0, <1>1, <2>1 DEF Run, Quiescent, Pending, Of, PersistTypeOK
  <2>2. CASE CallPool[c] \notin down
    BY <1>0, <1>1, <2>2 DEF Run, Quiescent, Pending, Of, PersistTypeOK
  <2> QED BY <2>1, <2>2
<1>2. ASSUME UNCHANGED down,
             \A c \in Calls : call'[c] = call[c] \/ call'[c] \in {"withdrawn", "ended"}
                                \/ call[c] = "queued"
      PROVE  Quiescent(p)'
  BY <1>0, <1>2 DEF Quiescent, Pending, Of
<1>3. CASE UNCHANGED execVars
  BY <1>2, <1>3 DEF execVars
<1>4. CASE \E j \in Jobs : SubmitJob(j)
  BY <1>3, <1>4 DEF SubmitJob
<1>5. ASSUME NEW c \in Calls, RunReturns(c) \/ RunsCancelled({c}) \/ ThreadStep(c)
      PROVE  Quiescent(p)'
  BY <1>2, <1>5 DEF RunReturns, RunsCancelled, ThreadStep, ThreadTakes, ThreadEnds, PersistTypeOK
<1>6. ASSUME NEW w \in Consumers, TakeJob(w) PROVE Quiescent(p)'
  <2>1. Head(queued) \in Calls
    BY <1>6, HeadTailProperties DEF PersistTypeOK, TakeJob
  <2> QED BY <1>1, <1>6, <2>1 DEF TakeJob
<1>7. ASSUME NEW w \in Consumers, JobEnds(w) PROVE Quiescent(p)'
  BY <1>5, <1>7 DEF JobEnds
<1>8. CASE BeginStop
  BY <1>3, <1>8 DEF BeginStop
<1>9. CASE Drained \/ DrainTimeout
  BY <1>2, <1>9 DEF Drained, DrainTimeout, CancelWorkers, RunsCancelled
<1>10. CASE \E q \in Pools : Shut(q)
  BY <1>0, <1>10 DEF Shut, Quiescent, Pending
<1> QED BY <1>1, <1>3, <1>4, <1>5, <1>6, <1>7, <1>8, <1>9, <1>10 DEF PersistStep

\* The steps start in order and stop in reverse (lifespan.py).
LEMMA PhasesStep == PhasesInOrder /\ LifeStep => PhasesInOrder'
<1> SUFFICES ASSUME PhasesInOrder, LifeStep PROVE PhasesInOrder'
  OBVIOUS
<1> USE StepOrder
<1>1. CASE LifeKept
  BY <1>1 DEF LifeKept, PhasesInOrder
<1>2. CASE StartsOne
  BY <1>2 DEF StartsOne, PhasesInOrder
<1>3. CASE StartupEnds
  BY <1>3 DEF StartupEnds, PhasesInOrder
<1>4. CASE ShutdownBegins
  BY <1>4 DEF ShutdownBegins, PhasesInOrder
<1>5. CASE ClosesOne
  BY <1>5 DEF ClosesOne, PhasesInOrder
<1>6. CASE ShutdownEndsOrRaises
  BY <1>6 DEF ShutdownEndsOrRaises, PhasesInOrder
<1> QED BY <1>1, <1>2, <1>3, <1>4, <1>5, <1>6 DEF LifeStep
\* A queue is told to stop by a step of shutdown.
LEMMA StopsStep ==
  ASSUME ServerInv, [LifeNext]_serverVars
  PROVE  StopsAfterServing'
<1>0. /\ QueueTypeOK /\ PhasesInOrder /\ StopsAfterServing
      /\ QueueStep /\ PersistStep /\ LifeStep
  BY QueueSteps, PersistSteps, LifeSteps DEF ServerInv
<1>1. \/ phase' = phase
      \/ phase \in {"starting", "serving"}
      \/ phase = "stopping" /\ phase' \in {"stopped", "aborted"}
  BY <1>0 DEF LifeStep, LifeKept, StartsOne, StartupEnds, ShutdownBegins, ClosesOne,
              ShutdownEndsOrRaises
<1>2. stopping' # "off" => phase' \in {"stopping", "stopped", "aborted"}
  BY <1>0, <1>1, StoppingStays DEF StopsAfterServing, LifeStep, LifeKept, StartsOne, StartupEnds,
     ShutdownBegins, ClosesOne, ShutdownEndsOrRaises
<1>3. flusher'["stop"] # "off" => phase' \in {"stopping", "stopped", "aborted"} /\ stopSet'
  <2>1. CASE flusher["stop"] # "off"
    BY <1>0, <1>1, <2>1, FlusherStays DEF StopsAfterServing
  <2>2. CASE flusher["stop"] = "off" /\ flusher'["stop"] # "off"
    BY <1>0, <2>2, FlusherStays
  <2> QED BY <2>1, <2>2
<1> QED BY <1>2, <1>3 DEF StopsAfterServing

\* stop() has drained the queue when it returns, and only then is the database closed.
LEMMA FlusherStepClosed ==
  ASSUME ServerInv, [LifeNext]_serverVars
  PROVE  FlusherClosed'
<1> USE StepOrder
<1>0. /\ QueueTypeOK /\ PhasesInOrder /\ StopsAfterServing /\ FlusherClosed
      /\ QueueStep /\ LifeStep
  BY QueueSteps, LifeSteps DEF ServerInv
<1>1. /\ flusher'["stop"] \in {"flush", "done"} => records' = <<>>
      /\ flusher'["stop"] = "done" => batch'["stop"] = <<>>
  <2>1. CASE StartFlusher \/ (phase = "stopping" /\ UNCHANGED phase /\ StopFlusher)
             \/ CheckStop \/ Wake \/ JoinReturns
    BY <1>0, <2>1 DEF FlusherClosed, QueueTypeOK, StartFlusher, StopFlusher, CheckStop, Wake,
       JoinReturns, Goto, Flushers
  <2>2. CASE phase = "serving" /\ Emit
    BY <1>0, <2>2 DEF Emit, StopsAfterServing
  <2>3. CASE TakeRecord("thread") \/ EndDrain("thread") \/ Flush("thread")
    <3>1. /\ flusher'["stop"] = flusher["stop"] /\ batch'["stop"] = batch["stop"]
          /\ records = <<>> => records' = <<>>
      BY <1>0, <2>3 DEF TakeRecord, EndDrain, Flush, Goto, QueueTypeOK, Flushers
    <3> QED BY <1>0, <3>1 DEF FlusherClosed
  <2>4. CASE TakeRecord("stop") \/ EndDrain("stop") \/ Flush("stop")
    BY <1>0, <2>4 DEF FlusherClosed, TakeRecord, EndDrain, Flush, Full, Resume, Goto, QueueTypeOK,
       Flushers
  <2>5. CASE UNCHANGED queueVars
    BY <1>0, <2>5 DEF FlusherClosed, queueVars
  <2> QED BY <1>0, <2>1, <2>2, <2>3, <2>4, <2>5 DEF QueueStep, FlusherStep, Flushers
<1>2. /\ serviceDb' = "closed" => serviceDb = "closed" \/ Past(4)'
      /\ Past(4)' => Past(4) \/ flusher["stop"] = "done"
      /\ Past(4) => Past(4)'
  <2>1. CASE LifeKept
    BY <2>1 DEF LifeKept, Past
  <2>2. CASE StartsOne
    BY <2>2 DEF StartsOne, Past
  <2>3. CASE StartupEnds
    BY <2>3 DEF StartupEnds, Past
  <2>4. CASE ShutdownBegins
    BY <1>0, <2>4 DEF ShutdownBegins, Past, PhasesInOrder
  <2>5. CASE ClosesOne
    BY <1>0, <2>5 DEF ClosesOne, Past, PhasesInOrder
  <2>6. CASE ShutdownEndsOrRaises
    BY <2>6 DEF ShutdownEndsOrRaises, Past
  <2> QED BY <1>0, <2>1, <2>2, <2>3, <2>4, <2>5, <2>6 DEF LifeStep
<1> QED BY <1>0, <1>1, <1>2, FlusherStays DEF FlusherClosed

\* What a closed step has waited for stays so.
LEMMA StepsStayClosed ==
  ASSUME ServerInv, [LifeNext]_serverVars
  PROVE  PersistenceClosed' /\ PoolsClosed' /\ PerformanceClosed'
<1> USE StepOrder
<1>0. /\ PersistTypeOK /\ PhasesInOrder /\ PersistenceClosed /\ PoolsClosed /\ PerformanceClosed
      /\ PersistStep /\ LifeStep
  BY PersistSteps, LifeSteps DEF ServerInv, PersistInv
<1>1. /\ mode' = mode
      /\ Past(5)' /\ ~Past(5) /\ mode = "async" => stopping \in {"done", "overdue"}
      /\ Past(3)' /\ ~Past(3) => \A p \in Pools : Quiescent(p)
      /\ Past(1)' => Past(1) \/ (sampler' # "running" /\ exporter' # "running")
      /\ Past(1) => sampler' \in {sampler, "crashed"} /\ exporter' = exporter
      /\ phase' = "stopping" => phase \in {"serving", "stopping"}
  <2>1. CASE LifeKept
    BY <2>1 DEF LifeKept, Past
  <2>2. CASE StartsOne
    BY <2>2 DEF StartsOne, Past
  <2>3. CASE StartupEnds
    BY <2>3 DEF StartupEnds, Past
  <2>4. CASE ShutdownBegins
    BY <1>0, <2>4 DEF ShutdownBegins, Past, PhasesInOrder
  <2>5. CASE ClosesOne
    BY <1>0, <2>5 DEF ClosesOne, Past, PhasesInOrder
  <2>6. CASE ShutdownEndsOrRaises
    BY <2>6 DEF ShutdownEndsOrRaises, Past
  <2> QED BY <1>0, <2>1, <2>2, <2>3, <2>4, <2>5, <2>6 DEF LifeStep
<1>2. PersistenceClosed'
  <2>1. Past(5)' /\ mode' = "async" => stopping' \in {"done", "overdue"}
    BY <1>0, <1>1, StoppingStays DEF PersistenceClosed
  <2>2. phase' = "stopping" /\ stopping' = "off" => accepting'
    BY <1>0, <1>1, StoppingStays DEF PersistenceClosed, PhasesInOrder
  <2> QED BY <2>1, <2>2 DEF PersistenceClosed
<1>3. PoolsClosed'
  BY <1>0, <1>1, QuiescentStays DEF PoolsClosed
<1>4. PerformanceClosed'
  BY <1>0, <1>1 DEF PerformanceClosed
<1> QED BY <1>2, <1>3, <1>4

\* QueueTypeOK is part of what RecordsStep keeps; the life cycle's invariant has it too.
LEMMA ServerInvStep == RecordsInv /\ ServerInv /\ [LifeNext]_serverVars => RecordsInv' /\ ServerInv'
<1> SUFFICES ASSUME RecordsInv, ServerInv, [LifeNext]_serverVars PROVE RecordsInv' /\ ServerInv'
  OBVIOUS
<1>1. RecordsInv'
  BY QueueSteps, RecordsStep
<1>2. PersistInv'
  <2>1. StepContext
    BY DEF ServerInv, StepContext, StopsAfterServing, PersistenceClosed
  <2> QED BY <2>1, PersistSteps, PersistInvStep DEF ServerInv
<1>3. PhasesInOrder'
  BY LifeSteps, PhasesStep DEF ServerInv
<1> QED BY <1>1, <1>2, <1>3, StopsStep, FlusherStepClosed, StepsStayClosed
        DEF ServerInv, RecordsInv

\* Before startup everything is closed and empty.
LEMMA ServerInvStart == LifeInit => RecordsInv /\ ServerInv
<1> SUFFICES ASSUME LifeInit PROVE RecordsInv /\ ServerInv
  OBVIOUS
<1> USE JobFacts, StepOrder
<1>1. RecordsInv
  BY RecordsStart DEF LifeInit
<1>2. PersistInv
  <2>1. PersistTypeOK
    BY EmptySeq DEF LifeInit, ExecInit, PersistInit, PersistTypeOK
  <2>2. JobsHeld /\ JobsSettled
    BY DEF LifeInit, ExecInit, PersistInit, JobsHeld, JobsSettled, Pending, Of
  <2>3. WorkersAlive
    BY DEF LifeInit, PersistInit, WorkersAlive
  <2> QED BY <2>1, <2>2, <2>3 DEF PersistInv
<1>3. PhasesInOrder /\ StopsAfterServing
  BY DEF LifeInit, PersistInit, QueueInit, PhasesInOrder, StopsAfterServing, Flushers
<1>4. PersistenceClosed /\ FlusherClosed /\ PoolsClosed /\ PerformanceClosed
  BY DEF LifeInit, QueueInit, PersistenceClosed, FlusherClosed, PoolsClosed, PerformanceClosed,
         Past, Flushers
<1> QED BY <1>1, <1>2, <1>3, <1>4 DEF ServerInv, RecordsInv

\* What the two queues, the executors and the lifespan keep, whatever order their threads
\* and the event loop run in (core/app/lifespan.py).
THEOREM ServerInvariant == LifeSpec => [](RecordsInv /\ ServerInv)
<1>1. RecordsInv /\ ServerInv /\ [LifeNext]_serverVars => (RecordsInv /\ ServerInv)'
  BY ServerInvStep
<1> QED BY <1>1, ServerInvStart, PTL DEF LifeSpec

\* stop() drains the write queue before disconnect() (core/app/lifespan.py): once the
\* service database is closed, nothing is left in the queue or in stop()'s own batch.
THEOREM FlushThenClose == LifeSpec => []FlushedBeforeClose
<1>1. ServerInv => FlushedBeforeClose
  BY DEF ServerInv, FlusherClosed, FlushedBeforeClose
<1> QED BY <1>1, ServerInvariant, PTL

\* The persistence queue is stopped before the service database is closed: unless its
\* drain timed out, every accepted job has completed or failed by then and no background
\* call is pending.
THEOREM CacheWritesThenClose == LifeSpec => []CacheWritesBeforeClose
<1>1. ServerInv => CacheWritesBeforeClose
  <2> SUFFICES ASSUME ServerInv, serviceDb = "closed", mode = "async", stopping # "overdue"
               PROVE  /\ Pending("background") = {}
                      /\ \A j \in Jobs : outcome[j] \notin {"pending", "cancelled"}
    BY DEF CacheWritesBeforeClose
  <2>1. Past(5)
    BY StepOrder DEF ServerInv, FlusherClosed, PhasesInOrder, Past
  <2>2. stopping = "done"
    BY <2>1 DEF ServerInv, PersistenceClosed
  <2> QED BY <2>2 DEF ServerInv, PersistInv, JobsSettled
<1> QED BY <1>1, ServerInvariant, PTL

\* A shutdown, also one that a collector's exception has cut short, leaves nothing of the
\* server working in the background.
THEOREM ShutdownIsQuiet == LifeSpec => []QuietAfterShutdown
<1>1. ServerInv => QuietAfterShutdown
  <2> SUFFICES ASSUME ServerInv, phase \in {"stopped", "aborted"}
               PROVE  /\ \A p \in Pools : Quiescent(p)
                      /\ mode = "async" => \A w \in Consumers : worker[w] = "none"
                      /\ flusher["thread"] # "off" => stopSet
                      /\ sampler # "running"
                      /\ exporter = "running" => phase = "aborted" /\ sampler = "crashed"
    BY DEF QuietAfterShutdown
  <2>1. Past(5) /\ Past(4) /\ Past(3)
    BY DEF ServerInv, PhasesInOrder, Past
  <2>2. \A p \in Pools : Quiescent(p)
    BY <2>1 DEF ServerInv, PoolsClosed
  <2>3. mode = "async" => \A w \in Consumers : worker[w] = "none"
    BY <2>1 DEF ServerInv, PersistenceClosed, PersistInv, WorkersAlive
  <2>4. stopSet
    BY <2>1 DEF ServerInv, FlusherClosed, StopsAfterServing
  <2>5. sampler # "running" /\ (exporter = "running" => phase = "aborted" /\ sampler = "crashed")
    BY DEF ServerInv, PhasesInOrder, PerformanceClosed, Past
  <2> QED BY <2>2, <2>3, <2>4, <2>5
<1> QED BY <1>1, ServerInvariant, PTL
===============================================================================
