------------------------------ MODULE PartsProofs ------------------------------
(***************************************************************************)
(* Proofs about the components that stand alone, for any number of         *)
(* handlers, callers, keys and requests and any limits and lifetimes.      *)
(* The module of each has its inductive invariant.                         *)
(***************************************************************************)
EXTENDS ApiKeys, RateLimiter, CacheAges, QueryGate, RequestTrace, Histogram, AlertMonitor,
        ServiceSchema, Sampling, FiniteSetTheorems, WellFoundedInduction, SequenceTheorems, TLAPS

----------------------------------------------------------------------------
(* Least elements, and functions defined by recursion *)

\* A set of naturals has a least element.
LEMMA LeastElement ==
  ASSUME NEW I \in SUBSET Nat, I # {}
  PROVE  \E m \in I : \A n \in I : m <= n
<1>1. PICK x \in I : \A y \in I : <<y, x>> \notin OpToRel(<, Nat)
  BY NatLessThanWellFounded, WFMin
<1>2. \A y \in I : ~ (y < x)
  BY <1>1 DEF OpToRel
<1>3. \A y \in I : x <= y
  <2> TAKE y \in I
  <2>1. x \in Nat /\ y \in Nat
    BY <1>1
  <2> QED BY <1>2, <2>1
<1> QED BY <1>1, <1>3

\* f[0] is the base, and f[n] comes from f[p[n]] by step n, for n up to k.
Recursive(S, base, k, p, step) ==
  /\ base \in S /\ k \in Nat
  /\ p \in [1..k -> Nat] /\ \A n \in 1..k : p[n] < n
  /\ step \in [1..k -> [S -> S]]

\* A function defined by such a recursion exists: the least n up to which there is none
\* would be one more than one up to which there is.
LEMMA Recursion ==
  ASSUME NEW S, NEW base, NEW k, NEW p, NEW step, Recursive(S, base, k, p, step)
  PROVE  \E f \in [0..k -> S] : f[0] = base /\ \A n \in 1..k : f[n] = step[n][f[p[n]]]
<1> USE DEF Recursive
<1> DEFINE Found(m) == \E f \in [0..m -> S] :
                         f[0] = base /\ \A n \in 1..m : f[n] = step[n][f[p[n]]]
           Missing == {m \in 0..k : ~Found(m)}
<1>1. SUFFICES ASSUME Missing # {}
               PROVE  FALSE
  <2> SUFFICES ASSUME ~Found(k)
               PROVE  Missing # {}
    OBVIOUS
  <2>1. k \in 0..k
    OBVIOUS
  <2> HIDE DEF Found
  <2> QED BY <2>1
<1>2. PICK m \in Missing : \A n \in Missing : m <= n
  <2>1. Missing \in SUBSET Nat
    OBVIOUS
  <2> HIDE DEF Missing
  <2> QED BY <1>1, <2>1, LeastElement
<1>3. m \in 0..k /\ ~Found(m)
  OBVIOUS
<1>4. m # 0
  <2> SUFFICES Found(0)
    BY <1>3
  <2>1. /\ [n \in 0..0 |-> base] \in [0..0 -> S] /\ [n \in 0..0 |-> base][0] = base
        /\ 1..0 = {}
    OBVIOUS
  <2> QED BY <2>1
<1>5. Found(m - 1)
  <2>1. m - 1 \in 0..k /\ ~(m <= m - 1)
    BY <1>3, <1>4
  <2> HIDE DEF Found
  <2> QED BY <1>2, <2>1
<1>6. PICK f \in [0..(m - 1) -> S] :
        f[0] = base /\ \A n \in 1..(m - 1) : f[n] = step[n][f[p[n]]]
  BY <1>5
<1>7. p[m] \in 0..(m - 1) /\ step[m][f[p[m]]] \in S
  <2>1. m \in 1..k
    BY <1>3, <1>4
  <2>2. p[m] \in 0..(m - 1)
    BY <2>1
  <2>3. f[p[m]] \in S
    BY <1>6, <2>2
  <2> QED BY <2>1, <2>2, <2>3
<1> DEFINE g == [n \in 0..m |-> IF n = m THEN step[m][f[p[m]]] ELSE f[n]]
<1>8. g \in [0..m -> S]
  <2>1. \A n \in 0..m : n # m => n \in 0..(m - 1)
    BY <1>3
  <2>2. \A n \in 0..m : n # m => f[n] \in S
    BY <1>6, <2>1
  <2> QED BY <1>7, <2>2
<1>9. g[0] = base
  BY <1>3, <1>4, <1>6
<1>10. ASSUME NEW n \in 1..m
       PROVE  g[n] = step[n][g[p[n]]]
  <2>1. CASE n = m
    BY <1>3, <1>4, <1>7, <2>1
  <2>2. CASE n # m
    <3>1. n \in 1..(m - 1) /\ n \in 1..k
      BY <1>3, <2>2
    <3>2. p[n] \in 0..m /\ p[n] # m
      BY <1>3, <3>1
    <3> QED BY <1>6, <2>2, <3>1, <3>2
  <2> QED BY <2>1, <2>2
<1> HIDE DEF g
<1> QED BY <1>3, <1>8, <1>9, <1>10

----------------------------------------------------------------------------
(* API keys (core/auth/api_key_service.py) *)

\* What a request is doing decides which fields its record has.
LEMMA HandlerShape ==
  ASSUME NEW x \in HandlerStates
  PROVE  /\ x = Idle <=> x.doing = "idle"
         /\ x # Idle => x.key \in ApiKey
         /\ x.doing \in {"lookup", "found"} => x.at \in Nat
         /\ x.doing = "remove" => x.how \in {"revoked", "deleted"} /\ x.mine \in BOOLEAN
         /\ x.doing = "lookup" => [x EXCEPT !.doing = "found"] \in HandlerStates
BY DEF HandlerStates, Idle

\* No key has been issued and nothing is cached.
LEMMA KeysInitial == now = 0 /\ KeysInit => KeysInv
<1>1. Idle \in HandlerStates /\ Idle.doing = "idle"
  BY DEF Idle, HandlerStates
<1> QED
  BY <1>1, ApiKeysAssumption, ClockAssumption
     DEF KeysInit, KeysInv, KeysTypeOK, OnlyShown, DeadByExpiry, FoundAlive, CachedAlive,
         Alive, NoExpiry, Time

\* The key routes and the validation, with every interleaving of their awaits.
LEMMA KeysStep == KeysInv /\ [KeysNext]_<<now, keyVars>> => KeysInv'
<1> SUFFICES ASSUME KeysInv, [KeysNext]_<<now, keyVars>>
             PROVE  KeysInv'
  OBVIOUS
<1> USE ApiKeysAssumption, ClockAssumption DEF Alive, NoExpiry, Time
<1>1. /\ MaxTime \in Nat /\ KeyTTL \in Nat \ {0}
      /\ KeysTypeOK /\ OnlyShown /\ DeadByExpiry /\ FoundAlive /\ CachedAlive
  BY DEF KeysInv
<1>2. \A h \in Handlers :
        /\ handler[h] = Idle <=> handler[h].doing = "idle"
        /\ handler[h] # Idle => handler[h].key \in ApiKey
        /\ handler[h].doing \in {"lookup", "found"} => handler[h].at \in Nat
        /\ handler[h].doing = "remove" =>
             handler[h].how \in {"revoked", "deleted"} /\ handler[h].mine \in BOOLEAN
        /\ handler[h].doing = "lookup" => [handler[h] EXCEPT !.doing = "found"] \in HandlerStates
  BY <1>1, HandlerShape DEF KeysTypeOK
<1>3. Idle \in HandlerStates /\ Idle.doing = "idle"
  BY DEF Idle, HandlerStates
<1>4. ASSUME NEW h \in Handlers, NEW k \in ApiKey, CreateKey(h, k)
      PROVE  KeysInv'
  BY <1>1, <1>2, <1>4
     DEF CreateKey, IssueKey, InsertKey, KeysInv, KeysTypeOK, OnlyShown, DeadByExpiry,
         FoundAlive, CachedAlive
<1>5. ASSUME NEW h \in Handlers, NEW k \in ApiKey, BeginValidate(h, k)
      PROVE  KeysInv'
  <2> DEFINE x == [doing |-> "lookup", key |-> k, at |-> now]
  <2>1. x \in HandlerStates /\ x # Idle /\ x.key = k /\ x.doing = "lookup" /\ x.at = now
    BY <1>1 DEF HandlerStates, Idle, KeysTypeOK
  <2>2. handler' = [handler EXCEPT ![h] = x]
    BY <1>5 DEF BeginValidate, Does
  <2> HIDE DEF x
  <2> QED
    BY <1>1, <1>2, <1>5, <2>1, <2>2
       DEF BeginValidate, KeysInv, KeysTypeOK, OnlyShown, DeadByExpiry, FoundAlive, CachedAlive
<1>6. ASSUME NEW h \in Handlers, NEW k \in ApiKey, NEW how \in {"revoked", "deleted"},
             BeginRemove(h, k, how)
      PROVE  KeysInv'
  <2>1. PICK mine \in BOOLEAN :
          handler' = [handler EXCEPT ![h] =
            [doing |-> "remove", key |-> k, how |-> how, mine |-> mine]]
    BY <1>6 DEF BeginRemove, Does
  <2> DEFINE x == [doing |-> "remove", key |-> k, how |-> how, mine |-> mine]
  <2>2. x \in HandlerStates /\ x # Idle /\ x.key = k /\ x.doing = "remove"
    BY DEF HandlerStates, Idle
  <2>3. handler' = [handler EXCEPT ![h] = x]
    BY <2>1
  <2> HIDE DEF x
  <2> QED
    BY <1>1, <1>2, <1>6, <2>2, <2>3
       DEF BeginRemove, KeysInv, KeysTypeOK, OnlyShown, DeadByExpiry, FoundAlive, CachedAlive
<1>7. ASSUME NEW h \in Handlers, Looked(h)
      PROVE  KeysInv'
  <2> DEFINE k == handler[h].key
             x == [handler[h] EXCEPT !.doing = "found"]
  <2>1. k \in ApiKey /\ handler[h] # Idle /\ handler[h].at \in Nat /\ handler[h].at <= now
    BY <1>1, <1>2, <1>3, <1>7 DEF Looked, FoundAlive
  <2>2. x \in HandlerStates /\ x # Idle /\ x.key = k /\ x.doing = "found" /\ x.at = handler[h].at
    <3>1. handler[h] \in HandlerStates /\ handler[h].doing = "lookup"
      BY <1>1, <1>7 DEF Looked, KeysTypeOK
    <3> QED BY <3>1 DEF HandlerStates, Idle
  <2>3. Valid(k, handler[h].at) => handler[h].at <= deadSince[k]
    BY <1>1, <2>1 DEF Valid, DeadByExpiry, KeysTypeOK
  <2>4. \/ handler' = [handler EXCEPT ![h] = Idle]
        \/ handler[h].at <= deadSince[k] /\ handler' = [handler EXCEPT ![h] = x]
    BY <1>7, <2>3 DEF Looked, Does
  <2> HIDE DEF x, k
  <2>5. k \in shown
    BY <1>1, <2>1 DEF OnlyShown, k
  <2> QED
    BY <1>1, <1>2, <1>3, <1>7, <2>1, <2>2, <2>4, <2>5
       DEF Looked, KeysInv, KeysTypeOK, OnlyShown, DeadByExpiry, FoundAlive, CachedAlive
<1>8. ASSUME NEW h \in Handlers, CacheValidated(h)
      PROVE  KeysInv'
  <2> DEFINE k == handler[h].key
             until == handler[h].at + KeyTTL
  <2>1. /\ k \in ApiKey /\ until \in Nat
        /\ until <= now + KeyTTL /\ until <= deadSince[k] + KeyTTL
    <3>1. handler[h].doing = "found"
      BY <1>8 DEF CacheValidated
    <3>2. k \in ApiKey /\ handler[h].at \in Nat
      BY <1>2, <1>3, <3>1
    <3>3. now \in Nat /\ deadSince[k] \in Nat /\ handler[h].at <= now
          /\ handler[h].at <= deadSince[k]
      BY <1>1, <3>1, <3>2 DEF FoundAlive, KeysTypeOK
    <3> QED BY <3>2, <3>3
  <2>2. /\ handler' = [handler EXCEPT ![h] = Idle]
        /\ validated' = [validated EXCEPT ![k] = until]
        /\ UNCHANGED <<keyRow, keyExpiry, shown, deadSince, now>>
    BY <1>8 DEF CacheValidated, Does
  <2> HIDE DEF k, until
  <2> QED
    BY <1>1, <1>2, <1>3, <2>1, <2>2
       DEF KeysInv, KeysTypeOK, OnlyShown, DeadByExpiry, FoundAlive, CachedAlive
<1>9. ASSUME NEW h \in Handlers, Removed(h)
      PROVE  KeysInv'
  <2> DEFINE k == handler[h].key
             x == [doing |-> "evict", key |-> k]
  <2>1. k \in ApiKey /\ k \in shown
    BY <1>1, <1>2, <1>3, <1>9 DEF Removed, OnlyShown
  <2>2. x \in HandlerStates /\ x # Idle /\ x.key = k /\ x.doing = "evict"
    BY <2>1 DEF HandlerStates, Idle
  <2>3. /\ handler' = [handler EXCEPT ![h] = x]
        /\ UNCHANGED <<keyExpiry, shown, validated, now>>
        /\ \/ UNCHANGED <<keyRow, deadSince>>
           \/ /\ keyRow' = [keyRow EXCEPT ![k] = "revoked"] \/ keyRow' = [keyRow EXCEPT ![k] = "deleted"]
              /\ Kill(k)
    BY <1>9 DEF Removed, Does, RevokeRow, DeleteRow, RemoveRow
  <2> HIDE DEF x, k
  <2>4. /\ deadSince' \in [ApiKey -> Nat]
        /\ \A j \in ApiKey :
             \/ deadSince'[j] = deadSince[j]
             \/ /\ j = k /\ deadSince[j] = Alive /\ deadSince'[j] = now
    BY <1>1, <2>1, <2>3 DEF Kill, KeysTypeOK
  <2>5. KeysTypeOK'
    BY <1>1, <2>1, <2>2, <2>3, <2>4 DEF KeysTypeOK
  <2>6. OnlyShown'
    BY <1>1, <2>1, <2>2, <2>3, <2>4 DEF OnlyShown, KeysTypeOK
  <2>7. DeadByExpiry'
    BY <1>1, <2>1, <2>3, <2>4 DEF DeadByExpiry, KeysTypeOK
  <2>8. FoundAlive'
    BY <1>1, <1>2, <1>3, <2>1, <2>2, <2>3, <2>4 DEF FoundAlive, KeysTypeOK
  <2>9. CachedAlive'
    BY <1>1, <2>1, <2>3, <2>4 DEF CachedAlive, KeysTypeOK
  <2> QED BY <2>5, <2>6, <2>7, <2>8, <2>9 DEF KeysInv
<1>10. ASSUME NEW h \in Handlers, RemoveFails(h) \/ Evicted(h)
       PROVE  KeysInv'
  <2> DEFINE k == handler[h].key
  <2>1. k \in ApiKey
    BY <1>2, <1>3, <1>10 DEF RemoveFails, Evicted
  <2>2. /\ handler' = [handler EXCEPT ![h] = Idle]
        /\ validated' = [validated EXCEPT ![k] = 0] \/ UNCHANGED validated
        /\ UNCHANGED <<keyRow, keyExpiry, shown, deadSince, now>>
    BY <1>10 DEF RemoveFails, Evicted, Does
  <2> HIDE DEF k
  <2>3. KeysTypeOK' /\ OnlyShown' /\ DeadByExpiry'
    BY <1>1, <1>2, <1>3, <2>1, <2>2 DEF KeysTypeOK, OnlyShown, DeadByExpiry
  <2>4. FoundAlive'
    BY <1>1, <1>3, <2>2 DEF KeysTypeOK, FoundAlive
  <2>5. CachedAlive'
    BY <1>1, <2>1, <2>2 DEF KeysTypeOK, CachedAlive
  <2> QED BY <2>3, <2>4, <2>5 DEF KeysInv
<1>11. CASE RestartKeys
  BY <1>1, <1>2, <1>3, <1>11
     DEF RestartKeys, KeysInv, KeysTypeOK, OnlyShown, DeadByExpiry, FoundAlive, CachedAlive
<1>12. CASE KeyTick
  <2>1. /\ now \in Nat /\ now' = now + 1 /\ now' \in 0..MaxTime
        /\ deadSince' \in [ApiKey -> Nat]
        /\ UNCHANGED <<keyRow, keyExpiry, shown, validated, handler>>
    BY <1>1, <1>12 DEF KeyTick, Tick, KeysTypeOK
  <2>2. \A k \in ApiKey :
          \/ deadSince'[k] = deadSince[k] /\ (deadSince[k] # Alive \/ keyRow[k] # "active" \/ keyExpiry[k] >= now')
          \/ /\ deadSince[k] = Alive /\ keyRow[k] = "active" /\ keyExpiry[k] < now'
             /\ deadSince'[k] = now'
    BY <1>1, <1>12, <2>1 DEF KeyTick, KeysTypeOK
  <2>3. KeysTypeOK' /\ OnlyShown' /\ DeadByExpiry'
    BY <1>1, <2>1, <2>2 DEF KeysTypeOK, OnlyShown, DeadByExpiry
  <2>4. ASSUME NEW h \in Handlers
        PROVE  /\ handler[h].doing \in {"lookup", "found"} => handler[h].at <= now'
               /\ handler[h].doing = "found" => handler[h].at <= deadSince'[handler[h].key]
    <3>1. CASE handler[h].doing \in {"lookup", "found"}
      <4>1. handler[h].key \in ApiKey /\ handler[h].at \in Nat /\ handler[h].at <= now
        BY <1>1, <1>2, <1>3, <3>1 DEF FoundAlive
      <4>2. handler[h].doing = "found" => handler[h].at <= deadSince[handler[h].key]
        BY <1>1 DEF FoundAlive
      <4>3. \A k \in ApiKey : deadSince'[k] = deadSince[k] \/ deadSince'[k] = now + 1
        BY <2>1, <2>2
      <4> QED BY <2>1, <4>1, <4>2, <4>3
    <3> QED BY <3>1
  <2>5. CachedAlive'
    BY <1>1, <2>1, <2>2 DEF KeysTypeOK, CachedAlive
  <2> QED BY <2>1, <2>3, <2>4, <2>5 DEF KeysInv, FoundAlive
<1>13. CASE UNCHANGED <<now, keyVars>>
  BY <1>1, <1>13
     DEF keyVars, KeysInv, KeysTypeOK, OnlyShown, DeadByExpiry, FoundAlive, CachedAlive
<1> QED
  BY <1>4, <1>5, <1>6, <1>7, <1>8, <1>9, <1>10, <1>11, <1>12, <1>13
     DEF KeysNext, BeginRevoke, BeginDelete

\* No request is accepted for an API key more than one cache lifetime after it stopped
\* being valid, whichever lookups and evictions overtake each other.
THEOREM KeyExpires == KeysSpec => []CachedKeyExpires
<1>1. KeysInv => CachedKeyExpires
  BY ApiKeysAssumption, ClockAssumption
     DEF KeysInv, KeysTypeOK, CachedAlive, CachedKeyExpires, Cached, Time
<1> QED BY <1>1, KeysInitial, KeysStep, PTL DEF KeysSpec

----------------------------------------------------------------------------
(* Adaptive sampling (core/performance/adaptive_sampler.py) *)

\* No adjustment leaves the bounds of the rate.
LEMMA RateBounds ==
  ASSUME rate \in MinRate..MaxRate
  PROVE  Faster \in MinRate..MaxRate /\ Slower \in MinRate..MaxRate
<1>1. MinRate \in Nat /\ MaxRate \in Nat /\ 1 <= MinRate /\ MinRate <= MaxRate
  BY SamplingAssumption
<1>2. rate \in Nat /\ MinRate <= rate /\ rate <= MaxRate
  BY <1>1
<1>3. Faster \in MinRate..MaxRate
  BY <1>1, <1>2 DEF Faster
<1>4. Slower \in MinRate..MaxRate
  BY <1>1, <1>2 DEF Slower
<1> QED BY <1>3, <1>4

\* should_sample(), record_outcome() and the clock.
LEMMA SamplingStep == SamplingInv /\ [SamplingNext]_<<now, samplingVars>> => SamplingInv'
<1> SUFFICES ASSUME SamplingInv, [SamplingNext]_<<now, samplingVars>>
             PROVE  SamplingInv'
  OBVIOUS
<1> USE ClockAssumption DEF Never, Time
<1>1. /\ MaxTime \in Nat /\ EscalationTime \in Nat
      /\ SamplingTypeOK /\ EscalatedByLast /\ EscalationHolds
      /\ \A r \in Served : served[r].running => served[r].since <= now
  BY SamplingAssumption DEF SamplingInv
<1>2. ~ Unserved.running
  BY DEF Unserved
<1>3. ASSUME NEW r \in Served, ShouldSample(r)
      PROVE  SamplingInv'
  <2>1. /\ rate' \in MinRate..MaxRate
        /\ UNCHANGED <<escalatedUntil, lastBad, now>>
    BY <1>1, <1>3, RateBounds DEF ShouldSample, Adjusted, SamplingTypeOK
  <2>2. PICK sampled \in BOOLEAN :
          /\ now < escalatedUntil => sampled
          /\ window' \in [start : Nat, sampled : Nat]
          /\ served' = [served EXCEPT ![r] = [running |-> TRUE, since |-> now, sampled |-> sampled]]
    <3> DEFINE due == now - window.start >= AdjustInterval
               at == IF due THEN [start |-> now, sampled |-> 0] ELSE window
    <3>1. at \in [start : Nat, sampled : Nat]
      BY <1>1 DEF SamplingTypeOK
    <3>2. PICK sampled \in IF now < escalatedUntil \/ rate' = 100 THEN {TRUE} ELSE BOOLEAN :
            /\ window' = IF sampled THEN [at EXCEPT !.sampled = @ + 1] ELSE at
            /\ served' = [served EXCEPT ![r] = [running |-> TRUE, since |-> now, sampled |-> sampled]]
      BY <1>3 DEF ShouldSample
    <3> HIDE DEF at
    <3>3. [at EXCEPT !.sampled = @ + 1] \in [start : Nat, sampled : Nat]
      BY <3>1
    <3> QED BY <3>1, <3>2, <3>3
  <2> DEFINE x == [running |-> TRUE, since |-> now, sampled |-> sampled]
  <2>3. /\ x \in [running : {TRUE}, since : Nat, sampled : BOOLEAN]
        /\ x.running /\ x.since = now /\ x.sampled = sampled
    BY <1>1 DEF SamplingTypeOK
  <2>4. served' = [served EXCEPT ![r] = x]
    BY <2>2
  <2> HIDE DEF x
  <2>5. SamplingTypeOK'
    BY <1>1, <2>1, <2>2, <2>3, <2>4 DEF SamplingTypeOK
  <2>6. EscalatedByLast'
    BY <1>1, <2>1 DEF EscalatedByLast
  <2>7. \A q \in Served : q # r => served'[q] = served[q]
    BY <1>1, <2>4 DEF SamplingTypeOK
  <2>8. served'[r] = x
    BY <1>1, <2>4 DEF SamplingTypeOK
  <2>9. \A q \in Served : served'[q].running => served'[q].since <= now'
    BY <1>1, <2>1, <2>3, <2>7, <2>8 DEF SamplingTypeOK
  <2>10. EscalationHolds'
    BY <1>1, <2>1, <2>2, <2>3, <2>7, <2>8
       DEF EscalationHolds, EscalatedByLast, SamplingTypeOK
  <2> QED BY <2>5, <2>6, <2>9, <2>10 DEF SamplingInv
<1>4. ASSUME NEW r \in Served, RecordOutcome(r)
      PROVE  SamplingInv'
  <2>1. /\ served' = [served EXCEPT ![r] = Unserved]
        /\ UNCHANGED <<window, now>>
        /\ \/ /\ rate' = MaxRate /\ escalatedUntil' = now + EscalationTime /\ lastBad' = now
           \/ UNCHANGED <<rate, escalatedUntil, lastBad>>
    BY <1>4 DEF RecordOutcome, Escalate
  <2>2. SamplingTypeOK'
    <3>1. MaxRate \in MinRate..MaxRate
      BY SamplingAssumption
    <3>2. rate' \in MinRate..MaxRate /\ escalatedUntil' \in Nat /\ lastBad' \in Nat
      BY <1>1, <2>1, <3>1 DEF SamplingTypeOK
    <3>3. served' \in [Served -> {Unserved}
                         \cup [running : {TRUE}, since : Nat, sampled : BOOLEAN]]
      BY <1>1, <2>1 DEF SamplingTypeOK
    <3> QED BY <1>1, <2>1, <3>2, <3>3 DEF SamplingTypeOK
  <2>3. EscalatedByLast'
    BY <1>1, <2>1 DEF EscalatedByLast, SamplingTypeOK
  <2>4. \A q \in Served : served'[q] = IF q = r THEN Unserved ELSE served[q]
    BY <1>1, <2>1 DEF SamplingTypeOK
  <2>5. \A q \in Served : served'[q].running => served'[q].since <= now'
    BY <1>1, <1>2, <2>1, <2>4
  <2>6. EscalationHolds'
    <3>1. rate' \in MinRate..MaxRate
      BY <2>2 DEF SamplingTypeOK
    <3>2. CASE lastBad' = now
      <4>1. \A q \in Served : served'[q].running => ~ (served'[q].since > lastBad')
        <5>1. \A q \in Served : served'[q].running => served'[q].since \in Nat
          BY <1>1, <1>2, <2>4 DEF SamplingTypeOK, Unserved
        <5> QED BY <1>1, <2>1, <2>5, <3>2, <5>1 DEF SamplingTypeOK
      <4> QED BY <3>1, <4>1 DEF EscalationHolds
    <3>3. CASE UNCHANGED lastBad
      BY <1>1, <1>2, <2>4, <3>1, <3>3 DEF EscalationHolds
    <3> QED BY <2>1, <3>2, <3>3
  <2> QED BY <2>2, <2>3, <2>5, <2>6 DEF SamplingInv
<1>5. CASE Tick /\ UNCHANGED samplingVars
  <2>1. /\ now' = now + 1 /\ now' \in 0..MaxTime
        /\ UNCHANGED <<rate, window, escalatedUntil, served, lastBad>>
    BY <1>1, <1>5 DEF Tick, samplingVars, SamplingTypeOK
  <2>2. \A r \in Served : served[r].running => served[r].since \in Nat
    BY <1>1, <1>2 DEF SamplingTypeOK, Unserved
  <2>3. SamplingTypeOK'
    BY <1>1, <2>1 DEF SamplingTypeOK
  <2>4. EscalatedByLast'
    BY <1>1, <2>1 DEF SamplingTypeOK, EscalatedByLast
  <2>5. EscalationHolds'
    BY <1>1, <2>1 DEF EscalationHolds
  <2>6. \A r \in Served : served'[r].running => served'[r].since <= now'
    BY <1>1, <2>1, <2>2 DEF SamplingTypeOK
  <2> QED BY <2>3, <2>4, <2>5, <2>6 DEF SamplingInv
<1>6. CASE UNCHANGED <<now, samplingVars>>
  BY <1>1, <1>6
     DEF samplingVars, SamplingInv, SamplingTypeOK, EscalatedByLast, EscalationHolds
<1> QED BY <1>3, <1>4, <1>5, <1>6 DEF SamplingNext

\* After a failed or slow request every request has a profiler for EscalationTime,
\* whatever the rate adjustments and however requests overlap.
THEOREM EscalationIsHeld == SamplingSpec => []EscalationHolds
<1>1. now = 0 /\ SamplingInit => SamplingInv
  BY ClockAssumption, SamplingAssumption
     DEF SamplingInit, SamplingInv, SamplingTypeOK, EscalatedByLast, EscalationHolds, Unserved,
         Never, Time
<1>2. SamplingInv => EscalationHolds
  BY DEF SamplingInv
<1> QED BY <1>1, <1>2, SamplingStep, PTL DEF SamplingSpec

----------------------------------------------------------------------------
(* Alerts (core/observability/alerts.py) *)

\* A health check, and what moves between two of them.
LEMMA AlertStep == AlertInv /\ [AlertNext]_alertVars => AlertInv'
<1> SUFFICES ASSUME AlertInv, [AlertNext]_alertVars
             PROVE  AlertInv'
  OBVIOUS
<1>1. AlertTypeOK /\ UnseenUntold /\ AlertsReportOnce
  BY DEF AlertInv
<1>2. ASSUME NEW c \in CheckedCounters, Grows(c)
      PROVE  AlertInv'
  BY <1>1, <1>2 DEF Grows, AlertInv, AlertTypeOK, UnseenUntold, AlertsReportOnce
<1>3. ASSUME NEW g \in Gauges, NEW level \in Levels, PressureChanges(g, level)
      PROVE  AlertInv'
  BY <1>1, <1>3 DEF PressureChanges, AlertInv, AlertTypeOK, UnseenUntold, AlertsReportOnce
<1>4. CASE PoolAppears
  BY <1>1, <1>4 DEF PoolAppears, AlertInv, AlertTypeOK, UnseenUntold, AlertsReportOnce
<1>5. CASE Evaluate
  <2>1. Alerts \subseteq Codes
    BY <1>1 DEF Alerts, Codes, Shown, CheckedCounters, AlertTypeOK
  <2>2. \A c \in CheckedCounters : Delta(c) \in Int
    BY <1>1 DEF Delta, AlertTypeOK, Unseen
  <2>3. /\ checked' \in [CheckedCounters -> Nat \cup {Unseen}]
        /\ alerted' \in [CheckedCounters -> Int] /\ skipped' \in [CheckedCounters -> Nat]
    BY <1>1, <1>5, <2>2 DEF Evaluate, AlertTypeOK
  <2>4. ASSUME NEW c \in Codes
        PROVE  /\ logged'[c] \in {"none", "raised", "resolved"}
               /\ logged'[c] = "raised" <=> c \in firing'
    BY <1>1, <1>5, <2>1 DEF Evaluate, LogNewlyFiring, Line, AlertTypeOK, AlertsReportOnce
  <2>5. logged' \in [Codes -> {"none", "raised", "resolved", "repeated"}] /\ firing' \subseteq Codes
    BY <1>5, <2>1, <2>4 DEF Evaluate, LogNewlyFiring
  <2>6. ASSUME NEW c \in CheckedCounters
        PROVE  /\ checked'[c] = Unseen => alerted'[c] = 0 /\ skipped'[c] = 0
               /\ checked'[c] # Unseen => alerted'[c] + skipped'[c] = checked'[c]
    <3>1. /\ checked'[c] = IF c \in Shown THEN total[c] ELSE checked[c]
          /\ alerted'[c] = alerted[c] + (IF c \in Shown THEN Delta(c) ELSE 0)
          /\ skipped'[c] = IF c \in Shown /\ checked[c] = Unseen THEN total[c] ELSE skipped[c]
      BY <1>5 DEF Evaluate
    <3>2. /\ total[c] \in Nat /\ checked[c] \in Nat \cup {-1}
          /\ alerted[c] \in Int /\ skipped[c] \in Nat
          /\ checked[c] = -1 => alerted[c] = 0 /\ skipped[c] = 0
          /\ checked[c] # -1 => alerted[c] + skipped[c] = checked[c]
      BY <1>1 DEF AlertTypeOK, UnseenUntold, AlertsReportOnce, Unseen
    <3>3. Delta(c) = IF checked[c] = -1 THEN 0 ELSE total[c] - checked[c]
      BY DEF Delta, Unseen
    <3> QED BY <3>1, <3>2, <3>3 DEF Unseen
  <2> QED
    BY <1>1, <1>5, <2>3, <2>4, <2>5, <2>6
       DEF Evaluate, AlertInv, AlertTypeOK, UnseenUntold, AlertsReportOnce
<1>6. CASE UNCHANGED alertVars
  BY <1>1, <1>6 DEF alertVars, AlertInv, AlertTypeOK, UnseenUntold, AlertsReportOnce, Alerts
<1> QED BY <1>2, <1>3, <1>4, <1>5, <1>6 DEF AlertNext

\* However the health checks fall, each increment of a counter is in exactly one alert,
\* and the raised and resolved lines of a code alternate.
THEOREM AlertsAreExact == AlertSpec => []AlertsReportOnce
<1>1. ASSUME AlertInit
      PROVE  AlertInv
  <2>1. /\ total \in [CheckedCounters -> Nat]
        /\ checked \in [CheckedCounters -> Nat \cup {Unseen}]
        /\ alerted \in [CheckedCounters -> Int] /\ skipped \in [CheckedCounters -> Nat]
    BY <1>1 DEF AlertInit
  <2>2. /\ pressure \in [Gauges -> Levels] /\ poolShown \in BOOLEAN /\ firing \subseteq Codes
        /\ logged \in [Codes -> {"none", "raised", "resolved", "repeated"}]
    BY <1>1 DEF AlertInit, Levels
  <2>3. UnseenUntold /\ AlertsReportOnce
    BY <1>1 DEF AlertInit, UnseenUntold, AlertsReportOnce, Unseen
  <2> QED BY <2>1, <2>2, <2>3 DEF AlertInv, AlertTypeOK
<1>2. AlertInv => AlertsReportOnce
  BY DEF AlertInv
<1> QED BY <1>1, <1>2, AlertStep, PTL DEF AlertSpec

----------------------------------------------------------------------------
(* The service schema and the first administrator (service_db.py, bootstrap_admin.py) *)

\* The twelve statements of create_tables() make every object.
LEMMA ObjectsInOrder == Objects \subseteq {ObjectAt(i) : i \in 1..12}
<1> SUFFICES ASSUME NEW kind \in {"table", "indexes"}, NEW j \in 1..6
             PROVE  \E i \in 1..12 : ObjectAt(i) = <<kind, Tables[j]>>
  BY DEF Objects
<1>1. CASE kind = "table"
  <2>1. 2 * j - 1 \in 1..12 /\ (2 * j - 1) % 2 = 1 /\ (2 * j - 1 + 1) \div 2 = j
    OBVIOUS
  <2> QED BY <1>1, <2>1 DEF ObjectAt
<1>2. CASE kind = "indexes"
  <2>1. 2 * j \in 1..12 /\ (2 * j) % 2 = 0 /\ (2 * j + 1) \div 2 = j
    OBVIOUS
  <2> QED BY <1>2, <2>1 DEF ObjectAt
<1> QED BY <1>1, <1>2

\* create_tables() makes nothing else.
LEMMA ObjectsAreObjects == \A i \in 1..12 : ObjectAt(i) \in Objects
<1> TAKE i \in 1..12
<1>1. (i + 1) \div 2 \in 1..6
  OBVIOUS
<1> QED BY <1>1 DEF ObjectAt, Objects

\* A row that is inserted is one, and nobody's is lost.
LEMMA Inserted ==
  ASSUME SchemaTypeOK, NEW a \in AccountArgs, NEW role \in {"admin", "viewer"}, InsertAs(a, role)
  PROVE  /\ users' \in [Names -> {NoUser} \cup [role : {"admin", "viewer"}, email : Emails]]
         /\ \A n \in Names : Exists(n) => Exists(n)'
         /\ Exists(a.name)' /\ users'[a.name].role = role
         /\ \A n \in Names : n # a.name => users'[n] = users[n]
<1> DEFINE x == [role |-> role, email |-> a.email]
<1>1. a.name \in Names /\ a.email \in Emails
  BY DEF AccountArgs
<1>2. x \in [role : {"admin", "viewer"}, email : Emails] /\ x.role = role /\ x # NoUser
  <2>1. NoUser.role = "none"
    BY DEF NoUser
  <2> QED BY <1>1, <2>1
<1>3. users' = [users EXCEPT ![a.name] = x]
  BY DEF InsertAs
<1> HIDE DEF x
<1> QED BY <1>1, <1>2, <1>3 DEF SchemaTypeOK, Exists

\* The statements of the startup and of the script, and their deaths.
LEMMA SchemaStep == SchemaInv /\ [SchemaNext]_schemaVars => SchemaInv'
<1> SUFFICES ASSUME SchemaInv, [SchemaNext]_schemaVars
             PROVE  SchemaInv'
  OBVIOUS
<1>1. SchemaTypeOK /\ CreatedSoFar /\ StartedOnFullSchema
  BY DEF SchemaInv
<1>2. /\ initial.account \in AccountArgs /\ initial.account.name \in Names
      /\ args.account \in AccountArgs /\ args.account.name \in Names
  BY <1>1 DEF SchemaTypeOK, AccountArgs
<1>3. ASSUME NEW p \in Processes, Starts(p)
      PROVE  SchemaInv'
  BY <1>1, <1>3
     DEF Starts, Now, SchemaInv, SchemaTypeOK, CreatedSoFar, StartedOnFullSchema, Exists,
         Processes
<1>4. ASSUME NEW p \in Processes, CreateNext(p)
      PROVE  SchemaInv'
  <2>1. next[p] \in 0..11 /\ next[p] + 1 \in 1..12 /\ ObjectAt(next[p] + 1) \in Objects
    <3>1. next[p] \in 0..11 /\ next[p] + 1 \in 1..12
      BY <1>1, <1>4 DEF CreateNext, SchemaTypeOK
    <3> QED BY <3>1, ObjectsAreObjects
  <2>2. SchemaTypeOK'
    BY <1>1, <1>4, <2>1 DEF CreateNext, SchemaTypeOK
  <2>3. \A q \in Processes : process'[q] = "tables" => \A i \in 1..next'[q] : ObjectAt(i) \in schema'
    <3> SUFFICES ASSUME NEW q \in Processes, process'[q] = "tables", NEW i \in 1..next'[q]
                 PROVE  ObjectAt(i) \in schema'
      OBVIOUS
    <3>1. next'[q] = IF q = p THEN next[p] + 1 ELSE next[q]
      BY <1>1, <1>4 DEF CreateNext, SchemaTypeOK
    <3>2. i \in 1..next[q] \/ (q = p /\ i = next[p] + 1)
      BY <2>1, <3>1
    <3> QED BY <1>1, <1>4, <3>2 DEF CreateNext, CreatedSoFar
  <2>4. StartedOnFullSchema'
    BY <1>1, <1>4, <2>1 DEF CreateNext, StartedOnFullSchema, SchemaTypeOK, Exists
  <2> QED BY <1>1, <1>4, <2>2, <2>3, <2>4 DEF CreateNext, SchemaInv, CreatedSoFar, Exists
<1>5. ASSUME NEW p \in Processes, TablesCreated(p)
      PROVE  SchemaInv'
  <2>1. schema = Objects
    <3>1. \A i \in 1..12 : ObjectAt(i) \in schema
      BY <1>1, <1>5 DEF TablesCreated, CreatedSoFar
    <3>2. \A o \in Objects : o \in schema
      BY ONLY <3>1, ObjectsInOrder
    <3> QED BY <1>1, <3>2 DEF SchemaTypeOK
  <2> QED
    BY <1>1, <1>5, <2>1
       DEF TablesCreated, Now, SchemaInv, SchemaTypeOK, CreatedSoFar, StartedOnFullSchema,
           Exists, Processes
<1>6. ASSUME NEW p \in Processes, Dies(p)
      PROVE  SchemaInv'
  BY <1>1, <1>6
     DEF Dies, Now, SchemaInv, SchemaTypeOK, CreatedSoFar, StartedOnFullSchema, Exists,
         Processes
<1>7. CASE ServerLooks
  BY <1>1, <1>7
     DEF ServerLooks, Now, SchemaInv, SchemaTypeOK, CreatedSoFar, StartedOnFullSchema, Exists,
         Processes
<1>8. CASE ServerInserts
  <2>1. CASE Insertable(initial.account)
    <3>1. InsertAs(initial.account, "admin") /\ Now("server", "up")
      BY <1>8, <2>1 DEF ServerInserts
    <3>2. ~ Exists(initial.account.name)
      BY <2>1 DEF Insertable
    <3> QED
      BY <1>1, <1>2, <1>8, <3>1, <3>2, Inserted
         DEF ServerInserts, Now, SchemaInv, SchemaTypeOK, CreatedSoFar, StartedOnFullSchema,
             Exists, Processes, NoUser
  <2>2. CASE ~ Insertable(initial.account)
    BY <1>1, <1>8, <2>2
       DEF ServerInserts, Now, SchemaInv, SchemaTypeOK, CreatedSoFar, StartedOnFullSchema,
           Exists, Processes
  <2> QED BY <2>1, <2>2
<1>9. ASSUME NEW a \in AccountArgs, Registers(a)
      PROVE  SchemaInv'
  <2>1. InsertAs(a, "viewer") /\ ~ Exists(a.name)
    BY <1>9 DEF Registers, Insertable
  <2> QED
    BY <1>1, <1>2, <1>9, <2>1, Inserted
       DEF Registers, SchemaInv, SchemaTypeOK, CreatedSoFar, StartedOnFullSchema, Exists, NoUser
<1>10. CASE ScriptLooks
  BY <1>1, <1>10
     DEF ScriptLooks, Now, SchemaInv, SchemaTypeOK, CreatedSoFar, StartedOnFullSchema, Exists,
         Processes
<1>11. CASE ScriptInserts
  <2>1. CASE Insertable(args.account)
    <3>1. InsertAs(args.account, "admin") /\ Granted
      BY <1>11, <2>1 DEF ScriptInserts
    <3> QED
      BY <1>1, <1>2, <1>11, <3>1, Inserted
         DEF ScriptInserts, Granted, Now, SchemaInv, SchemaTypeOK, CreatedSoFar,
             StartedOnFullSchema, Exists, Processes
  <2>2. CASE ~ Insertable(args.account)
    BY <1>1, <1>11, <2>2
       DEF ScriptInserts, Now, SchemaInv, SchemaTypeOK, CreatedSoFar, StartedOnFullSchema,
           Exists, Processes
  <2> QED BY <2>1, <2>2
<1>12. CASE ScriptPromotes
  <2> DEFINE n == args.account.name
             x == [users[n] EXCEPT !.role = "admin"]
  <2>1. users[n] \in [role : {"admin", "viewer"}, email : Emails]
    BY <1>1, <1>2, <1>12 DEF ScriptPromotes, CreatedSoFar, Exists, SchemaTypeOK
  <2>2. x \in [role : {"admin", "viewer"}, email : Emails] /\ x.role = "admin" /\ x # NoUser
    BY <2>1 DEF NoUser
  <2>3. users' = [users EXCEPT ![n] = x]
    BY <1>12 DEF ScriptPromotes
  <2> HIDE DEF n, x
  <2> QED
    BY <1>1, <1>2, <1>12, <2>2, <2>3
       DEF ScriptPromotes, Granted, Now, SchemaInv, SchemaTypeOK, CreatedSoFar,
           StartedOnFullSchema, Exists, Processes, n
<1>13. CASE ScriptIssuesKey
  <2>1. Exists(args.account.name)
    BY <1>1, <1>2, <1>13 DEF ScriptIssuesKey, StartedOnFullSchema, Exists, NoUser
  <2> QED
    BY <1>1, <1>2, <1>13, <2>1
       DEF ScriptIssuesKey, Now, SchemaInv, SchemaTypeOK, CreatedSoFar, StartedOnFullSchema,
           Exists, Processes
<1>14. CASE UNCHANGED schemaVars
  BY <1>1, <1>14
     DEF schemaVars, SchemaInv, SchemaTypeOK, CreatedSoFar, StartedOnFullSchema, Exists
<1> QED
  BY <1>3, <1>4, <1>5, <1>6, <1>7, <1>8, <1>9, <1>10, <1>11, <1>12, <1>13, <1>14
     DEF SchemaNext

\* Whichever startup or script died before, and whatever the other does meanwhile, a
\* process past create_tables() has the whole schema, and one that reports success has
\* its administrator.
THEOREM StartsComplete == SchemaSpec => []StartedOnFullSchema
<1>1. SchemaInit => SchemaInv
  BY DEF SchemaInit, SchemaInv, SchemaTypeOK, CreatedSoFar, StartedOnFullSchema, Processes
<1>2. SchemaInv => StartedOnFullSchema
  BY DEF SchemaInv
<1> QED BY <1>1, <1>2, SchemaStep, PTL DEF SchemaSpec

----------------------------------------------------------------------------
(* The quantile markers (core/performance/histogram.py) *)

\* A marker only moves into a gap: the order of the markers and the outer two stay.
LEMMA NudgeKeepsOrder ==
  ASSUME NEW want \in [1..5 -> Int], NEW pos \in [1..5 -> Int], NEW i \in 2..4,
         \A j \in 1..4 : pos[j] < pos[j + 1]
  PROVE  /\ Nudge(want, pos, i) \in [1..5 -> Int]
         /\ \A j \in 1..4 : Nudge(want, pos, i)[j] < Nudge(want, pos, i)[j + 1]
         /\ Nudge(want, pos, i)[1] = pos[1] /\ Nudge(want, pos, i)[5] = pos[5]
<1>1. PICK d \in {-1, 0, 1} :
        /\ Nudge(want, pos, i) = [pos EXCEPT ![i] = @ + d]
        /\ d = 1 => pos[i + 1] - pos[i] > 1
        /\ d = -1 => pos[i] - pos[i - 1] > 1
  <2>1. pos[i] \in Int /\ [pos EXCEPT ![i] = @ + 0] = pos
    OBVIOUS
  <2>2. \/ Nudge(want, pos, i) = [pos EXCEPT ![i] = @ + 1] /\ pos[i + 1] - pos[i] > 1
        \/ Nudge(want, pos, i) = [pos EXCEPT ![i] = @ - 1] /\ pos[i] - pos[i - 1] > 1
        \/ Nudge(want, pos, i) = pos
    BY DEF Nudge
  <2>3. [pos EXCEPT ![i] = @ - 1] = [pos EXCEPT ![i] = @ + (-1)]
    BY <2>1
  <2> QED BY <2>1, <2>2, <2>3
<1> DEFINE moved == [pos EXCEPT ![i] = @ + d]
<1>2. moved \in [1..5 -> Int] /\ \A j \in 1..5 : moved[j] = IF j = i THEN pos[j] + d ELSE pos[j]
  OBVIOUS
<1> HIDE DEF moved
<1>3. ASSUME NEW j \in 1..4
      PROVE  moved[j] < moved[j + 1]
  <2>1. pos[j] < pos[j + 1] /\ pos[j] \in Int /\ pos[j + 1] \in Int
    OBVIOUS
  <2>2. CASE j = i
    BY <1>1, <1>2, <2>1, <2>2
  <2>3. CASE j + 1 = i
    BY <1>1, <1>2, <2>1, <2>3
  <2>4. CASE j # i /\ j + 1 # i
    BY <1>2, <2>1, <2>4
  <2> QED BY <2>2, <2>3, <2>4
<1> QED BY <1>1, <1>2, <1>3 DEF moved

\* observe(): the first five values, then the cells and the three nudges.
LEMMA MarkersStep == MarkersInv /\ [HistogramNext]_histogramVars => MarkersInv'
<1> SUFFICES ASSUME MarkersInv, [HistogramNext]_histogramVars
             PROVE  MarkersInv'
  OBVIOUS
<1>1. MarkersTypeOK /\ MarkersApart /\ (Len(observed) <= 5 => position = <<1, 2, 3, 4, 5>>)
  BY DEF MarkersInv
<1>2. ASSUME NEW v \in Values, Observe(v)
      PROVE  MarkersInv'
  <2>1. observed' \in Seq(Values) /\ Len(observed') = Len(observed) + 1 /\ Len(observed) \in Nat
    BY <1>1, <1>2 DEF Observe, MarkersTypeOK
  <2>2. CASE Len(observed) < 5
    <3>1. UNCHANGED <<position, desired>> /\ position = <<1, 2, 3, 4, 5>>
      BY <1>1, <1>2, <2>1, <2>2 DEF Observe
    <3> QED BY <1>1, <2>1, <2>2, <3>1 DEF MarkersInv, MarkersTypeOK, MarkersApart
  <2>3. CASE ~ (Len(observed) < 5)
    <3>1. PICK cell \in 0..3 : UpdateMarkers(cell)
      BY <1>2, <2>3 DEF Observe
    <3> DEFINE want == [i \in 1..5 |-> desired[i] + Increments[i]]
               shifted == [i \in 1..5 |-> IF i > cell + 1 THEN position[i] + 1 ELSE position[i]]
               one == Nudge(want, shifted, 2)
               two == Nudge(want, one, 3)
               three == Nudge(want, two, 4)
    <3>2. desired' = want /\ position' = three
      BY <3>1 DEF UpdateMarkers
    <3>3. want \in [1..5 -> Int]
      <4>1. \A i \in 1..5 : Increments[i] \in Int
        BY HistogramAssumption DEF Increments, Unit
      <4>2. \A i \in 1..5 : desired[i] \in Int
        BY <1>1 DEF MarkersTypeOK
      <4>3. \A i \in 1..5 : desired[i] + Increments[i] \in Int
        BY <4>1, <4>2
      <4> QED BY <4>3
    <3>4. /\ shifted \in [1..5 -> Int] /\ \A j \in 1..4 : shifted[j] < shifted[j + 1]
          /\ shifted[1] = 1 /\ shifted[5] = Len(observed) + 1
      <4>1. \A i \in 1..5 : position[i] \in Int
        BY <1>1 DEF MarkersTypeOK
      <4>2. /\ \A j \in 1..4 : position[j] < position[j + 1]
            /\ position[1] = 1 /\ position[5] = Len(observed)
        BY <1>1, <2>1, <2>3 DEF MarkersApart
      <4>3. \A i \in 1..5 : shifted[i] = IF i > cell + 1 THEN position[i] + 1 ELSE position[i]
        OBVIOUS
      <4>4. shifted \in [1..5 -> Int]
        BY <4>1
      <4> HIDE DEF shifted
      <4>5. ASSUME NEW j \in 1..4
            PROVE  shifted[j] < shifted[j + 1]
        <5>1. /\ j \in 1..5 /\ j + 1 \in 1..5 /\ position[j] < position[j + 1]
              /\ j > cell + 1 => j + 1 > cell + 1
          BY <4>2
        <5>2. position[j] \in Int /\ position[j + 1] \in Int
          BY <4>1, <5>1
        <5> QED BY <4>3, <5>1, <5>2
      <4> QED BY <4>2, <4>3, <4>4, <4>5
    <3> HIDE DEF want, shifted
    <3>5. /\ one \in [1..5 -> Int] /\ \A j \in 1..4 : one[j] < one[j + 1]
          /\ one[1] = 1 /\ one[5] = Len(observed) + 1
      BY <3>3, <3>4, NudgeKeepsOrder
    <3> HIDE DEF one
    <3>6. /\ two \in [1..5 -> Int] /\ \A j \in 1..4 : two[j] < two[j + 1]
          /\ two[1] = 1 /\ two[5] = Len(observed) + 1
      BY <3>3, <3>5, NudgeKeepsOrder
    <3> HIDE DEF two
    <3>7. /\ three \in [1..5 -> Int] /\ \A j \in 1..4 : three[j] < three[j + 1]
          /\ three[1] = 1 /\ three[5] = Len(observed) + 1
      BY <3>3, <3>6, NudgeKeepsOrder
    <3> HIDE DEF three
    <3> QED
      BY <2>1, <2>3, <3>2, <3>3, <3>7 DEF MarkersInv, MarkersTypeOK, MarkersApart
  <2> QED BY <2>2, <2>3
<1>3. CASE UNCHANGED histogramVars
  BY <1>1, <1>3 DEF histogramVars, MarkersInv, MarkersTypeOK, MarkersApart
<1> QED BY <1>2, <1>3 DEF HistogramNext

\* Whatever is observed, in whatever order: the markers' positions stay distinct, so that
\* the parabola divides by no zero, and the outer two are the first and the last.
THEOREM MarkersNeverMeet == HistogramSpec => []MarkersApart
<1>1. ASSUME HistogramInit
      PROVE  MarkersInv
  <2>1. observed = <<>> /\ position = <<1, 2, 3, 4, 5>>
    BY <1>1 DEF HistogramInit
  <2>2. desired \in [1..5 -> Int]
    BY <1>1, HistogramAssumption DEF HistogramInit, Unit
  <2> QED BY <2>1, <2>2 DEF MarkersInv, MarkersTypeOK, MarkersApart
<1>2. MarkersInv => MarkersApart
  BY DEF MarkersInv
<1> QED BY <1>1, <1>2, MarkersStep, PTL DEF HistogramSpec

----------------------------------------------------------------------------
(* The rate limiter (core/auth/rate_limiter.py) *)

\* The loop that pops stops at the first attempt that is not before the cutoff.
LEMMA PoppedUpToCutoff ==
  ASSUME NEW b \in Seq(Nat), now \in Nat
  PROVE  /\ Popped(b) \in 0..Len(b)
         /\ \A i \in 1..Popped(b) : b[i] + Window < now
<1> DEFINE Stop == {n \in 0..Len(b) : n < Len(b) => ~ (b[n + 1] + Window < now)}
<1>1. Stop \in SUBSET Nat /\ Len(b) \in Stop
  BY LenProperties
<1>2. PICK m \in Stop : \A n \in Stop : m <= n
  <2> HIDE DEF Stop
  <2> QED BY <1>1, LeastElement
<1>3. ASSUME NEW i \in 1..m
      PROVE  b[i] + Window < now
  <2>1. Len(b) \in Nat /\ m \in 0..Len(b) /\ i \in 1..m
    BY <1>2, LenProperties
  <2>2. i - 1 \in 0..Len(b) /\ i - 1 < m /\ i - 1 < Len(b) /\ (i - 1) + 1 = i
    BY <2>1
  <2>3. i - 1 \notin Stop
    <3> HIDE DEF Stop
    <3>1. i - 1 \in Stop => m <= i - 1
      BY <1>2
    <3> QED BY <2>1, <2>2, <3>1
  <2> QED BY <2>2, <2>3
<1>4. m < Len(b) => b[m + 1] + Window >= now
  <2> SUFFICES ASSUME m < Len(b)
               PROVE  b[m + 1] + Window >= now
    OBVIOUS
  <2>1. m \in 0..Len(b) /\ ~ (b[m + 1] + Window < now)
    BY <1>2
  <2>2. b[m + 1] \in Nat
    <3>1. m + 1 \in 1..Len(b)
      BY <2>1, LenProperties
    <3> QED BY <3>1, ElementOfSeq
  <2> QED BY <2>1, <2>2, RateLimiterAssumption
<1> QED BY <1>2, <1>3, <1>4 DEF Popped

\* What popping leaves of a bucket.
LEMMA RecentIsRest ==
  ASSUME NEW b \in Seq(Nat), now \in Nat
  PROVE  /\ Recent(b) \in Seq(Nat) /\ Len(Recent(b)) = Len(b) - Popped(b)
         /\ \A i \in 1..(Len(b) - Popped(b)) : Recent(b)[i] = b[Popped(b) + i]
<1>1. Popped(b) \in 0..Len(b) /\ Len(b) \in Nat
  BY PoppedUpToCutoff, LenProperties
<1> DEFINE p == Popped(b)
<1> HIDE DEF p
<1>2. p \in 0..Len(b)
  BY <1>1 DEF p
<1> DEFINE r == SubSeq(b, p + 1, Len(b))
<1>3. /\ r \in Seq(Nat) /\ Len(r) = IF p + 1 <= Len(b) THEN Len(b) - (p + 1) + 1 ELSE 0
      /\ \A i \in 1..(Len(b) - (p + 1) + 1) : r[i] = b[(p + 1) + i - 1]
  BY <1>1, <1>2, SubSeqProperties
<1> HIDE DEF r
<1>4. /\ r \in Seq(Nat) /\ Len(r) = Len(b) - p
      /\ \A i \in 1..(Len(b) - p) : r[i] = b[p + i]
  <2>1. Len(r) = Len(b) - p
    BY <1>1, <1>2, <1>3
  <2>2. ASSUME NEW i \in 1..(Len(b) - p)
        PROVE  r[i] = b[p + i]
    <3>1. i \in 1..(Len(b) - (p + 1) + 1) /\ (p + 1) + i - 1 = p + i
      BY <1>1, <1>2
    <3> QED BY <1>3, <3>1
  <2> QED BY <1>3, <2>1, <2>2
<1> QED BY <1>4 DEF Recent, p, r

Spaced(g) == \A i \in 1..(Len(g) - MaxAttempts) : g[i + MaxAttempts] - g[i] > Window

\* What one call of check_and_record() does to the bucket and to the attempts it allowed.
LEMMA Recorded ==
  ASSUME now \in Nat, NEW b \in Seq(Nat), NEW g \in Seq(Nat), IsRestOf(b, g), Spaced(g),
         NEW b2, NEW g2,
         \/ /\ Len(Recent(b)) < MaxAttempts
            /\ b2 = Append(Recent(b), now) /\ g2 = Append(g, now)
         \/ b2 = Recent(b) /\ g2 = g
  PROVE  b2 \in Seq(Nat) /\ g2 \in Seq(Nat) /\ IsRestOf(b2, g2) /\ Spaced(g2)
<1> DEFINE gone == Len(g) - Len(b)
           p == Popped(b)
           r == Recent(b)
           all == gone + p
<1>1. /\ MaxAttempts \in Nat /\ 1 <= MaxAttempts /\ Window \in Nat
      /\ Len(g) \in Nat /\ Len(b) \in Nat /\ gone \in Nat /\ gone = Len(g) - Len(b)
      /\ \A i \in 1..Len(g) : g[i] \in Nat
  BY RateLimiterAssumption, LenProperties, ElementOfSeq DEF IsRestOf
<1>2. p \in 0..Len(b) /\ \A i \in 1..p : b[i] + Window < now
  BY PoppedUpToCutoff
<1>3. /\ r \in Seq(Nat) /\ Len(r) = Len(b) - p
      /\ \A i \in 1..(Len(b) - p) : r[i] = b[p + i]
  BY RecentIsRest
<1>4. /\ \A i \in 1..Len(g) : g[i] <= now
      /\ \A i, j \in 1..Len(g) : i <= j => g[i] <= g[j]
      /\ \A i \in 1..gone : g[i] + Window < now
      /\ \A i \in 1..Len(b) : b[i] = g[gone + i]
  BY DEF IsRestOf
<1>5. \/ /\ Len(r) < MaxAttempts
         /\ b2 = Append(r, now) /\ g2 = Append(g, now)
      \/ b2 = r /\ g2 = g
  OBVIOUS
<1> HIDE DEF gone, p, r
<1>6. all \in Nat /\ Len(r) = Len(g) - all /\ Len(r) \in Nat
  BY <1>1, <1>2, <1>3
<1>7. ASSUME NEW i \in 1..all
      PROVE  i \in 1..Len(g) /\ g[i] + Window < now
  <2>1. CASE i <= gone
    BY <1>1, <1>2, <1>4, <2>1
  <2>2. CASE ~ (i <= gone)
    <3>1. i - gone \in 1..p /\ i - gone \in 1..Len(b) /\ gone + (i - gone) = i
      BY <1>1, <1>2, <2>2
    <3>2. b[i - gone] = g[i] /\ b[i - gone] + Window < now
      BY <1>2, <1>4, <3>1
    <3> QED BY <1>1, <3>1, <3>2
  <2> QED BY <2>1, <2>2
<1>8. ASSUME NEW i \in 1..Len(r)
      PROVE  r[i] = g[all + i]
  <2>1. p + i \in 1..Len(b) /\ i \in 1..(Len(b) - p) /\ gone + (p + i) = all + i
    BY <1>1, <1>2, <1>3
  <2>2. r[i] = b[p + i] /\ b[p + i] = g[gone + (p + i)]
    BY <1>3, <1>4, <2>1
  <2> QED BY <2>1, <2>2
<1> HIDE DEF all
<1>9. CASE b2 = r /\ g2 = g
  <2>1. Len(g) - Len(r) = all
    BY <1>1, <1>6
  <2>2. IsRestOf(r, g)
    BY <1>4, <1>6, <1>7, <1>8, <2>1 DEF IsRestOf
  <2> QED BY <1>3, <1>9, <2>2
<1>10. CASE Len(r) < MaxAttempts /\ b2 = Append(r, now) /\ g2 = Append(g, now)
  <2>1. /\ b2 \in Seq(Nat) /\ Len(b2) = Len(r) + 1 /\ b2[Len(r) + 1] = now
        /\ \A i \in 1..Len(r) : b2[i] = r[i]
    BY <1>3, <1>10, AppendProperties
  <2>2. /\ g2 \in Seq(Nat) /\ Len(g2) = Len(g) + 1 /\ g2[Len(g) + 1] = now
        /\ \A i \in 1..Len(g) : g2[i] = g[i]
    BY <1>10, AppendProperties
  <2>3. Len(g2) - Len(b2) = all
    BY <1>1, <1>6, <2>1, <2>2
  <2>4. ASSUME NEW i \in 1..Len(g2)
        PROVE  g2[i] <= now
    <3>1. CASE i = Len(g) + 1
      BY <2>2, <3>1
    <3>2. CASE i # Len(g) + 1
      <4>1. i \in 1..Len(g)
        BY <1>1, <2>2, <3>2
      <4> QED BY <1>4, <2>2, <4>1
    <3> QED BY <3>1, <3>2
  <2>5. \A i, j \in 1..Len(g2) : i <= j => g2[i] <= g2[j]
    <3> SUFFICES ASSUME NEW i \in 1..Len(g2), NEW j \in 1..Len(g2), i <= j
                 PROVE  g2[i] <= g2[j]
      OBVIOUS
    <3>1. CASE j = Len(g) + 1
      BY <2>2, <2>4, <3>1
    <3>2. CASE j # Len(g) + 1
      <4>1. i \in 1..Len(g) /\ j \in 1..Len(g)
        <5>1. Len(g2) = Len(g) + 1 /\ Len(g) \in Nat /\ i \in 1..Len(g2) /\ j \in 1..Len(g2) /\ i <= j
          BY <1>1, <2>2
        <5> QED BY ONLY <3>2, <5>1
      <4> QED BY <1>4, <2>2, <4>1
    <3> QED BY <3>1, <3>2
  <2>6. \A i \in 1..all : g2[i] + Window < now
    BY <1>7, <2>2
  <2>7. ASSUME NEW i \in 1..Len(b2)
        PROVE  b2[i] = g2[all + i]
    <3>1. CASE i = Len(r) + 1
      BY <1>1, <1>6, <2>1, <2>2, <3>1
    <3>2. CASE i # Len(r) + 1
      <4>1. i \in 1..Len(r) /\ all + i \in 1..Len(g)
        BY <1>1, <1>6, <2>1, <3>2
      <4> QED BY <1>8, <2>1, <2>2, <4>1
    <3> QED BY <3>1, <3>2
  <2>8. ASSUME NEW i \in 1..(Len(g2) - MaxAttempts)
        PROVE  g2[i + MaxAttempts] - g2[i] > Window
    <3>1. CASE i + MaxAttempts = Len(g) + 1
      <4>1. i \in 1..all
        BY <1>1, <1>6, <1>10, <3>1
      <4>2. i \in 1..Len(g) /\ g[i] \in Nat /\ g[i] + Window < now
        BY <1>1, <1>7, <4>1
      <4>3. g2[i] = g[i] /\ g2[i + MaxAttempts] = now
        BY <2>2, <3>1, <4>2
      <4> QED BY <1>1, <4>2, <4>3
    <3>2. CASE i + MaxAttempts # Len(g) + 1
      <4>1. i \in 1..(Len(g) - MaxAttempts) /\ i \in 1..Len(g) /\ i + MaxAttempts \in 1..Len(g)
        <5>1. Len(g2) = Len(g) + 1 /\ i \in 1..(Len(g2) - MaxAttempts)
          BY <2>2
        <5>2. Len(g) \in Nat /\ MaxAttempts \in Nat /\ 1 <= MaxAttempts
          BY <1>1
        <5> QED BY ONLY <3>2, <5>1, <5>2
      <4> QED BY <2>2, <4>1 DEF Spaced
    <3> QED BY <3>1, <3>2
  <2>9. IsRestOf(b2, g2)
    <3> DEFINE rest == Len(g2) - Len(b2)
    <3>1. rest = all /\ rest >= 0
      BY <1>6, <2>3
    <3> HIDE DEF rest
    <3>2. /\ \A i \in 1..rest : g2[i] + Window < now
          /\ \A i \in 1..Len(b2) : b2[i] = g2[rest + i]
      BY <2>6, <2>7, <3>1
    <3> QED BY ONLY <2>4, <2>5, <3>1, <3>2 DEF IsRestOf, rest
  <2>10. Spaced(g2)
    BY <2>8 DEF Spaced
  <2> QED BY <2>1, <2>2, <2>9, <2>10
<1> QED BY <1>5, <1>9, <1>10

\* check_and_record(), reset() and the clock.
LEMMA LimiterStep == LimiterInv /\ [LimiterNext]_<<now, limiterVars>> => LimiterInv'
<1> SUFFICES ASSUME LimiterInv, [LimiterNext]_<<now, limiterVars>>
             PROVE  LimiterInv'
  OBVIOUS
<1>1. /\ LimiterTypeOK
      /\ \A k \in Keys : IsRestOf(attempts[k], granted[k]) /\ Spaced(granted[k])
  BY DEF LimiterInv, BucketIsRest, WindowBound, Spaced
\* It is enough to look at each key.
<1>2. ASSUME now' \in Nat, verifying' \subseteq Callers,
             attempts' \in [Keys -> Seq(Nat)], granted' \in [Keys -> Seq(Nat)],
             \A k \in Keys : IsRestOf(attempts[k], granted[k])' /\ Spaced(granted'[k])
      PROVE  LimiterInv'
  BY <1>2 DEF LimiterInv, LimiterTypeOK, BucketIsRest, WindowBound, Spaced
<1>3. ASSUME NEW k \in Keys, CheckAndRecord(k), UNCHANGED now, verifying' \subseteq Callers
      PROVE  LimiterInv'
  <2> DEFINE b2 == IF Admits(k) THEN Append(Recent(attempts[k]), now) ELSE Recent(attempts[k])
             g2 == IF Admits(k) THEN Append(granted[k], now) ELSE granted[k]
  <2>1. attempts' = [attempts EXCEPT ![k] = b2] /\ granted' = [granted EXCEPT ![k] = g2]
    BY <1>3 DEF CheckAndRecord
  <2>2. /\ attempts[k] \in Seq(Nat) /\ granted[k] \in Seq(Nat) /\ now \in Nat
        /\ \/ /\ Len(Recent(attempts[k])) < MaxAttempts
              /\ b2 = Append(Recent(attempts[k]), now) /\ g2 = Append(granted[k], now)
           \/ b2 = Recent(attempts[k]) /\ g2 = granted[k]
    BY <1>1 DEF Admits, LimiterTypeOK
  <2> HIDE DEF b2, g2
  <2>3. b2 \in Seq(Nat) /\ g2 \in Seq(Nat) /\ IsRestOf(b2, g2) /\ Spaced(g2)
    BY <1>1, <2>2, Recorded
  <2>4. /\ attempts' \in [Keys -> Seq(Nat)] /\ granted' \in [Keys -> Seq(Nat)]
        /\ \A j \in Keys : /\ attempts'[j] = IF j = k THEN b2 ELSE attempts[j]
                           /\ granted'[j] = IF j = k THEN g2 ELSE granted[j]
    BY <1>1, <2>1, <2>3 DEF LimiterTypeOK
  <2>5. ASSUME NEW j \in Keys
        PROVE  IsRestOf(attempts'[j], granted'[j]) /\ Spaced(granted'[j])
    BY <1>1, <2>3, <2>4
  <2>6. ASSUME NEW j \in Keys
        PROVE  IsRestOf(attempts[j], granted[j])'
    <3>1. UNCHANGED now /\ IsRestOf(attempts'[j], granted'[j])
      BY <1>3, <2>5
    <3> QED BY ONLY <3>1 DEF IsRestOf
  <2> QED BY <1>2, <1>3, <2>2, <2>4, <2>5, <2>6
<1>4. ASSUME NEW c \in Callers, RegisterAttempt(c) \/ LoginAttempt(c)
      PROVE  LimiterInv'
  <2>1. <<"register", c>> \in Keys /\ <<"login", c>> \in Keys
    BY DEF Keys, Endpoints
  <2> QED BY <1>1, <1>3, <1>4, <2>1 DEF RegisterAttempt, LoginAttempt, LimiterTypeOK
<1>5. ASSUME NEW c \in Callers, LoginRefusedAgain(c)
      PROVE  LimiterInv'
  <2>1. UNCHANGED <<attempts, granted, now>> /\ verifying' \subseteq Callers
    BY <1>1, <1>5 DEF LoginRefusedAgain, LimiterTypeOK
  <2> QED
    BY <2>1 DEF LimiterInv, LimiterTypeOK, BucketIsRest, IsRestOf, WindowBound
<1>6. ASSUME NEW c \in Callers, LoginSucceeds(c)
      PROVE  LimiterInv'
  <2> DEFINE k == <<"login", c>>
  <2>1. k \in Keys
    BY DEF Keys, Endpoints
  <2>2. /\ attempts' = [attempts EXCEPT ![k] = <<>>] /\ granted' = [granted EXCEPT ![k] = <<>>]
        /\ UNCHANGED now /\ verifying' \subseteq Callers
    BY <1>1, <1>6 DEF LoginSucceeds, LimiterTypeOK
  <2> HIDE DEF k
  <2>3. /\ attempts' \in [Keys -> Seq(Nat)] /\ granted' \in [Keys -> Seq(Nat)]
        /\ \A j \in Keys : /\ attempts'[j] = IF j = k THEN <<>> ELSE attempts[j]
                           /\ granted'[j] = IF j = k THEN <<>> ELSE granted[j]
    BY <1>1, <2>1, <2>2 DEF LimiterTypeOK
  <2>4. IsRestOf(<<>>, <<>>) /\ Spaced(<<>>)
    <3>1. Len(<<>>) = 0 /\ MaxAttempts \in Nat
      BY RateLimiterAssumption
    <3> QED BY <3>1 DEF IsRestOf, Spaced
  <2>5. ASSUME NEW j \in Keys
        PROVE  IsRestOf(attempts'[j], granted'[j]) /\ Spaced(granted'[j])
    BY <1>1, <2>3, <2>4
  <2>6. ASSUME NEW j \in Keys
        PROVE  IsRestOf(attempts[j], granted[j])'
    <3>1. UNCHANGED now /\ IsRestOf(attempts'[j], granted'[j])
      BY <2>2, <2>5
    <3> QED BY ONLY <3>1 DEF IsRestOf
  <2> QED BY <1>1, <1>2, <2>2, <2>3, <2>5, <2>6 DEF LimiterTypeOK
<1>7. CASE Tick /\ UNCHANGED limiterVars
  <2>1. now' = now + 1 /\ UNCHANGED <<attempts, verifying, granted>> /\ now \in Nat
    BY <1>1, <1>7 DEF Tick, limiterVars, LimiterTypeOK
  <2>2. ASSUME NEW k \in Keys
        PROVE  IsRestOf(attempts[k], granted[k])'
    <3> DEFINE b == attempts[k]
               g == granted[k]
    <3>1. IsRestOf(b, g) /\ b \in Seq(Nat) /\ g \in Seq(Nat) /\ UNCHANGED <<b, g>>
      BY <1>1, <2>1 DEF LimiterTypeOK
    <3>2. \A i \in 1..Len(g) : g[i] \in Nat
      BY <3>1, ElementOfSeq
    <3>3. Window \in Nat /\ Len(g) \in Nat /\ Len(b) \in Nat
      BY <3>1, LenProperties, RateLimiterAssumption
    <3> HIDE DEF b, g
    <3>4. Len(g) - Len(b) \in Nat /\ Len(g) - Len(b) <= Len(g)
      BY <3>1, <3>3 DEF IsRestOf
    <3>5. \A i \in 1..(Len(g) - Len(b)) : g[i] + Window < now /\ i \in 1..Len(g)
      BY <3>1, <3>3, <3>4 DEF IsRestOf
    <3>6. \A i \in 1..(Len(g) - Len(b)) : g[i] + Window < now + 1
      BY <2>1, <3>2, <3>3, <3>5
    <3>7. \A i \in 1..Len(g) : g[i] <= now + 1
      BY <2>1, <3>1, <3>2 DEF IsRestOf
    <3> QED BY <2>1, <3>1, <3>6, <3>7 DEF IsRestOf, b, g
  <2> QED BY <1>1, <2>1, <2>2 DEF LimiterInv, LimiterTypeOK, BucketIsRest, WindowBound, Spaced
<1>8. CASE UNCHANGED <<now, limiterVars>>
  BY <1>8 DEF limiterVars, LimiterInv, LimiterTypeOK, BucketIsRest, IsRestOf, WindowBound
<1> QED BY <1>4, <1>5, <1>6, <1>7, <1>8 DEF LimiterNext

\* However the attempts of a caller fall, no more than MaxAttempts of them are allowed
\* within a window, for any limit and any window.
THEOREM WindowIsBounded == LimiterSpec => []WindowBound
<1>1. ASSUME now = 0, LimiterInit
      PROVE  LimiterInv
  <2>1. attempts = [k \in Keys |-> <<>>] /\ granted = [k \in Keys |-> <<>>] /\ verifying = {}
    BY <1>1 DEF LimiterInit
  <2>2. LimiterTypeOK
    BY <1>1, <2>1 DEF LimiterTypeOK
  <2>3. Len(<<>>) = 0 /\ MaxAttempts \in Nat
    BY RateLimiterAssumption
  <2>4. BucketIsRest
    BY <2>1, <2>3 DEF BucketIsRest, IsRestOf
  <2>5. WindowBound
    BY <2>1, <2>3 DEF WindowBound
  <2> QED BY <2>2, <2>4, <2>5 DEF LimiterInv
<1>2. LimiterInv => WindowBound
  BY DEF LimiterInv
<1> QED BY <1>1, <1>2, LimiterStep, PTL DEF LimiterSpec

----------------------------------------------------------------------------
(* The ages of cached results (core/db/cache.py and the query_cache table) *)

\* Deleting an entry, as leaving a queue, takes out one occurrence and keeps the order of
\* the others.
LEMMA RemoveFirstElements ==
  ASSUME NEW S, NEW s \in Seq(S), NEW e
  PROVE  \/ RemoveFirst(s, e) = s /\ \A i \in 1..Len(s) : s[i] # e
         \/ \E j \in 1..Len(s) :
              /\ s[j] = e
              /\ RemoveFirst(s, e) \in Seq(S)
              /\ Len(RemoveFirst(s, e)) = Len(s) - 1
              /\ \A i \in 1..(Len(s) - 1) :
                   RemoveFirst(s, e)[i] = IF i < j THEN s[i] ELSE s[i + 1]
<1>1. CASE ~ \E i \in 1..Len(s) : s[i] = e
  BY <1>1 DEF RemoveFirst
<1>2. CASE \E i \in 1..Len(s) : s[i] = e
  <2> DEFINE I == {i \in 1..Len(s) : s[i] = e}
             j == Min(I)
  <2>1. I \in SUBSET Nat /\ I # {}
    BY <1>2
  <2>2. PICK m \in I : \A n \in I : m <= n
    BY <2>1, LeastElement
  <2>3. j \in 1..Len(s) /\ s[j] = e
    <3>1. j \in I
      BY <2>2 DEF Min
    <3> QED BY <3>1
  <2>4. SelectInSeq(s, LAMBDA v : v = e) = j
    BY <2>1 DEF SelectInSeq
  <2>5. RemoveFirst(s, e) = SubSeq(s, 1, j - 1) \o SubSeq(s, j + 1, Len(s))
    BY <1>2, <2>4 DEF RemoveFirst, RemoveAt
  <2> HIDE DEF j
  <2> DEFINE a == SubSeq(s, 1, j - 1)
             b == SubSeq(s, j + 1, Len(s))
  <2>6. /\ a \in Seq(S) /\ Len(a) = j - 1
        /\ \A i \in 1..(j - 1) : a[i] = s[i]
    BY <2>3, SubSeqProperties, ElementOfSeq, LenProperties
  <2>7. /\ b \in Seq(S) /\ Len(b) = Len(s) - j
        /\ \A i \in 1..(Len(s) - j) : b[i] = s[j + i]
    BY <2>3, SubSeqProperties, ElementOfSeq, LenProperties
  <2> HIDE DEF a, b
  <2>8. Len(s) \in Nat /\ j \in Nat /\ 1 <= j /\ j <= Len(s)
    BY <2>3, LenProperties
  <2>9. /\ a \o b \in Seq(S) /\ Len(a \o b) = Len(s) - 1
        /\ \A i \in 1..(Len(s) - 1) :
             (a \o b)[i] = IF i <= j - 1 THEN a[i] ELSE b[i - (j - 1)]
    <3>1. Len(a) + Len(b) = Len(s) - 1
      BY <2>6, <2>7, <2>8
    <3>2. /\ a \o b \in Seq(S) /\ Len(a \o b) = Len(a) + Len(b)
          /\ \A i \in 1..(Len(a) + Len(b)) :
               (a \o b)[i] = IF i <= Len(a) THEN a[i] ELSE b[i - Len(a)]
      BY <2>6, <2>7, ConcatProperties
    <3> QED BY <2>6, <3>1, <3>2
  <2>10. ASSUME NEW i \in 1..(Len(s) - 1)
         PROVE  (a \o b)[i] = IF i < j THEN s[i] ELSE s[i + 1]
    <3>1. CASE i < j
      BY <2>6, <2>8, <2>9, <3>1
    <3>2. CASE ~ (i < j)
      <4>1. i - (j - 1) \in 1..(Len(s) - j) /\ j + (i - (j - 1)) = i + 1
        BY <2>8, <3>2
      <4>2. (a \o b)[i] = b[i - (j - 1)]
        BY <2>8, <2>9, <3>2
      <4> QED BY <2>7, <3>2, <4>1, <4>2
    <3> QED BY <3>1, <3>2
  <2> QED BY <2>3, <2>5, <2>9, <2>10 DEF a, b
<1> QED BY <1>1, <1>2

\* What is left was there.
LEMMA DeleteKeeps ==
  ASSUME NEW S, NEW s \in Seq(S), NEW e
  PROVE  /\ RemoveFirst(s, e) \in Seq(S)
         /\ \A i \in 1..Len(RemoveFirst(s, e)) : \E j \in 1..Len(s) : RemoveFirst(s, e)[i] = s[j]
<1> DEFINE t == RemoveFirst(s, e)
<1>1. CASE t = s
  BY <1>1
<1>2. ASSUME NEW j \in 1..Len(s), t \in Seq(S), Len(t) = Len(s) - 1,
             \A i \in 1..(Len(s) - 1) : t[i] = IF i < j THEN s[i] ELSE s[i + 1]
      PROVE  \A i \in 1..Len(t) : \E n \in 1..Len(s) : t[i] = s[n]
  <2> HIDE DEF t
  <2> TAKE i \in 1..Len(t)
  <2>1. i \in 1..Len(s) /\ i + 1 \in 1..Len(s) /\ i \in 1..(Len(s) - 1)
    BY <1>2, LenProperties
  <2> QED BY <1>2, <2>1
<1> QED BY <1>1, <1>2, RemoveFirstElements

\* An entry that was alive when L2 was read, as ReadAlive has it.
Lives(e) == e.at < e.until + e.lag

LivingSeq(s) == s \in Seq(Entries) /\ \A i \in 1..Len(s) : Lives(s[i])

\* Dropping a key, expired, replaced or invalidated.
LEMMA DropKeeps ==
  ASSUME NEW s, LivingSeq(s), NEW k
  PROVE  LivingSeq(Drop(s, k))
<1>1. Drop(s, k) = s \/ Drop(s, k) = RemoveFirst(s, In(s, k))
  BY DEF Drop
<1>2. LivingSeq(RemoveFirst(s, In(s, k)))
  <2> DEFINE e == In(s, k)
  <2> HIDE DEF e
  <2>1. s \in Seq(Entries) /\ \A j \in 1..Len(s) : Lives(s[j])
    BY DEF LivingSeq
  <2>2. /\ RemoveFirst(s, e) \in Seq(Entries)
        /\ \A i \in 1..Len(RemoveFirst(s, e)) :
             \E j \in 1..Len(s) : RemoveFirst(s, e)[i] = s[j]
    BY <2>1, DeleteKeeps
  <2>3. \A i \in 1..Len(RemoveFirst(s, e)) : Lives(RemoveFirst(s, e)[i])
    BY ONLY <2>1, <2>2
  <2> QED BY <2>2, <2>3 DEF LivingSeq, e
<1> QED BY <1>1, <1>2

\* An entry put or moved to the end.
LEMMA AppendKeeps ==
  ASSUME NEW s, LivingSeq(s), NEW e \in Entries, Lives(e)
  PROVE  LivingSeq(Append(s, e))
<1>1. /\ Append(s, e) \in Seq(Entries) /\ Len(Append(s, e)) = Len(s) + 1
      /\ Append(s, e)[Len(s) + 1] = e
      /\ \A i \in 1..Len(s) : Append(s, e)[i] = s[i]
  BY AppendProperties DEF LivingSeq
<1>2. Len(s) \in Nat /\ \A i \in 1..Len(s) : Lives(s[i])
  BY LenProperties DEF LivingSeq
<1>3. ASSUME NEW i \in 1..Len(Append(s, e))
      PROVE  Lives(Append(s, e)[i])
  <2>1. i \in 1..Len(s) \/ i = Len(s) + 1
    BY <1>1, <1>2
  <2> QED BY <1>1, <1>2, <2>1
<1> QED BY <1>1, <1>3 DEF LivingSeq

\* The least recently used entry gives way.
LEMMA TailKeeps ==
  ASSUME NEW s, LivingSeq(s), s # <<>>
  PROVE  LivingSeq(Tail(s))
<1>1. s \in Seq(Entries) /\ \A i \in 1..Len(s) : Lives(s[i])
  BY DEF LivingSeq
<1>2. /\ Tail(s) \in Seq(Entries) /\ Len(Tail(s)) = Len(s) - 1 /\ Len(s) \in Nat
      /\ \A i \in 1..Len(Tail(s)) : Tail(s)[i] = s[i + 1]
  BY <1>1, HeadTailProperties, LenProperties
<1>3. ASSUME NEW i \in 1..Len(Tail(s))
      PROVE  Lives(Tail(s)[i])
  <2>1. i + 1 \in 1..Len(s) /\ Tail(s)[i] = s[i + 1]
    BY <1>2
  <2> QED BY <1>1, <2>1
<1> QED BY <1>2, <1>3 DEF LivingSeq

\* A hit returns the entry of that key.
LEMMA InIsEntry ==
  ASSUME NEW s, LivingSeq(s), NEW k \in KeysOf(s)
  PROVE  In(s, k) \in Entries /\ Lives(In(s, k))
<1>1. PICK e \in ToSet(s) : e.key = k
  BY DEF KeysOf
<1>2. In(s, k) \in ToSet(s)
  BY <1>1 DEF In
<1>3. PICK i \in 1..Len(s) : In(s, k) = s[i]
  BY <1>2, LenProperties DEF ToSet, LivingSeq
<1> QED BY <1>3, ElementOfSeq DEF LivingSeq

\* put() in the LRU half.
LEMMA PutKeeps ==
  ASSUME LivingSeq(lru), now \in Nat, NEW k \in CacheKeys, NEW until \in Nat, NEW read \in Nat,
         read <= now, read < until
  PROVE  LivingSeq(LruPut(Entry(k, until, read)))
<1> DEFINE e == Entry(k, until, read)
<1>1. e \in Entries /\ Lives(e) /\ e.key = k
  <2>1. now - read \in Nat /\ now < until + (now - read)
    OBVIOUS
  <2> QED BY <2>1 DEF Entry, Entries, Lives
<1> HIDE DEF e
<1>2. LruPut(e) = Append(Drop(lru, e.key), e) \/ (lru # <<>> /\ LruPut(e) = Append(Tail(lru), e))
  <2>1. Len(<<>>) = 0 /\ 0 < L1Size
    BY CacheAgesAssumption
  <2> QED BY <2>1 DEF LruPut
<1> QED BY <1>1, <1>2, DropKeeps, TailKeeps, AppendKeeps DEF e

\* The hits, fills, writes and expiries of both cache levels.
LEMMA AgesStep == AgesInv /\ [AgesNext]_<<now, ageVars>> => AgesInv'
<1> SUFFICES ASSUME AgesInv, [AgesNext]_<<now, ageVars>>
             PROVE  AgesInv'
  OBVIOUS
<1> DEFINE Resolving == {Free} \cup [step : {"l2", "run"}]
                               \cup [step : {"hit"}, until : Nat, read : Nat]
           Held == \A k \in CacheKeys : resolving[k].step = "hit" =>
                     resolving[k].read <= now /\ resolving[k].read < resolving[k].until
<1>1. /\ now \in Nat /\ LivingSeq(lru) /\ CacheTTL \in Nat \ {0}
      /\ l2Until \in [CacheKeys -> Nat] /\ persisting \subseteq CacheKeys
      /\ resolving \in [CacheKeys -> Resolving] /\ Held
  BY CacheAgesAssumption DEF AgesInv, AgesTypeOK, ReadAlive, LivingSeq, Lives
<1>2. ASSUME now' \in Nat, LivingSeq(lru'), l2Until' \in [CacheKeys -> Nat],
             persisting' \subseteq CacheKeys, resolving' \in [CacheKeys -> Resolving], Held'
      PROVE  AgesInv'
  BY <1>2 DEF AgesInv, AgesTypeOK, ReadAlive, LivingSeq, Lives
<1>3. Free \in Resolving /\ Free.step = "free"
  BY DEF Free
<1>4. \A k \in CacheKeys :
        resolving[k].step = "hit" => resolving[k].until \in Nat /\ resolving[k].read \in Nat
  BY <1>1 DEF Free
\* A leader that is free again has nothing in hand.
<1>5. ASSUME NEW k \in CacheKeys, resolving' = [resolving EXCEPT ![k] = Free], UNCHANGED now
      PROVE  resolving' \in [CacheKeys -> Resolving] /\ Held'
  BY <1>1, <1>3, <1>5
<1>6. ASSUME NEW k \in CacheKeys, L1Hit(k)
      PROVE  AgesInv'
  <2>1. LivingSeq(lru')
    BY <1>1, <1>6, InIsEntry, DropKeeps, AppendKeeps DEF L1Hit
  <2> QED BY <1>1, <1>2, <1>6, <2>1 DEF L1Hit
<1>7. ASSUME NEW k \in CacheKeys, L1Missed(k)
      PROVE  AgesInv'
  <2> DEFINE x == [step |-> "l2"]
  <2>1. x \in Resolving /\ x.step = "l2"
    OBVIOUS
  <2>2. LivingSeq(lru') /\ resolving' = [resolving EXCEPT ![k] = x]
    BY <1>1, <1>7, DropKeeps DEF L1Missed
  <2> HIDE DEF x
  <2>3. UNCHANGED <<l2Until, persisting, now>>
    BY <1>7 DEF L1Missed
  <2>4. resolving' \in [CacheKeys -> Resolving] /\ Held'
    BY <1>1, <2>1, <2>2, <2>3
  <2> QED BY <1>1, <1>2, <2>2, <2>3, <2>4
<1>8. ASSUME NEW k \in CacheKeys, ReadL2(k)
      PROVE  AgesInv'
  <2> DEFINE x == IF l2Until[k] > now THEN [step |-> "hit", until |-> l2Until[k], read |-> now]
                                      ELSE [step |-> "run"]
  <2>1. x \in Resolving /\ (x.step = "hit" => x.read = now /\ x.read < x.until)
    <3>1. l2Until[k] \in Nat
      BY <1>1
    <3>2. CASE l2Until[k] > now
      BY <1>1, <3>1, <3>2
    <3>3. CASE ~ (l2Until[k] > now)
      BY <3>3
    <3> QED BY <3>2, <3>3
  <2>2. resolving' = [resolving EXCEPT ![k] = x] /\ UNCHANGED <<lru, l2Until, persisting, now>>
    BY <1>8 DEF ReadL2
  <2> HIDE DEF x
  <2>3. resolving' \in [CacheKeys -> Resolving] /\ Held'
    BY <1>1, <2>1, <2>2
  <2> QED BY <1>1, <1>2, <2>2, <2>3
<1>9. ASSUME NEW k \in CacheKeys, FillFromL2(k)
      PROVE  AgesInv'
  <2>1. LivingSeq(LruPut(Entry(k, resolving[k].until, resolving[k].read)))
    <3>1. /\ resolving[k].until \in Nat /\ resolving[k].read \in Nat
          /\ resolving[k].read <= now /\ resolving[k].read < resolving[k].until
      BY <1>1, <1>4, <1>9 DEF FillFromL2
    <3> QED BY <1>1, <3>1, PutKeeps
  <2>2. LivingSeq(lru')
    BY <1>9, <2>1 DEF FillFromL2, HybridPut
  <2>3. /\ resolving' = [resolving EXCEPT ![k] = Free]
        /\ UNCHANGED <<l2Until, persisting, now>>
    BY <1>9 DEF FillFromL2
  <2> QED BY <1>1, <1>2, <1>5, <2>2, <2>3
<1>10. ASSUME NEW k \in CacheKeys, FillFromWarehouse(k)
       PROVE  AgesInv'
  <2>1. LivingSeq(LruPut(Entry(k, now + CacheTTL, now)))
    <3>1. now + CacheTTL \in Nat /\ now < now + CacheTTL
      BY <1>1
    <3> QED BY <1>1, <3>1, PutKeeps
  <2>2. LivingSeq(lru')
    BY <1>10, <2>1 DEF FillFromWarehouse, HybridPut
  <2>3. /\ resolving' = [resolving EXCEPT ![k] = Free] /\ UNCHANGED <<l2Until, now>>
        /\ persisting' \subseteq CacheKeys
    BY <1>1, <1>10 DEF FillFromWarehouse
  <2> QED BY <1>1, <1>2, <1>5, <2>2, <2>3
<1>11. ASSUME NEW k \in CacheKeys, ResolveFails(k)
       PROVE  AgesInv'
  <2>1. /\ resolving' = [resolving EXCEPT ![k] = Free]
        /\ UNCHANGED <<lru, l2Until, persisting, now>>
    BY <1>11 DEF ResolveFails
  <2> QED BY <1>1, <1>2, <1>5, <2>1
<1>12. ASSUME NEW k \in CacheKeys, PersistResult(k)
       PROVE  AgesInv'
  <2>1. /\ l2Until' \in [CacheKeys -> Nat] /\ persisting' \subseteq CacheKeys
        /\ UNCHANGED <<lru, resolving, now>>
    BY <1>1, <1>12 DEF PersistResult
  <2> QED BY <1>1, <1>2, <2>1
<1>13. ASSUME NEW k \in CacheKeys, InvalidateKey(k)
       PROVE  AgesInv'
  <2>1. /\ LivingSeq(lru') /\ l2Until' \in [CacheKeys -> Nat]
        /\ UNCHANGED <<resolving, persisting, now>>
    BY <1>1, <1>13, DropKeeps DEF InvalidateKey
  <2> QED BY <1>1, <1>2, <2>1
<1>14. LivingSeq(<<>>)
  BY DEF LivingSeq
<1>15. CASE ClearCaches
  BY <1>1, <1>2, <1>14, <1>15 DEF ClearCaches
<1>16. CASE RestartCaches
  <2>1. /\ lru' = <<>> /\ persisting' = {} /\ UNCHANGED now
        /\ resolving' = [k \in CacheKeys |-> Free]
        /\ l2Until' \in [CacheKeys -> Nat]
    BY <1>1, <1>16 DEF RestartCaches
  <2>2. resolving' \in [CacheKeys -> Resolving] /\ Held'
    BY <1>3, <2>1
  <2> QED BY <1>1, <1>2, <1>14, <2>1, <2>2
<1>17. CASE Tick /\ UNCHANGED ageVars
  <2>1. now' = now + 1 /\ UNCHANGED <<lru, l2Until, resolving, persisting>>
    BY <1>17 DEF Tick, ageVars
  <2>2. Held'
    BY <1>1, <1>4, <2>1
  <2> QED BY <1>1, <1>2, <2>1, <2>2
<1>18. CASE UNCHANGED <<now, ageVars>>
  <2>1. UNCHANGED <<now, lru, l2Until, resolving, persisting>>
    BY <1>18 DEF ageVars
  <2> QED BY <1>1, <1>2, <2>1
<1> QED
  BY <1>6, <1>7, <1>8, <1>9, <1>10, <1>11, <1>12, <1>13, <1>15, <1>16, <1>17, <1>18 DEF AgesNext

\* However often an entry is hit and refilled, L1 serves a result for less than one
\* lifetime more than L2 would have, plus the time its leader took to resume.
THEOREM AgeIsBounded == AgesSpec => []HitAge
<1>1. ASSUME now = 0, AgesInit
      PROVE  AgesInv
  BY <1>1 DEF AgesInit, AgesInv, AgesTypeOK, ReadAlive, Free
<1>2. AgesInv => HitAge
  <2> SUFFICES ASSUME AgesInv, NEW e \in ToSet(lru), ~ Expired(e.at)
               PROVE  now < e.until + CacheTTL + e.lag
    BY DEF HitAge
  <2>1. PICK i \in 1..Len(lru) : e = lru[i]
    BY LenProperties DEF ToSet, AgesInv, AgesTypeOK
  <2>2. e \in Entries /\ e.at < e.until + e.lag /\ now \in Nat /\ CacheTTL \in Nat
    BY <2>1, ElementOfSeq, CacheAgesAssumption DEF AgesInv, AgesTypeOK, ReadAlive
  <2>3. e.at \in Nat /\ e.until \in Nat /\ e.lag \in Nat
    BY <2>2 DEF Entries
  <2> QED BY <2>2, <2>3 DEF Expired
<1> QED BY <1>1, <1>2, AgesStep, PTL DEF AgesSpec

----------------------------------------------------------------------------
(* The query gate (core/services/query_service.py) *)

\* How many permits are handed on.
LEMMA LeastOfTwo ==
  ASSUME NEW a \in Nat, NEW b \in Nat
  PROVE  Min({a, b}) \in Nat /\ Min({a, b}) <= a /\ (a > 0 /\ b > 0 => Min({a, b}) > 0)
<1>1. {a, b} \in SUBSET Nat /\ {a, b} # {}
  OBVIOUS
<1>2. PICK m \in {a, b} : \A n \in {a, b} : m <= n
  BY <1>1, LeastElement
<1>3. Min({a, b}) \in {a, b} /\ \A n \in {a, b} : Min({a, b}) <= n
  BY <1>2 DEF Min
<1> QED BY <1>3

\* A nonempty set of positions has a last one.
LEMMA GreatestElement ==
  ASSUME NEW k \in Nat, NEW I \in SUBSET (1..k), I # {}
  PROVE  \E g \in I : \A i \in I : i <= g
<1> DEFINE Above == {n \in Nat : \A i \in I : i <= n}
<1>1. Above \in SUBSET Nat /\ k \in Above
  OBVIOUS
<1>2. PICK g \in Above : \A n \in Above : g <= n
  <2> HIDE DEF Above
  <2> QED BY <1>1, LeastElement
<1>3. g \in I
  <2> SUFFICES ASSUME g \notin I
               PROVE  FALSE
    OBVIOUS
  <2>1. PICK x \in I : x \in Nat /\ 1 <= x
    <3>1. PICK x : x \in I
      OBVIOUS
    <3>2. x \in 1..k
      BY <3>1
    <3> QED BY ONLY <3>1, <3>2, k \in Nat
  <2>2. g \in Nat /\ \A i \in I : i \in Nat /\ i <= g /\ i # g
    BY <1>2
  <2>3. g - 1 \in Nat /\ \A i \in I : i <= g - 1
    BY <2>1, <2>2
  <2>4. g - 1 \in Above
    BY <2>3
  <2> HIDE DEF Above
  <2> QED BY <1>2, <2>2, <2>4
<1> QED BY <1>2, <1>3

\* Those with fewer than m before them are at most m, and some if there are any.
LEMMA FirstOnes ==
  ASSUME NEW k \in Nat, NEW I \in SUBSET (1..k), NEW m \in Nat
  PROVE  LET first == {i \in I : Cardinality({j \in I : j < i}) < m} IN
           /\ IsFiniteSet(first) /\ Cardinality(first) <= m
           /\ m > 0 /\ I # {} => first # {}
<1> DEFINE before(i) == {j \in I : j < i}
           first == {i \in I : Cardinality(before(i)) < m}
<1>1. IsFiniteSet(1..k)
  BY FS_Interval
<1>2. IsFiniteSet(I)
  BY <1>1, FS_Subset
<1>3. first \subseteq I /\ \A i : before(i) \subseteq I
  OBVIOUS
<1>4. IsFiniteSet(first) /\ \A i : IsFiniteSet(before(i))
  BY ONLY <1>2, <1>3, FS_Subset
<1>5. Cardinality(first) <= m
  <2>1. CASE first = {}
    <3>1. Cardinality(first) = 0
      BY ONLY <2>1, FS_EmptySet
    <3> QED BY ONLY <3>1, m \in Nat
  <2>2. CASE first # {}
    <3>1. first \in SUBSET (1..k)
      BY <1>3
    <3>2. PICK g \in first : \A i \in first : i <= g
      <4> HIDE DEF first
      <4> QED BY <2>2, <3>1, GreatestElement
    <3>3. Cardinality(before(g)) \in Nat /\ Cardinality(before(g)) < m
      BY <1>4, <3>2, FS_CardinalityType
    <3>4. first \subseteq before(g) \cup {g}
      <4>1. \A i \in first : i \in I /\ i \in Nat /\ g \in Nat /\ i <= g
        BY <3>2
      <4>2. \A i \in first : i \in I /\ (i < g \/ i = g)
        BY <4>1
      <4> QED BY <4>2
    <3> HIDE DEF first, before
    <3>5. IsFiniteSet(before(g) \cup {g}) /\ Cardinality(before(g) \cup {g}) <= Cardinality(before(g)) + 1
      <4>1. IsFiniteSet(before(g))
        BY <1>4
      <4>2. /\ IsFiniteSet(before(g) \cup {g})
            /\ Cardinality(before(g) \cup {g}) =
                 IF g \in before(g) THEN Cardinality(before(g)) ELSE Cardinality(before(g)) + 1
        BY ONLY <4>1, FS_AddElement
      <4> QED BY <3>3, <4>2
    <3>6. /\ Cardinality(first) <= Cardinality(before(g) \cup {g})
          /\ Cardinality(first) \in Nat /\ Cardinality(before(g) \cup {g}) \in Nat
      BY ONLY <1>4, <3>4, <3>5, FS_Subset, FS_CardinalityType
    <3> QED BY <3>3, <3>5, <3>6
  <2> QED BY <2>1, <2>2
<1>6. ASSUME m > 0, I # {}
      PROVE  first # {}
  <2>1. I \in SUBSET Nat
    OBVIOUS
  <2>2. PICK l \in I : \A i \in I : l <= i
    BY <1>6, <2>1, LeastElement
  <2>3. before(l) = {}
    <3>1. \A i \in I : i \in Nat /\ l \in Nat /\ l <= i
      BY <2>2
    <3>2. \A i \in I : ~ (i < l)
      BY <3>1
    <3> QED BY <3>2
  <2>4. Cardinality(before(l)) < m
    BY <1>6, <2>3, FS_EmptySet
  <2> QED BY <2>2, <2>4
<1> QED BY <1>4, <1>5, <1>6

\* What GateInv says of one class, of its permits and of its queue.
Those(st, tx, c, S) == {r \in Queries : st[r] \in S /\ ClassifyCost(tx[r]) = c}

ClassOK(st, tx, c, free, queue) ==
  /\ free \in Nat /\ queue \in Seq(Queries) /\ IsInjective(queue)
  /\ \A r \in Queries : r \in Those(st, tx, c, {"waiting", "granted"}) <=> r \in ToSet(queue)
  /\ Limit[c] - free = Cardinality(Those(st, tx, c, {"granted", "holding"}))
  /\ free > 0 /\ Those(st, tx, c, {"waiting"}) # {} => Those(st, tx, c, {"granted"}) # {}

\* GateInv says ClassOK of each cost class.
LEMMA GateByClass ==
  GateInv <=> GateTypeOK /\ \A c \in Costs : ClassOK(stage, text, c, permits[c], waiters[c])
<1> SUFFICES ASSUME GateTypeOK, NEW c \in Costs
             PROVE  ClassOK(stage, text, c, permits[c], waiters[c]) <=>
                      /\ IsInjective(waiters[c])
                      /\ \A r \in Queries : stage[r] \in {"waiting", "granted"} /\ Cost(r) = c
                                              <=> r \in ToSet(waiters[c])
                      /\ LET InStage(s) == {r \in Queries : stage[r] = s /\ Cost(r) = c} IN
                           /\ InUse(c) = Cardinality(InStage("granted") \cup InStage("holding"))
                           /\ permits[c] > 0 /\ InStage("waiting") # {} => InStage("granted") # {}
  BY DEF GateInv, QueuesHoldWaiters, GateNeverShrinks
<1>1. /\ permits[c] \in Nat /\ waiters[c] \in Seq(Queries)
      /\ \A r \in Queries : r \in Those(stage, text, c, {"waiting", "granted"}) <=>
                              stage[r] \in {"waiting", "granted"} /\ Cost(r) = c
  BY DEF GateTypeOK, Those, Cost
<1>2. /\ Those(stage, text, c, {"granted", "holding"}) =
           {r \in Queries : stage[r] = "granted" /\ Cost(r) = c}
             \cup {r \in Queries : stage[r] = "holding" /\ Cost(r) = c}
      /\ Those(stage, text, c, {"waiting"}) = {r \in Queries : stage[r] = "waiting" /\ Cost(r) = c}
      /\ Those(stage, text, c, {"granted"}) = {r \in Queries : stage[r] = "granted" /\ Cost(r) = c}
  BY DEF Those, Cost
<1> QED BY <1>1, <1>2 DEF ClassOK, InUse

\* And so it does after a step.
LEMMA GateByClassNext ==
  (GateInv <=> GateTypeOK /\ \A c \in Costs : ClassOK(stage, text, c, permits[c], waiters[c]))'
BY GateByClass, PTL

\* Requests of other classes, and those that neither wait nor hold, do not matter.
LEMMA SameClass ==
  ASSUME NEW st, NEW tx, NEW st2, NEW tx2, NEW c, NEW free, NEW queue,
         ClassOK(st, tx, c, free, queue),
         \A r \in Queries : \A s \in {"waiting", "granted", "holding"} :
           (st2[r] = s /\ ClassifyCost(tx2[r]) = c) <=> (st[r] = s /\ ClassifyCost(tx[r]) = c)
  PROVE  ClassOK(st2, tx2, c, free, queue)
<1>1. \A S \in SUBSET {"waiting", "granted", "holding"} :
        Those(st2, tx2, c, S) = Those(st, tx, c, S)
  <2> SUFFICES ASSUME NEW S \in SUBSET {"waiting", "granted", "holding"}, NEW r \in Queries
               PROVE  st2[r] \in S /\ ClassifyCost(tx2[r]) = c <=> st[r] \in S /\ ClassifyCost(tx[r]) = c
    BY DEF Those
  <2> QED OBVIOUS
<1>2. /\ Those(st2, tx2, c, {"waiting", "granted"}) = Those(st, tx, c, {"waiting", "granted"})
      /\ Those(st2, tx2, c, {"granted", "holding"}) = Those(st, tx, c, {"granted", "holding"})
      /\ Those(st2, tx2, c, {"waiting"}) = Those(st, tx, c, {"waiting"})
      /\ Those(st2, tx2, c, {"granted"}) = Those(st, tx, c, {"granted"})
  BY <1>1
<1> QED BY <1>2 DEF ClassOK

\* Permits may be handed on: `free` of class c are left at the state `at`, its old queue
\* holds every sleeper and its new one those who still wait or have yet to resume.
MayWake(c, free, n, at, queue) ==
  /\ free \in Nat /\ n \in Nat /\ (free > 0 => n > 0) /\ at \in [Queries -> Stages]
  /\ Limit[c] - free = Cardinality(Those(at, text, c, {"granted", "holding"}))
  /\ \A i \in 1..Len(waiters[c]) : at[waiters[c][i]] = "waiting" => Cost(waiters[c][i]) = c
  /\ Those(at, text, c, {"waiting"}) \subseteq ToSet(waiters[c])
  /\ queue \in Seq(Queries) /\ IsInjective(queue)
  /\ \A r \in Queries : r \in Those(at, text, c, {"waiting", "granted"}) <=> r \in ToSet(queue)

\* Semaphore.release() and _wake_up_next() conserve the permits of the class, and leave
\* none free while all of its waiters sleep.
LEMMA WakeKeepsClass ==
  ASSUME GateTypeOK, NEW c \in Costs, NEW free, NEW n, NEW at, NEW queue,
         MayWake(c, free, n, at, queue), Wake(c, free, n, at)
  PROVE  /\ stage' \in [Queries -> Stages] /\ permits' \in [Costs -> Nat]
         /\ ClassOK(stage', text, c, permits'[c], queue)
         /\ \A d \in Costs \ {c} : permits'[d] = permits[d]
         /\ \A r \in Queries : Cost(r) # c => stage'[r] = at[r]
<1>0. /\ free \in Nat /\ n \in Nat /\ (free > 0 => n > 0) /\ at \in [Queries -> Stages]
      /\ Limit[c] - free = Cardinality(Those(at, text, c, {"granted", "holding"}))
      /\ \A i \in 1..Len(waiters[c]) : at[waiters[c][i]] = "waiting" => Cost(waiters[c][i]) = c
      /\ Those(at, text, c, {"waiting"}) \subseteq ToSet(waiters[c])
      /\ queue \in Seq(Queries) /\ IsInjective(queue)
      /\ \A r \in Queries : r \in Those(at, text, c, {"waiting", "granted"}) <=> r \in ToSet(queue)
  BY DEF MayWake
<1> DEFINE w == waiters[c]
           asleep == {i \in DOMAIN w : at[w[i]] = "waiting"}
           m == Min({free, n})
           first == {i \in asleep : Cardinality({j \in asleep : j < i}) < m}
           awoken == {w[i] : i \in first}
<1>1. w \in Seq(Queries) /\ Len(w) \in Nat /\ DOMAIN w = 1..Len(w)
  BY LenProperties DEF GateTypeOK
<1>2. m \in Nat /\ m <= free /\ (free > 0 => m > 0)
  BY <1>0, LeastOfTwo
<1>3. asleep \in SUBSET (1..Len(w))
  BY <1>1
<1>4. /\ permits' = [permits EXCEPT ![c] = free - Cardinality(awoken)]
      /\ stage' = [x \in Queries |-> IF x \in awoken THEN "granted" ELSE at[x]]
  BY DEF Wake
<1>5. first \subseteq asleep
  OBVIOUS
<1>6. /\ IsFiniteSet(first) /\ Cardinality(first) <= m
      /\ m > 0 /\ asleep # {} => first # {}
  <2> HIDE DEF asleep, m
  <2> QED BY <1>1, <1>2, <1>3, FirstOnes
<1> HIDE DEF first, m
\* The awoken.
<1>7. /\ IsFiniteSet(awoken) /\ Cardinality(awoken) \in Nat /\ Cardinality(awoken) <= free
      /\ Cardinality(awoken) >= 0
  <2>1. IsFiniteSet(awoken) /\ Cardinality(awoken) <= Cardinality(first)
    <3> DEFINE img == [i \in first |-> w[i]]
    <3>1. awoken = {img[i] : i \in first} /\ img \in Surjection(first, awoken)
      BY DEF Surjection
    <3> HIDE DEF img, awoken
    <3> QED BY <1>6, <3>1, FS_Surjection
  <2>2. Cardinality(awoken) \in Nat /\ Cardinality(first) \in Nat
    BY <1>6, <2>1, FS_CardinalityType
  <2> QED BY <1>0, <1>2, <1>6, <2>1, <2>2
<1>8. \A x \in awoken : x \in Queries /\ at[x] = "waiting" /\ Cost(x) = c
  <2> SUFFICES ASSUME NEW i \in first
               PROVE  w[i] \in Queries /\ at[w[i]] = "waiting" /\ Cost(w[i]) = c
    OBVIOUS
  <2>1. i \in asleep /\ i \in 1..Len(w)
    BY <1>3, <1>5
  <2> QED BY <1>0, <1>1, <2>1, ElementOfSeq DEF asleep
<1>9. Those(at, text, c, {"waiting"}) # {} /\ free > 0 => awoken # {}
  <2> SUFFICES ASSUME NEW x \in Those(at, text, c, {"waiting"}), free > 0
               PROVE  awoken # {}
    OBVIOUS
  <2>1. x \in ToSet(w) /\ at[x] = "waiting"
    BY <1>0 DEF Those
  <2>2. asleep # {}
    BY <2>1 DEF ToSet
  <2>3. PICK i \in first : TRUE
    BY <1>0, <1>2, <1>6, <2>2
  <2> QED BY <2>3
<1> HIDE DEF awoken, asleep
<1>10. stage' \in [Queries -> Stages] /\ permits' \in [Costs -> Nat]
  <2>1. free - Cardinality(awoken) \in Nat
    BY <1>0, <1>7
  <2> QED BY <1>0, <1>4, <2>1 DEF GateTypeOK, Stages
<1>11. /\ permits'[c] = free - Cardinality(awoken) /\ permits'[c] \in Nat
       /\ \A d \in Costs \ {c} : permits'[d] = permits[d]
  BY <1>4, <1>10 DEF GateTypeOK
<1>12. \A r \in Queries : stage'[r] = IF r \in awoken THEN "granted" ELSE at[r]
  BY <1>4
<1>13. \A r \in Queries : Cost(r) # c => stage'[r] = at[r]
  BY <1>8, <1>12
<1>14. \A r \in Queries : r \in Those(stage', text, c, {"waiting", "granted"}) <=> r \in ToSet(queue)
  BY <1>0, <1>8, <1>12 DEF Those, Cost
<1>15. Limit[c] - permits'[c] = Cardinality(Those(stage', text, c, {"granted", "holding"}))
  <2> DEFINE old == Those(at, text, c, {"granted", "holding"})
             new == Those(stage', text, c, {"granted", "holding"})
  <2>1. new = old \cup awoken /\ old \cap awoken = {} /\ old \subseteq Queries
    BY <1>8, <1>12 DEF Those, Cost
  <2>2. IsFiniteSet(old)
    BY <2>1, FS_Subset, QueryGateAssumption
  <2>3. Limit[c] - free = Cardinality(old) /\ free \in Nat
    BY <1>0
  <2> HIDE DEF old, new
  <2>4. Cardinality(old \cup awoken) = Cardinality(old) + Cardinality(awoken)
    <3>1. Cardinality(old \cup awoken) = Cardinality(old) + Cardinality(awoken) - Cardinality(old \cap awoken)
      BY ONLY <1>7, <2>2, FS_Union
    <3>2. Cardinality(old \cap awoken) = 0
      BY ONLY <2>1, FS_EmptySet
    <3>3. Cardinality(old) \in Nat
      BY <2>2, FS_CardinalityType
    <3> QED BY <1>7, <3>1, <3>2, <3>3
  <2>5. Cardinality(old) \in Nat /\ Limit[c] \in Nat
    BY <2>2, FS_CardinalityType, QueryGateAssumption
  <2>6. Limit[c] - permits'[c] = Cardinality(old) + Cardinality(awoken)
    BY <1>7, <1>11, <2>3, <2>5
  <2> QED BY <2>1, <2>4, <2>6 DEF new
<1>16. permits'[c] > 0 /\ Those(stage', text, c, {"waiting"}) # {}
         => Those(stage', text, c, {"granted"}) # {}
  <2> SUFFICES ASSUME permits'[c] > 0, NEW x \in Those(stage', text, c, {"waiting"})
               PROVE  Those(stage', text, c, {"granted"}) # {}
    OBVIOUS
  <2>1. x \in Those(at, text, c, {"waiting"})
    BY <1>12 DEF Those
  <2>2. free > 0
    BY <1>0, <1>7, <1>11
  <2>3. PICK y \in awoken : y \in Queries /\ Cost(y) = c
    BY <1>8, <1>9, <2>1, <2>2
  <2> QED BY <1>12, <2>3 DEF Those, Cost
<1> QED
  BY <1>0, <1>10, <1>11, <1>13, <1>14, <1>15, <1>16 DEF ClassOK

\* Every class has its permits back with those who hold or were handed one.
LEMMA GateInitial == GateInit => GateInv
<1> SUFFICES ASSUME GateInit
             PROVE  GateInv
  OBVIOUS
<1>1. GateTypeOK
  BY QueryGateAssumption DEF GateInit, GateTypeOK, Stages
<1>2. ASSUME NEW c \in Costs
      PROVE  ClassOK(stage, text, c, permits[c], waiters[c])
  <2>1. \A r \in Queries : stage[r] = "idle"
    BY DEF GateInit
  <2>2. /\ Those(stage, text, c, {"waiting", "granted"}) = {}
        /\ Those(stage, text, c, {"granted", "holding"}) = {}
        /\ Those(stage, text, c, {"waiting"}) = {}
    BY <2>1 DEF Those
  <2>3. /\ permits[c] = Limit[c] /\ permits[c] \in Nat /\ waiters[c] = <<>>
        /\ waiters[c] \in Seq(Queries)
    BY <1>1 DEF GateInit, GateTypeOK
  <2>4. IsInjective(<<>>) /\ ToSet(<<>>) = {}
    BY DEF IsInjective, ToSet
  <2>5. Limit[c] - permits[c] = Cardinality(Those(stage, text, c, {"granted", "holding"}))
    <3>1. Cardinality(Those(stage, text, c, {"granted", "holding"})) = 0
      BY <2>2, FS_EmptySet
    <3>2. Limit[c] \in Nat /\ permits[c] = Limit[c]
      BY <2>3
    <3> QED BY ONLY <3>1, <3>2
  <2> QED BY <2>2, <2>3, <2>4, <2>5 DEF ClassOK
<1> QED BY <1>1, <1>2, GateByClass

\* Those who leave the queue are no longer in it, and nobody else is lost.
LEMMA LeaveKeepsQueue ==
  ASSUME NEW s \in Seq(Queries), IsInjective(s), NEW e
  PROVE  /\ RemoveFirst(s, e) \in Seq(Queries) /\ IsInjective(RemoveFirst(s, e))
         /\ \A x : x \in ToSet(RemoveFirst(s, e)) <=> x \in ToSet(s) /\ x # e
<1> DEFINE t == RemoveFirst(s, e)
<1>0. Len(s) \in Nat /\ DOMAIN s = 1..Len(s)
  BY LenProperties
<1>1. CASE t = s /\ \A i \in 1..Len(s) : s[i] # e
  BY <1>0, <1>1 DEF ToSet
<1>2. ASSUME NEW j \in 1..Len(s), s[j] = e, t \in Seq(Queries), Len(t) = Len(s) - 1,
             \A i \in 1..(Len(s) - 1) : t[i] = IF i < j THEN s[i] ELSE s[i + 1]
      PROVE  /\ RemoveFirst(s, e) \in Seq(Queries) /\ IsInjective(RemoveFirst(s, e))
             /\ \A x : x \in ToSet(RemoveFirst(s, e)) <=> x \in ToSet(s) /\ x # e
  <2> HIDE DEF t
  <2>1. DOMAIN t = 1..(Len(s) - 1)
    BY <1>2, LenProperties
  <2> DEFINE from(i) == IF i < j THEN i ELSE i + 1
  <2>2. \A i \in 1..(Len(s) - 1) : from(i) \in 1..Len(s) /\ from(i) # j /\ t[i] = s[from(i)]
    BY <1>0, <1>2
  <2>3. \A i, k \in 1..(Len(s) - 1) : from(i) = from(k) => i = k
    BY <1>0
  <2>4. \A n \in 1..Len(s) : n # j => \E i \in 1..(Len(s) - 1) : from(i) = n
    <3> TAKE n \in 1..Len(s)
    <3> HAVE n # j
    <3>1. CASE n < j
      <4>1. n \in 1..(Len(s) - 1) /\ from(n) = n
        BY <1>0, <3>1
      <4> QED BY <4>1
    <3>2. CASE ~ (n < j)
      <4>1. n - 1 \in 1..(Len(s) - 1) /\ from(n - 1) = n
        BY <1>0, <3>2
      <4> QED BY <4>1
    <3> QED BY <3>1, <3>2
  <2> HIDE DEF from
  <2>5. IsInjective(t)
    <3> SUFFICES ASSUME NEW i \in 1..(Len(s) - 1), NEW k \in 1..(Len(s) - 1), t[i] = t[k]
                 PROVE  i = k
      BY <2>1 DEF IsInjective
    <3>1. s[from(i)] = s[from(k)]
      BY <2>2
    <3>2. from(i) = from(k)
      BY <1>0, <2>2, <3>1 DEF IsInjective
    <3> QED BY <2>3, <3>2
  <2>6. ASSUME NEW x \in ToSet(t)
        PROVE  x \in ToSet(s) /\ x # e
    <3>1. PICK i \in 1..(Len(s) - 1) : x = t[i]
      BY <2>1 DEF ToSet
    <3>2. x = s[from(i)] /\ from(i) \in 1..Len(s) /\ from(i) # j
      BY <2>2, <3>1
    <3> QED BY <1>0, <1>2, <3>2 DEF ToSet, IsInjective
  <2>7. ASSUME NEW x \in ToSet(s), x # e
        PROVE  x \in ToSet(t)
    <3>1. PICK n \in 1..Len(s) : x = s[n]
      BY <1>0 DEF ToSet
    <3>2. PICK i \in 1..(Len(s) - 1) : from(i) = n
      BY <1>2, <2>4, <2>7, <3>1
    <3> QED BY <2>1, <2>2, <3>1, <3>2 DEF ToSet
  <2> QED BY <1>2, <2>5, <2>6, <2>7 DEF t
<1> QED BY <1>1, <1>2, RemoveFirstElements

\* Every text has a cost class.
LEMMA CostIsClass == \A r : Cost(r) \in Costs /\ Cost(r) = ClassifyCost(text[r])
BY DEF Cost, ClassifyCost, Costs

\* A request gives its permit back, takes up the one it was handed, or leaves the queue.
LEMMA WakeKeepsGate ==
  ASSUME GateInv, UNCHANGED text, NEW r \in Queries, NEW to \in Stages \ {"waiting", "granted"},
         stage[r] \in {"waiting", "granted", "holding"}, stage[r] = "waiting" => to # "holding",
         \/ stage[r] = "holding" /\ UNCHANGED waiters
         \/ stage[r] # "holding" /\ LeaveQueue(r),
         NEW free \in Nat, NEW n \in Nat, free > 0 => n > 0,
         free = permits[Cost(r)] + (IF stage[r] # "waiting" /\ to # "holding" THEN 1 ELSE 0),
         Wake(Cost(r), free, n, [stage EXCEPT ![r] = to])
  PROVE  GateInv'
<1> DEFINE c == Cost(r)
           at == [stage EXCEPT ![r] = to]
           w == waiters[c]
           queue == waiters'[c]
<1>1. GateTypeOK /\ c \in Costs /\ \A d \in Costs : ClassOK(stage, text, d, permits[d], waiters[d])
  BY GateByClass, CostIsClass
<1>2. /\ at \in [Queries -> Stages] /\ at[r] = to
      /\ \A x \in Queries : x # r => at[x] = stage[x]
  BY <1>1 DEF GateTypeOK
<1>3. /\ permits[c] \in Nat /\ w \in Seq(Queries) /\ IsInjective(w)
      /\ \A x \in Queries : x \in Those(stage, text, c, {"waiting", "granted"}) <=> x \in ToSet(w)
      /\ Limit[c] - permits[c] = Cardinality(Those(stage, text, c, {"granted", "holding"}))
  BY <1>1 DEF ClassOK
<1>4. Wake(c, free, n, at)
  OBVIOUS
<1>5. /\ queue \in Seq(Queries) /\ IsInjective(queue)
      /\ \A x \in Queries : x \in ToSet(queue) <=> x \in ToSet(w) /\ x # r
      /\ \A d \in Costs \ {c} : waiters'[d] = waiters[d]
      /\ waiters' \in [Costs -> Seq(Queries)]
  <2>1. CASE stage[r] = "holding" /\ UNCHANGED waiters
    <3>1. r \notin ToSet(w)
      BY <1>3, <2>1 DEF Those
    <3> QED BY <1>1, <1>3, <2>1, <3>1 DEF GateTypeOK
  <2>2. CASE LeaveQueue(r)
    <3>1. waiters' = [waiters EXCEPT ![c] = RemoveFirst(w, r)]
      BY <2>2 DEF LeaveQueue
    <3> DEFINE t == RemoveFirst(w, r)
    <3>2. /\ t \in Seq(Queries) /\ IsInjective(t)
          /\ \A x : x \in ToSet(t) <=> x \in ToSet(w) /\ x # r
      BY <1>3, LeaveKeepsQueue
    <3> HIDE DEF t, c
    <3>3. /\ waiters' \in [Costs -> Seq(Queries)] /\ waiters'[c] = t
          /\ \A d \in Costs \ {c} : waiters'[d] = waiters[d]
      BY <1>1, <3>1, <3>2 DEF GateTypeOK, t
    <3> QED BY <3>2, <3>3
  <2> QED BY <2>1, <2>2
<1>6. Limit[c] - free = Cardinality(Those(at, text, c, {"granted", "holding"}))
  <2> DEFINE before == Those(stage, text, c, {"granted", "holding"})
             after == Those(at, text, c, {"granted", "holding"})
  <2>1. before \subseteq Queries /\ Limit[c] \in Nat
    BY <1>1, QueryGateAssumption DEF Those
  <2>2. IsFiniteSet(before)
    BY <2>1, FS_Subset, QueryGateAssumption
  <2>3. CASE stage[r] # "waiting" /\ to # "holding"
    <3>1. r \in before /\ after = before \ {r}
      BY <1>2, <2>3, CostIsClass DEF Those
    <3>2. free = permits[c] + 1 /\ Limit[c] - permits[c] = Cardinality(before)
      BY <1>3, <2>3
    <3> HIDE DEF before, after, c
    <3>3. Cardinality(before \ {r}) = Cardinality(before) - 1
      BY ONLY <2>2, <3>1, FS_RemoveElement
    <3>4. Cardinality(after) = Cardinality(before) - 1
      BY <3>1, <3>3
    <3>5. permits[c] \in Nat /\ Cardinality(before) \in Nat /\ Limit[c] \in Nat
      BY <1>3, <2>1, <2>2, FS_CardinalityType
    <3>6. Limit[c] - free = Cardinality(after)
      BY ONLY <3>2, <3>4, <3>5
    <3> QED BY <3>6 DEF after
  <2>4. CASE ~ (stage[r] # "waiting" /\ to # "holding")
    <3>1. after = before
      BY <1>2, <2>4 DEF Those
    <3>2. free = permits[c]
      BY <1>3, <2>4
    <3> QED BY <1>3, <3>1, <3>2
  <2> QED BY <2>3, <2>4
<1>7. \A i \in 1..Len(waiters[c]) : at[waiters[c][i]] = "waiting" => Cost(waiters[c][i]) = c
  <2> TAKE i \in 1..Len(waiters[c])
  <2>1. w[i] \in Queries /\ w[i] \in ToSet(w)
    BY <1>3, ElementOfSeq, LenProperties DEF ToSet
  <2> QED BY <1>3, <2>1, CostIsClass DEF Those
<1>8. Those(at, text, c, {"waiting"}) \subseteq ToSet(waiters[c])
  BY <1>2, <1>3 DEF Those
<1>9. \A x \in Queries : x \in Those(at, text, c, {"waiting", "granted"}) <=> x \in ToSet(queue)
  <2>1. \A x \in Queries : x \in Those(at, text, c, {"waiting", "granted"}) <=>
                             x \in Those(stage, text, c, {"waiting", "granted"}) /\ x # r
    BY <1>2 DEF Those
  <2> QED BY <1>3, <1>5, <2>1
<1> HIDE DEF c, at, w, queue
<1>10. /\ stage' \in [Queries -> Stages] /\ permits' \in [Costs -> Nat]
       /\ ClassOK(stage', text, c, permits'[c], queue)
       /\ \A d \in Costs \ {c} : permits'[d] = permits[d]
       /\ \A x \in Queries : Cost(x) # c => stage'[x] = at[x]
  <2>1. free \in Nat /\ n \in Nat /\ (free > 0 => n > 0) /\ GateTypeOK /\ c \in Costs
    BY <1>1
  <2> QED
    <3>1. MayWake(c, free, n, at, queue)
      BY ONLY <1>2, <1>5, <1>6, <1>7, <1>8, <1>9, <2>1 DEF MayWake
    <3> QED BY <1>4, <2>1, <3>1, WakeKeepsClass
<1>11. GateTypeOK'
  BY <1>1, <1>5, <1>10 DEF GateTypeOK
<1>12. ASSUME NEW d \in Costs
       PROVE  ClassOK(stage', text', d, permits'[d], waiters'[d])
  <2>1. CASE d = c
    BY <1>10, <2>1 DEF queue
  <2>2. CASE d # c
    <3>1. \A x \in Queries : Cost(x) = d => stage'[x] = stage[x]
      <4>1. Cost(r) = c
        BY DEF c
      <4> QED BY <1>2, <1>10, <2>2, <4>1
    <3>2. \A x \in Queries : \A s \in {"waiting", "granted", "holding"} :
            (stage'[x] = s /\ ClassifyCost(text'[x]) = d) <=> (stage[x] = s /\ ClassifyCost(text[x]) = d)
      BY <3>1, CostIsClass
    <3>3. ClassOK(stage, text, d, permits[d], waiters[d])
      BY <1>1
    <3>4. ClassOK(stage', text', d, permits[d], waiters[d])
      BY <3>2, <3>3, SameClass
    <3> QED BY <1>5, <1>10, <2>2, <3>4
  <2> QED BY <2>1, <2>2
<1> QED BY <1>11, <1>12, GateByClassNext

\* The steps of a request at the gate.
LEMMA GateStep == GateInv /\ [GateNext]_gateVars => GateInv'
<1> SUFFICES ASSUME GateInv, [GateNext]_gateVars
             PROVE  GateInv'
  OBVIOUS
<1>1. GateTypeOK /\ \A c \in Costs : ClassOK(stage, text, c, permits[c], waiters[c])
  BY GateByClass
<1>2. \A r \in Queries : Cost(r) \in Costs /\ permits[Cost(r)] \in Nat
  BY <1>1, CostIsClass DEF GateTypeOK
\* A step of a request that neither waits nor holds, and will not.
<1>3. ASSUME NEW r \in Queries, stage[r] \in {"idle", "asked", "written"},
             NEW to \in {"idle", "asked"}, Move(r, to), UNCHANGED <<permits, waiters>>,
             text' \in [Queries -> Statements], \A x \in Queries : x # r => text'[x] = text[x]
      PROVE  GateInv'
  <2>1. /\ stage' \in [Queries -> Stages] /\ stage'[r] = to
        /\ \A x \in Queries : x # r => stage'[x] = stage[x]
    BY <1>1, <1>3 DEF GateTypeOK, Move, Stages
  <2>2. GateTypeOK'
    BY <1>1, <1>3, <2>1 DEF GateTypeOK
  <2>3. ASSUME NEW c \in Costs
        PROVE  ClassOK(stage', text', c, permits'[c], waiters'[c])
    <3>1. \A x \in Queries : \A s \in {"waiting", "granted", "holding"} :
            (stage'[x] = s /\ ClassifyCost(text'[x]) = c) <=> (stage[x] = s /\ ClassifyCost(text[x]) = c)
      <4> TAKE x \in Queries
      <4>1. CASE x = r
        BY <1>3, <2>1, <4>1
      <4>2. CASE x # r
        BY <1>3, <2>1, <4>2
      <4> QED BY <4>1, <4>2
    <3>2. ClassOK(stage, text, c, permits[c], waiters[c])
      BY <1>1
    <3>3. ClassOK(stage', text', c, permits[c], waiters[c])
      BY <3>1, <3>2, SameClass
    <3> QED BY <1>3, <3>3
  <2> QED BY <2>2, <2>3, GateByClassNext
\* A step that moves nobody.
<1>4. ASSUME UNCHANGED <<stage, text, permits, waiters>>
      PROVE  GateInv'
  <2>1. GateTypeOK'
    BY <1>1, <1>4 DEF GateTypeOK
  <2>2. \A c \in Costs : ClassOK(stage', text', c, permits'[c], waiters'[c])
    BY <1>1, <1>4
  <2> QED BY <2>1, <2>2, GateByClassNext
\* The permit is given back.
<1>5. ASSUME NEW r \in Queries, stage[r] = "holding", NEW to \in {"idle", "written"},
             GiveBack(r, to), UNCHANGED <<text, waiters>>
      PROVE  GateInv'
  <2> DEFINE free == permits[Cost(r)] + 1
  <2>1. /\ free \in Nat /\ 1 \in Nat /\ (free > 0 => 1 > 0)
        /\ free = permits[Cost(r)] + (IF stage[r] # "waiting" /\ to # "holding" THEN 1 ELSE 0)
        /\ to \in Stages \ {"waiting", "granted"}
    BY <1>2, <1>5 DEF Stages
  <2>2. Wake(Cost(r), free, 1, [stage EXCEPT ![r] = to])
    BY <1>5 DEF GiveBack
  <2> HIDE DEF free
  <2> QED BY <1>5, <2>1, <2>2, WakeKeepsGate
<1>6. ASSUME NEW r \in Queries, Ask(r)
      PROVE  GateInv'
  <2>1. text' \in [Queries -> Statements] /\ \A x \in Queries : x # r => text'[x] = text[x]
    BY <1>1, <1>6 DEF Ask, GateTypeOK
  <2> QED BY <1>3, <1>6, <2>1 DEF Ask
<1>7. ASSUME NEW r \in Queries, AnsweredByCache(r) \/ Invalidated(r)
      PROVE  GateInv'
  <2>1. /\ stage[r] \in {"idle", "asked", "written"} /\ Move(r, "idle")
        /\ UNCHANGED <<text, permits, waiters>>
    BY <1>7 DEF AnsweredByCache, Invalidated
  <2>2. text' \in [Queries -> Statements] /\ \A x \in Queries : x # r => text'[x] = text[x]
    BY <1>1, <2>1 DEF GateTypeOK
  <2> QED BY <1>3, <2>1, <2>2
<1>8. ASSUME NEW r \in Queries, Start(r) \/ Ends(r)
      PROVE  GateInv'
  BY <1>4, <1>8 DEF Start, Ends
<1>9. ASSUME NEW r \in Queries, Returns(r)
      PROVE  GateInv'
  <2>1. /\ stage[r] = "holding" /\ UNCHANGED <<text, waiters>>
        /\ GiveBack(r, "written") \/ GiveBack(r, "idle")
    BY <1>9 DEF Returns
  <2> QED BY <1>5, <2>1
<1>10. ASSUME NEW r \in Queries, Raises(r) \/ TimesOut(r)
       PROVE  GateInv'
  <2>1. stage[r] = "holding" /\ UNCHANGED <<text, waiters>> /\ GiveBack(r, "idle")
    BY <1>10 DEF Raises, TimesOut
  <2> QED BY <1>5, <2>1
<1>11. ASSUME NEW r \in Queries, Resume(r)
       PROVE  GateInv'
  <2> DEFINE free == permits[Cost(r)]
  <2>1. /\ free \in Nat /\ (free > 0 => free > 0)
        /\ free = permits[Cost(r)] + (IF stage[r] # "waiting" /\ "holding" # "holding" THEN 1 ELSE 0)
        /\ "holding" \in Stages \ {"waiting", "granted"}
    BY <1>2 DEF Stages
  <2>2. /\ stage[r] = "granted" /\ LeaveQueue(r) /\ UNCHANGED text
        /\ Wake(Cost(r), free, free, [stage EXCEPT ![r] = "holding"])
    BY <1>11 DEF Resume
  <2> HIDE DEF free
  <2> QED BY <2>1, <2>2, WakeKeepsGate
<1>12. ASSUME NEW r \in Queries, CancelWaiting(r)
       PROVE  GateInv'
  <2> DEFINE free == permits[Cost(r)] + (IF Sleeping(r) THEN 0 ELSE 1)
  <2>1. /\ free \in Nat /\ (free > 0 => free > 0)
        /\ free = permits[Cost(r)] + (IF stage[r] # "waiting" /\ "idle" # "holding" THEN 1 ELSE 0)
        /\ "idle" \in Stages \ {"waiting", "granted"}
    BY <1>2 DEF Stages, Sleeping
  <2>2. /\ stage[r] \in {"waiting", "granted"} /\ LeaveQueue(r) /\ UNCHANGED text
        /\ Wake(Cost(r), free, free, [stage EXCEPT ![r] = "idle"])
    BY <1>12 DEF CancelWaiting
  <2> HIDE DEF free
  <2> QED BY <2>1, <2>2, WakeKeepsGate
<1>13. ASSUME NEW r \in Queries, Enter(r)
       PROVE  GateInv'
  <2> DEFINE c == Cost(r)
             w == waiters[c]
  <2>1. /\ c \in Costs /\ permits[c] \in Nat /\ w \in Seq(Queries) /\ IsInjective(w)
        /\ stage[r] = "asked" /\ UNCHANGED text
        /\ \A x \in Queries : x \in Those(stage, text, c, {"waiting", "granted"}) <=> x \in ToSet(w)
        /\ Limit[c] - permits[c] = Cardinality(Those(stage, text, c, {"granted", "holding"}))
        /\ permits[c] > 0 /\ Those(stage, text, c, {"waiting"}) # {}
             => Those(stage, text, c, {"granted"}) # {}
    BY <1>1, <1>2, <1>13 DEF ClassOK, Enter
  \* The other classes.
  <2>2. ASSUME NEW to \in Stages, Move(r, to), NEW d \in Costs \ {c},
               permits'[d] = permits[d], waiters'[d] = waiters[d]
        PROVE  ClassOK(stage', text', d, permits'[d], waiters'[d])
    <3>1. \A x \in Queries : x # r => stage'[x] = stage[x]
      BY <1>1, <2>2 DEF Move, GateTypeOK
    <3>2. \A x \in Queries : \A s \in {"waiting", "granted", "holding"} :
            (stage'[x] = s /\ ClassifyCost(text'[x]) = d) <=> (stage[x] = s /\ ClassifyCost(text[x]) = d)
      <4>1. ClassifyCost(text[r]) # d
        BY <2>2, CostIsClass
      <4> QED BY <2>1, <3>1, <4>1
    <3>3. ClassOK(stage, text, d, permits[d], waiters[d])
      BY <1>1
    <3>4. ClassOK(stage', text', d, permits[d], waiters[d])
      BY <3>2, <3>3, SameClass
    <3> QED BY <2>2, <3>4
  \* The semaphore has a permit and nobody queues.
  <2>3. CASE permits[c] > 0 /\ w = <<>>
    <3>1. /\ permits' = [permits EXCEPT ![c] = @ - 1] /\ Move(r, "holding") /\ UNCHANGED waiters
      BY <1>13, <2>3 DEF Enter
    <3> HIDE DEF c
    <3>2. /\ permits' \in [Costs -> Nat] /\ permits'[c] = permits[c] - 1
          /\ \A d \in Costs \ {c} : permits'[d] = permits[d]
      BY <1>1, <2>1, <2>3, <3>1 DEF GateTypeOK
    <3>3. /\ stage' \in [Queries -> Stages] /\ stage'[r] = "holding"
          /\ \A x \in Queries : x # r => stage'[x] = stage[x]
      BY <1>1, <3>1 DEF Move, GateTypeOK, Stages
    <3>4. GateTypeOK'
      BY <1>1, <2>1, <3>1, <3>2, <3>3 DEF GateTypeOK
    <3>5. \A x \in Queries : stage[x] \in {"waiting", "granted"} => ClassifyCost(text[x]) # c
      <4>1. ToSet(w) = {}
        BY <2>3 DEF ToSet
      <4> QED BY <2>1, <4>1 DEF Those
    <3>6. \A x \in Queries : stage'[x] \in {"waiting", "granted"} => ClassifyCost(text[x]) # c
      BY <3>3, <3>5
    <3>7. Limit[c] - permits'[c] = Cardinality(Those(stage', text, c, {"granted", "holding"}))
      <4> DEFINE before == Those(stage, text, c, {"granted", "holding"})
                 after == Those(stage', text, c, {"granted", "holding"})
      <4>1. after = before \cup {r} /\ r \notin before /\ before \subseteq Queries
        BY <2>1, <3>3, CostIsClass DEF Those, c
      <4>2. IsFiniteSet(before)
        BY <4>1, FS_Subset, QueryGateAssumption
      <4>3. Limit[c] - permits[c] = Cardinality(before) /\ Limit[c] \in Nat
        BY <2>1, QueryGateAssumption
      <4> HIDE DEF before, after
      <4>4. Cardinality(before \cup {r}) = Cardinality(before) + 1
        BY ONLY <4>1, <4>2, FS_AddElement
      <4>5. Cardinality(after) = Cardinality(before) + 1
        BY ONLY <4>1, <4>4
      <4>6. permits[c] \in Nat /\ Cardinality(before) \in Nat
        BY <2>1, <4>2, FS_CardinalityType
      <4>7. Limit[c] - permits'[c] = Cardinality(after)
        BY ONLY <3>2, <4>3, <4>5, <4>6
      <4> QED BY <4>7 DEF after
    <3>8. ClassOK(stage', text, c, permits'[c], w)
      <4>1. permits'[c] \in Nat
        BY <2>1, <3>2
      <4>2. \A x \in Queries : x \in Those(stage', text, c, {"waiting", "granted"}) <=> x \in ToSet(w)
        BY <2>3, <3>6 DEF Those, ToSet
      <4>3. Those(stage', text, c, {"waiting"}) = {}
        BY <3>6 DEF Those
      <4> QED BY <2>1, <3>7, <4>1, <4>2, <4>3 DEF ClassOK
    <3>9. ASSUME NEW d \in Costs
          PROVE  ClassOK(stage', text', d, permits'[d], waiters'[d])
      <4>1. CASE d = c
        BY <2>1, <3>1, <3>8, <4>1
      <4>2. CASE d # c
        BY <2>2, <3>1, <3>2, <4>2 DEF Stages
      <4> QED BY <4>1, <4>2
    <3> QED BY <3>4, <3>9, GateByClassNext
  \* It joins the queue.
  <2>4. CASE ~ (permits[c] > 0 /\ w = <<>>)
    <3> DEFINE queue == Append(w, r)
    <3>1. waiters' = [waiters EXCEPT ![c] = queue] /\ Move(r, "waiting") /\ UNCHANGED permits
      BY <1>13, <2>4 DEF Enter
    <3>2. r \notin ToSet(w)
      BY <2>1 DEF Those
    <3>3. /\ queue \in Seq(Queries) /\ IsInjective(queue)
          /\ \A x \in Queries : x \in ToSet(queue) <=> x \in ToSet(w) \/ x = r
      <4>1. /\ queue \in Seq(Queries) /\ Len(queue) = Len(w) + 1 /\ queue[Len(w) + 1] = r
            /\ \A i \in 1..Len(w) : queue[i] = w[i]
        BY <2>1, AppendProperties
      <4>2. Len(w) \in Nat /\ DOMAIN w = 1..Len(w) /\ DOMAIN queue = 1..(Len(w) + 1)
        BY <2>1, <4>1, LenProperties
      <4>3. \A i \in 1..Len(w) : w[i] # r
        BY <3>2, <4>2 DEF ToSet
      <4> HIDE DEF queue, w
      <4>4. \A i \in 1..(Len(w) + 1) : i \in 1..Len(w) \/ i = Len(w) + 1
        BY <4>2
      <4>5. IsInjective(queue)
        BY <2>1, <4>1, <4>2, <4>3, <4>4 DEF IsInjective
      <4>6. \A x : x \in ToSet(queue) <=> x \in ToSet(w) \/ x = r
        BY <4>1, <4>2, <4>4 DEF ToSet
      <4> QED BY <4>1, <4>5, <4>6
    <3> HIDE DEF c, queue
    <3>4. /\ waiters' \in [Costs -> Seq(Queries)] /\ waiters'[c] = queue
          /\ \A d \in Costs \ {c} : waiters'[d] = waiters[d]
      BY <1>1, <2>1, <3>1, <3>3 DEF GateTypeOK
    <3>5. /\ stage' \in [Queries -> Stages] /\ stage'[r] = "waiting"
          /\ \A x \in Queries : x # r => stage'[x] = stage[x]
      BY <1>1, <3>1 DEF Move, GateTypeOK, Stages
    <3>6. GateTypeOK'
      BY <1>1, <2>1, <3>1, <3>4, <3>5 DEF GateTypeOK
    <3>7. /\ Those(stage', text, c, {"granted", "holding"}) = Those(stage, text, c, {"granted", "holding"})
          /\ Those(stage', text, c, {"granted"}) = Those(stage, text, c, {"granted"})
      BY <2>1, <3>5 DEF Those
    <3>8. \A x \in Queries : x \in Those(stage', text, c, {"waiting", "granted"}) <=> x \in ToSet(queue)
      <4>1. ClassifyCost(text[r]) = c
        BY CostIsClass DEF c
      <4> QED BY <2>1, <3>3, <3>5, <4>1 DEF Those
    <3>9. permits[c] > 0 => Those(stage', text, c, {"granted"}) # {}
      <4> SUFFICES ASSUME permits[c] > 0
                   PROVE  Those(stage, text, c, {"granted"}) # {}
        BY <3>7
      <4>1. w # <<>>
        BY <2>4
      <4>2. PICK x \in Queries : x \in ToSet(w)
        <5>1. Len(w) \in Nat /\ Len(w) # 0
          BY <2>1, <4>1, LenProperties, EmptySeq
        <5>2. 1 \in 1..Len(w) /\ w[1] \in Queries /\ w[1] \in ToSet(w)
          BY <2>1, <5>1, ElementOfSeq, LenProperties DEF ToSet
        <5> QED BY <5>2
      <4>3. x \in Those(stage, text, c, {"waiting", "granted"})
        BY <2>1, <4>2
      <4> QED BY <2>1, <4>3 DEF Those
    <3>10. ClassOK(stage', text, c, permits'[c], queue)
      BY <2>1, <3>1, <3>3, <3>7, <3>8, <3>9 DEF ClassOK
    <3>11. ASSUME NEW d \in Costs
           PROVE  ClassOK(stage', text', d, permits'[d], waiters'[d])
      <4>1. CASE d = c
        BY <2>1, <3>4, <3>10, <4>1
      <4>2. CASE d # c
        BY <2>2, <3>1, <3>4, <4>2 DEF Stages
      <4> QED BY <4>1, <4>2
    <3> QED BY <3>6, <3>11, GateByClassNext
  <2> QED BY <2>3, <2>4
<1>14. CASE UNCHANGED gateVars
  BY <1>4, <1>14 DEF gateVars
<1> QED
  BY <1>6, <1>7, <1>8, <1>9, <1>10, <1>11, <1>12, <1>13, <1>14 DEF GateNext

\* However requests time out, fail or are cancelled, no class of the query gate loses or
\* gains a permit, and none stays free while a request waits and nobody will pass it on.
THEOREM GateKeepsPermits == GateSpec => []GateNeverShrinks
<1>1. GateInv => GateNeverShrinks
  BY DEF GateInv
<1> QED BY <1>1, GateInitial, GateStep, PTL DEF GateSpec

\* The size of a prefix is the sum of its rows.
LEMMA BytesEquation ==
  ASSUME NEW rows \in Seq(Nat)
  PROVE  /\ \A n \in 0..Len(rows) : Bytes(rows, n) \in Nat
         /\ Bytes(rows, 0) = 0
         /\ \A n \in 1..Len(rows) : Bytes(rows, n) = Bytes(rows, n - 1) + rows[n]
<1> DEFINE before == [n \in 1..Len(rows) |-> n - 1]
           step == [n \in 1..Len(rows) |-> [b \in Nat |-> b + rows[n]]]
           Equation(g) == g = [i \in 0..Len(rows) |-> IF i = 0 THEN 0 ELSE g[i - 1] + rows[i]]
           size == CHOOSE g : Equation(g)
<1>1. PICK f \in [0..Len(rows) -> Nat] :
        f[0] = 0 /\ \A n \in 1..Len(rows) : f[n] = step[n][f[before[n]]]
  <2>1. Recursive(Nat, 0, Len(rows), before, step)
    BY DEF Recursive
  <2> HIDE DEF before, step
  <2> QED BY <2>1, Recursion
<1>2. ASSUME NEW n \in 1..Len(rows)
      PROVE  f[n] = f[n - 1] + rows[n]
  <2>1. n - 1 \in 0..Len(rows)
    OBVIOUS
  <2>2. f[n - 1] \in Nat
    BY <1>1, <2>1
  <2> QED BY <1>1, <2>1, <2>2
<1>3. Equation(f)
  <2> DEFINE g == [i \in 0..Len(rows) |-> IF i = 0 THEN 0 ELSE f[i - 1] + rows[i]]
  <2>1. \A i \in 0..Len(rows) : i = 0 \/ i \in 1..Len(rows)
    OBVIOUS
  <2>2. \A i \in 0..Len(rows) : f[i] = g[i]
    BY <1>1, <1>2, <2>1
  <2> QED BY <1>1, <2>2
<1>4. Equation(size)
  <2> HIDE DEF Equation
  <2> QED BY <1>3
<1>5. \A n : Bytes(rows, n) = size[n]
  BY DEF Bytes
<1> HIDE DEF size
<1>6. /\ size[0] = 0
      /\ \A n \in 1..Len(rows) : size[n] = size[n - 1] + rows[n]
  <2>1. 0 \in 0..Len(rows) /\ \A n \in 1..Len(rows) : n \in 0..Len(rows) /\ n # 0
    OBVIOUS
  <2> QED BY <1>4, <2>1
<1>7. \A n \in 0..Len(rows) : size[n] \in Nat
  <2> DEFINE Wrong == {n \in 0..Len(rows) : size[n] \notin Nat}
  <2>1. SUFFICES ASSUME Wrong # {}
                 PROVE  FALSE
    OBVIOUS
  <2>2. PICK m \in Wrong : \A n \in Wrong : m <= n
    <3>1. Wrong \in SUBSET Nat
      OBVIOUS
    <3> HIDE DEF Wrong
    <3> QED BY <2>1, <3>1, LeastElement
  <2>3. m \in 1..Len(rows) /\ size[m] \notin Nat
    BY <1>6
  <2>4. m - 1 \in 0..Len(rows) /\ ~(m <= m - 1)
    BY <2>3
  <2>5. size[m - 1] \in Nat
    BY <2>2, <2>4
  <2> QED BY <1>6, <2>3, <2>5
<1> QED BY <1>5, <1>6, <1>7

\* What the loop of _apply_result_limits() carries.
Taken == [out : Seq(Nat), bytes : Nat, cut : BOOLEAN]

Nothing == [out |-> <<>>, bytes |-> 0, cut |-> FALSE]

\* One turn of it.
LEMMA AddRowType ==
  ASSUME NEW acc \in Taken, NEW row \in Nat
  PROVE  AddRow(acc, row) \in Taken
<1>1. acc.out \in Seq(Nat) /\ acc.bytes \in Nat /\ acc.cut \in BOOLEAN
  BY DEF Taken
<1>2. [acc EXCEPT !.cut = TRUE] \in Taken
  BY DEF Taken
<1>3. [acc EXCEPT !.out = Append(@, row), !.bytes = @ + row] \in Taken
  <2>1. Append(acc.out, row) \in Seq(Nat) /\ acc.bytes + row \in Nat
    BY <1>1
  <2> QED BY <2>1 DEF Taken
<1> QED BY <1>2, <1>3 DEF AddRow

\* The loop is as many turns as there are rows.
LEMMA TakeRowsEquation ==
  ASSUME NEW rows \in Seq(Nat)
  PROVE  \E taken :
           /\ TakeRows(rows) = taken[Len(rows)] /\ taken[0] = Nothing
           /\ \A n \in 1..Len(rows) : taken[n] = AddRow(taken[n - 1], rows[n])
<1> DEFINE before == [n \in 1..Len(rows) |-> n - 1]
           step == [n \in 1..Len(rows) |-> [acc \in Taken |-> AddRow(acc, rows[n])]]
           Equation(g) == g = [n \in 0..Len(rows) |->
                                 IF n = 0 THEN [out |-> <<>>, bytes |-> 0, cut |-> FALSE]
                                          ELSE AddRow(g[n - 1], rows[n])]
           taken == CHOOSE g : Equation(g)
<1>1. PICK f \in [0..Len(rows) -> Taken] :
        f[0] = Nothing /\ \A n \in 1..Len(rows) : f[n] = step[n][f[before[n]]]
  <2>1. step \in [1..Len(rows) -> [Taken -> Taken]]
    BY AddRowType
  <2>2. Nothing \in Taken
    BY DEF Nothing, Taken
  <2>3. Recursive(Taken, Nothing, Len(rows), before, step)
    BY <2>1, <2>2 DEF Recursive
  <2> HIDE DEF before, step
  <2> QED BY <2>3, Recursion
<1>2. ASSUME NEW n \in 1..Len(rows)
      PROVE  f[n] = AddRow(f[n - 1], rows[n])
  <2>1. n - 1 \in 0..Len(rows) /\ f[n - 1] \in Taken
    BY <1>1
  <2> QED BY <1>1, <2>1
<1>3. Equation(f)
  <2> DEFINE g == [n \in 0..Len(rows) |-> IF n = 0 THEN Nothing ELSE AddRow(f[n - 1], rows[n])]
  <2>1. \A i \in 0..Len(rows) : i = 0 \/ i \in 1..Len(rows)
    OBVIOUS
  <2>2. \A i \in 0..Len(rows) : f[i] = g[i]
    BY <1>1, <1>2, <2>1
  <2> QED BY <1>1, <2>2 DEF Nothing
<1>4. Equation(taken)
  <2> HIDE DEF Equation
  <2> QED BY <1>3
<1>5. TakeRows(rows) = taken[Len(rows)]
  BY DEF TakeRows
<1> HIDE DEF taken
<1>6. 0 \in 0..Len(rows) /\ \A n \in 1..Len(rows) : n \in 0..Len(rows) /\ n # 0
  OBVIOUS
<1>7. taken[0] = Nothing /\ \A n \in 1..Len(rows) : taken[n] = AddRow(taken[n - 1], rows[n])
  BY <1>4, <1>6 DEF Nothing
<1> QED BY <1>5, <1>7

\* What the loop has after the first n of the k rows.
Kept(acc, rows, n) ==
  LET m == Len(acc.out) IN
    /\ acc \in Taken /\ m <= n /\ acc.out = SubSeq(rows, 1, m)
    /\ acc.bytes = Bytes(rows, m) /\ acc.bytes <= MaxBytes
    /\ IF acc.cut THEN m < n /\ Bytes(rows, m + 1) > MaxBytes ELSE m = n

\* A turn adds the row, or has found the first one that does not fit.
LEMMA AddRowKeeps ==
  ASSUME NEW rows \in Seq(Nat), NEW n \in 1..Len(rows), NEW acc, Kept(acc, rows, n - 1)
  PROVE  Kept(AddRow(acc, rows[n]), rows, n)
<1> DEFINE m == Len(acc.out)
<1>1. /\ acc \in Taken /\ m \in Nat /\ m <= n - 1 /\ acc.out = SubSeq(rows, 1, m)
      /\ acc.out \in Seq(Nat) /\ acc.bytes \in Nat /\ acc.cut \in BOOLEAN
      /\ acc.bytes = Bytes(rows, m) /\ acc.bytes <= MaxBytes
      /\ IF acc.cut THEN m < n - 1 /\ Bytes(rows, m + 1) > MaxBytes ELSE m = n - 1
  BY DEF Kept, Taken
<1>2. rows[n] \in Nat /\ Bytes(rows, n) = Bytes(rows, n - 1) + rows[n] /\ MaxBytes \in Nat
  BY BytesEquation, QueryGateAssumption
<1>3. AddRow(acc, rows[n]) \in Taken
  BY <1>1, <1>2, AddRowType
<1>4. CASE acc.cut \/ acc.bytes + rows[n] > MaxBytes
  <2>1. AddRow(acc, rows[n]) = [acc EXCEPT !.cut = TRUE]
    BY <1>4 DEF AddRow
  <2>2. /\ AddRow(acc, rows[n]).out = acc.out /\ AddRow(acc, rows[n]).bytes = acc.bytes
        /\ AddRow(acc, rows[n]).cut
    BY <1>1, <2>1 DEF Taken
  <2>3. m < n /\ Bytes(rows, m + 1) > MaxBytes
    <3>1. CASE acc.cut
      BY <1>1, <3>1
    <3>2. CASE ~acc.cut
      <4>1. m = n - 1 /\ m + 1 = n
        BY <1>1, <3>2
      <4> QED BY <1>1, <1>2, <1>4, <3>2, <4>1
    <3> QED BY <3>1, <3>2
  <2> QED BY <1>1, <1>3, <2>2, <2>3 DEF Kept
<1>5. CASE ~acc.cut /\ acc.bytes + rows[n] <= MaxBytes
  <2>1. AddRow(acc, rows[n]) = [acc EXCEPT !.out = Append(@, rows[n]), !.bytes = @ + rows[n]]
    BY <1>1, <1>2, <1>5 DEF AddRow
  <2>2. /\ AddRow(acc, rows[n]).out = Append(acc.out, rows[n])
        /\ AddRow(acc, rows[n]).bytes = acc.bytes + rows[n]
        /\ ~AddRow(acc, rows[n]).cut
    BY <1>1, <1>5, <2>1 DEF Taken
  <2>3. m = n - 1
    BY <1>1, <1>5
  <2>4. Append(acc.out, rows[n]) = SubSeq(rows, 1, n) /\ Len(Append(acc.out, rows[n])) = n
    <3>1. SubSeq(rows, 1, n) \in Seq(Nat) /\ Len(SubSeq(rows, 1, n)) = n
      OBVIOUS
    <3>2. /\ Append(acc.out, rows[n]) \in Seq(Nat)
          /\ Len(Append(acc.out, rows[n])) = n
      BY <1>1, <1>2, <2>3
    <3>3. ASSUME NEW i \in 1..n
          PROVE  Append(acc.out, rows[n])[i] = SubSeq(rows, 1, n)[i]
      <4>1. SubSeq(rows, 1, n)[i] = rows[i]
        OBVIOUS
      <4>2. i # n => acc.out[i] = rows[i]
        <5>1. i # n => i \in 1..(n - 1) /\ SubSeq(rows, 1, n - 1)[i] = rows[i]
          OBVIOUS
        <5> QED BY <1>1, <2>3, <5>1
      <4>3. Append(acc.out, rows[n])[i] = IF i = n THEN rows[n] ELSE acc.out[i]
        BY <1>1, <1>2, <2>3
      <4> QED BY <4>1, <4>2, <4>3
    <3> QED BY <3>1, <3>2, <3>3, SeqEqual
  <2> QED BY <1>1, <1>2, <1>3, <1>5, <2>2, <2>3, <2>4 DEF Kept
<1> QED
  BY <1>1, <1>2, <1>4, <1>5

\* So has the whole loop.
LEMMA TakeRowsKeeps ==
  ASSUME NEW rows \in Seq(Nat), NEW k \in 0..Len(rows)
  PROVE  Kept(TakeRows(SubSeq(rows, 1, k)), rows, k)
<1> DEFINE short == SubSeq(rows, 1, k)
<1>1. short \in Seq(Nat) /\ Len(short) = k /\ \A n \in 1..k : short[n] = rows[n]
  OBVIOUS
<1> HIDE DEF short
<1>2. PICK taken :
        /\ TakeRows(short) = taken[k] /\ taken[0] = Nothing
        /\ \A n \in 1..k : taken[n] = AddRow(taken[n - 1], rows[n])
  BY <1>1, TakeRowsEquation
<1> DEFINE Wrong == {n \in 0..k : ~Kept(taken[n], rows, n)}
<1>3. SUFFICES ASSUME Wrong # {}
               PROVE  FALSE
  <2>1. k \in 0..k
    OBVIOUS
  <2> QED BY <1>2, <2>1 DEF short
<1>4. PICK m \in Wrong : \A n \in Wrong : m <= n
  <2>1. Wrong \in SUBSET Nat
    OBVIOUS
  <2> HIDE DEF Wrong
  <2> QED BY <1>3, <2>1, LeastElement
<1>5. m \in 0..k /\ ~Kept(taken[m], rows, m)
  OBVIOUS
<1>6. m # 0
  <2>1. /\ Nothing \in Taken /\ Nothing.out = <<>> /\ Nothing.bytes = 0 /\ ~Nothing.cut
    BY DEF Nothing, Taken
  <2>2. Len(<<>>) = 0 /\ SubSeq(rows, 1, 0) = <<>>
    OBVIOUS
  <2>3. Kept(Nothing, rows, 0)
    BY <2>1, <2>2, BytesEquation, QueryGateAssumption DEF Kept
  <2> QED BY <1>2, <1>5, <2>3
<1>7. m \in 1..k /\ m \in 1..Len(rows) /\ m - 1 \in 0..k /\ ~(m <= m - 1)
  BY <1>5, <1>6
<1>8. Kept(taken[m - 1], rows, m - 1)
  BY <1>4, <1>7
<1> HIDE DEF Wrong
<1> QED
  BY <1>2, <1>5, <1>7, <1>8, AddRowKeeps

\* _apply_result_limits() keeps the longest prefix within both limits.
LEMMA LimitsKeepPrefix ==
  ASSUME NEW rows \in Seq(Nat)
  PROVE  LET a == ApplyResultLimits(rows) IN
           IsLongestPrefix(a.out, a.rows) /\ (a.truncated <=> Len(a.out) < Len(a.rows))
<1> DEFINE a == ApplyResultLimits(rows)
           k == Min({Len(rows), MaxRows})
           acc == TakeRows(SubSeq(rows, 1, k))
           m == Len(acc.out)
<1>1. /\ MaxRows \in Nat /\ MaxBytes \in Nat /\ k \in 0..Len(rows) /\ k <= MaxRows
      /\ k = Len(rows) \/ k = MaxRows
  <2>1. {Len(rows), MaxRows} \in SUBSET Nat /\ {Len(rows), MaxRows} # {}
    BY QueryGateAssumption
  <2>2. PICK x \in {Len(rows), MaxRows} : \A n \in {Len(rows), MaxRows} : x <= n
    BY <2>1, LeastElement
  <2>3. k \in {Len(rows), MaxRows} /\ \A n \in {Len(rows), MaxRows} : k <= n
    BY <2>2 DEF Min
  <2> HIDE DEF k
  <2> QED BY <2>1, <2>3, QueryGateAssumption
<1>2. Kept(acc, rows, k)
  <2> HIDE DEF k
  <2> QED BY <1>1, TakeRowsKeeps
<1>3. a.rows = rows /\ a.out = acc.out /\ (a.truncated <=> acc.cut \/ Len(rows) > MaxRows)
  BY DEF ApplyResultLimits
<1> HIDE DEF a, k, acc
<1>4. /\ m \in Nat /\ m <= k /\ acc.out = SubSeq(rows, 1, m)
      /\ Bytes(rows, m) \in Nat /\ Bytes(rows, m) <= MaxBytes
      /\ IF acc.cut THEN m < k /\ Bytes(rows, m + 1) > MaxBytes ELSE m = k
  BY <1>2 DEF Kept, Taken
<1> HIDE DEF m
<1>5. m < Len(rows) => ~(m + 1 <= MaxRows /\ Bytes(rows, m + 1) <= MaxBytes)
  <2>1. ASSUME m < Len(rows), m + 1 <= MaxRows
        PROVE  Bytes(rows, m + 1) \in Nat /\ acc.cut
    <3>1. m + 1 \in 0..Len(rows) /\ m # k
      BY <1>1, <1>4, <2>1
    <3> QED BY <1>4, <3>1, BytesEquation
  <2> QED BY <1>1, <1>4, <2>1
<1>6. IsLongestPrefix(a.out, a.rows)
  BY <1>1, <1>3, <1>4, <1>5 DEF IsLongestPrefix, m
<1>7. a.truncated <=> Len(a.out) < Len(a.rows)
  <2>1. (acc.cut \/ Len(rows) > MaxRows) <=> m < Len(rows)
    BY <1>1, <1>4
  <2> QED BY <1>3, <2>1 DEF m
<1> QED
  BY <1>6, <1>7 DEF a

\* An answer is the longest prefix of its rows within both limits, and says whether it
\* is all of them, for any row sizes and limits.
THEOREM AnswersArePrefixes == GateSpec => []LimitsArePrefix
<1>1. GateInit => LimitsArePrefix
  <2>1. <<>> \in Seq(Nat)
    OBVIOUS
  <2> QED BY <2>1, LimitsKeepPrefix DEF GateInit, LimitsArePrefix
<1>2. LimitsArePrefix /\ [GateNext]_gateVars => LimitsArePrefix'
  <2> SUFFICES ASSUME LimitsArePrefix, [GateNext]_gateVars
               PROVE  LimitsArePrefix'
    OBVIOUS
  <2>1. CASE UNCHANGED answer
    BY <2>1 DEF LimitsArePrefix
  <2>2. CASE \E rows \in BoundedSeq(RowSizes, MaxLen) : answer' = ApplyResultLimits(rows)
    <3>1. PICK rows \in BoundedSeq(RowSizes, MaxLen) : answer' = ApplyResultLimits(rows)
      BY <2>2
    <3>2. PICK n \in 0..MaxLen : rows \in [1..n -> RowSizes]
      BY <3>1 DEF BoundedSeq, SeqOf
    <3>3. rows \in Seq(Nat)
      <4>1. n \in Nat /\ RowSizes \subseteq Nat
        BY QueryGateAssumption
      <4>2. rows \in [1..n -> Nat]
        BY <3>2, <4>1
      <4> QED BY <4>1, <4>2
    <3> QED BY <3>1, <3>3, LimitsKeepPrefix DEF LimitsArePrefix
  <2> QED
    BY <2>1, <2>2 DEF GateNext, gateVars, Ask, Enter, Resume, Start, Returns, AnsweredByCache,
                      Raises, TimesOut, Invalidated, CancelWaiting, Ends
<1> QED
  BY <1>1, <1>2, PTL DEF GateSpec

----------------------------------------------------------------------------
(* The trace of a request (core/performance/request_profiler.py, trace.py) *)

\* The recursive definition of the ancestors defines them.
LEMMA LineageEquation ==
  ASSUME NEW tree \in Seq(Nat), \A n \in 1..Len(tree) : tree[n] < n
  PROVE  /\ Lineage(tree)[0] = {}
         /\ \A n \in 1..Len(tree) : Lineage(tree)[n] = {n} \cup Lineage(tree)[tree[n]]
<1> DEFINE S == SUBSET (1..Len(tree))
           step == [n \in 1..Len(tree) |-> [s \in S |-> {n} \cup s]]
<1>1. \A n \in 1..Len(tree) : tree[n] \in 0..(n - 1)
  OBVIOUS
<1>2. PICK f \in [0..Len(tree) -> S] :
        f[0] = {} /\ \A n \in 1..Len(tree) : f[n] = step[n][f[tree[n]]]
  <2>1. {} \in S /\ Len(tree) \in Nat /\ tree \in [1..Len(tree) -> Nat]
    OBVIOUS
  <2>2. step \in [1..Len(tree) -> [S -> S]]
    OBVIOUS
  <2> HIDE DEF S, step
  <2>3. Recursive(S, {}, Len(tree), tree, step)
    BY <2>1, <2>2 DEF Recursive
  <2> QED BY <2>3, Recursion
<1>3. ASSUME NEW n \in 1..Len(tree)
      PROVE  tree[n] \in 0..Len(tree) /\ f[n] = {n} \cup f[tree[n]]
  <2>1. tree[n] \in 0..Len(tree)
    BY <1>1
  <2>2. f[tree[n]] \in S
    BY <1>2, <2>1
  <2> QED BY <1>2, <2>1, <2>2
<1>4. f = [n \in 0..Len(tree) |-> IF n = 0 THEN {} ELSE {n} \cup f[tree[n]]]
  <2> DEFINE g == [n \in 0..Len(tree) |-> IF n = 0 THEN {} ELSE {n} \cup f[tree[n]]]
  <2>1. \A n \in 0..Len(tree) : n = 0 \/ n \in 1..Len(tree)
    OBVIOUS
  <2>2. \A n \in 0..Len(tree) : f[n] = g[n]
    BY <1>2, <1>3, <2>1
  <2> HIDE DEF S
  <2> QED BY <1>2, <2>2
<1>5. Lineage(tree) = [n \in 0..Len(tree) |->
                         IF n = 0 THEN {} ELSE {n} \cup Lineage(tree)[tree[n]]]
  <2> HIDE DEF S, step
  <2> QED BY <1>4 DEF Lineage
<1>6. 0 \in 0..Len(tree) /\ \A n \in 1..Len(tree) : n \in 0..Len(tree) /\ n # 0
  OBVIOUS
<1> HIDE DEF S, step
<1> QED
  BY <1>5, <1>6
\* They started before the node.
LEMMA LineageBelow ==
  ASSUME NEW tree \in Seq(Nat), \A n \in 1..Len(tree) : tree[n] < n
  PROVE  \A n \in 0..Len(tree) : Lineage(tree)[n] \subseteq 1..n
<1> DEFINE Wrong == {n \in 0..Len(tree) : ~(Lineage(tree)[n] \subseteq 1..n)}
<1>1. SUFFICES ASSUME Wrong # {}
               PROVE  FALSE
  OBVIOUS
<1>2. PICK m \in Wrong : \A n \in Wrong : m <= n
  <2>1. Wrong \in SUBSET Nat
    OBVIOUS
  <2> HIDE DEF Wrong
  <2> QED BY <1>1, <2>1, LeastElement
<1>3. m \in 0..Len(tree) /\ ~(Lineage(tree)[m] \subseteq 1..m)
  OBVIOUS
<1>4. m \in 1..Len(tree)
  BY <1>3, LineageEquation
<1>5. tree[m] \in 0..Len(tree) /\ tree[m] < m
  BY <1>4
<1>6. Lineage(tree)[tree[m]] \subseteq 1..tree[m]
  BY <1>2, <1>5
<1>7. Lineage(tree)[m] = {m} \cup Lineage(tree)[tree[m]]
  BY <1>4, LineageEquation
<1>8. 1..tree[m] \subseteq 1..m /\ m \in 1..m
  BY <1>4, <1>5
<1> HIDE DEF Wrong
<1> QED BY <1>3, <1>6, <1>7, <1>8

\* A new node leaves the ancestors of the others alone.
LEMMA LineageGrows ==
  ASSUME NEW tree \in Seq(Nat), \A n \in 1..Len(tree) : tree[n] < n,
         NEW top \in 0..Len(tree)
  PROVE  LET grown == Append(tree, top) IN
           /\ \A n \in 1..Len(grown) : grown[n] < n
           /\ \A n \in 0..Len(tree) : Lineage(grown)[n] = Lineage(tree)[n]
           /\ Lineage(grown)[Len(grown)] = {Len(grown)} \cup Lineage(tree)[top]
<1> DEFINE grown == Append(tree, top)
           Wrong == {n \in 0..Len(tree) : Lineage(grown)[n] # Lineage(tree)[n]}
<1>1. /\ grown \in Seq(Nat) /\ Len(grown) = Len(tree) + 1
      /\ \A n \in 1..Len(tree) : grown[n] = tree[n]
      /\ grown[Len(grown)] = top
  OBVIOUS
<1>2. \A n \in 1..Len(grown) : grown[n] < n
  <2> TAKE n \in 1..Len(grown)
  <2>1. n \in 1..Len(tree) \/ n = Len(grown)
    BY <1>1
  <2> HIDE DEF grown
  <2> QED BY <1>1, <2>1
<1> HIDE DEF grown
<1>3. Wrong = {}
  <2>1. SUFFICES ASSUME Wrong # {}
                 PROVE  FALSE
    OBVIOUS
  <2>2. PICK m \in Wrong : \A n \in Wrong : m <= n
    <3>1. Wrong \in SUBSET Nat
      OBVIOUS
    <3> HIDE DEF Wrong
    <3> QED BY <2>1, <3>1, LeastElement
  <2>3. m \in 0..Len(tree) /\ Lineage(grown)[m] # Lineage(tree)[m]
    OBVIOUS
  <2>4. m \in 1..Len(tree) /\ m \in 1..Len(grown)
    <3>1. Lineage(grown)[0] = Lineage(tree)[0]
      BY <1>1, <1>2, LineageEquation
    <3> QED BY <1>1, <2>3, <3>1
  <2>5. tree[m] \in 0..Len(tree) /\ tree[m] < m /\ grown[m] = tree[m]
    BY <1>1, <2>4
  <2>6. Lineage(grown)[tree[m]] = Lineage(tree)[tree[m]]
    BY <2>2, <2>5
  <2>7. Lineage(grown)[m] = {m} \cup Lineage(grown)[grown[m]]
    BY <1>1, <1>2, <2>4, LineageEquation
  <2>8. Lineage(tree)[m] = {m} \cup Lineage(tree)[tree[m]]
    BY <2>4, LineageEquation
  <2> HIDE DEF Wrong
  <2> QED BY <2>3, <2>5, <2>6, <2>7, <2>8
<1>4. \A n \in 0..Len(tree) : Lineage(grown)[n] = Lineage(tree)[n]
  BY <1>3
<1>5. Lineage(grown)[Len(grown)] = {Len(grown)} \cup Lineage(grown)[top]
  <2>1. Len(grown) \in 1..Len(grown)
    BY <1>1
  <2> QED BY <1>1, <1>2, <2>1, LineageEquation
<1> QED
  BY <1>2, <1>4, <1>5 DEF grown

\* A step of one actor's call on the tree.
TreeCall(a) ==
  \/ StartStage(a) /\ (a = "task" \/ scopes[a] = <<>>)
  \/ FinishStage(a) \/ Attach(a) \/ Activate(a) \/ TakeActive(a) \/ FinishNode(a) \/ ResumeParent(a)
  \/ a = "task" /\ (RequestEnds \/ FinishAll \/ Complete)

\* A step of a call of run() that leaves the tree alone.
ThreadStep(t) == Calling(t) \/ Returned(t) \/ CallAbandoned(t) \/ CallStarts(t) \/ CallEnds(t)

\* A step moves one actor's call on the tree, or leaves the tree alone.
LEMMA TraceSteps ==
  ASSUME TraceNext
  PROVE  \/ \E a \in Actors : TreeCall(a) /\ UNCHANGED thread
         \/ UNCHANGED stageVars /\ \E t \in Threads : ThreadStep(t)
<1>1. CASE OpenStage \/ CloseStage \/ RequestEnds \/ FinishAll \/ Complete
  <2>1. "task" \in Actors
    BY DEF Actors
  <2> QED
    BY <1>1, <2>1 DEF OpenStage, CloseStage, RequestEnds, FinishAll, Complete, TreeCall
<1>2. CASE \E a \in Actors : TreeStep(a)
  BY <1>2 DEF TreeStep, TreeCall
<1>3. ASSUME NEW t \in Threads, Statement(t) \/ StatementEnds(t)
      PROVE  TreeCall(t) /\ UNCHANGED thread /\ t \in Actors
  BY <1>3 DEF Statement, StatementEnds, TreeCall, Actors
<1>4. ASSUME NEW t \in Threads, ThreadStep(t)
      PROVE  UNCHANGED stageVars
  BY <1>4 DEF ThreadStep, Calling, Returned, CallAbandoned, CallStarts, CallEnds
<1> QED
  BY <1>1, <1>2, <1>3, <1>4 DEF TraceNext, ThreadStep

Calls == [at : Places, seen : Nat, node : Nat]

\* A step moves the call of one actor.
Moves(a, record) ==
  /\ call'[a] = record /\ call' \in [Actors -> Calls]
  /\ \A b \in Actors \ {a} : call'[b] = call[b]

\* What MoveTo, BeginCall and Leave do to the mover's record.
LEMMA Moved ==
  ASSUME TraceTypeOK, NEW a \in Actors, NEW where \in Places, NEW n \in Nat
  PROVE  /\ MoveTo(a, where, n) => Moves(a, [at |-> where, seen |-> call[a].seen, node |-> n])
         /\ BeginCall(a, where, n) => Moves(a, [at |-> where, seen |-> n, node |-> 0])
         /\ Leave(a) => Moves(a, Ready)
<1>1. call \in [Actors -> [at : Places, seen : Nat, node : Nat]]
  BY DEF TraceTypeOK
<1>2. Ready \in Calls
  BY DEF Ready, Places, Calls
<1>3. MoveTo(a, where, n) => Moves(a, [at |-> where, seen |-> call[a].seen, node |-> n])
  BY <1>1 DEF MoveTo, Calls, Moves
<1>4. BeginCall(a, where, n) => Moves(a, [at |-> where, seen |-> n, node |-> 0])
  BY <1>1 DEF BeginCall, Calls, Moves
<1> QED
  BY <1>1, <1>2, <1>3, <1>4 DEF Leave, Calls, Moves

\* The places named.
LEMMA PlacesNamed ==
  /\ "start" \in Places /\ "finish" \in Places /\ "attached" \in Places /\ "taken" \in Places
  /\ "ended" \in Places /\ "drain" \in Places /\ "drained" \in Places /\ "done" \in Places
BY DEF Places

TreeKept == UNCHANGED <<parent, finished, current>>

\* A call begins when its actor is in no other.
LEMMA Begins ==
  ASSUME TraceTypeOK, NEW a \in Actors, NEW where \in Places, NEW n \in Nat, BeginCall(a, where, n)
  PROVE  /\ At(a, "ready") /\ Moves(a, [at |-> where, seen |-> n, node |-> 0])
         /\ overlapped' = (overlapped \/ \E b \in Actors \ {a} : InTree(b))
BY Moved DEF BeginCall

\* _start_stage() begins.
LEMMA StartEffect ==
  ASSUME TraceTypeOK, NEW a \in Actors, StartStage(a)
  PROVE  /\ At(a, "ready") /\ Moves(a, [at |-> "start", seen |-> 0, node |-> 0])
         /\ overlapped' = (overlapped \/ \E b \in Actors \ {a} : InTree(b))
         /\ TreeKept /\ UNCHANGED <<completed, scopes, points>>
BY Begins, PlacesNamed DEF StartStage, treeVars, TreeKept

\* _finish_stage() reads the active node, for the name of the timer.
LEMMA FinishEffect ==
  ASSUME TraceTypeOK, NEW a \in Actors, FinishStage(a)
  PROVE  /\ At(a, "ready") /\ scopes[a] # <<>>
         /\ Moves(a, [at |-> "finish", seen |-> current, node |-> 0])
         /\ overlapped' = (overlapped \/ \E b \in Actors \ {a} : InTree(b))
         /\ TreeKept /\ UNCHANGED <<completed, scopes, points>>
<1>1. current \in Nat
  BY DEF TraceTypeOK
<1> QED
  BY <1>1, Begins, PlacesNamed DEF FinishStage, treeVars, TreeKept

\* complete() begins.
LEMMA EndEffect ==
  ASSUME TraceTypeOK, "task" \in Actors, RequestEnds
  PROVE  /\ At("task", "ready") /\ scopes["task"] = <<>>
         /\ Moves("task", [at |-> "drain", seen |-> 0, node |-> 0])
         /\ overlapped' = (overlapped \/ \E b \in Actors \ {"task"} : InTree(b))
         /\ TreeKept /\ UNCHANGED <<completed, scopes, points>>
BY Begins, PlacesNamed DEF RequestEnds, treeVars, TreeKept

\* Trace.start() without an active node raises.
LEMMA StartRaises ==
  ASSUME TraceTypeOK, NEW a \in Actors, Attach(a), current = 0
  PROVE  /\ At(a, "start") /\ Moves(a, Ready)
         /\ TreeKept /\ UNCHANGED <<completed, scopes, points, overlapped>>
<1>1. Leave(a)
  BY DEF Attach
<1> QED
  BY <1>1, Moved, PlacesNamed DEF Attach, TreeKept

\* A new node starts after its parent, and moves none of the others.
LEMMA Attaches ==
  ASSUME TraceTypeOK, NEW a \in Actors, Attach(a), current # 0
  PROVE  LET node == Len(parent') IN
           /\ At(a, "start") /\ Moves(a, [at |-> "attached", seen |-> call[a].seen, node |-> node])
           /\ UNCHANGED <<finished, current, completed, scopes, points, overlapped>>
           /\ node = Len(parent) + 1 /\ parent' \in Seq(Nat) /\ parent' # <<>>
           /\ Nodes' = Nodes \cup {node} /\ node \notin Nodes /\ node # 1
           /\ \A n \in Nodes : parent'[n] = parent[n]
           /\ parent'[node] = current
           /\ \A n \in Nodes' : parent'[n] < n
           /\ Lineage(parent')[node] = {node} \cup Lineage(parent)[current]
<1>1. parent \in Seq(Nat) /\ current \in 0..Len(parent) /\ \A n \in 1..Len(parent) : parent[n] < n
  BY DEF TraceTypeOK, Nodes
<1>2. parent' = Append(parent, current) /\ Len(parent') = Len(parent) + 1 /\ parent' \in Seq(Nat)
  <2>1. parent' = Append(parent, current)
    BY DEF Attach
  <2> QED BY <1>1, <2>1
<1>3. Nodes' = Nodes \cup {Len(parent')} /\ Len(parent') \notin Nodes /\ parent' # <<>>
  BY <1>1, <1>2 DEF Nodes
<1>4. (\A n \in Nodes : parent'[n] = parent[n]) /\ parent'[Len(parent')] = current
  BY <1>1, <1>2 DEF Nodes
<1>5. /\ \A n \in 1..Len(parent') : parent'[n] < n
      /\ Lineage(parent')[Len(parent')] = {Len(parent')} \cup Lineage(parent)[current]
  BY <1>1, <1>2, LineageGrows
<1>6. Len(parent') # 1 /\ Len(parent') \in Nat
  BY <1>1, <1>2
<1>7. Moves(a, [at |-> "attached", seen |-> call[a].seen, node |-> Len(parent')])
  <2>1. MoveTo(a, "attached", Len(parent'))
    BY DEF Attach
  <2> QED BY <1>6, <2>1, Moved, PlacesNamed
<1>8. At(a, "start") /\ UNCHANGED <<finished, current, completed, scopes, points, overlapped>>
  BY DEF Attach
<1> QED
  BY <1>2, <1>3, <1>4, <1>5, <1>6, <1>7, <1>8 DEF Nodes

\* The new node becomes the active one.
LEMMA ActivateEffect ==
  ASSUME TraceTypeOK, NEW a \in Actors, Activate(a)
  PROVE  /\ At(a, "attached") /\ Moves(a, Ready)
         /\ current' = call[a].node /\ scopes' = [scopes EXCEPT ![a] = Append(@, call[a].node)]
         /\ UNCHANGED <<parent, finished, completed, points, overlapped>>
BY Moved, PlacesNamed DEF Activate

\* Trace.finish() takes the active node in hand, or raises.
LEMMA TakeEffect ==
  ASSUME TraceTypeOK, NEW a \in Actors, TakeActive(a)
  PROVE  /\ At(a, "finish") /\ TreeKept /\ UNCHANGED <<completed, points, overlapped>>
         /\ current # 0 =>
              /\ Moves(a, [at |-> "taken", seen |-> call[a].seen, node |-> current])
              /\ scopes' = scopes
         /\ current = 0 /\ scopes[a] = <<>> =>
              /\ Moves(a, [at |-> "done", seen |-> call[a].seen, node |-> 0])
              /\ scopes' = scopes
         /\ current = 0 /\ scopes[a] # <<>> =>
              Moves(a, Ready) /\ scopes' = [scopes EXCEPT ![a] = Front(@)]
<1>1. current \in Nat /\ scopes \in [Actors -> Seq(Nodes \ {1})]
  BY DEF TraceTypeOK
<1>2. At(a, "finish") /\ TreeKept /\ UNCHANGED <<completed, points, overlapped>>
  BY DEF TakeActive, TreeKept, treeVars
<1>3. CASE current # 0
  BY <1>1, <1>2, <1>3, Moved, PlacesNamed DEF TakeActive
<1>4. CASE current = 0 /\ scopes[a] = <<>>
  <2>1. MoveTo(a, "done", 0) /\ scopes' = scopes
    BY <1>1, <1>4 DEF TakeActive, Completing
  <2> QED BY <1>2, <1>4, <2>1, Moved, PlacesNamed
<1>5. CASE current = 0 /\ scopes[a] # <<>>
  <2>1. Leave(a) /\ scopes' = [scopes EXCEPT ![a] = Front(@)]
    BY <1>1, <1>5 DEF TakeActive, Completing
  <2> QED BY <1>2, <1>5, <2>1, Moved, PlacesNamed
<1> QED
  BY <1>3, <1>4, <1>5

\* TraceNode.finish() gives it a duration.
LEMMA FinishNodeEffect ==
  ASSUME TraceTypeOK, NEW a \in Actors, FinishNode(a)
  PROVE  /\ At(a, "taken")
         /\ Moves(a, [at |-> "ended", seen |-> call[a].seen, node |-> call[a].node])
         /\ finished' = finished \cup {call[a].node}
         /\ UNCHANGED <<parent, current, completed, scopes, points, overlapped>>
<1>1. call[a].node \in Nat
  BY DEF TraceTypeOK
<1> QED
  BY <1>1, Moved, PlacesNamed DEF FinishNode

\* Its parent becomes the active node, and the timer is recorded.
LEMMA ResumeEffect ==
  ASSUME TraceTypeOK, NEW a \in Actors, ResumeParent(a)
  PROVE  /\ At(a, "ended") /\ current' = parent[call[a].node]
         /\ UNCHANGED <<parent, finished, completed, overlapped>>
         /\ scopes[a] = <<>> =>
              /\ Moves(a, [at |-> "drain", seen |-> call[a].seen, node |-> 0])
              /\ UNCHANGED <<scopes, points>>
         /\ scopes[a] # <<>> =>
              /\ Moves(a, Ready) /\ scopes' = [scopes EXCEPT ![a] = Front(@)]
              /\ call[a].seen # 0 =>
                   points' = points \cup {[name |-> call[a].seen, value |-> call[a].node,
                                           scope |-> Last(scopes[a])]}
              /\ call[a].seen = 0 => points' = points
<1>1. /\ At(a, "ended") /\ current' = parent[call[a].node]
      /\ UNCHANGED <<parent, finished, completed, overlapped>>
  BY DEF ResumeParent
<1>2. CASE scopes[a] = <<>>
  <2>1. MoveTo(a, "drain", 0) /\ UNCHANGED <<scopes, points>>
    BY <1>2 DEF ResumeParent, Return, Completing
  <2> QED BY <1>1, <1>2, <2>1, Moved, PlacesNamed
<1>3. CASE scopes[a] # <<>>
  <2>1. /\ Leave(a) /\ scopes' = [scopes EXCEPT ![a] = Front(@)]
        /\ call[a].seen # 0 =>
             points' = points \cup {[name |-> call[a].seen, value |-> call[a].node,
                                     scope |-> Last(scopes[a])]}
        /\ call[a].seen = 0 => points' = points
    BY <1>3 DEF ResumeParent, Return, Completing
  <2>2. Moves(a, Ready)
    BY <2>1, Moved, PlacesNamed
  <2> QED BY <1>1, <1>3, <2>1, <2>2
<1> QED
  BY <1>2, <1>3

\* finish_all() looks for an active node.
LEMMA FinishAllEffect ==
  ASSUME TraceTypeOK, "task" \in Actors, FinishAll
  PROVE  /\ At("task", "drain") /\ TreeKept /\ UNCHANGED <<completed, scopes, points, overlapped>>
         /\ Moves("task", [at |-> IF current = 0 THEN "drained" ELSE "finish",
                           seen |-> call["task"].seen, node |-> 0])
<1>1. (IF current = 0 THEN "drained" ELSE "finish") \in Places
  BY PlacesNamed
<1> QED
  BY <1>1, Moved DEF FinishAll, TreeKept, treeVars

\* complete() returns.
LEMMA CompleteEffect ==
  ASSUME TraceTypeOK, "task" \in Actors, Complete
  PROVE  /\ At("task", "drained") /\ TreeKept /\ UNCHANGED <<scopes, points, overlapped>>
         /\ completed' = TRUE
         /\ Moves("task", [at |-> "done", seen |-> call["task"].seen, node |-> 0])
BY Moved, PlacesNamed DEF Complete, TreeKept

\* What CallsPlaced says of one actor.
Placed(a) ==
  /\ At(a, "attached") => call[a].node \in Nodes \ {1}
  /\ call[a].at \in {"taken", "ended"} => call[a].node \in Nodes
  /\ call[a].at \in {"drain", "drained", "done"} => a = "task" /\ scopes[a] = <<>>
  /\ call[a].at \in {"finish", "taken", "ended"} /\ Completing(a) => a = "task"
  /\ call[a].at \in {"start", "attached"} => a = "task" \/ scopes[a] = <<>>

\* Types, and which node a call has in hand, are kept if the mover keeps them.
LEMMA MoverKeepsTypes ==
  ASSUME TraceTypeOK, CallsPlaced, NEW a \in Actors, NEW record, Moves(a, record), UNCHANGED thread,
         parent' \in Seq(Nat), parent' # <<>>, \A n \in Nodes' : parent'[n] < n, Nodes \subseteq Nodes',
         current' \in 0..Len(parent'), finished' \subseteq Nodes', overlapped' \in BOOLEAN,
         scopes' \in [Actors -> Seq(Nodes' \ {1})],
         \A b \in Actors \ {a} : scopes'[b] = scopes[b],
         Placed(a)', ~At(a, "done"),
         completed' = completed \/ (completed' = TRUE /\ a = "task" /\ record.at = "done")
  PROVE  TraceTypeOK' /\ CallsPlaced'
<1>1. TraceTypeOK'
  BY DEF TraceTypeOK, Moves, Calls
<1>2. completed' => At("task", "done")'
  <2>1. "task" \in Actors
    BY DEF Actors
  <2> QED BY <2>1 DEF CallsPlaced, At, Moves
<1>3. \A b \in Actors : Placed(b)'
  <2> TAKE b \in Actors
  <2>1. CASE b # a
    <3>1. call'[b] = call[b] /\ scopes'[b] = scopes[b]
      BY <2>1 DEF Moves
    <3> QED BY <3>1 DEF CallsPlaced, Placed, At, Completing
  <2> QED BY <2>1
<1> QED
  BY <1>1, <1>2, <1>3 DEF CallsPlaced, Placed

\* Types, and which node a call has in hand, after every step, whatever abandoned threads do.
LEMMA TreeTypes ==
  ASSUME TraceTypeOK, CallsPlaced, NEW a \in Actors, TreeCall(a), UNCHANGED thread
  PROVE  TraceTypeOK' /\ CallsPlaced'
<1>0. /\ parent \in Seq(Nat) /\ parent # <<>> /\ (\A n \in Nodes : parent[n] < n)
      /\ current \in 0..Len(parent) /\ finished \subseteq Nodes /\ completed \in BOOLEAN
      /\ scopes \in [Actors -> Seq(Nodes \ {1})] /\ overlapped \in BOOLEAN
      /\ Nodes = 1..Len(parent)
  BY DEF TraceTypeOK, Nodes
<1>1. Placed(a) /\ scopes[a] \in Seq(Nodes \ {1})
  BY <1>0 DEF CallsPlaced, Placed
<1>2. UNCHANGED parent => UNCHANGED Nodes
  BY DEF Nodes
<1>3. scopes[a] # <<>> => [scopes EXCEPT ![a] = Front(@)] \in [Actors -> Seq(Nodes \ {1})]
  <2>1. scopes[a] # <<>> => Front(scopes[a]) \in Seq(Nodes \ {1})
    BY <1>1 DEF Front
  <2> QED BY <1>0, <2>1
<1>4. Ready.at = "ready"
  BY DEF Ready
<1>5. ASSUME NEW record, Moves(a, record), TreeKept, UNCHANGED <<scopes, completed>>, ~At(a, "done"),
             overlapped' \in BOOLEAN, Placed(a)'
      PROVE  TraceTypeOK' /\ CallsPlaced'
  BY <1>0, <1>2, <1>5, MoverKeepsTypes DEF TreeKept
<1>6. CASE StartStage(a) /\ (a = "task" \/ scopes[a] = <<>>)
  <2>1. Placed(a)'
    BY <1>6, StartEffect DEF Placed, Moves, At
  <2> QED BY <1>5, <1>6, <2>1, StartEffect DEF At
<1>7. CASE FinishStage(a)
  <2>1. Placed(a)'
    BY <1>7, FinishEffect DEF Placed, Moves, At, Completing
  <2> QED BY <1>5, <1>7, <2>1, FinishEffect DEF At
<1>8. CASE Attach(a)
  <2>1. CASE current = 0
    <3>1. Placed(a)'
      BY <1>4, <1>8, <2>1, StartRaises DEF Placed, Moves, At
    <3> QED BY <1>0, <1>5, <1>8, <2>1, <3>1, StartRaises DEF At
  <2>2. CASE current # 0
    <3> DEFINE node == Len(parent')
    <3>1. /\ At(a, "start") /\ Moves(a, [at |-> "attached", seen |-> call[a].seen, node |-> node])
          /\ UNCHANGED <<finished, current, completed, scopes, overlapped>>
          /\ node = Len(parent) + 1 /\ parent' \in Seq(Nat) /\ parent' # <<>>
          /\ Nodes' = Nodes \cup {node} /\ node # 1
          /\ \A n \in Nodes' : parent'[n] < n
      BY <1>8, <2>2, Attaches
    <3>2. current' \in 0..Len(parent')
      BY <1>0, <3>1
    <3> HIDE DEF node
    <3>3. Placed(a)'
      BY <1>1, <3>1 DEF Placed, Moves, At
    <3>4. scopes' \in [Actors -> Seq(Nodes' \ {1})]
      <4>1. \A s \in Seq(Nodes \ {1}) : s \in Seq(Nodes' \ {1})
        BY <3>1
      <4> QED BY <1>0, <3>1, <4>1
    <3> QED BY <1>0, <3>1, <3>2, <3>3, <3>4, MoverKeepsTypes DEF At
  <2> QED BY <2>1, <2>2
<1>9. CASE Activate(a)
  <2>1. /\ At(a, "attached") /\ Moves(a, Ready)
        /\ current' = call[a].node /\ scopes' = [scopes EXCEPT ![a] = Append(@, call[a].node)]
        /\ UNCHANGED <<parent, finished, completed, overlapped>>
    BY <1>9, ActivateEffect
  <2>2. call[a].node \in Nodes \ {1}
    BY <1>1, <2>1 DEF Placed
  <2>3. Append(scopes[a], call[a].node) \in Seq(Nodes \ {1})
    BY <1>1, <2>2
  <2>4. scopes' \in [Actors -> Seq(Nodes \ {1})] /\ current' \in 0..Len(parent)
    BY <1>0, <2>1, <2>2, <2>3
  <2>5. Placed(a)'
    BY <1>4, <2>1 DEF Placed, Moves, At
  <2> QED BY <1>0, <1>2, <2>1, <2>4, <2>5, MoverKeepsTypes DEF At
<1>10. CASE TakeActive(a)
  <2>1. At(a, "finish") /\ TreeKept /\ UNCHANGED <<completed, overlapped>>
    BY <1>10, TakeEffect
  <2>2. CASE current # 0
    <3>1. /\ Moves(a, [at |-> "taken", seen |-> call[a].seen, node |-> current]) /\ scopes' = scopes
      BY <1>10, <2>2, TakeEffect
    <3>2. current \in Nodes /\ Nodes' = Nodes
      BY <1>0, <1>2, <2>1, <2>2 DEF TreeKept
    <3>3. Placed(a)'
      BY <1>1, <2>1, <3>1, <3>2 DEF Placed, Moves, At, Completing
    <3> QED BY <1>0, <1>5, <2>1, <3>1, <3>3 DEF At
  <2>3. CASE current = 0 /\ scopes[a] = <<>>
    <3>1. /\ Moves(a, [at |-> "done", seen |-> call[a].seen, node |-> 0]) /\ scopes' = scopes
      BY <1>10, <2>3, TakeEffect
    <3>2. Placed(a)'
      BY <1>1, <2>1, <2>3, <3>1 DEF Placed, Moves, At, Completing
    <3> QED BY <1>0, <1>5, <2>1, <3>1, <3>2 DEF At
  <2>4. CASE current = 0 /\ scopes[a] # <<>>
    <3>1. Moves(a, Ready) /\ scopes' = [scopes EXCEPT ![a] = Front(@)]
      BY <1>10, <2>4, TakeEffect
    <3>2. Placed(a)'
      BY <1>4, <3>1 DEF Placed, Moves, At
    <3> QED BY <1>0, <1>2, <1>3, <2>1, <2>4, <3>1, <3>2, MoverKeepsTypes DEF TreeKept, At
  <2> QED BY <2>2, <2>3, <2>4
<1>11. CASE FinishNode(a)
  <2>1. /\ At(a, "taken")
        /\ Moves(a, [at |-> "ended", seen |-> call[a].seen, node |-> call[a].node])
        /\ finished' = finished \cup {call[a].node}
        /\ UNCHANGED <<parent, current, completed, scopes, overlapped>>
    BY <1>11, FinishNodeEffect
  <2>2. Placed(a)' /\ call[a].node \in Nodes
    BY <1>1, <1>2, <2>1 DEF Placed, Moves, At, Completing
  <2> QED BY <1>0, <1>2, <2>1, <2>2, MoverKeepsTypes DEF At
<1>12. CASE ResumeParent(a)
  <2>1. /\ At(a, "ended") /\ current' = parent[call[a].node]
        /\ UNCHANGED <<parent, finished, completed, overlapped>>
    BY <1>12, ResumeEffect
  <2>2. current' \in 0..Len(parent)
    <3>1. call[a].node \in 1..Len(parent)
      BY <1>0, <1>1, <2>1 DEF Placed, At
    <3>2. parent[call[a].node] < call[a].node /\ parent[call[a].node] \in Nat
      BY <1>0, <3>1
    <3> QED BY <1>0, <2>1, <3>1, <3>2
  <2>3. CASE scopes[a] = <<>>
    <3>1. /\ Moves(a, [at |-> "drain", seen |-> call[a].seen, node |-> 0]) /\ scopes' = scopes
      BY <1>12, <2>3, ResumeEffect
    <3>2. Placed(a)'
      BY <1>1, <2>1, <2>3, <3>1 DEF Placed, Moves, At, Completing
    <3> QED BY <1>0, <1>2, <2>1, <2>2, <3>1, <3>2, MoverKeepsTypes DEF At
  <2>4. CASE scopes[a] # <<>>
    <3>1. Moves(a, Ready) /\ scopes' = [scopes EXCEPT ![a] = Front(@)]
      BY <1>12, <2>4, ResumeEffect
    <3>2. Placed(a)'
      BY <1>4, <3>1 DEF Placed, Moves, At
    <3> QED BY <1>0, <1>2, <1>3, <2>1, <2>2, <2>4, <3>1, <3>2, MoverKeepsTypes DEF At
  <2> QED BY <2>3, <2>4
<1>13. CASE a = "task" /\ RequestEnds
  <2>1. Placed(a)'
    BY <1>13, EndEffect DEF Placed, Moves, At
  <2> QED BY <1>5, <1>13, <2>1, EndEffect DEF At
<1>14. CASE a = "task" /\ FinishAll
  <2>1. Placed(a)'
    BY <1>1, <1>14, FinishAllEffect DEF Placed, Moves, At
  <2> QED BY <1>0, <1>5, <1>14, <2>1, FinishAllEffect DEF At
<1>15. CASE a = "task" /\ Complete
  <2>1. Placed(a)'
    BY <1>1, <1>15, CompleteEffect DEF Placed, Moves, At
  <2> QED BY <1>0, <1>2, <1>15, <2>1, CompleteEffect, MoverKeepsTypes DEF At, TreeKept
<1> QED
  BY <1>6, <1>7, <1>8, <1>9, <1>10, <1>11, <1>12, <1>13, <1>14, <1>15 DEF TreeCall

\* While no call overlaps another.

\* Nobody but the mover is in a call on the tree.
Alone(a) == \A b \in Actors \ {a} : ~InTree(b)

\* What Serial says of one actor.
InStep(a) ==
  /\ At(a, "attached") => parent[call[a].node] = current
  /\ call[a].at \in {"taken", "ended"} => call[a].node = current
  /\ call[a].at \in {"finish", "taken", "ended"} /\ ~Completing(a) => call[a].seen = current

\* The mover alone is to be looked at.
LEMMA MoverKeepsSerial ==
  ASSUME TraceTypeOK, NEW a \in Actors, NEW record, Moves(a, record), Alone(a), InStep(a)',
         (Nodes \ finished = Lineage(parent)[Successor(a)])', (\A p \in points : p.name = p.value)'
  PROVE  Serial'
<1>1. \A b \in Actors \ {a} : call'[b] = call[b] /\ call[b].at \in {"ready", "done"}
  BY DEF Moves, Alone, InTree, At
<1>2. \A b \in Actors \ {a} : ~InTree(b)' /\ InStep(b)' /\ Successor(b)' = current'
  BY <1>1 DEF InTree, InStep, Successor, At
<1>3. (\A b \in Actors : InStep(b))' /\ (\A b, c \in Actors : InTree(b) /\ InTree(c) => b = c)'
  BY <1>2
<1>4. ASSUME NEW b \in Actors, (\A c \in Actors \ {b} : ~InTree(c))'
      PROVE  (Nodes \ finished = Lineage(parent)[Successor(b)])'
  <2>1. CASE b # a
    <3>1. ~InTree(a)'
      BY <1>4, <2>1
    <3>2. Successor(a)' = current' /\ Successor(b)' = current'
      BY <1>2, <2>1, <3>1 DEF Successor, InTree, At
    <3> QED BY <3>2
  <2> QED BY <2>1
<1> QED
  BY <1>3, <1>4 DEF Serial, InStep

\* A call that is left or begins, or whose next step is still to be taken, has moved nothing.
LEMMA KeepsSerial ==
  ASSUME TraceTypeOK, Serial, NEW a \in Actors, NEW record, Moves(a, record), Alone(a), InStep(a)',
         call[a].at \notin {"attached", "ended"}, record.at \notin {"attached", "ended"},
         TreeKept, UNCHANGED points
  PROVE  Serial'
<1>1. Nodes \ finished = Lineage(parent)[Successor(a)] /\ \A p \in points : p.name = p.value
  BY DEF Serial, Alone
<1>2. Successor(a) = current /\ Successor(a)' = current'
  BY DEF Successor, At, Moves
<1>3. Nodes' = Nodes /\ Lineage(parent)' = Lineage(parent)
  BY DEF TreeKept, Nodes, Lineage
<1> QED
  BY <1>1, <1>2, <1>3, MoverKeepsSerial DEF TreeKept

\* Every step by which no call overlaps another, whoever takes it.
LEMMA TreeSerial ==
  ASSUME TraceTypeOK, CallsPlaced, Serial, NEW a \in Actors, TreeCall(a), ~overlapped'
  PROVE  Serial' /\ Alone(a)
<1>0. /\ parent \in Seq(Nat) /\ (\A n \in 1..Len(parent) : parent[n] < n)
      /\ current \in 0..Len(parent) /\ finished \subseteq Nodes
      /\ Nodes = 1..Len(parent)
  BY DEF TraceTypeOK, Nodes
<1>1. Alone(a) => Nodes \ finished = Lineage(parent)[Successor(a)]
  BY DEF Serial, Alone
<1>2. InTree(a) => Alone(a)
  BY DEF Serial, Alone
<1>3. InStep(a) /\ \A p \in points : p.name = p.value
  BY DEF Serial, InStep
<1>4. Ready.at = "ready"
  BY DEF Ready
<1>5. CASE StartStage(a)
  <2>1. Alone(a)
    BY <1>5, StartEffect DEF Alone
  <2>2. InStep(a)'
    BY <1>5, StartEffect DEF InStep, Moves, At
  <2> QED BY <1>5, <2>1, <2>2, StartEffect, KeepsSerial DEF At
<1>6. CASE FinishStage(a)
  <2>1. Alone(a)
    BY <1>6, FinishEffect DEF Alone
  <2>2. InStep(a)'
    BY <1>6, FinishEffect DEF InStep, Moves, At, TreeKept
  <2> QED BY <1>6, <2>1, <2>2, FinishEffect, KeepsSerial DEF At
<1>7. CASE Attach(a)
  <2>1. CASE current = 0
    <3>1. InStep(a)' /\ Alone(a)
      BY <1>2, <1>4, <1>7, <2>1, StartRaises DEF InStep, Moves, At, InTree
    <3> QED BY <1>4, <1>7, <2>1, <3>1, StartRaises, KeepsSerial DEF At
  <2>2. CASE current # 0
    <3> DEFINE node == Len(parent')
    <3>1. /\ At(a, "start") /\ Moves(a, [at |-> "attached", seen |-> call[a].seen, node |-> node])
          /\ UNCHANGED <<finished, current, points>>
          /\ Nodes' = Nodes \cup {node} /\ node \notin Nodes
          /\ parent'[node] = current
          /\ Lineage(parent')[node] = {node} \cup Lineage(parent)[current]
      BY <1>7, <2>2, Attaches
    <3> HIDE DEF node
    <3>2. InStep(a)' /\ Alone(a)
      BY <1>2, <3>1 DEF InStep, Moves, At, InTree
    <3>3. Successor(a) = current /\ Successor(a)' = node
      BY <3>1 DEF Successor, At, Moves
    <3>4. Nodes' \ finished' = Lineage(parent')[node]
      BY <1>0, <1>1, <3>1, <3>2, <3>3
    <3> QED BY <1>3, <3>1, <3>2, <3>3, <3>4, MoverKeepsSerial
  <2> QED BY <2>1, <2>2
<1>8. CASE Activate(a)
  <2>1. /\ At(a, "attached") /\ Moves(a, Ready) /\ current' = call[a].node
        /\ UNCHANGED <<parent, finished, points>>
    BY <1>8, ActivateEffect
  <2>2. InStep(a)' /\ Alone(a)
    BY <1>2, <1>4, <2>1 DEF InStep, Moves, At, InTree
  <2>3. Successor(a) = current' /\ Successor(a)' = current'
    BY <1>4, <2>1 DEF Successor, At, Moves
  <2>4. Nodes' = Nodes
    BY <2>1 DEF Nodes
  <2> QED BY <1>1, <1>3, <2>1, <2>2, <2>3, <2>4, MoverKeepsSerial
<1>9. CASE TakeActive(a)
  <2>1. At(a, "finish") /\ TreeKept /\ UNCHANGED points /\ Alone(a)
    BY <1>2, <1>9, TakeEffect DEF At, InTree
  <2>2. CASE current # 0
    <3>1. Moves(a, [at |-> "taken", seen |-> call[a].seen, node |-> current]) /\ scopes' = scopes
      BY <1>9, <2>2, TakeEffect
    <3>2. InStep(a)'
      BY <1>3, <2>1, <3>1 DEF InStep, Moves, At, Completing, TreeKept
    <3> QED BY <2>1, <3>1, <3>2, KeepsSerial DEF At
  <2>3. CASE current = 0 /\ scopes[a] = <<>>
    <3>1. Moves(a, [at |-> "done", seen |-> call[a].seen, node |-> 0])
      BY <1>9, <2>3, TakeEffect
    <3>2. InStep(a)'
      BY <3>1 DEF InStep, Moves, At
    <3> QED BY <2>1, <3>1, <3>2, KeepsSerial DEF At
  <2>4. CASE current = 0 /\ scopes[a] # <<>>
    <3>1. Moves(a, Ready)
      BY <1>9, <2>4, TakeEffect
    <3>2. InStep(a)'
      BY <1>4, <3>1 DEF InStep, Moves, At
    <3> QED BY <1>4, <2>1, <3>1, <3>2, KeepsSerial DEF At
  <2> QED BY <2>2, <2>3, <2>4
<1>10. CASE FinishNode(a)
  <2>1. /\ At(a, "taken")
        /\ Moves(a, [at |-> "ended", seen |-> call[a].seen, node |-> call[a].node])
        /\ finished' = finished \cup {call[a].node}
        /\ UNCHANGED <<parent, current, scopes, points>>
    BY <1>10, FinishNodeEffect
  <2>2. call[a].node = current /\ current \in Nodes /\ Alone(a)
    BY <1>2, <1>3, <2>1 DEF InStep, At, CallsPlaced, InTree
  <2>3. InStep(a)'
    BY <1>3, <2>1 DEF InStep, Moves, At, Completing
  <2>4. Successor(a) = current /\ Successor(a)' = parent[current]
    BY <2>1, <2>2 DEF Successor, At, Moves
  <2>5. /\ Lineage(parent)[current] = {current} \cup Lineage(parent)[parent[current]]
        /\ current \notin Lineage(parent)[parent[current]]
    <3>1. Lineage(parent)[current] = {current} \cup Lineage(parent)[parent[current]]
      BY <1>0, <2>2, LineageEquation
    <3>2. parent[current] \in 0..Len(parent) /\ parent[current] < current /\ current \in Nat
      BY <1>0, <2>2
    <3>3. Lineage(parent)[parent[current]] \subseteq 1..parent[current]
      BY <1>0, <3>2, LineageBelow
    <3> QED BY <3>1, <3>2, <3>3
  <2>6. Nodes' = Nodes
    BY <2>1 DEF Nodes
  <2>7. Nodes \ finished' = Lineage(parent)[parent[current]]
    BY <1>1, <2>1, <2>2, <2>4, <2>5
  <2> QED BY <1>3, <2>1, <2>2, <2>3, <2>4, <2>6, <2>7, MoverKeepsSerial
<1>11. CASE ResumeParent(a)
  <2>1. /\ At(a, "ended") /\ current' = parent[call[a].node]
        /\ UNCHANGED <<parent, finished>>
    BY <1>11, ResumeEffect
  <2>2. Alone(a) /\ call[a].node = current
    BY <1>2, <1>3, <2>1 DEF InStep, At, InTree
  <2>3. Nodes' = Nodes /\ Successor(a) = current'
    BY <2>1 DEF Nodes, Successor, At
  <2>4. CASE scopes[a] = <<>>
    <3>1. /\ Moves(a, [at |-> "drain", seen |-> call[a].seen, node |-> 0]) /\ UNCHANGED points
      BY <1>11, <2>4, ResumeEffect
    <3>2. InStep(a)' /\ Successor(a)' = current'
      BY <3>1 DEF InStep, Moves, At, Successor
    <3> QED BY <1>1, <1>3, <2>1, <2>2, <2>3, <3>1, <3>2, MoverKeepsSerial
  <2>5. CASE scopes[a] # <<>>
    <3>1. /\ Moves(a, Ready)
          /\ call[a].seen # 0 =>
               points' = points \cup {[name |-> call[a].seen, value |-> call[a].node,
                                       scope |-> Last(scopes[a])]}
          /\ call[a].seen = 0 => points' = points
      BY <1>11, <2>5, ResumeEffect
    <3>2. InStep(a)' /\ Successor(a)' = current'
      BY <1>4, <3>1 DEF InStep, Moves, At, Successor
    <3>3. call[a].seen = call[a].node
      BY <1>3, <2>1, <2>2, <2>5 DEF InStep, At, Completing
    <3>4. \A p \in points' : p.name = p.value
      BY <1>3, <3>1, <3>3
    <3> QED BY <1>1, <1>3, <2>1, <2>2, <2>3, <3>1, <3>2, <3>4, MoverKeepsSerial
  <2> QED BY <2>4, <2>5
<1>12. CASE a = "task" /\ RequestEnds
  <2>1. Alone(a)
    BY <1>12, EndEffect DEF Alone
  <2>2. InStep(a)'
    BY <1>12, EndEffect DEF InStep, Moves, At
  <2> QED BY <1>12, <2>1, <2>2, EndEffect, KeepsSerial DEF At
<1>13. CASE a = "task" /\ FinishAll
  <2>0. At(a, "drain") /\ scopes[a] = <<>> /\ UNCHANGED scopes
    BY <1>13, FinishAllEffect DEF CallsPlaced, At
  <2>1. InStep(a)' /\ Alone(a)
    BY <1>2, <1>13, <2>0, FinishAllEffect DEF InStep, Moves, At, InTree, Completing
  <2> QED BY <1>13, <2>1, FinishAllEffect, KeepsSerial DEF At
<1>14. CASE a = "task" /\ Complete
  <2>1. InStep(a)' /\ Alone(a)
    BY <1>2, <1>14, CompleteEffect DEF InStep, Moves, At, InTree
  <2> QED BY <1>14, <2>1, CompleteEffect, KeepsSerial DEF At
<1> QED
  BY <1>5, <1>6, <1>7, <1>8, <1>9, <1>10, <1>11, <1>12, <1>13, <1>14 DEF TreeCall

\* Until a running call is abandoned.

\* Everyone but the mover is out of the tree, and what the mover's thread stands for.
Sole(a) ==
  /\ \A t \in Threads \ {a} : scopes[t] = <<>> /\ ~InTree(t)
  /\ IF a = "task" THEN ~Awaiting
     ELSE thread[a] = "running" /\ At("task", "ready") /\ scopes["task"] # <<>>

\* Whoever moves is the only one on the tree.
LEMMA MoverIsSole ==
  ASSUME TraceTypeOK, CallsPlaced, Undisturbed, OneCall, TraceNext
  PROVE  \/ UNCHANGED stageVars /\ \E t \in Threads : ThreadStep(t)
         \/ \E a \in Actors : TreeCall(a) /\ UNCHANGED thread /\ Sole(a)
<1>1. /\ "task" \in Actors /\ \A t \in Threads : t \in Actors /\ t # "task"
      /\ Awaiting => scopes["task"] # <<>> /\ At("task", "ready")
      /\ \A t \in Threads : scopes[t] # <<>> \/ InTree(t) => thread[t] = "running" /\ Awaiting
      /\ \A t, u \in Threads : thread[t] = "running" /\ thread[u] = "running" => t = u
  BY RequestTraceAssumption DEF Actors, OneCall, Awaiting
<1>2. ~Awaiting => Sole("task")
  BY <1>1 DEF Sole
<1>3. ASSUME NEW t \in Threads, thread[t] = "running"
      PROVE  Sole(t)
  BY <1>1, <1>3 DEF Sole, Awaiting
<1>4. CASE OpenStage \/ CloseStage \/ RequestEnds \/ FinishAll \/ Complete
  <2>1. ~Awaiting
    BY <1>1, <1>4 DEF OpenStage, CloseStage, Running, RequestEnds, FinishAll, Complete, At
  <2>2. TreeCall("task") /\ UNCHANGED thread
    BY <1>4 DEF OpenStage, CloseStage, RequestEnds, FinishAll, Complete, TreeCall
  <2> QED BY <1>1, <1>2, <2>1, <2>2
<1>5. ASSUME NEW a \in Actors, TreeStep(a)
      PROVE  TreeCall(a) /\ UNCHANGED thread /\ Sole(a)
  <2>1. TreeCall(a) /\ UNCHANGED thread
    BY <1>5 DEF TreeStep, TreeCall
  <2>2. InTree(a)
    BY <1>5 DEF TreeStep, Attach, Activate, TakeActive, FinishNode, ResumeParent, InTree, At
  <2>3. CASE a = "task"
    BY <1>1, <1>2, <2>1, <2>2, <2>3 DEF InTree
  <2>4. CASE a \in Threads
    BY <1>1, <1>3, <2>1, <2>2, <2>4
  <2> QED BY <2>3, <2>4 DEF Actors
<1>6. ASSUME NEW t \in Threads, Statement(t) \/ StatementEnds(t)
      PROVE  TreeCall(t) /\ UNCHANGED thread /\ Sole(t)
  <2>1. thread[t] = "running"
    BY <1>6 DEF Statement, StatementEnds, InCall, Undisturbed
  <2> QED BY <1>3, <1>6, <2>1 DEF Statement, StatementEnds, TreeCall
<1>7. ASSUME NEW t \in Threads, ThreadStep(t)
      PROVE  UNCHANGED stageVars
  BY <1>7 DEF ThreadStep, Calling, Returned, CallAbandoned, CallStarts, CallEnds
<1> QED
  BY <1>1, <1>4, <1>5, <1>6, <1>7 DEF TraceNext, ThreadStep

\* No call overlaps another.
LEMMA NoneOverlaps ==
  ASSUME TraceTypeOK, NEW a \in Actors, TreeCall(a), Sole(a), ~overlapped
  PROVE  Alone(a) /\ ~overlapped'
<1>1. Alone(a)
  <2>1. a # "task" => At("task", "ready")
    BY DEF Sole
  <2> QED BY <2>1 DEF Alone, Sole, Actors, InTree
<1>2. CASE StartStage(a)
  BY <1>1, <1>2, StartEffect DEF Alone
<1>3. CASE FinishStage(a)
  BY <1>1, <1>3, FinishEffect DEF Alone
<1>4. CASE a = "task" /\ RequestEnds
  BY <1>1, <1>4, EndEffect DEF Alone
<1> QED
  BY <1>1, <1>2, <1>3, <1>4 DEF TreeCall, Attach, Activate, TakeActive, FinishNode, ResumeParent,
                              FinishAll, Complete

\* The node a call has given its duration and whose timer is still to come.
InHand(a) == IF At(a, "ended") THEN {call[a].node} ELSE {}

\* Timed, where only one actor may have a node in hand.
LEMMA TimedAlone ==
  ASSUME NEW a \in Actors, Alone(a)
  PROVE  Timed <=> /\ {p.scope : p \in points} = finished \ ({1} \cup InHand(a))
                   /\ \A p \in points : p.name = p.scope
<1>1. {call[b].node : b \in {c \in Actors : At(c, "ended")}} = InHand(a)
  <2>1. \A b \in Actors : At(b, "ended") => b = a
    BY DEF Alone, InTree, At
  <2>2. CASE At(a, "ended")
    <3>1. {c \in Actors : At(c, "ended")} = {a}
      BY <2>1, <2>2
    <3> QED BY <2>2, <3>1 DEF InHand
  <2>3. CASE ~At(a, "ended")
    <3>1. {c \in Actors : At(c, "ended")} = {}
      BY <2>1, <2>3
    <3> QED BY <2>3, <3>1 DEF InHand
  <2> QED BY <2>2, <2>3
<1> QED
  BY <1>1 DEF Timed

\* The active node is the mover's innermost scope, or the root when complete() finishes it.
LEMMA ActiveOnPath ==
  ASSUME TraceTypeOK, CallsPlaced, OnePath, NEW a \in Actors, Sole(a)
  PROVE  /\ scopes[a] # <<>> => current = Last(scopes[a]) /\ current \in Nodes \ {1}
         /\ scopes[a] = <<>> /\ call[a].at \in {"finish", "taken", "ended"} => a = "task" /\ current = 1
<1>1. scopes[a] \in Seq(Nodes \ {1})
  BY DEF TraceTypeOK
<1>2. scopes[a] # <<>> => Last(scopes[a]) \in Nodes \ {1}
  BY <1>1 DEF Last
<1>3. CASE a = "task"
  <2>1. \A t \in Threads : scopes[t] = <<>>
    BY <1>3, RequestTraceAssumption DEF Sole
  <2>2. scopes[a] # <<>> => current = Last(scopes[a])
    BY <1>3, <2>1 DEF OnePath
  <2>3. scopes[a] = <<>> /\ call[a].at \in {"finish", "taken", "ended"} => current = 1
    BY <1>3 DEF OnePath, At
  <2> QED BY <1>2, <1>3, <2>2, <2>3
<1>4. CASE a \in Threads
  <2>1. scopes[a] # <<>> => scopes[a] = <<current>>
    BY <1>4 DEF OnePath
  <2>2. Last(<<current>>) = current
    BY DEF Last
  <2>3. call[a].at \in {"finish", "taken", "ended"} => scopes[a] # <<>>
    BY <1>4, RequestTraceAssumption DEF CallsPlaced, Completing
  <2> QED BY <1>2, <2>1, <2>2, <2>3
<1> QED
  BY <1>3, <1>4 DEF Actors

\* A step that leaves the tree and the scopes in place.
LEMMA PathKept ==
  ASSUME OnePath, UNCHANGED <<parent, current, scopes>>,
         scopes["task"] = <<>> =>
           (current \in CASE At("task", "drain") -> {0, 1}
                          [] call["task"].at \in {"drained", "done"} -> {0}
                          [] OTHER -> {1})'
  PROVE  OnePath'
BY DEF OnePath

\* Trace.start() in the request's own code.
LEMMA TaskActivates ==
  ASSUME TraceTypeOK, CallsPlaced, Serial, OnePath, "task" \in Actors, Sole("task"), Activate("task")
  PROVE  OnePath'
<1> DEFINE stages == scopes["task"]
           node == call["task"].node
<1>1. /\ At("task", "attached") /\ current' = node /\ parent' = parent
      /\ scopes' = [scopes EXCEPT !["task"] = Append(@, node)]
  BY ActivateEffect
<1>2. /\ stages \in Seq(Nodes \ {1}) /\ node \in Nodes \ {1} /\ parent[node] = current
      /\ scopes \in [Actors -> Seq(Nodes \ {1})]
  BY <1>1 DEF TraceTypeOK, CallsPlaced, Serial
<1>3. scopes'["task"] = Append(stages, node) /\ \A t \in Threads : scopes'[t] = <<>>
  BY <1>1, <1>2, RequestTraceAssumption DEF Sole, Actors
<1>4. current = IF stages = <<>> THEN 1 ELSE Last(stages)
  <2>1. \A t \in Threads : scopes[t] = <<>>
    BY RequestTraceAssumption DEF Sole
  <2> QED BY <1>1, <2>1 DEF OnePath, At
<1> HIDE DEF node
<1>5. \A i \in 1..Len(stages) : parent[stages[i]] = IF i = 1 THEN 1 ELSE stages[i - 1]
  BY DEF OnePath
<1> HIDE DEF stages
<1>6. Append(stages, node) # <<>> /\ Last(Append(stages, node)) = node
  <2>1. Len(Append(stages, node)) = Len(stages) + 1 /\ Append(stages, node)[Len(stages) + 1] = node
    BY <1>2
  <2> QED BY <2>1, <1>2 DEF Last
<1>7. ASSUME NEW i \in 1..Len(Append(stages, node))
      PROVE  parent[Append(stages, node)[i]] = IF i = 1 THEN 1 ELSE Append(stages, node)[i - 1]
  <2>1. CASE i \in 1..Len(stages)
    <3>1. Append(stages, node)[i] = stages[i] /\ (i # 1 => Append(stages, node)[i - 1] = stages[i - 1])
      BY <1>2, <2>1
    <3> QED BY <1>5, <2>1, <3>1
  <2>2. CASE i = Len(stages) + 1
    <3>1. Append(stages, node)[i] = node
      BY <1>2, <2>2
    <3>2. CASE stages = <<>>
      <4>1. i = 1
        BY <2>2, <3>2
      <4> QED BY <1>2, <1>4, <3>1, <3>2, <4>1
    <3>3. CASE stages # <<>>
      <4>1. Len(stages) \in Nat /\ Len(stages) # 0
        BY <1>2, <3>3
      <4>2. i # 1 /\ i - 1 = Len(stages) /\ i - 1 \in 1..Len(stages)
        BY <2>2, <4>1
      <4>3. Append(stages, node)[i - 1] = stages[Len(stages)]
        BY <1>2, <4>2
      <4> QED BY <1>2, <1>4, <3>1, <3>3, <4>2, <4>3 DEF Last
    <3> QED BY <3>2, <3>3
  <2> QED BY <1>2, <1>7, <2>1, <2>2
<1> QED
  BY <1>1, <1>3, <1>6, <1>7 DEF OnePath

\* Trace.finish() in the request's own code.
LEMMA TaskResumes ==
  ASSUME TraceTypeOK, CallsPlaced, Serial, OnePath, "task" \in Actors, Sole("task"), ResumeParent("task"),
         scopes["task"] # <<>>
  PROVE  OnePath'
<1> DEFINE stages == scopes["task"]
           rest == Front(stages)
<1>1. /\ At("task", "ended") /\ current' = parent[call["task"].node] /\ parent' = parent
      /\ Moves("task", Ready) /\ scopes' = [scopes EXCEPT !["task"] = Front(@)]
  BY ResumeEffect
<1>2. /\ stages \in Seq(Nodes \ {1}) /\ stages # <<>> /\ call["task"].node = current
      /\ scopes \in [Actors -> Seq(Nodes \ {1})]
  BY <1>1 DEF TraceTypeOK, Serial, At
<1>3. scopes'["task"] = rest /\ \A t \in Threads : scopes'[t] = <<>>
  BY <1>1, <1>2, RequestTraceAssumption DEF Sole, Actors
<1>4. current = Last(stages)
  BY ActiveOnPath
<1>5. \A i \in 1..Len(stages) : parent[stages[i]] = IF i = 1 THEN 1 ELSE stages[i - 1]
  BY DEF OnePath
<1> HIDE DEF stages
<1>6. /\ rest \in Seq(Nodes) /\ Len(rest) = Len(stages) - 1 /\ Len(stages) \in 1..Len(stages)
      /\ \A i \in 1..(Len(stages) - 1) : rest[i] = stages[i]
  <2>1. Len(stages) \in Nat /\ Len(stages) # 0
    BY <1>2
  <2>2. rest = [i \in 1..(Len(stages) - 1) |-> stages[i]] /\ Len(stages) - 1 \in Nat
    BY <2>1 DEF Front
  <2>3. \A i \in 1..(Len(stages) - 1) : i \in 1..Len(stages) /\ stages[i] \in Nodes
    BY <1>2, <2>1
  <2> QED BY <2>1, <2>2, <2>3
<1> HIDE DEF rest
<1>7. current' = IF rest = <<>> THEN 1 ELSE Last(rest)
  <2>1. current' = IF Len(stages) = 1 THEN 1 ELSE stages[Len(stages) - 1]
    <3>1. parent[stages[Len(stages)]] = IF Len(stages) = 1 THEN 1 ELSE stages[Len(stages) - 1]
      BY <1>5, <1>6
    <3> QED BY <1>1, <1>2, <1>4, <3>1 DEF Last
  <2>2. CASE Len(stages) = 1
    <3>1. rest = <<>>
      BY <1>6, <2>2
    <3> QED BY <2>1, <2>2, <3>1
  <2>3. CASE Len(stages) # 1
    <3>1. Len(rest) \in 1..(Len(stages) - 1) /\ Len(rest) # 0
      <4> DEFINE n == Len(stages)
      <4>1. n \in Nat /\ n # 0 /\ n # 1 /\ Len(rest) = n - 1
        BY <1>2, <1>6, <2>3
      <4> HIDE DEF n
      <4>2. n - 1 \in 1..(n - 1) /\ n - 1 # 0
        BY <4>1
      <4> QED BY <4>1, <4>2 DEF n
    <3>2. rest # <<>> /\ rest[Len(rest)] = stages[Len(stages) - 1]
      BY <1>6, <3>1
    <3> QED BY <2>1, <2>3, <3>2 DEF Last
  <2> QED BY <2>2, <2>3
<1>8. \A i \in 1..Len(rest) : parent[rest[i]] = IF i = 1 THEN 1 ELSE rest[i - 1]
  <2> TAKE i \in 1..Len(rest)
  <2>1. i \in 1..Len(stages) /\ rest[i] = stages[i] /\ (i # 1 => rest[i - 1] = stages[i - 1])
    BY <1>2, <1>6
  <2> QED BY <1>5, <2>1
<1>9. Ready.at = "ready"
  BY DEF Ready
<1> QED
  BY <1>1, <1>3, <1>7, <1>8, <1>9 DEF OnePath, Moves, At

\* The same in the running call (InstrumentedSQLAdapter).
LEMMA ThreadActivates ==
  ASSUME TraceTypeOK, CallsPlaced, Serial, OnePath, NEW t \in Threads, Sole(t), Activate(t)
  PROVE  OnePath'
<1>0. t \in Actors /\ t # "task" /\ "task" \in Actors /\ \A u \in Threads : u \in Actors
  BY RequestTraceAssumption DEF Actors
<1>1. /\ At(t, "attached") /\ current' = call[t].node /\ parent' = parent
      /\ scopes' = [scopes EXCEPT ![t] = Append(@, call[t].node)] /\ Moves(t, Ready)
  BY <1>0, ActivateEffect
<1>2. scopes[t] = <<>> /\ parent[call[t].node] = current
  BY <1>0, <1>1 DEF CallsPlaced, Serial, At
<1>3. /\ scopes'["task"] = scopes["task"] /\ scopes["task"] # <<>> /\ scopes'[t] = <<current'>>
      /\ \A u \in Threads \ {t} : scopes'[u] = <<>>
  <2>1. Append(<<>>, current') = <<current'>>
    OBVIOUS
  <2>2. scopes \in [Actors -> Seq(Nodes \ {1})]
    BY DEF TraceTypeOK
  <2> QED BY <1>0, <1>1, <1>2, <2>1, <2>2 DEF Sole
<1>4. current = Last(scopes["task"])
  <2>1. \A u \in Threads : scopes[u] = <<>>
    BY <1>2 DEF Sole
  <2> QED BY <1>3, <2>1 DEF OnePath
<1>5. \A u \in Threads : scopes'[u] # <<>> => u = t
  BY <1>3
<1>6. scopes'[t] # <<>>
  BY <1>3
<1> QED
  BY <1>1, <1>2, <1>3, <1>4, <1>5, <1>6 DEF OnePath

\* Trace.finish() there.
LEMMA ThreadResumes ==
  ASSUME TraceTypeOK, CallsPlaced, Serial, OnePath, NEW t \in Threads, Sole(t), ResumeParent(t)
  PROVE  OnePath'
<1>0. t \in Actors /\ t # "task" /\ "task" \in Actors /\ \A u \in Threads : u \in Actors
  BY RequestTraceAssumption DEF Actors
<1>1. At(t, "ended") /\ current' = parent[call[t].node] /\ parent' = parent
  BY <1>0, ResumeEffect
<1>2. call[t].node = current /\ scopes[t] # <<>>
  BY <1>0, <1>1, ActiveOnPath DEF Serial, At
<1>3. scopes[t] = <<current>> /\ parent[current] = Last(scopes["task"])
  BY <1>2 DEF OnePath
<1>4. scopes' = [scopes EXCEPT ![t] = Front(@)]
  BY <1>0, <1>2, ResumeEffect
<1>5. Front(<<current>>) = <<>>
  BY DEF Front
<1>6. /\ scopes'["task"] = scopes["task"] /\ scopes["task"] # <<>>
      /\ \A u \in Threads : scopes'[u] = <<>>
  <2>1. scopes \in [Actors -> Seq(Nodes \ {1})]
    BY DEF TraceTypeOK
  <2> QED BY <1>0, <1>3, <1>4, <1>5, <2>1 DEF Sole
<1> QED
  BY <1>1, <1>2, <1>3, <1>6 DEF OnePath

\* The path of the open scopes.
LEMMA TreePath ==
  ASSUME TraceTypeOK, CallsPlaced, Serial, OnePath, NEW a \in Actors, TreeCall(a), Sole(a)
  PROVE  OnePath'
<1>0. "task" \in Actors /\ \A t \in Threads : t # "task"
  BY RequestTraceAssumption DEF Actors
<1>1. ASSUME a \in Threads, NEW record, Moves(a, record)
      PROVE  call'["task"] = call["task"]
  BY <1>0, <1>1 DEF Moves
<1>2. ASSUME UNCHANGED <<parent, current, scopes>>, NEW record, Moves(a, record),
             a = "task" /\ scopes["task"] = <<>> =>
               current \in CASE record.at = "drain" -> {0, 1}
                             [] record.at \in {"drained", "done"} -> {0}
                             [] OTHER -> {1}
      PROVE  OnePath'
  <2>1. CASE a = "task"
    <3>1. call'["task"] = record
      BY <1>2, <2>1 DEF Moves
    <3> QED BY <1>2, <2>1, <3>1, PathKept DEF At
  <2>2. CASE a \in Threads
    <3>1. call'["task"] = call["task"]
      BY <1>1, <1>2, <2>2
    <3>2. scopes["task"] = <<>> =>
            current \in CASE At("task", "drain") -> {0, 1}
                          [] call["task"].at \in {"drained", "done"} -> {0}
                          [] OTHER -> {1}
      BY DEF OnePath
    <3> QED BY <1>2, <3>1, <3>2, PathKept DEF At
  <2> QED BY <2>1, <2>2 DEF Actors
<1>3. a = "task" /\ scopes["task"] = <<>> =>
        /\ call[a].at \notin {"drain", "drained", "done"} => current = 1
        /\ call[a].at = "drain" => current \in {0, 1}
        /\ call[a].at \in {"drained", "done"} => current = 0
  BY DEF OnePath, At
<1>4. Ready.at = "ready"
  BY DEF Ready
<1>5. CASE StartStage(a)
  BY <1>2, <1>3, <1>5, StartEffect DEF TreeKept, At
<1>6. CASE FinishStage(a)
  BY <1>2, <1>3, <1>6, FinishEffect DEF TreeKept, At
<1>7. CASE Attach(a)
  <2>1. CASE current = 0
    BY <1>2, <1>3, <1>4, <1>7, <2>1, StartRaises DEF TreeKept, At
  <2>2. CASE current # 0
    <3>1. /\ At(a, "start") /\ Moves(a, [at |-> "attached", seen |-> call[a].seen, node |-> Len(parent')])
          /\ UNCHANGED <<current, scopes>>
          /\ \A n \in Nodes : parent'[n] = parent[n]
      BY <1>7, <2>2, Attaches
    <3>2. \A t \in Threads : scopes[t] = <<>>
      BY <1>0, <3>1 DEF Sole, CallsPlaced, At, Actors
    <3>3. \A i \in 1..Len(scopes["task"]) :
            parent'[scopes["task"][i]] = IF i = 1 THEN 1 ELSE scopes["task"][i - 1]
      <4>1. scopes["task"] \in Seq(Nodes)
        BY <1>0 DEF TraceTypeOK
      <4>2. \A i \in 1..Len(scopes["task"]) : scopes["task"][i] \in Nodes
        BY <4>1
      <4> QED BY <3>1, <4>2 DEF OnePath
    <3>4. scopes["task"] = <<>> => current = 1 /\ call'["task"].at \notin {"drain", "drained", "done"}
      <4>1. CASE a = "task"
        BY <1>3, <3>1, <4>1 DEF Moves, At
      <4>2. CASE a \in Threads
        BY <1>0, <4>2 DEF Sole
      <4> QED BY <4>1, <4>2 DEF Actors
    <3> QED BY <3>1, <3>2, <3>3, <3>4 DEF OnePath, At
  <2> QED BY <2>1, <2>2
<1>8. CASE Activate(a)
  BY <1>0, <1>8, TaskActivates, ThreadActivates DEF Actors
<1>9. CASE TakeActive(a)
  <2>1. At(a, "finish") /\ TreeKept /\ current # 0
    <3>1. At(a, "finish") /\ TreeKept
      BY <1>9, TakeEffect
    <3>2. 0 \notin Nodes
      BY DEF Nodes
    <3> QED BY <3>1, <3>2, ActiveOnPath DEF At
  <2>2. Moves(a, [at |-> "taken", seen |-> call[a].seen, node |-> current]) /\ scopes' = scopes
    BY <1>9, <2>1, TakeEffect
  <2> QED BY <1>2, <1>3, <2>1, <2>2 DEF TreeKept, At
<1>10. CASE FinishNode(a)
  BY <1>2, <1>3, <1>10, FinishNodeEffect DEF At
<1>11. CASE ResumeParent(a)
  <2>1. CASE a = "task" /\ scopes[a] = <<>>
    <3>1. /\ At(a, "ended") /\ current' = parent[call[a].node]
          /\ parent' = parent /\ scopes' = scopes
          /\ Moves(a, [at |-> "drain", seen |-> call[a].seen, node |-> 0])
      BY <1>11, <2>1, ResumeEffect
    <3>2. call[a].node = 1
      BY <2>1, <3>1, ActiveOnPath DEF Serial, At
    <3>3. parent[1] = 0
      <4>1. parent \in Seq(Nat) /\ 1 \in 1..Len(parent) /\ \A n \in Nodes : parent[n] < n
        BY DEF TraceTypeOK
      <4> QED BY <4>1 DEF Nodes
    <3>4. \A t \in Threads : scopes[t] = <<>>
      BY <1>0, <2>1 DEF Sole
    <3> QED BY <2>1, <3>1, <3>2, <3>3, <3>4 DEF OnePath, Moves, At
  <2> QED
    BY <1>0, <1>11, <2>1, TaskResumes, ThreadResumes DEF Actors
<1>12. CASE a = "task" /\ RequestEnds
  BY <1>2, <1>3, <1>12, EndEffect DEF TreeKept, At
<1>13. CASE a = "task" /\ FinishAll
  BY <1>2, <1>3, <1>13, FinishAllEffect DEF TreeKept, At
<1>14. CASE a = "task" /\ Complete
  BY <1>2, <1>3, <1>14, CompleteEffect DEF TreeKept, At
<1> QED
  BY <1>5, <1>6, <1>7, <1>8, <1>9, <1>10, <1>11, <1>12, <1>13, <1>14 DEF TreeCall

\* The timers of the nodes that have a duration.
LEMMA TreeTimed ==
  ASSUME TraceTypeOK, CallsPlaced, Serial, OnePath, Timed, NEW a \in Actors, TreeCall(a), Sole(a), Alone(a)
  PROVE  Timed'
<1>0. /\ {p.scope : p \in points} = finished \ ({1} \cup InHand(a))
      /\ \A p \in points : p.name = p.scope
  BY TimedAlone
<1>1. ASSUME NEW record, Moves(a, record), {p.scope : p \in points'} = finished' \ ({1} \cup InHand(a)'),
             \A p \in points' : p.name = p.scope
      PROVE  Timed'
  <2>1. Alone(a)'
    BY <1>1 DEF Moves, Alone, InTree, At
  <2>2. {call'[b].node : b \in {c \in Actors : At(c, "ended")'}} = InHand(a)'
    <3>1. \A b \in Actors : At(b, "ended")' => b = a
      BY <2>1 DEF Alone, InTree, At
    <3>2. CASE At(a, "ended")'
      <4>1. {c \in Actors : At(c, "ended")'} = {a}
        BY <3>1, <3>2
      <4> QED BY <3>2, <4>1 DEF InHand
    <3>3. CASE ~At(a, "ended")'
      <4>1. {c \in Actors : At(c, "ended")'} = {}
        BY <3>1, <3>3
      <4> QED BY <3>3, <4>1 DEF InHand
    <3> QED BY <3>2, <3>3
  <2> QED BY <1>1, <2>2 DEF Timed
<1>2. ASSUME NEW record, Moves(a, record), UNCHANGED <<finished, points>>,
             call[a].at # "ended", record.at # "ended"
      PROVE  Timed'
  <2>1. InHand(a) = {} /\ InHand(a)' = {}
    BY <1>2 DEF InHand, At, Moves
  <2> QED BY <1>0, <1>1, <1>2, <2>1
<1>3. Ready.at = "ready"
  BY DEF Ready
<1>4. /\ Nodes \ finished = Lineage(parent)[Successor(a)]
      /\ \A n \in 1..Len(parent) : parent[n] < n
      /\ parent \in Seq(Nat) /\ Nodes = 1..Len(parent)
  BY DEF Serial, Alone, TraceTypeOK, Nodes
<1>5. CASE StartStage(a)
  BY <1>2, <1>5, StartEffect DEF TreeKept, At
<1>6. CASE FinishStage(a)
  BY <1>2, <1>6, FinishEffect DEF TreeKept, At
<1>7. CASE Attach(a)
  <2>1. CASE current = 0
    BY <1>2, <1>3, <1>7, <2>1, StartRaises DEF TreeKept, At
  <2>2. CASE current # 0
    <3>1. /\ At(a, "start") /\ UNCHANGED <<finished, points>>
          /\ Moves(a, [at |-> "attached", seen |-> call[a].seen, node |-> Len(parent')])
      BY <1>7, <2>2, Attaches
    <3> QED BY <1>2, <3>1 DEF At
  <2> QED BY <2>1, <2>2
<1>8. CASE Activate(a)
  BY <1>2, <1>3, <1>8, ActivateEffect DEF At
<1>9. CASE TakeActive(a)
  <2>1. At(a, "finish") /\ TreeKept /\ UNCHANGED points /\ current # 0
    <3>1. At(a, "finish") /\ TreeKept /\ UNCHANGED points
      BY <1>9, TakeEffect
    <3>2. 0 \notin Nodes
      BY DEF Nodes
    <3> QED BY <3>1, <3>2, ActiveOnPath DEF At
  <2>2. Moves(a, [at |-> "taken", seen |-> call[a].seen, node |-> current])
    BY <1>9, <2>1, TakeEffect
  <2> QED BY <1>2, <2>1, <2>2 DEF TreeKept, At
<1>10. CASE FinishNode(a)
  <2>1. /\ At(a, "taken")
        /\ Moves(a, [at |-> "ended", seen |-> call[a].seen, node |-> call[a].node])
        /\ finished' = finished \cup {call[a].node} /\ UNCHANGED points
    BY <1>10, FinishNodeEffect
  <2>2. call[a].node = current /\ current \in Nodes
    BY <2>1 DEF Serial, CallsPlaced, At
  <2>3. current \notin finished
    <3>1. current \in Lineage(parent)[current]
      BY <1>4, <2>2, LineageEquation
    <3>2. Successor(a) = current
      BY <2>1 DEF Successor, At
    <3> QED BY <1>4, <3>1, <3>2
  <2>4. InHand(a) = {} /\ InHand(a)' = {current}
    BY <2>1, <2>2 DEF InHand, At, Moves
  <2> QED BY <1>0, <1>1, <2>1, <2>2, <2>3, <2>4
<1>11. CASE ResumeParent(a)
  <2>1. At(a, "ended") /\ finished' = finished
    BY <1>11, ResumeEffect
  <2>2. call[a].node = current /\ InHand(a) = {current} /\ current \in Nodes
    BY <2>1 DEF Serial, CallsPlaced, InHand, At
  <2>3. CASE scopes[a] = <<>>
    <3>1. current = 1
      BY <2>1, <2>3, ActiveOnPath DEF At
    <3>2. /\ points' = points
          /\ Moves(a, [at |-> "drain", seen |-> call[a].seen, node |-> 0])
      BY <1>11, <2>3, ResumeEffect
    <3>3. InHand(a)' = {}
      BY <3>2 DEF InHand, Moves, At
    <3> QED BY <1>0, <1>1, <2>1, <2>2, <3>1, <3>2, <3>3
  <2>4. CASE scopes[a] # <<>>
    <3>1. current = Last(scopes[a]) /\ current \in Nodes \ {1}
      BY <2>4, ActiveOnPath
    <3>2. call[a].seen = current /\ current # 0
      BY <2>1, <2>2, <2>4, <1>4 DEF Serial, At, Completing
    <3>3. /\ Moves(a, Ready)
          /\ points' = points \cup {[name |-> current, value |-> current, scope |-> current]}
      BY <1>11, <2>2, <2>4, <3>1, <3>2, ResumeEffect
    <3>4. InHand(a)' = {}
      BY <1>3, <3>3 DEF InHand, Moves, At
    <3>5. current \in finished
      <4>1. Successor(a) = parent[current]
        BY <2>1, <2>2 DEF Successor, At
      <4>2. parent[current] \in 0..Len(parent) /\ parent[current] < current /\ current \in Nat
        BY <1>4, <2>2
      <4>3. Lineage(parent)[parent[current]] \subseteq 1..parent[current]
        BY <1>4, <4>2, LineageBelow
      <4>4. current \notin 1..parent[current]
        BY <4>2
      <4> QED BY <1>4, <2>2, <4>1, <4>3, <4>4
    <3>6. {p.scope : p \in points'} = {p.scope : p \in points} \cup {current}
      <4>1. PICK q : q.scope = current /\ points' = points \cup {q}
        BY <3>3
      <4> QED BY <4>1
    <3>7. \A p \in points' : p.name = p.scope
      BY <1>0, <3>3
    <3>8. {p.scope : p \in points'} = finished' \ ({1} \cup InHand(a)')
      BY <1>0, <2>1, <2>2, <3>1, <3>4, <3>5, <3>6
    <3> QED BY <1>1, <3>3, <3>7, <3>8
  <2> QED BY <2>3, <2>4
<1>12. CASE a = "task" /\ RequestEnds
  BY <1>2, <1>12, EndEffect DEF TreeKept, At
<1>13. CASE a = "task" /\ FinishAll
  BY <1>2, <1>13, FinishAllEffect DEF TreeKept, At
<1>14. CASE a = "task" /\ Complete
  BY <1>2, <1>14, CompleteEffect DEF TreeKept, At
<1> QED
  BY <1>5, <1>6, <1>7, <1>8, <1>9, <1>10, <1>11, <1>12, <1>13, <1>14 DEF TreeCall

\* The calls of run() are made one at a time, within a stage.
LEMMA TreeOneCall ==
  ASSUME TraceTypeOK, CallsPlaced, OneCall, NEW a \in Actors, TreeCall(a), UNCHANGED thread, Sole(a)
  PROVE  OneCall'
<1>0. "task" \in Actors /\ \A t \in Threads : t # "task" /\ t \in Actors
  BY RequestTraceAssumption DEF Actors
<1>1. \A b \in Actors \ {a} : call'[b] = call[b] /\ scopes'[b] = scopes[b]
  <2>1. scopes \in [Actors -> Seq(Nodes \ {1})]
    BY DEF TraceTypeOK
  <2>2. CASE StartStage(a) \/ FinishStage(a) \/ (a = "task" /\ (RequestEnds \/ FinishAll \/ Complete))
    BY <2>2, StartEffect, FinishEffect, EndEffect, FinishAllEffect, CompleteEffect DEF Moves
  <2>3. CASE Attach(a)
    BY <2>3, StartRaises, Attaches DEF Moves
  <2>4. CASE Activate(a)
    BY <2>1, <2>4, ActivateEffect DEF Moves
  <2>5. CASE TakeActive(a)
    BY <2>1, <2>5, TakeEffect DEF Moves
  <2>6. CASE FinishNode(a)
    BY <2>6, FinishNodeEffect DEF Moves
  <2>7. CASE ResumeParent(a)
    BY <2>1, <2>7, ResumeEffect DEF Moves
  <2> QED BY <2>2, <2>3, <2>4, <2>5, <2>6, <2>7 DEF TreeCall
<1>2. Awaiting' <=> Awaiting
  BY DEF Awaiting
<1>3. a # "task" => call'["task"] = call["task"] /\ scopes'["task"] = scopes["task"]
  BY <1>0, <1>1
<1>4. \A t \in Threads : scopes'[t] # <<>> \/ InTree(t)' => thread[t] = "running"
  <2> TAKE t \in Threads
  <2>1. CASE t # a
    BY <1>0, <1>1, <2>1 DEF OneCall, InTree, At
  <2>2. CASE t = a
    BY <1>0, <2>2 DEF Sole
  <2> QED BY <2>1, <2>2
<1>5. Awaiting' => scopes'["task"] # <<>> /\ At("task", "ready")'
  BY <1>2, <1>3 DEF OneCall, Sole, At
<1> QED
  BY <1>4, <1>5 DEF OneCall

Waiting == {"queued", "running", "returned"}

\* A call is queued, starts, returns or is withdrawn.
LEMMA ThreadStepKeepsPath ==
  ASSUME TraceTypeOK, OneCall, OnePath, Timed, Undisturbed, Undisturbed', NEW t \in Threads,
         ThreadStep(t), UNCHANGED stageVars
  PROVE  OneCall' /\ OnePath' /\ Timed'
<1>0. UNCHANGED <<parent, finished, current, completed, call, scopes, points, overlapped>>
  BY DEF stageVars, treeVars
<1>1. thread \in [Threads -> {"new", "queued", "running", "returned", "ended", "withdrawn",
                              "abandoned", "orphan"}]
  BY DEF TraceTypeOK
<1>2. /\ \A u \in Threads : u # t => thread'[u] = thread[u]
      /\ thread[t] = "running" => scopes[t] = <<>> /\ ~InTree(t)
      /\ thread'[t] \in Waiting => \/ thread[t] \in Waiting
                                   \/ ~Awaiting /\ scopes["task"] # <<>> /\ At("task", "ready")
  <2>1. CASE Calling(t)
    BY <1>1, <2>1 DEF Calling, Running
  <2>2. CASE Returned(t) \/ CallStarts(t)
    BY <1>1, <2>2 DEF Returned, CallStarts, Waiting
  <2>3. CASE CallAbandoned(t)
    <3>1. thread[t] # "running"
      BY <1>1, <2>3 DEF CallAbandoned, Undisturbed
    <3> QED BY <1>1, <2>3, <3>1 DEF CallAbandoned, Waiting
  <2>4. CASE CallEnds(t)
    <3>1. thread[t] = "running"
      BY <2>4 DEF CallEnds, InCall, Undisturbed
    <3> QED BY <1>1, <2>4, <3>1 DEF CallEnds, Waiting, InTree
  <2> QED BY <2>1, <2>2, <2>3, <2>4 DEF ThreadStep
<1>3. OneCall'
  <2>1. \A u, v \in Threads : {thread[u], thread[v]} \subseteq Waiting => u = v
    BY DEF OneCall, Waiting
  <2>2. ~Awaiting => \A u \in Threads : thread[u] \notin Waiting
    BY DEF Awaiting, Waiting
  <2>3. \A u, v \in Threads : {thread'[u], thread'[v]} \subseteq Waiting => u = v
    BY <1>2, <2>1, <2>2
  <2>4. Awaiting' => scopes'["task"] # <<>> /\ At("task", "ready")'
    <3>1. SUFFICES ASSUME NEW u \in Threads, thread'[u] \in Waiting
                   PROVE  scopes["task"] # <<>> /\ At("task", "ready")
      BY <1>0 DEF Awaiting, Waiting, At
    <3>2. thread[u] \in Waiting \/ (scopes["task"] # <<>> /\ At("task", "ready"))
      BY <1>2, <3>1
    <3> QED BY <3>2 DEF OneCall, Awaiting, Waiting
  <2>5. \A u \in Threads : scopes'[u] # <<>> \/ InTree(u)' => thread'[u] = "running"
    <3> TAKE u \in Threads
    <3>1. scopes[u] # <<>> \/ InTree(u) => thread[u] = "running"
      BY DEF OneCall
    <3> QED BY <1>0, <1>2, <3>1 DEF InTree, At
  <2> QED BY <2>3, <2>4, <2>5 DEF OneCall, Waiting
<1>4. OnePath' /\ Timed'
  BY <1>0 DEF OnePath, Timed, At
<1> QED
  BY <1>3, <1>4

\* A call that was abandoned running stays so.
LEMMA UndisturbedBefore ==
  ASSUME TraceTypeOK, TraceNext, Undisturbed'
  PROVE  Undisturbed
<1> SUFFICES ASSUME NEW t \in Threads, thread[t] \in {"abandoned", "orphan"}
             PROVE  thread'[t] \in {"abandoned", "orphan"}
  BY DEF Undisturbed
<1>1. thread \in [Threads -> {"new", "queued", "running", "returned", "ended", "withdrawn",
                              "abandoned", "orphan"}]
  BY DEF TraceTypeOK
<1>2. CASE UNCHANGED thread
  BY <1>2
<1>3. ASSUME NEW u \in Threads, ThreadStep(u)
      PROVE  thread'[t] \in {"abandoned", "orphan"}
  BY <1>1, <1>3 DEF ThreadStep, Calling, Returned, CallAbandoned, CallStarts, CallEnds
<1> QED
  BY <1>2, <1>3, TraceSteps

\* A call of run() that leaves the tree alone keeps its types.
LEMMA ThreadTypes ==
  ASSUME TraceTypeOK, CallsPlaced, UNCHANGED stageVars, NEW t \in Threads, ThreadStep(t)
  PROVE  TraceTypeOK' /\ CallsPlaced'
<1>1. UNCHANGED <<parent, finished, current, completed, call, scopes, points, overlapped>>
  BY DEF stageVars, treeVars
<1>2. thread' \in [Threads -> {"new", "queued", "running", "returned", "ended", "withdrawn",
                               "abandoned", "orphan"}]
  BY DEF TraceTypeOK, ThreadStep, Calling, Returned, CallAbandoned, CallStarts, CallEnds
<1> QED
  BY <1>1, <1>2 DEF TraceTypeOK, CallsPlaced, At, Completing, Nodes

\* The root and the dispatch stage are open.
LEMMA TraceStart == TraceInit => TraceInv
<1> SUFFICES ASSUME TraceInit
             PROVE  TraceInv
  OBVIOUS
<1>1. /\ parent = <<0, 1>> /\ current = 2 /\ finished = {} /\ points = {} /\ completed = FALSE
      /\ overlapped = FALSE /\ call = [a \in Actors |-> Ready]
      /\ thread = [t \in Threads |-> "new"]
      /\ scopes = [a \in Actors |-> IF a = "task" THEN <<2>> ELSE <<>>]
      /\ "task" \in Actors /\ \A t \in Threads : t \in Actors /\ t # "task"
  BY RequestTraceAssumption DEF TraceInit, Actors
<1>2. /\ parent \in Seq(Nat) /\ Len(parent) = 2 /\ parent[1] = 0 /\ parent[2] = 1
      /\ Nodes = {1, 2}
  BY <1>1 DEF Nodes
<1>3. /\ scopes \in [Actors -> Seq(Nodes \ {1})] /\ scopes["task"] = <<2>>
      /\ \A t \in Threads : scopes[t] = <<>>
  <2>1. <<2>> \in Seq(Nodes \ {1}) /\ <<>> \in Seq(Nodes \ {1})
    BY <1>2
  <2> QED BY <1>1, <2>1
<1>4. /\ Ready \in [at : Places, seen : Nat, node : Nat]
      /\ \A a \in Actors : call[a].at = "ready"
  BY <1>1 DEF Ready, Places
<1>5. TraceTypeOK
  <2>1. /\ thread \in [Threads -> {"new", "queued", "running", "returned", "ended", "withdrawn",
                                   "abandoned", "orphan"}]
        /\ call \in [Actors -> [at : Places, seen : Nat, node : Nat]]
    BY <1>1, <1>4
  <2>2. /\ parent # <<>> /\ current \in 0..Len(parent) /\ finished \subseteq Nodes
        /\ \A n \in Nodes : parent[n] < n
    BY <1>1, <1>2
  <2> QED BY <1>1, <1>2, <1>3, <2>1, <2>2 DEF TraceTypeOK
<1>6. CallsPlaced
  BY <1>1, <1>4 DEF CallsPlaced, At
<1>7. Lineage(parent)[2] = {1, 2}
  <2>1. 1 \in 1..Len(parent) /\ 2 \in 1..Len(parent) /\ \A n \in 1..Len(parent) : parent[n] < n
    BY <1>2
  <2>2. Lineage(parent)[0] = {} /\ Lineage(parent)[1] = {1} \cup Lineage(parent)[0]
    BY <1>2, <2>1, LineageEquation
  <2>3. Lineage(parent)[2] = {2} \cup Lineage(parent)[1]
    BY <1>2, <2>1, LineageEquation
  <2> QED BY <2>2, <2>3
<1>8. Serial
  <2>1. \A a \in Actors : Successor(a) = current /\ ~InTree(a)
    BY <1>4 DEF Successor, At, InTree
  <2> QED BY <1>1, <1>2, <1>4, <1>7, <2>1 DEF Serial, At
<1>9. OneCall
  <2>1. ~Awaiting /\ \A a \in Actors : ~InTree(a)
    BY <1>1, <1>4 DEF Awaiting, InTree, At
  <2> QED BY <1>1, <1>3, <2>1 DEF OneCall
<1>10. OnePath
  <2>1. Len(<<2>>) = 1 /\ <<2>>[1] = 2 /\ <<2>> # <<>> /\ Last(<<2>>) = 2
    BY DEF Last
  <2> QED BY <1>1, <1>2, <1>3, <2>1 DEF OnePath
<1>11. Timed
  BY <1>1 DEF Timed
<1> QED
  BY <1>1, <1>5, <1>6, <1>8, <1>9, <1>10, <1>11 DEF TraceInv

\* Every step of the request and its threads.
LEMMA TraceStep == TraceInv /\ [TraceNext]_traceVars => TraceInv'
<1> SUFFICES ASSUME TraceInv, [TraceNext]_traceVars
             PROVE  TraceInv'
  OBVIOUS
<1>0. /\ TraceTypeOK /\ CallsPlaced /\ (~overlapped => Serial)
      /\ Undisturbed => ~overlapped /\ OneCall /\ OnePath /\ Timed
  BY DEF TraceInv
<1>1. CASE UNCHANGED traceVars
  <2>1. /\ UNCHANGED <<parent, finished, current, completed, call, scopes, points, overlapped>>
        /\ UNCHANGED thread
    BY <1>1 DEF traceVars, stageVars, treeVars
  <2>2. TraceTypeOK' /\ CallsPlaced'
    BY <1>0, <2>1 DEF TraceTypeOK, CallsPlaced, At, Completing, Nodes
  <2>3. (~overlapped => Serial)'
    BY <1>0, <2>1 DEF Serial, InTree, At, Completing, Successor, Nodes
  <2>4. (Undisturbed => ~overlapped /\ OneCall /\ OnePath /\ Timed)'
    BY <1>0, <2>1 DEF Undisturbed, OneCall, OnePath, Timed, Awaiting, InTree, At
  <2> QED BY <2>2, <2>3, <2>4 DEF TraceInv
<1>2. ASSUME UNCHANGED stageVars, NEW t \in Threads, ThreadStep(t), TraceNext
      PROVE  TraceInv'
  <2>1. TraceTypeOK' /\ CallsPlaced'
    BY <1>0, <1>2, ThreadTypes
  <2>2. UNCHANGED <<parent, finished, current, completed, call, scopes, points, overlapped>>
    BY <1>2 DEF stageVars, treeVars
  <2>3. (~overlapped => Serial)'
    BY <1>0, <2>2 DEF Serial, InTree, At, Completing, Successor, Nodes
  <2>4. Undisturbed' => ~overlapped' /\ OneCall' /\ OnePath' /\ Timed'
    BY <1>0, <1>2, <2>2, UndisturbedBefore, ThreadStepKeepsPath
  <2> QED BY <2>1, <2>3, <2>4 DEF TraceInv
<1>3. ASSUME NEW a \in Actors, TreeCall(a), UNCHANGED thread
      PROVE  TraceTypeOK' /\ CallsPlaced' /\ (~overlapped' => Serial')
  <2>1. ~overlapped' => ~overlapped
    BY <1>0, <1>3, StartEffect, FinishEffect, EndEffect
       DEF TreeCall, Attach, Activate, TakeActive, FinishNode, ResumeParent, FinishAll, Complete
  <2> QED BY <1>0, <1>3, <2>1, TreeTypes, TreeSerial
<1>4. ASSUME NEW a \in Actors, TreeCall(a), UNCHANGED thread, Sole(a), Undisturbed
      PROVE  ~overlapped' /\ OneCall' /\ OnePath' /\ Timed'
  <2>1. Alone(a) /\ ~overlapped'
    BY <1>0, <1>4, NoneOverlaps
  <2> QED BY <1>0, <1>4, <2>1, TreeOneCall, TreePath, TreeTimed
<1>5. CASE TraceNext
  <2>1. CASE Undisturbed'
    <3>1. Undisturbed
      BY <1>0, <1>5, <2>1, UndisturbedBefore
    <3>2. \/ UNCHANGED stageVars /\ \E t \in Threads : ThreadStep(t)
          \/ \E a \in Actors : TreeCall(a) /\ UNCHANGED thread /\ Sole(a)
      BY <1>0, <1>5, <3>1, MoverIsSole
    <3>3. ASSUME NEW a \in Actors, TreeCall(a), UNCHANGED thread, Sole(a)
          PROVE  TraceInv'
      BY <1>3, <1>4, <3>1, <3>3 DEF TraceInv
    <3> QED BY <1>2, <1>5, <3>2, <3>3
  <2>2. CASE ~Undisturbed'
    <3>1. ASSUME NEW a \in Actors, TreeCall(a), UNCHANGED thread
          PROVE  TraceInv'
      BY <1>3, <2>2, <3>1 DEF TraceInv
    <3> QED BY <1>2, <1>5, <3>1, TraceSteps
  <2> QED BY <2>1, <2>2
<1> QED
  BY <1>1, <1>5

\* Until a request abandons a running call its timers are those of its own stages, one for
\* each; and as long as no two calls on its trace overlap, no node is lost.
THEOREM TimersStayOwn == TraceSpec => []TimersAreTheirOwn
<1>1. TraceInv => TimersAreTheirOwn
  <2> SUFFICES ASSUME TraceInv
               PROVE  TimersAreTheirOwn
    OBVIOUS
  <2>0. "task" \in Actors /\ \A t \in Threads : t \in Actors
    BY DEF Actors
  <2>1. ASSUME ~overlapped, \A a \in Actors : ~InTree(a)
        PROVE  Nodes \ finished = Lineage(parent)[current]
    <3>1. Nodes \ finished = Lineage(parent)[Successor("task")]
      BY <2>0, <2>1 DEF TraceInv, Serial
    <3>2. Successor("task") = current
      BY <2>0, <2>1 DEF Successor, InTree, At
    <3> QED BY <3>1, <3>2
  <2>2. ~overlapped => \A p \in points : p.name = p.value
    BY DEF TraceInv, Serial
  <2>3. ASSUME Undisturbed, completed
        PROVE  {p.scope : p \in points} = Nodes \ {1}
    <3>1. OneCall /\ OnePath /\ Timed /\ ~overlapped
      BY <2>3 DEF TraceInv
    <3>2. At("task", "done") /\ scopes["task"] = <<>>
      BY <2>0, <2>3 DEF TraceInv, CallsPlaced, At
    <3>3. current = 0 /\ \A t \in Threads : ~InTree(t)
      BY <3>1, <3>2 DEF OnePath, OneCall, At, Awaiting
    <3>4. \A a \in Actors : ~InTree(a)
      BY <3>2, <3>3 DEF InTree, Actors
    <3>5. Lineage(parent)[0] = {}
      <4>1. parent \in Seq(Nat) /\ \A n \in 1..Len(parent) : parent[n] < n
        BY DEF TraceInv, TraceTypeOK, Nodes
      <4> QED BY <4>1, LineageEquation
    <3>6. finished = Nodes
      BY <2>1, <3>1, <3>3, <3>4, <3>5 DEF TraceInv, TraceTypeOK
    <3>7. InHand("task") = {} /\ Alone("task")
      BY <3>2, <3>4 DEF InHand, At, Alone
    <3>8. {p.scope : p \in points} = finished \ ({1} \cup InHand("task"))
      BY <2>0, <3>1, <3>7, TimedAlone
    <3> QED BY <3>6, <3>7, <3>8
  <2> QED BY <2>1, <2>2, <2>3 DEF TimersAreTheirOwn, TraceInv, Timed
<1> QED
  BY <1>1, TraceStart, TraceStep, PTL DEF TraceSpec
=============================================================================
