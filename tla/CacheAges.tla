------------------------------- MODULE CacheAges -------------------------------
(***************************************************************************)
(* How old a cached result may get: the hybrid L1 cache (core/db/cache.py) *)
(* with its LRU and TTL halves, in front of the rows of the L2 table, each *)
(* level with a lifetime of its own.  Writes and tags are QueryCache's.    *)
(***************************************************************************)
EXTENDS Clock, Sequences, SequencesExt, FiniteSets, FiniteSetsExt, Functions

CONSTANTS
  CacheKeys,
  L1Size,         \* max_size of each half
  CacheTTL        \* the lifetime of both levels: 3600 s

ASSUME CacheAgesAssumption == L1Size \in Nat \ {0} /\ CacheTTL \in Nat \ {0}

VARIABLES
  lru,            \* the LRU half's OrderedDict, least recently used first
  ttlHalf,        \* the TTL half: creation times by key
  l2Until,        \* expires_at of each L2 row, 0 without one
  resolving,      \* what the leader of each key has in hand
  persisting      \* keys with a cache_result() job in the persistence queue

ageVars == <<lru, ttlHalf, l2Until, resolving, persisting>>

\* An entry remembers, for the property only, until when L2 would have served the
\* result and how long ago it was read there.
Entry(k, until, read) == [key |-> k, at |-> now, until |-> until, lag |-> now - read]

Free == [step |-> "free"]

AgesInit ==
  /\ lru = <<>> /\ ttlHalf = <<>>
  /\ l2Until = [k \in CacheKeys |-> 0]
  /\ resolving = [k \in CacheKeys |-> Free]
  /\ persisting = {}

\* CacheEntry.is_expired(): the lifetime's last tick is still served.
Expired(t) == now > t + CacheTTL

KeysOf(s) == {e.key : e \in ToSet(s)}

In(s, k) == CHOOSE e \in ToSet(s) : e.key = k

Drop(s, k) == IF k \in KeysOf(s) THEN RemoveFirst(s, In(s, k)) ELSE s

\* LRU put(): a key it has moves to the end, otherwise the first entry gives way.
LruPut(e) ==
  IF e.key \in KeysOf(lru) \/ Len(lru) < L1Size THEN Append(Drop(lru, e.key), e)
                                                ELSE Append(Tail(lru), e)

\* TTL put(): when full, the entry first to expire gives way, even to a key it has.
TtlPut(k) ==
  LET first == CHOOSE x \in DOMAIN ttlHalf :
                 \A y \in DOMAIN ttlHalf : ttlHalf[x] <= ttlHalf[y]
      kept == IF Cardinality(DOMAIN ttlHalf) < L1Size THEN DOMAIN ttlHalf
                                                      ELSE DOMAIN ttlHalf \ {first}
  IN [x \in kept \cup {k} |-> IF x = k THEN now ELSE ttlHalf[x]]

HybridPut(k, until, read) == lru' = LruPut(Entry(k, until, read)) /\ ttlHalf' = TtlPut(k)

TtlDrop(k) == Restrict(ttlHalf, DOMAIN ttlHalf \ {k})

\* TTL get() drops an expired entry.
TtlGet(k) == IF k \in DOMAIN ttlHalf /\ Expired(ttlHalf[k]) THEN TtlDrop(k) ELSE ttlHalf

----------------------------------------------------------------------------
\* Mutant of the next action: a hit renews the entry.
L1HitRenews(k) ==
  /\ k \in KeysOf(lru) /\ ~Expired(In(lru, k).at)
  /\ lru' = Append(Drop(lru, k), [In(lru, k) EXCEPT !.at = now])
  /\ ttlHalf' = TtlGet(k)
  /\ UNCHANGED <<l2Until, resolving, persisting, now>>

\* get(): the LRU half answers, and only then is the TTL half asked too.
L1Hit(k) ==
  /\ k \in KeysOf(lru) /\ ~Expired(In(lru, k).at)
  /\ lru' = Append(Drop(lru, k), In(lru, k))
  /\ ttlHalf' = TtlGet(k)
  /\ UNCHANGED <<l2Until, resolving, persisting, now>>

\* A miss drops an expired entry; the key's leader goes on to L2.
L1Missed(k) ==
  /\ k \in KeysOf(lru) => Expired(In(lru, k).at)
  /\ resolving[k] = Free
  /\ lru' = Drop(lru, k)
  /\ resolving' = [resolving EXCEPT ![k] = [step |-> "l2"]]
  /\ UNCHANGED <<ttlHalf, l2Until, persisting, now>>

\* get_cached_result(), in the service executor.
ReadL2(k) ==
  /\ resolving[k].step = "l2"
  /\ resolving' = [resolving EXCEPT ![k] =
       IF l2Until[k] > now THEN [step |-> "hit", until |-> l2Until[k], read |-> now]
                           ELSE [step |-> "run"]]
  /\ UNCHANGED <<lru, ttlHalf, l2Until, persisting, now>>

\* The leader resumes and puts the row's data into L1 for a full lifetime.
FillFromL2(k) ==
  /\ resolving[k].step = "hit"
  /\ HybridPut(k, resolving[k].until, resolving[k].read)
  /\ resolving' = [resolving EXCEPT ![k] = Free]
  /\ UNCHANGED <<l2Until, persisting, now>>

\* The query has run; a result without rows is not persisted.
FillFromWarehouse(k) ==
  /\ resolving[k].step = "run"
  /\ HybridPut(k, now + CacheTTL, now)
  /\ persisting' \in {persisting, persisting \cup {k}}
  /\ resolving' = [resolving EXCEPT ![k] = Free]
  /\ UNCHANGED <<l2Until, now>>

\* The query fails or the leader is cancelled.
ResolveFails(k) ==
  /\ resolving[k] # Free
  /\ resolving' = [resolving EXCEPT ![k] = Free]
  /\ UNCHANGED <<lru, ttlHalf, l2Until, persisting, now>>

\* cache_result(), any time later: the row's lifetime starts then.  The job may be
\* dropped, and its INSERT may fail.
PersistResult(k) ==
  /\ k \in persisting
  /\ persisting' = persisting \ {k}
  /\ \/ l2Until' = [l2Until EXCEPT ![k] = now + CacheTTL]
     \/ UNCHANGED l2Until
  /\ UNCHANGED <<lru, ttlHalf, resolving, now>>

\* invalidate() and invalidate_cache() after a write.
InvalidateKey(k) ==
  /\ lru' = Drop(lru, k)
  /\ ttlHalf' = TtlDrop(k)
  /\ l2Until' = [l2Until EXCEPT ![k] = 0]
  /\ UNCHANGED <<resolving, persisting, now>>

ClearCaches ==
  /\ lru' = <<>> /\ ttlHalf' = <<>>
  /\ l2Until' = [k \in CacheKeys |-> 0]
  /\ UNCHANGED <<resolving, persisting, now>>

\* cleanup_expired_cache() runs while the service database starts: L1 is empty, and
\* no job is left over.
RestartCaches ==
  /\ lru # <<>> \/ resolving # [k \in CacheKeys |-> Free]
  /\ lru' = <<>> /\ ttlHalf' = <<>>
  /\ resolving' = [k \in CacheKeys |-> Free] /\ persisting' = {}
  /\ l2Until' = [k \in CacheKeys |-> IF l2Until[k] < now THEN 0 ELSE l2Until[k]]
  /\ UNCHANGED now

AgesNext ==
  \/ \E k \in CacheKeys :
       \/ L1Hit(k) \/ L1Missed(k) \/ ReadL2(k) \/ FillFromL2(k) \/ FillFromWarehouse(k)
       \/ ResolveFails(k) \/ PersistResult(k) \/ InvalidateKey(k)
  \/ ClearCaches \/ RestartCaches
  \/ Tick /\ UNCHANGED ageVars

\* L1 can serve a result that L2 no longer would, since an L2 hit starts a new
\* lifetime; but for less than one lifetime more than the leader took to resume, however
\* often it is hit.
HitAge ==
  \A e \in ToSet(lru) :
    ~Expired(e.at) => now < e.until + CacheTTL + e.lag

----------------------------------------------------------------------------
AgesSpec == now = 0 /\ AgesInit /\ [][AgesNext]_<<now, ageVars>>

Entries == [key : CacheKeys, at : Nat, until : Nat, lag : Nat]

AgesTypeOK ==
  /\ now \in Nat /\ lru \in Seq(Entries)
  /\ l2Until \in [CacheKeys -> Nat] /\ persisting \subseteq CacheKeys
  /\ resolving \in [CacheKeys -> {Free} \cup [step : {"l2", "run"}]
                                   \cup [step : {"hit"}, until : Nat, read : Nat]]

\* A result that L2 has given out was alive when it was read there.
ReadAlive ==
  /\ \A k \in CacheKeys : resolving[k].step = "hit" =>
       resolving[k].read <= now /\ resolving[k].read < resolving[k].until
  /\ \A i \in 1..Len(lru) : lru[i].at < lru[i].until + lru[i].lag

AgesInv == AgesTypeOK /\ ReadAlive
=============================================================================
