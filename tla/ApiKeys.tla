-------------------------------- MODULE ApiKeys --------------------------------
(***************************************************************************)
(* API keys: the routes that create, revoke and delete them, and the       *)
(* middleware that validates one on every request, through a cache per     *)
(* process (core/auth/api_key_service.py).  The table is read and written  *)
(* in the service executor, so that handlers interleave at each call.      *)
(*                                                                         *)
(* Every database call may fail.  ServiceDatabase turns that into None,    *)
(* False or an empty list, and the routes report success all the same.     *)
(***************************************************************************)
EXTENDS Clock, FiniteSets

CONSTANTS
  ApiKey,         \* the keys that may be generated
  Handlers,       \* requests in flight
  KeyTTL          \* _CACHE_TTL_SECONDS

ASSUME ApiKeysAssumption == KeyTTL \in Nat \ {0}

VARIABLES
  keyRow,         \* each key's row: "none", "active", "revoked" or "deleted"
  keyExpiry,      \* its expires_at, or NoExpiry
  shown,          \* keys a caller was given
  validated,      \* _validation_cache: until when each key's entry holds, 0 without one
  handler,        \* what each request is doing
  deadSince       \* history: when each key stopped being valid in the table

keyVars == <<keyRow, keyExpiry, shown, validated, handler, deadSince>>

NoExpiry == MaxTime + 1
Alive == MaxTime + 1

Idle == [doing |-> "idle"]

KeysInit ==
  /\ keyRow = [k \in ApiKey |-> "none"] /\ keyExpiry = [k \in ApiKey |-> NoExpiry]
  /\ shown = {}
  /\ validated = [k \in ApiKey |-> 0]
  /\ handler = [h \in Handlers |-> Idle]
  /\ deadSince = [k \in ApiKey |-> Alive]

Does(h, what) == handler' = [handler EXCEPT ![h] = what]

\* ServiceDatabase.create_api_key() returns False when its INSERT fails.
InsertKey(k) ==
  \/ /\ keyRow' = [keyRow EXCEPT ![k] = "active"]
     /\ \E e \in now..MaxTime \cup {NoExpiry} : keyExpiry' = [keyExpiry EXCEPT ![k] = e]
  \/ UNCHANGED <<keyRow, keyExpiry>>

\* What it returned is not looked at.
IssueKey(k) == InsertKey(k) /\ shown' = shown \cup {k}

CreateKey(h, k) ==
  /\ handler[h] = Idle /\ k \notin shown
  /\ IssueKey(k)
  /\ UNCHANGED <<validated, handler, deadSince, now>>

----------------------------------------------------------------------------
(* Validation *)

Cached(k) == now < validated[k]

\* Both clocks are read before the lookup is awaited; an expired entry is dropped.
BeginValidate(h, k) ==
  /\ handler[h] = Idle /\ k \in shown /\ ~Cached(k)
  /\ validated' = [validated EXCEPT ![k] = 0]
  /\ Does(h, [doing |-> "lookup", key |-> k, at |-> now])
  /\ UNCHANGED <<keyRow, keyExpiry, shown, deadSince, now>>

Valid(k, at) == keyRow[k] = "active" /\ keyExpiry[k] >= at

\* The SELECT in its thread; one that fails finds nothing.
Looked(h) ==
  /\ handler[h].doing = "lookup"
  /\ \E found \in {Valid(handler[h].key, handler[h].at), FALSE} :
       Does(h, IF found THEN [handler[h] EXCEPT !.doing = "found"] ELSE Idle)
  /\ UNCHANGED <<keyRow, keyExpiry, shown, validated, deadSince, now>>

\* Mutant of the next action: the entry's life starts when the lookup has returned.
CacheValidatedFromNow(h) ==
  /\ handler[h].doing = "found"
  /\ validated' = [validated EXCEPT ![handler[h].key] = now + KeyTTL]
  /\ Does(h, Idle)
  /\ UNCHANGED <<keyRow, keyExpiry, shown, deadSince, now>>

\* The awaiting handler resumes.
CacheValidated(h) ==
  /\ handler[h].doing = "found"
  /\ validated' = [validated EXCEPT ![handler[h].key] = handler[h].at + KeyTTL]
  /\ Does(h, Idle)
  /\ UNCHANGED <<keyRow, keyExpiry, shown, deadSince, now>>

----------------------------------------------------------------------------
(* Revocation and deletion *)

\* An owner acts on his own keys, an administrator on any.  `mine` says whether the
\* owner_id of the request is the key's: the statement matches no row otherwise.
BeginRemove(h, k, how) ==
  /\ handler[h] = Idle /\ k \in shown
  /\ \E mine \in BOOLEAN :
       Does(h, [doing |-> "remove", key |-> k, how |-> how, mine |-> mine])
  /\ UNCHANGED <<keyRow, keyExpiry, shown, validated, deadSince, now>>

BeginRevoke(h, k) == BeginRemove(h, k, "revoked")
BeginDelete(h, k) == BeginRemove(h, k, "deleted")

Kill(k) == deadSince' = [deadSince EXCEPT ![k] = IF @ = Alive THEN now ELSE @]

\* A statement that matched nothing succeeds.
RemoveRow(k, mine, how) ==
  IF mine /\ keyRow[k] \in {"active", "revoked"}
    THEN keyRow' = [keyRow EXCEPT ![k] = how] /\ Kill(k)
    ELSE UNCHANGED <<keyRow, deadSince>>

RevokeRow(k, mine) == RemoveRow(k, mine, "revoked")
DeleteRow(k, mine) == RemoveRow(k, mine, "deleted")

Removed(h) ==
  /\ handler[h].doing = "remove"
  /\ \/ handler[h].how = "revoked" /\ RevokeRow(handler[h].key, handler[h].mine)
     \/ handler[h].how = "deleted" /\ DeleteRow(handler[h].key, handler[h].mine)
  /\ Does(h, [doing |-> "evict", key |-> handler[h].key])
  /\ UNCHANGED <<keyExpiry, shown, validated, now>>

\* The statement fails: nothing is evicted, and the route reports success.
RemoveFails(h) ==
  /\ handler[h].doing = "remove"
  /\ Does(h, Idle)
  /\ UNCHANGED <<keyRow, keyExpiry, shown, validated, deadSince, now>>

\* _evict_by_key_id(), when the awaiting handler resumes.
Evicted(h) ==
  /\ handler[h].doing = "evict"
  /\ validated' = [validated EXCEPT ![handler[h].key] = 0]
  /\ Does(h, Idle)
  /\ UNCHANGED <<keyRow, keyExpiry, shown, deadSince, now>>

----------------------------------------------------------------------------
\* The process restarts with an empty cache.  What it had submitted to the executor
\* is done or lost.
RestartKeys ==
  /\ \E h \in Handlers : handler[h] # Idle
  /\ validated' = [k \in ApiKey |-> 0]
  /\ handler' = [h \in Handlers |-> Idle]
  /\ UNCHANGED <<keyRow, keyExpiry, shown, deadSince, now>>

KeyTick ==
  /\ Tick
  /\ deadSince' = [k \in ApiKey |->
       IF deadSince[k] = Alive /\ keyRow[k] = "active" /\ keyExpiry[k] < now' THEN now'
                                                                             ELSE deadSince[k]]
  /\ UNCHANGED <<keyRow, keyExpiry, shown, validated, handler>>

KeysNext ==
  \/ \E h \in Handlers :
       \/ \E k \in ApiKey :
            CreateKey(h, k) \/ BeginValidate(h, k) \/ BeginRevoke(h, k) \/ BeginDelete(h, k)
       \/ Looked(h) \/ CacheValidated(h) \/ Removed(h) \/ RemoveFails(h) \/ Evicted(h)
  \/ RestartKeys \/ KeyTick

\* A lookup that a revocation, a deletion or the key's own expiry overtook still
\* caches the key, after the eviction; but no request is accepted for a key more than
\* one cache lifetime after it stopped being valid.  Reads of the keys are fresh here:
\* a connection left in a transaction (ServiceDatabase) may show older rows.
CachedKeyExpires == \A k \in ApiKey : Cached(k) => now < deadSince[k] + KeyTTL

----------------------------------------------------------------------------
KeysSpec == now = 0 /\ KeysInit /\ [][KeysNext]_<<now, keyVars>>

HandlerStates ==
  {Idle} \cup [doing : {"lookup", "found"}, key : ApiKey, at : Nat]
    \cup [doing : {"remove"}, key : ApiKey, how : {"revoked", "deleted"}, mine : BOOLEAN]
    \cup [doing : {"evict"}, key : ApiKey]

KeysTypeOK ==
  /\ now \in Time
  /\ keyRow \in [ApiKey -> {"none", "active", "revoked", "deleted"}]
  /\ keyExpiry \in [ApiKey -> Nat] /\ shown \subseteq ApiKey
  /\ validated \in [ApiKey -> Nat] /\ handler \in [Handlers -> HandlerStates]
  /\ deadSince \in [ApiKey -> Nat]

\* A key has no row before a caller was given it, and nobody asks for it.
OnlyShown ==
  /\ \A k \in ApiKey \ shown : keyRow[k] = "none" /\ deadSince[k] = Alive
  /\ \A h \in Handlers : handler[h] # Idle => handler[h].key \in shown

\* A key that is active and no longer valid has expired.
DeadByExpiry ==
  \A k \in ApiKey : keyRow[k] = "active" /\ deadSince[k] # Alive => keyExpiry[k] < deadSince[k]

\* What a lookup found was valid when the lookup began, and is cached from then on.
FoundAlive ==
  \A h \in Handlers :
    /\ handler[h].doing \in {"lookup", "found"} => handler[h].at <= now
    /\ handler[h].doing = "found" => handler[h].at <= deadSince[handler[h].key]

CachedAlive ==
  \A k \in ApiKey : validated[k] <= now + KeyTTL /\ validated[k] <= deadSince[k] + KeyTTL

KeysInv == KeysTypeOK /\ OnlyShown /\ DeadByExpiry /\ FoundAlive /\ CachedAlive
=============================================================================
