----------------------------- MODULE QueryCache -----------------------------
(***************************************************************************)
(* QueryService.run (core/services/query_service.py) over                  *)
(* QueryCacheCoordinator (core/caching/query_cache_coordinator.py): an     *)
(* in-process L1, a SQLite L2 that survives restarts, one leader per cache *)
(* key with followers on its future, L2 writes through the persistence     *)
(* queue, and invalidation after a write statement.                        *)
(*                                                                         *)
(* Atomicity.  The coordinator's lock is never held across an await, so it *)
(* is never contended and suspends nobody: code between two other awaits   *)
(* is one step.  What an executor thread does (an L2 read or delete, a     *)
(* statement on the warehouse) is a step of its own, before the step in    *)
(* which its task resumes.                                                 *)
(*                                                                         *)
(* Data.  A result is the version of every table it was computed from; the *)
(* rows and their JSON form in L2 are left out.  L1's LRU eviction and the *)
(* expiry of both levels are entries that may vanish at any time.          *)
(***************************************************************************)
EXTENDS Integers, FiniteSets

CONSTANTS
  Callers,      \* request tasks
  Keys,         \* cache keys: distinct SELECT statements with their parameters
  Tables,       \* warehouse tables
  Reads,        \* the tables each SELECT reads
  Tags,         \* extract_tables() of each SELECT
  WriteSets,    \* the sets of tables a write statement may change
  None,         \* no task, no key, no result
  MaxWrites,    \* bound: write statements in a behaviour
  MaxJobs       \* bound: persistence jobs pending

ASSUME CacheAssumption ==
  /\ None \notin Callers
  /\ Reads \in [Keys -> SUBSET Tables]
  /\ Tags \in [Keys -> SUBSET Tables]
  /\ WriteSets \subseteq (SUBSET Tables) \ {{}}
  /\ MaxWrites \in Nat /\ MaxJobs \in Nat

VARIABLES
  ver,          \* committed version of each table
  l1,           \* HybridQueryCache: key -> result
  l2,           \* query_cache table: key -> result
  tableKeys,    \* _table_keys (_key_tables is never read)
  inflight,     \* _inflight: the leader whose future is registered
  spoiled,      \* leaders whose future a cancelled follower has cancelled
  jobs,         \* L2 writes queued or running in the background
  pc,           \* where each task is suspended
  key,          \* the key a reader resolves or follows
  value,        \* the result a leader has in hand
  tables,       \* the tables a writer wrote and has not yet invalidated
  writes,       \* write statements begun
  orphanWrites, \* statements whose task is gone and whose thread still runs
  overlap,      \* history: leaders whose lookup overlaps a write of their tables
  unannounced   \* history: tables changed with no (complete) invalidation

warehouse == <<ver, orphanWrites, writes>>
caches == <<l1, l2, tableKeys, jobs>>
flights == <<inflight, spoiled>>
tasks == <<pc, key, value, tables>>
history == <<overlap, unannounced>>
vars == <<warehouse, caches, flights, tasks, history>>

----------------------------------------------------------------------------
(***************************************************************************)
(* Where a task is suspended:                                              *)
(*   idle     no request                                                   *)
(*   l2       leader, the L2 lookup is queued       l2got  it has returned *)
(*   exec     leader, the SELECT is queued or runs  execd  it has returned *)
(*   follow   follower, awaiting the leader's future                       *)
(*   write    writer, the statement is queued or runs                      *)
(*   written  the statement has committed                                  *)
(*   drop     L1 invalidated, deleting the tables' rows from L2            *)
(*   clear    L1 cleared, clearing L2                                      *)
(***************************************************************************)
Resolving == {"l2", "l2got", "exec", "execd"}

\* seen is the version of each table read; overlapped marks a result whose lookup
\* overlapped a write of one of them.
Query(k) == [t \in Reads[k] |-> ver[t]]
Stale(k, r) == \E t \in Reads[k] : r.seen[t] < ver[t]

Init ==
  /\ ver = [t \in Tables |-> 0]
  /\ l1 = [k \in Keys |-> None] /\ l2 = [k \in Keys |-> None]
  /\ tableKeys = [t \in Tables |-> {}]
  /\ inflight = [k \in Keys |-> None] /\ spoiled = {}
  /\ jobs = {}
  /\ pc = [c \in Callers |-> "idle"]
  /\ key = [c \in Callers |-> None]
  /\ value = [c \in Callers |-> None]
  /\ tables = [c \in Callers |-> {}]
  /\ writes = 0 /\ orphanWrites = {}
  /\ overlap = {} /\ unannounced = {}

Goto(c, label) == pc' = [pc EXCEPT ![c] = label]

\* Tables whose committed write is not fully invalidated yet.
Unsettled ==
  UNION {tables[c] : c \in {d \in Callers : pc[d] \in {"written", "drop", "clear"}}}

Leading(c, k) == pc[c] \in Resolving /\ key[c] = k

\* The leader's future is done: the leader and every follower leave, and the
\* registration goes.
Conclude(c) ==
  LET done == {c} \cup {d \in Callers : pc[d] = "follow" /\ key[d] = key[c]}
  IN  /\ pc' = [d \in Callers |-> IF d \in done THEN "idle" ELSE pc[d]]
      /\ key' = [d \in Callers |-> IF d \in done THEN None ELSE key[d]]
      /\ value' = [value EXCEPT ![c] = None]
      /\ inflight' = [inflight EXCEPT ![key[c]] = None]
      /\ spoiled' = spoiled \ {c}
      /\ overlap' = overlap \ {c}
      /\ UNCHANGED tables

----------------------------------------------------------------------------
(* Reading: get_or_execute() and _resolve() *)

\* An L1 hit changes nothing but the LRU order, which is abstracted.
ReadLeads(c, k) ==
  /\ pc[c] = "idle" /\ l1[k] = None /\ inflight[k] = None
  /\ inflight' = [inflight EXCEPT ![k] = c]
  /\ Goto(c, "l2")
  /\ key' = [key EXCEPT ![c] = k]
  /\ overlap' = IF Reads[k] \cap Unsettled # {} THEN overlap \cup {c} ELSE overlap
  /\ UNCHANGED <<warehouse, caches, spoiled, value, tables, unannounced>>

\* A future that is already cancelled raises at once.
ReadFollows(c, k) ==
  /\ pc[c] = "idle" /\ l1[k] = None /\ inflight[k] # None
  /\ inflight[k] \notin spoiled
  /\ Goto(c, "follow")
  /\ key' = [key EXCEPT ![c] = k]
  /\ UNCHANGED <<warehouse, caches, flights, value, tables, history>>

\* get_cached_result(), in a service executor thread; an expired row and an error
\* count as a miss.
L2Lookup(c) ==
  /\ pc[c] = "l2"
  /\ \E r \in {l2[key[c]], None} : value' = [value EXCEPT ![c] = r]
  /\ Goto(c, "l2got")
  /\ UNCHANGED <<warehouse, caches, flights, key, tables, history>>

\* self._l1.put() and _tag_tables().
Fill(k, r) ==
  /\ l1' = [l1 EXCEPT ![k] = r]
  /\ tableKeys' = [t \in Tables |-> IF t \in Tags[k] THEN tableKeys[t] \cup {k} ELSE tableKeys[t]]

\* The result a leader is about to put, marked if it is out of date by overlap.
InHand(c) ==
  [value[c] EXCEPT !.overlapped =
     Stale(key[c], value[c]) /\ (value[c].overlapped \/ c \in overlap)]

\* The access-stat job only counts; it is left out of jobs.
L2Hit(c) ==
  /\ pc[c] = "l2got" /\ value[c] # None
  /\ Fill(key[c], InHand(c))
  /\ Conclude(c)
  /\ UNCHANGED <<warehouse, l2, jobs, unannounced>>

L2Miss(c) ==
  /\ pc[c] = "l2got" /\ value[c] = None
  /\ Goto(c, "exec")
  /\ UNCHANGED <<warehouse, caches, flights, key, value, tables, history>>

Execute(c) ==
  /\ pc[c] = "exec"
  /\ value' = [value EXCEPT ![c] = [seen |-> Query(key[c]), overlapped |-> FALSE]]
  /\ Goto(c, "execd")
  /\ UNCHANGED <<warehouse, caches, flights, key, tables, history>>

\* submit_persist_job(): the L2 write is queued, or dropped because the result is
\* empty, the queue is full or it does not accept.
Submit(k, r) ==
  \/ jobs' = jobs
  \/ /\ Cardinality(jobs) < MaxJobs
     /\ jobs' = jobs \cup {[key |-> k, result |-> r]}

Executed(c) ==
  /\ pc[c] = "execd"
  /\ Fill(key[c], InHand(c))
  /\ Submit(key[c], InHand(c))
  /\ Conclude(c)
  /\ UNCHANGED <<warehouse, l2, unannounced>>

\* Mutant of the next action: the error does not reach the future.
ReadFailsAlone(c) ==
  /\ pc[c] \in {"l2", "exec"}
  /\ Goto(c, "idle")
  /\ key' = [key EXCEPT ![c] = None]
  /\ value' = [value EXCEPT ![c] = None]
  /\ inflight' = [inflight EXCEPT ![key[c]] = None]
  /\ overlap' = overlap \ {c}
  /\ UNCHANGED <<warehouse, caches, spoiled, tables, unannounced>>

\* An error, the query timer included, goes to the leader and to its followers.
ReadFails(c) ==
  /\ pc[c] \in {"l2", "exec"}
  /\ Conclude(c)
  /\ UNCHANGED <<warehouse, caches, unannounced>>

----------------------------------------------------------------------------
(* Cancellation of a reader *)

\* Mutant of the next action: no `finally`, the registration stays.
CancelLeaderForgets(c) ==
  /\ pc[c] \in Resolving
  /\ Goto(c, "idle")
  /\ key' = [key EXCEPT ![c] = None]
  /\ value' = [value EXCEPT ![c] = None]
  /\ overlap' = overlap \ {c}
  /\ UNCHANGED <<warehouse, caches, flights, tables, unannounced>>

\* except BaseException: the followers get the leader's CancelledError.
CancelLeader(c) ==
  /\ pc[c] \in Resolving
  /\ Conclude(c)
  /\ UNCHANGED <<warehouse, caches, unannounced>>

\* Followers await the shared future itself, so cancelling one cancels the future:
\* all of them get CancelledError, and so does whoever joins before the leader ends.
CancelFollower(c) ==
  /\ pc[c] = "follow"
  /\ LET struck == {d \in Callers : pc[d] = "follow" /\ key[d] = key[c]}
     IN  /\ pc' = [d \in Callers |-> IF d \in struck THEN "idle" ELSE pc[d]]
         /\ key' = [d \in Callers |-> IF d \in struck THEN None ELSE key[d]]
  /\ spoiled' = spoiled \cup {inflight[key[c]]}
  /\ UNCHANGED <<warehouse, caches, inflight, value, tables, history>>

----------------------------------------------------------------------------
(* Writing: run() for a write statement *)

BeginWrite(c, ts) ==
  /\ pc[c] = "idle" /\ writes < MaxWrites
  /\ writes' = writes + 1
  /\ tables' = [tables EXCEPT ![c] = ts]
  /\ Goto(c, "write")
  /\ UNCHANGED <<ver, orphanWrites, caches, flights, key, value, history>>

Touches(k, ts) == Reads[k] \cap ts # {}

\* Every lookup and every pending L2 write of the tables now overlaps a write.
Overtaken(ts) ==
  /\ overlap' = overlap \cup {c \in Callers : pc[c] \in Resolving /\ Touches(key[c], ts)}
  /\ jobs' = {IF Touches(j.key, ts) THEN [j EXCEPT !.result.overlapped = TRUE] ELSE j : j \in jobs}

Commit(ts) == ver' = [t \in Tables |-> IF t \in ts THEN ver[t] + 1 ELSE ver[t]]

WriteCommits(c) ==
  /\ pc[c] = "write"
  /\ Commit(tables[c])
  /\ Overtaken(tables[c])
  /\ Goto(c, "written")
  /\ UNCHANGED <<orphanWrites, writes, l1, l2, tableKeys, flights, key, value, tables, unannounced>>

WriteFails(c) ==
  /\ pc[c] = "write"
  /\ Goto(c, "idle")
  /\ tables' = [tables EXCEPT ![c] = {}]
  /\ UNCHANGED <<warehouse, caches, flights, key, value, history>>

\* Keys the reverse index lists under one of the tables.
Listed(ts) == UNION {tableKeys[t] : t \in ts}

\* Mutant of the next action: no fallback to clear_all().
InvalidateScopedOnly(c) ==
  /\ pc[c] = "written"
  /\ tableKeys' = [t \in Tables |-> IF t \in tables[c] THEN {} ELSE tableKeys[t]]
  /\ l1' = [k \in Keys |-> IF k \in Listed(tables[c]) THEN None ELSE l1[k]]
  /\ Goto(c, IF Listed(tables[c]) # {} THEN "drop" ELSE "idle")
  /\ tables' = IF Listed(tables[c]) # {} THEN tables ELSE [tables EXCEPT ![c] = {}]
  /\ unannounced' = unannounced \ tables[c]
  /\ UNCHANGED <<warehouse, l2, jobs, flights, key, value, overlap>>

\* Scoped when precise invalidation is on, the statement's tables are resolved and
\* the index lists a key for them; everything otherwise.
Invalidate(c) ==
  /\ pc[c] = "written"
  /\ \E resolved \in BOOLEAN :
       IF resolved /\ Listed(tables[c]) # {}
         THEN /\ tableKeys' = [t \in Tables |-> IF t \in tables[c] THEN {} ELSE tableKeys[t]]
              /\ l1' = [k \in Keys |-> IF k \in Listed(tables[c]) THEN None ELSE l1[k]]
              /\ Goto(c, "drop")
         ELSE /\ tableKeys' = [t \in Tables |-> {}]
              /\ l1' = [k \in Keys |-> None]
              /\ Goto(c, "clear")
  /\ unannounced' = unannounced \ tables[c]
  /\ UNCHANGED <<warehouse, l2, jobs, flights, key, value, tables, overlap>>

\* The tables in ts are settled for this writer; it returns after the last.
Settle(c, ts) ==
  /\ tables' = [tables EXCEPT ![c] = @ \ ts]
  /\ IF tables[c] \subseteq ts THEN Goto(c, "idle") ELSE UNCHANGED pc

\* invalidate_cache(query_pattern=table): the LIKE pattern matches every statement
\* that mentions the table.
L2Drop(c) ==
  /\ pc[c] = "drop"
  /\ \E t \in tables[c] :
       /\ l2' = [k \in Keys |-> IF t \in Reads[k] THEN None ELSE l2[k]]
       /\ Settle(c, {t})
  /\ UNCHANGED <<warehouse, l1, tableKeys, jobs, flights, key, value, history>>

L2Clear(c) ==
  /\ pc[c] = "clear"
  /\ l2' = [k \in Keys |-> None]
  /\ Settle(c, tables[c])
  /\ UNCHANGED <<warehouse, l1, tableKeys, jobs, flights, key, value, history>>

\* A delete that fails inside SQLite is logged and the loop goes on; an executor
\* that refuses the job ends the invalidation.  Either way run() reports success.
L2DropFails(c) ==
  /\ pc[c] \in {"drop", "clear"}
  /\ \E ts \in {tables[c]} \cup {{t} : t \in tables[c]} :
       /\ pc[c] = "clear" => ts = tables[c]
       /\ Settle(c, ts)
       /\ unannounced' = unannounced \cup ts
  /\ UNCHANGED <<warehouse, caches, flights, key, value, overlap>>

\* The query timer (in "write") or a cancellation (anywhere) ends the writer.  A
\* statement that already runs goes on; nothing is invalidated for it.
AbandonWrite(c) ==
  /\ pc[c] \in {"write", "written", "drop", "clear"}
  /\ IF pc[c] = "write"
       THEN /\ \E runs \in BOOLEAN :
                 orphanWrites' = IF runs THEN orphanWrites \cup {tables[c]} ELSE orphanWrites
            /\ UNCHANGED unannounced
       ELSE /\ unannounced' = unannounced \cup tables[c]
            /\ UNCHANGED orphanWrites
  /\ Goto(c, "idle")
  /\ tables' = [tables EXCEPT ![c] = {}]
  /\ UNCHANGED <<ver, writes, caches, flights, key, value, overlap>>

OrphanCommits(ts) ==
  /\ ts \in orphanWrites
  /\ orphanWrites' = orphanWrites \ {ts}
  /\ Commit(ts)
  /\ Overtaken(ts)
  /\ unannounced' = unannounced \cup ts
  /\ UNCHANGED <<writes, l1, l2, tableKeys, flights, tasks>>

----------------------------------------------------------------------------
(* Background and environment *)

\* cache_result(): the row is inserted or replaced, or SQLite's error is logged.
CacheResult(k, r) == l2' \in {l2, [l2 EXCEPT ![k] = r]}

\* A worker runs persist_l2() in a background thread; the workers keep no order.
Persist(j) ==
  /\ j \in jobs
  /\ jobs' = jobs \ {j}
  /\ CacheResult(j.key, j.result)
  /\ UNCHANGED <<warehouse, l1, tableKeys, flights, tasks, history>>

\* LRU eviction and TTL expiry; the index keeps the key.
Evict(k) ==
  /\ l1[k] # None
  /\ l1' = [l1 EXCEPT ![k] = None]
  /\ UNCHANGED <<warehouse, l2, tableKeys, jobs, flights, tasks, history>>

\* The process dies and starts again: only the warehouse and L2 survive.
Restart ==
  /\ l1' = [k \in Keys |-> None]
  /\ tableKeys' = [t \in Tables |-> {}]
  /\ inflight' = [k \in Keys |-> None] /\ spoiled' = {}
  /\ jobs' = {}
  /\ pc' = [c \in Callers |-> "idle"]
  /\ key' = [c \in Callers |-> None]
  /\ value' = [c \in Callers |-> None]
  /\ tables' = [c \in Callers |-> {}]
  /\ orphanWrites' = {}
  /\ overlap' = {}
  /\ unannounced' = unannounced \cup Unsettled
  /\ UNCHANGED <<ver, writes, l2>>

----------------------------------------------------------------------------
\* What the loop and the executors do for a task.
Progress(c) ==
  \/ L2Lookup(c) \/ L2Hit(c) \/ L2Miss(c)
  \/ Execute(c) \/ Executed(c) \/ ReadFails(c)
  \/ WriteCommits(c) \/ WriteFails(c)
  \/ Invalidate(c) \/ L2Drop(c) \/ L2Clear(c) \/ L2DropFails(c)

Next ==
  \/ \E c \in Callers :
       \/ \E k \in Keys : ReadLeads(c, k) \/ ReadFollows(c, k)
       \/ \E ts \in WriteSets : BeginWrite(c, ts)
       \/ Progress(c)
       \/ CancelLeader(c) \/ CancelFollower(c) \/ AbandonWrite(c)
  \/ \E ts \in orphanWrites : OrphanCommits(ts)
  \/ \E j \in jobs : Persist(j)
  \/ \E k \in Keys : Evict(k)
  \/ Restart

Spec == Init /\ [][Next]_vars

\* The loop runs ready tasks and executor jobs end (the query timer ends the wait
\* for those that do not).
Fairness == \A c \in Callers : WF_vars(Progress(c))

FairSpec == Spec /\ Fairness

----------------------------------------------------------------------------
(* Properties *)

\* A cached result is older than the tables only while the write that outdated it is
\* still being invalidated, if that write was never (completely) invalidated (its
\* task timed out, was cancelled or died, or SQLite refused the delete), or if the
\* result was looked up while a write of its tables was under way: in every other
\* interleaving, restarts included, invalidation leaves nothing stale in L1 or L2.
\* This is for statements whose tags name every table they read; extract_tables()
\* misses the second table of `FROM a, b`, a name after a schema prefix, and a name
\* that the write statement spells in another case.  L2 is read fresh: what an old
\* transaction on a service-database connection shows is left to ServiceDatabase.
NoUnexplainedStale ==
  \A k \in {q \in Keys : Reads[q] \subseteq Tags[q]} : \A r \in {l1[k], l2[k]} \ {None} :
    Stale(k, r) => r.overlapped \/ Touches(k, Unsettled \cup unannounced)

\* A future is registered exactly while its leader resolves the key: one leader per
\* key, no registration outlives an error or a cancellation, and every follower has
\* a leader that will answer it (get_or_execute(), `finally`).
FlightsOwned ==
  /\ \A k \in Keys, c \in Callers : inflight[k] = c <=> Leading(c, k)
  /\ \A c \in Callers : pc[c] = "follow" =>
       inflight[key[c]] \in Callers \ spoiled

\* What FlightsOwned rests on: the shape of the state.
Result ==
  [seen : UNION {[Reads[k] -> Nat] : k \in Keys}, overlapped : BOOLEAN]

TypeOK ==
  /\ ver \in [Tables -> Nat]
  /\ l1 \in [Keys -> Result \cup {None}] /\ l2 \in [Keys -> Result \cup {None}]
  /\ tableKeys \in [Tables -> SUBSET Keys]
  /\ inflight \in [Keys -> Callers \cup {None}] /\ spoiled \subseteq Callers
  /\ jobs \subseteq [key : Keys, result : Result]
  /\ pc \in [Callers -> Resolving \cup {"idle", "follow", "write", "written", "drop", "clear"}]
  /\ key \in [Callers -> Keys \cup {None}]
  /\ value \in [Callers -> Result \cup {None}]
  /\ tables \in [Callers -> SUBSET Tables]
  /\ orphanWrites \subseteq SUBSET Tables
  /\ overlap \subseteq Callers /\ unannounced \subseteq Tables
  /\ \A c \in Callers : pc[c] \in Resolving \cup {"follow"} => key[c] \in Keys
  /\ \A c \in Callers : pc[c] = "execd" => value[c] \in Result

FlightsInv == TypeOK /\ FlightsOwned

\* What NoUnexplainedStale rests on.  L1's reverse index lists every statement L1
\* holds; a lookup that meets an unsettled write is in overlap; a stale result is
\* explained wherever it is: in a leader's hand, in a job, in L1 and in L2.  L1
\* accepts less than L2: past the step that invalidates it, a write that is only
\* being deleted from L2 explains nothing in L1 any more.
Indexed == \A k \in Keys : l1[k] # None => \A t \in Tags[k] : k \in tableKeys[t]

LookupsMarked ==
  \A c \in Callers : pc[c] \in Resolving /\ Touches(key[c], Unsettled) => c \in overlap

ValuesExplained ==
  \A c \in Callers :
    /\ pc[c] = "execd" => (Stale(key[c], value[c]) => value[c].overlapped \/ c \in overlap)
    /\ pc[c] = "l2got" /\ value[c] # None =>
         (Stale(key[c], value[c]) =>
            value[c].overlapped \/ c \in overlap \/ Touches(key[c], unannounced))

JobsExplained == \A j \in jobs : Stale(j.key, j.result) => j.result.overlapped

Written == UNION {tables[c] : c \in {d \in Callers : pc[d] = "written"}}

L1Explained ==
  \A k \in {q \in Keys : Reads[q] \subseteq Tags[q]} :
    l1[k] # None /\ Stale(k, l1[k]) =>
      l1[k].overlapped \/ Touches(k, Written \cup unannounced)

L2Explained ==
  \A k \in Keys :
    l2[k] # None /\ Stale(k, l2[k]) =>
      l2[k].overlapped \/ Touches(k, Unsettled \cup unannounced)

FreshInv ==
  /\ TypeOK /\ Indexed /\ LookupsMarked /\ ValuesExplained
  /\ JobsExplained /\ L1Explained /\ L2Explained

\* Every request ends, a follower's too.
RequestsEnd == \A c \in Callers : pc[c] # "idle" ~> pc[c] = "idle"

\* While a leader works, its future is pending, so that followers "await the
\* leader's in-flight future and get the same result" (module docstring).
FollowersGetResult == spoiled = {}
=============================================================================
