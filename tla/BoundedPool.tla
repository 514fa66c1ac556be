------------------------------ MODULE BoundedPool ------------------------------
(***************************************************************************)
(* What a connection pool promises its users, without queues, locks,       *)
(* timers or sizers: a connection is idle or lent to one user, one is      *)
(* created only when none is idle and fewer than MaxConn are lent, and     *)
(* only a connection that the pool still lends comes back.  AsyncPool and  *)
(* SyncPool implement it.                                                  *)
(***************************************************************************)
EXTENDS Naturals, FiniteSets

CONSTANTS
  Users, Conns,
  None,         \* no connection
  MaxConn

VARIABLES
  idle,         \* connections in the pool
  lent,         \* connections the pool counts as taken
  holds,        \* what each user has
  open          \* close_all() has not run

poolState == <<idle, lent, holds, open>>

Init ==
  /\ idle = {} /\ lent = {}
  /\ holds = [u \in Users |-> None]
  /\ open = TRUE

Known == idle \cup lent \cup {holds[u] : u \in Users}

Has(u, k) == holds' = [holds EXCEPT ![u] = k]

Lend(u) ==
  /\ holds[u] = None
  /\ \E k \in idle : idle' = idle \ {k} /\ lent' = lent \cup {k} /\ Has(u, k)
  /\ UNCHANGED open

Create(u) ==
  /\ holds[u] = None
  /\ idle = {} /\ Cardinality(lent) < MaxConn
  /\ \E k \in Conns \ Known : lent' = lent \cup {k} /\ Has(u, k)
  /\ UNCHANGED <<idle, open>>

Return(u) ==
  /\ holds[u] \in lent
  /\ lent' = lent \ {holds[u]} /\ idle' = idle \cup {holds[u]}
  /\ Has(u, None)
  /\ UNCHANGED open

\* The connection is broken; its user may have it for a while yet.
Condemn(u) ==
  /\ holds[u] \in lent
  /\ lent' = lent \ {holds[u]}
  /\ UNCHANGED <<idle, holds, open>>

\* It is gone for good, or was never made; a cancelled user may leave it on the books.
Drop(u) ==
  /\ holds[u] # None
  /\ lent' \in {lent, lent \ {holds[u]}}
  /\ Has(u, None)
  /\ UNCHANGED <<idle, open>>

\* Connections are made ahead of any user.
Warm ==
  /\ idle = {} /\ lent = {}
  /\ \E ks \in SUBSET (Conns \ Known) : Cardinality(ks) <= MaxConn /\ idle' = ks
  /\ UNCHANGED <<lent, holds, open>>

Close ==
  /\ open /\ open' = FALSE
  /\ idle' = {} /\ lent' = {}
  /\ UNCHANGED holds

\* One that was being created when the pool was closed is put on its books.
Adopt(u) ==
  /\ ~open /\ holds[u] # None /\ holds[u] \notin idle
  /\ lent' = lent \cup {holds[u]}
  /\ UNCHANGED <<idle, holds, open>>

Next ==
  \/ \E u \in Users :
       Lend(u) \/ Create(u) \/ Return(u) \/ Condemn(u) \/ Drop(u) \/ Adopt(u)
  \/ Warm \/ Close

Spec == Init /\ [][Next]_poolState
=============================================================================
