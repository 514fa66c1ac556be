------------------------------ MODULE Accounts ------------------------------
(***************************************************************************)
(* Users, roles and session tokens: routes/auth.py and the authentication  *)
(* middleware, over the users table.  API keys are in ApiKeys; here a      *)
(* request whose key has been validated may come from any registered user. *)
(*                                                                         *)
(* Atomicity.  Handlers are coroutines of one event loop; every database   *)
(* call is a job of the service executor.  A step of a task is one such    *)
(* job, or what the handler does in memory after it, together with         *)
(* everything up to the next await that touches no shared state.           *)
(*                                                                         *)
(* Data.  A user is a role; passwords, names and the audit log are left    *)
(* out.  A database call that fails returns None, False or [] and changes  *)
(* nothing.  Entries of _USER_CACHE may expire at any time.  The wall      *)
(* clock moves in ticks, SecLen to the second, and never shows a whole     *)
(* second, so that int(time.time()) < time.time().                         *)
(***************************************************************************)
EXTENDS Integers, FiniteSets

CONSTANTS
  Users,        \* user ids
  Founder,      \* the admin of a new installation (bootstrap_admin.py)
  Tasks,        \* requests in progress
  SecLen,       \* ticks in a second
  MaxTime,      \* bound: the clock stops here
  MaxTokens,    \* bound: tokens in circulation
  None          \* no user

ASSUME AccountsAssumption ==
  /\ Founder \in Users /\ None \notin Users
  /\ IsFiniteSet(Tasks)
  /\ SecLen \in Nat \ {0} /\ MaxTime \in Nat \ {0} /\ MaxTokens \in Nat

Roles == {"user", "admin"}

VARIABLES
  role,         \* users.roles; "none" for an id nobody has registered
  userCache,    \* _USER_CACHE: the cached role, and whether its row had changed
                \* since it was read
  revokedBefore, \* _REVOKED_BEFORE, or 0
  tokens,       \* the JWTs that clients hold
  task,         \* the requests' places and local variables
  clock         \* time.time()

memoryVars == <<userCache, revokedBefore>>
vars == <<role, memoryVars, tokens, task, clock>>

\* A task's place: idle; verify: login, the row read; lookup, found: the middleware,
\* before and after the user's row was read; admin: authenticated as one; guard,
\* update, apply: changing a role.

\* user: whose row; role: the role read, or the one to set; stale: history, what was
\* read last (verify, found: that row; update: any row) has changed since.
Idle == [at |-> "idle", user |-> None, role |-> "none", stale |-> FALSE]

NoEntry == [role |-> "none", stale |-> FALSE]

Init ==
  /\ role = [u \in Users |-> IF u = Founder THEN "admin" ELSE "none"]
  /\ userCache = [u \in Users |-> NoEntry]
  /\ revokedBefore = [u \in Users |-> 0]
  /\ tokens = {}
  /\ task = [t \in Tasks |-> Idle]
  /\ clock = 1

At(t, place) == task[t].at = place

Become(t, r) == task' = [task EXCEPT ![t] = r]

End(t) == Become(t, Idle)

Step(place, u, r) == [Idle EXCEPT !.at = place, !.user = u, !.role = r]

\* The request of an admin goes on to its route; any other leaves the model here, as
\* no other role passes _require_admin().
Authenticated(t, r) == Become(t, IF r = "admin" THEN Step("admin", None, r) ELSE Idle)

\* int(time.time())
Second(time) == SecLen * ((time - 1) \div SecLen)

\* What a lookup returns: the row, or nothing if there is none or the database fails.
Lookup(u) == {role[u], "none"}

----------------------------------------------------------------------------
(* login_user(), register_user() *)

\* A login whose lookup finds nothing ends here.
LoginRead(t, u) ==
  /\ At(t, "idle")
  /\ \E r \in Lookup(u) \ {"none"} : Become(t, Step("verify", u, r))
  /\ UNCHANGED <<role, memoryVars, tokens, clock>>

\* Wrong password.
LoginRefused(t) ==
  /\ At(t, "verify")
  /\ End(t)
  /\ UNCHANGED <<role, memoryVars, tokens, clock>>

\* The token carries the role that was read before the password was verified.
\* excused: history, that row has changed since.
LoginMint(t) ==
  LET s == task[t]
  IN  /\ At(t, "verify")
      /\ Cardinality(tokens) < MaxTokens
      /\ tokens' = tokens \cup
           {[user |-> s.user, role |-> s.role, iat |-> Second(clock), excused |-> s.stale]}
      /\ End(t)
      /\ UNCHANGED <<role, memoryVars, clock>>

\* A client drops a token, or it expires.
TokenLost(k) ==
  /\ tokens' = tokens \ {k}
  /\ UNCHANGED <<role, memoryVars, task, clock>>

Register(t, u) ==
  /\ At(t, "idle") /\ role[u] = "none"
  /\ role' = [role EXCEPT ![u] = "user"]
  /\ UNCHANGED <<memoryVars, tokens, task, clock>>

----------------------------------------------------------------------------
(* enforce_auth() *)

Honored(k) == ~(revokedBefore[k.user] # 0 /\ k.iat < revokedBefore[k.user])

TokenAccepted(t, k) ==
  /\ At(t, "idle") /\ Honored(k)
  /\ Authenticated(t, k.role)
  /\ UNCHANGED <<role, memoryVars, tokens, clock>>

\* With an API key: the owner's role from the cache, or by a lookup.
UserCached(t, u) ==
  /\ At(t, "idle") /\ userCache[u] # NoEntry
  /\ Authenticated(t, userCache[u].role)
  /\ UNCHANGED <<role, memoryVars, tokens, clock>>

UserUncached(t, u) ==
  /\ At(t, "idle") /\ role[u] # "none" /\ userCache[u] = NoEntry
  /\ Become(t, Step("lookup", u, "none"))
  /\ UNCHANGED <<role, memoryVars, tokens, clock>>

UserRead(t) ==
  /\ At(t, "lookup")
  /\ \E r \in Lookup(task[t].user) :
       IF r = "none" THEN Authenticated(t, "none")
       ELSE Become(t, Step("found", task[t].user, r))
  /\ UNCHANGED <<role, memoryVars, tokens, clock>>

\* The entry may replace what a role change has just evicted.
UserIdentified(t) ==
  LET s == task[t]
  IN  /\ At(t, "found")
      /\ userCache' = [userCache EXCEPT ![s.user] = [role |-> s.role, stale |-> s.stale]]
      /\ Authenticated(t, s.role)
      /\ UNCHANGED <<role, revokedBefore, tokens, clock>>

CacheExpires(u) ==
  /\ userCache[u] # NoEntry
  /\ userCache' = [userCache EXCEPT ![u] = NoEntry]
  /\ UNCHANGED <<role, revokedBefore, tokens, task, clock>>

\* A route of an admin's that changes no role.
OtherRoute(t) ==
  /\ At(t, "admin")
  /\ End(t)
  /\ UNCHANGED <<role, memoryVars, tokens, clock>>

----------------------------------------------------------------------------
(* update_user_role() *)

\* _require_admin(), then the target's row.  Only the demotion of an admin is checked
\* against the other users.
TargetRead(t, u, new) ==
  /\ At(t, "admin")
  /\ \E r \in Lookup(u) :
       IF r = "none" THEN End(t)
       ELSE Become(t, Step(IF r = "admin" /\ new # "admin" THEN "guard" ELSE "update", u, new))
  /\ UNCHANGED <<role, memoryVars, tokens, clock>>

\* Mutant of the next action: the target itself counts as a remaining admin.
AdminsListedWithTarget(t) ==
  /\ At(t, "guard")
  /\ (\E u \in Users : role[u] = "admin") /\ Become(t, [task[t] EXCEPT !.at = "update"])
  /\ UNCHANGED <<role, memoryVars, tokens, clock>>

\* No other admin, or list_all() failed: refused with 409.
AdminsListed(t) ==
  /\ At(t, "guard")
  /\ \/ /\ \E u \in Users \ {task[t].user} : role[u] = "admin"
        /\ Become(t, [task[t] EXCEPT !.at = "update"])
     \/ End(t)
  /\ UNCHANGED <<role, memoryVars, tokens, clock>>

\* History: the requests that have read what changes now, when u's row is written.
Outdated(u) ==
  [t \in Tasks |->
     [task[t] EXCEPT !.stale = @ \/ (task[t].at \in {"verify", "found"} /\ task[t].user = u)
                                 \/ At(t, "update")]]

RoleWritten(t) ==
  LET s == task[t]
  IN  /\ At(t, "update")
      /\ role' = [role EXCEPT ![s.user] = s.role]
      /\ task' = [Outdated(s.user) EXCEPT ![t] = Step("apply", s.user, "none")]
      /\ UNCHANGED <<memoryVars, tokens, clock>>

RoleWriteFails(t) ==
  /\ At(t, "update")
  /\ End(t)
  /\ UNCHANGED <<role, memoryVars, tokens, clock>>

\* Mutants of the next action: one of its two calls is missing.
RoleAppliedUnrevoked(t) ==
  /\ At(t, "apply")
  /\ userCache' = [userCache EXCEPT ![task[t].user] = NoEntry]
  /\ End(t)
  /\ UNCHANGED <<role, revokedBefore, tokens, clock>>

RoleAppliedUnevicted(t) ==
  /\ At(t, "apply")
  /\ revokedBefore' = [revokedBefore EXCEPT ![task[t].user] = clock]
  /\ End(t)
  /\ UNCHANGED <<role, userCache, tokens, clock>>

\* invalidate_user_cache() and revoke_tokens_issued_before().
RoleApplied(t) ==
  /\ At(t, "apply")
  /\ userCache' = [userCache EXCEPT ![task[t].user] = NoEntry]
  /\ revokedBefore' = [revokedBefore EXCEPT ![task[t].user] = clock]
  /\ End(t)
  /\ UNCHANGED <<role, tokens, clock>>

----------------------------------------------------------------------------
(* Outside the handlers *)

\* bootstrap_admin.py, a process of its own, creates or promotes an admin.
Bootstrap(u) ==
  /\ role[u] # "admin"
  /\ role' = [role EXCEPT ![u] = "admin"]
  /\ task' = Outdated(u)
  /\ UNCHANGED <<memoryVars, tokens, clock>>

\* A role change is on its way from the table to the middleware's memory.
ChangePending(u) == \E t \in Tasks : At(t, "apply") /\ task[t].user = u

\* The server restarts with the same JWT_SECRET_KEY; its memory is gone.  Tokens that
\* were revoked, or were about to be, are excused.
Restart ==
  /\ userCache' = [u \in Users |-> NoEntry]
  /\ revokedBefore' = [u \in Users |-> 0]
  /\ task' = [t \in Tasks |-> Idle]
  /\ tokens' = {[k EXCEPT !.excused = @ \/ revokedBefore[k.user] # 0 \/ ChangePending(k.user)] :
                  k \in tokens}
  /\ UNCHANGED <<role, clock>>

Tick ==
  /\ clock < MaxTime
  /\ clock' = clock + 1
  /\ UNCHANGED <<role, memoryVars, tokens, task>>

----------------------------------------------------------------------------
Handle(t) ==
  \/ LoginRefused(t) \/ LoginMint(t) \/ UserRead(t) \/ UserIdentified(t) \/ OtherRoute(t)
  \/ AdminsListed(t) \/ RoleWritten(t) \/ RoleWriteFails(t) \/ RoleApplied(t)
  \/ \E u \in Users :
       \/ LoginRead(t, u) \/ Register(t, u) \/ UserCached(t, u) \/ UserUncached(t, u)
       \/ \E new \in Roles : TargetRead(t, u, new)
  \/ \E k \in tokens : TokenAccepted(t, k)

Next ==
  \/ \E t \in Tasks : Handle(t)
  \/ \E k \in tokens : TokenLost(k)
  \/ \E u \in Users : Bootstrap(u) \/ CacheExpires(u)
  \/ Restart
  \/ Tick

Spec == Init /\ [][Next]_vars

----------------------------------------------------------------------------
(* Properties.  Reads of the users table are fresh and a failed update       *)
(* changes nothing; a connection left in a transaction, on which neither is  *)
(* certain, is ServiceDatabase's subject and not among the reasons here.     *)

\* The middleware takes a user for an admin who is none only until update_user_role()
\* has evicted the entry, or when the entry's lookup was in flight as the row changed.
CachedAdminExplained ==
  \A u \in Users : userCache[u].role = "admin" /\ role[u] # "admin" =>
    userCache[u].stale \/ ChangePending(u)

\* A token of a demoted admin is honored only until update_user_role() has revoked it,
\* when its login was in flight as the row changed, or after a restart.
AdminTokenExplained ==
  \A k \in tokens : Honored(k) /\ k.role = "admin" /\ role[k.user] # "admin" =>
    k.excused \/ ChangePending(k.user)

AnAdmin == \E u \in Users : role[u] = "admin"

\* The guard of update_user_role() is sound by itself: the last admin goes only when a
\* role is written although another one was since the request read the users.
LastAdminKept ==
  [][AnAdmin => AnAdmin' \/ \E t \in Tasks : At(t, "update") /\ task[t].stale /\ At(t, "apply")']_vars

\* A token that enforce_auth() refuses because of a role change is refused until a
\* restart: a later role change of the same user, by whatever request, revokes no less.
RefusedForGood ==
  [][\A k \in tokens : ~Honored(k) => ~Honored(k)' \/ Restart]_vars

\* What the three rest on: what a request read of a row is marked once the row changes,
\* and a role that is about to be written, by a request nobody has overtaken, takes
\* its target's admin role only while another user has it.
Places == {"idle", "verify", "lookup", "found", "admin", "guard", "update", "apply"}

TypeOK ==
  /\ role \in [Users -> Roles \cup {"none"}]
  /\ userCache \in [Users -> [role : Roles \cup {"none"}, stale : BOOLEAN]]
  /\ revokedBefore \in [Users -> Nat]
  /\ tokens \subseteq [user : Users, role : Roles, iat : Nat, excused : BOOLEAN]
  /\ task \in [Tasks -> [at : Places, user : Users \cup {None}, role : Roles \cup {"none"},
                         stale : BOOLEAN]]
  /\ \A t \in Tasks : task[t].at \notin {"idle", "admin"} => task[t].user \in Users
  /\ \A t \in Tasks : task[t].at \in {"verify", "found", "guard", "update"} => task[t].role \in Roles
  /\ clock \in Nat \ {0}

ReadsMarked ==
  \A t \in Tasks : task[t].at \in {"verify", "found"} /\ task[t].role # role[task[t].user] =>
    task[t].stale

DemotionsChecked ==
  \A t \in {d \in Tasks : At(d, "update") /\ ~task[d].stale /\ task[d].role # "admin"} :
    role[task[t].user] = "admin" => \E u \in Users \ {task[t].user} : role[u] = "admin"

\* Nothing is revoked ahead of time.
RevokedSoFar == \A u \in Users : revokedBefore[u] <= clock

\* Every token was issued before now, so that revoking catches all of them.
IssuedBefore == \A k \in tokens : k.iat < clock

AccountsInv ==
  /\ TypeOK /\ ReadsMarked /\ DemotionsChecked /\ IssuedBefore
  /\ CachedAdminExplained /\ AdminTokenExplained

\* There is always an admin (update_user_role(): "Guard against locking everyone out
\* of admin").
AdminRemains == AnAdmin
=============================================================================
