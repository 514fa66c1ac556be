--------------------------- MODULE AccountsProofs ---------------------------
(***************************************************************************)
(* For any number of users, requests and tokens, and any clock: the guard  *)
(* of the last admin is sound unless another role change overtakes it, and *)
(* a role that has been taken away is believed no longer than the handlers *)
(* explain.                                                                *)
(***************************************************************************)
EXTENDS Accounts, TLAPS

----------------------------------------------------------------------------
(* The records of a request *)

\* A fresh record of a task has what Step() puts into it.
LEMMA StepFields ==
  ASSUME NEW place, NEW u, NEW r
  PROVE  Step(place, u, r) = [at |-> place, user |-> u, role |-> r, stale |-> FALSE]
<1>1. Step(place, u, r) \in [at : {place}, user : {u}, role : {r}, stale : {FALSE}]
  BY DEF Step, Idle
<1> QED BY <1>1

\* Outdated() only sets marks.
LEMMA OutdatedFields ==
  ASSUME TypeOK, NEW u, NEW t \in Tasks
  PROVE  /\ Outdated(u)[t].at = task[t].at /\ Outdated(u)[t].user = task[t].user
         /\ Outdated(u)[t].role = task[t].role
         /\ Outdated(u)[t].stale =
              (task[t].stale \/ (task[t].at \in {"verify", "found"} /\ task[t].user = u)
                             \/ At(t, "update"))
         /\ Outdated(u)[t] \in [at : Places, user : Users \cup {None},
                                role : Roles \cup {"none"}, stale : BOOLEAN]
<1>1. task[t] \in [at : Places, user : Users \cup {None}, role : Roles \cup {"none"},
                   stale : BOOLEAN]
  BY DEF TypeOK
<1>2. (task[t].stale \/ (task[t].at \in {"verify", "found"} /\ task[t].user = u)
                     \/ At(t, "update")) \in BOOLEAN
  BY <1>1 DEF At
<1> QED BY <1>1, <1>2 DEF Outdated

\* A token is issued in the past: int(time.time()) < time.time().
LEMMA SecondPast ==
  ASSUME NEW time \in Nat \ {0}
  PROVE  Second(time) \in Nat /\ Second(time) < time
<1> DEFINE q == (time - 1) \div SecLen
<1>1. SecLen \in Nat \ {0} /\ time - 1 \in Nat
  BY AccountsAssumption DEF AccountsAssumption
<1>2. q \in Nat /\ SecLen * q <= time - 1
  BY <1>1
<1>3. SecLen * q \in Nat
  BY <1>1, <1>2
<1> HIDE DEF q
<1>4. Second(time) = SecLen * q
  BY DEF Second, q
<1> QED BY <1>2, <1>3, <1>4

----------------------------------------------------------------------------
(* The shape of the state *)

\* A new installation satisfies every part of the invariant.
LEMMA InitInv == Init => AccountsInv
<1> SUFFICES ASSUME Init PROVE AccountsInv
  OBVIOUS
<1>1. TypeOK
  BY AccountsAssumption DEF Init, TypeOK, Idle, NoEntry, Roles, Places, AccountsAssumption
<1>2. ReadsMarked /\ DemotionsChecked /\ IssuedBefore
  BY DEF Init, ReadsMarked, DemotionsChecked, IssuedBefore, At, Idle
<1>3. CachedAdminExplained /\ AdminTokenExplained
  BY DEF Init, CachedAdminExplained, AdminTokenExplained, NoEntry
<1> QED BY <1>1, <1>2, <1>3 DEF AccountsInv

\* A task's new record is well formed.
LEMMA BecomeType ==
  ASSUME TypeOK, NEW t \in Tasks, NEW s, Become(t, s),
         s \in [at : Places, user : Users \cup {None}, role : Roles \cup {"none"}, stale : BOOLEAN],
         s.at \notin {"idle", "admin"} => s.user \in Users,
         s.at \in {"verify", "found", "guard", "update"} => s.role \in Roles
  PROVE  /\ task' \in [Tasks -> [at : Places, user : Users \cup {None},
                                 role : Roles \cup {"none"}, stale : BOOLEAN]]
         /\ \A d \in Tasks : task'[d].at \notin {"idle", "admin"} => task'[d].user \in Users
         /\ \A d \in Tasks : task'[d].at \in {"verify", "found", "guard", "update"} =>
              task'[d].role \in Roles
BY DEF Become, TypeOK

\* A handler that writes no row.
Reader(t) ==
  \/ LoginRefused(t) \/ LoginMint(t) \/ UserRead(t) \/ UserIdentified(t) \/ OtherRoute(t)
  \/ AdminsListed(t) \/ RoleWriteFails(t) \/ RoleApplied(t)
  \/ \E u \in Users :
       \/ LoginRead(t, u) \/ UserCached(t, u) \/ UserUncached(t, u)
       \/ \E new \in Roles : TargetRead(t, u, new)
  \/ \E k \in tokens : TokenAccepted(t, k)

\* What a place that only reads leaves the request with.
LEMMA ReaderRecord ==
  ASSUME TypeOK, NEW t \in Tasks, Reader(t)
  PROVE  \E s : /\ Become(t, s)
                /\ s \in [at : Places, user : Users \cup {None}, role : Roles \cup {"none"},
                          stale : BOOLEAN]
                /\ s.at \in {"idle", "admin"}
                   \/ (s.user \in Users /\ (s.at = "lookup" \/ s.role \in Roles))
                /\ s.at \in {"verify", "found"} => s.role = role[s.user]
                /\ s.at = "update" /\ ~s.stale /\ s.role # "admin" /\ role[s.user] = "admin" =>
                     \E u \in Users \ {s.user} : role[u] = "admin"
                /\ s.at # "apply"
<1> DEFINE Good(s) ==
      /\ s \in [at : Places, user : Users \cup {None}, role : Roles \cup {"none"}, stale : BOOLEAN]
      /\ s.at \in {"idle", "admin"} \/ (s.user \in Users /\ (s.at = "lookup" \/ s.role \in Roles))
      /\ s.at \in {"verify", "found"} => s.role = role[s.user]
      /\ s.at = "update" /\ ~s.stale /\ s.role # "admin" /\ role[s.user] = "admin" =>
           \E u \in Users \ {s.user} : role[u] = "admin"
      /\ s.at # "apply"
<1>1. Good(Idle)
  BY DEF Idle, Places
<1>2. Good(Step("admin", None, "admin"))
  BY StepFields DEF Places, Roles
<1>3. \A r : Authenticated(t, r) => \E s : Become(t, s) /\ Good(s)
  BY <1>1, <1>2 DEF Authenticated
<1>4. CASE LoginRefused(t) \/ LoginMint(t) \/ OtherRoute(t) \/ RoleWriteFails(t) \/ RoleApplied(t)
  BY <1>1, <1>4 DEF LoginRefused, LoginMint, OtherRoute, RoleWriteFails, RoleApplied, End
<1>5. CASE UserIdentified(t) \/ (\E u \in Users : UserCached(t, u))
           \/ (\E k \in tokens : TokenAccepted(t, k))
  BY <1>3, <1>5 DEF UserIdentified, UserCached, TokenAccepted
<1>6. CASE UserRead(t)
  <2>1. PICK r \in Lookup(task[t].user) :
          IF r = "none" THEN Authenticated(t, "none")
                        ELSE Become(t, Step("found", task[t].user, r))
    BY <1>6 DEF UserRead
  <2>2. task[t].user \in Users
    BY <1>6 DEF UserRead, At, TypeOK
  <2>3. r # "none" => Good(Step("found", task[t].user, r))
    BY <2>1, <2>2, StepFields DEF Lookup, TypeOK, Places
  <2> QED BY <1>3, <2>1, <2>3
<1>7. ASSUME NEW u \in Users, LoginRead(t, u) PROVE \E s : Become(t, s) /\ Good(s)
  <2>1. PICK r \in Lookup(u) \ {"none"} : Become(t, Step("verify", u, r))
    BY <1>7 DEF LoginRead
  <2>2. Good(Step("verify", u, r))
    BY <2>1, StepFields DEF Lookup, TypeOK, Places
  <2> QED BY <2>1, <2>2
<1>8. ASSUME NEW u \in Users, UserUncached(t, u) PROVE \E s : Become(t, s) /\ Good(s)
  <2>1. Good(Step("lookup", u, "none"))
    BY StepFields DEF Places
  <2> QED BY <1>8, <2>1 DEF UserUncached
<1>9. ASSUME NEW u \in Users, NEW new \in Roles, TargetRead(t, u, new)
      PROVE  \E s : Become(t, s) /\ Good(s)
  <2>1. PICK r \in Lookup(u) :
          IF r = "none" THEN End(t)
          ELSE Become(t, Step(IF r = "admin" /\ new # "admin" THEN "guard" ELSE "update", u, new))
    BY <1>9 DEF TargetRead
  <2>2. r # "none" => r = role[u]
    BY <2>1 DEF Lookup
  <2>3. r # "none" =>
          Good(Step(IF r = "admin" /\ new # "admin" THEN "guard" ELSE "update", u, new))
    BY <2>2, StepFields DEF Places
  <2> QED BY <1>1, <2>1, <2>3 DEF End
<1>10. CASE AdminsListed(t)
  <2>1. task[t] \in [at : Places, user : Users \cup {None}, role : Roles \cup {"none"},
                     stale : BOOLEAN]
        /\ task[t].user \in Users /\ task[t].role \in Roles
    BY <1>10 DEF AdminsListed, At, TypeOK
  <2>2. ASSUME \E u \in Users \ {task[t].user} : role[u] = "admin"
        PROVE  Good([task[t] EXCEPT !.at = "update"])
    BY <2>1, <2>2 DEF Places
  <2> QED BY <1>1, <1>10, <2>2 DEF AdminsListed, End
<1> QED BY <1>4, <1>5, <1>6, <1>7, <1>8, <1>9, <1>10 DEF Reader

\* No step leaves the type invariant.
LEMMA TypeStep == TypeOK /\ [Next]_vars => TypeOK'
<1> SUFFICES ASSUME TypeOK, [Next]_vars PROVE TypeOK'
  OBVIOUS
<1> DEFINE TaskType ==
      /\ task' \in [Tasks -> [at : Places, user : Users \cup {None},
                              role : Roles \cup {"none"}, stale : BOOLEAN]]
      /\ \A d \in Tasks : task'[d].at \notin {"idle", "admin"} => task'[d].user \in Users
      /\ \A d \in Tasks : task'[d].at \in {"verify", "found", "guard", "update"} =>
           task'[d].role \in Roles
<1>r. ASSUME NEW t \in Tasks, Reader(t)
      PROVE  TaskType
  <2>1. PICK s : /\ Become(t, s)
                 /\ s \in [at : Places, user : Users \cup {None}, role : Roles \cup {"none"},
                           stale : BOOLEAN]
                 /\ s.at \in {"idle", "admin"}
                    \/ (s.user \in Users /\ (s.at = "lookup" \/ s.role \in Roles))
    BY <1>r, ReaderRecord
  <2> QED BY <2>1, BecomeType
<1>o. ASSUME NEW u \in Users, task' = Outdated(u) PROVE TaskType
  <2>1. \A d \in Tasks : /\ task'[d].at = task[d].at /\ task'[d].user = task[d].user
                         /\ task'[d].role = task[d].role
                         /\ task'[d] \in [at : Places, user : Users \cup {None},
                                          role : Roles \cup {"none"}, stale : BOOLEAN]
    BY <1>o, OutdatedFields
  <2> QED BY <1>o, <2>1 DEF TypeOK, Outdated
<1> HIDE DEF TaskType
<1>t. TaskType /\ UNCHANGED <<role, userCache, revokedBefore, tokens, clock>> => TypeOK'
  BY DEF TaskType, TypeOK
<1> USE DEF memoryVars
<1>1. ASSUME NEW t \in Tasks,
             \/ LoginRefused(t) \/ UserRead(t) \/ OtherRoute(t) \/ AdminsListed(t)
             \/ RoleWriteFails(t)
             \/ \E u \in Users :
                  \/ LoginRead(t, u) \/ UserCached(t, u) \/ UserUncached(t, u)
                  \/ \E new \in Roles : TargetRead(t, u, new)
             \/ \E k \in tokens : TokenAccepted(t, k)
      PROVE  TypeOK'
  <2>1. UNCHANGED <<role, userCache, revokedBefore, tokens, clock>>
    BY <1>1 DEF LoginRefused, UserRead, OtherRoute, AdminsListed, RoleWriteFails, LoginRead,
                UserCached, UserUncached, TargetRead, TokenAccepted
  <2> QED BY <1>1, <1>r, <1>t, <2>1 DEF Reader
<1>2. ASSUME NEW t \in Tasks, LoginMint(t) PROVE TypeOK'
  <2> DEFINE k == [user |-> task[t].user, role |-> task[t].role, iat |-> Second(clock),
                   excused |-> task[t].stale]
  <2>1. task[t].user \in Users /\ task[t].role \in Roles /\ task[t].stale \in BOOLEAN
    BY <1>2 DEF LoginMint, At, TypeOK
  <2>2. k \in [user : Users, role : Roles, iat : Nat, excused : BOOLEAN]
    BY <2>1, SecondPast DEF TypeOK
  <2>3. tokens' = tokens \cup {k}
    BY <1>2 DEF LoginMint
  <2> QED BY <1>2, <1>r, <2>2, <2>3 DEF Reader, LoginMint, TypeOK, TaskType
<1>3. ASSUME NEW t \in Tasks, UserIdentified(t) PROVE TypeOK'
  <2>1. task[t].user \in Users /\ task[t].role \in Roles /\ task[t].stale \in BOOLEAN
    BY <1>3 DEF UserIdentified, At, TypeOK
  <2>2. userCache' \in [Users -> [role : Roles \cup {"none"}, stale : BOOLEAN]]
    BY <1>3, <2>1 DEF UserIdentified, TypeOK
  <2> QED BY <1>3, <1>r, <2>2 DEF Reader, UserIdentified, TypeOK, TaskType
<1>4. ASSUME NEW t \in Tasks, RoleApplied(t) PROVE TypeOK'
  <2>1. /\ userCache' \in [Users -> [role : Roles \cup {"none"}, stale : BOOLEAN]]
        /\ revokedBefore' \in [Users -> Nat]
    BY <1>4 DEF RoleApplied, TypeOK, NoEntry
  <2> QED BY <1>4, <1>r, <2>1 DEF Reader, RoleApplied, TypeOK, TaskType
<1>5. ASSUME NEW t \in Tasks, NEW u \in Users, Register(t, u) PROVE TypeOK'
  BY <1>5 DEF Register, TypeOK, Roles
<1>6. ASSUME NEW t \in Tasks, RoleWritten(t) PROVE TypeOK'
  <2> DEFINE u == task[t].user
  <2>1. u \in Users /\ task[t].role \in Roles
    BY <1>6 DEF RoleWritten, At, TypeOK
  <2>2. /\ role' = [role EXCEPT ![u] = task[t].role]
        /\ task' = [Outdated(u) EXCEPT ![t] = Step("apply", u, "none")]
        /\ UNCHANGED <<userCache, revokedBefore, tokens, clock>>
    BY <1>6 DEF RoleWritten
  <2>3. \A d \in Tasks : task'[d] = IF d = t THEN Step("apply", u, "none") ELSE Outdated(u)[d]
    BY <2>2 DEF Outdated
  <2>4. Step("apply", u, "none") = [at |-> "apply", user |-> u, role |-> "none", stale |-> FALSE]
    BY StepFields
  <2>5. \A d \in Tasks :
          /\ Outdated(u)[d].at = task[d].at /\ Outdated(u)[d].user = task[d].user
          /\ Outdated(u)[d].role = task[d].role
          /\ Outdated(u)[d] \in [at : Places, user : Users \cup {None},
                                 role : Roles \cup {"none"}, stale : BOOLEAN]
    BY OutdatedFields
  <2>6. task' = [d \in Tasks |-> task'[d]]
    BY <2>2 DEF Outdated
  <2> HIDE DEF u
  <2>7. TaskType
    <3>1. ASSUME NEW d \in Tasks
          PROVE  /\ task'[d] \in [at : Places, user : Users \cup {None},
                                  role : Roles \cup {"none"}, stale : BOOLEAN]
                 /\ task'[d].at \notin {"idle", "admin"} => task'[d].user \in Users
                 /\ task'[d].at \in {"verify", "found", "guard", "update"} =>
                      task'[d].role \in Roles
      <4>1. CASE d = t
        <5>1. task'[d] = [at |-> "apply", user |-> u, role |-> "none", stale |-> FALSE]
          BY <2>3, <2>4, <4>1
        <5> QED BY <2>1, <5>1 DEF Places
      <4>2. CASE d # t
        <5>1. /\ task'[d].at = task[d].at /\ task'[d].user = task[d].user
              /\ task'[d].role = task[d].role
              /\ task'[d] \in [at : Places, user : Users \cup {None},
                              role : Roles \cup {"none"}, stale : BOOLEAN]
          BY <2>3, <2>5, <4>2
        <5> QED BY <5>1 DEF TypeOK
      <4> QED BY <4>1, <4>2
    <3> QED BY <2>6, <3>1 DEF TaskType
  <2> QED BY <2>1, <2>2, <2>7 DEF TaskType, TypeOK
<1>7. ASSUME NEW k \in tokens, TokenLost(k) PROVE TypeOK'
  BY <1>7 DEF TokenLost, TypeOK
<1>8. ASSUME NEW u \in Users, Bootstrap(u) PROVE TypeOK'
  <2>1. TaskType
    BY <1>8, <1>o DEF Bootstrap
  <2> QED BY <1>8, <2>1 DEF Bootstrap, TypeOK, TaskType, Roles
<1>9. ASSUME NEW u \in Users, CacheExpires(u) PROVE TypeOK'
  BY <1>9 DEF CacheExpires, TypeOK, NoEntry
<1>10. CASE Restart
  <2>1. \A k \in tokens :
          [k EXCEPT !.excused = @ \/ revokedBefore[k.user] # 0 \/ ChangePending(k.user)]
            \in [user : Users, role : Roles, iat : Nat, excused : BOOLEAN]
    BY DEF TypeOK, ChangePending, At
  <2>2. tokens' \subseteq [user : Users, role : Roles, iat : Nat, excused : BOOLEAN]
    BY <1>10, <2>1 DEF Restart
  <2> QED BY <1>10, <2>2 DEF Restart, TypeOK, Idle, NoEntry, Places
<1>11. CASE Tick
  BY <1>11 DEF Tick, TypeOK
<1>12. CASE UNCHANGED vars
  BY <1>12 DEF vars, TypeOK
<1> QED
  BY <1>1, <1>2, <1>3, <1>4, <1>5, <1>6, <1>7, <1>8, <1>9, <1>10, <1>11, <1>12 DEF Next, Handle

----------------------------------------------------------------------------
(* Roles that have been taken away *)

\* It leaves what the requests have read as well marked as before, and only
\* invalidate_user_cache() and the revocation end a change that is on its way.
LEMMA ReaderTasks ==
  ASSUME AccountsInv, NEW t \in Tasks, Reader(t)
  PROVE  /\ role' = role
         /\ ReadsMarked' /\ DemotionsChecked'
         /\ \A u \in Users : ~(At(t, "apply") /\ task[t].user = u) =>
              (ChangePending(u)' <=> ChangePending(u))
<1>1. role' = role
  BY DEF Reader, LoginRefused, LoginMint, UserRead, UserIdentified, OtherRoute, AdminsListed,
         RoleWriteFails, RoleApplied, LoginRead, UserCached, UserUncached, TargetRead, TokenAccepted
<1>2. PICK s : /\ Become(t, s)
               /\ s.at \in {"verify", "found"} => s.role = role[s.user]
               /\ (s.at = "update" /\ ~s.stale /\ s.role # "admin" /\ role[s.user] = "admin") =>
                    \E u \in Users \ {s.user} : role[u] = "admin"
               /\ s.at # "apply"
  BY ReaderRecord DEF AccountsInv, Reader
<1>3. \A d \in Tasks : task'[d] = IF d = t THEN s ELSE task[d]
  BY <1>2 DEF Become, AccountsInv, TypeOK
<1>4. ReadsMarked'
  BY <1>1, <1>2, <1>3 DEF AccountsInv, ReadsMarked
<1>5. DemotionsChecked'
  BY <1>1, <1>2, <1>3 DEF AccountsInv, DemotionsChecked, At
<1>6. \A u \in Users : ~(At(t, "apply") /\ task[t].user = u) =>
        (ChangePending(u)' <=> ChangePending(u))
  BY <1>2, <1>3 DEF ChangePending, At
<1> QED BY <1>1, <1>4, <1>5, <1>6

\* The row of u is written: what was read of it is marked, and so are the role changes
\* that were ready to be written.
LEMMA RowWritten ==
  ASSUME AccountsInv, NEW u \in Users, NEW r \in Roles, role' = [role EXCEPT ![u] = r],
         \A d \in Tasks : task'[d] = Outdated(u)[d] \/ task'[d].at = "apply"
  PROVE  ReadsMarked' /\ DemotionsChecked'
<1>1. ASSUME NEW d \in Tasks, task'[d].at # "apply"
      PROVE  /\ task'[d].at = task[d].at /\ task'[d].user = task[d].user
             /\ task'[d].role = task[d].role
             /\ task'[d].stale =
                  (task[d].stale \/ (task[d].at \in {"verify", "found"} /\ task[d].user = u)
                                 \/ At(d, "update"))
  BY <1>1, OutdatedFields DEF AccountsInv
<1>2. ASSUME NEW d \in Tasks, task'[d].at \in {"verify", "found"},
             task'[d].role # role'[task'[d].user]
      PROVE  task'[d].stale
  <2>1. /\ task[d].at \in {"verify", "found"}
        /\ task'[d].role = task[d].role /\ task'[d].user = task[d].user
        /\ task'[d].stale = (task[d].stale \/ task[d].user = u \/ At(d, "update"))
    BY <1>1, <1>2
  <2>2. CASE task[d].user = u
    BY <2>1, <2>2
  <2>3. CASE task[d].user # u
    <3>1. role'[task[d].user] = role[task[d].user]
      BY <2>3
    <3>2. ReadsMarked
      BY DEF AccountsInv
    <3>3. task[d].stale
      BY ONLY <1>2, <2>1, <3>1, <3>2 DEF ReadsMarked
    <3> QED BY <2>1, <3>3
  <2> QED BY <2>2, <2>3
<1>3. ReadsMarked'
  BY <1>2 DEF ReadsMarked
<1>4. DemotionsChecked'
  BY <1>1 DEF DemotionsChecked, At
<1> QED BY <1>3, <1>4

\* What the middleware and the clients' tokens claim, when a handler changes neither
\* the cache nor the revocations.
LEMMA ClaimsKept ==
  ASSUME AccountsInv, UNCHANGED <<role, userCache, revokedBefore>>, tokens' \subseteq tokens,
         \A u \in Users : ChangePending(u) => ChangePending(u)'
  PROVE  CachedAdminExplained' /\ AdminTokenExplained'
<1>1. CachedAdminExplained'
  BY DEF AccountsInv, CachedAdminExplained
<1>2. AdminTokenExplained'
  BY DEF AccountsInv, AdminTokenExplained, Honored, TypeOK
<1> QED BY <1>1, <1>2

\* Everything but the types.
Explained ==
  /\ ReadsMarked /\ DemotionsChecked /\ IssuedBefore
  /\ CachedAdminExplained /\ AdminTokenExplained

\* login_user() and enforce_auth(): roles are read, minted and cached.
LEMMA ReadersExplained ==
  ASSUME AccountsInv, NEW t \in Tasks, Reader(t), ~RoleApplied(t)
  PROVE  Explained'
<1>1. /\ role' = role /\ ReadsMarked' /\ DemotionsChecked'
      /\ \A u \in Users : ChangePending(u)' <=> ChangePending(u)
  <2>1. ~At(t, "apply")
    BY DEF Reader, LoginRefused, LoginMint, UserRead, UserIdentified, OtherRoute, AdminsListed,
           RoleWriteFails, LoginRead, UserCached, UserUncached, TargetRead, TokenAccepted, At
  <2> QED BY <2>1, ReaderTasks
<1>2. ASSUME NEW s, s = task[t], At(t, "verify") \/ At(t, "found")
      PROVE  /\ s.user \in Users /\ s.role \in Roles
             /\ s.role # role[s.user] => s.stale
  BY <1>2 DEF AccountsInv, TypeOK, ReadsMarked, At
<1>3. CASE LoginMint(t)
  <2> DEFINE s == task[t]
             k == [user |-> s.user, role |-> s.role, iat |-> Second(clock), excused |-> s.stale]
  <2>1. /\ tokens' = tokens \cup {k} /\ UNCHANGED <<userCache, revokedBefore, clock>>
        /\ At(t, "verify")
    BY <1>3 DEF LoginMint, memoryVars
  <2>2. k.iat < clock
    BY SecondPast DEF AccountsInv, TypeOK
  <2>3. IssuedBefore'
    BY <2>1, <2>2 DEF AccountsInv, IssuedBefore
  <2>4. k.role = "admin" /\ role[k.user] # "admin" => k.excused
    BY <1>2, <2>1
  <2> HIDE DEF k
  <2>5. AdminTokenExplained'
    BY <1>1, <2>1, <2>4 DEF AccountsInv, AdminTokenExplained, Honored, TypeOK, ChangePending
  <2>6. CachedAdminExplained'
    BY <1>1, <2>1 DEF AccountsInv, CachedAdminExplained
  <2> QED BY <1>1, <2>3, <2>5, <2>6 DEF Explained
<1>4. CASE UserIdentified(t)
  <2> DEFINE s == task[t]
  <2>1. /\ userCache' = [userCache EXCEPT ![s.user] = [role |-> s.role, stale |-> s.stale]]
        /\ UNCHANGED <<revokedBefore, tokens, clock>>
        /\ At(t, "found")
    BY <1>4 DEF UserIdentified
  <2>2. IssuedBefore'
    BY <2>1 DEF AccountsInv, IssuedBefore
  <2>3. CachedAdminExplained'
    BY <1>1, <1>2, <2>1 DEF AccountsInv, CachedAdminExplained, TypeOK
  <2>4. AdminTokenExplained'
    BY <1>1, <2>1 DEF AccountsInv, AdminTokenExplained, Honored, TypeOK
  <2> QED BY <1>1, <2>2, <2>3, <2>4 DEF Explained
<1>5. CASE ~LoginMint(t) /\ ~UserIdentified(t)
  <2>1. UNCHANGED <<userCache, revokedBefore, tokens, clock>>
    BY <1>5 DEF Reader, LoginRefused, UserRead, OtherRoute, AdminsListed, RoleWriteFails,
                LoginRead, UserCached, UserUncached, TargetRead, TokenAccepted, memoryVars
  <2>2. IssuedBefore'
    BY <2>1 DEF AccountsInv, IssuedBefore
  <2> QED BY <1>1, <2>1, <2>2, ClaimsKept DEF Explained
<1> QED BY <1>3, <1>4, <1>5

\* invalidate_user_cache() and revoke_tokens_issued_before(): no entry and no token of
\* the user is left to be believed.
LEMMA AppliedExplained ==
  ASSUME AccountsInv, NEW t \in Tasks, RoleApplied(t)
  PROVE  Explained'
<1> DEFINE u == task[t].user
<1>1. /\ role' = role /\ ReadsMarked' /\ DemotionsChecked'
      /\ \A v \in Users : v # u => (ChangePending(v)' <=> ChangePending(v))
  BY ReaderTasks DEF Reader
<1>2. /\ userCache' = [userCache EXCEPT ![u] = NoEntry]
      /\ revokedBefore' = [revokedBefore EXCEPT ![u] = clock]
      /\ UNCHANGED <<tokens, clock>> /\ u \in Users
  BY DEF RoleApplied, At, AccountsInv, TypeOK
<1> HIDE DEF u
<1>3. IssuedBefore'
  BY <1>2 DEF AccountsInv, IssuedBefore
<1>4. CachedAdminExplained'
  BY <1>1, <1>2 DEF AccountsInv, CachedAdminExplained, TypeOK, NoEntry
<1>5. AdminTokenExplained'
  <2> SUFFICES ASSUME NEW k \in tokens, Honored(k)', k.role = "admin", role[k.user] # "admin"
               PROVE  k.excused \/ ChangePending(k.user)'
    BY <1>1, <1>2 DEF AdminTokenExplained
  <2>1. k.user \in Users /\ k.iat < clock /\ clock # 0
    BY DEF AccountsInv, TypeOK, IssuedBefore
  <2>2. k.user # u
    BY <1>2, <2>1 DEF Honored, AccountsInv, TypeOK
  <2>3. Honored(k)
    BY <1>2, <2>1, <2>2 DEF Honored, AccountsInv, TypeOK
  <2> QED BY <1>1, <2>1, <2>2, <2>3 DEF AccountsInv, AdminTokenExplained
<1> QED BY <1>1, <1>3, <1>4, <1>5 DEF Explained

\* The users table changes: an admin who is demoted is explained by the change that is
\* on its way to the middleware's memory.
LEMMA WritesExplained ==
  ASSUME AccountsInv,
         (\E t \in Tasks : RoleWritten(t)) \/ (\E u \in Users : Bootstrap(u))
  PROVE  Explained'
<1>t. TypeOK
  BY DEF AccountsInv
<1>1. ASSUME NEW t \in Tasks, NEW u, u = task[t].user, RoleWritten(t) PROVE Explained'
  <2>1. u \in Users /\ task[t].role \in Roles /\ At(t, "update")
    BY <1>t, <1>1 DEF RoleWritten, At, TypeOK
  <2>2. /\ role' = [role EXCEPT ![u] = task[t].role]
        /\ \A d \in Tasks : task'[d] = IF d = t THEN Step("apply", u, "none") ELSE Outdated(u)[d]
        /\ UNCHANGED <<userCache, revokedBefore, tokens, clock>>
    BY <1>1 DEF RoleWritten, Outdated, memoryVars
  <2>3. task'[t].at = "apply" /\ task'[t].user = u
    BY <2>2, StepFields
  <2>4. ReadsMarked' /\ DemotionsChecked'
    BY <2>1, <2>2, <2>3, RowWritten
  <2>5. IssuedBefore'
    BY <2>2 DEF AccountsInv, IssuedBefore
  <2>6. ChangePending(u)' /\ \A v \in Users : ChangePending(v) => ChangePending(v)'
    <3>1. \A d \in Tasks : d # t => task'[d].at = task[d].at /\ task'[d].user = task[d].user
      BY <1>t, <2>2, OutdatedFields
    <3> QED BY <2>1, <2>3, <3>1 DEF ChangePending, At
  <2>7. CachedAdminExplained'
    BY <1>t, <2>1, <2>2, <2>6 DEF AccountsInv, CachedAdminExplained, TypeOK
  <2>8. AdminTokenExplained'
    BY <1>t, <2>1, <2>2, <2>6 DEF AccountsInv, AdminTokenExplained, Honored, TypeOK
  <2> QED BY <2>4, <2>5, <2>7, <2>8 DEF Explained
<1>2. ASSUME NEW u \in Users, Bootstrap(u) PROVE Explained'
  <2>1. /\ role' = [role EXCEPT ![u] = "admin"] /\ task' = Outdated(u)
        /\ UNCHANGED <<userCache, revokedBefore, tokens, clock>>
    BY <1>2 DEF Bootstrap, memoryVars
  <2>2. ReadsMarked' /\ DemotionsChecked'
    BY <2>1, RowWritten DEF Roles
  <2>3. IssuedBefore'
    BY <2>1 DEF AccountsInv, IssuedBefore
  <2>4. \A v \in Users : ChangePending(v) => ChangePending(v)'
    <3>1. \A d \in Tasks : task'[d].at = task[d].at /\ task'[d].user = task[d].user
      BY <1>t, <2>1, OutdatedFields
    <3> QED BY <3>1 DEF ChangePending, At
  <2>5. CachedAdminExplained'
    BY <1>t, <2>1, <2>4 DEF AccountsInv, CachedAdminExplained, TypeOK
  <2>6. AdminTokenExplained'
    BY <1>t, <2>1, <2>4 DEF AccountsInv, AdminTokenExplained, Honored, TypeOK
  <2> QED BY <2>2, <2>3, <2>5, <2>6 DEF Explained
<1> QED BY <1>1, <1>2

\* Registrations, lost tokens, expired entries, restarts and the clock.
LEMMA OthersExplained ==
  ASSUME AccountsInv,
         \/ \E t \in Tasks, u \in Users : Register(t, u)
         \/ \E k \in tokens : TokenLost(k)
         \/ \E u \in Users : CacheExpires(u)
         \/ Restart \/ Tick \/ UNCHANGED vars
  PROVE  Explained'
<1>t. TypeOK
  BY DEF AccountsInv
<1> USE DEF memoryVars
<1>1. ASSUME NEW t \in Tasks, NEW u \in Users, Register(t, u) PROVE Explained'
  <2>1. /\ role[u] = "none" /\ role' = [role EXCEPT ![u] = "user"]
        /\ UNCHANGED <<userCache, revokedBefore, tokens, clock, task>>
    BY <1>1 DEF Register
  <2>2. \A v \in Users : role'[v] = IF v = u THEN "user" ELSE role[v]
    BY <1>t, <2>1 DEF TypeOK
  <2>3. ReadsMarked'
    BY <1>t, <2>1, <2>2 DEF AccountsInv, ReadsMarked, TypeOK, Roles
  <2>4. DemotionsChecked'
    BY <1>t, <2>1, <2>2 DEF AccountsInv, DemotionsChecked, At, TypeOK
  <2>5. IssuedBefore'
    BY <2>1 DEF AccountsInv, IssuedBefore
  <2>6. \A v \in Users : ChangePending(v)' <=> ChangePending(v)
    BY <2>1 DEF ChangePending, At
  <2>7. CachedAdminExplained'
    BY <2>1, <2>2, <2>6 DEF AccountsInv, CachedAdminExplained
  <2>8. AdminTokenExplained'
    BY <1>t, <2>1, <2>2, <2>6 DEF AccountsInv, AdminTokenExplained, Honored, TypeOK
  <2> QED BY <2>3, <2>4, <2>5, <2>7, <2>8 DEF Explained
<1>2. ASSUME \/ \E k \in tokens : TokenLost(k)
             \/ Tick \/ UNCHANGED vars
      PROVE  Explained'
  <2>1. /\ UNCHANGED <<role, userCache, revokedBefore, task>> /\ tokens' \subseteq tokens
        /\ clock <= clock' /\ clock' \in Nat
    BY <1>t, <1>2 DEF TokenLost, Tick, vars, TypeOK
  <2>2. ReadsMarked' /\ DemotionsChecked'
    BY <2>1 DEF AccountsInv, ReadsMarked, DemotionsChecked, At
  <2>3. IssuedBefore'
    BY <1>t, <2>1 DEF AccountsInv, IssuedBefore, TypeOK
  <2>4. \A v \in Users : ChangePending(v)' <=> ChangePending(v)
    BY <2>1 DEF ChangePending, At
  <2> QED BY <2>1, <2>2, <2>3, <2>4, ClaimsKept DEF Explained
<1>3. ASSUME NEW u \in Users, CacheExpires(u) PROVE Explained'
  <2>1. /\ userCache' = [userCache EXCEPT ![u] = NoEntry]
        /\ UNCHANGED <<role, revokedBefore, tokens, task, clock>>
    BY <1>3 DEF CacheExpires
  <2>2. ReadsMarked' /\ DemotionsChecked' /\ IssuedBefore'
    BY <2>1 DEF AccountsInv, ReadsMarked, DemotionsChecked, IssuedBefore, At
  <2>3. \A v \in Users : ChangePending(v)' <=> ChangePending(v)
    BY <2>1 DEF ChangePending, At
  <2>4. CachedAdminExplained'
    BY <1>t, <2>1, <2>3 DEF AccountsInv, CachedAdminExplained, TypeOK, NoEntry
  <2>5. AdminTokenExplained'
    BY <1>t, <2>1, <2>3 DEF AccountsInv, AdminTokenExplained, Honored, TypeOK
  <2> QED BY <2>2, <2>4, <2>5 DEF Explained
<1>4. CASE Restart
  <2> DEFINE mark(k) ==
        [k EXCEPT !.excused = @ \/ revokedBefore[k.user] # 0 \/ ChangePending(k.user)]
  <2>1. /\ userCache' = [u \in Users |-> NoEntry]
        /\ task' = [t \in Tasks |-> Idle]
        /\ tokens' = {mark(k) : k \in tokens}
        /\ UNCHANGED <<role, clock>>
    BY <1>4 DEF Restart
  <2>2. \A k \in tokens : /\ mark(k).user = k.user /\ mark(k).role = k.role
                          /\ mark(k).iat = k.iat
                          /\ mark(k).excused <=>
                               (k.excused \/ revokedBefore[k.user] # 0 \/ ChangePending(k.user))
    BY <1>t DEF TypeOK, ChangePending, At
  <2> HIDE DEF mark
  <2>3. ReadsMarked' /\ DemotionsChecked'
    BY <2>1 DEF ReadsMarked, DemotionsChecked, At, Idle
  <2>4. IssuedBefore'
    BY <2>1, <2>2 DEF AccountsInv, IssuedBefore
  <2>5. CachedAdminExplained'
    BY <2>1 DEF CachedAdminExplained, NoEntry
  <2>6. AdminTokenExplained'
    <3>1. ASSUME NEW k \in tokens, k.role = "admin", role[k.user] # "admin"
          PROVE  mark(k).excused
      <4>1. CASE Honored(k)
        BY <2>2, <3>1, <4>1 DEF AccountsInv, AdminTokenExplained
      <4>2. CASE ~Honored(k)
        BY <2>2, <4>2 DEF Honored
      <4> QED BY <4>1, <4>2
    <3>2. \A k \in tokens' : k.role = "admin" /\ role'[k.user] # "admin" => k.excused
      BY <2>1, <2>2, <3>1
    <3> QED BY <3>2 DEF AdminTokenExplained
  <2> QED BY <2>3, <2>4, <2>5, <2>6 DEF Explained
<1> QED BY <1>1, <1>2, <1>3, <1>4

----------------------------------------------------------------------------
(* The theorems *)

\* The invariant of the accounts holds in every state.
THEOREM AccountsInvariant == Spec => []AccountsInv
<1>1. AccountsInv /\ [Next]_vars => AccountsInv'
  <2> SUFFICES ASSUME AccountsInv, [Next]_vars PROVE AccountsInv'
    OBVIOUS
  <2>1. TypeOK'
    BY TypeStep DEF AccountsInv
  <2>2. Explained'
    <3>1. \/ \E t \in Tasks : Reader(t) \/ RoleWritten(t)
          \/ \E u \in Users : Bootstrap(u)
          \/ \E t \in Tasks, u \in Users : Register(t, u)
          \/ \E k \in tokens : TokenLost(k)
          \/ \E u \in Users : CacheExpires(u)
          \/ Restart \/ Tick \/ UNCHANGED vars
      BY DEF Next, Handle, Reader
    <3> QED BY <3>1, ReadersExplained, AppliedExplained, WritesExplained, OthersExplained
  <2> QED BY <2>1, <2>2 DEF AccountsInv, Explained
<1> QED BY InitInv, <1>1, PTL DEF Spec

\* The middleware believes in an admin who is none only until update_user_role() has
\* evicted the entry, or when the entry's lookup was in flight as the row changed.
THEOREM CachedAdmins == Spec => []CachedAdminExplained
<1>1. AccountsInv => CachedAdminExplained
  BY DEF AccountsInv
<1> QED BY AccountsInvariant, <1>1, PTL

\* A demoted admin's token is honored only until update_user_role() has revoked it, when
\* its login was in flight as the row changed, or after a restart.
THEOREM AdminTokens == Spec => []AdminTokenExplained
<1>1. AccountsInv => AdminTokenExplained
  BY DEF AccountsInv
<1> QED BY AccountsInvariant, <1>1, PTL

\* The guard of update_user_role() lets the last admin go only when the users changed
\* between its reading of them and its write.
THEOREM LastAdminGuarded == Spec => LastAdminKept
<1> DEFINE Kept == AnAdmin => AnAdmin' \/ \E t \in Tasks : At(t, "update") /\ task[t].stale /\ At(t, "apply")'
<1>1. AccountsInv /\ [Next]_vars => [Kept]_vars
  <2> SUFFICES ASSUME AccountsInv, Next, AnAdmin, ~AnAdmin'
               PROVE  \E t \in Tasks : At(t, "update") /\ task[t].stale /\ At(t, "apply")'
    OBVIOUS
  <2>1. PICK a \in Users : role[a] = "admin"
    BY DEF AnAdmin
  <2>2. PICK t \in Tasks : RoleWritten(t)
    <3>1. ASSUME NEW u \in Users, Bootstrap(u) PROVE FALSE
      BY <3>1 DEF Bootstrap, AnAdmin, AccountsInv, TypeOK
    <3>2. ASSUME NEW d \in Tasks, NEW u \in Users, Register(d, u) PROVE FALSE
      BY <2>1, <3>2 DEF Register, AnAdmin, AccountsInv, TypeOK
    <3>3. role' # role
      BY <2>1 DEF AnAdmin
    <3>4. ASSUME NEW d \in Tasks, Reader(d) PROVE FALSE
      BY <3>3, <3>4, ReaderTasks
    <3>5. ~(\E k \in tokens : TokenLost(k)) /\ ~(\E u \in Users : CacheExpires(u))
          /\ ~Restart /\ ~Tick
      BY <3>3 DEF TokenLost, CacheExpires, Restart, Tick
    <3> QED BY <3>1, <3>2, <3>4, <3>5 DEF Next, Handle, Reader
  <2>3. /\ At(t, "update") /\ task[t].user \in Users
        /\ role' = [role EXCEPT ![task[t].user] = task[t].role]
    BY <2>2 DEF RoleWritten, At, AccountsInv, TypeOK
  <2>4. At(t, "apply")'
    BY <2>2, StepFields DEF RoleWritten, Outdated, At
  <2>5. task[t].stale
    <3>1. SUFFICES ASSUME ~task[t].stale PROVE FALSE
      OBVIOUS
    <3>2. \A u \in Users : role'[u] = IF u = task[t].user THEN task[t].role ELSE role[u]
      BY <2>3 DEF AccountsInv, TypeOK
    <3>3. task[t].role # "admin" /\ \A u \in Users \ {task[t].user} : role[u] # "admin"
      BY <2>3, <3>2 DEF AnAdmin
    <3>4. role[task[t].user] = "admin"
      BY <2>1, <3>3
    <3> QED BY <2>3, <3>1, <3>3, <3>4 DEF AccountsInv, DemotionsChecked
  <2> QED BY <2>3, <2>4, <2>5
<1> QED BY AccountsInvariant, <1>1, PTL DEF Spec, LastAdminKept

\* Revocation times of the middleware (core/auth/middleware.py) only grow: each is the
\* clock when its role change was applied, and only a restart forgets it.
THEOREM RevocationsLast == Spec => RefusedForGood
<1> DEFINE Lasts == \A k \in tokens : ~Honored(k) => ~Honored(k)' \/ Restart
<1>1. Init => RevokedSoFar
  BY DEF Init, RevokedSoFar
<1>2. AccountsInv /\ RevokedSoFar /\ [Next]_vars =>
        /\ RevokedSoFar'
        /\ \/ \A u \in Users : revokedBefore'[u] \in Nat /\ revokedBefore'[u] >= revokedBefore[u]
           \/ Restart
  <2> SUFFICES ASSUME AccountsInv, RevokedSoFar, [Next]_vars
               PROVE  /\ RevokedSoFar'
                      /\ \/ \A u \in Users : /\ revokedBefore'[u] \in Nat
                                               /\ revokedBefore'[u] >= revokedBefore[u]
                         \/ Restart
    OBVIOUS
  <2>1. revokedBefore \in [Users -> Nat] /\ clock \in Nat
    BY DEF AccountsInv, TypeOK
  <2>2. CASE UNCHANGED <<revokedBefore, clock>>
    BY <2>1, <2>2 DEF RevokedSoFar
  <2>3. ASSUME NEW t \in Tasks, RoleApplied(t)
        PROVE  /\ RevokedSoFar'
               /\ \A u \in Users : revokedBefore'[u] \in Nat /\ revokedBefore'[u] >= revokedBefore[u]
    BY <2>1, <2>3 DEF RoleApplied, RevokedSoFar
  <2>4. CASE Restart
    BY <2>1, <2>4 DEF Restart, RevokedSoFar
  <2>5. CASE Tick
    BY <2>1, <2>5 DEF Tick, RevokedSoFar, memoryVars
  <2>6. \/ UNCHANGED <<revokedBefore, clock>> \/ Restart \/ Tick
        \/ \E t \in Tasks : RoleApplied(t)
    BY DEF Next, Handle, vars, memoryVars, LoginRefused, LoginMint, UserRead, UserIdentified,
           OtherRoute, AdminsListed, RoleWritten, RoleWriteFails, LoginRead, Register,
           UserCached, UserUncached, TargetRead, TokenAccepted, TokenLost, Bootstrap,
           CacheExpires
  <2> QED BY <2>2, <2>3, <2>4, <2>5, <2>6
<1>3. AccountsInv /\ RevokedSoFar /\ [Next]_vars => [Lasts]_vars
  <2> SUFFICES ASSUME AccountsInv, RevokedSoFar, Next, ~Restart, NEW k \in tokens, ~Honored(k)
               PROVE  ~Honored(k)'
    OBVIOUS
  <2>1. k.user \in Users /\ k.iat \in Nat /\ revokedBefore \in [Users -> Nat]
    BY DEF AccountsInv, TypeOK
  <2>2. revokedBefore'[k.user] \in Nat /\ revokedBefore'[k.user] >= revokedBefore[k.user]
    BY <1>2, <2>1
  <2> QED BY <2>1, <2>2 DEF Honored
<1> QED BY AccountsInvariant, <1>1, <1>2, <1>3, PTL DEF Spec, RefusedForGood
=============================================================================
