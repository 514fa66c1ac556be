----------------------------- MODULE ServiceSchema -----------------------------
(***************************************************************************)
(* The service database's schema and its first administrator: the server's *)
(* startup (create_tables(), then initialize_admin_user()) and the         *)
(* bootstrap_admin.py script, two processes on one SQLite file.  Each      *)
(* statement is a transaction of its own, and each process may die or be   *)
(* refused between any two.                                                *)
(***************************************************************************)
EXTENDS Naturals, Sequences

CONSTANTS
  Names, Emails   \* of accounts; users.username and users.email are UNIQUE

Processes == {"server", "script"}

\* In the order of create_tables(): each table, then its indexes.
Tables == <<"api_keys", "users", "logs", "traces", "query_cache", "audit_log">>
Objects == {"table", "indexes"} \X {Tables[i] : i \in 1..6}
ObjectAt(i) == <<IF i % 2 = 1 THEN "table" ELSE "indexes", Tables[(i + 1) \div 2]>>

VARIABLES
  schema,         \* the objects that exist
  users,          \* the row of each username, or NoUser
  keys,           \* usernames for which the script stored an API key
  process,        \* what each process is doing
  next,           \* how many statements of create_tables() it has run
  initial,        \* INITIAL_ADMIN_*; usable when the password is there and long enough
  args            \* the script's arguments

schemaVars == <<schema, users, keys, process, next, initial, args>>

NoUser == [role |-> "none"]

AccountArgs == [name : Names, email : Emails]

\* off      not running, or exited in error    tables   creates the tables
\* look     SELECTs the username               insert   found it missing
\* promote  found it (script)                  key      issues the API key (script)
\* up       serving, or exited with success
SchemaInit ==
  /\ schema = {} /\ keys = {}
  /\ users = [n \in Names |-> NoUser]
  /\ process = [p \in Processes |-> "off"] /\ next = [p \in Processes |-> 0]
  /\ initial \in [account : AccountArgs, usable : BOOLEAN]
  /\ args \in [account : AccountArgs, promote : BOOLEAN, skipKey : BOOLEAN]

Now(p, what) == process' = [process EXCEPT ![p] = what]

Starts(p) ==
  /\ process[p] = "off"
  /\ Now(p, "tables") /\ next' = [next EXCEPT ![p] = 0]
  /\ UNCHANGED <<schema, users, keys, initial, args>>

\* Mutant of the next action: a database that has a table is taken for complete.
CreateNextUnlessAny(p) ==
  /\ process[p] = "tables" /\ next[p] < 12
  /\ IF schema # {} /\ next[p] = 0
       THEN next' = [next EXCEPT ![p] = 12] /\ UNCHANGED schema
       ELSE /\ next' = [next EXCEPT ![p] = @ + 1]
            /\ schema' = schema \cup {ObjectAt(next[p] + 1)}
  /\ UNCHANGED <<users, keys, process, initial, args>>

\* CREATE ... IF NOT EXISTS, each with its own commit.
CreateNext(p) ==
  /\ process[p] = "tables" /\ next[p] < 12
  /\ schema' = schema \cup {ObjectAt(next[p] + 1)}
  /\ next' = [next EXCEPT ![p] = @ + 1]
  /\ UNCHANGED <<users, keys, process, initial, args>>

\* A database error ends the startup or the script, as a crash does.
Dies(p) ==
  /\ process[p] # "off"
  /\ Now(p, "off")
  /\ UNCHANGED <<schema, users, keys, next, initial, args>>

TablesCreated(p) ==
  /\ process[p] = "tables" /\ next[p] = 12
  /\ Now(p, "look")
  /\ UNCHANGED <<schema, users, keys, next, initial, args>>

Exists(n) == users[n] # NoUser

Insertable(a) == ~Exists(a.name) /\ \A n \in Names : Exists(n) => users[n].email # a.email

InsertAs(a, role) == users' = [users EXCEPT ![a.name] = [role |-> role, email |-> a.email]]

----------------------------------------------------------------------------
(* The server: ServiceDatabaseStep.startup_sync() *)

\* Without a password, with a short one, or when the name is taken, whatever its role,
\* no account is created.
ServerLooks ==
  /\ process["server"] = "look"
  /\ Now("server", IF initial.usable /\ ~Exists(initial.account.name) THEN "insert" ELSE "up")
  /\ UNCHANGED <<schema, users, keys, next, initial, args>>

\* The INSERT raises when the script, or an account with that e-mail address, was
\* there first; the startup fails.
ServerInserts ==
  /\ process["server"] = "insert"
  /\ IF Insertable(initial.account)
       THEN InsertAs(initial.account, "admin") /\ Now("server", "up")
       ELSE Now("server", "off") /\ UNCHANGED users
  /\ UNCHANGED <<schema, keys, next, initial, args>>

\* POST /api/auth/register, open to everybody.
Registers(a) ==
  /\ process["server"] = "up"
  /\ Insertable(a) /\ InsertAs(a, "viewer")
  /\ UNCHANGED <<schema, keys, process, next, initial, args>>

----------------------------------------------------------------------------
(* The script: main() *)

ScriptLooks ==
  /\ process["script"] = "look"
  /\ Now("script", IF ~Exists(args.account.name) THEN "insert"
                   ELSE IF args.promote THEN "promote" ELSE "off")
  /\ UNCHANGED <<schema, users, keys, next, initial, args>>

Granted == Now("script", IF args.skipKey THEN "up" ELSE "key")

ScriptInserts ==
  /\ process["script"] = "insert"
  /\ IF Insertable(args.account)
       THEN InsertAs(args.account, "admin") /\ Granted
       ELSE Now("script", "off") /\ UNCHANGED users
  /\ UNCHANGED <<schema, keys, next, initial, args>>

ScriptPromotes ==
  /\ process["script"] = "promote"
  /\ users' = [users EXCEPT ![args.account.name].role = "admin"]
  /\ Granted
  /\ UNCHANGED <<schema, keys, next, initial, args>>

\* create_api_key() prints the key whether or not its INSERT succeeded.
ScriptIssuesKey ==
  /\ process["script"] = "key"
  /\ keys' \in {keys, keys \cup {args.account.name}}
  /\ Now("script", "up")
  /\ UNCHANGED <<schema, users, next, initial, args>>

SchemaNext ==
  \/ \E p \in Processes : Starts(p) \/ CreateNext(p) \/ TablesCreated(p) \/ Dies(p)
  \/ ServerLooks \/ ServerInserts
  \/ \E a \in AccountArgs : Registers(a)
  \/ ScriptLooks \/ ScriptInserts \/ ScriptPromotes \/ ScriptIssuesKey

----------------------------------------------------------------------------
\* Whatever died before and whatever the other process does meanwhile: a process that
\* is past create_tables() has every table and index; a server that is up with a usable
\* INITIAL_ADMIN_PASSWORD has that account; and a script that exits with success has
\* made its account an admin.  No API key is stored for an account that does not exist.
StartedOnFullSchema ==
  /\ \A p \in Processes : process[p] \notin {"off", "tables"} => schema = Objects
  /\ process["server"] = "up" /\ initial.usable => Exists(initial.account.name)
  /\ process["script"] \in {"key", "up"} => users[args.account.name].role = "admin"
  /\ \A n \in keys : Exists(n)

----------------------------------------------------------------------------
SchemaSpec == SchemaInit /\ [][SchemaNext]_schemaVars

SchemaTypeOK ==
  /\ schema \subseteq Objects /\ keys \subseteq Names
  /\ users \in [Names -> {NoUser} \cup [role : {"admin", "viewer"}, email : Emails]]
  /\ process \in [Processes -> {"off", "tables", "look", "insert", "promote", "key", "up"}]
  /\ next \in [Processes -> 0..12]
  /\ initial \in [account : AccountArgs, usable : BOOLEAN]
  /\ args \in [account : AccountArgs, promote : BOOLEAN, skipKey : BOOLEAN]

\* What a process has created exists, and so does the account the script found.
CreatedSoFar ==
  /\ \A p \in Processes : process[p] = "tables" => \A i \in 1..next[p] : ObjectAt(i) \in schema
  /\ process["script"] = "promote" => Exists(args.account.name)

SchemaInv == SchemaTypeOK /\ CreatedSoFar /\ StartedOnFullSchema
=============================================================================
