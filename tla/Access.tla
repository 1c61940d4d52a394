------------------------------- MODULE Access -------------------------------
(***************************************************************************)
(* Roles, memberships, grants, owners and policies (protocol/postgres      *)
(* roles.go, grants.go, privileges.go, rls.go, session_user.go): rows of   *)
(* internal tables.  A handler is the list of the queries and writes it    *)
(* makes, one after the other; outside a transaction other sessions run    *)
(* between them, and what was written before an error stays.               *)
(*                                                                         *)
(* A name that is no row of _overlite_roles is an unmanaged role, which    *)
(* nothing is checked for, as a superuser's.                               *)
(***************************************************************************)
EXTENDS Versions, Naturals, Sequences, FiniteSets, SequencesExt

CONSTANTS Name,       \* names of roles
          Table,      \* names of tables
          Privilege,  \* "SELECT", "INSERT", ...
          public,     \* the grantee PUBLIC
          none,       \* no name
          default,    \* the default role, a superuser
          Managed,    \* the roles there are
          authUser,   \* who the sessions authenticated as
          Given,      \* bound: the attributes roles are given
          Asks,       \* bound: the kinds of statements a session runs
          MaxAsked    \* bound: how many the sessions run

Attributes == [super : BOOLEAN, createrole : BOOLEAN, inherit : BOOLEAN]

ASSUME AccessAssumption ==
  /\ Name \cap Table = {} /\ {public, none} \cap (Name \cup Table) = {}
  /\ default \in Managed /\ Managed \subseteq Name
  /\ authUser \in [Session -> Name]
  /\ Given \subseteq Attributes
  /\ MaxAsked \in Nat

VARIABLES
  task,         \* what is left of a session's handler
  sessionUser,  \* session.sessionUser
  currentRole,  \* session.currentRole
  bypassCache,  \* session.bypassCache
  asked,        \* how many statements the sessions have run
  stale,        \* sessions whose cache may be out of date
  disturbed     \* names whose records two handlers wrote at once, or one gave up

vars == <<txVars, task, sessionUser, currentRole, bypassCache, asked, stale, disturbed>>

-----------------------------------------------------------------------------
(* What the tables tell of a role.                                         *)

DefaultAttributes == [super |-> FALSE, createrole |-> FALSE, inherit |-> TRUE]

roleExists(v, r) == r \in DOMAIN v.roles
roleBypasses(v, r) == roleExists(v, r) => v.roles[r].super
hasCreateRole(v, r) == roleExists(v, r) /\ v.roles[r].createrole

\* Those next to R along the edges of E, and all that can be reached.
Next1(E, R) == R \cup {e.of : e \in {m \in E : m.member \in R}}
Reached(E, r) ==
  LET upTo[n \in Nat] == IF n = 0 THEN {r} ELSE Next1(E, upTo[n - 1])
  IN upTo[Cardinality(Name)]

\* A role and those it inherits from; an edge counts if its member INHERITs.
effectiveRoles(v, r) ==
  Reached({m \in v.members : roleExists(v, m.member) /\ v.roles[m.member].inherit}, r)

isMemberOf(v, r, target) == target \in Reached(v.members, r)

hasAdminOption(v, r, target) ==
  \E m \in v.members : m.of = target /\ m.admin /\ m.member \in effectiveRoles(v, r)

ownsTable(v, r, t) == t \in DOMAIN v.owners /\ v.owners[t] \in effectiveRoles(v, r)

hasPrivilege(v, r, t, p) ==
  \/ ownsTable(v, r, t)
  \/ /\ p # "OWNER"
     /\ \E g \in v.grants : /\ g.table = t
                            /\ g.grantee \in effectiveRoles(v, r) \cup {public}
                            /\ g.priv \in {p, "ALL"}

-----------------------------------------------------------------------------
(* The queries and writes.                                                 *)

\* A call: what it does, and to which role, second role, and table.
Call(op, r, q, t, arg) == [op |-> op, role |-> r, to |-> q, table |-> t, arg |-> arg]
OfRole(op, r, arg) == Call(op, r, none, none, arg)
OfTable(op, t, arg) == Call(op, none, none, t, arg)
OfEdge(op, r, q, arg) == Call(op, r, q, none, arg)
OfGrant(op, r, t, arg) == Call(op, r, none, t, arg)

Names(c) == {c.role, c.to, c.table} \ {none, public}
About(s) == UNION {Names(c) : c \in Range(task[s])}

Queries == {"admin", "exists", "grantor", "owner", "privilege", "may set", "super"}
BestEffort == {"own", "disown", "forget grants", "creator"}

\* privBypass, from the cache if it has the answer.
privBypass(s) ==
  LET r == currentRole[s]
  IN IF r \in DOMAIN bypassCache[s] THEN bypassCache[s][r] ELSE roleBypasses(View(s), r)

\* The query or write answers with an error.
Refused(s, c) ==
  LET v == View(s)
      cur == currentRole[s]
  IN CASE c.op = "admin" ->
            ~(roleBypasses(v, cur) \/ hasCreateRole(v, cur) \/ (c.arg = "ALTER" /\ c.role = cur))
       [] c.op = "exists" -> ~roleExists(v, c.role)
       [] c.op = "grantor" -> ~(roleBypasses(v, cur) \/ hasAdminOption(v, cur, c.role))
       [] c.op = "owner" -> ~(roleBypasses(v, cur) \/ ownsTable(v, cur, c.table))
       [] c.op = "privilege" -> ~(privBypass(s) \/ hasPrivilege(v, cur, c.table, c.arg))
       [] c.op = "may set" ->
            ~(\/ c.role \in {sessionUser[s], authUser[s]}
              \/ roleBypasses(v, sessionUser[s])
              \/ isMemberOf(v, sessionUser[s], c.role))
       [] c.op = "super" -> ~roleBypasses(v, authUser[s])
       [] c.op = "insert role" -> roleExists(v, c.role)
       [] c.op = "rename" -> roleExists(v, c.role) /\ roleExists(v, c.to) /\ c.to # c.role
       [] c.op = "create table" -> c.table \in v.tables /\ c.arg # "IF NOT EXISTS"
       [] c.op = "drop table" -> c.table \notin v.tables
       [] OTHER -> FALSE

Edge(c) == [member |-> c.to, of |-> c.role, admin |-> c.arg]
NotEdge(v, c) == {m \in v.members : ~(m.member = c.to /\ m.of = c.role)}
Grant(c) == [grantee |-> c.role, table |-> c.table, priv |-> c.arg]

\* The version a write makes.
Written(s, c) ==
  LET v == View(s)
  IN CASE c.op = "insert role" -> [v EXCEPT !.roles = With(@, c.role, c.arg)]
       [] c.op = "update role" ->
            IF roleExists(v, c.role) THEN [v EXCEPT !.roles[c.role] = c.arg] ELSE v
       [] c.op = "rename" ->
            IF roleExists(v, c.role)
            THEN [v EXCEPT !.roles = With(Without(@, c.role), c.to, @[c.role])] ELSE v
       [] c.op = "delete role" -> [v EXCEPT !.roles = Without(@, c.role)]
       [] c.op = "delete edges" ->
            [v EXCEPT !.members = {m \in @ : c.role \notin {m.member, m.of}}]
       [] c.op = "creator" ->
            IF roleBypasses(v, c.to) THEN v ELSE [v EXCEPT !.members = @ \cup {Edge(c)}]
       [] c.op = "delete edge" -> [v EXCEPT !.members = NotEdge(v, c)]
       [] c.op = "insert edge" -> [v EXCEPT !.members = @ \cup {Edge(c)}]
       [] c.op = "no admin" ->
            [v EXCEPT !.members = NotEdge(v, c) \cup {[m EXCEPT !.admin = FALSE] : m \in @ \ NotEdge(v, c)}]
       [] c.op = "insert grant" -> [v EXCEPT !.grants = @ \cup {Grant(c)}]
       [] c.op = "delete grant" ->
            [v EXCEPT !.grants = {g \in @ : ~(/\ g.grantee = c.role /\ g.table = c.table
                                              /\ c.arg \in {g.priv, "ALL"})}]
       [] c.op = "create table" -> [v EXCEPT !.tables = @ \cup {c.table}]
       [] c.op = "drop table" -> [v EXCEPT !.tables = @ \ {c.table}]
       [] c.op = "own" -> [v EXCEPT !.owners = With(@, c.table, currentRole[s])]
       [] c.op = "disown" -> [v EXCEPT !.owners = Without(@, c.table)]
       [] c.op = "forget grants" -> [v EXCEPT !.grants = {g \in @ : g.table # c.table}]
       [] c.op = "flags" ->
            IF c.table \in DOMAIN v.rls THEN v
            ELSE [v EXCEPT !.rls = With(@, c.table, [enabled |-> FALSE, forced |-> FALSE])]
       [] c.op = "flag" ->
            IF c.table \in DOMAIN v.rls
            THEN [v EXCEPT !.rls[c.table] = [@ EXCEPT ![c.arg[1]] = c.arg[2]]] ELSE v
       [] c.op = "policy" -> [v EXCEPT !.policies = @ \cup {c.table}]
       [] c.op = "no policy" -> [v EXCEPT !.policies = @ \ {c.table}]
       [] OTHER -> v

-----------------------------------------------------------------------------
NoRecords == [roles |-> [r \in Managed |-> [DefaultAttributes EXCEPT !.super = (r = default)]],
              members |-> {}, grants |-> {}, policies |-> {}, tables |-> {},
              owners |-> [t \in {} |-> none],
              rls |-> [t \in {} |-> [enabled |-> FALSE, forced |-> FALSE]]]

Version == [roles : Keyed(Name, Attributes),
            members : SUBSET [member : Name, of : Name, admin : BOOLEAN],
            grants : SUBSET [grantee : Name \cup {public}, table : Table, priv : Privilege],
            policies : SUBSET Table, tables : SUBSET Table,
            owners : Keyed(Table, Name),
            rls : Keyed(Table, [enabled : BOOLEAN, forced : BOOLEAN])]

TypeOK ==
  /\ db \in Version /\ work \in Version
  /\ writer \in Session \cup {NoSession} /\ failed \in BOOLEAN
  /\ \A s \in Session : Len(task[s]) <= 5 /\ About(s) \subseteq Name \cup Table
  /\ sessionUser \in [Session -> Name] /\ currentRole \in [Session -> Name]
  /\ bypassCache \in [Session -> Keyed(Name, BOOLEAN)]
  /\ asked \in 0..MaxAsked
  /\ stale \subseteq Session /\ disturbed \subseteq Name \cup Table

NothingCached == [r \in {} |-> FALSE]

Init ==
  /\ VersionsInit(NoRecords)
  /\ task = [s \in Session |-> <<>>]
  /\ sessionUser = authUser /\ currentRole = authUser
  /\ bypassCache = [s \in Session |-> NothingCached]
  /\ asked = 0
  /\ stale = {} /\ disturbed = {}

sessionVars == <<sessionUser, currentRole, bypassCache>>

\* s is sent a statement whose handler makes these calls.
Starts(s, calls) ==
  /\ task[s] = <<>>
  /\ ~(writer = s /\ failed)
  /\ asked < MaxAsked
  /\ asked' = asked + 1
  /\ task' = [task EXCEPT ![s] = calls]
  /\ UNCHANGED <<txVars, sessionVars, stale, disturbed>>

-----------------------------------------------------------------------------
(* The handlers.                                                           *)

createRole(s, r, a) ==
  Starts(s, <<OfRole("admin", r, "CREATE"), OfRole("insert role", r, a),
              OfEdge("creator", r, currentRole[s], TRUE)>>)

alterRole(s, r, a) ==
  Starts(s, <<OfRole("admin", r, "ALTER"), OfRole("update role", r, a)>>)

\* RENAME leaves the edges, grants and owners under the old name.
renameRole(s, r, q) ==
  Starts(s, <<OfRole("admin", r, "ALTER"), OfEdge("rename", r, q, "")>>)

\* Mutant: the membership edges stay.
dropRoleOnly(s, r) ==
  Starts(s, <<OfRole("admin", r, "DROP"), OfRole("delete role", r, "")>>)

dropRole(s, r) ==
  Starts(s, <<OfRole("admin", r, "DROP"), OfRole("delete role", r, ""),
              OfRole("delete edges", r, "")>>)

\* GRANT r TO q, with ADMIN OPTION or without: the edge is replaced.
grantRole(s, r, q, admin) ==
  Starts(s, <<OfRole("grantor", r, ""), OfRole("exists", r, ""), OfRole("exists", q, ""),
              OfEdge("delete edge", r, q, ""), OfEdge("insert edge", r, q, admin)>>)

\* REVOKE r FROM q, and REVOKE ADMIN OPTION FOR r FROM q.
revokeRole(s, r, q, adminOnly) ==
  Starts(s, <<OfRole("grantor", r, ""),
              OfEdge(IF adminOnly THEN "no admin" ELSE "delete edge", r, q, "")>>)

\* GRANT and REVOKE on a table, which nobody looks up.
applyGrant(s, g, t, p, revoke) ==
  IF revoke THEN Starts(s, <<OfGrant("delete grant", g, t, p)>>)
  ELSE Starts(s, <<OfGrant("delete grant", g, t, p), OfGrant("insert grant", g, t, p)>>)

\* ALTER TABLE ... ENABLE, DISABLE, FORCE and NO FORCE ROW LEVEL SECURITY.
alterTableRLS(s, t, flag, value) ==
  Starts(s, <<OfTable("owner", t, ""), OfTable("flags", t, ""), OfTable("flag", t, <<flag, value>>)>>)

createPolicy(s, t) == Starts(s, <<OfTable("owner", t, ""), OfTable("policy", t, "")>>)
dropPolicy(s, t) == Starts(s, <<OfTable("no policy", t, "")>>)

\* SET ROLE and SET SESSION AUTHORIZATION: the last call changes the session.
setRole(s, r) ==
  Starts(s, <<OfRole("exists", r, ""), OfRole("may set", r, ""), OfRole("set role", r, "")>>)
setSessionAuthorization(s, r) ==
  Starts(s, <<OfRole("super", r, ""), OfRole("exists", r, ""), OfRole("authorize", r, "")>>)

\* RESET ROLE and RESET SESSION AUTHORIZATION.
reset(s, authorization) ==
  /\ task[s] = <<>> /\ ~(writer = s /\ failed)
  /\ sessionUser' = IF authorization THEN [sessionUser EXCEPT ![s] = authUser[s]] ELSE sessionUser
  /\ currentRole' = [currentRole EXCEPT ![s] = sessionUser'[s]]
  /\ UNCHANGED <<txVars, task, bypassCache, asked, stale, disturbed>>

\* recordOwnership comes after the statement; its errors are ignored.  With IF
\* NOT EXISTS it changes the owner of the table that is there.
createTable(s, t, ifNotExists) ==
  Starts(s, <<OfTable("create table", t, IF ifNotExists THEN "IF NOT EXISTS" ELSE ""),
              OfTable("own", t, "")>>)

\* The policies and the flags stay for the next table of that name.
dropTable(s, t) ==
  Starts(s, <<OfTable("privilege", t, "OWNER"), OfTable("drop table", t, ""),
              OfTable("disown", t, ""), OfTable("forget grants", t, "")>>)

\* A query or a change of the table's rows.
checkPrivileges(s, t, p) == Starts(s, <<OfTable("privilege", t, p)>>)

-----------------------------------------------------------------------------
(* The calls of a handler.                                                 *)

\* Other handlers that are about these names too.
Meets(s, N) == N \cap UNION {About(t) : t \in Session \ {s}}

\* The handler of s goes on with its next call, or has answered.
GoesOn(s) ==
  /\ task' = [task EXCEPT ![s] = Tail(@)]
  /\ UNCHANGED asked

\* Mutant: DROP ROLE keeps the cache.
ClearsNotOnDrop(s) == Head(task[s]).op \in {"creator", "update role", "rename"}

\* The last writes of the role DDL: clearPrivCache follows.
Clears(s) == Head(task[s]).op \in {"creator", "update role", "rename", "delete edges"}

\* A call that only reads, or changes the session.
Query(s) ==
  LET c == Head(task[s])
      r == currentRole[s]
  IN /\ task[s] # <<>>
     /\ c.op \in Queries \cup {"set role", "authorize"}
     /\ ~Refused(s, c)
     /\ bypassCache' = IF c.op = "privilege"
                       THEN [bypassCache EXCEPT ![s] = With(@, r, privBypass(s))] ELSE bypassCache
     /\ currentRole' = IF c.op \in {"set role", "authorize"}
                       THEN [currentRole EXCEPT ![s] = c.role] ELSE currentRole
     /\ sessionUser' = IF c.op = "authorize"
                       THEN [sessionUser EXCEPT ![s] = c.role] ELSE sessionUser
     /\ GoesOn(s)
     /\ UNCHANGED <<txVars, stale, disturbed>>

\* s, if this step empties its cache.
Emptied(s) == {x \in {s} : bypassCache'[s] = NothingCached}

\* A write.  What other sessions have cached may now be wrong, and the answers
\* of this one, until clearPrivCache.
Change(s) ==
  LET c == Head(task[s])
      told == Written(s, c).roles # View(s).roles
  IN /\ task[s] # <<>>
     /\ c.op \notin Queries \cup {"set role", "authorize"}
     /\ ~Refused(s, c)
     /\ Write(s, Written(s, c))
     /\ GoesOn(s)
     /\ bypassCache' = IF Clears(s) THEN [bypassCache EXCEPT ![s] = NothingCached] ELSE bypassCache
     /\ stale' = (IF told /\ writer # s THEN stale \cup (Session \ {s}) ELSE stale) \ Emptied(s)
     /\ disturbed' = disturbed \cup Meets(s, Names(c)) \cup (IF c.op = "rename" THEN {c.role} ELSE {})
     /\ UNCHANGED <<sessionUser, currentRole>>

\* A handler that fails, by an answer or at the write lock, gives up.  The
\* answer of a check that says no is cached as well.  A DROP ROLE that got half
\* way keeps the cache.
GiveUp(s) ==
  LET c == Head(task[s])
      r == currentRole[s]
  IN /\ task[s] # <<>>
     /\ Refused(s, c) \/ (c.op \notin Queries \cup BestEffort \cup {"set role", "authorize"} /\ ~MayWrite(s))
     /\ task' = [task EXCEPT ![s] = <<>>]
     /\ Failure(s)
     /\ bypassCache' = IF c.op = "privilege"
                       THEN [bypassCache EXCEPT ![s] = With(@, r, privBypass(s))] ELSE bypassCache
     /\ disturbed' = IF writer = s THEN disturbed ELSE disturbed \cup About(s)
     /\ stale' = IF c.op = "delete edges" THEN stale \cup {s} ELSE stale
     /\ UNCHANGED <<asked, sessionUser, currentRole>>

\* A write that need not succeed meets the lock.
Skip(s) ==
  LET c == Head(task[s])
  IN /\ task[s] # <<>>
     /\ c.op \in BestEffort
     /\ ~MayWrite(s)
     /\ GoesOn(s)
     /\ bypassCache' = IF Clears(s) THEN [bypassCache EXCEPT ![s] = NothingCached] ELSE bypassCache
     /\ stale' = stale \ Emptied(s)
     /\ disturbed' = disturbed \cup Names(c)
     /\ UNCHANGED <<txVars, sessionUser, currentRole>>

-----------------------------------------------------------------------------
(* Transactions.                                                           *)

Begin(s) ==
  /\ task[s] = <<>>
  /\ asked < MaxAsked
  /\ asked' = asked + 1
  /\ BeginTx(s)
  /\ UNCHANGED <<task, sessionVars, stale, disturbed>>

Changed ==
  {r \in Name : r \in (DOMAIN db.roles \ DOMAIN work.roles) \cup (DOMAIN work.roles \ DOMAIN db.roles)}
    \cup (db.tables \ work.tables) \cup (work.tables \ db.tables)

Commit(s) ==
  /\ task[s] = <<>>
  /\ CommitTx(s)
  /\ stale' = IF db.roles # work.roles THEN stale \cup (Session \ {s}) ELSE stale
  /\ disturbed' = disturbed \cup Meets(s, Changed)
  /\ UNCHANGED <<task, asked, sessionVars>>

\* The cache is not dropped with the changes it was filled from.
Rollback(s) ==
  /\ task[s] = <<>>
  /\ RollbackTx(s)
  /\ stale' = IF db.roles # work.roles THEN stale \cup {s} ELSE stale
  /\ UNCHANGED <<task, asked, sessionVars, disturbed>>

-----------------------------------------------------------------------------
RoleStatement(s) ==
  /\ "roles" \in Asks[s]
  /\ \E r \in Name :
       \/ \E a \in Given : createRole(s, r, a) \/ alterRole(s, r, a)
       \/ \E q \in Name \ {r} : renameRole(s, r, q)
       \/ dropRole(s, r)

MemberStatement(s) ==
  /\ "members" \in Asks[s]
  /\ \E r \in Name : \E q \in Name \ {r}, b \in BOOLEAN : grantRole(s, r, q, b) \/ revokeRole(s, r, q, b)

IdentityStatement(s) ==
  /\ "identity" \in Asks[s]
  /\ \/ \E r \in Name : setRole(s, r) \/ setSessionAuthorization(s, r)
     \/ \E authorization \in BOOLEAN : reset(s, authorization)

TableStatement(s) ==
  /\ "tables" \in Asks[s]
  /\ \E t \in Table :
       \/ \E b \in BOOLEAN : createTable(s, t, b)
       \/ dropTable(s, t)
       \/ \E p \in Privilege \ {"ALL"} : checkPrivileges(s, t, p)

RightsStatement(s) ==
  /\ "rights" \in Asks[s]
  /\ \E t \in Table :
       \/ createPolicy(s, t) \/ dropPolicy(s, t)
       \/ \E flag \in {"enabled", "forced"}, value \in BOOLEAN : alterTableRLS(s, t, flag, value)
       \/ \E g \in Name \cup {public}, p \in Privilege, revoke \in BOOLEAN : applyGrant(s, g, t, p, revoke)

Next ==
  \E s \in Session :
    \/ RoleStatement(s) \/ MemberStatement(s) \/ IdentityStatement(s)
    \/ TableStatement(s) \/ RightsStatement(s)
    \/ Query(s) \/ Change(s) \/ GiveUp(s) \/ Skip(s)
    \/ Begin(s) \/ Commit(s) \/ Rollback(s)

Spec == Init /\ [][Next]_vars

-----------------------------------------------------------------------------
(* What must hold.                                                         *)

\* A session that is between statements has cached what the tables say, unless
\* another session has changed the roles since, its own transaction that had was
\* rolled back, or its own statement failed half way (privileges.go:46-59).
CacheAgrees ==
  \A s \in Session \ stale : task[s] = <<>> =>
     \A r \in DOMAIN bypassCache[s] : bypassCache[s][r] = roleBypasses(View(s), r)

\* Between statements an edge joins two roles, and a table has an owner, and no
\* owner lacks the table -- but for names two handlers wrote at the same time,
\* names a handler gave up, and roles that were renamed (roles.go:184-204,
\* grants.go:272-291).
RecordsAgree ==
  (\A s \in Session : task[s] = <<>>) =>
     /\ \A m \in db.members : {m.member, m.of} \subseteq DOMAIN db.roles \cup disturbed
     /\ \A t \in Table \ disturbed : t \in db.tables <=> t \in DOMAIN db.owners
=============================================================================
