---------------------------- MODULE AccessProofs ----------------------------
(***************************************************************************)
(* Proofs about Access, for any sessions, roles, tables, privileges and    *)
(* statements: what a session has cached is what the tables say, and the   *)
(* tables agree with each other.                                           *)
(***************************************************************************)
EXTENDS Access, TLAPS

-----------------------------------------------------------------------------
(* Calls and handlers.                                                     *)

OfRoles == {"exists", "set role", "authorize", "insert role", "update role", "rename",
            "delete role", "delete edges", "creator", "delete edge", "insert edge", "no admin"}
OfPairs == {"rename", "creator", "insert edge"}
OfTables == {"create table", "drop table", "own", "disown", "forget grants",
             "flags", "flag", "policy", "no policy", "insert grant"}

Words == {"", "CREATE", "ALTER", "DROP", "OWNER", "IF NOT EXISTS"} \cup Privilege
Flags == {"enabled", "forced"} \X BOOLEAN
Ops == Queries \cup {"set role", "authorize"} \cup OfRoles \cup OfTables \cup {"delete grant"}
Calls == [op : Ops, role : Name \cup {public, none}, to : Name \cup {none},
          table : Table \cup {none}, arg : Attributes \cup BOOLEAN \cup Words \cup Flags]

\* What a call is given fits what it does.
Fits(c) ==
  /\ c.op \in OfRoles => c.role \in Name
  /\ c.op \in OfPairs => c.to \in Name
  /\ c.op \in OfTables => c.table \in Table
  /\ c.op \in {"insert role", "update role"} => c.arg \in Attributes
  /\ c.op \in {"creator", "insert edge"} => c.arg \in BOOLEAN
  /\ c.op = "insert grant" => c.role \in Name \cup {public} /\ c.arg \in Privilege
  /\ c.op = "flag" => c.arg \in Flags

\* The calls a handler ends with, and the writes of which the second half follows.
Final == {"creator", "update role", "rename", "delete edges", "insert edge", "own"}
Followed(q, i) ==
  /\ q[i].op \in Final => i = Len(q)
  /\ q[i].op = "insert role" =>
       i + 1 = Len(q) /\ q[i + 1].op = "creator" /\ q[i + 1].role = q[i].role
  /\ q[i].op = "delete role" =>
       i + 1 = Len(q) /\ q[i + 1].op = "delete edges" /\ q[i + 1].role = q[i].role
  /\ q[i].op = "create table" =>
       i + 1 = Len(q) /\ q[i + 1].op = "own" /\ q[i + 1].table = q[i].table
  /\ q[i].op = "drop table" =>
       i < Len(q) /\ q[i + 1].op = "disown" /\ q[i + 1].table = q[i].table

\* What the owner's record is written after.
Precedes(q, i) ==
  i < Len(q) /\ q[i + 1].op \in {"own", "disown"} => q[i].op \in {"create table", "drop table"}

\* What may be left of a handler.
Handler(q) ==
  /\ q \in Seq(Calls) /\ Len(q) <= 5
  /\ \A i \in 1..Len(q) : Fits(q[i]) /\ Followed(q, i) /\ Precedes(q, i)

-----------------------------------------------------------------------------
(* The invariants.                                                         *)

\* The variables' types.
Typed ==
  /\ db \in Version /\ work \in Version
  /\ writer \in Session \cup {NoSession} /\ failed \in BOOLEAN
  /\ task \in [Session -> Seq(Calls)]
  /\ sessionUser \in [Session -> Name] /\ currentRole \in [Session -> Name]
  /\ bypassCache \in [Session -> Keyed(Name, BOOLEAN)]
  /\ asked \in 0..MaxAsked
  /\ stale \subseteq Session /\ disturbed \subseteq Name \cup Table

\* Every session is in the midst of some handler, or of none.
Handlers == \A s \in Session : Handler(task[s])

\* Nobody is in a transaction: there is one version.
Alone == writer = NoSession => work = db

\* A role's row is written, and clearPrivCache is yet to come.
Unclear(s) == task[s] # <<>> /\ Head(task[s]).op \in {"creator", "delete edges"}

\* What s has cached is what it would read.
Cached(s) ==
  s \notin stale /\ ~Unclear(s) =>
    \A r \in DOMAIN bypassCache[s] : bypassCache[s][r] = roleBypasses(View(s), r)

\* The records about n do not agree in v.
Joined(v, n) == \E m \in v.members : n \in {m.member, m.of}
Dangling(v, n) == n \notin DOMAIN v.roles /\ Joined(v, n)
Unowned(v, n) == ~(n \in v.tables <=> n \in DOMAIN v.owners)
Amiss(v, n) == (n \in Name /\ Dangling(v, n)) \/ (n \in Table /\ Unowned(v, n))

\* The next call of q is to put that right.
Mends(q, n) ==
  /\ q # <<>>
  /\ \/ Head(q).op = "delete edges" /\ n = Head(q).role
     \/ Head(q).op \in {"own", "disown"} /\ n = Head(q).table

\* Records about n that disagree are about to be put right: the committed ones by
\* a session that writes without a transaction.
Mended(n) ==
  n \notin disturbed =>
    /\ Amiss(db, n) => \E s \in Session \ {writer} : Mends(task[s], n)
    /\ Amiss(work, n) => \E s \in Session : Mends(task[s], n)

\* q asks for the role n, or makes it, before anything else.
Vouches(q, n) == \E d \in Range(q) : d.op \in {"exists", "insert role"} /\ d.role = n

\* There is a role n, or s is to look it up or make it before it goes on.
Secured(s, n) == n \in DOMAIN View(s).roles \cup disturbed \/ Vouches(task[s], n)

\* The roles an edge is made for exist or are looked up first.
Edges(s) ==
  \A c \in Range(task[s]) :
    /\ c.op \in {"creator", "insert edge"} => Secured(s, c.role)
    /\ c.op = "insert edge" => Secured(s, c.to)

\* The table whose owner is recorded next is there, and the one whose owner is
\* forgotten next is not.
Owned(s) ==
  task[s] # <<>> =>
    /\ Head(task[s]).op = "own" => Head(task[s]).table \in View(s).tables \cup disturbed
    /\ Head(task[s]).op = "disown" =>
         Head(task[s]).table \notin View(s).tables \/ Head(task[s]).table \in disturbed

\* The inductive invariant.
IInv ==
  /\ Typed /\ Handlers /\ Alone
  /\ \A s \in Session : Cached(s)
  /\ \A n \in Name \cup Table : Mended(n)
  /\ \A s \in Session : Edges(s) /\ Owned(s)

-----------------------------------------------------------------------------
(* Tables of rows.                                                         *)

\* A table keeps its type when a row is put into it.
LEMMA WithTyped ==
  ASSUME NEW K, NEW R, NEW T \in Keyed(K, R), NEW k \in K, NEW row \in R
  PROVE  With(T, k, row) \in Keyed(K, R)
<1>1. PICK Q \in SUBSET K : T \in [Q -> R]
  BY DEF Keyed
<1>2. With(T, k, row) \in [Q \cup {k} -> R]
  BY <1>1 DEF With
<1>3. Q \cup {k} \in SUBSET K
  BY <1>1
<1> QED
  BY <1>2, <1>3 DEF Keyed

\* And when one is taken out of it.
LEMMA WithoutTyped ==
  ASSUME NEW K, NEW R, NEW T \in Keyed(K, R), NEW k
  PROVE  Without(T, k) \in Keyed(K, R)
<1>1. PICK Q \in SUBSET K : T \in [Q -> R]
  BY DEF Keyed
<1>2. Without(T, k) \in [Q \ {k} -> R]
  BY <1>1 DEF Without
<1>3. Q \ {k} \in SUBSET K
  BY <1>1
<1> QED
  BY <1>2, <1>3 DEF Keyed

\* And when a row is replaced.
LEMMA ReplacedTyped ==
  ASSUME NEW K, NEW R, NEW T \in Keyed(K, R), NEW k, NEW row \in R
  PROVE  /\ [T EXCEPT ![k] = row] \in Keyed(K, R)
         /\ DOMAIN [T EXCEPT ![k] = row] = DOMAIN T
<1>1. PICK Q \in SUBSET K : T \in [Q -> R]
  BY DEF Keyed
<1>2. [T EXCEPT ![k] = row] \in [Q -> R]
  BY <1>1
<1> QED
  BY <1>1, <1>2 DEF Keyed

\* The rows of a table are rows.
LEMMA RowTyped ==
  ASSUME NEW K, NEW R, NEW T \in Keyed(K, R)
  PROVE  /\ DOMAIN T \subseteq K
         /\ \A x \in DOMAIN T : T[x] \in R
BY DEF Keyed

\* The empty table.
LEMMA EmptyTyped ==
  ASSUME NEW K, NEW R, NEW c
  PROVE  [q \in {} |-> c] \in Keyed(K, R)
<1>1. [q \in {} |-> c] \in [{} -> R]
  OBVIOUS
<1>2. {} \in SUBSET K
  OBVIOUS
<1> QED
  BY <1>1, <1>2 DEF Keyed

\* The keys of a table that was written to.
LEMMA KeysOf ==
  ASSUME NEW T, NEW k, NEW row
  PROVE  /\ DOMAIN With(T, k, row) = DOMAIN T \cup {k}
         /\ DOMAIN Without(T, k) = DOMAIN T \ {k}
BY DEF With, Without

\* One table of a version is written.
LEMMA VersionTyped ==
  ASSUME NEW v \in Version
  PROVE  /\ v.roles \in Keyed(Name, Attributes)
         /\ v.members \in SUBSET [member : Name, of : Name, admin : BOOLEAN]
         /\ v.grants \in SUBSET [grantee : Name \cup {public}, table : Table, priv : Privilege]
         /\ v.policies \in SUBSET Table /\ v.tables \in SUBSET Table
         /\ v.owners \in Keyed(Table, Name)
         /\ v.rls \in Keyed(Table, [enabled : BOOLEAN, forced : BOOLEAN])
BY DEF Version

\* What one write leaves alone.
SameRoles(v, w) == w.roles = v.roles
SameEdges(v, w) == w.members = v.members
SameTables(v, w) == w.tables = v.tables
SameOwners(v, w) == w.owners = v.owners

\* A write to the roles.
LEMMA RolesWritten ==
  ASSUME NEW v \in Version, NEW T \in Keyed(Name, Attributes),
         NEW w, w = [v EXCEPT !.roles = T]
  PROVE  w \in Version /\ w.roles = T /\ SameEdges(v, w) /\ SameTables(v, w) /\ SameOwners(v, w)
BY DEF Version, SameEdges, SameTables, SameOwners

\* A write to the memberships.
LEMMA EdgesWritten ==
  ASSUME NEW v \in Version, NEW T \in SUBSET [member : Name, of : Name, admin : BOOLEAN],
         NEW w, w = [v EXCEPT !.members = T]
  PROVE  w \in Version /\ w.members = T /\ SameRoles(v, w) /\ SameTables(v, w) /\ SameOwners(v, w)
BY DEF Version, SameRoles, SameTables, SameOwners

\* A write to the tables there are.
LEMMA TablesWritten ==
  ASSUME NEW v \in Version, NEW T \in SUBSET Table,
         NEW w, w = [v EXCEPT !.tables = T]
  PROVE  w \in Version /\ w.tables = T /\ SameRoles(v, w) /\ SameEdges(v, w) /\ SameOwners(v, w)
BY DEF Version, SameRoles, SameEdges, SameOwners

\* A write to the owners.
LEMMA OwnersWritten ==
  ASSUME NEW v \in Version, NEW T \in Keyed(Table, Name),
         NEW w, w = [v EXCEPT !.owners = T]
  PROVE  w \in Version /\ w.owners = T /\ SameRoles(v, w) /\ SameEdges(v, w) /\ SameTables(v, w)
BY DEF Version, SameRoles, SameEdges, SameTables

Untouched(v, w) == SameRoles(v, w) /\ SameEdges(v, w) /\ SameTables(v, w) /\ SameOwners(v, w)

\* A write to the grants, the policies or the flags.
LEMMA RightsWritten ==
  ASSUME NEW v \in Version
  PROVE  /\ \A T \in SUBSET [grantee : Name \cup {public}, table : Table, priv : Privilege] :
              [v EXCEPT !.grants = T] \in Version /\ Untouched(v, [v EXCEPT !.grants = T])
         /\ \A T \in SUBSET Table :
              [v EXCEPT !.policies = T] \in Version /\ Untouched(v, [v EXCEPT !.policies = T])
         /\ \A T \in Keyed(Table, [enabled : BOOLEAN, forced : BOOLEAN]) :
              [v EXCEPT !.rls = T] \in Version /\ Untouched(v, [v EXCEPT !.rls = T])
BY DEF Version, Untouched, SameRoles, SameEdges, SameTables, SameOwners

-----------------------------------------------------------------------------
(* What each write does to what v tells of roles, edges, tables and owners. *)

RoleWrites == {"insert role", "update role", "rename", "delete role"}
EdgeWrites == {"delete edges", "creator", "delete edge", "insert edge", "no admin"}
TableWrites == {"create table", "drop table"}
OwnerWrites == {"own", "disown"}
RightsWrites == {"insert grant", "delete grant", "forget grants", "flags", "flag", "policy", "no policy"}

RolesEffect(v, c, w) ==
  /\ c.op \notin RoleWrites => SameRoles(v, w)
  /\ c.op = "insert role" => DOMAIN w.roles = DOMAIN v.roles \cup {c.role}
  /\ c.op = "update role" => DOMAIN w.roles = DOMAIN v.roles
  /\ c.op = "rename" => DOMAIN v.roles \ {c.role} \subseteq DOMAIN w.roles
  /\ c.op = "delete role" => DOMAIN w.roles = DOMAIN v.roles \ {c.role}

\* The roles an edge is made for.
MadeFor(v, c) ==
  CASE c.op = "creator" -> DOMAIN v.roles \cup {c.role}
    [] c.op = "insert edge" -> {c.role, c.to}
    [] OTHER -> {}

EdgesEffect(v, c, w) ==
  /\ c.op \notin EdgeWrites => SameEdges(v, w)
  /\ \A n : Joined(w, n) => Joined(v, n) \/ n \in MadeFor(v, c)
  /\ c.op = "delete edges" => ~Joined(w, c.role)

TablesEffect(v, c, w) ==
  /\ c.op \notin TableWrites => SameTables(v, w)
  /\ c.op = "create table" => w.tables = v.tables \cup {c.table}
  /\ c.op = "drop table" => w.tables = v.tables \ {c.table}

OwnersEffect(v, c, w) ==
  /\ c.op \notin OwnerWrites => SameOwners(v, w)
  /\ c.op = "own" => DOMAIN w.owners = DOMAIN v.owners \cup {c.table}
  /\ c.op = "disown" => DOMAIN w.owners = DOMAIN v.owners \ {c.table}

Effect(v, c, w) ==
  /\ w \in Version
  /\ RolesEffect(v, c, w) /\ EdgesEffect(v, c, w) /\ TablesEffect(v, c, w) /\ OwnersEffect(v, c, w)

\* A write leaves what it is not about as it was.
LEMMA RolesEffects ==
  ASSUME NEW s \in Session, NEW v \in Version, v = View(s),
         NEW c \in Calls, Fits(c), c.op \in RoleWrites, NEW w, w = Written(s, c)
  PROVE  Effect(v, c, w)
<1>1. v.roles \in Keyed(Name, Attributes) /\ c.role \in Name
  BY VersionTyped DEF Fits, OfRoles, RoleWrites
<1>2. \A T \in Keyed(Name, Attributes) :
        w = [v EXCEPT !.roles = T] =>
          w \in Version /\ w.roles = T /\ SameEdges(v, w) /\ SameTables(v, w) /\ SameOwners(v, w)
  BY RolesWritten
<1>3. ASSUME SameEdges(v, w), SameTables(v, w), SameOwners(v, w), w \in Version, RolesEffect(v, c, w)
      PROVE  Effect(v, c, w)
  BY <1>3 DEF Effect, EdgesEffect, TablesEffect, OwnersEffect, SameEdges, Joined,
              RoleWrites, EdgeWrites, TableWrites, OwnerWrites
<1>4. ASSUME w = v PROVE SameEdges(v, w) /\ SameTables(v, w) /\ SameOwners(v, w) /\ w \in Version
  BY <1>4 DEF SameEdges, SameTables, SameOwners
<1>5. CASE c.op = "insert role"
  <2>1. w = [v EXCEPT !.roles = With(v.roles, c.role, c.arg)]
    BY <1>5 DEF Written
  <2>2. c.arg \in Attributes
    BY <1>5 DEF Fits
  <2>3. With(v.roles, c.role, c.arg) \in Keyed(Name, Attributes)
    BY <1>1, <2>2, WithTyped
  <2>4. DOMAIN With(v.roles, c.role, c.arg) = DOMAIN v.roles \cup {c.role}
    BY KeysOf
  <2>5. RolesEffect(v, c, w)
    BY <1>2, <1>5, <2>1, <2>3, <2>4 DEF RolesEffect, RoleWrites
  <2> QED
    BY <1>2, <1>3, <2>1, <2>3, <2>5
<1>6. CASE c.op = "update role" /\ roleExists(v, c.role)
  <2> DEFINE T == [v.roles EXCEPT ![c.role] = c.arg]
  <2>1. w = [v EXCEPT !.roles = T]
    BY <1>6 DEF Written
  <2>2. c.arg \in Attributes
    BY <1>6 DEF Fits
  <2>3. T \in Keyed(Name, Attributes) /\ DOMAIN T = DOMAIN v.roles
    BY <1>1, <2>2, ReplacedTyped
  <2> HIDE DEF T
  <2>4. RolesEffect(v, c, w)
    BY <1>2, <1>6, <2>1, <2>3 DEF RolesEffect, RoleWrites
  <2> QED
    BY <1>2, <1>3, <2>1, <2>3, <2>4
<1>7. CASE c.op = "update role" /\ ~roleExists(v, c.role)
  <2>1. w = v
    BY <1>7 DEF Written
  <2>2. RolesEffect(v, c, w)
    BY <1>7, <2>1 DEF RolesEffect, RoleWrites
  <2> QED
    BY <1>3, <1>4, <2>1, <2>2
<1>8. CASE c.op = "rename" /\ roleExists(v, c.role)
  <2> DEFINE T == With(Without(v.roles, c.role), c.to, v.roles[c.role])
  <2>1. w = [v EXCEPT !.roles = T]
    BY <1>8 DEF Written
  <2>2. v.roles[c.role] \in Attributes
    BY <1>1, <1>8, RowTyped DEF roleExists
  <2>3. c.to \in Name
    BY <1>8 DEF Fits, OfPairs
  <2>4. Without(v.roles, c.role) \in Keyed(Name, Attributes)
    BY <1>1, WithoutTyped
  <2>5. T \in Keyed(Name, Attributes)
    BY <2>2, <2>3, <2>4, WithTyped
  <2>6. DOMAIN T = (DOMAIN v.roles \ {c.role}) \cup {c.to}
    <3>1. DOMAIN Without(v.roles, c.role) = DOMAIN v.roles \ {c.role}
      BY KeysOf
    <3>2. DOMAIN T = DOMAIN Without(v.roles, c.role) \cup {c.to}
      BY KeysOf
    <3> QED
      BY <3>1, <3>2
  <2> HIDE DEF T
  <2>7. RolesEffect(v, c, w)
    BY <1>2, <1>8, <2>1, <2>5, <2>6 DEF RolesEffect, RoleWrites
  <2> QED
    BY <1>2, <1>3, <2>1, <2>5, <2>7
<1>9. CASE c.op = "rename" /\ ~roleExists(v, c.role)
  <2>1. w = v
    BY <1>9 DEF Written
  <2>2. RolesEffect(v, c, w)
    BY <1>9, <2>1 DEF RolesEffect, RoleWrites
  <2> QED
    BY <1>3, <1>4, <2>1, <2>2
<1>10. CASE c.op = "delete role"
  <2>1. w = [v EXCEPT !.roles = Without(v.roles, c.role)]
    BY <1>10 DEF Written
  <2>2. Without(v.roles, c.role) \in Keyed(Name, Attributes)
    BY <1>1, WithoutTyped
  <2>3. DOMAIN Without(v.roles, c.role) = DOMAIN v.roles \ {c.role}
    BY KeysOf
  <2>4. RolesEffect(v, c, w)
    BY <1>2, <1>10, <2>1, <2>2, <2>3 DEF RolesEffect, RoleWrites
  <2> QED
    BY <1>2, <1>3, <2>1, <2>2, <2>4
<1> QED
  BY <1>5, <1>6, <1>7, <1>8, <1>9, <1>10 DEF RoleWrites

\* A write to the memberships.
LEMMA EdgesEffects ==
  ASSUME NEW s \in Session, NEW v \in Version, v = View(s),
         NEW c \in Calls, Fits(c), c.op \in EdgeWrites, NEW w, w = Written(s, c)
  PROVE  Effect(v, c, w)
<1> DEFINE E == [member : Name, of : Name, admin : BOOLEAN]
<1>1. v.members \in SUBSET E /\ c.role \in Name
  BY VersionTyped DEF Fits, OfRoles, EdgeWrites
<1>2. ASSUME NEW T \in SUBSET E, w = [v EXCEPT !.members = T],
             \A m \in T : {m.member, m.of} \subseteq MadeFor(v, c) \/
                           \E k \in v.members : k.member = m.member /\ k.of = m.of,
             c.op = "delete edges" => \A m \in T : c.role \notin {m.member, m.of}
      PROVE  Effect(v, c, w)
  <2>1. w \in Version /\ w.members = T /\ SameRoles(v, w) /\ SameTables(v, w) /\ SameOwners(v, w)
    BY <1>2, EdgesWritten
  <2>2. \A n : Joined(w, n) => Joined(v, n) \/ n \in MadeFor(v, c)
    BY <1>2, <2>1 DEF Joined
  <2>3. c.op = "delete edges" => ~Joined(w, c.role)
    BY <1>2, <2>1 DEF Joined
  <2>4. EdgesEffect(v, c, w)
    BY <2>2, <2>3 DEF EdgesEffect
  <2>5. RolesEffect(v, c, w) /\ TablesEffect(v, c, w) /\ OwnersEffect(v, c, w)
    BY <2>1 DEF RolesEffect, TablesEffect, OwnersEffect, RoleWrites, EdgeWrites, TableWrites, OwnerWrites
  <2> QED
    BY <2>1, <2>4, <2>5 DEF Effect
<1>3. CASE c.op = "delete edges"
  <2> DEFINE T == {m \in v.members : c.role \notin {m.member, m.of}}
  <2>1. w = [v EXCEPT !.members = T]
    BY <1>3 DEF Written
  <2>2. T \in SUBSET E
    BY <1>1
  <2>3. T \subseteq v.members /\ \A m \in T : c.role \notin {m.member, m.of}
    OBVIOUS
  <2> HIDE DEF T
  <2> QED
    BY <1>2, <2>1, <2>2, <2>3
<1>4. CASE c.op = "creator" /\ roleBypasses(v, c.to)
  <2>1. w = v
    BY <1>4 DEF Written
  <2>2. \A n : Joined(w, n) => Joined(v, n)
    BY <2>1
  <2> QED
    BY <1>4, <2>1, <2>2 DEF Effect, RolesEffect, EdgesEffect, TablesEffect, OwnersEffect, SameRoles,
           SameTables, SameOwners, RoleWrites, EdgeWrites, TableWrites, OwnerWrites
<1>5. CASE c.op = "creator" /\ ~roleBypasses(v, c.to)
  <2> DEFINE T == v.members \cup {Edge(c)}
  <2>1. w = [v EXCEPT !.members = T]
    BY <1>5 DEF Written
  <2>2. c.to \in DOMAIN v.roles
    BY <1>5 DEF roleBypasses, roleExists
  <2>3. c.to \in Name /\ c.arg \in BOOLEAN
    BY <1>5 DEF Fits, OfPairs
  <2>4. Edge(c) \in E /\ Edge(c).member = c.to /\ Edge(c).of = c.role
    BY <1>1, <2>3 DEF Edge
  <2>5. MadeFor(v, c) = DOMAIN v.roles \cup {c.role}
    BY <1>5 DEF MadeFor
  <2>6. T \in SUBSET E
    BY <1>1, <2>4
  <2>7. \A m \in T : {m.member, m.of} \subseteq MadeFor(v, c) \/
                      \E k \in v.members : k.member = m.member /\ k.of = m.of
    BY <2>2, <2>4, <2>5
  <2> HIDE DEF T
  <2> QED
    BY <1>2, <1>5, <2>1, <2>6, <2>7
<1>6. CASE c.op = "delete edge"
  <2> DEFINE T == NotEdge(v, c)
  <2>1. w = [v EXCEPT !.members = T]
    BY <1>6 DEF Written
  <2>2. T \subseteq v.members
    BY DEF NotEdge
  <2> HIDE DEF T
  <2> QED
    BY <1>1, <1>2, <1>6, <2>1, <2>2
<1>7. CASE c.op = "insert edge"
  <2> DEFINE T == v.members \cup {Edge(c)}
  <2>1. w = [v EXCEPT !.members = T]
    BY <1>7 DEF Written
  <2>2. c.to \in Name /\ c.arg \in BOOLEAN
    BY <1>7 DEF Fits, OfPairs
  <2>3. Edge(c) \in E /\ Edge(c).member = c.to /\ Edge(c).of = c.role
    BY <1>1, <2>2 DEF Edge
  <2>4. MadeFor(v, c) = {c.role, c.to}
    BY <1>7 DEF MadeFor
  <2>5. T \in SUBSET E
    BY <1>1, <2>3
  <2>6. \A m \in T : {m.member, m.of} \subseteq MadeFor(v, c) \/
                      \E k \in v.members : k.member = m.member /\ k.of = m.of
    BY <2>3, <2>4
  <2> HIDE DEF T
  <2> QED
    BY <1>2, <1>7, <2>1, <2>5, <2>6
<1>8. CASE c.op = "no admin"
  <2> DEFINE K == NotEdge(v, c)
             T == K \cup {[m EXCEPT !.admin = FALSE] : m \in v.members \ K}
  <2>1. w = [v EXCEPT !.members = T]
    BY <1>8 DEF Written
  <2>2. K \subseteq v.members
    BY DEF NotEdge
  <2>3. \A m \in E : /\ [m EXCEPT !.admin = FALSE] \in E
                     /\ [m EXCEPT !.admin = FALSE].member = m.member
                     /\ [m EXCEPT !.admin = FALSE].of = m.of
    OBVIOUS
  <2> HIDE DEF K, E
  <2>4. T \in SUBSET E
    <3>1. \A m \in v.members : [m EXCEPT !.admin = FALSE] \in E
      BY <1>1, <2>3
    <3> QED
      BY <1>1, <2>2, <3>1, Zenon
  <2>5. \A m \in T : \E k \in v.members : k.member = m.member /\ k.of = m.of
    <3>1. TAKE m \in T
    <3>2. CASE m \in K
      BY <2>2, <3>2
    <3>3. CASE m \notin K
      <4>1. PICK k \in v.members : m = [k EXCEPT !.admin = FALSE]
        BY <3>3
      <4> QED
        BY <1>1, <2>3, <4>1
    <3> QED
      BY <3>2, <3>3
  <2> HIDE DEF T
  <2> QED
    BY <1>2, <1>8, <2>1, <2>4, <2>5
<1> QED
  BY <1>3, <1>4, <1>5, <1>6, <1>7, <1>8 DEF EdgeWrites

\* A version that is left alone.
LEMMA NoEffect ==
  ASSUME NEW v \in Version, NEW w \in Version, Untouched(v, w), NEW c,
         c.op \notin RoleWrites \cup EdgeWrites \cup TableWrites \cup OwnerWrites
  PROVE  Effect(v, c, w)
BY DEF Effect, Untouched, RolesEffect, EdgesEffect, TablesEffect, OwnersEffect, SameEdges, Joined,
       RoleWrites, EdgeWrites, TableWrites, OwnerWrites

\* A write to the tables or their owners.
LEMMA TablesEffects ==
  ASSUME NEW s \in Session, NEW v \in Version, v = View(s), currentRole[s] \in Name,
         NEW c \in Calls, Fits(c), c.op \in TableWrites \cup OwnerWrites, NEW w, w = Written(s, c)
  PROVE  Effect(v, c, w)
<1>1. c.table \in Table
  BY DEF Fits, OfTables, TableWrites, OwnerWrites
<1>2. v.tables \in SUBSET Table /\ v.owners \in Keyed(Table, Name)
  BY VersionTyped
<1>3. ASSUME w \in Version, SameRoles(v, w), SameEdges(v, w), TablesEffect(v, c, w), OwnersEffect(v, c, w)
      PROVE  Effect(v, c, w)
  BY <1>3 DEF Effect, RolesEffect, EdgesEffect, SameEdges, Joined, RoleWrites, EdgeWrites,
              TableWrites, OwnerWrites
<1>4. CASE c.op = "create table"
  <2>1. w = [v EXCEPT !.tables = v.tables \cup {c.table}]
    BY <1>4 DEF Written
  <2>2. /\ w \in Version /\ w.tables = v.tables \cup {c.table}
        /\ SameRoles(v, w) /\ SameEdges(v, w) /\ SameOwners(v, w)
    BY <1>1, <1>2, <2>1, TablesWritten
  <2>3. TablesEffect(v, c, w) /\ OwnersEffect(v, c, w)
    BY <1>4, <2>2 DEF TablesEffect, OwnersEffect, TableWrites, OwnerWrites
  <2> QED
    BY <1>3, <2>2, <2>3
<1>5. CASE c.op = "drop table"
  <2>1. w = [v EXCEPT !.tables = v.tables \ {c.table}]
    BY <1>5 DEF Written
  <2>2. /\ w \in Version /\ w.tables = v.tables \ {c.table}
        /\ SameRoles(v, w) /\ SameEdges(v, w) /\ SameOwners(v, w)
    BY <1>2, <2>1, TablesWritten
  <2>3. TablesEffect(v, c, w) /\ OwnersEffect(v, c, w)
    BY <1>5, <2>2 DEF TablesEffect, OwnersEffect, TableWrites, OwnerWrites
  <2> QED
    BY <1>3, <2>2, <2>3
<1>6. CASE c.op = "own"
  <2>1. w = [v EXCEPT !.owners = With(v.owners, c.table, currentRole[s])]
    BY <1>6 DEF Written
  <2>2. With(v.owners, c.table, currentRole[s]) \in Keyed(Table, Name)
    BY <1>1, <1>2, WithTyped
  <2>3. DOMAIN With(v.owners, c.table, currentRole[s]) = DOMAIN v.owners \cup {c.table}
    BY KeysOf
  <2>4. /\ w \in Version /\ w.owners = With(v.owners, c.table, currentRole[s])
        /\ SameRoles(v, w) /\ SameEdges(v, w) /\ SameTables(v, w)
    BY <2>1, <2>2, OwnersWritten
  <2>5. TablesEffect(v, c, w) /\ OwnersEffect(v, c, w)
    BY <1>6, <2>3, <2>4 DEF TablesEffect, OwnersEffect, TableWrites, OwnerWrites
  <2> QED
    BY <1>3, <2>4, <2>5
<1>7. CASE c.op = "disown"
  <2>1. w = [v EXCEPT !.owners = Without(v.owners, c.table)]
    BY <1>7 DEF Written
  <2>2. Without(v.owners, c.table) \in Keyed(Table, Name)
    BY <1>2, WithoutTyped
  <2>3. DOMAIN Without(v.owners, c.table) = DOMAIN v.owners \ {c.table}
    BY KeysOf
  <2>4. /\ w \in Version /\ w.owners = Without(v.owners, c.table)
        /\ SameRoles(v, w) /\ SameEdges(v, w) /\ SameTables(v, w)
    BY <2>1, <2>2, OwnersWritten
  <2>5. TablesEffect(v, c, w) /\ OwnersEffect(v, c, w)
    BY <1>7, <2>3, <2>4 DEF TablesEffect, OwnersEffect, TableWrites, OwnerWrites
  <2> QED
    BY <1>3, <2>4, <2>5
<1> QED
  BY <1>4, <1>5, <1>6, <1>7 DEF TableWrites, OwnerWrites

\* A write to grants, policies and flags, and calls that write nothing.
LEMMA RightsEffects ==
  ASSUME NEW s \in Session, NEW v \in Version, v = View(s), NEW c \in Calls, Fits(c),
         c.op \notin RoleWrites \cup EdgeWrites \cup TableWrites \cup OwnerWrites,
         NEW w, w = Written(s, c)
  PROVE  Effect(v, c, w)
<1> DEFINE G == [grantee : Name \cup {public}, table : Table, priv : Privilege]
           F == [enabled : BOOLEAN, forced : BOOLEAN]
<1>1. v.grants \in SUBSET G /\ v.policies \in SUBSET Table /\ v.rls \in Keyed(Table, F)
  BY VersionTyped
<1>2. ASSUME w \in Version, Untouched(v, w) PROVE Effect(v, c, w)
  BY <1>2, NoEffect
<1>3. \A T \in SUBSET G : w = [v EXCEPT !.grants = T] => w \in Version /\ Untouched(v, w)
  BY RightsWritten
<1>4. \A T \in SUBSET Table : w = [v EXCEPT !.policies = T] => w \in Version /\ Untouched(v, w)
  BY RightsWritten
<1>5. \A T \in Keyed(Table, F) : w = [v EXCEPT !.rls = T] => w \in Version /\ Untouched(v, w)
  BY RightsWritten
<1>6. w = v => w \in Version /\ Untouched(v, w)
  BY DEF Untouched, SameRoles, SameEdges, SameTables, SameOwners
<1>7. CASE c.op = "insert grant"
  <2>1. w = [v EXCEPT !.grants = v.grants \cup {Grant(c)}]
    BY <1>7 DEF Written
  <2>2. Grant(c) \in G
    BY <1>7 DEF Grant, Fits, OfTables
  <2> HIDE DEF G
  <2>3. v.grants \cup {Grant(c)} \in SUBSET G
    BY <1>1, <2>2
  <2> QED
    BY <1>2, <1>3, <2>1, <2>3
<1>8. CASE c.op = "delete grant"
  <2> DEFINE T == {g \in v.grants : ~(/\ g.grantee = c.role /\ g.table = c.table
                                      /\ c.arg \in {g.priv, "ALL"})}
  <2>1. w = [v EXCEPT !.grants = T]
    BY <1>8 DEF Written
  <2>2. T \in SUBSET G
    BY <1>1
  <2> HIDE DEF T, G
  <2> QED
    BY <1>2, <1>3, <2>1, <2>2
<1>9. CASE c.op = "forget grants"
  <2> DEFINE T == {g \in v.grants : g.table # c.table}
  <2>1. w = [v EXCEPT !.grants = T]
    BY <1>9 DEF Written
  <2>2. T \in SUBSET G
    BY <1>1
  <2> HIDE DEF T, G
  <2> QED
    BY <1>2, <1>3, <2>1, <2>2
<1>10. CASE c.op = "policy"
  <2>1. w = [v EXCEPT !.policies = v.policies \cup {c.table}]
    BY <1>10 DEF Written
  <2>2. c.table \in Table
    BY <1>10 DEF Fits, OfTables
  <2>3. v.policies \cup {c.table} \in SUBSET Table
    BY <1>1, <2>2
  <2> QED
    BY <1>2, <1>4, <2>1, <2>3
<1>11. CASE c.op = "no policy"
  <2>1. w = [v EXCEPT !.policies = v.policies \ {c.table}]
    BY <1>11 DEF Written
  <2>2. v.policies \ {c.table} \in SUBSET Table
    BY <1>1
  <2> QED
    BY <1>2, <1>4, <2>1, <2>2
<1>12. CASE c.op = "flags" /\ c.table \notin DOMAIN v.rls
  <2> DEFINE row == [enabled |-> FALSE, forced |-> FALSE]
  <2>1. w = [v EXCEPT !.rls = With(v.rls, c.table, row)]
    BY <1>12 DEF Written
  <2>2. c.table \in Table /\ row \in F
    BY <1>12 DEF Fits, OfTables
  <2> HIDE DEF row, F
  <2>3. With(v.rls, c.table, row) \in Keyed(Table, F)
    BY <1>1, <2>2, WithTyped
  <2> QED
    BY <1>2, <1>5, <2>1, <2>3
<1>13. CASE c.op = "flag" /\ c.table \in DOMAIN v.rls
  <2> DEFINE row == [v.rls[c.table] EXCEPT ![c.arg[1]] = c.arg[2]]
             T == [v.rls EXCEPT ![c.table] = row]
  <2>1. w = [v EXCEPT !.rls = T]
    BY <1>13 DEF Written
  <2>2. c.arg \in {"enabled", "forced"} \X BOOLEAN
    BY <1>13 DEF Fits, Flags
  <2>3. c.arg[1] \in {"enabled", "forced"} /\ c.arg[2] \in BOOLEAN
    BY <2>2
  <2>4. v.rls[c.table] \in F
    <3> HIDE DEF F
    <3> QED
      BY <1>1, <1>13, RowTyped
  <2>5. row \in F
    BY <2>3, <2>4
  <2> HIDE DEF row, F
  <2>6. T \in Keyed(Table, F)
    BY <1>1, <2>5, ReplacedTyped
  <2> HIDE DEF T
  <2> QED
    BY <1>2, <1>5, <2>1, <2>6
<1>14. ASSUME w = v PROVE Effect(v, c, w)
  BY <1>2, <1>6, <1>14
<1>15. CASE c.op = "flags" /\ c.table \in DOMAIN v.rls
  BY <1>14, <1>15 DEF Written
<1>16. CASE c.op = "flag" /\ c.table \notin DOMAIN v.rls
  BY <1>14, <1>16 DEF Written
<1>17. CASE c.op \notin RightsWrites
  BY <1>14, <1>17 DEF Written, RightsWrites, RoleWrites, EdgeWrites, TableWrites, OwnerWrites
<1>18. c.op \in RightsWrites => c.op \in {"insert grant", "delete grant", "forget grants", "policy",
                                         "no policy", "flags", "flag"}
  BY DEF RightsWrites
<1> QED
  BY <1>7, <1>8, <1>9, <1>10, <1>11, <1>12, <1>13, <1>15, <1>16, <1>17, <1>18

\* What any write does.
LEMMA Effects ==
  ASSUME Typed, NEW s \in Session, NEW c \in Calls, Fits(c)
  PROVE  Effect(View(s), c, Written(s, c))
<1>1. View(s) \in Version /\ currentRole[s] \in Name
  BY DEF Typed, View
<1>2. PICK v \in Version : v = View(s)
  BY <1>1
<1>3. PICK w : w = Written(s, c)
  OBVIOUS
<1>4. Effect(v, c, w)
  BY <1>1, <1>2, <1>3, RolesEffects, EdgesEffects, TablesEffects, RightsEffects
<1> QED
  BY <1>2, <1>3, <1>4

-----------------------------------------------------------------------------
(* The calls of a handler, one after the other.                            *)

\* d is all that is left.
Only(r, op) == r # <<>> /\ Range(r) = {Head(r)} /\ Head(r).op = op

\* What is left after the call c.
Goes(c, r) ==
  /\ c.op \in Final => r = <<>>
  /\ c.op = "insert role" => Only(r, "creator") /\ Head(r).role = c.role
  /\ c.op = "delete role" => Only(r, "delete edges") /\ Head(r).role = c.role
  /\ c.op = "create table" => Only(r, "own") /\ Head(r).table = c.table
  /\ c.op = "drop table" => r # <<>> /\ Head(r).op = "disown" /\ Head(r).table = c.table
  /\ r # <<>> /\ Head(r).op \in {"own", "disown"} => c.op \in {"create table", "drop table"}

\* The next call of a handler fits, and what is left is a handler's.
LEMMA HandlerGoes ==
  ASSUME NEW q, Handler(q), q # <<>>
  PROVE  /\ Head(q) \in Calls /\ Fits(Head(q))
         /\ Tail(q) \in Seq(Calls) /\ Handler(Tail(q))
         /\ Range(q) = {Head(q)} \cup Range(Tail(q))
         /\ Goes(Head(q), Tail(q))
<1> DEFINE r == Tail(q)
           n == Len(q)
<1>1. /\ q \in Seq(Calls) /\ n \in Nat /\ n <= 5
      /\ \A i \in 1..n : Fits(q[i]) /\ Followed(q, i) /\ Precedes(q, i)
  BY DEF Handler
<1>2. n # 0 /\ 1 \in 1..n
  BY <1>1
<1>3. Head(q) = q[1] /\ q[1] \in Calls
  BY <1>1, <1>2
<1>4. r \in Seq(Calls) /\ Len(r) = n - 1 /\ \A i \in 1..Len(r) : r[i] = q[i + 1]
  BY <1>1, <1>2
<1>5. DOMAIN q = 1..n /\ DOMAIN r = 1..Len(r)
  BY <1>1, <1>4
<1>6. Range(q) = {Head(q)} \cup Range(r)
  <2>1. ASSUME NEW i \in 1..n, i # 1 PROVE i - 1 \in 1..Len(r) /\ r[i - 1] = q[i]
    <3> HIDE DEF r, n
    <3>1. i - 1 \in 1..Len(r) /\ (i - 1) + 1 = i
      BY <1>1, <1>4, <2>1
    <3> QED
      BY <1>4, <3>1
  <2>2. \A i \in 1..Len(r) : i + 1 \in 1..n /\ r[i] = q[i + 1]
    BY <1>1, <1>4
  <2> HIDE DEF r, n
  <2> QED
    BY <1>2, <1>3, <1>5, <2>1, <2>2 DEF Range
<1>7. Handler(r)
  <2>1. Len(r) <= 5
    BY <1>1, <1>4
  <2>2. ASSUME NEW i \in 1..Len(r) PROVE Fits(r[i]) /\ Followed(r, i) /\ Precedes(r, i)
    <3>1. i \in Nat /\ i + 1 \in 1..n /\ r[i] = q[i + 1] /\ (i < Len(r) => r[i + 1] = q[i + 1 + 1])
      BY <1>1, <1>4
    <3>2. Fits(q[i + 1]) /\ Followed(q, i + 1) /\ Precedes(q, i + 1)
      BY <1>1, <3>1
    <3> HIDE DEF r, n
    <3>3. (i + 1 = n => i = Len(r)) /\ (i + 1 + 1 = n => i + 1 = Len(r)) /\ (i + 1 < n => i < Len(r))
      BY <1>1, <1>4, <3>1
    <3>4. i + 1 = Len(r) => i < Len(r)
      BY <1>1, <1>4, <3>1
    <3>5. Fits(r[i]) /\ Followed(r, i)
      BY <3>1, <3>2, <3>3, <3>4 DEF Followed, n
    <3>6. i < Len(r) => i + 1 < n
      BY <1>1, <1>4, <3>1
    <3>7. Precedes(r, i)
      BY <3>1, <3>2, <3>6 DEF Precedes, n
    <3> QED
      BY <3>5, <3>7
  <2> QED
    BY <1>4, <2>1, <2>2 DEF Handler
<1>8. Followed(q, 1) /\ Precedes(q, 1)
  BY <1>1, <1>2
<1> HIDE DEF r, n
<1>9. n = 1 => r = <<>>
  BY <1>1, <1>4
<1>10. n > 1 => r # <<>> /\ Head(r) = q[1 + 1]
  <2>1. ASSUME n > 1 PROVE Len(r) # 0 /\ 1 \in 1..Len(r)
    BY <1>1, <1>4, <2>1
  <2>2. ASSUME n > 1 PROVE r # <<>>
    BY <2>1, <2>2
  <2>3. ASSUME n > 1 PROVE Head(r) = r[1] /\ r[1] = q[1 + 1]
    BY <1>4, <2>1, <2>3
  <2> QED
    BY <2>2, <2>3
<1>11. n = 1 + 1 => Range(r) = {Head(r)}
  <2>1. ASSUME n = 1 + 1 PROVE Len(r) = 1
    BY <1>4, <2>1
  <2>2. ASSUME n = 1 + 1 PROVE DOMAIN r = {1} /\ Head(r) = r[1]
    BY <1>4, <1>5, <2>1, <2>2
  <2> QED
    BY <2>2 DEF Range
<1>12. Goes(Head(q), r)
  <2>1. \A op : 1 + 1 = n /\ q[1 + 1].op = op => Only(r, op) /\ Head(r) = q[1 + 1]
    BY <1>1, <1>10, <1>11 DEF Only
  <2>2. 1 = n => r = <<>>
    BY <1>9
  <2>3. 1 < n => r # <<>> /\ Head(r) = q[1 + 1]
    BY <1>1, <1>10
  <2>4. r # <<>> => 1 < n
    BY <1>1, <1>2, <1>9
  <2>5. r # <<>> /\ Head(r).op \in {"own", "disown"} => q[1].op \in {"create table", "drop table"}
    BY <1>8, <2>3, <2>4 DEF Precedes, n
  <2> QED
    BY <1>3, <1>8, <2>1, <2>2, <2>3, <2>5 DEF Goes, Followed, n
<1> QED
  BY <1>1, <1>3, <1>4, <1>6, <1>7, <1>12 DEF r

\* The names a handler is about are names.
LEMMA AboutTyped ==
  ASSUME Handlers
  PROVE  \A s \in Session : About(s) \subseteq Name \cup Table
<1>1. \A c \in Calls : Names(c) \subseteq Name \cup Table
  BY DEF Calls, Names
<1>2. ASSUME NEW s \in Session PROVE Range(task[s]) \subseteq Calls
  <2>1. task[s] \in Seq(Calls)
    BY DEF Handlers, Handler
  <2> QED
    BY <2>1 DEF Range
<1> QED
  BY <1>1, <1>2 DEF About

\* A call that is left makes the handler be about its role or table.
LEMMA AboutCall ==
  ASSUME Handlers, NEW s \in Session, NEW c \in Range(task[s]), NEW n \in Name \cup Table,
         n \in {c.role, c.to, c.table}
  PROVE  n \in About(s)
BY AccessAssumption DEF About, Names

-----------------------------------------------------------------------------
(* What the handlers start with.                                           *)

Opens(q) ==
  /\ Handler(q) /\ q # <<>>
  /\ Head(q).op \notin {"own", "disown", "delete edges"}
  /\ \A c \in Range(q) : /\ c.op \in {"creator", "insert edge"} => Vouches(q, c.role)
                         /\ c.op = "insert edge" => Vouches(q, c.to)

\* A session is sent a statement.
Launch(s) == \E q : Opens(q) /\ Starts(s, q)

Args == Attributes \cup BOOLEAN \cup Words \cup Flags

\* A call is what it is made of.
LEMMA CallTyped ==
  ASSUME NEW op \in Ops, NEW r \in Name \cup {public, none}, NEW q \in Name \cup {none},
         NEW t \in Table \cup {none}, NEW arg \in Args
  PROVE  /\ Call(op, r, q, t, arg) \in Calls
         /\ Call(op, r, q, t, arg).op = op /\ Call(op, r, q, t, arg).role = r
         /\ Call(op, r, q, t, arg).to = q /\ Call(op, r, q, t, arg).table = t
         /\ Call(op, r, q, t, arg).arg = arg
<1> HIDE DEF Attributes, Words, Flags
<1> QED
  BY DEF Call, Calls, Args

\* c is the call it says.
Is(c, op, r, q, t, arg) ==
  /\ c \in Calls
  /\ c.op = op /\ c.role = r /\ c.to = q /\ c.table = t /\ c.arg = arg

\* A call about a role.
LEMMA OfRoleIs ==
  ASSUME NEW op \in Ops, NEW r \in Name, NEW arg \in Args
  PROVE  Is(OfRole(op, r, arg), op, r, none, none, arg)
BY CallTyped DEF Is, OfRole

\* A call about a table.
LEMMA OfTableIs ==
  ASSUME NEW op \in Ops, NEW t \in Table, NEW arg \in Args
  PROVE  Is(OfTable(op, t, arg), op, none, none, t, arg)
BY CallTyped DEF Is, OfTable

\* A call about two roles.
LEMMA OfEdgeIs ==
  ASSUME NEW op \in Ops, NEW r \in Name, NEW q \in Name, NEW arg \in Args
  PROVE  Is(OfEdge(op, r, q, arg), op, r, q, none, arg)
BY CallTyped DEF Is, OfEdge

\* A call about a grantee and a table.
LEMMA OfGrantIs ==
  ASSUME NEW op \in Ops, NEW r \in Name \cup {public}, NEW t \in Table, NEW arg \in Args
  PROVE  Is(OfGrant(op, r, t, arg), op, r, none, t, arg)
<1>1. r \in Name \cup {public, none}
  OBVIOUS
<1> QED
  BY <1>1, CallTyped DEF Is, OfGrant

\* The operations there are.
LEMMA OpsAre ==
  {"admin", "exists", "grantor", "owner", "privilege", "may set", "super", "set role", "authorize",
   "insert role", "update role", "rename", "delete role", "delete edges", "creator", "delete edge",
   "insert edge", "no admin", "create table", "drop table", "own", "disown", "forget grants",
   "flags", "flag", "policy", "no policy", "insert grant", "delete grant"} \subseteq Ops
BY DEF Ops, Queries, OfRoles, OfTables

\* The arguments there are: words, ...
LEMMA WordsAre ==
  /\ "" \in Args /\ "CREATE" \in Args /\ "ALTER" \in Args /\ "DROP" \in Args /\ "OWNER" \in Args
  /\ "IF NOT EXISTS" \in Args
BY DEF Args, Words

\* ... and others.
LEMMA OthersAre ==
  /\ BOOLEAN \subseteq Args /\ Privilege \subseteq Args /\ Given \subseteq Args /\ Flags \subseteq Args
BY AccessAssumption DEF Args, Words

\* A call that nothing must follow.
Quiet(c) == c.op \notin Final \cup {"insert role", "delete role", "create table", "drop table",
                                  "disown", "delete edges"}

Plain(q) ==
  \A i \in 1..Len(q) :
    /\ Fits(q[i])
    /\ Quiet(q[i]) \/ (i = Len(q) /\ q[i].op \in {"update role", "rename"})

\* Handlers of quiet calls but for the last.
LEMMA PlainOpens ==
  ASSUME NEW q \in Seq(Calls), Len(q) \in 1..5, Plain(q)
  PROVE  Opens(q)
<1>1. Handler(q)
  <2>1. ASSUME NEW i \in 1..Len(q) PROVE Followed(q, i)
    <3>1. CASE Quiet(q[i])
      BY <3>1 DEF Followed, Quiet
    <3>2. CASE i = Len(q) /\ q[i].op \in {"update role", "rename"}
      BY <3>2 DEF Followed
    <3> QED
      BY <3>1, <3>2 DEF Plain
  <2>4. ASSUME NEW i \in 1..Len(q) PROVE Precedes(q, i)
    <3>1. \A j \in 1..Len(q) : q[j].op \notin {"own", "disown"}
      BY DEF Plain, Quiet, Final
    <3>2. i < Len(q) => i + 1 \in 1..Len(q)
      OBVIOUS
    <3> QED
      BY <3>1, <3>2 DEF Precedes
  <2>2. \A n \in 1..5 : n <= 5
    OBVIOUS
  <2>3. Len(q) <= 5
    BY <2>2
  <2> QED
    BY <2>1, <2>3, <2>4 DEF Handler, Plain
<1>2. q # <<>> /\ Head(q) = q[1] /\ 1 \in 1..Len(q) /\ DOMAIN q = 1..Len(q)
  <2>1. Len(q) \in Nat /\ Len(q) # 0
    OBVIOUS
  <2> QED
    BY <2>1
<1>3. \A c \in Range(q) : Quiet(c) \/ c.op \in {"update role", "rename"}
  BY <1>2 DEF Range, Plain
<1>4. \A c \in Range(q) : c.op \notin {"creator", "insert edge", "own", "disown", "delete edges"}
  BY <1>3 DEF Quiet, Final
<1>5. Head(q) \in Range(q)
  BY <1>2 DEF Range
<1> QED
  BY <1>1, <1>2, <1>4, <1>5 DEF Opens

\* One, two and three of them.
LEMMA PlainTuples ==
  /\ \A c \in Calls : Fits(c) /\ Quiet(c) => Opens(<<c>>)
  /\ \A c, d \in Calls :
       /\ Fits(c) /\ Quiet(c) /\ Fits(d)
       /\ Quiet(d) \/ d.op \in {"update role", "rename"}
       => Opens(<<c, d>>)
  /\ \A c, d, e \in Calls :
       Fits(c) /\ Quiet(c) /\ Fits(d) /\ Quiet(d) /\ Fits(e) /\ Quiet(e) => Opens(<<c, d, e>>)
<1>1. ASSUME NEW c \in Calls, Fits(c), Quiet(c) PROVE Opens(<<c>>)
  <2>1. <<c>> \in Seq(Calls) /\ Len(<<c>>) = 1 /\ <<c>>[1] = c
    OBVIOUS
  <2>2. \A i \in 1..1 : i = 1
    OBVIOUS
  <2>3. Len(<<c>>) \in 1..5
    BY <2>1
  <2>4. Plain(<<c>>)
    BY <1>1, <2>1, <2>2 DEF Plain
  <2> QED
    BY <2>1, <2>3, <2>4, PlainOpens
<1>2. ASSUME NEW c \in Calls, NEW d \in Calls, Fits(c), Quiet(c), Fits(d),
             Quiet(d) \/ d.op \in {"update role", "rename"}
      PROVE  Opens(<<c, d>>)
  <2>1. PICK q : q = <<c, d>>
    OBVIOUS
  <2>2. q \in Seq(Calls) /\ Len(q) = 2 /\ q[1] = c /\ q[2] = d
    BY <2>1
  <2>3. Len(q) \in 1..5 /\ \A i \in 1..Len(q) : i = 1 \/ (i = 2 /\ i = Len(q))
    BY <2>2
  <2>4. Plain(q)
    BY <1>2, <2>2, <2>3 DEF Plain
  <2>5. Opens(q)
    BY <2>2, <2>3, <2>4, PlainOpens
  <2> QED
    BY <2>1, <2>5
<1>3. ASSUME NEW c \in Calls, NEW d \in Calls, NEW e \in Calls, Fits(c), Quiet(c), Fits(d), Quiet(d),
             Fits(e), Quiet(e)
      PROVE  Opens(<<c, d, e>>)
  <2>1. PICK q : q = <<c, d, e>>
    OBVIOUS
  <2>2. q \in Seq(Calls) /\ Len(q) = 3 /\ q[1] = c /\ q[2] = d /\ q[3] = e
    BY <2>1
  <2>3. Len(q) \in 1..5 /\ \A i \in 1..Len(q) : i = 1 \/ i = 2 \/ i = 3
    BY <2>2
  <2>4. Plain(q)
    BY <1>3, <2>2, <2>3 DEF Plain
  <2>5. Opens(q)
    BY <2>2, <2>3, <2>4, PlainOpens
  <2> QED
    BY <2>1, <2>5
<1> QED
  BY <1>1, <1>2, <1>3

MakesRole(c, d, e) ==
  Quiet(c) /\ d.op = "insert role" /\ e.op = "creator" /\ e.role = d.role

\* CREATE ROLE: the creator's edge comes last.
LEMMA RoleMade ==
  ASSUME NEW c \in Calls, NEW d \in Calls, NEW e \in Calls,
         Fits(c), Fits(d), Fits(e),
         MakesRole(c, d, e)
  PROVE  Opens(<<c, d, e>>)
<1>1. PICK q : q = <<c, d, e>>
  OBVIOUS
<1>2. q \in Seq(Calls) /\ Len(q) = 3 /\ DOMAIN q = 1..3
  BY <1>1
<1>3. q[1] = c /\ q[2] = d /\ q[3] = e
  BY <1>1
<1>4. \A i \in 1..3 : i = 1 \/ i = 2 \/ i = 3
  OBVIOUS
<1>5. Followed(q, 1) /\ Followed(q, 2) /\ Followed(q, 3)
  <2>0. 1 + 1 = 2 /\ 2 + 1 = 3 /\ 3 + 1 = 4
    OBVIOUS
  <2>1. Followed(q, 1)
    BY <1>2, <1>3, <2>0 DEF Followed, Quiet, Final, MakesRole
  <2>2. Followed(q, 2)
    BY <1>2, <1>3, <2>0 DEF Followed, Quiet, Final, MakesRole
  <2>3. Followed(q, 3)
    BY <1>2, <1>3, <2>0 DEF Followed, Quiet, Final, MakesRole
  <2> QED
    BY <2>1, <2>2, <2>3
<1>10. \A i \in 1..3 : Precedes(q, i)
  <2>0. 1 + 1 = 2 /\ 2 + 1 = 3 /\ 3 + 1 = 4 /\ 4 + 1 = 5
    OBVIOUS
  <2>1. Precedes(q, 1)
    BY <1>2, <1>3, <2>0 DEF Precedes, Quiet, Final, MakesRole
  <2>2. Precedes(q, 2)
    BY <1>2, <1>3, <2>0 DEF Precedes, Quiet, Final, MakesRole
  <2>3. Precedes(q, 3)
    BY <1>2, ~(3 < 3) DEF Precedes
  <2> QED
    BY <1>4, <2>1, <2>2, <2>3
<1>6. Handler(q)
  BY <1>2, <1>3, <1>4, <1>5, <1>10 DEF Handler
<1>7. q # <<>> /\ Head(q) = c
  BY <1>1
<1>8. Range(q) = {c, d, e}
  BY <1>2, <1>3, <1>4 DEF Range
<1>9. Opens(q)
  BY <1>6, <1>7, <1>8 DEF Opens, Vouches, Quiet, Final, MakesRole
<1> QED
  BY <1>1, <1>9

DropsRole(c, d, e) ==
  Quiet(c) /\ d.op = "delete role" /\ e.op = "delete edges" /\ e.role = d.role

\* DROP ROLE: the edges go after the role.
LEMMA RoleDropped ==
  ASSUME NEW c \in Calls, NEW d \in Calls, NEW e \in Calls,
         Fits(c), Fits(d), Fits(e),
         DropsRole(c, d, e)
  PROVE  Opens(<<c, d, e>>)
<1>1. PICK q : q = <<c, d, e>>
  OBVIOUS
<1>2. q \in Seq(Calls) /\ Len(q) = 3 /\ DOMAIN q = 1..3
  BY <1>1
<1>3. q[1] = c /\ q[2] = d /\ q[3] = e
  BY <1>1
<1>4. \A i \in 1..3 : i = 1 \/ i = 2 \/ i = 3
  OBVIOUS
<1>5. Followed(q, 1) /\ Followed(q, 2) /\ Followed(q, 3)
  <2>0. 1 + 1 = 2 /\ 2 + 1 = 3 /\ 3 + 1 = 4
    OBVIOUS
  <2>1. Followed(q, 1)
    BY <1>2, <1>3, <2>0 DEF Followed, Quiet, Final, DropsRole
  <2>2. Followed(q, 2)
    BY <1>2, <1>3, <2>0 DEF Followed, Quiet, Final, DropsRole
  <2>3. Followed(q, 3)
    BY <1>2, <1>3, <2>0 DEF Followed, Quiet, Final, DropsRole
  <2> QED
    BY <2>1, <2>2, <2>3
<1>10. \A i \in 1..3 : Precedes(q, i)
  <2>0. 1 + 1 = 2 /\ 2 + 1 = 3 /\ 3 + 1 = 4 /\ 4 + 1 = 5
    OBVIOUS
  <2>1. Precedes(q, 1)
    BY <1>2, <1>3, <2>0 DEF Precedes, Quiet, Final, DropsRole
  <2>2. Precedes(q, 2)
    BY <1>2, <1>3, <2>0 DEF Precedes, Quiet, Final, DropsRole
  <2>3. Precedes(q, 3)
    BY <1>2, ~(3 < 3) DEF Precedes
  <2> QED
    BY <1>4, <2>1, <2>2, <2>3
<1>6. Handler(q)
  BY <1>2, <1>3, <1>4, <1>5, <1>10 DEF Handler
<1>7. q # <<>> /\ Head(q) = c
  BY <1>1
<1>8. Range(q) = {c, d, e}
  BY <1>2, <1>3, <1>4 DEF Range
<1>9. Opens(q)
  BY <1>6, <1>7, <1>8 DEF Opens, Vouches, Quiet, Final, DropsRole
<1> QED
  BY <1>1, <1>9

MakesTable(c, d) ==
  c.op = "create table" /\ d.op = "own" /\ d.table = c.table

\* CREATE TABLE: its owner is recorded after it.
LEMMA TableMade ==
  ASSUME NEW c \in Calls, NEW d \in Calls,
         Fits(c), Fits(d),
         MakesTable(c, d)
  PROVE  Opens(<<c, d>>)
<1>1. PICK q : q = <<c, d>>
  OBVIOUS
<1>2. q \in Seq(Calls) /\ Len(q) = 2 /\ DOMAIN q = 1..2
  BY <1>1
<1>3. q[1] = c /\ q[2] = d
  BY <1>1
<1>4. \A i \in 1..2 : i = 1 \/ i = 2
  OBVIOUS
<1>5. Followed(q, 1) /\ Followed(q, 2)
  <2>0. 1 + 1 = 2 /\ 2 + 1 = 3 /\ 3 + 1 = 4
    OBVIOUS
  <2>1. Followed(q, 1)
    BY <1>2, <1>3, <2>0 DEF Followed, Quiet, Final, MakesTable
  <2>2. Followed(q, 2)
    BY <1>2, <1>3, <2>0 DEF Followed, Quiet, Final, MakesTable
  <2> QED
    BY <2>1, <2>2
<1>10. \A i \in 1..2 : Precedes(q, i)
  <2>0. 1 + 1 = 2 /\ 2 + 1 = 3 /\ 3 + 1 = 4 /\ 4 + 1 = 5
    OBVIOUS
  <2>1. Precedes(q, 1)
    BY <1>2, <1>3, <2>0 DEF Precedes, Quiet, Final, MakesTable
  <2>2. Precedes(q, 2)
    BY <1>2, ~(2 < 2) DEF Precedes
  <2> QED
    BY <1>4, <2>1, <2>2
<1>6. Handler(q)
  BY <1>2, <1>3, <1>4, <1>5, <1>10 DEF Handler
<1>7. q # <<>> /\ Head(q) = c
  BY <1>1
<1>8. Range(q) = {c, d}
  BY <1>2, <1>3, <1>4 DEF Range
<1>9. Opens(q)
  BY <1>6, <1>7, <1>8 DEF Opens, Vouches, Quiet, Final, MakesTable
<1> QED
  BY <1>1, <1>9

DropsTable(c, d, e, f) ==
  Quiet(c) /\ d.op = "drop table" /\ e.op = "disown" /\ e.table = d.table /\ Quiet(f)

\* DROP TABLE: its owner is forgotten after it.
LEMMA TableDropped ==
  ASSUME NEW c \in Calls, NEW d \in Calls, NEW e \in Calls, NEW f \in Calls,
         Fits(c), Fits(d), Fits(e), Fits(f),
         DropsTable(c, d, e, f)
  PROVE  Opens(<<c, d, e, f>>)
<1>1. PICK q : q = <<c, d, e, f>>
  OBVIOUS
<1>2. q \in Seq(Calls) /\ Len(q) = 4 /\ DOMAIN q = 1..4
  BY <1>1
<1>3. q[1] = c /\ q[2] = d /\ q[3] = e /\ q[4] = f
  BY <1>1
<1>4. \A i \in 1..4 : i = 1 \/ i = 2 \/ i = 3 \/ i = 4
  OBVIOUS
<1>5. Followed(q, 1) /\ Followed(q, 2) /\ Followed(q, 3) /\ Followed(q, 4)
  <2>0. 1 + 1 = 2 /\ 2 + 1 = 3 /\ 3 + 1 = 4
    OBVIOUS
  <2>1. Followed(q, 1)
    BY <1>2, <1>3, <2>0 DEF Followed, Quiet, Final, DropsTable
  <2>2. Followed(q, 2)
    <3>1. 2 < Len(q) /\ q[2 + 1] = e
      BY <1>2, <1>3, <2>0
    <3>2. d.op = "drop table" /\ e.op = "disown" /\ e.table = d.table
      BY DEF DropsTable
    <3> QED
      BY <1>3, <3>1, <3>2 DEF Followed, Final
  <2>3. Followed(q, 3)
    BY <1>2, <1>3, <2>0 DEF Followed, Quiet, Final, DropsTable
  <2>4. Followed(q, 4)
    BY <1>2, <1>3, <2>0 DEF Followed, Quiet, Final, DropsTable
  <2> QED
    BY <2>1, <2>2, <2>3, <2>4
<1>10. \A i \in 1..4 : Precedes(q, i)
  <2>0. 1 + 1 = 2 /\ 2 + 1 = 3 /\ 3 + 1 = 4 /\ 4 + 1 = 5
    OBVIOUS
  <2>1. Precedes(q, 1)
    BY <1>2, <1>3, <2>0 DEF Precedes, Quiet, Final, DropsTable
  <2>2. Precedes(q, 2)
    BY <1>2, <1>3, <2>0 DEF Precedes, Quiet, Final, DropsTable
  <2>3. Precedes(q, 3)
    BY <1>2, <1>3, <2>0 DEF Precedes, Quiet, Final, DropsTable
  <2>4. Precedes(q, 4)
    BY <1>2, ~(4 < 4) DEF Precedes
  <2> QED
    BY <1>4, <2>1, <2>2, <2>3, <2>4
<1>6. Handler(q)
  BY <1>2, <1>3, <1>4, <1>5, <1>10 DEF Handler
<1>7. q # <<>> /\ Head(q) = c
  BY <1>1
<1>8. Range(q) = {c, d, e, f}
  BY <1>2, <1>3, <1>4 DEF Range
<1>9. Opens(q)
  BY <1>6, <1>7, <1>8 DEF Opens, Vouches, Quiet, Final, DropsTable
<1> QED
  BY <1>1, <1>9

MakesEdge(c, d, e, f, g) ==
  Quiet(c) /\ d.op = "exists" /\ e.op = "exists" /\ Quiet(f) /\
  g.op = "insert edge" /\ g.role = d.role /\ g.to = e.role

\* GRANT of a role: both are looked up before the edge is made.
LEMMA EdgeMade ==
  ASSUME NEW c \in Calls, NEW d \in Calls, NEW e \in Calls, NEW f \in Calls, NEW g \in Calls,
         Fits(c), Fits(d), Fits(e), Fits(f), Fits(g),
         MakesEdge(c, d, e, f, g)
  PROVE  Opens(<<c, d, e, f, g>>)
<1>1. PICK q : q = <<c, d, e, f, g>>
  OBVIOUS
<1>2. q \in Seq(Calls) /\ Len(q) = 5 /\ DOMAIN q = 1..5
  BY <1>1
<1>3. q[1] = c /\ q[2] = d /\ q[3] = e /\ q[4] = f /\ q[5] = g
  BY <1>1
<1>4. \A i \in 1..5 : i = 1 \/ i = 2 \/ i = 3 \/ i = 4 \/ i = 5
  OBVIOUS
<1>5. Followed(q, 1) /\ Followed(q, 2) /\ Followed(q, 3) /\ Followed(q, 4) /\ Followed(q, 5)
  <2>0. 1 + 1 = 2 /\ 2 + 1 = 3 /\ 3 + 1 = 4
    OBVIOUS
  <2>1. Followed(q, 1)
    BY <1>2, <1>3, <2>0 DEF Followed, Quiet, Final, MakesEdge
  <2>2. Followed(q, 2)
    BY <1>2, <1>3, <2>0 DEF Followed, Quiet, Final, MakesEdge
  <2>3. Followed(q, 3)
    BY <1>2, <1>3, <2>0 DEF Followed, Quiet, Final, MakesEdge
  <2>4. Followed(q, 4)
    BY <1>2, <1>3, <2>0 DEF Followed, Quiet, Final, MakesEdge
  <2>5. Followed(q, 5)
    BY <1>2, <1>3, <2>0 DEF Followed, Quiet, Final, MakesEdge
  <2> QED
    BY <2>1, <2>2, <2>3, <2>4, <2>5
<1>10. \A i \in 1..5 : Precedes(q, i)
  <2>0. 1 + 1 = 2 /\ 2 + 1 = 3 /\ 3 + 1 = 4 /\ 4 + 1 = 5
    OBVIOUS
  <2>1. Precedes(q, 1)
    BY <1>2, <1>3, <2>0 DEF Precedes, Quiet, Final, MakesEdge
  <2>2. Precedes(q, 2)
    BY <1>2, <1>3, <2>0 DEF Precedes, Quiet, Final, MakesEdge
  <2>3. Precedes(q, 3)
    BY <1>2, <1>3, <2>0 DEF Precedes, Quiet, Final, MakesEdge
  <2>4. Precedes(q, 4)
    BY <1>2, <1>3, <2>0 DEF Precedes, Quiet, Final, MakesEdge
  <2>5. Precedes(q, 5)
    BY <1>2, ~(5 < 5) DEF Precedes
  <2> QED
    BY <1>4, <2>1, <2>2, <2>3, <2>4, <2>5
<1>6. Handler(q)
  BY <1>2, <1>3, <1>4, <1>5, <1>10 DEF Handler
<1>7. q # <<>> /\ Head(q) = c
  BY <1>1
<1>8. Range(q) = {c, d, e, f, g}
  BY <1>2, <1>3, <1>4 DEF Range
<1>9. Opens(q)
  BY <1>6, <1>7, <1>8 DEF Opens, Vouches, Quiet, Final, MakesEdge
<1> QED
  BY <1>1, <1>9

\* Calls that nothing must follow fit what they are about.
LEMMA QuietCalls ==
  ASSUME NEW c, NEW op, NEW r, NEW q, NEW t, NEW arg, Is(c, op, r, q, t, arg)
  PROVE  /\ op \in {"admin", "grantor", "owner", "privilege", "may set", "super", "delete grant"}
               => Quiet(c) /\ Fits(c)
         /\ op \in {"exists", "set role", "authorize", "delete edge", "no admin"} /\ r \in Name
               => Quiet(c) /\ Fits(c)
         /\ op \in {"forget grants", "flags", "policy", "no policy"} /\ t \in Table
               => Quiet(c) /\ Fits(c)
         /\ op = "flag" /\ t \in Table /\ arg \in Flags => Quiet(c) /\ Fits(c)
         /\ op = "insert grant" /\ t \in Table /\ r \in Name \cup {public} /\ arg \in Privilege
               => Quiet(c) /\ Fits(c)
<1>1. c.op = op /\ c.role = r /\ c.table = t /\ c.arg = arg
  BY DEF Is
<1>2. ASSUME op \in {"admin", "grantor", "owner", "privilege", "may set", "super", "delete grant"}
      PROVE  Quiet(c) /\ Fits(c)
  BY <1>1, <1>2 DEF Quiet, Fits, Final, OfRoles, OfPairs, OfTables
<1>3. ASSUME op \in {"exists", "set role", "authorize", "delete edge", "no admin"}, r \in Name
      PROVE  Quiet(c) /\ Fits(c)
  BY <1>1, <1>3 DEF Quiet, Fits, Final, OfRoles, OfPairs, OfTables
<1>4. ASSUME op \in {"forget grants", "flags", "policy", "no policy"}, t \in Table
      PROVE  Quiet(c) /\ Fits(c)
  BY <1>1, <1>4 DEF Quiet, Fits, Final, OfRoles, OfPairs, OfTables
<1>5. ASSUME op = "flag", t \in Table, arg \in Flags
      PROVE  Quiet(c) /\ Fits(c)
  BY <1>1, <1>5 DEF Quiet, Fits, Final, OfRoles, OfPairs, OfTables
<1>6. ASSUME op = "insert grant", t \in Table, r \in Name \cup {public}, arg \in Privilege
      PROVE  Quiet(c) /\ Fits(c)
  BY <1>1, <1>6 DEF Quiet, Fits, Final, OfRoles, OfPairs, OfTables
<1> QED
  BY <1>2, <1>3, <1>4, <1>5, <1>6

\* CREATE, ALTER and DROP ROLE.
LEMMA RoleStatements ==
  ASSUME Typed, NEW s \in Session, RoleStatement(s)
  PROVE  Launch(s)
<1>1. currentRole[s] \in Name
  BY DEF Typed
<1>2. PICK r \in Name :
        \/ \E a \in Given : createRole(s, r, a) \/ alterRole(s, r, a)
        \/ \E q \in Name \ {r} : renameRole(s, r, q)
        \/ dropRole(s, r)
  BY DEF RoleStatement
<1>3. ASSUME NEW a \in Given, createRole(s, r, a) PROVE Launch(s)
  <2>1. PICK c : c = OfRole("admin", r, "CREATE")
    OBVIOUS
  <2>2. PICK d : d = OfRole("insert role", r, a)
    OBVIOUS
  <2>3. PICK e : e = OfEdge("creator", r, currentRole[s], TRUE)
    OBVIOUS
  <2>4. Is(c, "admin", r, none, none, "CREATE")
    BY <2>1, OfRoleIs, OfEdgeIs, WordsAre, OpsAre
  <2>5. Is(d, "insert role", r, none, none, a)
    BY <2>2, OfRoleIs, OthersAre, OpsAre
  <2>6. Is(e, "creator", r, currentRole[s], none, TRUE)
    BY <1>1, <2>3, OfEdgeIs, OthersAre, OpsAre
  <2>7. Quiet(c) /\ Fits(c)
    BY <2>4, QuietCalls
  <2>8. a \in Attributes
    BY AccessAssumption
  <2>9. Fits(d) /\ Fits(e)
    BY <1>1, <2>5, <2>6, <2>8 DEF Is, Fits, OfRoles, OfPairs, OfTables
  <2>10. c \in Calls /\ d \in Calls /\ e \in Calls /\ MakesRole(c, d, e)
    BY <2>4, <2>5, <2>6, <2>7 DEF Is, MakesRole
  <2>11. Opens(<<c, d, e>>)
    BY <2>7, <2>9, <2>10, RoleMade
  <2>12. Starts(s, <<c, d, e>>)
    BY <1>3, <2>1, <2>2, <2>3 DEF createRole
  <2> QED
    BY <2>11, <2>12 DEF Launch
<1>4. ASSUME NEW a \in Given, alterRole(s, r, a) PROVE Launch(s)
  <2>1. PICK c : c = OfRole("admin", r, "ALTER")
    OBVIOUS
  <2>2. PICK d : d = OfRole("update role", r, a)
    OBVIOUS
  <2>3. Is(c, "admin", r, none, none, "ALTER") /\ Is(d, "update role", r, none, none, a)
    BY <2>1, <2>2, OfRoleIs, WordsAre, OthersAre, OpsAre
  <2>4. Quiet(c) /\ Fits(c)
    BY <2>3, QuietCalls
  <2>5. a \in Attributes
    BY AccessAssumption
  <2>6. Fits(d) /\ d.op = "update role" /\ c \in Calls /\ d \in Calls
    BY <2>3, <2>5 DEF Is, Fits, OfRoles, OfPairs, OfTables
  <2>7. Opens(<<c, d>>)
    BY <2>4, <2>6, PlainTuples
  <2>8. Starts(s, <<c, d>>)
    BY <1>4, <2>1, <2>2 DEF alterRole
  <2> QED
    BY <2>7, <2>8 DEF Launch
<1>5. ASSUME NEW q \in Name, renameRole(s, r, q) PROVE Launch(s)
  <2>1. PICK c : c = OfRole("admin", r, "ALTER")
    OBVIOUS
  <2>2. PICK d : d = OfEdge("rename", r, q, "")
    OBVIOUS
  <2>3. Is(c, "admin", r, none, none, "ALTER") /\ Is(d, "rename", r, q, none, "")
    BY <2>1, <2>2, OfRoleIs, OfEdgeIs, WordsAre, OpsAre
  <2>4. Quiet(c) /\ Fits(c)
    BY <2>3, QuietCalls
  <2>5. Fits(d) /\ d.op = "rename" /\ c \in Calls /\ d \in Calls
    BY <2>3 DEF Is, Fits, OfRoles, OfPairs, OfTables
  <2>6. Opens(<<c, d>>)
    BY <2>4, <2>5, PlainTuples
  <2>7. Starts(s, <<c, d>>)
    BY <1>5, <2>1, <2>2 DEF renameRole
  <2> QED
    BY <2>6, <2>7 DEF Launch
<1>6. ASSUME dropRole(s, r) PROVE Launch(s)
  <2>1. PICK c : c = OfRole("admin", r, "DROP")
    OBVIOUS
  <2>2. PICK d : d = OfRole("delete role", r, "")
    OBVIOUS
  <2>3. PICK e : e = OfRole("delete edges", r, "")
    OBVIOUS
  <2>4. Is(c, "admin", r, none, none, "DROP")
    BY <2>1, OfRoleIs, OfEdgeIs, WordsAre, OpsAre
  <2>5. Is(d, "delete role", r, none, none, "") /\ Is(e, "delete edges", r, none, none, "")
    BY <2>2, <2>3, OfRoleIs, OfEdgeIs, WordsAre, OpsAre
  <2>6. Quiet(c) /\ Fits(c)
    BY <2>4, QuietCalls
  <2>7. Fits(d) /\ Fits(e)
    BY <2>5 DEF Is, Fits, OfRoles, OfPairs, OfTables
  <2>8. c \in Calls /\ d \in Calls /\ e \in Calls /\ DropsRole(c, d, e)
    BY <2>4, <2>5, <2>6 DEF Is, DropsRole
  <2>9. Opens(<<c, d, e>>)
    BY <2>6, <2>7, <2>8, RoleDropped
  <2>10. Starts(s, <<c, d, e>>)
    BY <1>6, <2>1, <2>2, <2>3 DEF dropRole
  <2> QED
    BY <2>9, <2>10 DEF Launch
<1> QED
  BY <1>2, <1>3, <1>4, <1>5, <1>6

\* GRANT and REVOKE of roles.
LEMMA MemberStatements ==
  ASSUME NEW s \in Session, MemberStatement(s)
  PROVE  Launch(s)
<1>1. PICK r \in Name, q \in Name, b \in BOOLEAN : grantRole(s, r, q, b) \/ revokeRole(s, r, q, b)
  BY DEF MemberStatement
<1>2. PICK c : c = OfRole("grantor", r, "")
  OBVIOUS
<1>3. Is(c, "grantor", r, none, none, "")
  BY <1>2, OfRoleIs, OfEdgeIs, WordsAre, OpsAre
<1>4. Quiet(c) /\ Fits(c) /\ c \in Calls
  BY <1>3, QuietCalls DEF Is
<1>5. PICK f : f = OfEdge("delete edge", r, q, "")
  OBVIOUS
<1>6. Is(f, "delete edge", r, q, none, "")
  BY <1>5, OfRoleIs, OfEdgeIs, WordsAre, OpsAre
<1>7. Quiet(f) /\ Fits(f) /\ f \in Calls
  BY <1>6, QuietCalls DEF Is
<1>8. CASE grantRole(s, r, q, b)
  <2>1. PICK d : d = OfRole("exists", r, "")
    OBVIOUS
  <2>2. PICK e : e = OfRole("exists", q, "")
    OBVIOUS
  <2>3. PICK g : g = OfEdge("insert edge", r, q, b)
    OBVIOUS
  <2>4. Is(d, "exists", r, none, none, "") /\ Is(e, "exists", q, none, none, "")
    BY <2>1, <2>2, OfRoleIs, OfEdgeIs, WordsAre, OpsAre
  <2>5. Is(g, "insert edge", r, q, none, b)
    BY <2>3, OfEdgeIs, OthersAre, OpsAre
  <2>6. Quiet(d) /\ Fits(d) /\ Quiet(e) /\ Fits(e)
    BY <2>4, QuietCalls
  <2>7. Fits(g)
    BY <2>5 DEF Is, Fits, OfRoles, OfPairs, OfTables
  <2>8. d \in Calls /\ e \in Calls /\ g \in Calls /\ MakesEdge(c, d, e, f, g)
    BY <1>4, <1>7, <2>4, <2>5 DEF Is, MakesEdge
  <2>9. Opens(<<c, d, e, f, g>>)
    BY <1>4, <1>7, <2>6, <2>7, <2>8, EdgeMade
  <2>10. Starts(s, <<c, d, e, f, g>>)
    BY <1>2, <1>5, <1>8, <2>1, <2>2, <2>3 DEF grantRole
  <2> QED
    BY <2>9, <2>10 DEF Launch
<1>9. CASE revokeRole(s, r, q, b)
  <2>1. PICK g : g = OfEdge("no admin", r, q, "")
    OBVIOUS
  <2>2. Is(g, "no admin", r, q, none, "")
    BY <2>1, OfRoleIs, OfEdgeIs, WordsAre, OpsAre
  <2>3. Quiet(g) /\ Fits(g) /\ g \in Calls
    BY <2>2, QuietCalls DEF Is
  <2>4. Opens(<<c, f>>) /\ Opens(<<c, g>>)
    BY <1>4, <1>7, <2>3, PlainTuples
  <2>5. Starts(s, <<c, f>>) \/ Starts(s, <<c, g>>)
    BY <1>2, <1>5, <1>9, <2>1 DEF revokeRole
  <2> QED
    BY <2>4, <2>5 DEF Launch
<1> QED
  BY <1>1, <1>8, <1>9

\* SET and RESET ROLE and SESSION AUTHORIZATION.
LEMMA IdentityStatements ==
  ASSUME NEW s \in Session, IdentityStatement(s)
  PROVE  Launch(s) \/ \E authorization \in BOOLEAN : reset(s, authorization)
<1>1. ASSUME NEW r \in Name, setRole(s, r) PROVE Launch(s)
  <2>1. PICK c : c = OfRole("exists", r, "")
    OBVIOUS
  <2>2. PICK d : d = OfRole("may set", r, "")
    OBVIOUS
  <2>3. PICK e : e = OfRole("set role", r, "")
    OBVIOUS
  <2>4. Is(c, "exists", r, none, none, "") /\ Is(d, "may set", r, none, none, "")
    BY <2>1, <2>2, OfRoleIs, WordsAre, OpsAre
  <2>5. Is(e, "set role", r, none, none, "")
    BY <2>3, OfRoleIs, WordsAre, OpsAre
  <2>6. Quiet(c) /\ Fits(c) /\ Quiet(d) /\ Fits(d) /\ Quiet(e) /\ Fits(e)
    BY <2>4, <2>5, QuietCalls
  <2>7. c \in Calls /\ d \in Calls /\ e \in Calls
    BY <2>4, <2>5 DEF Is
  <2>8. Opens(<<c, d, e>>)
    BY <2>6, <2>7, PlainTuples
  <2>9. Starts(s, <<c, d, e>>)
    BY <1>1, <2>1, <2>2, <2>3 DEF setRole
  <2> QED
    BY <2>8, <2>9 DEF Launch
<1>2. ASSUME NEW r \in Name, setSessionAuthorization(s, r) PROVE Launch(s)
  <2>1. PICK c : c = OfRole("super", r, "")
    OBVIOUS
  <2>2. PICK d : d = OfRole("exists", r, "")
    OBVIOUS
  <2>3. PICK e : e = OfRole("authorize", r, "")
    OBVIOUS
  <2>4. Is(c, "super", r, none, none, "") /\ Is(d, "exists", r, none, none, "")
    BY <2>1, <2>2, OfRoleIs, WordsAre, OpsAre
  <2>5. Is(e, "authorize", r, none, none, "")
    BY <2>3, OfRoleIs, WordsAre, OpsAre
  <2>6. Quiet(c) /\ Fits(c) /\ Quiet(d) /\ Fits(d) /\ Quiet(e) /\ Fits(e)
    BY <2>4, <2>5, QuietCalls
  <2>7. c \in Calls /\ d \in Calls /\ e \in Calls
    BY <2>4, <2>5 DEF Is
  <2>8. Opens(<<c, d, e>>)
    BY <2>6, <2>7, PlainTuples
  <2>9. Starts(s, <<c, d, e>>)
    BY <1>2, <2>1, <2>2, <2>3 DEF setSessionAuthorization
  <2> QED
    BY <2>8, <2>9 DEF Launch
<1> QED
  BY <1>1, <1>2 DEF IdentityStatement

\* CREATE TABLE, DROP TABLE, and what needs a privilege.
LEMMA TableStatements ==
  ASSUME NEW s \in Session, TableStatement(s)
  PROVE  Launch(s)
<1>1. PICK t \in Table :
        \/ \E b \in BOOLEAN : createTable(s, t, b)
        \/ dropTable(s, t)
        \/ \E p \in Privilege \ {"ALL"} : checkPrivileges(s, t, p)
  BY DEF TableStatement
<1>2. ASSUME NEW b \in BOOLEAN, createTable(s, t, b) PROVE Launch(s)
  <2>1. PICK arg \in {"", "IF NOT EXISTS"} : arg = IF b THEN "IF NOT EXISTS" ELSE ""
    OBVIOUS
  <2>2. PICK c : c = OfTable("create table", t, arg)
    OBVIOUS
  <2>3. PICK d : d = OfTable("own", t, "")
    OBVIOUS
  <2>4. arg \in Args
    BY <2>1, WordsAre
  <2>5. Is(c, "create table", none, none, t, arg) /\ Is(d, "own", none, none, t, "")
    BY <2>2, <2>3, <2>4, OfTableIs, WordsAre, OpsAre
  <2>6. Fits(c) /\ Fits(d) /\ c \in Calls /\ d \in Calls /\ MakesTable(c, d)
    BY <2>5 DEF Is, Fits, OfRoles, OfPairs, OfTables, MakesTable
  <2>7. Opens(<<c, d>>)
    BY <2>6, TableMade
  <2>8. Starts(s, <<c, d>>)
    BY <1>2, <2>1, <2>2, <2>3 DEF createTable
  <2> QED
    BY <2>7, <2>8 DEF Launch
<1>3. ASSUME dropTable(s, t) PROVE Launch(s)
  <2>1. PICK c : c = OfTable("privilege", t, "OWNER")
    OBVIOUS
  <2>2. PICK d : d = OfTable("drop table", t, "")
    OBVIOUS
  <2>3. PICK e : e = OfTable("disown", t, "")
    OBVIOUS
  <2>4. PICK f : f = OfTable("forget grants", t, "")
    OBVIOUS
  <2>5. Is(c, "privilege", none, none, t, "OWNER") /\ Is(f, "forget grants", none, none, t, "")
    BY <2>1, <2>4, OfTableIs, WordsAre, OpsAre
  <2>6. Is(d, "drop table", none, none, t, "") /\ Is(e, "disown", none, none, t, "")
    BY <2>2, <2>3, OfTableIs, WordsAre, OpsAre
  <2>7. Quiet(c) /\ Fits(c) /\ Quiet(f) /\ Fits(f)
    BY <2>5, QuietCalls
  <2>8. Fits(d) /\ Fits(e) /\ c \in Calls /\ d \in Calls /\ e \in Calls /\ f \in Calls
    BY <2>5, <2>6 DEF Is, Fits, OfRoles, OfPairs, OfTables
  <2>9. DropsTable(c, d, e, f)
    BY <2>6, <2>7 DEF Is, DropsTable
  <2>10. Opens(<<c, d, e, f>>)
    BY <2>7, <2>8, <2>9, TableDropped
  <2>11. Starts(s, <<c, d, e, f>>)
    BY <1>3, <2>1, <2>2, <2>3, <2>4 DEF dropTable
  <2> QED
    BY <2>10, <2>11 DEF Launch
<1>4. ASSUME NEW p \in Privilege, checkPrivileges(s, t, p) PROVE Launch(s)
  <2>1. PICK c : c = OfTable("privilege", t, p)
    OBVIOUS
  <2>2. Is(c, "privilege", none, none, t, p)
    BY <2>1, OfTableIs, OthersAre, OpsAre
  <2>3. Quiet(c) /\ Fits(c) /\ c \in Calls
    BY <2>2, QuietCalls DEF Is
  <2>4. Opens(<<c>>) /\ Starts(s, <<c>>)
    BY <1>4, <2>1, <2>3, PlainTuples DEF checkPrivileges
  <2> QED
    BY <2>4 DEF Launch
<1> QED
  BY <1>1, <1>2, <1>3, <1>4

\* Policies, row-level security and GRANT on a table.
LEMMA RightsStatements ==
  ASSUME NEW s \in Session, RightsStatement(s)
  PROVE  Launch(s)
<1>1. PICK t \in Table :
        \/ createPolicy(s, t) \/ dropPolicy(s, t)
        \/ \E flag \in {"enabled", "forced"}, value \in BOOLEAN : alterTableRLS(s, t, flag, value)
        \/ \E g \in Name \cup {public}, p \in Privilege, revoke \in BOOLEAN : applyGrant(s, g, t, p, revoke)
  BY DEF RightsStatement
<1>2. PICK c : c = OfTable("owner", t, "")
  OBVIOUS
<1>3. Is(c, "owner", none, none, t, "")
  BY <1>2, OfTableIs, WordsAre, OpsAre
<1>4. Quiet(c) /\ Fits(c) /\ c \in Calls
  BY <1>3, QuietCalls DEF Is
<1>5. ASSUME createPolicy(s, t) PROVE Launch(s)
  <2>1. PICK d : d = OfTable("policy", t, "")
    OBVIOUS
  <2>2. Is(d, "policy", none, none, t, "")
    BY <2>1, OfTableIs, WordsAre, OpsAre
  <2>3. Quiet(d) /\ Fits(d) /\ d \in Calls
    BY <2>2, QuietCalls DEF Is
  <2>4. Opens(<<c, d>>) /\ Starts(s, <<c, d>>)
    BY <1>2, <1>4, <1>5, <2>1, <2>3, PlainTuples DEF createPolicy
  <2> QED
    BY <2>4 DEF Launch
<1>6. ASSUME dropPolicy(s, t) PROVE Launch(s)
  <2>1. PICK d : d = OfTable("no policy", t, "")
    OBVIOUS
  <2>2. Is(d, "no policy", none, none, t, "")
    BY <2>1, OfTableIs, WordsAre, OpsAre
  <2>3. Quiet(d) /\ Fits(d) /\ d \in Calls
    BY <2>2, QuietCalls DEF Is
  <2>4. Opens(<<d>>) /\ Starts(s, <<d>>)
    BY <1>6, <2>1, <2>3, PlainTuples DEF dropPolicy
  <2> QED
    BY <2>4 DEF Launch
<1>7. ASSUME NEW flag \in {"enabled", "forced"}, NEW value \in BOOLEAN, alterTableRLS(s, t, flag, value)
      PROVE  Launch(s)
  <2>1. PICK d : d = OfTable("flags", t, "")
    OBVIOUS
  <2>2. PICK arg \in Flags : arg = <<flag, value>>
    BY DEF Flags
  <2>3. PICK e : e = OfTable("flag", t, arg)
    OBVIOUS
  <2>4. Is(d, "flags", none, none, t, "")
    BY <2>1, OfTableIs, WordsAre, OpsAre
  <2>5. Is(e, "flag", none, none, t, arg)
    BY <2>3, OfTableIs, OthersAre, OpsAre
  <2>6. Quiet(d) /\ Fits(d) /\ d \in Calls
    BY <2>4, QuietCalls DEF Is
  <2>7. Quiet(e) /\ Fits(e) /\ e \in Calls
    BY <2>5, QuietCalls DEF Is
  <2>8. Opens(<<c, d, e>>)
    BY <1>4, <2>6, <2>7, PlainTuples
  <2>9. Starts(s, <<c, d, e>>)
    BY <1>2, <1>7, <2>1, <2>2, <2>3 DEF alterTableRLS
  <2> QED
    BY <2>8, <2>9 DEF Launch
<1>8. ASSUME NEW g \in Name \cup {public}, NEW p \in Privilege, NEW revoke \in BOOLEAN,
             applyGrant(s, g, t, p, revoke)
      PROVE  Launch(s)
  <2>1. PICK d : d = OfGrant("delete grant", g, t, p)
    OBVIOUS
  <2>2. PICK e : e = OfGrant("insert grant", g, t, p)
    OBVIOUS
  <2>3. Is(d, "delete grant", g, none, t, p) /\ Is(e, "insert grant", g, none, t, p)
    BY <2>1, <2>2, OfGrantIs, OthersAre, OpsAre
  <2>4. Quiet(d) /\ Fits(d) /\ d \in Calls /\ Quiet(e) /\ Fits(e) /\ e \in Calls
    BY <2>3, QuietCalls DEF Is
  <2>5. Opens(<<d>>) /\ Opens(<<d, e>>)
    BY <2>4, PlainTuples
  <2>6. Starts(s, <<d>>) \/ Starts(s, <<d, e>>)
    BY <1>8, <2>1, <2>2 DEF applyGrant
  <2> QED
    BY <2>5, <2>6 DEF Launch
<1> QED
  BY <1>1, <1>5, <1>6, <1>7, <1>8

-----------------------------------------------------------------------------
(* Steps that leave the tables alone.                                      *)

\* What is left of the handler of s is q.
Left(s, q) == task' = [task EXCEPT ![s] = q]

TasksKept(s, q) ==
  /\ task' \in [Session -> Seq(Calls)] /\ Handlers'
  /\ task'[s] = q /\ \A x \in Session \ {s} : task'[x] = task[x]

\* The others' handlers stay.
LEMMA TasksStay ==
  ASSUME Typed, Handlers, NEW s \in Session, NEW q, Handler(q), Left(s, q)
  PROVE  TasksKept(s, q)
<1>1. task \in [Session -> Seq(Calls)] /\ q \in Seq(Calls)
  BY DEF Typed, Handler
<1>2. task' \in [Session -> Seq(Calls)]
  BY <1>1 DEF Left
<1>3. task'[s] = q /\ \A x \in Session \ {s} : task'[x] = task[x]
  BY <1>1 DEF Left
<1>4. \A x \in Session : Handler(task'[x])
  BY <1>3 DEF Handlers
<1> QED
  BY <1>2, <1>3, <1>4 DEF TasksKept, Handlers

SameViews == UNCHANGED <<db, work, writer>>

\* While the tables stay as they are, so do the others' views, what they rely on,
\* and what is to be mended.
LEMMA ViewsStay ==
  ASSUME SameViews, NEW s
  PROVE  View(s)' = View(s)
BY DEF SameViews, View

\* The records of n are still to be mended, or disturbed.
LEMMA MendedStays ==
  ASSUME SameViews, NEW s \in Session, NEW q, TasksKept(s, q), disturbed \subseteq disturbed',
         NEW n \in Name \cup Table, Mended(n), Mends(task[s], n) => n \in disturbed' \/ Mends(q, n)
  PROVE  Mended(n)'
<1>1. db' = db /\ work' = work /\ writer' = writer
  BY DEF SameViews
<1>2. \A x \in Session : n \notin disturbed' /\ Mends(task[x], n) => Mends(task'[x], n)
  BY DEF TasksKept
<1>3. n \notin disturbed' => n \notin disturbed
  OBVIOUS
<1> QED
  BY <1>1, <1>2, <1>3 DEF Mended

\* The others still rely on what they did.
LEMMA OthersRely ==
  ASSUME SameViews, NEW s \in Session, NEW q, TasksKept(s, q), disturbed \subseteq disturbed',
         NEW x \in Session \ {s}, Edges(x), Owned(x)
  PROVE  Edges(x)' /\ Owned(x)'
<1>1. View(x)' = View(x) /\ task'[x] = task[x]
  BY ViewsStay DEF TasksKept
<1>2. \A n : Secured(x, n) => Secured(x, n)'
  BY <1>1 DEF Secured
<1>3. Edges(x)'
  BY <1>1, <1>2 DEF Edges
<1>4. Owned(x)'
  BY <1>1 DEF Owned
<1> QED
  BY <1>3, <1>4

\* A handler that has just been started, or is over, relies on nothing that is
\* not the case.
LEMMA OpenedRelies ==
  ASSUME NEW s \in Session, NEW q, task'[s] = q, Opens(q) \/ q = <<>>
  PROVE  Edges(s)' /\ Owned(s)'
<1>1. CASE Opens(q)
  <2>1. \A n : Vouches(q, n) => Secured(s, n)'
    BY DEF Secured
  <2>2. Edges(s)'
    <3>1. \A c \in Range(q) : /\ c.op \in {"creator", "insert edge"} => Vouches(q, c.role)
                              /\ c.op = "insert edge" => Vouches(q, c.to)
      BY <1>1 DEF Opens
    <3>2. \A c \in Range(q) : /\ c.op \in {"creator", "insert edge"} => Secured(s, c.role)'
                              /\ c.op = "insert edge" => Secured(s, c.to)'
      BY <2>1, <3>1
    <3> QED
      BY <3>2 DEF Edges
  <2>3. Owned(s)'
    BY <1>1 DEF Opens, Owned
  <2> QED
    BY <2>2, <2>3
<1>2. CASE q = <<>>
  <2>1. Range(q) = {}
    BY <1>2 DEF Range
  <2>2. Edges(s)' /\ Owned(s)'
    BY <1>2, <2>1 DEF Edges, Owned
  <2> QED
    BY <2>2
<1> QED
  BY <1>1, <1>2

\* The others' caches stay right.
LEMMA CachesStay ==
  ASSUME SameViews, NEW s \in Session, NEW q, TasksKept(s, q), stale \ {s} \subseteq stale',
         NEW x \in Session \ {s}, bypassCache'[x] = bypassCache[x], Cached(x)
  PROVE  Cached(x)'
<1>1. View(x)' = View(x) /\ task'[x] = task[x]
  BY ViewsStay DEF TasksKept
<1>2. Unclear(x)' <=> Unclear(x)
  BY <1>1 DEF Unclear
<1>3. x \notin stale' => x \notin stale
  OBVIOUS
<1> QED
  BY <1>1, <1>2, <1>3 DEF Cached

\* A statement starts.
LEMMA LaunchKeeps ==
  ASSUME IInv, NEW s \in Session, Launch(s)
  PROVE  IInv'
<1>1. PICK q : Opens(q) /\ Starts(s, q)
  BY DEF Launch
<1>2. /\ task[s] = <<>> /\ Left(s, q) /\ asked < MaxAsked /\ asked' = asked + 1
      /\ UNCHANGED <<db, work, writer, failed, sessionUser, currentRole, bypassCache, stale, disturbed>>
  BY <1>1 DEF Starts, Left, txVars, sessionVars
<1>3. TasksKept(s, q)
  BY <1>1, <1>2, TasksStay DEF IInv, Opens
<1>4. SameViews
  BY <1>2 DEF SameViews
<1>5. asked' \in 0..MaxAsked
  BY <1>2, AccessAssumption DEF IInv, Typed
<1>6. Typed'
  BY <1>2, <1>3, <1>5 DEF IInv, Typed, TasksKept
<1>7. \A n \in Name \cup Table : Mended(n)'
  <2>1. \A n : ~Mends(task[s], n)
    BY <1>2 DEF Mends
  <2> QED
    BY <1>2, <1>3, <1>4, <2>1, MendedStays DEF IInv
<1>8. \A x \in Session : Edges(x)' /\ Owned(x)'
  <2>1. Edges(s)' /\ Owned(s)'
    BY <1>1, <1>3, OpenedRelies DEF TasksKept
  <2> QED
    BY <1>2, <1>3, <1>4, <2>1, OthersRely DEF IInv
<1>9. \A x \in Session : Cached(x)'
  <2>1. Cached(s)'
    <3>1. ~Unclear(s) /\ Cached(s) /\ View(s)' = View(s)
      BY <1>2, <1>4, ViewsStay DEF Unclear, IInv
    <3> QED
      BY <1>2, <3>1 DEF Cached
  <2> QED
    BY <1>2, <1>3, <1>4, <2>1, CachesStay DEF IInv
<1>10. Alone'
  BY <1>2 DEF IInv, Alone
<1> QED
  BY <1>3, <1>6, <1>7, <1>8, <1>9, <1>10 DEF IInv, TasksKept

\* RESET.
LEMMA ResetKeeps ==
  ASSUME IInv, NEW s \in Session, NEW b \in BOOLEAN, reset(s, b)
  PROVE  IInv'
<1>1. /\ UNCHANGED <<db, work, writer, failed, task, bypassCache, asked, stale, disturbed>>
  BY DEF reset, txVars
<1>2. sessionUser' \in [Session -> Name] /\ currentRole' \in [Session -> Name]
  <2>1. authUser[s] \in Name /\ sessionUser \in [Session -> Name] /\ currentRole \in [Session -> Name]
    BY AccessAssumption DEF IInv, Typed
  <2>2. sessionUser' \in [Session -> Name]
    BY <2>1 DEF reset
  <2>3. currentRole' = [currentRole EXCEPT ![s] = sessionUser'[s]]
    BY DEF reset
  <2> QED
    BY <2>1, <2>2, <2>3
<1>3. Typed'
  BY <1>1, <1>2 DEF IInv, Typed
<1>4. \A x : View(x)' = View(x)
  BY <1>1 DEF View
<1>5. Handlers' /\ Alone' /\ (\A n \in Name \cup Table : Mended(n)')
  BY <1>1 DEF IInv, Handlers, Alone, Mended
<1>6. \A x \in Session : Cached(x)'
  BY <1>1, <1>4 DEF IInv, Cached, Unclear
<1>7. \A x \in Session : Edges(x)' /\ Owned(x)'
  <2>1. \A x, n : Secured(x, n) => Secured(x, n)'
    BY <1>1, <1>4 DEF Secured
  <2> QED
    BY <1>1, <1>4, <2>1 DEF IInv, Edges, Owned
<1> QED
  BY <1>3, <1>5, <1>6, <1>7 DEF IInv

\* The cache of s with the answer to its question.
Answered(s) == With(bypassCache[s], currentRole[s], privBypass(s))

\* The answer is a Boolean, and if the cache is right, it stays so.
LEMMA AnswerTyped ==
  ASSUME Typed, NEW s \in Session
  PROVE  Answered(s) \in Keyed(Name, BOOLEAN)
<1>1. currentRole[s] \in Name /\ bypassCache[s] \in Keyed(Name, BOOLEAN)
  BY DEF Typed
<1>2. privBypass(s) \in BOOLEAN
  <2>1. currentRole[s] \in DOMAIN bypassCache[s] => bypassCache[s][currentRole[s]] \in BOOLEAN
    BY <1>1, RowTyped
  <2>2. roleBypasses(View(s), currentRole[s]) \in BOOLEAN
    BY DEF roleBypasses
  <2> QED
    BY <2>1, <2>2 DEF privBypass
<1> QED
  BY <1>1, <1>2, WithTyped DEF Answered

\* What s has cached is what the tables say.
Right(cache, s) == \A r \in DOMAIN cache : cache[r] = roleBypasses(View(s), r)

\* An answer that is cached keeps the cache right.
LEMMA AnswerRight ==
  ASSUME NEW s \in Session, Right(bypassCache[s], s)
  PROVE  Right(Answered(s), s)
<1> DEFINE r == currentRole[s]
           a == privBypass(s)
<1>1. a = roleBypasses(View(s), r)
  BY DEF privBypass, Right
<1>2. \A x \in DOMAIN Answered(s) : x \in DOMAIN bypassCache[s] \/ x = r
  BY DEF Answered, With
<1>3. \A x \in DOMAIN Answered(s) : Answered(s)[x] = IF x = r THEN a ELSE bypassCache[s][x]
  BY DEF Answered, With
<1> HIDE DEF r, a
<1> QED
  BY <1>1, <1>2, <1>3 DEF Right

\* The cache of s, after a step that asked or did not.
LEMMA CacheOfAsker ==
  ASSUME IInv, NEW s \in Session, SameViews, ~Unclear(s), stale \subseteq stale',
         bypassCache' = [bypassCache EXCEPT ![s] = Answered(s)] \/ bypassCache' = bypassCache
  PROVE  /\ bypassCache' \in [Session -> Keyed(Name, BOOLEAN)]
         /\ Cached(s)'
         /\ \A x \in Session \ {s} : bypassCache'[x] = bypassCache[x]
<1>1. bypassCache \in [Session -> Keyed(Name, BOOLEAN)]
  BY DEF IInv, Typed
<1>2. Answered(s) \in Keyed(Name, BOOLEAN)
  BY AnswerTyped DEF IInv
<1>3. s \notin stale => Right(bypassCache[s], s) /\ Right(Answered(s), s)
  BY AnswerRight DEF IInv, Cached, Right
<1>4. bypassCache'[s] \in {bypassCache[s], Answered(s)}
  BY <1>1
<1>5. s \notin stale' => Right(bypassCache'[s], s)
  BY <1>3, <1>4
<1>6. View(s)' = View(s)
  BY ViewsStay
<1>7. Cached(s)'
  BY <1>5, <1>6 DEF Cached, Right
<1> QED
  BY <1>1, <1>2, <1>7

\* A query goes on.
LEMMA QueryKeeps ==
  ASSUME IInv, NEW s \in Session, Query(s)
  PROVE  IInv'
<1>1. PICK c : c = Head(task[s])
  OBVIOUS
<1>2. PICK q : q = Tail(task[s])
  OBVIOUS
<1>3. /\ task[s] # <<>> /\ c.op \in Queries \cup {"set role", "authorize"} /\ ~Refused(s, c)
      /\ UNCHANGED <<db, work, writer, failed, asked, stale, disturbed>>
  BY <1>1 DEF Query, GoesOn, txVars
<1>4. Handler(task[s]) /\ task \in [Session -> Seq(Calls)]
  BY DEF IInv, Handlers, Typed
<1>5. /\ c \in Calls /\ Fits(c) /\ Handler(q) /\ Goes(c, q)
      /\ Range(task[s]) = {c} \cup Range(q)
  BY <1>1, <1>2, <1>3, <1>4, HandlerGoes
<1>6. Left(s, q)
  BY <1>2 DEF Query, GoesOn, Left
<1>7. TasksKept(s, q) /\ SameViews
  BY <1>3, <1>5, <1>6, TasksStay DEF IInv, SameViews
<1>8. c.op \notin {"own", "disown", "delete edges", "creator", "create table", "drop table", "insert role"}
  BY <1>3 DEF Queries
<1>9. bypassCache' = [bypassCache EXCEPT ![s] = Answered(s)] \/ bypassCache' = bypassCache
  BY DEF Query, Answered
<1>10. /\ bypassCache' \in [Session -> Keyed(Name, BOOLEAN)] /\ Cached(s)'
       /\ \A x \in Session \ {s} : bypassCache'[x] = bypassCache[x]
  <2>1. ~Unclear(s)
    BY <1>1, <1>8 DEF Unclear
  <2> QED
    BY <1>3, <1>7, <1>9, <2>1, CacheOfAsker
<1>11. sessionUser' \in [Session -> Name] /\ currentRole' \in [Session -> Name]
  <2>1. c.op \in {"set role", "authorize"} => c.role \in Name
    BY <1>5 DEF Fits, OfRoles
  <2>2. sessionUser \in [Session -> Name] /\ currentRole \in [Session -> Name]
    BY DEF IInv, Typed
  <2>3. /\ currentRole' = IF c.op \in {"set role", "authorize"}
                          THEN [currentRole EXCEPT ![s] = c.role] ELSE currentRole
        /\ sessionUser' = IF c.op = "authorize"
                          THEN [sessionUser EXCEPT ![s] = c.role] ELSE sessionUser
    BY <1>1 DEF Query
  <2> QED
    BY <2>1, <2>2, <2>3
<1>12. Typed'
  BY <1>3, <1>7, <1>10, <1>11 DEF IInv, Typed, TasksKept
<1>13. \A n \in Name \cup Table : Mended(n)'
  <2>1. \A n : ~Mends(task[s], n)
    BY <1>1, <1>8 DEF Mends
  <2> QED
    BY <1>3, <1>7, <2>1, MendedStays DEF IInv
<1>14. Edges(s)'
  <2>1. ASSUME NEW n, Secured(s, n) PROVE Secured(s, n)'
    <3>1. CASE n \in DOMAIN View(s).roles \cup disturbed
      BY <1>3, <1>7, <3>1, ViewsStay DEF Secured
    <3>2. CASE Vouches(task[s], n)
      <4>1. Vouches(q, n) \/ (c.op = "exists" /\ c.role = n)
        <5>1. PICK d \in Range(task[s]) : d.op \in {"exists", "insert role"} /\ d.role = n
          BY <3>2 DEF Vouches
        <5>2. CASE d = c
          BY <1>8, <5>1, <5>2
        <5>3. CASE d \in Range(q)
          <6>1. \E e \in Range(q) : e.op \in {"exists", "insert role"} /\ e.role = n
            BY <5>1, <5>3
          <6>2. Vouches(q, n)
            BY <6>1 DEF Vouches
          <6> QED
            BY <6>2
        <5> QED
          BY <1>5, <5>2, <5>3
      <4>2. c.op = "exists" => c.role \in DOMAIN View(s).roles
        BY <1>3 DEF Refused, roleExists
      <4>3. View(s)' = View(s)
        BY <1>7, ViewsStay
      <4> QED
        BY <1>7, <4>1, <4>2, <4>3 DEF Secured, TasksKept
    <3> QED
      BY <2>1, <3>1, <3>2 DEF Secured
  <2>2. \A d \in Range(q) : /\ d.op \in {"creator", "insert edge"} => Secured(s, d.role)
                            /\ d.op = "insert edge" => Secured(s, d.to)
    BY <1>5 DEF IInv, Edges
  <2>3. \A d \in Range(q) : /\ d.op \in {"creator", "insert edge"} => Secured(s, d.role)'
                            /\ d.op = "insert edge" => Secured(s, d.to)'
    BY <2>1, <2>2
  <2> QED
    BY <1>7, <2>3 DEF Edges, TasksKept
<1>15. Owned(s)'
  <2>1. q # <<>> => Head(q).op \notin {"own", "disown"}
    BY <1>5, <1>8 DEF Goes
  <2> QED
    BY <1>7, <2>1 DEF Owned, TasksKept
<1>16. \A x \in Session : Edges(x)' /\ Owned(x)'
  BY <1>3, <1>7, <1>14, <1>15, OthersRely DEF IInv
<1>17. \A x \in Session : Cached(x)'
  BY <1>3, <1>7, <1>10, CachesStay DEF IInv
<1>18. Alone'
  BY <1>3 DEF IInv, Alone
<1> QED
  BY <1>7, <1>12, <1>13, <1>16, <1>17, <1>18 DEF IInv, TasksKept

\* A handler gives up.  A call that may be given up, and mends something, was a
\* DROP ROLE's; it is outside a transaction.
LEMMA GiveUpKeeps ==
  ASSUME IInv, NEW s \in Session, GiveUp(s)
  PROVE  IInv'
<1>1. PICK c : c = Head(task[s])
  OBVIOUS
<1>2. /\ task[s] # <<>>
      /\ \/ Refused(s, c)
         \/ c.op \notin Queries \cup BestEffort \cup {"set role", "authorize"} /\ ~MayWrite(s)
      /\ UNCHANGED <<db, work, writer, asked, sessionUser, currentRole>>
      /\ failed' = (failed \/ writer = s)
      /\ disturbed' = IF writer = s THEN disturbed ELSE disturbed \cup About(s)
      /\ stale' = IF c.op = "delete edges" THEN stale \cup {s} ELSE stale
  BY <1>1 DEF GiveUp, Failure
<1>3. Handler(task[s]) /\ task \in [Session -> Seq(Calls)]
  BY DEF IInv, Handlers, Typed
<1>4. c \in Calls /\ Fits(c) /\ c \in Range(task[s])
  BY <1>1, <1>2, <1>3, HandlerGoes
<1>5. Left(s, <<>>) /\ Handler(<<>>)
  <2>1. Handler(<<>>)
    BY DEF Handler
  <2> QED
    BY <2>1 DEF GiveUp, Left
<1>6. TasksKept(s, <<>>) /\ SameViews
  BY <1>2, <1>5, TasksStay DEF IInv, SameViews
<1>7. c.op \notin {"own", "disown", "creator"}
  <2>1. ASSUME c.op \in {"own", "disown", "creator"} PROVE ~Refused(s, c) /\ c.op \in BestEffort
    BY <2>1 DEF Refused, BestEffort
  <2> QED
    BY <1>2, <2>1
<1>8. c.op = "delete edges" => writer # s
  <2>1. c.op = "delete edges" => ~Refused(s, c)
    BY DEF Refused
  <2> QED
    BY <1>2, <2>1 DEF MayWrite
<1>9. bypassCache' = [bypassCache EXCEPT ![s] = Answered(s)] \/ bypassCache' = bypassCache
  BY DEF GiveUp, Answered
<1>10. /\ bypassCache' \in [Session -> Keyed(Name, BOOLEAN)] /\ Cached(s)'
       /\ \A x \in Session \ {s} : bypassCache'[x] = bypassCache[x]
  <2>1. CASE c.op = "delete edges"
    <3>1. s \in stale'
      BY <1>2, <2>1
    <3>2. Cached(s)'
      BY <3>1 DEF Cached
    <3>3. bypassCache \in [Session -> Keyed(Name, BOOLEAN)] /\ Answered(s) \in Keyed(Name, BOOLEAN)
      BY AnswerTyped DEF IInv, Typed
    <3> QED
      BY <1>9, <3>2, <3>3
  <2>2. CASE c.op # "delete edges"
    <3>1. ~Unclear(s)
      BY <1>1, <1>7, <2>2 DEF Unclear
    <3> QED
      BY <1>2, <1>6, <1>9, <3>1, CacheOfAsker
  <2> QED
    BY <2>1, <2>2
<1>11. disturbed \subseteq disturbed' /\ disturbed' \subseteq Name \cup Table
  BY <1>2, AboutTyped DEF IInv, Typed
<1>12. failed' \in BOOLEAN /\ stale' \subseteq Session
  BY <1>2 DEF IInv, Typed
<1>13. Typed'
  BY <1>2, <1>6, <1>10, <1>11, <1>12 DEF IInv, Typed, TasksKept
<1>14. \A n \in Name \cup Table : Mended(n)'
  <2>1. ASSUME NEW n \in Name \cup Table, Mends(task[s], n) PROVE n \in disturbed'
    <3>1. c.op = "delete edges" /\ n \in {c.role, c.table}
      BY <1>1, <1>7, <2>1 DEF Mends
    <3>2. n \in About(s)
      BY <1>4, <3>1, AboutCall DEF IInv
    <3> QED
      BY <1>2, <1>8, <3>1, <3>2
  <2> QED
    BY <1>6, <1>11, <2>1, MendedStays DEF IInv
<1>15. \A x \in Session : Edges(x)' /\ Owned(x)'
  <2>1. Edges(s)' /\ Owned(s)'
    BY <1>6, OpenedRelies DEF TasksKept
  <2> QED
    BY <1>6, <1>11, <2>1, OthersRely DEF IInv
<1>16. \A x \in Session : Cached(x)'
  <2>1. stale \subseteq stale'
    BY <1>2
  <2> QED
    BY <1>6, <1>10, <2>1, CachesStay DEF IInv
<1>17. Alone'
  BY <1>2 DEF IInv, Alone
<1> QED
  BY <1>6, <1>13, <1>14, <1>15, <1>16, <1>17 DEF IInv, TasksKept

\* The cache of s is emptied, or stays as it is.
LEMMA CacheOfWriter ==
  ASSUME Typed, NEW s \in Session,
         bypassCache' = IF Clears(s) THEN [bypassCache EXCEPT ![s] = NothingCached] ELSE bypassCache
  PROVE  /\ bypassCache' \in [Session -> Keyed(Name, BOOLEAN)]
         /\ \A x \in Session \ {s} : bypassCache'[x] = bypassCache[x]
         /\ Clears(s) => bypassCache'[s] = NothingCached
         /\ ~Clears(s) => bypassCache'[s] = bypassCache[s]
<1>1. bypassCache \in [Session -> Keyed(Name, BOOLEAN)]
  BY DEF Typed
<1>2. NothingCached \in Keyed(Name, BOOLEAN)
  BY EmptyTyped DEF NothingCached
<1> QED
  BY <1>1, <1>2

\* An empty cache is right.
LEMMA EmptyRight ==
  ASSUME NEW s, bypassCache'[s] = NothingCached
  PROVE  Cached(s)'
<1>1. DOMAIN bypassCache'[s] = {}
  BY DEF NothingCached
<1> QED
  BY <1>1 DEF Cached

\* A write that need not succeed is skipped.
LEMMA SkipKeeps ==
  ASSUME IInv, NEW s \in Session, Skip(s)
  PROVE  IInv'
<1>1. PICK c : c = Head(task[s])
  OBVIOUS
<1>2. PICK q : q = Tail(task[s])
  OBVIOUS
<1>3. /\ task[s] # <<>> /\ c.op \in BestEffort
      /\ UNCHANGED <<db, work, writer, failed, asked, sessionUser, currentRole>>
      /\ bypassCache' = IF Clears(s) THEN [bypassCache EXCEPT ![s] = NothingCached] ELSE bypassCache
      /\ stale' = stale \ Emptied(s) /\ disturbed' = disturbed \cup Names(c)
  BY <1>1 DEF Skip, GoesOn, txVars
<1>4. Handler(task[s]) /\ task \in [Session -> Seq(Calls)]
  BY DEF IInv, Handlers, Typed
<1>5. /\ c \in Calls /\ Fits(c) /\ Handler(q) /\ Goes(c, q)
      /\ Range(task[s]) = {c} \cup Range(q)
  BY <1>1, <1>2, <1>3, <1>4, HandlerGoes
<1>6. Left(s, q)
  BY <1>2 DEF Skip, GoesOn, Left
<1>7. TasksKept(s, q) /\ SameViews
  BY <1>3, <1>5, <1>6, TasksStay DEF IInv, SameViews
<1>8. c.op \in {"own", "disown", "forget grants", "creator"}
  BY <1>3 DEF BestEffort
<1>9. /\ bypassCache' \in [Session -> Keyed(Name, BOOLEAN)]
      /\ \A x \in Session \ {s} : bypassCache'[x] = bypassCache[x]
      /\ Clears(s) => bypassCache'[s] = NothingCached
      /\ ~Clears(s) => bypassCache'[s] = bypassCache[s]
  BY <1>3, CacheOfWriter DEF IInv
<1>10. Clears(s) <=> c.op = "creator"
  BY <1>1, <1>8 DEF Clears
<1>11. disturbed \subseteq disturbed' /\ disturbed' \subseteq Name \cup Table
  <2>1. Names(c) \subseteq About(s)
    BY <1>5 DEF About
  <2>2. About(s) \subseteq Name \cup Table
    BY AboutTyped DEF IInv
  <2> QED
    BY <1>3, <2>1, <2>2 DEF IInv, Typed
<1>12. stale \ {s} \subseteq stale' /\ stale' \subseteq Session
  BY <1>3 DEF Emptied, IInv, Typed
<1>13. Typed'
  BY <1>3, <1>7, <1>9, <1>11, <1>12 DEF IInv, Typed, TasksKept
<1>14. Cached(s)'
  <2>1. CASE c.op = "creator"
    BY <1>9, <1>10, <2>1, EmptyRight
  <2>2. CASE c.op # "creator"
    <3>1. ~Unclear(s)
      BY <1>1, <1>8, <2>2 DEF Unclear
    <3>2. bypassCache'[s] = bypassCache[s] /\ View(s)' = View(s)
      BY <1>7, <1>9, <1>10, <2>2, ViewsStay
    <3>3. s \notin stale' => s \notin stale \/ bypassCache'[s] = NothingCached
      BY <1>3 DEF Emptied
    <3> QED
      BY <3>1, <3>2, <3>3, EmptyRight DEF IInv, Cached
  <2> QED
    BY <2>1, <2>2
<1>15. \A n \in Name \cup Table : Mended(n)'
  <2>1. ASSUME NEW n \in Name \cup Table, Mends(task[s], n) PROVE n \in disturbed'
    <3>1. n \in {c.role, c.table}
      BY <1>1, <2>1 DEF Mends
    <3>2. n \in Names(c)
      BY <3>1, AccessAssumption DEF Names
    <3> QED
      BY <1>3, <3>2
  <2> QED
    BY <1>7, <1>11, <2>1, MendedStays DEF IInv
<1>16. Edges(s)' /\ Owned(s)'
  <2>1. CASE c.op # "forget grants" /\ c.op # "disown"
    <3>1. q = <<>>
      BY <1>5, <1>8, <2>1 DEF Goes, Final
    <3> QED
      BY <1>7, <3>1, OpenedRelies DEF TasksKept
  <2>2. CASE c.op \in {"forget grants", "disown"}
    <3>1. \A n : Vouches(task[s], n) => Vouches(q, n)
      BY <1>5, <2>2 DEF Vouches
    <3>2. \A n : Secured(s, n) => Secured(s, n)'
      BY <1>7, <1>11, <3>1, ViewsStay DEF Secured, TasksKept
    <3>3. \A d \in Range(q) : /\ d.op \in {"creator", "insert edge"} => Secured(s, d.role)
                              /\ d.op = "insert edge" => Secured(s, d.to)
      BY <1>5 DEF IInv, Edges
    <3>4. Edges(s)'
      BY <1>7, <3>2, <3>3 DEF Edges, TasksKept
    <3>5. q # <<>> => Head(q).op \notin {"own", "disown"}
      BY <1>5, <2>2 DEF Goes
    <3>6. Owned(s)'
      BY <1>7, <3>5 DEF Owned, TasksKept
    <3> QED
      BY <3>4, <3>6
  <2> QED
    BY <1>8, <2>1, <2>2
<1>17. \A x \in Session : Edges(x)' /\ Owned(x)'
  BY <1>7, <1>11, <1>16, OthersRely DEF IInv
<1>18. \A x \in Session : Cached(x)'
  BY <1>7, <1>9, <1>12, <1>14, CachesStay DEF IInv
<1>19. Alone'
  BY <1>3 DEF IInv, Alone
<1> QED
  BY <1>7, <1>13, <1>15, <1>17, <1>18, <1>19 DEF IInv, TasksKept

-----------------------------------------------------------------------------
(* Transactions.                                                           *)

\* What a session sees of the roles decides what it has cached.
LEMMA RolesDecide ==
  ASSUME NEW v, NEW w, SameRoles(v, w)
  PROVE  \A r : roleBypasses(v, r) = roleBypasses(w, r)
BY DEF SameRoles, roleBypasses, roleExists

\* BEGIN.
LEMMA BeginKeeps ==
  ASSUME IInv, NEW s \in Session, Begin(s)
  PROVE  IInv'
<1>1. /\ task[s] = <<>> /\ asked < MaxAsked /\ asked' = asked + 1
      /\ writer = NoSession /\ writer' = s
      /\ UNCHANGED <<db, work, failed, task, sessionUser, currentRole, bypassCache, stale, disturbed>>
  BY DEF Begin, BeginTx, sessionVars
<1>2. work = db
  BY <1>1 DEF IInv, Alone
<1>3. asked' \in 0..MaxAsked
  BY <1>1, AccessAssumption DEF IInv, Typed
<1>4. Typed'
  BY <1>1, <1>3 DEF IInv, Typed
<1>5. \A x : View(x)' = View(x)
  BY <1>1, <1>2 DEF View
<1>6. \A n \in Name \cup Table : Mended(n)'
  <2>1. TAKE n \in Name \cup Table
  <2>2. \A x : Mends(task[x], n) => x # s
    BY <1>1 DEF Mends
  <2>3. n \notin disturbed =>
          /\ Amiss(db, n) => \E x \in Session \ {s} : Mends(task[x], n)
          /\ Amiss(work, n) => \E x \in Session : Mends(task[x], n)
    BY <2>2 DEF IInv, Mended
  <2> QED
    BY <1>1, <2>3 DEF Mended
<1>7. \A x \in Session : Cached(x)'
  BY <1>1, <1>5 DEF IInv, Cached, Unclear
<1>8. \A x \in Session : Edges(x)' /\ Owned(x)'
  <2>1. \A x, n : Secured(x, n) => Secured(x, n)'
    BY <1>1, <1>5 DEF Secured
  <2> QED
    BY <1>1, <1>5, <2>1 DEF IInv, Edges, Owned
<1>9. Handlers' /\ Alone'
  BY <1>1, ConnectionsAssumption DEF IInv, Handlers, Alone
<1> QED
  BY <1>4, <1>6, <1>7, <1>8, <1>9 DEF IInv

\* COMMIT.  The names whose roles or tables others now see changed are disturbed.
LEMMA CommitKeeps ==
  ASSUME IInv, NEW s \in Session, Commit(s)
  PROVE  IInv'
<1>1. /\ task[s] = <<>> /\ writer = s /\ writer' = NoSession /\ db' = work
      /\ UNCHANGED <<work, failed, task, asked, sessionUser, currentRole, bypassCache>>
      /\ stale' = IF db.roles # work.roles THEN stale \cup (Session \ {s}) ELSE stale
      /\ disturbed' = disturbed \cup Meets(s, Changed)
  BY DEF Commit, CommitTx, sessionVars
<1>2. View(s)' = View(s) /\ \A x \in Session \ {s} : View(x) = db /\ View(x)' = work
  BY <1>1, ConnectionsAssumption DEF View
<1>3. disturbed \subseteq disturbed' /\ disturbed' \subseteq Name \cup Table
  <2>1. Changed \subseteq Name \cup Table
    <3>1. db.tables \subseteq Table /\ work.tables \subseteq Table
      BY VersionTyped DEF IInv, Typed
    <3> QED
      BY <3>1 DEF Changed
  <2> QED
    BY <1>1, <2>1 DEF Meets, IInv, Typed
<1>4. stale \subseteq stale' /\ stale' \subseteq Session
  BY <1>1 DEF IInv, Typed
<1>5. Typed'
  BY <1>1, <1>3, <1>4 DEF IInv, Typed
<1>6. \A n \in Name \cup Table : Mended(n)'
  <2>1. Session \ {NoSession} = Session
    BY ConnectionsAssumption
  <2> QED
    BY <1>1, <1>3, <2>1 DEF IInv, Mended
<1>7. ASSUME NEW x \in Session PROVE Cached(x)'
  <2>1. CASE x = s
    BY <1>1, <1>2, <1>4, <2>1 DEF IInv, Cached, Unclear
  <2>2. CASE x # s
    <3>1. x \notin stale' => SameRoles(db, work)
      BY <1>1, <2>2 DEF SameRoles
    <3>2. x \notin stale' => \A r : roleBypasses(work, r) = roleBypasses(db, r)
      BY <3>1, RolesDecide
    <3> QED
      BY <1>1, <1>2, <1>4, <2>2, <3>2 DEF IInv, Cached, Unclear
  <2> QED
    BY <2>1, <2>2
<1>8. ASSUME NEW x \in Session \ {s}, NEW n \in About(x), n \in Changed PROVE n \in disturbed'
  BY <1>1, <1>8 DEF Meets
<1>9. ASSUME NEW x \in Session PROVE Edges(x)' /\ Owned(x)'
  <2>1. CASE x = s
    BY <1>1, <2>1, OpenedRelies
  <2>2. CASE x # s
    <3>1. ASSUME NEW n \in About(x), Secured(x, n) PROVE Secured(x, n)'
      <4>1. n \in DOMAIN db.roles \ DOMAIN work.roles => n \in Changed
        <5>1. DOMAIN db.roles \subseteq Name
          BY VersionTyped, RowTyped DEF IInv, Typed
        <5> QED
          BY <5>1 DEF Changed
      <4> QED
        BY <1>1, <1>2, <1>3, <1>8, <2>2, <3>1, <4>1 DEF Secured
    <3>2. ASSUME NEW c \in Range(task[x])
          PROVE  /\ c.op \in {"creator", "insert edge"} => Secured(x, c.role)'
                 /\ c.op = "insert edge" => Secured(x, c.to)'
      <4>1. task[x] \in Seq(Calls) /\ \A i \in 1..Len(task[x]) : Fits(task[x][i])
        BY DEF IInv, Handlers, Handler
      <4>2. Fits(c)
        BY <4>1 DEF Range
      <4>3. c.op \in {"creator", "insert edge"} => c.role \in About(x) /\ c.to \in About(x)
        <5>1. c.op \in {"creator", "insert edge"} => c.role \in Name /\ c.to \in Name
          BY <4>2 DEF Fits, OfRoles, OfPairs
        <5> QED
          BY <5>1, AboutCall DEF IInv
      <4>4. /\ c.op \in {"creator", "insert edge"} => Secured(x, c.role)
            /\ c.op = "insert edge" => Secured(x, c.to)
        BY DEF IInv, Edges
      <4> QED
        BY <3>1, <4>3, <4>4
    <3>3. Edges(x)'
      BY <1>1, <3>2 DEF Edges
    <3>4. Owned(x)'
      <4>1. PICK c : c = Head(task[x])
        OBVIOUS
      <4>2. ASSUME task[x] # <<>>, c.op \in {"own", "disown"}
            PROVE  c.table \in About(x) /\ c.table \in Table
        <5>1. c \in Range(task[x]) /\ Fits(c)
          BY <4>1, <4>2, HandlerGoes DEF IInv, Handlers
        <5>2. c.table \in Table
          BY <4>2, <5>1 DEF Fits, OfTables
        <5> QED
          BY <5>1, <5>2, AboutCall DEF IInv
      <4>3. \A t \in Table : t \in Changed \/ (t \in db.tables <=> t \in work.tables)
        BY DEF Changed
      <4>4. task[x] # <<>> =>
              /\ c.op = "own" => c.table \in db.tables \cup disturbed
              /\ c.op = "disown" => c.table \notin db.tables \/ c.table \in disturbed
        BY <1>2, <2>2, <4>1 DEF IInv, Owned
      <4>5. task[x] # <<>> =>
              /\ c.op = "own" => c.table \in work.tables \cup disturbed'
              /\ c.op = "disown" => c.table \notin work.tables \/ c.table \in disturbed'
        BY <1>3, <1>8, <2>2, <4>2, <4>3, <4>4
      <4> QED
        BY <1>1, <1>2, <2>2, <4>1, <4>5 DEF Owned
    <3> QED
      BY <3>3, <3>4
  <2> QED
    BY <2>1, <2>2
<1>10. Handlers' /\ Alone'
  BY <1>1 DEF IInv, Handlers, Alone
<1> QED
  BY <1>5, <1>6, <1>7, <1>9, <1>10 DEF IInv

\* ROLLBACK.
LEMMA RollbackKeeps ==
  ASSUME IInv, NEW s \in Session, Rollback(s)
  PROVE  IInv'
<1>1. /\ task[s] = <<>> /\ writer = s /\ writer' = NoSession /\ work' = db /\ failed' = FALSE
      /\ UNCHANGED <<db, task, asked, sessionUser, currentRole, bypassCache, disturbed>>
      /\ stale' = IF db.roles # work.roles THEN stale \cup {s} ELSE stale
  BY DEF Rollback, RollbackTx, sessionVars
<1>2. \A x \in Session : View(x)' = db
  BY <1>1, ConnectionsAssumption DEF View
<1>3. View(s) = work /\ \A x \in Session \ {s} : View(x) = db
  BY <1>1 DEF View
<1>4. stale \subseteq stale' /\ stale' \subseteq Session
  BY <1>1 DEF IInv, Typed
<1>5. Typed'
  BY <1>1, <1>4 DEF IInv, Typed
<1>6. \A n \in Name \cup Table : Mended(n)'
  <2>1. TAKE n \in Name \cup Table
  <2>2. n \notin disturbed /\ Amiss(db, n) => \E x \in Session \ {NoSession} : Mends(task[x], n)
    BY <1>1, ConnectionsAssumption DEF IInv, Mended
  <2> QED
    BY <1>1, <2>2 DEF Mended
<1>7. ASSUME NEW x \in Session PROVE Cached(x)'
  <2>1. x \notin stale' => \A r : roleBypasses(db, r) = roleBypasses(View(x), r)
    <3>1. CASE x = s
      <4>1. x \notin stale' => SameRoles(work, db)
        BY <1>1, <3>1 DEF SameRoles
      <4> QED
        BY <1>3, <3>1, <4>1, RolesDecide
    <3>2. CASE x # s
      BY <1>3, <3>2
    <3> QED
      BY <3>1, <3>2
  <2> QED
    BY <1>1, <1>2, <1>4, <2>1 DEF IInv, Cached, Unclear
<1>8. ASSUME NEW x \in Session PROVE Edges(x)' /\ Owned(x)'
  <2>1. CASE x = s
    BY <1>1, <2>1, OpenedRelies
  <2>2. CASE x # s
    <3>1. View(x)' = View(x)
      BY <1>2, <1>3, <2>2
    <3>2. \A n : Secured(x, n) => Secured(x, n)'
      BY <1>1, <3>1 DEF Secured
    <3>3. Edges(x)'
      BY <1>1, <3>2 DEF IInv, Edges
    <3>4. Owned(x)'
      BY <1>1, <3>1 DEF IInv, Owned
    <3> QED
      BY <3>3, <3>4
  <2> QED
    BY <2>1, <2>2
<1>9. Handlers' /\ Alone'
  BY <1>1 DEF IInv, Handlers, Alone
<1> QED
  BY <1>5, <1>6, <1>7, <1>8, <1>9 DEF IInv

-----------------------------------------------------------------------------
(* Writes.                                                                 *)

\* What a write changes, somebody whose handler is about it hears of.
LEMMA WriteTouches ==
  ASSUME NEW v, NEW c, NEW w, Effect(v, c, w)
  PROVE  /\ \A n \in DOMAIN v.roles : n \in DOMAIN w.roles \/ n = c.role
         /\ \A t : t = c.table \/ (t \in v.tables <=> t \in w.tables)
<1>1. RolesEffect(v, c, w) /\ TablesEffect(v, c, w)
  BY DEF Effect
<1>2. \A n \in DOMAIN v.roles : n \in DOMAIN w.roles \/ n = c.role
  BY <1>1 DEF RolesEffect, SameRoles, RoleWrites
<1>3. \A t : t = c.table \/ (t \in v.tables <=> t \in w.tables)
  BY <1>1 DEF TablesEffect, SameTables, TableWrites
<1> QED
  BY <1>2, <1>3

\* After a write, the records of n do not agree only if they did not before and
\* this was not to mend them, or the next call mends them.
LEMMA WriteMends ==
  ASSUME NEW s \in Session, NEW c, NEW q, NEW v, NEW w, Effect(v, c, w), v = View(s),
         task[s] # <<>>, c = Head(task[s]), Fits(c), Range(task[s]) = {c} \cup Range(q), Goes(c, q),
         Edges(s), Owned(s),
         NEW n \in Name \cup Table, n \notin disturbed, c.op = "rename" => n # c.role,
         Amiss(w, n), ~Mends(q, n)
  PROVE  Amiss(v, n) /\ ~Mends(task[s], n)
<1>0. n \in Name => n \notin Table
  BY AccessAssumption
<1>1. RolesEffect(v, c, w) /\ EdgesEffect(v, c, w) /\ TablesEffect(v, c, w) /\ OwnersEffect(v, c, w)
  BY DEF Effect
<1>2. CASE n \in Name
  <2>1. n \notin DOMAIN w.roles /\ Joined(w, n)
    BY <1>0, <1>2 DEF Amiss, Dangling
  <2>2. n \notin DOMAIN v.roles
    <3>1. CASE c.op = "delete role"
      <4>1. n # c.role
        BY <3>1 DEF Goes, Only, Mends
      <4> QED
        BY <1>1, <2>1, <3>1, <4>1 DEF RolesEffect
    <3>2. CASE c.op # "delete role"
      BY <1>1, <2>1, <3>2 DEF RolesEffect, SameRoles, RoleWrites
    <3> QED
      BY <3>1, <3>2
  <2>3. Joined(v, n)
    <3>1. Joined(v, n) \/ n \in MadeFor(v, c)
      BY <1>1, <2>1 DEF EdgesEffect
    <3>2. ASSUME c.op \in {"creator", "insert edge"} PROVE ~Vouches(task[s], n)
      <4>1. Range(task[s]) = {c}
        <5>1. q = <<>>
          BY <3>2 DEF Goes, Final
        <5>2. Range(q) = {}
          BY <5>1 DEF Range
        <5> QED
          BY <5>2
      <4> QED
        BY <3>2, <4>1 DEF Vouches
    <3>3. c \in Range(task[s])
      OBVIOUS
    <3>4. ASSUME c.op \in {"creator", "insert edge"} PROVE ~Secured(s, n)
      BY <2>2, <3>2, <3>4 DEF Secured
    <3>5. c.op \in {"creator", "insert edge"} => c.role # n
      BY <3>3, <3>4 DEF Edges
    <3>6. c.op = "insert edge" => c.to # n
      BY <3>3, <3>4 DEF Edges
    <3> QED
      BY <2>2, <3>1, <3>5, <3>6 DEF MadeFor
  <2>4. ~Mends(task[s], n)
    <3>1. c.op = "delete edges" => n # c.role
      BY <1>1, <2>1 DEF EdgesEffect
    <3>2. c.op \in {"own", "disown"} => c.table \in Table
      BY DEF Fits, OfTables
    <3> QED
      BY <1>0, <1>2, <3>1, <3>2 DEF Mends
  <2> QED
    BY <1>2, <2>2, <2>3, <2>4 DEF Amiss, Dangling
<1>3. CASE n \in Table
  <2>1. ~(n \in w.tables <=> n \in DOMAIN w.owners)
    BY <1>0, <1>3 DEF Amiss, Unowned
  <2>2. c.op = "create table" => n # c.table
    BY <1>0 DEF Goes, Only, Mends
  <2>3. c.op = "drop table" => n # c.table
    BY <1>0 DEF Goes, Mends
  <2>4. c.op = "own" => n # c.table
    <3>1. c.op = "own" => c.table \in v.tables \cup disturbed
      BY DEF Owned
    <3> QED
      BY <1>1, <2>1, <3>1 DEF TablesEffect, OwnersEffect, SameTables, TableWrites
  <2>5. c.op = "disown" => n # c.table
    <3>1. c.op = "disown" => c.table \notin v.tables \/ c.table \in disturbed
      BY DEF Owned
    <3> QED
      BY <1>1, <2>1, <3>1 DEF TablesEffect, OwnersEffect, SameTables, TableWrites
  <2>6. n \in v.tables <=> n \in w.tables
    BY <1>1, <2>2, <2>3 DEF TablesEffect, SameTables, TableWrites
  <2>7. n \in DOMAIN v.owners <=> n \in DOMAIN w.owners
    BY <1>1, <2>4, <2>5 DEF OwnersEffect, SameOwners, OwnerWrites
  <2>8. ~Mends(task[s], n)
    <3>1. c.op = "delete edges" => c.role \in Name
      BY DEF Fits, OfRoles
    <3> QED
      BY <1>0, <1>3, <2>4, <2>5, <3>1 DEF Mends
  <2> QED
    BY <1>3, <2>1, <2>6, <2>7, <2>8 DEF Amiss, Unowned
<1> QED
  BY <1>2, <1>3

\* A write.
LEMMA ChangeKeeps ==
  ASSUME IInv, NEW s \in Session, Change(s)
  PROVE  IInv'
<1>1. PICK c : c = Head(task[s])
  OBVIOUS
<1>2. PICK q : q = Tail(task[s])
  OBVIOUS
<1>3. PICK v : v = View(s)
  OBVIOUS
<1>4. PICK w : w = Written(s, c)
  OBVIOUS
<1>5. /\ task[s] # <<>> /\ c.op \notin Queries \cup {"set role", "authorize"}
      /\ MayWrite(s) /\ work' = w /\ db' = IF writer = s THEN db ELSE w
      /\ UNCHANGED <<writer, failed, asked, sessionUser, currentRole>>
      /\ bypassCache' = IF Clears(s) THEN [bypassCache EXCEPT ![s] = NothingCached] ELSE bypassCache
      /\ stale' = (IF w.roles # v.roles /\ writer # s THEN stale \cup (Session \ {s}) ELSE stale)
                    \ Emptied(s)
      /\ disturbed' = disturbed \cup Meets(s, Names(c)) \cup (IF c.op = "rename" THEN {c.role} ELSE {})
  BY <1>1, <1>3, <1>4 DEF Change, GoesOn, Write
<1>6. Handler(task[s]) /\ task \in [Session -> Seq(Calls)]
  BY DEF IInv, Handlers, Typed
<1>7. /\ c \in Calls /\ Fits(c) /\ Handler(q) /\ Goes(c, q)
      /\ Range(task[s]) = {c} \cup Range(q)
  BY <1>1, <1>2, <1>5, <1>6, HandlerGoes
<1>8. TasksKept(s, q)
  <2>1. Left(s, q)
    BY <1>2 DEF Change, GoesOn, Left
  <2> QED
    BY <1>7, <2>1, TasksStay DEF IInv
<1>9. Effect(v, c, w) /\ w \in Version
  BY <1>3, <1>4, <1>7, Effects DEF IInv, Effect
<1>10. /\ View(s)' = w
       /\ \A x \in Session \ {s} : \/ View(x)' = View(x)
                                   \/ View(x) = v /\ View(x)' = w /\ writer # s
  <2>1. CASE writer = s
    BY <1>5, <2>1 DEF View
  <2>2. CASE writer = NoSession
    BY <1>3, <1>5, <2>2, ConnectionsAssumption DEF View
  <2> QED
    BY <1>5, <2>1, <2>2 DEF MayWrite
<1>11. /\ bypassCache' \in [Session -> Keyed(Name, BOOLEAN)]
       /\ \A x \in Session \ {s} : bypassCache'[x] = bypassCache[x]
       /\ Clears(s) => bypassCache'[s] = NothingCached
       /\ ~Clears(s) => bypassCache'[s] = bypassCache[s]
  BY <1>5, CacheOfWriter DEF IInv
<1>12. disturbed \subseteq disturbed' /\ disturbed' \subseteq Name \cup Table
  <2>1. Names(c) \subseteq Name \cup Table
    BY <1>7 DEF Calls, Names
  <2>2. c.op = "rename" => c.role \in Name
    BY <1>7 DEF Fits, OfRoles
  <2> QED
    BY <1>5, <2>1, <2>2 DEF Meets, IInv, Typed
<1>13. stale \ {s} \subseteq stale' /\ stale' \subseteq Session
  BY <1>5 DEF Emptied, IInv, Typed
<1>14. Typed'
  <2>1. db' \in Version /\ work' \in Version
    BY <1>5, <1>9 DEF IInv, Typed
  <2> QED
    BY <1>5, <1>8, <1>11, <1>12, <1>13, <2>1 DEF IInv, Typed, TasksKept
<1>15. Alone'
  BY <1>5, ConnectionsAssumption DEF IInv, Alone
<1>16. Cached(s)'
  <2>1. CASE Clears(s)
    BY <1>11, <2>1, EmptyRight
  <2>2. CASE c.op \in {"insert role", "delete role"}
    BY <1>7, <1>8, <2>2 DEF Goes, Only, TasksKept, Cached, Unclear
  <2>3. CASE ~Clears(s) /\ c.op \notin {"insert role", "delete role"}
    <3>1. c.op \notin RoleWrites /\ ~Unclear(s)
      BY <1>1, <2>3 DEF Clears, RoleWrites, Unclear
    <3>2. \A r : roleBypasses(v, r) = roleBypasses(w, r)
      BY <1>9, <3>1, RolesDecide DEF Effect, RolesEffect
    <3>3. s \notin stale' => s \notin stale \/ bypassCache'[s] = NothingCached
      BY <1>5 DEF Emptied
    <3>4. bypassCache'[s] = bypassCache[s]
      BY <1>11, <2>3
    <3>5. CASE bypassCache'[s] = NothingCached
      BY <3>5, EmptyRight
    <3>6. CASE bypassCache'[s] # NothingCached
      BY <1>3, <1>10, <3>1, <3>2, <3>3, <3>4, <3>6 DEF IInv, Cached
    <3> QED
      BY <3>5, <3>6
  <2> QED
    BY <2>1, <2>2, <2>3
<1>17. ASSUME NEW x \in Session \ {s} PROVE Cached(x)'
  <2>1. x \notin stale' => x \notin stale /\ (writer # s => SameRoles(v, w))
    BY <1>5, <1>13 DEF SameRoles, Emptied
  <2>2. x \notin stale' => \A r : roleBypasses(View(x)', r) = roleBypasses(View(x), r)
    BY <1>10, <2>1, RolesDecide
  <2>3. bypassCache'[x] = bypassCache[x] /\ task'[x] = task[x]
    BY <1>8, <1>11 DEF TasksKept
  <2>4. (Unclear(x)' <=> Unclear(x)) /\ Cached(x)
    BY <2>3 DEF Unclear, IInv
  <2> QED
    BY <2>1, <2>2, <2>3, <2>4 DEF Cached
<1>18. ASSUME NEW n \in Name \cup Table PROVE Mended(n)'
  <2>1. SUFFICES ASSUME n \notin disturbed'
                 PROVE  /\ Amiss(db', n) => \E x \in Session \ {writer'} : Mends(task'[x], n)
                        /\ Amiss(work', n) => \E x \in Session : Mends(task'[x], n)
    BY DEF Mended
  <2>2. n \notin disturbed /\ (c.op = "rename" => n # c.role)
    BY <1>5, <1>12, <2>1
  <2>3. Amiss(w, n) /\ ~Mends(q, n) => Amiss(v, n) /\ ~Mends(task[s], n)
    BY <1>1, <1>3, <1>5, <1>7, <1>9, <2>2, WriteMends DEF IInv
  <2>4. \A x \in Session : x # s => task'[x] = task[x]
    BY <1>8 DEF TasksKept
  <2>5. task'[s] = q
    BY <1>8 DEF TasksKept
  <2>6. /\ Amiss(db, n) => \E x \in Session \ {writer} : Mends(task[x], n)
        /\ Amiss(work, n) => \E x \in Session : Mends(task[x], n)
    BY <2>2 DEF IInv, Mended
  <2>7. Amiss(w, n) => \E x \in Session : Mends(task'[x], n)
    <3>1. v \in {db, work}
      BY <1>3 DEF View
    <3>2. Amiss(v, n) => \E x \in Session : Mends(task[x], n)
      BY <2>6, <3>1
    <3> QED
      BY <2>3, <2>4, <2>5, <3>2
  <2>8. CASE writer = s
    BY <1>5, <2>4, <2>6, <2>7, <2>8
  <2>9. CASE writer = NoSession
    BY <1>5, <2>7, <2>9, ConnectionsAssumption
  <2> QED
    BY <1>5, <2>8, <2>9 DEF MayWrite
<1>19. Edges(s)'
  <2>1. ASSUME NEW d \in Range(q), d.op \in {"creator", "insert edge"}
        PROVE  c.op \notin {"rename", "delete role"}
    <3>1. c.op = "delete role" => d.op = "delete edges"
      BY <1>7, <2>1 DEF Goes, Only
    <3>2. c.op = "rename" => q = <<>>
      BY <1>7 DEF Goes, Final
    <3>3. q = <<>> => Range(q) = {}
      BY DEF Range
    <3> QED
      BY <2>1, <3>1, <3>2, <3>3
  <2>2. ASSUME NEW n, Secured(s, n), c.op \notin {"rename", "delete role"} PROVE Secured(s, n)'
    <3>1. DOMAIN v.roles \subseteq DOMAIN w.roles /\ (c.op = "insert role" => c.role \in DOMAIN w.roles)
      BY <1>9, <2>2 DEF Effect, RolesEffect, SameRoles, RoleWrites
    <3>2. CASE n \in DOMAIN View(s).roles \cup disturbed
      BY <1>3, <1>10, <1>12, <3>1, <3>2 DEF Secured
    <3>3. CASE Vouches(task[s], n)
      <4>1. PICK d \in Range(task[s]) : d.op \in {"exists", "insert role"} /\ d.role = n
        BY <3>3 DEF Vouches
      <4>2. CASE d = c
        <5>1. c.op = "insert role"
          BY <1>5, <4>1, <4>2 DEF Queries
        <5> QED
          BY <1>10, <3>1, <4>1, <4>2, <5>1 DEF Secured
      <4>3. CASE d \in Range(q)
        <5>1. Vouches(q, n)
          BY <4>1, <4>3 DEF Vouches
        <5> QED
          BY <1>8, <5>1 DEF Secured, TasksKept
      <4> QED
        BY <1>7, <4>2, <4>3
    <3> QED
      BY <2>2, <3>2, <3>3 DEF Secured
  <2>3. \A d \in Range(q) : /\ d.op \in {"creator", "insert edge"} => Secured(s, d.role)
                            /\ d.op = "insert edge" => Secured(s, d.to)
    BY <1>7 DEF IInv, Edges
  <2>4. \A d \in Range(q) : /\ d.op \in {"creator", "insert edge"} => Secured(s, d.role)'
                            /\ d.op = "insert edge" => Secured(s, d.to)'
    BY <2>1, <2>2, <2>3
  <2> QED
    BY <1>8, <2>4 DEF Edges, TasksKept
<1>20. Owned(s)'
  <2>1. TablesEffect(v, c, w)
    BY <1>9 DEF Effect
  <2>2. q # <<>> /\ Head(q).op = "own" => Head(q).table \in w.tables
    BY <1>7, <2>1 DEF Goes, Only, TablesEffect
  <2>3. q # <<>> /\ Head(q).op = "disown" => Head(q).table \notin w.tables
    BY <1>7, <2>1 DEF Goes, Only, TablesEffect
  <2> QED
    BY <1>8, <1>10, <2>2, <2>3 DEF Owned, TasksKept
<1>21. ASSUME NEW x \in Session \ {s}, NEW n \in About(x), n \in Names(c) PROVE n \in disturbed'
  BY <1>5, <1>21 DEF Meets
<1>22. ASSUME NEW x \in Session \ {s} PROVE Edges(x)'
  <2>1. task'[x] = task[x]
    BY <1>8 DEF TasksKept
  <2>2. ASSUME NEW n \in About(x), n \in Name, Secured(x, n) PROVE Secured(x, n)'
    <3>1. n = c.role => n \in disturbed'
      <4>1. n = c.role => n \in Names(c)
        BY <2>2, AccessAssumption DEF Names
      <4> QED
        BY <1>21, <4>1
    <3>2. n \in DOMAIN View(x).roles => n \in DOMAIN View(x)'.roles \/ n = c.role
      BY <1>9, <1>10, WriteTouches
    <3> QED
      BY <1>12, <2>1, <2>2, <3>1, <3>2 DEF Secured
  <2>3. ASSUME NEW d \in Range(task[x])
        PROVE  /\ d.op \in {"creator", "insert edge"} => Secured(x, d.role)'
               /\ d.op = "insert edge" => Secured(x, d.to)'
    <3>1. task[x] \in Seq(Calls) /\ \A i \in 1..Len(task[x]) : Fits(task[x][i])
      BY DEF IInv, Handlers, Handler
    <3>2. Fits(d)
      BY <3>1 DEF Range
    <3>3. d.op \in {"creator", "insert edge"} => d.role \in Name /\ d.to \in Name
      BY <3>2 DEF Fits, OfRoles, OfPairs
    <3>4. d.op \in {"creator", "insert edge"} => d.role \in About(x) /\ d.to \in About(x)
      BY <3>3, AboutCall DEF IInv
    <3>5. /\ d.op \in {"creator", "insert edge"} => Secured(x, d.role)
          /\ d.op = "insert edge" => Secured(x, d.to)
      BY DEF IInv, Edges
    <3> QED
      BY <2>2, <3>3, <3>4, <3>5
  <2> QED
    BY <2>1, <2>3 DEF Edges
<1>23. ASSUME NEW x \in Session \ {s} PROVE Owned(x)'
  <2>1. PICK d : d = Head(task[x])
    OBVIOUS
  <2>2. task'[x] = task[x]
    BY <1>8 DEF TasksKept
  <2>3. ASSUME task[x] # <<>>, d.op \in {"own", "disown"}
        PROVE  d.table \in About(x) /\ d.table \in Table
    <3>1. d \in Range(task[x]) /\ Fits(d)
      BY <2>1, <2>3, HandlerGoes DEF IInv, Handlers
    <3>2. d.table \in Table
      BY <2>3, <3>1 DEF Fits, OfTables
    <3> QED
      BY <3>1, <3>2, AboutCall DEF IInv
  <2>4. \A t \in Table : t = c.table => t \in Names(c)
    BY AccessAssumption DEF Names
  <2>5. \A t \in Table : t = c.table \/ (t \in View(x).tables <=> t \in View(x)'.tables)
    BY <1>9, <1>10, WriteTouches
  <2>6. task[x] # <<>> =>
          /\ d.op = "own" => d.table \in View(x).tables \cup disturbed
          /\ d.op = "disown" => d.table \notin View(x).tables \/ d.table \in disturbed
    BY <2>1 DEF IInv, Owned
  <2>7. task[x] # <<>> =>
          /\ d.op = "own" => d.table \in View(x)'.tables \cup disturbed'
          /\ d.op = "disown" => d.table \notin View(x)'.tables \/ d.table \in disturbed'
    BY <1>12, <1>21, <2>3, <2>4, <2>5, <2>6
  <2> QED
    BY <2>1, <2>2, <2>7 DEF Owned
<1>24. \A x \in Session : Cached(x)' /\ Edges(x)' /\ Owned(x)'
  BY <1>16, <1>17, <1>19, <1>20, <1>22, <1>23
<1> QED
  BY <1>8, <1>14, <1>15, <1>18, <1>24 DEF IInv, TasksKept

-----------------------------------------------------------------------------
(* The theorems.                                                           *)

\* No session has begun.
LEMMA InitHolds == Init => IInv
<1> SUFFICES ASSUME Init PROVE IInv
  OBVIOUS
<1>1. /\ db = NoRecords /\ work = NoRecords /\ writer = NoSession /\ failed = FALSE
      /\ task = [s \in Session |-> <<>>] /\ sessionUser = authUser /\ currentRole = authUser
      /\ bypassCache = [s \in Session |-> NothingCached] /\ asked = 0 /\ stale = {} /\ disturbed = {}
  BY DEF Init, VersionsInit
<1>2. NoRecords \in Version
  <2> DEFINE T == [r \in Managed |-> [DefaultAttributes EXCEPT !.super = (r = default)]]
             O == [t \in {} |-> none]
             F == [t \in {} |-> [enabled |-> FALSE, forced |-> FALSE]]
  <2>1. \A b \in BOOLEAN : [DefaultAttributes EXCEPT !.super = b] \in Attributes
    BY DEF DefaultAttributes, Attributes
  <2>2. T \in [Managed -> Attributes]
    BY <2>1
  <2>3. T \in Keyed(Name, Attributes)
    <3> HIDE DEF T
    <3> QED
      BY <2>2, AccessAssumption DEF Keyed
  <2>4. O \in Keyed(Table, Name) /\ F \in Keyed(Table, [enabled : BOOLEAN, forced : BOOLEAN])
    BY EmptyTyped
  <2>5. NoRecords = [roles |-> T, members |-> {}, grants |-> {}, policies |-> {}, tables |-> {},
                     owners |-> O, rls |-> F]
    BY DEF NoRecords
  <2> HIDE DEF T, O, F
  <2> QED
    BY <2>3, <2>4, <2>5 DEF Version
<1>3. NothingCached \in Keyed(Name, BOOLEAN)
  BY EmptyTyped DEF NothingCached
<1>4. asked \in 0..MaxAsked
  BY <1>1, AccessAssumption
<1>5. Typed
  <2>1. db \in Version /\ work \in Version /\ writer \in Session \cup {NoSession} /\ failed \in BOOLEAN
    BY <1>1, <1>2
  <2>2. task \in [Session -> Seq(Calls)]
    <3>1. <<>> \in Seq(Calls)
      OBVIOUS
    <3>2. [s \in Session |-> <<>>] \in [Session -> Seq(Calls)]
      BY <3>1
    <3> QED
      BY <1>1, <3>2
  <2>3. sessionUser \in [Session -> Name] /\ currentRole \in [Session -> Name]
    BY <1>1, AccessAssumption
  <2>4. bypassCache \in [Session -> Keyed(Name, BOOLEAN)]
    <3>1. [s \in Session |-> NothingCached] \in [Session -> Keyed(Name, BOOLEAN)]
      BY <1>3
    <3> QED
      BY <1>1, <3>1
  <2>5. stale \subseteq Session /\ disturbed \subseteq Name \cup Table
    BY <1>1
  <2> QED
    BY <2>1, <2>2, <2>3, <2>4, <2>5, <1>4 DEF Typed
<1>6. \A s \in Session : task[s] = <<>>
  BY <1>1
<1>7. Handlers
  <2>1. Handler(<<>>)
    BY DEF Handler
  <2> QED
    BY <1>6, <2>1 DEF Handlers
<1>8. \A s \in Session : Cached(s)
  <2>1. DOMAIN NothingCached = {}
    BY DEF NothingCached
  <2> QED
    BY <1>1, <2>1 DEF Cached
<1>9. \A n : Mended(n)
  <2>1. NoRecords.members = {} /\ NoRecords.tables = {} /\ DOMAIN NoRecords.owners = {}
    BY DEF NoRecords
  <2>2. \A n : ~Amiss(NoRecords, n)
    BY <2>1 DEF Amiss, Dangling, Joined, Unowned
  <2> QED
    BY <1>1, <2>2 DEF Mended
<1>10. \A s \in Session : Edges(s) /\ Owned(s)
  <2>1. Range(<<>>) = {}
    BY DEF Range
  <2> QED
    BY <1>6, <2>1 DEF Edges, Owned
<1> QED
  BY <1>1, <1>5, <1>7, <1>8, <1>9, <1>10 DEF IInv, Alone

\* No step falsifies it.
LEMMA StepKeeps == IInv /\ [Next]_vars => IInv'
<1> SUFFICES ASSUME IInv, [Next]_vars PROVE IInv'
  OBVIOUS
<1>1. CASE UNCHANGED vars
  <2>1. UNCHANGED <<db, writer, work, failed, task, sessionUser, currentRole, bypassCache, asked,
                    stale, disturbed>>
    BY <1>1 DEF vars, txVars
  <2>2. Typed' /\ Handlers' /\ Alone'
    BY <2>1 DEF IInv, Typed, Handlers, Alone
  <2>3. \A x : View(x)' = View(x)
    BY <2>1 DEF View
  <2>4. \A x \in Session : Cached(x)'
    BY <2>1, <2>3 DEF IInv, Cached, Unclear
  <2>5. \A n \in Name \cup Table : Mended(n)'
    BY <2>1 DEF IInv, Mended
  <2>6. \A x, n : Secured(x, n) => Secured(x, n)'
    BY <2>1, <2>3 DEF Secured
  <2>7. \A x \in Session : Edges(x)' /\ Owned(x)'
    BY <2>1, <2>3, <2>6 DEF IInv, Edges, Owned
  <2> QED
    BY <2>2, <2>4, <2>5, <2>7 DEF IInv
<1>2. ASSUME NEW s \in Session,
             \/ RoleStatement(s) \/ MemberStatement(s) \/ IdentityStatement(s)
             \/ TableStatement(s) \/ RightsStatement(s)
      PROVE  IInv'
  <2>1. Launch(s) \/ \E b \in BOOLEAN : reset(s, b)
    BY <1>2, RoleStatements, MemberStatements, IdentityStatements, TableStatements, RightsStatements
       DEF IInv
  <2> QED
    BY <2>1, LaunchKeeps, ResetKeeps
<1>3. ASSUME NEW s \in Session, Query(s) \/ Change(s) \/ GiveUp(s) \/ Skip(s)
      PROVE  IInv'
  BY <1>3, QueryKeeps, ChangeKeeps, GiveUpKeeps, SkipKeeps
<1>4. ASSUME NEW s \in Session, Begin(s) \/ Commit(s) \/ Rollback(s)
      PROVE  IInv'
  BY <1>4, BeginKeeps, CommitKeeps, RollbackKeeps
<1> QED
  BY <1>1, <1>2, <1>3, <1>4 DEF Next

\* What it says about the properties the runs check.
LEMMA InvariantTells == IInv => TypeOK /\ CacheAgrees /\ RecordsAgree
<1> SUFFICES ASSUME IInv PROVE TypeOK /\ CacheAgrees /\ RecordsAgree
  OBVIOUS
<1>1. TypeOK
  <2>1. \A s \in Session : Len(task[s]) <= 5
    BY DEF IInv, Handlers, Handler
  <2>2. \A s \in Session : About(s) \subseteq Name \cup Table
    BY AboutTyped DEF IInv
  <2> QED
    BY <2>1, <2>2 DEF IInv, Typed, TypeOK
<1>2. CacheAgrees
  BY DEF IInv, Cached, Unclear, CacheAgrees
<1>3. RecordsAgree
  <2> SUFFICES ASSUME \A s \in Session : task[s] = <<>>
               PROVE  /\ \A m \in db.members : {m.member, m.of} \subseteq DOMAIN db.roles \cup disturbed
                      /\ \A t \in Table \ disturbed : t \in db.tables <=> t \in DOMAIN db.owners
    BY DEF RecordsAgree
  <2>1. \A n \in Name \cup Table : n \notin disturbed => ~Amiss(db, n)
    BY DEF IInv, Mended, Mends
  <2>2. ASSUME NEW m \in db.members, NEW n \in {m.member, m.of}
        PROVE  n \in DOMAIN db.roles \cup disturbed
    <3>1. n \in Name
      BY VersionTyped DEF IInv, Typed
    <3>2. Joined(db, n)
      BY DEF Joined
    <3> QED
      BY <2>1, <3>1, <3>2 DEF Amiss, Dangling
  <2>3. \A t \in Table \ disturbed : t \in db.tables <=> t \in DOMAIN db.owners
    BY <2>1 DEF Amiss, Unowned
  <2> QED
    BY <2>2, <2>3
<1> QED
  BY <1>1, <1>2, <1>3

\* The invariant holds of every behaviour.
THEOREM AccessInvariant == Spec => []IInv
BY InitHolds, StepKeeps, PTL DEF Spec

\* The variables keep their types: no handler makes more than five calls, and all
\* of them are about roles and tables there may be.
THEOREM AccessTypes == Spec => []TypeOK
BY AccessInvariant, InvariantTells, PTL

\* Whatever roles are created, altered, renamed, dropped and assumed, and whoever
\* is in a transaction meanwhile: between its statements a session that is not
\* listed as stale has cached what the tables say (privileges.go:46-59).
THEOREM CachesAgree == Spec => []CacheAgrees
BY AccessInvariant, InvariantTells, PTL

\* Between statements an edge joins two roles, and a table has an owner and an
\* owner its table, but for the names that are listed as disturbed
\* (roles.go:184-204, grants.go:272-291).
THEOREM RecordsDoAgree == Spec => []RecordsAgree
BY AccessInvariant, InvariantTells, PTL
=============================================================================
