------------------------------ MODULE Schemas ------------------------------
(***************************************************************************)
(* Schemas and the rebuild of tables (engine schema.go, searchpath.go,     *)
(* schemaqualify.go; protocol/postgres alter.go, utility.go).  A schema is *)
(* a row of _overlite_schemas and its tables are those named "x.t".  The   *)
(* list of the schemas is kept a second time, in memory, for the whole     *)
(* process: names are resolved with that list, whatever a session's own    *)
(* transaction sees.                                                       *)
(*                                                                         *)
(* As in Access, a handler is the list of the queries and writes it makes. *)
(***************************************************************************)
EXTENDS Versions, Naturals, Sequences, FiniteSets, SequencesExt

CONSTANTS Schema,    \* names of schemas
          Table,     \* names of tables
          public,    \* the schema whose tables have bare names
          temporary, \* "_overlite_rebuild"
          none,      \* no name
          Existing,  \* the tables there are at the start, all in public
          Paths,     \* bound: the search paths that are set
          Asks,      \* bound: the kinds of statements a session runs
          MaxAsked   \* bound: how many the sessions run

ASSUME SchemasAssumption ==
  /\ public \in Schema /\ temporary \notin Table
  /\ none \notin Schema \cup Table \cup {temporary}
  /\ Existing \subseteq Table /\ IsFiniteSet(Existing)
  /\ Paths \subseteq Seq(Schema)
  /\ MaxAsked \in Nat

VARIABLES
  schemaList,  \* dbState.schemas
  searchPath,  \* session.searchPath
  task,        \* what is left of a session's handler
  saved,       \* the version at the savepoint of a rebuild
  unaware,     \* the writer does not know of its transaction
  asked,       \* how many statements the sessions have run
  listIs,      \* whose version the list tells of, if one can say
  late,        \* sessions that read the registry before it changed
  disturbed    \* schemas two handlers were busy with, or one gave up

vars == <<txVars, schemaList, searchPath, task, saved, unaware, asked, listIs, late, disturbed>>

Ref == Schema \X Table
tmp == <<public, temporary>>

\* What is in a table: the ALTERs in its definition, the INSERTs in its rows, and its
\* indexes and triggers.
Empty == [ddl |-> {}, rows |-> {}, aux |-> {}]

\* What clients were told is in it, and the ALTERs among that which were not made.
NothingDue == [ddl |-> {}, rows |-> {}, aux |-> {}, undone |-> {}]

\* A version: the registry, the tables, and what is due of each.
AtFirst ==
  [schemas |-> {}, tables |-> [r \in {public} \X Existing |-> Empty],
   due |-> [r \in {public} \X Existing |-> NothingDue]]

Moved(T, r, to) == With(Without(T, r), to, T[r])

-----------------------------------------------------------------------------
(* Names.                                                                  *)

\* Where in the path there are schemas that the list has.
usableSearchPath(s) == {i \in DOMAIN searchPath[s] : searchPath[s][i] \in schemaList \ {public}}

\* The schema that comes first of those at I, or public.
firstOf(s, I) ==
  IF I = {} THEN public ELSE searchPath[s][CHOOSE i \in I : \A j \in I : i <= j]

currentSchema(s) == firstOf(s, usableSearchPath(s))

\* What the engine makes of "x.t": nothing if x is not in the list.
qualifySchemaNames(x, t) == {<<y, t>> : y \in {x} \cap (schemaList \cup {public})}

\* An unqualified t: for CREATE TABLE the first schema of the path, else the
\* first that has it.
resolveTableName(s, t, create) ==
  LET has == {i \in usableSearchPath(s) : <<searchPath[s][i], t>> \in DOMAIN View(s).tables}
  IN <<IF create THEN currentSchema(s) ELSE firstOf(s, has), t>>

Resolved(s, x, t, create) ==
  IF x = none THEN {resolveTableName(s, t, create)} ELSE qualifySchemaNames(x, t)

-----------------------------------------------------------------------------
(* The queries and writes.                                                 *)

\* A call: what it does, with which table (or schema), where to, and with what.
Call(op, r, y, arg) == [op |-> op, ref |-> r, to |-> y, arg |-> arg]
OfSchema(op, x, y) == Call(op, <<x, none>>, y, {})
OfTable(op, r, arg) == Call(op, r, none, arg)

About(s) == UNION {{c.ref[1], c.to} \ {none} : c \in Range(task[s])}

Queries == {"absent", "registered", "members_to_drop", "members_to_move", "read", "list"}
Rebuild == {"create", "copy", "drop", "rename", "index", "release"}
Elsewhere == {"set_list", "read_aux"}
ListOps == {"list", "set_list", "register", "unregister", "reregister"}

schemaRegistered(v, x) == x \in v.schemas
schemaTables(v, x) == {r \in DOMAIN v.tables : r[1] = x /\ x # public}

\* The query or write answers with an error.
Refused(s, c) ==
  LET v == View(s)
      x == c.ref[1]
  IN CASE c.op = "absent" -> schemaRegistered(v, x)
       [] c.op = "registered" -> ~schemaRegistered(v, x)
       [] c.op = "members_to_drop" -> ~c.arg /\ schemaTables(v, x) # {}
       [] c.op = "register" -> schemaRegistered(v, x)
       [] c.op = "move_table" ->
            c.ref \notin DOMAIN v.tables \/ <<c.to, c.ref[2]>> \in DOMAIN v.tables
       [] c.op = "create_table" -> c.ref \in DOMAIN v.tables
       [] c.op \in {"insert", "create_index", "drop_table", "read", "copy", "drop"} ->
            c.ref \notin DOMAIN v.tables
       [] c.op = "create" -> tmp \in DOMAIN v.tables
       [] OTHER -> FALSE

\* One whose error depends on more than there is here: a foreign key to the
\* table, a row that violates the new definition, an index of a column's old type.
MayFail(c) ==
  \/ c.op \in {"drop_member", "drop_table", "create_index", "copy", "rename"}
  \/ c.op = "index" /\ c.arg # {}

\* The version a write makes.
Written(s, c) ==
  LET v == View(s)
      r == c.ref
      to == <<c.to, r[2]>>
  IN CASE c.op = "register" -> [v EXCEPT !.schemas = @ \cup {r[1]}]
       [] c.op = "unregister" -> [v EXCEPT !.schemas = @ \ {r[1]}]
       [] c.op = "reregister" ->
            IF schemaRegistered(v, r[1]) THEN [v EXCEPT !.schemas = (@ \ {r[1]}) \cup {c.to}] ELSE v
       [] c.op = "move_table" -> [v EXCEPT !.tables = Moved(@, r, to), !.due = Moved(@, r, to)]
       [] c.op = "create_table" ->
            [v EXCEPT !.tables = With(@, r, Empty), !.due = With(@, r, NothingDue)]
       [] c.op \in {"drop_table", "drop_member"} ->
            [v EXCEPT !.tables = Without(@, r), !.due = Without(@, r)]
       [] c.op = "insert" ->
            [v EXCEPT !.tables[r].rows = @ \cup c.arg, !.due[r].rows = @ \cup c.arg]
       [] c.op = "create_index" ->
            [v EXCEPT !.tables[r].aux = @ \cup c.arg, !.due[r].aux = @ \cup c.arg]
       [] c.op = "create" -> [v EXCEPT !.tables = With(@, tmp, [Empty EXCEPT !.ddl = c.arg])]
       [] c.op = "copy" -> [v EXCEPT !.tables[tmp].rows = v.tables[r].rows]
       [] c.op = "drop" -> [v EXCEPT !.tables = Without(@, r)]
       [] c.op = "rename" -> [v EXCEPT !.tables = Moved(@, tmp, r)]
       [] c.op = "index" -> [v EXCEPT !.tables[r].aux = c.arg]
       [] c.op = "release" -> [v EXCEPT !.due[r].ddl = @ \cup c.arg]
       [] OTHER -> v

\* The client was told that the ALTERs n of r are made, and they are not.
Told(v, r, n) ==
  IF r \in DOMAIN v.due THEN [v EXCEPT !.due[r].ddl = @ \cup n, !.due[r].undone = @ \cup n] ELSE v

-----------------------------------------------------------------------------
Init ==
  /\ VersionsInit(AtFirst)
  /\ schemaList = {}
  /\ searchPath = [s \in Session |-> <<>>]
  /\ task = [s \in Session |-> <<>>]
  /\ saved = [v |-> AtFirst, own |-> FALSE]
  /\ unaware = FALSE
  /\ asked = 0
  /\ listIs = "committed"
  /\ late = {} /\ disturbed = {}

\* s is sent a statement whose handler makes these calls; D is disturbed by it.
Starts(s, calls, D) ==
  /\ task[s] = <<>>
  /\ asked < MaxAsked
  /\ asked' = asked + 1
  /\ task' = [task EXCEPT ![s] = calls]
  /\ disturbed' = disturbed \cup D
  /\ UNCHANGED <<txVars, schemaList, searchPath, saved, unaware, listIs, late>>

NotAborted(s) == ~(writer = s /\ failed)

\* The statement of s that is counted next.
This == {asked + 1}

Others(s) == Session \ {s}

\* Other handlers that are about these names too, and all theirs.
Meets(s, N) ==
  (UNION {N \cup About(o) : o \in {p \in Others(s) : N \cap About(p) # {}}}) \ {none}

\* What is moved out of a disturbed schema, or into one.
Spread(N) == IF N \cap disturbed # {} THEN N \ {none} ELSE {}

MeetsAny(s) == UNION {About(o) : o \in Others(s)}

\* The list is what s sees, and no other session is about to set it.
Trusted(s) ==
  /\ listIs = IF writer = s /\ work.schemas # db.schemas THEN "writer" ELSE "committed"
  /\ \A o \in Others(s) : \A c \in Range(task[o]) : c.op \notin ListOps

-----------------------------------------------------------------------------
(* The handlers.  CREATE, DROP and ALTER SCHEMA do not look at whether the *)
(* transaction is aborted, and their errors do not abort it.               *)

Refresh == OfSchema("list", public, none)

\* Mutant: the list is not read again.
createSchemaOnly(s, x) ==
  Starts(s, <<OfSchema("absent", x, none), OfSchema("register", x, none)>>, {})

createSchema(s, x) ==
  Starts(s, <<OfSchema("absent", x, none), OfSchema("register", x, none), Refresh>>, {})

dropSchema(s, x, cascade) ==
  Starts(s, <<OfSchema("registered", x, none), Call("members_to_drop", <<x, none>>, none, cascade),
              OfSchema("unregister", x, none), Refresh>>, {})

renameSchema(s, x, y) ==
  Starts(s, <<OfSchema("registered", x, none), OfSchema("absent", y, none),
              OfSchema("members_to_move", x, y), OfSchema("reregister", x, y), Refresh>>, {})

\* ALTER TABLE ... SET SCHEMA takes the table as it is written.
setTableSchema(s, r, y) ==
  LET move == Call("move_table", r, y, {})
  IN /\ NotAborted(s)
     /\ Starts(s, IF y = public THEN <<move, Refresh>>
                  ELSE <<OfSchema("registered", y, none), move, Refresh>>, {})

\* A new connection of the pool reads the registry, as rebuildCatalog does.
setupConnection(s) ==
  /\ writer # s
  /\ Starts(s, <<Refresh>>, {})

\* A statement whose table name the engine resolves first, with the list.
OnTable(s, op, x, t) ==
  /\ NotAborted(s)
  /\ \E r \in Resolved(s, x, t, op = "create_table") :
       Starts(s, <<OfTable(op, r, This)>>, IF Trusted(s) THEN {} ELSE {r[1]})

\* ALTER TABLE r ALTER COLUMN, ADD CONSTRAINT, ADD COLUMN with a computed
\* default: reads the definition, then the indexes, then rebuilds the table.
alterColumn(s, r) ==
  /\ NotAborted(s)
  /\ Starts(s, <<OfTable("read", r, This)>>, {})

\* rebuildTableCopying with a new definition: first the indexes and triggers are read.
auxDDLIn(r, ddl, this) == <<OfTable("read_aux", r, [ddl |-> ddl, this |-> this])>>

\* Then it is all inside a savepoint.
rebuildTableCopying(r, ddl, aux, this) ==
  <<OfTable("create", r, ddl), OfTable("copy", r, {}), OfTable("drop", r, {}),
    OfTable("rename", r, {}), OfTable("index", r, aux), OfTable("release", r, this)>>

SetSearchPath(s, p) ==
  /\ task[s] = <<>> /\ NotAborted(s)
  /\ searchPath' = [searchPath EXCEPT ![s] = p]
  /\ UNCHANGED <<txVars, schemaList, task, saved, unaware, asked, listIs, late, disturbed>>

-----------------------------------------------------------------------------
(* The calls of a handler.                                                 *)

\* They are late if this step changes what is committed.
Late(s) ==
  IF db'.schemas = db.schemas THEN {}
  ELSE {o \in Others(s) : \E c \in Range(task[o]) : c.op = "set_list"}

GoesOn(s, calls) ==
  /\ task' = [task EXCEPT ![s] = calls]
  /\ UNCHANGED <<searchPath, asked>>

\* An error that is answered: it aborts the transaction, if the session knows of one.
Reported(s) ==
  /\ failed' = (failed \/ (writer = s /\ ~unaware))
  /\ UNCHANGED <<db, work, writer>>

\* A query: what it answers goes into the calls that follow.
Query(s) ==
  LET c == Head(task[s])
      v == View(s)
      rest == Tail(task[s])
      members(op, y) == SetToSeq({Call(op, r, y, {}) : r \in schemaTables(v, c.ref[1])})
  IN /\ task[s] # <<>>
     /\ c.op \in Queries
     /\ ~Refused(s, c)
     /\ GoesOn(s, CASE c.op = "members_to_drop" -> members("drop_member", none) \o rest
                    [] c.op = "members_to_move" -> members("move_table", c.to) \o rest
                    [] c.op = "read" -> auxDDLIn(c.ref, v.tables[c.ref].ddl \cup c.arg, c.arg)
                    [] c.op = "list" -> <<Call("set_list", <<public, none>>, none, v.schemas)>>
                    [] OTHER -> rest)
     /\ UNCHANGED <<txVars, schemaList, saved, unaware, listIs, late, disturbed>>

\* The indexes and triggers of a table that is there, if the query does not fail: its
\* error is taken for none.
ReadAux(s) ==
  LET c == Head(task[s])
      there == IF c.ref \in DOMAIN View(s).tables THEN View(s).tables[c.ref].aux ELSE {}
  IN /\ task[s] # <<>>
     /\ c.op = "read_aux"
     /\ \E aux \in {there, {}} :
          /\ GoesOn(s, rebuildTableCopying(c.ref, c.arg.ddl, aux, c.arg.this))
          /\ disturbed' = IF aux = there THEN disturbed ELSE disturbed \cup {c.ref[1]}
     /\ UNCHANGED <<txVars, schemaList, saved, unaware, listIs, late>>

\* dbState.setSchemas, with what this connection has read.
SetSchemas(s) ==
  /\ task[s] # <<>>
  /\ Head(task[s]).op = "set_list"
  /\ schemaList' = Head(task[s]).arg
  /\ listIs' = IF s \in late THEN "nobody"
               ELSE IF writer = s THEN "writer" ELSE "committed"
  /\ late' = late \ {s}
  /\ GoesOn(s, Tail(task[s]))
  /\ UNCHANGED <<txVars, saved, unaware, disturbed>>

\* A write outside a rebuild.
Change(s) ==
  LET c == Head(task[s])
  IN /\ task[s] # <<>>
     /\ c.op \notin Queries \cup Rebuild \cup Elsewhere
     /\ ~Refused(s, c)
     /\ Write(s, Written(s, c))
     /\ GoesOn(s, Tail(task[s]))
     /\ disturbed' = disturbed \cup Meets(s, {c.ref[1], c.to}) \cup Spread({c.ref[1], c.to})
     /\ late' = late \cup Late(s)
     /\ UNCHANGED <<schemaList, saved, unaware, listIs>>

\* A step of a rebuild.  The first takes the write lock, until the savepoint is
\* released; in the client's transaction the savepoint is one of several.
RebuildStep(s) ==
  LET c == Head(task[s])
      last == c.op = "release" /\ saved.own
  IN /\ task[s] # <<>>
     /\ c.op \in Rebuild
     /\ MayWrite(s)
     /\ ~Refused(s, c)
     /\ saved' = IF c.op = "create" THEN [v |-> View(s), own |-> writer # s] ELSE saved
     /\ work' = Written(s, c)
     /\ writer' = IF last THEN NoSession ELSE s
     /\ db' = IF last THEN work' ELSE db
     /\ GoesOn(s, Tail(task[s]))
     /\ disturbed' = IF c.op = "release" THEN disturbed \cup Meets(s, {c.ref[1]}) ELSE disturbed
     /\ UNCHANGED <<failed, schemaList, unaware, listIs, late>>

\* The RELEASE that would commit is refused, by a deferred foreign key or a full disk.
\* Nobody looks: the answer is as if it had not been, and SQLite's transaction stays.
ReleaseRefused(s) ==
  LET c == Head(task[s])
  IN /\ task[s] # <<>>
     /\ c.op = "release" /\ saved.own
     /\ work' = Written(s, c)
     /\ db' = Told(db, c.ref, c.arg)
     /\ unaware' = TRUE
     /\ GoesOn(s, Tail(task[s]))
     /\ disturbed' = disturbed \cup Meets(s, {c.ref[1]})
     /\ UNCHANGED <<writer, failed, schemaList, saved, listIs, late>>

\* Mutant: it lets go of the savepoint as it is.
staysThere(began) == work

\* A rebuild that began goes back to its savepoint, and lets go of it.
goBack(began) == IF began THEN saved.v ELSE work

\* Its error is answered, or swallowed: that of an ADD CONSTRAINT (alter.go:51-61).
\* Then the client is told that the constraint is there.
fail(s, swallowed) ==
  LET began == Head(task[s]).op # "create"
      c == Last(task[s])
      told(v) == IF swallowed THEN Told(v, c.ref, c.arg) ELSE v
      alone == writer # s \/ (began /\ saved.own)
  IN /\ work' = told(goBack(began))
     /\ db' = IF alone THEN told(db) ELSE db
     /\ saved' = [saved EXCEPT !.v = told(@)]
     /\ writer' = IF began /\ saved.own THEN NoSession ELSE writer

\* Once it is swallowed, ADD UNIQUE goes on to make an index.
RebuildFails(s) ==
  LET c == Head(task[s])
      index == OfTable("create_index", c.ref, Last(task[s]).arg)
  IN /\ task[s] # <<>>
     /\ c.op \in Rebuild
     /\ Refused(s, c) \/ MayFail(c) \/ ~MayWrite(s)
     /\ \/ /\ fail(s, FALSE) /\ GoesOn(s, <<>>)
           /\ failed' = (failed \/ (writer' = s /\ ~unaware))
        \/ fail(s, TRUE) /\ GoesOn(s, <<>>) /\ UNCHANGED failed
        \/ fail(s, FALSE) /\ GoesOn(s, <<index>>) /\ UNCHANGED failed
     /\ UNCHANGED <<schemaList, unaware, listIs, late, disturbed>>

\* A handler gives up.  What CREATE, DROP and ALTER SCHEMA had written stays,
\* even in a transaction: a RENAME leaves tables under both names.  An ADD CONSTRAINT
\* to a table that is not there is answered as if it were.
GiveUp(s) ==
  LET c == Head(task[s])
      ofSchema == \E d \in Range(task[s]) : d.op \in {"register", "unregister", "reregister"}
  IN /\ task[s] # <<>>
     /\ c.op \notin Rebuild \cup Elsewhere
     /\ Refused(s, c) \/ MayFail(c) \/ (c.op \notin Queries /\ ~MayWrite(s))
     /\ GoesOn(s, <<>>)
     /\ \/ ~ofSchema /\ Reported(s)
        \/ (ofSchema \/ c.op = "read") /\ UNCHANGED txVars
     /\ disturbed' = IF ofSchema /\ c.op \in {"move_table", "reregister"}
                     THEN disturbed \cup About(s) ELSE disturbed
     /\ UNCHANGED <<schemaList, saved, unaware, listIs, late>>

-----------------------------------------------------------------------------
(* Transactions.                                                           *)

Begin(s) ==
  /\ task[s] = <<>>
  /\ asked < MaxAsked
  /\ asked' = asked + 1
  /\ BeginTx(s)
  /\ UNCHANGED <<schemaList, searchPath, task, saved, unaware, listIs, late, disturbed>>

\* The list is the committed one if it was the transaction's.
ListAfter(s, kept) ==
  IF work.schemas = db.schemas THEN IF listIs = "writer" THEN "committed" ELSE listIs
  ELSE IF kept = (listIs = "writer") /\ listIs # "nobody" THEN "committed" ELSE "nobody"

\* Of a transaction the session knows of; else COMMIT and ROLLBACK do nothing.
Commit(s) ==
  /\ task[s] = <<>> /\ ~unaware
  /\ CommitTx(s)
  /\ listIs' = ListAfter(s, TRUE)
  /\ late' = late \cup Late(s)
  /\ disturbed' = disturbed \cup MeetsAny(s)
  /\ UNCHANGED <<schemaList, searchPath, task, saved, unaware, asked>>

\* The list is not set back.
RollsBack(s) ==
  /\ task[s] = <<>>
  /\ RollbackTx(s)
  /\ listIs' = ListAfter(s, FALSE)
  /\ disturbed' = disturbed \cup MeetsAny(s)
  /\ UNCHANGED <<schemaList, task, saved, asked, late>>

Rollback(s) == ~unaware /\ RollsBack(s) /\ UNCHANGED <<searchPath, unaware>>

\* The connection ends, and with it a transaction; another takes its place.
Closes(s) ==
  /\ RollsBack(s)
  /\ unaware' = FALSE
  /\ searchPath' = [searchPath EXCEPT ![s] = <<>>]

-----------------------------------------------------------------------------
SchemaStatement(s) ==
  /\ "schemas" \in Asks[s]
  /\ \E x \in Schema \ {public} :
       \/ createSchema(s, x)
       \/ \E cascade \in BOOLEAN : dropSchema(s, x, cascade)
       \/ \E y \in Schema \ {public, x} : renameSchema(s, x, y)
       \/ \E r \in Ref : r[1] # x /\ setTableSchema(s, r, x)
       \/ \E t \in Table : setTableSchema(s, <<x, t>>, public)
       \/ setupConnection(s)

TableStatement(s) ==
  /\ "tables" \in Asks[s]
  /\ \E t \in Table, x \in Schema \cup {none} :
       \/ OnTable(s, "create_table", x, t) \/ OnTable(s, "drop_table", x, t)
       \/ OnTable(s, "insert", x, t) \/ OnTable(s, "create_index", x, t)

AlterStatement(s) == "alter" \in Asks[s] /\ \E r \in Ref : alterColumn(s, r)

PathStatement(s) == "path" \in Asks[s] /\ \E p \in Paths : SetSearchPath(s, p)

Next ==
  \E s \in Session :
    \/ SchemaStatement(s) \/ TableStatement(s) \/ AlterStatement(s) \/ PathStatement(s)
    \/ Query(s) \/ ReadAux(s) \/ SetSchemas(s) \/ Change(s) \/ GiveUp(s)
    \/ RebuildStep(s) \/ ReleaseRefused(s) \/ RebuildFails(s)
    \/ Begin(s) \/ Commit(s) \/ Rollback(s) \/ Closes(s)

Spec == Init /\ [][Next]_vars

-----------------------------------------------------------------------------
(* What must hold.                                                         *)

\* Between statements, with no transaction open: a table is in a schema that is
\* registered, unless a handler was disturbed; and the list in memory is the
\* registry, unless two connections read it at once or the transaction it was
\* read in did not commit (schema.go:215-219, 418-426; searchpath.go:24-41).
SchemasAgree ==
  (writer = NoSession /\ \A s \in Session : task[s] = <<>>) =>
     /\ \A r \in DOMAIN db.tables : r[1] \in {public} \cup db.schemas \cup disturbed
     /\ listIs # "nobody" => schemaList = db.schemas

\* A table is as it is due: it has every row, index and trigger, and every change of its
\* definition, that was acknowledged, but for the changes in undone, and no others.
AsDue(content, due) ==
  /\ content.rows = due.rows /\ content.aux = due.aux
  /\ due.ddl \ due.undone \subseteq content.ddl /\ content.ddl \subseteq due.ddl

\* No temporary table stays, and the tables are as they are due, though rebuilds fail
\* half way, inside transactions or out of them, and the RELEASE that ends one may be
\* refused.  An ADD CONSTRAINT whose error was swallowed, and an ALTER whose RELEASE was
\* refused, are undone, though acknowledged; what a session is told after such a RELEASE
\* holds in the transaction that stays open, and goes with it; and two handlers that are
\* busy with one table at once may undo each other (alter.go:46-61, 210-218, 283-341).
RebuildKept ==
  /\ tmp \notin DOMAIN db.tables
  /\ \A r \in DOMAIN db.tables : r[1] \in disturbed \/ AsDue(db.tables[r], db.due[r])
=============================================================================
