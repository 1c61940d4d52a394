---------------------------- MODULE SchemasProofs ----------------------------
(***************************************************************************)
(* Proofs about Schemas, for any sessions, schemas, tables and statements: *)
(* the list in memory and the tables agree with the registry, and a        *)
(* rebuild of a table neither loses nor leaves anything.                   *)
(***************************************************************************)
EXTENDS Schemas, FiniteSetTheorems, WellFoundedInduction, TLAPS

-----------------------------------------------------------------------------
(* What a session's handler has left to do.  Here q is the list of calls,  *)
(* v what its session sees, D the disturbed schemas.                       *)

Named == Schema \ {public}
Content == [ddl : SUBSET Nat, rows : SUBSET Nat, aux : SUBSET Nat]
Due == [ddl : SUBSET Nat, rows : SUBSET Nat, aux : SUBSET Nat, undone : SUBSET Nat]
SchemaVersion == [schemas : SUBSET Schema, tables : Keyed(Ref \cup {tmp}, Content),
                  due : Keyed(Ref, Due)]

\* The schema x is registered.
Known(v, D, x) == x \in {public} \cup v.schemas \cup D

\* The calls are about all the tables of x, unless x is disturbed.
AllListed(calls, v, D, x) ==
  x \notin D => \A r \in DOMAIN v.tables : r[1] = x => \E c \in Range(calls) : c.ref = r

\* The statements about schemas, from the first call or a later one.
ToCreate(x) == <<OfSchema("absent", x, none), OfSchema("register", x, none), Refresh>>
ToCreate2(x) == <<OfSchema("register", x, none), Refresh>>
ToDrop(x, cascade) ==
  <<OfSchema("registered", x, none), Call("members_to_drop", <<x, none>>, none, cascade),
    OfSchema("unregister", x, none), Refresh>>
ToDrop2(x, cascade) ==
  <<Call("members_to_drop", <<x, none>>, none, cascade), OfSchema("unregister", x, none), Refresh>>
ToRename(x, y) ==
  <<OfSchema("registered", x, none), OfSchema("absent", y, none),
    OfSchema("members_to_move", x, y), OfSchema("reregister", x, y), Refresh>>
ToRename2(x, y) ==
  <<OfSchema("absent", y, none), OfSchema("members_to_move", x, y),
    OfSchema("reregister", x, y), Refresh>>
ToRename3(x, y) == <<OfSchema("members_to_move", x, y), OfSchema("reregister", x, y), Refresh>>
ToMove(r, y) == <<OfSchema("registered", y, none), Call("move_table", r, y, {}), Refresh>>
ToMove2(r, y) == <<Call("move_table", r, y, {}), Refresh>>

\* DROP SCHEMA x and RENAME TO y, when the tables are listed.
Members(op, x, y) == Seq({Call(op, r, y, {}) : r \in {x} \X Table})
Before(calls, a, b) == calls \o <<a, b>>
Dropping(calls, x) == Before(calls, OfSchema("unregister", x, none), Refresh)
Renaming(calls, x, y) == Before(calls, OfSchema("reregister", x, y), Refresh)

\* A statement about one table.
OfOne(q, v, D) ==
  \E r \in Ref, this \in SUBSET Nat :
    \/ q \in {<<OfTable("insert", r, this)>>, <<OfTable("create_index", r, this)>>,
              <<OfTable("drop_table", r, this)>>, <<OfTable("read", r, this)>>}
    \/ q = <<OfTable("create_table", r, this)>> /\ Known(v, D, r[1])

\* The new definition of r is the old one and the change.
Defines(v, D, r, ddl, this) ==
  r \in DOMAIN v.tables /\ r[1] \notin D => ddl = v.tables[r].ddl \cup this

\* And its indexes and triggers are the old ones.
Rebuilds(v, D, r, ddl, aux, this) ==
  /\ Defines(v, D, r, ddl, this)
  /\ r \in DOMAIN v.tables /\ r[1] \notin D => aux = v.tables[r].aux

\* A handler that is not in the midst of a rebuild.
Sound(q, v, D) ==
  \/ q = <<>> \/ q = <<Refresh>>
  \/ \E x \in Named : q = ToCreate(x) \/ q = ToCreate2(x)
  \/ \E x \in Named, cascade \in BOOLEAN : q = ToDrop(x, cascade) \/ q = ToDrop2(x, cascade)
  \/ \E x \in Named : \E calls \in Members("drop_member", x, none) :
       q = Dropping(calls, x) /\ AllListed(calls, v, D, x)
  \/ \E x, y \in Named :
       /\ x # y
       /\ \/ q = ToRename(x, y)
          \/ q \in {ToRename2(x, y), ToRename3(x, y)} /\ Known(v, D, x)
          \/ \E calls \in Members("move_table", x, y) :
               q = Renaming(calls, x, y) /\ Known(v, D, x) /\ AllListed(calls, v, D, x)
  \/ \E r \in Ref, y \in Schema :
       \/ q = ToMove(r, y)
       \/ q = ToMove2(r, y) /\ Known(v, D, y)
  \/ OfOne(q, v, D)
  \/ \E r \in Ref, ddl, this \in SUBSET Nat :
       q = auxDDLIn(r, ddl, this) /\ Defines(v, D, r, ddl, this)
  \/ \E r \in Ref, ddl, aux, this \in SUBSET Nat :
       q = rebuildTableCopying(r, ddl, aux, this) /\ Rebuilds(v, D, r, ddl, aux, this)

\* A rebuild, after its first call, and so on.
Rebuild6(r, this) == <<OfTable("release", r, this)>>
Rebuild5(r, aux, this) == <<OfTable("index", r, aux), OfTable("release", r, this)>>
Rebuild4(r, aux, this) ==
  <<OfTable("rename", r, {}), OfTable("index", r, aux), OfTable("release", r, this)>>
Rebuild3(r, aux, this) ==
  <<OfTable("drop", r, {}), OfTable("rename", r, {}), OfTable("index", r, aux),
    OfTable("release", r, this)>>
Rebuild2(r, aux, this) ==
  <<OfTable("copy", r, {}), OfTable("drop", r, {}), OfTable("rename", r, {}),
    OfTable("index", r, aux), OfTable("release", r, this)>>

\* The table with the new definition, when the rows are in it, and when the indexes are.
Indexed(u, r, ddl, aux) == [ddl |-> ddl, rows |-> u.tables[r].rows, aux |-> aux]
Copied(u, r, ddl) == Indexed(u, r, ddl, {})

\* How far it has come: it began when its session saw u, and has made it w.
Copying(q, u, w, r, ddl, aux, this) ==
  /\ q = Rebuild2(r, aux, this)
  /\ w.tables = With(u.tables, tmp, [ddl |-> ddl, rows |-> {}, aux |-> {}])
Filled(q, u, w, r, ddl, aux, this) ==
  /\ q = Rebuild3(r, aux, this) /\ w.tables = With(u.tables, tmp, Copied(u, r, ddl))
  /\ r \in DOMAIN u.tables
Dropped(q, u, w, r, ddl, aux, this) ==
  /\ q = Rebuild4(r, aux, this) /\ w.tables = Without(With(u.tables, tmp, Copied(u, r, ddl)), r)
  /\ r \in DOMAIN u.tables
Renamed(q, u, w, r, ddl, aux, this) ==
  /\ q = Rebuild5(r, aux, this) /\ w.tables = With(u.tables, r, Copied(u, r, ddl))
  /\ r \in DOMAIN u.tables
Finished(q, u, w, r, ddl, aux, this) ==
  /\ q = Rebuild6(r, this) /\ w.tables = With(u.tables, r, Indexed(u, r, ddl, aux))
  /\ r \in DOMAIN u.tables

Under(q, u, w, D) ==
  \E r \in Ref, ddl, aux, this \in SUBSET Nat :
    /\ Rebuilds(u, D, r, ddl, aux, this)
    /\ w \in SchemaVersion /\ w.schemas = u.schemas /\ w.due = u.due
    /\ \/ Copying(q, u, w, r, ddl, aux, this)
       \/ Filled(q, u, w, r, ddl, aux, this)
       \/ Dropped(q, u, w, r, ddl, aux, this)
       \/ Renamed(q, u, w, r, ddl, aux, this)
       \/ Finished(q, u, w, r, ddl, aux, this)

Begun(q) == q # <<>> /\ Head(q).op \in {"copy", "drop", "rename", "index", "release"}

\* The schema y is about to be registered in the place of another.
Pends(q, y) ==
  /\ q # <<>> /\ Head(q).op \in {"move_table", "reregister"}
  /\ \E c \in Range(q) : c.op = "reregister" /\ c.to = y

Refreshing(q) == q # <<>> /\ Head(q).op \in {"list", "set_list"}

-----------------------------------------------------------------------------
(* The invariants.                                                         *)

SchemasTyped ==
  /\ db \in SchemaVersion /\ work \in SchemaVersion /\ saved.v \in SchemaVersion
  /\ saved = [v |-> saved.v, own |-> saved.own] /\ saved.own \in BOOLEAN
  /\ writer \in Session \cup {NoSession}
  /\ schemaList \in SUBSET Schema
  /\ searchPath \in [Session -> Seq(Schema)]
  /\ task = [s \in Session |-> task[s]]
  /\ asked \in Nat
  /\ listIs \in {"committed", "writer", "nobody"}

\* The schemas that s saw are about to be the list.
Sets(q, L) == q = <<Call("set_list", <<public, none>>, none, L)>>

Handled(s) ==
  \/ Sound(task[s], View(s), disturbed)
  \/ \E L \in SUBSET Schema : Sets(task[s], L) /\ (s \in late \/ L = View(s).schemas)
  \/ writer = s /\ Under(task[s], saved.v, work, disturbed)

\* A rebuild is under way, and what its session saw before.
Within == writer # NoSession /\ Begun(task[writer])
Settled == IF Within THEN saved.v ELSE work

\* No temporary table stays, and the tables are as they are due.
Kept(v, D) ==
  /\ tmp \notin DOMAIN v.tables
  /\ DOMAIN v.due = DOMAIN v.tables /\ IsFiniteSet(DOMAIN v.tables)
  /\ \A r \in DOMAIN v.tables : r[1] \in D \/ AsDue(v.tables[r], v.due[r])

\* There are tables in the schema x, which is not registered.
Amiss(v, x) == x \notin {public} \cup v.schemas /\ \E r \in DOMAIN v.tables : r[1] = x

\* Then it is about to be: the committed one by a session that writes by itself.
Mended ==
  \A x \in Schema \ disturbed :
    /\ Amiss(db, x) => \E s \in Session \ {writer} : Pends(task[s], x)
    /\ Amiss(Settled, x) => \E s \in Session : Pends(task[s], x)

\* The list tells of the version it is said to, or is about to be read again.
ListRight ==
  /\ listIs = "committed" =>
       schemaList = db.schemas \/ \E s \in Session \ {writer} : Refreshing(task[s])
  /\ listIs = "writer" =>
       /\ writer # NoSession /\ ~(Within /\ saved.own)
       /\ schemaList = work.schemas \/ Refreshing(task[writer])

OneVersion ==
  /\ writer = NoSession => work = db
  /\ Within /\ saved.own => saved.v = db

SchemasInv ==
  /\ SchemasTyped /\ OneVersion /\ Mended /\ ListRight
  /\ \A s \in Session : Handled(s)
  /\ Kept(db, disturbed) /\ Kept(Settled, disturbed)

-----------------------------------------------------------------------------
(* Tables of rows.                                                         *)

\* A table keeps its type when a row is put into it.
LEMMA WithTyped ==
  ASSUME NEW K, NEW R, NEW T \in Keyed(K, R), NEW k \in K, NEW row \in R
  PROVE  With(T, k, row) \in Keyed(K, R)
<1>1. PICK Q \in SUBSET K : T \in [Q -> R]
  BY DEF Keyed
<1>2. With(T, k, row) \in [Q \cup {k} -> R]
  BY <1>1 DEF With
<1>3. Q \cup {k} \in SUBSET K
  BY <1>1
<1> QED
  BY <1>2, <1>3 DEF Keyed

\* And when one is taken out of it.
LEMMA WithoutTyped ==
  ASSUME NEW K, NEW R, NEW T \in Keyed(K, R), NEW k
  PROVE  Without(T, k) \in Keyed(K, R)
<1>1. PICK Q \in SUBSET K : T \in [Q -> R]
  BY DEF Keyed
<1>2. Without(T, k) \in [Q \ {k} -> R]
  BY <1>1 DEF Without
<1>3. Q \ {k} \in SUBSET K
  BY <1>1
<1> QED
  BY <1>2, <1>3 DEF Keyed

\* And when its rows are moved.
LEMMA MovedTyped ==
  ASSUME NEW K, NEW R, NEW T \in Keyed(K, R), NEW k \in DOMAIN T, NEW l \in K
  PROVE  Moved(T, k, l) \in Keyed(K, R)
<1>1. T[k] \in R
  BY DEF Keyed
<1>2. Without(T, k) \in Keyed(K, R)
  BY WithoutTyped
<1> QED
  BY <1>1, <1>2, WithTyped DEF Moved

\* The rows of a table are rows.
LEMMA RowTyped ==
  ASSUME NEW K, NEW R, NEW T \in Keyed(K, R)
  PROVE  /\ DOMAIN T \subseteq K
         /\ \A x \in DOMAIN T : T[x] \in R
BY DEF Keyed

\* A row may be changed.
LEMMA ChangedTyped ==
  ASSUME NEW K, NEW R, NEW T \in Keyed(K, R), NEW k \in DOMAIN T, NEW row \in R
  PROVE  [T EXCEPT ![k] = row] \in Keyed(K, R)
<1>1. PICK Q \in SUBSET K : T \in [Q -> R]
  BY DEF Keyed
<1>2. [T EXCEPT ![k] = row] \in [Q -> R]
  BY <1>1
<1> QED
  BY <1>1, <1>2 DEF Keyed

\* What is in a table, and what is not.
LEMMA WithKeys ==
  ASSUME NEW T, NEW k, NEW row, NEW U, U = With(T, k, row)
  PROVE  DOMAIN U = DOMAIN T \cup {k}
BY DEF With

\* Nothing else is there.
LEMMA WithFrom ==
  ASSUME NEW T, NEW k, NEW row, NEW U, U = With(T, k, row)
  PROVE  \A x \in DOMAIN U : x = k \/ x \in DOMAIN T
BY DEF With

\* The row that was put there.
LEMMA WithHas ==
  ASSUME NEW T, NEW k, NEW row, NEW U, U = With(T, k, row)
  PROVE  U[k] = row
BY DEF With

\* The other rows stay.
LEMMA WithRows ==
  ASSUME NEW T, NEW k, NEW row, NEW U, U = With(T, k, row)
  PROVE  \A x \in DOMAIN T : x # k => U[x] = T[x]
BY DEF With

\* A row is taken out.
LEMMA WithoutKeys ==
  ASSUME NEW T, NEW k, NEW U, U = Without(T, k)
  PROVE  DOMAIN U = DOMAIN T \ {k}
BY DEF Without

\* The other rows stay.
LEMMA WithoutRows ==
  ASSUME NEW T, NEW k, NEW U, U = Without(T, k)
  PROVE  \A x \in DOMAIN U : U[x] = T[x]
BY DEF Without

\* A table under another name.
LEMMA MovedKeys ==
  ASSUME NEW T, NEW k, NEW l, NEW U, U = Moved(T, k, l)
  PROVE  DOMAIN U = (DOMAIN T \ {k}) \cup {l}
BY DEF Moved, With, Without

\* Nothing else is there.
LEMMA MovedFrom ==
  ASSUME NEW T, NEW k, NEW l, NEW U, U = Moved(T, k, l)
  PROVE  \A x \in DOMAIN U : x = l \/ (x # k /\ x \in DOMAIN T)
BY DEF Moved, With, Without

\* Under its new name it is what it was.
LEMMA MovedHas ==
  ASSUME NEW T, NEW k, NEW l, NEW U, U = Moved(T, k, l)
  PROVE  U[l] = T[k]
BY DEF Moved, With, Without

\* The other tables stay.
LEMMA MovedRows ==
  ASSUME NEW T, NEW k, NEW l, NEW U, U = Moved(T, k, l)
  PROVE  \A x \in DOMAIN T : x # k /\ x # l => U[x] = T[x]
BY DEF Moved, With, Without

-----------------------------------------------------------------------------
(* The handlers' lists.                                                    *)

\* Short lists: their calls, the first, and the others.
LEMMA List1 ==
  ASSUME NEW a
  PROVE  Range(<<a>>) = {a} /\ Head(<<a>>) = a /\ Tail(<<a>>) = <<>> /\ <<a>> # <<>>
BY DEF Range

\* A list of two.
LEMMA List2 ==
  ASSUME NEW a, NEW b
  PROVE  Range(<<a, b>>) = {a, b} /\ Head(<<a, b>>) = a /\ Tail(<<a, b>>) = <<b>> /\ <<a, b>> # <<>>
BY DEF Range

\* A list of three: its calls,
LEMMA List3R == ASSUME NEW a, NEW b, NEW c PROVE Range(<<a, b, c>>) = {a, b, c}
BY DEF Range

\* the first,
LEMMA List3H == ASSUME NEW a, NEW b, NEW c PROVE Head(<<a, b, c>>) = a /\ <<a, b, c>> # <<>>
OBVIOUS

\* and the others.
LEMMA List3T == ASSUME NEW a, NEW b, NEW c PROVE Tail(<<a, b, c>>) = <<b, c>>
OBVIOUS

\* A list of four: its calls,
LEMMA List4R == ASSUME NEW a, NEW b, NEW c, NEW d PROVE Range(<<a, b, c, d>>) = {a, b, c, d}
BY DEF Range

\* the first,
LEMMA List4H == ASSUME NEW a, NEW b, NEW c, NEW d PROVE Head(<<a, b, c, d>>) = a /\ <<a, b, c, d>> # <<>>
OBVIOUS

\* and the others.
LEMMA List4T == ASSUME NEW a, NEW b, NEW c, NEW d PROVE Tail(<<a, b, c, d>>) = <<b, c, d>>
OBVIOUS

\* A list of five: its calls,
LEMMA List5R == ASSUME NEW a, NEW b, NEW c, NEW d, NEW e PROVE Range(<<a, b, c, d, e>>) = {a, b, c, d, e}
BY DEF Range

\* the first,
LEMMA List5H == ASSUME NEW a, NEW b, NEW c, NEW d, NEW e PROVE Head(<<a, b, c, d, e>>) = a /\ <<a, b, c, d, e>> # <<>>
OBVIOUS

\* and the others.
LEMMA List5T == ASSUME NEW a, NEW b, NEW c, NEW d, NEW e PROVE Tail(<<a, b, c, d, e>>) = <<b, c, d, e>>
OBVIOUS

\* A list of six: its calls,
LEMMA List6R ==
  ASSUME NEW a, NEW b, NEW c, NEW d, NEW e, NEW f
  PROVE  Range(<<a, b, c, d, e, f>>) = {a, b, c, d, e, f}
BY DEF Range

\* the first,
LEMMA List6H ==
  ASSUME NEW a, NEW b, NEW c, NEW d, NEW e, NEW f
  PROVE  Head(<<a, b, c, d, e, f>>) = a /\ <<a, b, c, d, e, f>> # <<>>
OBVIOUS

\* and the others.
LEMMA List6T ==
  ASSUME NEW a, NEW b, NEW c, NEW d, NEW e, NEW f
  PROVE  Tail(<<a, b, c, d, e, f>>) = <<b, c, d, e, f>>
OBVIOUS

\* The last call of a list of one.
LEMMA List1L ==
  ASSUME NEW a
  PROVE  Last(<<a>>) = a
BY DEF Last

\* The last call of a list of two.
LEMMA List2L ==
  ASSUME NEW a, NEW b
  PROVE  Last(<<a, b>>) = b
BY DEF Last

\* The last call of a list of three.
LEMMA List3L ==
  ASSUME NEW a, NEW b, NEW c
  PROVE  Last(<<a, b, c>>) = c
BY DEF Last

\* The last call of a list of four.
LEMMA List4L ==
  ASSUME NEW a, NEW b, NEW c, NEW d
  PROVE  Last(<<a, b, c, d>>) = d
BY DEF Last

\* The last call of a list of five.
LEMMA List5L ==
  ASSUME NEW a, NEW b, NEW c, NEW d, NEW e
  PROVE  Last(<<a, b, c, d, e>>) = e
BY DEF Last

\* The last call of a list of six.
LEMMA List6L ==
  ASSUME NEW a, NEW b, NEW c, NEW d, NEW e, NEW f
  PROVE  Last(<<a, b, c, d, e, f>>) = f
BY DEF Last

\* Calls with two more after them.
LEMMA BeforeIs ==
  ASSUME NEW S, NEW calls \in Seq(S), NEW a, NEW b
  PROVE  /\ Range(Before(calls, a, b)) = Range(calls) \cup {a, b}
         /\ Range(calls) \subseteq S /\ Before(calls, a, b) # <<>>
<1> DEFINE S2 == S \cup {a, b}
           q == calls \o <<a, b>>
<1>1. calls \in Seq(S2) /\ <<a, b>> \in Seq(S2)
  OBVIOUS
<1>2. Len(<<a, b>>) = 2 /\ <<a, b>>[1] = a /\ <<a, b>>[2] = b
  OBVIOUS
<1> HIDE DEF S2
<1>3. q \in Seq(S2) /\ Len(q) = Len(calls) + 2
  BY <1>1, <1>2
<1>4. Len(calls) \in Nat /\ DOMAIN calls = 1..Len(calls)
  BY <1>1
<1>5. /\ \A i \in 1..Len(calls) : q[i] = calls[i]
      /\ q[Len(calls) + 1] = a /\ q[Len(calls) + 2] = b
  BY <1>1, <1>2, <1>4
<1>6. DOMAIN q = 1..(Len(calls) + 2) /\ q # <<>>
  BY <1>3, <1>4
<1> HIDE DEF q
<1>7. Range(q) \subseteq Range(calls) \cup {a, b}
  <2>1. ASSUME NEW i \in DOMAIN q PROVE q[i] \in Range(calls) \cup {a, b}
    <3>1. i \in 1..Len(calls) \/ i = Len(calls) + 1 \/ i = Len(calls) + 2
      BY <1>4, <1>6, <2>1
    <3> QED
      BY <1>4, <1>5, <3>1 DEF Range
  <2> QED
    BY <2>1 DEF Range
<1>8. Range(calls) \subseteq Range(q)
  <2>1. ASSUME NEW i \in DOMAIN calls PROVE i \in DOMAIN q /\ q[i] = calls[i]
    BY <1>4, <1>5, <1>6, <2>1
  <2> QED
    BY <2>1 DEF Range
<1>9. a \in Range(q) /\ b \in Range(q)
  <2>1. Len(calls) + 1 \in DOMAIN q /\ Len(calls) + 2 \in DOMAIN q
    BY <1>4, <1>6
  <2> QED
    BY <1>5, <2>1 DEF Range
<1>10. Range(calls) \subseteq S
  BY DEF Range
<1> QED
  BY <1>6, <1>7, <1>8, <1>9, <1>10 DEF q, Before

\* The first of the two is among them.
LEMMA BeforeHas ==
  ASSUME NEW S, NEW calls \in Seq(S), NEW a, NEW b
  PROVE  a \in Range(Before(calls, a, b))
BY BeforeIs

\* There is a call.
LEMMA BeforeFirst ==
  ASSUME NEW S, NEW calls \in Seq(S), NEW a, NEW b
  PROVE  Before(calls, a, b) # <<>>
BY BeforeIs

\* There is no other.
LEMMA BeforeOnly ==
  ASSUME NEW S, NEW calls \in Seq(S), NEW a, NEW b, NEW c \in Range(Before(calls, a, b))
  PROVE  c \in S \cup {a, b} /\ c \in Range(calls) \cup {a, b}
BY BeforeIs

\* And without the first of them.
LEMMA BeforeTail ==
  ASSUME NEW S, NEW calls \in Seq(S), NEW a, NEW b, calls # <<>>
  PROVE  Tail(Before(calls, a, b)) = Before(Tail(calls), a, b)
<1> DEFINE S2 == S \cup {a, b}
<1>1. calls \in Seq(S2) /\ <<a, b>> \in Seq(S2)
  OBVIOUS
<1> HIDE DEF S2
<1> QED
  BY <1>1 DEF Before

\* The first is that of the calls.
LEMMA BeforeHead ==
  ASSUME NEW S, NEW calls \in Seq(S), NEW a, NEW b, calls # <<>>
  PROVE  Head(Before(calls, a, b)) = Head(calls)
<1> DEFINE S2 == S \cup {a, b}
<1>1. calls \in Seq(S2) /\ <<a, b>> \in Seq(S2)
  OBVIOUS
<1> HIDE DEF S2
<1> QED
  BY <1>1 DEF Before

\* The others are of the same kind.
LEMMA TailTyped ==
  ASSUME NEW S, NEW calls \in Seq(S), calls # <<>>
  PROVE  Head(calls) \in S /\ Tail(calls) \in Seq(S)
OBVIOUS

\* A call is the first or one of the others.
LEMMA TailHas ==
  ASSUME NEW S, NEW calls \in Seq(S), calls # <<>>, NEW c \in Range(calls)
  PROVE  c = Head(calls) \/ c \in Range(Tail(calls))
<1>1. /\ Len(calls) \in Nat \ {0} /\ DOMAIN calls = 1..Len(calls) /\ Head(calls) = calls[1]
      /\ DOMAIN Tail(calls) = 1..(Len(calls) - 1)
      /\ \A i \in 1..(Len(calls) - 1) : Tail(calls)[i] = calls[i + 1]
  OBVIOUS
<1>2. PICK i \in DOMAIN calls : c = calls[i]
  BY DEF Range
<1>3. CASE i # 1
  <2>1. i - 1 \in DOMAIN Tail(calls) /\ Tail(calls)[i - 1] = calls[i]
    BY <1>1, <1>3
  <2> QED
    BY <1>2, <2>1 DEF Range
<1> QED
  BY <1>1, <1>2, <1>3

\* When there are no calls but the two.
LEMMA BeforeAlone ==
  ASSUME NEW a, NEW b
  PROVE  /\ Before(<<>>, a, b) = <<a, b>> /\ Head(Before(<<>>, a, b)) = a
         /\ Tail(Before(<<>>, a, b)) = <<b>>
<1>1. Before(<<>>, a, b) = <<a, b>>
  BY DEF Before
<1> QED
  BY <1>1, List2

\* The handlers' lists: their calls, the first, and the others.
LEMMA ToCreateIs ==
  ASSUME NEW x
  PROVE  /\ ToCreate(x) # <<>> /\ Head(ToCreate(x)) = OfSchema("absent", x, none)
         /\ Tail(ToCreate(x)) = ToCreate2(x)
         /\ Range(ToCreate(x)) = {OfSchema("absent", x, none),
                              OfSchema("register", x, none),
                              Refresh}
<1>1. PICK a, b, c :
         /\ ToCreate(x) = <<a, b, c>>
         /\ a = OfSchema("absent", x, none)
         /\ b = OfSchema("register", x, none)
         /\ c = Refresh
  BY DEF ToCreate
<1>2. ToCreate2(x) = <<b, c>>
  BY <1>1 DEF ToCreate2
<1>3. ToCreate(x) = <<a, b, c>>
  BY <1>1
<1>4. ToCreate(x) # <<>> /\ Head(ToCreate(x)) = a
  BY <1>3, List3H
<1>5. Tail(ToCreate(x)) = <<b, c>>
  BY <1>3, List3T
<1>6. Range(ToCreate(x)) = {a, b, c}
  BY <1>3, List3R
<1> QED
  BY <1>1, <1>2, <1>4, <1>5, <1>6

\* CREATE SCHEMA, when the name is free.
LEMMA ToCreate2Is ==
  ASSUME NEW x
  PROVE  /\ ToCreate2(x) # <<>> /\ Head(ToCreate2(x)) = OfSchema("register", x, none)
         /\ Tail(ToCreate2(x)) = <<Refresh>>
         /\ Range(ToCreate2(x)) = {OfSchema("register", x, none),
                              Refresh}
<1>1. PICK a, b :
         /\ ToCreate2(x) = <<a, b>>
         /\ a = OfSchema("register", x, none)
         /\ b = Refresh
  BY DEF ToCreate2
<1>2. <<Refresh>> = <<b>>
  BY <1>1
<1> QED
  BY <1>1, <1>2, List2

\* DROP SCHEMA.
LEMMA ToDropIs ==
  ASSUME NEW x, NEW cascade
  PROVE  /\ ToDrop(x, cascade) # <<>> /\ Head(ToDrop(x, cascade)) = OfSchema("registered", x, none)
         /\ Tail(ToDrop(x, cascade)) = ToDrop2(x, cascade)
         /\ Range(ToDrop(x, cascade)) = {OfSchema("registered", x, none),
                              Call("members_to_drop", <<x, none>>, none, cascade),
                              OfSchema("unregister", x, none),
                              Refresh}
<1>1. PICK a, b, c, d :
         /\ ToDrop(x, cascade) = <<a, b, c, d>>
         /\ a = OfSchema("registered", x, none)
         /\ b = Call("members_to_drop", <<x, none>>, none, cascade)
         /\ c = OfSchema("unregister", x, none)
         /\ d = Refresh
  BY DEF ToDrop
<1>2. ToDrop2(x, cascade) = <<b, c, d>>
  BY <1>1 DEF ToDrop2
<1>3. ToDrop(x, cascade) = <<a, b, c, d>>
  BY <1>1
<1>4. ToDrop(x, cascade) # <<>> /\ Head(ToDrop(x, cascade)) = a
  BY <1>3, List4H
<1>5. Tail(ToDrop(x, cascade)) = <<b, c, d>>
  BY <1>3, List4T
<1>6. Range(ToDrop(x, cascade)) = {a, b, c, d}
  BY <1>3, List4R
<1> QED
  BY <1>1, <1>2, <1>4, <1>5, <1>6

\* DROP SCHEMA, when the schema is there.
LEMMA ToDrop2Is ==
  ASSUME NEW x, NEW cascade
  PROVE  /\ ToDrop2(x, cascade) # <<>> /\ Head(ToDrop2(x, cascade)) = Call("members_to_drop", <<x, none>>, none, cascade)
         /\ Tail(ToDrop2(x, cascade)) = <<OfSchema("unregister", x, none), Refresh>>
         /\ Range(ToDrop2(x, cascade)) = {Call("members_to_drop", <<x, none>>, none, cascade),
                              OfSchema("unregister", x, none),
                              Refresh}
<1>1. PICK a, b, c :
         /\ ToDrop2(x, cascade) = <<a, b, c>>
         /\ a = Call("members_to_drop", <<x, none>>, none, cascade)
         /\ b = OfSchema("unregister", x, none)
         /\ c = Refresh
  BY DEF ToDrop2
<1>2. <<OfSchema("unregister", x, none), Refresh>> = <<b, c>>
  BY <1>1
<1>3. ToDrop2(x, cascade) = <<a, b, c>>
  BY <1>1
<1>4. ToDrop2(x, cascade) # <<>> /\ Head(ToDrop2(x, cascade)) = a
  BY <1>3, List3H
<1>5. Tail(ToDrop2(x, cascade)) = <<b, c>>
  BY <1>3, List3T
<1>6. Range(ToDrop2(x, cascade)) = {a, b, c}
  BY <1>3, List3R
<1> QED
  BY <1>1, <1>2, <1>4, <1>5, <1>6

\* RENAME TO.
LEMMA ToRenameIs ==
  ASSUME NEW x, NEW y
  PROVE  /\ ToRename(x, y) # <<>> /\ Head(ToRename(x, y)) = OfSchema("registered", x, none)
         /\ Tail(ToRename(x, y)) = ToRename2(x, y)
         /\ Range(ToRename(x, y)) = {OfSchema("registered", x, none),
                              OfSchema("absent", y, none),
                              OfSchema("members_to_move", x, y),
                              OfSchema("reregister", x, y),
                              Refresh}
<1>1. PICK a, b, c, d, e :
         /\ ToRename(x, y) = <<a, b, c, d, e>>
         /\ a = OfSchema("registered", x, none)
         /\ b = OfSchema("absent", y, none)
         /\ c = OfSchema("members_to_move", x, y)
         /\ d = OfSchema("reregister", x, y)
         /\ e = Refresh
  BY DEF ToRename
<1>2. ToRename2(x, y) = <<b, c, d, e>>
  BY <1>1 DEF ToRename2
<1>3. ToRename(x, y) = <<a, b, c, d, e>>
  BY <1>1
<1>4. ToRename(x, y) # <<>> /\ Head(ToRename(x, y)) = a
  BY <1>3, List5H
<1>5. Tail(ToRename(x, y)) = <<b, c, d, e>>
  BY <1>3, List5T
<1>6. Range(ToRename(x, y)) = {a, b, c, d, e}
  BY <1>3, List5R
<1> QED
  BY <1>1, <1>2, <1>4, <1>5, <1>6

\* RENAME TO, when the schema is there.
LEMMA ToRename2Is ==
  ASSUME NEW x, NEW y
  PROVE  /\ ToRename2(x, y) # <<>> /\ Head(ToRename2(x, y)) = OfSchema("absent", y, none)
         /\ Tail(ToRename2(x, y)) = ToRename3(x, y)
         /\ Range(ToRename2(x, y)) = {OfSchema("absent", y, none),
                              OfSchema("members_to_move", x, y),
                              OfSchema("reregister", x, y),
                              Refresh}
<1>1. PICK a, b, c, d :
         /\ ToRename2(x, y) = <<a, b, c, d>>
         /\ a = OfSchema("absent", y, none)
         /\ b = OfSchema("members_to_move", x, y)
         /\ c = OfSchema("reregister", x, y)
         /\ d = Refresh
  BY DEF ToRename2
<1>2. ToRename3(x, y) = <<b, c, d>>
  BY <1>1 DEF ToRename3
<1>3. ToRename2(x, y) = <<a, b, c, d>>
  BY <1>1
<1>4. ToRename2(x, y) # <<>> /\ Head(ToRename2(x, y)) = a
  BY <1>3, List4H
<1>5. Tail(ToRename2(x, y)) = <<b, c, d>>
  BY <1>3, List4T
<1>6. Range(ToRename2(x, y)) = {a, b, c, d}
  BY <1>3, List4R
<1> QED
  BY <1>1, <1>2, <1>4, <1>5, <1>6

\* RENAME TO, when the new name is free.
LEMMA ToRename3Is ==
  ASSUME NEW x, NEW y
  PROVE  /\ ToRename3(x, y) # <<>> /\ Head(ToRename3(x, y)) = OfSchema("members_to_move", x, y)
         /\ Tail(ToRename3(x, y)) = <<OfSchema("reregister", x, y), Refresh>>
         /\ Range(ToRename3(x, y)) = {OfSchema("members_to_move", x, y),
                              OfSchema("reregister", x, y),
                              Refresh}
<1>1. PICK a, b, c :
         /\ ToRename3(x, y) = <<a, b, c>>
         /\ a = OfSchema("members_to_move", x, y)
         /\ b = OfSchema("reregister", x, y)
         /\ c = Refresh
  BY DEF ToRename3
<1>2. <<OfSchema("reregister", x, y), Refresh>> = <<b, c>>
  BY <1>1
<1>3. ToRename3(x, y) = <<a, b, c>>
  BY <1>1
<1>4. ToRename3(x, y) # <<>> /\ Head(ToRename3(x, y)) = a
  BY <1>3, List3H
<1>5. Tail(ToRename3(x, y)) = <<b, c>>
  BY <1>3, List3T
<1>6. Range(ToRename3(x, y)) = {a, b, c}
  BY <1>3, List3R
<1> QED
  BY <1>1, <1>2, <1>4, <1>5, <1>6

\* SET SCHEMA.
LEMMA ToMoveIs ==
  ASSUME NEW r, NEW y
  PROVE  /\ ToMove(r, y) # <<>> /\ Head(ToMove(r, y)) = OfSchema("registered", y, none)
         /\ Tail(ToMove(r, y)) = ToMove2(r, y)
         /\ Range(ToMove(r, y)) = {OfSchema("registered", y, none),
                              Call("move_table", r, y, {}),
                              Refresh}
<1>1. PICK a, b, c :
         /\ ToMove(r, y) = <<a, b, c>>
         /\ a = OfSchema("registered", y, none)
         /\ b = Call("move_table", r, y, {})
         /\ c = Refresh
  BY DEF ToMove
<1>2. ToMove2(r, y) = <<b, c>>
  BY <1>1 DEF ToMove2
<1>3. ToMove(r, y) = <<a, b, c>>
  BY <1>1
<1>4. ToMove(r, y) # <<>> /\ Head(ToMove(r, y)) = a
  BY <1>3, List3H
<1>5. Tail(ToMove(r, y)) = <<b, c>>
  BY <1>3, List3T
<1>6. Range(ToMove(r, y)) = {a, b, c}
  BY <1>3, List3R
<1> QED
  BY <1>1, <1>2, <1>4, <1>5, <1>6

\* SET SCHEMA, when the schema is there.
LEMMA ToMove2Is ==
  ASSUME NEW r, NEW y
  PROVE  /\ ToMove2(r, y) # <<>> /\ Head(ToMove2(r, y)) = Call("move_table", r, y, {})
         /\ Tail(ToMove2(r, y)) = <<Refresh>>
         /\ Range(ToMove2(r, y)) = {Call("move_table", r, y, {}),
                              Refresh}
<1>1. PICK a, b :
         /\ ToMove2(r, y) = <<a, b>>
         /\ a = Call("move_table", r, y, {})
         /\ b = Refresh
  BY DEF ToMove2
<1>2. <<Refresh>> = <<b>>
  BY <1>1
<1> QED
  BY <1>1, <1>2, List2

\* A rebuild,
LEMMA Rebuild1Is ==
  ASSUME NEW r, NEW ddl, NEW aux, NEW this
  PROVE  /\ rebuildTableCopying(r, ddl, aux, this) # <<>> /\ Head(rebuildTableCopying(r, ddl, aux, this)) = OfTable("create", r, ddl)
         /\ Tail(rebuildTableCopying(r, ddl, aux, this)) = Rebuild2(r, aux, this)
         /\ Range(rebuildTableCopying(r, ddl, aux, this)) = {OfTable("create", r, ddl),
                              OfTable("copy", r, {}),
                              OfTable("drop", r, {}),
                              OfTable("rename", r, {}),
                              OfTable("index", r, aux),
                              OfTable("release", r, this)}
         /\ Last(rebuildTableCopying(r, ddl, aux, this)) = OfTable("release", r, this)
<1>1. PICK a, b, c, d, e, f :
         /\ rebuildTableCopying(r, ddl, aux, this) = <<a, b, c, d, e, f>>
         /\ a = OfTable("create", r, ddl)
         /\ b = OfTable("copy", r, {})
         /\ c = OfTable("drop", r, {})
         /\ d = OfTable("rename", r, {})
         /\ e = OfTable("index", r, aux)
         /\ f = OfTable("release", r, this)
  BY DEF rebuildTableCopying
<1>2. Rebuild2(r, aux, this) = <<b, c, d, e, f>>
  BY <1>1 DEF Rebuild2
<1>3. rebuildTableCopying(r, ddl, aux, this) = <<a, b, c, d, e, f>>
  BY <1>1
<1>4. Last(rebuildTableCopying(r, ddl, aux, this)) = f
  BY <1>3, List6L
<1>5. rebuildTableCopying(r, ddl, aux, this) # <<>> /\ Head(rebuildTableCopying(r, ddl, aux, this)) = a
  BY <1>3, List6H
<1>6. Tail(rebuildTableCopying(r, ddl, aux, this)) = <<b, c, d, e, f>>
  BY <1>3, List6T
<1>7. Range(rebuildTableCopying(r, ddl, aux, this)) = {a, b, c, d, e, f}
  BY <1>3, List6R
<1> QED
  BY <1>1, <1>2, <1>4, <1>5, <1>6, <1>7

\* when the temporary table is there,
LEMMA Rebuild2Is ==
  ASSUME NEW r, NEW aux, NEW this
  PROVE  /\ Rebuild2(r, aux, this) # <<>> /\ Head(Rebuild2(r, aux, this)) = OfTable("copy", r, {})
         /\ Tail(Rebuild2(r, aux, this)) = Rebuild3(r, aux, this)
         /\ Range(Rebuild2(r, aux, this)) = {OfTable("copy", r, {}),
                              OfTable("drop", r, {}),
                              OfTable("rename", r, {}),
                              OfTable("index", r, aux),
                              OfTable("release", r, this)}
         /\ Last(Rebuild2(r, aux, this)) = OfTable("release", r, this)
<1>1. PICK a, b, c, d, e :
         /\ Rebuild2(r, aux, this) = <<a, b, c, d, e>>
         /\ a = OfTable("copy", r, {})
         /\ b = OfTable("drop", r, {})
         /\ c = OfTable("rename", r, {})
         /\ d = OfTable("index", r, aux)
         /\ e = OfTable("release", r, this)
  BY DEF Rebuild2
<1>2. Rebuild3(r, aux, this) = <<b, c, d, e>>
  BY <1>1 DEF Rebuild3
<1>3. Rebuild2(r, aux, this) = <<a, b, c, d, e>>
  BY <1>1
<1>4. Last(Rebuild2(r, aux, this)) = e
  BY <1>3, List5L
<1>5. Rebuild2(r, aux, this) # <<>> /\ Head(Rebuild2(r, aux, this)) = a
  BY <1>3, List5H
<1>6. Tail(Rebuild2(r, aux, this)) = <<b, c, d, e>>
  BY <1>3, List5T
<1>7. Range(Rebuild2(r, aux, this)) = {a, b, c, d, e}
  BY <1>3, List5R
<1> QED
  BY <1>1, <1>2, <1>4, <1>5, <1>6, <1>7

\* when the rows are copied,
LEMMA Rebuild3Is ==
  ASSUME NEW r, NEW aux, NEW this
  PROVE  /\ Rebuild3(r, aux, this) # <<>> /\ Head(Rebuild3(r, aux, this)) = OfTable("drop", r, {})
         /\ Tail(Rebuild3(r, aux, this)) = Rebuild4(r, aux, this)
         /\ Range(Rebuild3(r, aux, this)) = {OfTable("drop", r, {}),
                              OfTable("rename", r, {}),
                              OfTable("index", r, aux),
                              OfTable("release", r, this)}
         /\ Last(Rebuild3(r, aux, this)) = OfTable("release", r, this)
<1>1. PICK a, b, c, d :
         /\ Rebuild3(r, aux, this) = <<a, b, c, d>>
         /\ a = OfTable("drop", r, {})
         /\ b = OfTable("rename", r, {})
         /\ c = OfTable("index", r, aux)
         /\ d = OfTable("release", r, this)
  BY DEF Rebuild3
<1>2. Rebuild4(r, aux, this) = <<b, c, d>>
  BY <1>1 DEF Rebuild4
<1>3. Rebuild3(r, aux, this) = <<a, b, c, d>>
  BY <1>1
<1>4. Last(Rebuild3(r, aux, this)) = d
  BY <1>3, List4L
<1>5. Rebuild3(r, aux, this) # <<>> /\ Head(Rebuild3(r, aux, this)) = a
  BY <1>3, List4H
<1>6. Tail(Rebuild3(r, aux, this)) = <<b, c, d>>
  BY <1>3, List4T
<1>7. Range(Rebuild3(r, aux, this)) = {a, b, c, d}
  BY <1>3, List4R
<1> QED
  BY <1>1, <1>2, <1>4, <1>5, <1>6, <1>7

\* when the old table is dropped,
LEMMA Rebuild4Is ==
  ASSUME NEW r, NEW aux, NEW this
  PROVE  /\ Rebuild4(r, aux, this) # <<>> /\ Head(Rebuild4(r, aux, this)) = OfTable("rename", r, {})
         /\ Tail(Rebuild4(r, aux, this)) = Rebuild5(r, aux, this)
         /\ Range(Rebuild4(r, aux, this)) = {OfTable("rename", r, {}),
                              OfTable("index", r, aux),
                              OfTable("release", r, this)}
         /\ Last(Rebuild4(r, aux, this)) = OfTable("release", r, this)
<1>1. PICK a, b, c :
         /\ Rebuild4(r, aux, this) = <<a, b, c>>
         /\ a = OfTable("rename", r, {})
         /\ b = OfTable("index", r, aux)
         /\ c = OfTable("release", r, this)
  BY DEF Rebuild4
<1>2. Rebuild5(r, aux, this) = <<b, c>>
  BY <1>1 DEF Rebuild5
<1>3. Rebuild4(r, aux, this) = <<a, b, c>>
  BY <1>1
<1>4. Last(Rebuild4(r, aux, this)) = c
  BY <1>3, List3L
<1>5. Rebuild4(r, aux, this) # <<>> /\ Head(Rebuild4(r, aux, this)) = a
  BY <1>3, List3H
<1>6. Tail(Rebuild4(r, aux, this)) = <<b, c>>
  BY <1>3, List3T
<1>7. Range(Rebuild4(r, aux, this)) = {a, b, c}
  BY <1>3, List3R
<1> QED
  BY <1>1, <1>2, <1>4, <1>5, <1>6, <1>7

\* when the new one has its name,
LEMMA Rebuild5Is ==
  ASSUME NEW r, NEW aux, NEW this
  PROVE  /\ Rebuild5(r, aux, this) # <<>> /\ Head(Rebuild5(r, aux, this)) = OfTable("index", r, aux)
         /\ Tail(Rebuild5(r, aux, this)) = Rebuild6(r, this)
         /\ Range(Rebuild5(r, aux, this)) = {OfTable("index", r, aux),
                              OfTable("release", r, this)}
         /\ Last(Rebuild5(r, aux, this)) = OfTable("release", r, this)
<1>1. PICK a, b :
         /\ Rebuild5(r, aux, this) = <<a, b>>
         /\ a = OfTable("index", r, aux)
         /\ b = OfTable("release", r, this)
  BY DEF Rebuild5
<1>2. Rebuild6(r, this) = <<b>>
  BY <1>1 DEF Rebuild6
<1>3. Rebuild5(r, aux, this) = <<a, b>>
  BY <1>1
<1>4. Last(Rebuild5(r, aux, this)) = b
  BY <1>3, List2L
<1>5. /\ Rebuild5(r, aux, this) # <<>> /\ Head(Rebuild5(r, aux, this)) = a /\ Tail(Rebuild5(r, aux, this)) = <<b>>
      /\ Range(Rebuild5(r, aux, this)) = {a, b}
  BY <1>3, List2
<1> QED
  BY <1>1, <1>2, <1>4, <1>5

\* when its indexes are there.
LEMMA Rebuild6Is ==
  ASSUME NEW r, NEW this
  PROVE  /\ Rebuild6(r, this) # <<>> /\ Head(Rebuild6(r, this)) = OfTable("release", r, this)
         /\ Tail(Rebuild6(r, this)) = <<>>
         /\ Range(Rebuild6(r, this)) = {OfTable("release", r, this)}
         /\ Last(Rebuild6(r, this)) = OfTable("release", r, this)
<1>1. PICK a :
         /\ Rebuild6(r, this) = <<a>>
         /\ a = OfTable("release", r, this)
  BY DEF Rebuild6
<1>2. <<>> = <<>>
  BY <1>1
<1>3. Rebuild6(r, this) = <<a>>
  BY <1>1
<1>4. Last(Rebuild6(r, this)) = a
  BY <1>3, List1L
<1>5. /\ Rebuild6(r, this) # <<>> /\ Head(Rebuild6(r, this)) = a /\ Tail(Rebuild6(r, this)) = <<>>
      /\ Range(Rebuild6(r, this)) = {a}
  BY <1>3, List1
<1> QED
  BY <1>1, <1>2, <1>4, <1>5


AboutOf(q) == UNION {{c.ref[1], c.to} \ {none} : c \in Range(q)}

\* What is in a call.
LEMMA CallFields ==
  ASSUME NEW op, NEW r, NEW y, NEW arg
  PROVE  /\ Call(op, r, y, arg).op = op /\ Call(op, r, y, arg).ref = r
         /\ Call(op, r, y, arg).to = y /\ Call(op, r, y, arg).arg = arg
BY DEF Call

\* What a call does.
LEMMA CallOp ==
  ASSUME NEW c, NEW op, NEW r, NEW y, NEW arg, c = Call(op, r, y, arg)
  PROVE  c.op = op
BY DEF Call

\* What a call about a schema does.
LEMMA SchemaOp == \A op, x, y : OfSchema(op, x, y).op = op
BY DEF OfSchema, Call

\* What a call about a table does.
LEMMA TableOp == \A op, r, arg : OfTable(op, r, arg).op = op
BY DEF OfTable, Call

\* The table of a call.
LEMMA CallRef ==
  ASSUME NEW c, NEW op, NEW r, NEW y, NEW arg, c = Call(op, r, y, arg)
  PROVE  c.ref = r
BY DEF Call

\* A call about a schema.
LEMMA SchemaFields ==
  ASSUME NEW op, NEW x, NEW y
  PROVE  /\ OfSchema(op, x, y).op = op /\ OfSchema(op, x, y).ref = <<x, none>>
         /\ OfSchema(op, x, y).to = y /\ OfSchema(op, x, y).ref[1] = x
BY DEF OfSchema, Call

\* The indexes are read.
LEMMA AuxIs ==
  ASSUME NEW r, NEW ddl, NEW this
  PROVE  /\ auxDDLIn(r, ddl, this) # <<>> /\ Tail(auxDDLIn(r, ddl, this)) = <<>>
         /\ Head(auxDDLIn(r, ddl, this)) = OfTable("read_aux", r, [ddl |-> ddl, this |-> this])
         /\ OfTable("read_aux", r, [ddl |-> ddl, this |-> this]) \in Range(auxDDLIn(r, ddl, this))
<1>1. PICK a : a = OfTable("read_aux", r, [ddl |-> ddl, this |-> this])
  OBVIOUS
<1>2. auxDDLIn(r, ddl, this) = <<a>>
  BY <1>1 DEF auxDDLIn
<1> QED
  BY <1>1, <1>2, List1

\* A call about a table.
LEMMA TableFields ==
  ASSUME NEW op, NEW r, NEW arg
  PROVE  /\ OfTable(op, r, arg).op = op /\ OfTable(op, r, arg).ref = r
         /\ OfTable(op, r, arg).to = none /\ OfTable(op, r, arg).arg = arg
BY DEF OfTable, Call

\* The call that reads the list.
LEMMA RefreshFields == Refresh.op = "list" /\ Refresh.ref[1] = public /\ Refresh.to = none
BY SchemaFields DEF Refresh

\* The writes of DROP SCHEMA and RENAME, when the tables are listed.
LEMMA DroppingLast ==
  ASSUME NEW x
  PROVE  Dropping(<<>>, x) # <<>> /\ Head(Dropping(<<>>, x)) = OfSchema("unregister", x, none) /\ Tail(Dropping(<<>>, x)) = <<Refresh>>
<1>1. PICK a : a = OfSchema("unregister", x, none)
  OBVIOUS
<1>2. PICK S : S = {a}
  OBVIOUS
<1>3. <<>> \in Seq(S)
  OBVIOUS
<1>4. Before(<<>>, a, Refresh) # <<>>
  BY <1>3, BeforeFirst
<1> QED
  BY <1>1, <1>4, BeforeAlone DEF Dropping

\* The next table that DROP SCHEMA drops.
LEMMA DroppingNext ==
  ASSUME NEW x, NEW calls \in Members("drop_member", x, none), calls # <<>>
  PROVE  \E r \in {x} \X Table :
            /\ Dropping(calls, x) # <<>>
            /\ Head(Dropping(calls, x)) = Call("drop_member", r, none, {})
            /\ Tail(calls) \in Members("drop_member", x, none)
            /\ Tail(Dropping(calls, x)) = Dropping(Tail(calls), x)
            /\ \A c \in Range(calls) : c.ref = r \/ c \in Range(Tail(calls))
<1>1. PICK S : S = {Call("drop_member", r, none, {}) : r \in {x} \X Table} /\ calls \in Seq(S)
  BY DEF Members
<1>2. PICK a : a = OfSchema("unregister", x, none)
  OBVIOUS
<1>3. calls \in Seq(S)
  BY <1>1
<1>4. Before(calls, a, Refresh) # <<>>
  BY <1>3, BeforeFirst
<1>5. Tail(Before(calls, a, Refresh)) = Before(Tail(calls), a, Refresh)
  BY <1>3, BeforeTail
<1>6. Head(Before(calls, a, Refresh)) = Head(calls)
  BY <1>3, BeforeHead
<1>7. Head(calls) \in S /\ Tail(calls) \in Seq(S)
  BY <1>3, TailTyped
<1>8. \A c \in Range(calls) : c = Head(calls) \/ c \in Range(Tail(calls))
  BY <1>3, TailHas
<1>9. Tail(calls) \in Members("drop_member", x, none)
  BY <1>1, <1>7 DEF Members
<1>10. PICK r \in {x} \X Table : Head(calls) = Call("drop_member", r, none, {})
  BY <1>1, <1>7
<1>11. Head(calls).ref = r
  BY <1>10, CallRef, Zenon
<1>12. \A c \in Range(calls) : c.ref = r \/ c \in Range(Tail(calls))
  BY <1>8, <1>11
<1>13. Dropping(calls, x) = Before(calls, a, Refresh) /\ Dropping(Tail(calls), x) = Before(Tail(calls), a, Refresh)
  BY <1>2 DEF Dropping
<1> QED
  BY <1>4, <1>5, <1>6, <1>9, <1>10, <1>12, <1>13

\* The last write of RENAME.
LEMMA RenamingLast ==
  ASSUME NEW x, NEW y
  PROVE  Renaming(<<>>, x, y) # <<>> /\ Head(Renaming(<<>>, x, y)) = OfSchema("reregister", x, y) /\ Tail(Renaming(<<>>, x, y)) = <<Refresh>>
<1>1. PICK a : a = OfSchema("reregister", x, y)
  OBVIOUS
<1>2. PICK S : S = {a}
  OBVIOUS
<1>3. <<>> \in Seq(S)
  OBVIOUS
<1>4. Before(<<>>, a, Refresh) # <<>>
  BY <1>3, BeforeFirst
<1> QED
  BY <1>1, <1>4, BeforeAlone DEF Renaming

\* The next table that RENAME moves.
LEMMA RenamingNext ==
  ASSUME NEW x, NEW y, NEW calls \in Members("move_table", x, y), calls # <<>>
  PROVE  \E r \in {x} \X Table :
            /\ Renaming(calls, x, y) # <<>>
            /\ Head(Renaming(calls, x, y)) = Call("move_table", r, y, {})
            /\ Tail(calls) \in Members("move_table", x, y)
            /\ Tail(Renaming(calls, x, y)) = Renaming(Tail(calls), x, y)
            /\ \A c \in Range(calls) : c.ref = r \/ c \in Range(Tail(calls))
<1>1. PICK S : S = {Call("move_table", r, y, {}) : r \in {x} \X Table} /\ calls \in Seq(S)
  BY DEF Members
<1>2. PICK a : a = OfSchema("reregister", x, y)
  OBVIOUS
<1>3. calls \in Seq(S)
  BY <1>1
<1>4. Before(calls, a, Refresh) # <<>>
  BY <1>3, BeforeFirst
<1>5. Tail(Before(calls, a, Refresh)) = Before(Tail(calls), a, Refresh)
  BY <1>3, BeforeTail
<1>6. Head(Before(calls, a, Refresh)) = Head(calls)
  BY <1>3, BeforeHead
<1>7. Head(calls) \in S /\ Tail(calls) \in Seq(S)
  BY <1>3, TailTyped
<1>8. \A c \in Range(calls) : c = Head(calls) \/ c \in Range(Tail(calls))
  BY <1>3, TailHas
<1>9. Tail(calls) \in Members("move_table", x, y)
  BY <1>1, <1>7 DEF Members
<1>10. PICK r \in {x} \X Table : Head(calls) = Call("move_table", r, y, {})
  BY <1>1, <1>7
<1>11. Head(calls).ref = r
  BY <1>10, CallRef, Zenon
<1>12. \A c \in Range(calls) : c.ref = r \/ c \in Range(Tail(calls))
  BY <1>8, <1>11
<1>13. Renaming(calls, x, y) = Before(calls, a, Refresh) /\ Renaming(Tail(calls), x, y) = Before(Tail(calls), a, Refresh)
  BY <1>2 DEF Renaming
<1> QED
  BY <1>4, <1>5, <1>6, <1>9, <1>10, <1>12, <1>13

\* A handler is about the names in its calls.
LEMMA Names ==
  ASSUME NEW op, NEW r, NEW y, NEW arg, NEW q, Call(op, r, y, arg) \in Range(q)
  PROVE  {r[1], y} \ {none} \subseteq AboutOf(q)
<1> DEFINE c == Call(op, r, y, arg)
<1>1. c.ref = r /\ c.to = y
  BY DEF Call
<1>2. {c.ref[1], c.to} \ {none} \subseteq AboutOf(q)
  BY DEF AboutOf
<1> QED
  BY <1>1, <1>2

\* A call about a schema names it, and where to.
LEMMA SchemaNames ==
  ASSUME NEW op, NEW x \in Schema, NEW y, NEW q, OfSchema(op, x, y) \in Range(q)
  PROVE  x \in AboutOf(q) /\ (y # none => y \in AboutOf(q))
<1>1. Call(op, <<x, none>>, y, {}) \in Range(q)
  BY DEF OfSchema
<1>2. <<x, none>>[1] = x /\ x # none
  BY SchemasAssumption
<1> QED
  BY <1>1, <1>2, Names

-----------------------------------------------------------------------------
(* What a handler relies on, when others write.                            *)

\* The schema x and its tables are in w what they are in v.
Same(v, w, x) ==
  /\ x \in v.schemas => x \in w.schemas
  /\ \A r \in Ref : r[1] = x =>
       /\ r \in DOMAIN v.tables <=> r \in DOMAIN w.tables
       /\ r \in DOMAIN v.tables => v.tables[r] = w.tables[r]

\* The tables of a version are named, or temporary.
LEMMA TablesNamed ==
  ASSUME NEW v \in SchemaVersion, NEW r \in DOMAIN v.tables
  PROVE  /\ r \in Ref \cup {tmp} /\ v.tables[r] \in Content
         /\ r[1] # public => r \in Ref
<1>1. v.tables \in Keyed(Ref \cup {tmp}, Content)
  BY DEF SchemaVersion
<1>2. r \in Ref \cup {tmp} /\ v.tables[r] \in Content
  BY <1>1, RowTyped
<1>3. tmp[1] = public
  BY DEF tmp
<1> QED
  BY <1>2, <1>3

\* A schema that was known is known in another version in which it is the same.
LEMMA KnownElsewhere ==
  ASSUME NEW v, NEW w, NEW D, NEW E, D \subseteq E, NEW x,
         Known(v, D, x), x \in E \/ Same(v, w, x)
  PROVE  Known(w, E, x)
BY DEF Known, Same

\* The tables of a schema that was listed are still all of them.
LEMMA ListedElsewhere ==
  ASSUME NEW v \in SchemaVersion, NEW w \in SchemaVersion, NEW D, NEW E, D \subseteq E,
         NEW x \in Named, NEW calls, AllListed(calls, v, D, x), x \in E \/ Same(v, w, x)
  PROVE  AllListed(calls, w, E, x)
<1>1. SUFFICES ASSUME x \notin E, NEW r \in DOMAIN w.tables, r[1] = x
               PROVE  \E c \in Range(calls) : c.ref = r
  BY DEF AllListed
<1>2. r \in Ref
  BY <1>1, TablesNamed DEF Named
<1>3. r \in DOMAIN v.tables
  BY <1>1, <1>2 DEF Same
<1> QED
  BY <1>1, <1>3 DEF AllListed

\* The new definition is still the old one and the change.
LEMMA DefinesElsewhere ==
  ASSUME NEW v, NEW w, NEW D, NEW E, D \subseteq E, NEW r \in Ref, NEW ddl, NEW this,
         Defines(v, D, r, ddl, this), r[1] \in E \/ Same(v, w, r[1])
  PROVE  Defines(w, E, r, ddl, this)
BY DEF Defines, Same

\* And its indexes and triggers.
LEMMA RebuildsElsewhere ==
  ASSUME NEW v, NEW w, NEW D, NEW E, D \subseteq E, NEW r \in Ref, NEW ddl, NEW aux, NEW this,
         Rebuilds(v, D, r, ddl, aux, this), r[1] \in E \/ Same(v, w, r[1])
  PROVE  Rebuilds(w, E, r, ddl, aux, this)
BY DefinesElsewhere DEF Rebuilds, Same

\* The names in the handlers.
LEMMA DropNames ==
  ASSUME NEW x \in Named, NEW calls \in Members("drop_member", x, none)
  PROVE  x \in AboutOf(Dropping(calls, x))
<1>1. PICK S : calls \in Seq(S)
  BY DEF Members
<1>2. PICK a : a = OfSchema("unregister", x, none)
  OBVIOUS
<1>3. a \in Range(Before(calls, a, Refresh))
  BY <1>1, BeforeHas
<1>4. OfSchema("unregister", x, none) \in Range(Dropping(calls, x))
  BY <1>2, <1>3 DEF Dropping
<1> QED
  BY <1>4, SchemaNames DEF Named

\* RENAME names the two schemas.
LEMMA RenameNames ==
  ASSUME NEW q, NEW x \in Named, NEW y \in Named,
         \/ q \in {ToRename2(x, y), ToRename3(x, y)}
         \/ \E calls \in Members("move_table", x, y) : q = Renaming(calls, x, y)
  PROVE  {x, y} \subseteq AboutOf(q)
<1>1. OfSchema("reregister", x, y) \in Range(q)
  <2>1. CASE q = ToRename2(x, y)
    BY <2>1, ToRename2Is
  <2>2. CASE q = ToRename3(x, y)
    BY <2>2, ToRename3Is
  <2>3. ASSUME NEW calls \in Members("move_table", x, y), q = Renaming(calls, x, y)
        PROVE  OfSchema("reregister", x, y) \in Range(q)
    <3>1. PICK S : calls \in Seq(S)
      BY DEF Members
    <3>2. PICK a : a = OfSchema("reregister", x, y)
      OBVIOUS
    <3>3. a \in Range(Before(calls, a, Refresh))
      BY <3>1, BeforeHas
    <3> QED
      BY <2>3, <3>2, <3>3 DEF Renaming
  <2> QED
    BY <2>1, <2>2, <2>3
<1>2. x \in Schema /\ y \in Schema /\ y # none
  BY SchemasAssumption DEF Named
<1> QED
  BY <1>1, <1>2, SchemaNames

\* SET SCHEMA names where to.
LEMMA MoveNames ==
  ASSUME NEW r \in Ref, NEW y \in Schema
  PROVE  y \in AboutOf(ToMove2(r, y))
<1>1. Call("move_table", r, y, {}) \in Range(ToMove2(r, y))
  BY List2 DEF ToMove2
<1> QED
  BY <1>1, Names, SchemasAssumption

\* A call about a table names its schema.
LEMMA TableNames ==
  ASSUME NEW op, NEW r \in Ref, NEW arg, NEW q, OfTable(op, r, arg) \in Range(q)
  PROVE  r[1] \in AboutOf(q)
<1>1. Call(op, r, none, arg) \in Range(q)
  BY DEF OfTable
<1>2. r[1] # none
  BY SchemasAssumption DEF Ref
<1> QED
  BY <1>1, <1>2, Names

\* The forms in which more is known than what the calls are.
LEMMA SoundElsewhere ==
  ASSUME NEW v \in SchemaVersion, NEW w \in SchemaVersion, NEW D, NEW E, D \subseteq E,
         NEW q, Sound(q, v, D), \A x \in AboutOf(q) : x \in E \/ Same(v, w, x)
  PROVE  Sound(q, w, E)
<1>1. ASSUME NEW x \in Named, NEW calls \in Members("drop_member", x, none),
             q = Dropping(calls, x), AllListed(calls, v, D, x)
      PROVE  AllListed(calls, w, E, x)
  <2>1. x \in AboutOf(q)
    BY <1>1, DropNames
  <2> QED
    BY <1>1, <2>1, ListedElsewhere
<1>2. ASSUME NEW x \in Named, NEW y \in Named,
             \/ q \in {ToRename2(x, y), ToRename3(x, y)}
             \/ \E calls \in Members("move_table", x, y) : q = Renaming(calls, x, y)
      PROVE  x \in AboutOf(q)
  BY <1>2, RenameNames
<1>3. ASSUME NEW r \in Ref, NEW y \in Schema, q = ToMove2(r, y)
      PROVE  y \in AboutOf(q)
  BY <1>3, MoveNames
<1>4. ASSUME NEW x \in AboutOf(q), Known(v, D, x) PROVE Known(w, E, x)
  BY <1>4, KnownElsewhere
<1>5. ASSUME OfOne(q, v, D) PROVE OfOne(q, w, E)
  <2>1. PICK r \in Ref, this \in SUBSET Nat :
          \/ q \in {<<OfTable("insert", r, this)>>, <<OfTable("create_index", r, this)>>,
                    <<OfTable("drop_table", r, this)>>, <<OfTable("read", r, this)>>}
          \/ q = <<OfTable("create_table", r, this)>> /\ Known(v, D, r[1])
    BY <1>5 DEF OfOne
  <2>2. CASE q = <<OfTable("create_table", r, this)>> /\ Known(v, D, r[1])
    <3>1. r[1] \in AboutOf(q)
      BY <2>2, List1, TableNames
    <3> QED
      BY <1>4, <2>2, <3>1 DEF OfOne
  <2> QED
    BY <2>1, <2>2 DEF OfOne
<1>6. ASSUME NEW r \in Ref, NEW ddl \in SUBSET Nat, NEW aux \in SUBSET Nat, NEW this \in SUBSET Nat,
             q = rebuildTableCopying(r, ddl, aux, this), Rebuilds(v, D, r, ddl, aux, this)
      PROVE  Rebuilds(w, E, r, ddl, aux, this)
  <2>1. OfTable("copy", r, {}) \in Range(q)
    BY <1>6, Rebuild1Is
  <2>2. r[1] \in AboutOf(q)
    BY <2>1, TableNames
  <2> QED
    BY <1>6, <2>2, RebuildsElsewhere
<1>8. ASSUME NEW r \in Ref, NEW ddl \in SUBSET Nat, NEW this \in SUBSET Nat,
             q = auxDDLIn(r, ddl, this), Defines(v, D, r, ddl, this)
      PROVE  Defines(w, E, r, ddl, this)
  <2>1. PICK arg : OfTable("read_aux", r, arg) \in Range(q)
    BY <1>8, AuxIs
  <2>2. r[1] \in AboutOf(q)
    BY <2>1, TableNames
  <2> QED
    BY <1>8, <2>2, DefinesElsewhere
<1>7. ASSUME NEW x \in Named, NEW y \in Named, NEW calls \in Members("move_table", x, y),
             q = Renaming(calls, x, y), AllListed(calls, v, D, x)
      PROVE  AllListed(calls, w, E, x)
  BY <1>2, <1>7, ListedElsewhere
<1> QED
  BY <1>1, <1>2, <1>3, <1>4, <1>5, <1>6, <1>7, <1>8 DEF Sound

-----------------------------------------------------------------------------
(* Which handler it is, by its next call.                                  *)

Form(op, q, v, D) ==
  \/ op = "list" /\ q = <<Refresh>>
  \/ op = "absent" /\ \E x \in Named : q = ToCreate(x)
  \/ op = "register" /\ \E x \in Named : q = ToCreate2(x)
  \/ op = "registered" /\ \E x \in Named, cascade \in BOOLEAN : q = ToDrop(x, cascade)
  \/ op = "members_to_drop" /\ \E x \in Named, cascade \in BOOLEAN : q = ToDrop2(x, cascade)
  \/ op = "unregister" /\ \E x \in Named : q = Dropping(<<>>, x) /\ AllListed(<<>>, v, D, x)
  \/ /\ op = "drop_member"
     /\ \E x \in Named : \E calls \in Members("drop_member", x, none) :
          calls # <<>> /\ q = Dropping(calls, x) /\ AllListed(calls, v, D, x)
  \/ op = "registered" /\ \E x, y \in Named : x # y /\ q = ToRename(x, y)
  \/ op = "absent" /\ \E x, y \in Named : x # y /\ q = ToRename2(x, y) /\ Known(v, D, x)
  \/ op = "members_to_move" /\ \E x, y \in Named : x # y /\ q = ToRename3(x, y) /\ Known(v, D, x)
  \/ /\ op = "reregister"
     /\ \E x, y \in Named : /\ x # y /\ q = Renaming(<<>>, x, y)
                            /\ Known(v, D, x) /\ AllListed(<<>>, v, D, x)
  \/ /\ op = "move_table"
     /\ \E x, y \in Named : \E calls \in Members("move_table", x, y) :
          /\ x # y /\ calls # <<>> /\ q = Renaming(calls, x, y)
          /\ Known(v, D, x) /\ AllListed(calls, v, D, x)
  \/ op = "registered" /\ \E r \in Ref, y \in Schema : q = ToMove(r, y)
  \/ op = "move_table" /\ \E r \in Ref, y \in Schema : q = ToMove2(r, y) /\ Known(v, D, y)
  \/ op = "insert" /\ \E r \in Ref, this \in SUBSET Nat : q = <<OfTable("insert", r, this)>>
  \/ op = "create_index" /\ \E r \in Ref, this \in SUBSET Nat : q = <<OfTable("create_index", r, this)>>
  \/ op = "drop_table" /\ \E r \in Ref, this \in SUBSET Nat : q = <<OfTable("drop_table", r, this)>>
  \/ op = "read" /\ \E r \in Ref, this \in SUBSET Nat : q = <<OfTable("read", r, this)>>
  \/ /\ op = "create_table"
     /\ \E r \in Ref, this \in SUBSET Nat :
          q = <<OfTable("create_table", r, this)>> /\ Known(v, D, r[1])
  \/ /\ op = "read_aux"
     /\ \E r \in Ref, ddl, this \in SUBSET Nat :
          q = auxDDLIn(r, ddl, this) /\ Defines(v, D, r, ddl, this)
  \/ /\ op = "create"
     /\ \E r \in Ref, ddl, aux, this \in SUBSET Nat :
          q = rebuildTableCopying(r, ddl, aux, this) /\ Rebuilds(v, D, r, ddl, aux, this)

\* The next call of a list that has one table to drop or to move, or none.
LEMMA DropOp ==
  ASSUME NEW x, NEW calls \in Members("drop_member", x, none)
  PROVE  /\ calls = <<>> => Head(Dropping(calls, x)).op = "unregister"
         /\ calls # <<>> => Head(Dropping(calls, x)).op = "drop_member"
<1>1. CASE calls = <<>>
  <2>1. Head(Dropping(<<>>, x)) = OfSchema("unregister", x, none)
    BY DroppingLast
  <2> QED
    BY <1>1, <2>1, SchemaOp
<1>2. CASE calls # <<>>
  <2>1. PICK r : Head(Dropping(calls, x)) = Call("drop_member", r, none, {})
    BY <1>2, DroppingNext, Zenon
  <2>2. Head(Dropping(calls, x)).op = "drop_member"
    BY <2>1, CallOp, Zenon
  <2> QED
    BY <1>2, <2>2
<1> QED
  BY <1>1, <1>2

\* The next call of RENAME.
LEMMA RenameOp ==
  ASSUME NEW x, NEW y, NEW calls \in Members("move_table", x, y)
  PROVE  /\ calls = <<>> => Head(Renaming(calls, x, y)).op = "reregister"
         /\ calls # <<>> => Head(Renaming(calls, x, y)).op = "move_table"
<1>1. CASE calls = <<>>
  <2>1. Head(Renaming(<<>>, x, y)) = OfSchema("reregister", x, y)
    BY RenamingLast
  <2> QED
    BY <1>1, <2>1, SchemaOp
<1>2. CASE calls # <<>>
  <2>1. PICK r : Head(Renaming(calls, x, y)) = Call("move_table", r, y, {})
    BY <1>2, RenamingNext
  <2>2. Head(Renaming(calls, x, y)).op = "move_table"
    BY <2>1, CallOp, Zenon
  <2> QED
    BY <1>2, <2>2
<1> QED
  BY <1>1, <1>2

\* The next call tells which handler it is.
LEMMA SoundForms ==
  ASSUME NEW q, NEW v, NEW D, Sound(q, v, D), q # <<>>
  PROVE  Form(Head(q).op, q, v, D)
<1>1. CASE q = <<Refresh>>
  BY <1>1, List1, RefreshFields DEF Form
<1>2. ASSUME NEW x \in Named, q = ToCreate(x) \/ q = ToCreate2(x)
      PROVE  Form(Head(q).op, q, v, D)
  <2>1. ToCreate(x) = q => Head(q).op = "absent"
    BY ToCreateIs, SchemaOp
  <2>2. ToCreate2(x) = q => Head(q).op = "register"
    BY ToCreate2Is, SchemaOp
  <2> QED
    BY <1>2, <2>1, <2>2 DEF Form
<1>3. ASSUME NEW x \in Named, NEW cascade \in BOOLEAN,
             q = ToDrop(x, cascade) \/ q = ToDrop2(x, cascade)
      PROVE  Form(Head(q).op, q, v, D)
  <2>1. ToDrop(x, cascade) = q => Head(q).op = "registered"
    <3>1. Head(ToDrop(x, cascade)) = OfSchema("registered", x, none)
      BY ToDropIs
    <3> QED
      BY <3>1, SchemaOp, Zenon
  <2>2. ToDrop2(x, cascade) = q => Head(q).op = "members_to_drop"
    <3>1. Head(ToDrop2(x, cascade)) = Call("members_to_drop", <<x, none>>, none, cascade)
      BY ToDrop2Is
    <3> QED
      BY <3>1, CallOp, Zenon
  <2> QED
    BY <1>3, <2>1, <2>2 DEF Form
<1>4. ASSUME NEW x \in Named, NEW calls \in Members("drop_member", x, none),
             q = Dropping(calls, x), AllListed(calls, v, D, x)
      PROVE  Form(Head(q).op, q, v, D)
  <2>1. /\ calls = <<>> => Head(q).op = "unregister"
        /\ calls # <<>> => Head(q).op = "drop_member"
    BY <1>4, DropOp
  <2> QED
    BY <1>4, <2>1 DEF Form
<1>5. ASSUME NEW x \in Named, NEW y \in Named, x # y,
             \/ q = ToRename(x, y)
             \/ q \in {ToRename2(x, y), ToRename3(x, y)} /\ Known(v, D, x)
      PROVE  Form(Head(q).op, q, v, D)
  <2>1. ToRename(x, y) = q => Head(q).op = "registered"
    <3>1. Head(ToRename(x, y)) = OfSchema("registered", x, none)
      BY ToRenameIs
    <3> QED
      BY <3>1, SchemaOp, Zenon
  <2>2. ToRename2(x, y) = q => Head(q).op = "absent"
    <3>1. Head(ToRename2(x, y)) = OfSchema("absent", y, none)
      BY ToRename2Is
    <3> QED
      BY <3>1, SchemaOp, Zenon
  <2>3. ToRename3(x, y) = q => Head(q).op = "members_to_move"
    <3>1. Head(ToRename3(x, y)) = OfSchema("members_to_move", x, y)
      BY ToRename3Is
    <3> QED
      BY <3>1, SchemaOp, Zenon
  <2> QED
    BY <1>5, <2>1, <2>2, <2>3 DEF Form
<1>6. ASSUME NEW x \in Named, NEW y \in Named, NEW calls \in Members("move_table", x, y), x # y,
             q = Renaming(calls, x, y), Known(v, D, x), AllListed(calls, v, D, x)
      PROVE  Form(Head(q).op, q, v, D)
  <2>1. /\ calls = <<>> => Head(q).op = "reregister"
        /\ calls # <<>> => Head(q).op = "move_table"
    BY <1>6, RenameOp
  <2> QED
    BY <1>6, <2>1 DEF Form
<1>7. ASSUME NEW r \in Ref, NEW y \in Schema,
             q = ToMove(r, y) \/ (q = ToMove2(r, y) /\ Known(v, D, y))
      PROVE  Form(Head(q).op, q, v, D)
  <2>1. ToMove(r, y) = q => Head(q).op = "registered"
    <3>1. Head(ToMove(r, y)) = OfSchema("registered", y, none)
      BY ToMoveIs
    <3> QED
      BY <3>1, SchemaOp, Zenon
  <2>2. ToMove2(r, y) = q => Head(q).op = "move_table"
    <3>1. Head(ToMove2(r, y)) = Call("move_table", r, y, {})
      BY ToMove2Is
    <3> QED
      BY <3>1, CallOp, Zenon
  <2> QED
    BY <1>7, <2>1, <2>2 DEF Form
<1>8. CASE OfOne(q, v, D)
  <2>1. PICK r \in Ref, this \in SUBSET Nat :
          \/ q \in {<<OfTable("insert", r, this)>>, <<OfTable("create_index", r, this)>>,
                    <<OfTable("drop_table", r, this)>>, <<OfTable("read", r, this)>>}
          \/ q = <<OfTable("create_table", r, this)>> /\ Known(v, D, r[1])
    BY <1>8 DEF OfOne
  <2>2. ASSUME NEW op, q = <<OfTable(op, r, this)>> PROVE Head(q).op = op
    BY <2>2, List1, TableOp
  <2> QED
    BY <2>1, <2>2 DEF Form
<1>9. ASSUME NEW r \in Ref, NEW ddl \in SUBSET Nat, NEW aux \in SUBSET Nat, NEW this \in SUBSET Nat,
             q = rebuildTableCopying(r, ddl, aux, this), Rebuilds(v, D, r, ddl, aux, this)
      PROVE  Form(Head(q).op, q, v, D)
  <2>1. Head(q) = OfTable("create", r, ddl)
    BY <1>9, Rebuild1Is
  <2>2. Head(q).op = "create"
    BY <2>1, TableOp
  <2> QED
    BY <1>9, <2>2 DEF Form
<1>10. ASSUME NEW r \in Ref, NEW ddl \in SUBSET Nat, NEW this \in SUBSET Nat,
              q = auxDDLIn(r, ddl, this), Defines(v, D, r, ddl, this)
       PROVE  Form(Head(q).op, q, v, D)
  <2>1. PICK arg : Head(q) = OfTable("read_aux", r, arg)
    BY <1>10, AuxIs
  <2>2. Head(q).op = "read_aux"
    BY <2>1, TableOp
  <2> QED
    BY <1>10, <2>2 DEF Form
<1> QED
  BY <1>1, <1>2, <1>3, <1>4, <1>5, <1>6, <1>7, <1>8, <1>9, <1>10 DEF Sound

-----------------------------------------------------------------------------
(* What a write does: for its own handler, whose calls are q and then q2,  *)
(* and for the others, that are not about the names N.                     *)

Effect(q, q2, v, w, E, N) ==
  /\ w \in SchemaVersion /\ Kept(w, E)
  /\ Sound(q2, w, E)
  /\ \A x : x \notin N => Same(v, w, x)
  /\ \A x \in Schema \ E : Amiss(w, x) => Pends(q2, x) \/ (Amiss(v, x) /\ ~Pends(q, x))
  /\ w.schemas = v.schemas \/ q2 = <<Refresh>>

\* Nothing to do relies on nothing.
LEMMA SoundNil == \A v, D : Sound(<<>>, v, D)
BY DEF Sound

\* Nor does the reading of the list.
LEMMA SoundRefresh == \A v, D : Sound(<<Refresh>>, v, D)
BY DEF Sound

\* A version is made of its parts.
Version(S, T, U) == [schemas |-> S, tables |-> T, due |-> U]

\* A version that is made of typed parts is typed.
LEMMA MadeTyped ==
  ASSUME NEW S \in SUBSET Schema, NEW T \in Keyed(Ref \cup {tmp}, Content),
         NEW U \in Keyed(Ref, Due), NEW w, w = Version(S, T, U)
  PROVE  w \in SchemaVersion
BY DEF SchemaVersion, Version

\* The parts it was made of.
LEMMA MadeOf ==
  ASSUME NEW S, NEW T, NEW U, NEW w, w = Version(S, T, U)
  PROVE  w.schemas = S /\ w.tables = T /\ w.due = U
BY DEF Version

\* The parts of a version are typed.
LEMMA VersionParts ==
  ASSUME NEW v \in SchemaVersion
  PROVE  /\ v.schemas \in SUBSET Schema /\ v.tables \in Keyed(Ref \cup {tmp}, Content)
         /\ v.due \in Keyed(Ref, Due)
BY DEF SchemaVersion

\* Only a handler that moves tables, or is about to register, pends.
LEMMA NotPending ==
  ASSUME NEW q, q = <<>> \/ Head(q).op \notin {"move_table", "reregister"}, NEW x
  PROVE  ~Pends(q, x)
BY DEF Pends

\* A table that is moved by itself is not in the way of a schema's new name.
LEMMA MovePends ==
  ASSUME NEW r, NEW y, NEW x
  PROVE  ~Pends(ToMove2(r, y), x)
<1>1. PICK a, b : a = Call("move_table", r, y, {}) /\ b = Refresh
  OBVIOUS
<1>2. a.op = "move_table"
  BY <1>1, CallOp, Zenon
<1>3. b.op = "list"
  BY <1>1, RefreshFields
<1>4. Range(ToMove2(r, y)) = {a, b}
  BY <1>1, ToMove2Is
<1> QED
  BY <1>2, <1>3, <1>4 DEF Pends

\* The tables that are moved to y wait for it, and for no other schema.
LEMMA RenamePends ==
  ASSUME NEW x, NEW y, NEW calls \in Members("move_table", x, y), NEW z
  PROVE  Pends(Renaming(calls, x, y), z) <=> z = y
<1>1. PICK S : S = {Call("move_table", r, y, {}) : r \in {x} \X Table} /\ calls \in Seq(S)
  BY DEF Members
<1>2. PICK a, b : a = OfSchema("reregister", x, y) /\ b = Refresh
  OBVIOUS
<1>3. a.op = "reregister" /\ a.to = y /\ b.op = "list"
  <2>1. a.op = "reregister"
    BY <1>2, SchemaOp, Zenon
  <2>2. a.to = y
    BY <1>2 DEF OfSchema, Call
  <2> QED
    BY <1>2, <2>1, <2>2, RefreshFields
<1>4. calls \in Seq(S)
  BY <1>1
<1>5. ASSUME NEW c \in S PROVE c.op = "move_table"
  <2>1. PICK r : c = Call("move_table", r, y, {})
    BY <1>1, <1>5
  <2> QED
    BY <2>1, CallOp, Zenon
<1>6. a \in Range(Before(calls, a, b))
  BY <1>4, BeforeHas
<1>7. \A c \in Range(Before(calls, a, b)) : c \in S \cup {a, b}
  BY <1>4, BeforeOnly
<1>8. Renaming(calls, x, y) = Before(calls, a, b)
  BY <1>2 DEF Renaming
<1>9. Renaming(calls, x, y) # <<>>
  BY <1>4, <1>8, BeforeFirst
<1>10. Head(Renaming(calls, x, y)).op \in {"move_table", "reregister"}
  BY RenameOp
<1> QED
  BY <1>3, <1>5, <1>6, <1>7, <1>8, <1>9, <1>10 DEF Pends

\* CREATE SCHEMA.
LEMMA RegisterEffect ==
  ASSUME NEW v \in SchemaVersion, NEW D, NEW E, D \subseteq E, Kept(v, D),
         NEW x \in Named, NEW S, S = v.schemas \cup {x}, NEW w, w = Version(S, v.tables, v.due),
         NEW q, Head(q).op = "register"
  PROVE  Effect(q, <<Refresh>>, v, w, E, {x, none})
<1>1. /\ v.schemas \in SUBSET Schema /\ v.tables \in Keyed(Ref \cup {tmp}, Content)
      /\ v.due \in Keyed(Ref, Due)
  BY VersionParts
<1>2. w \in SchemaVersion
  <2>1. S \in SUBSET Schema
    BY <1>1 DEF Named
  <2> QED
    BY <1>1, <2>1, MadeTyped
<1>3. w.schemas = S /\ w.tables = v.tables /\ w.due = v.due
  BY MadeOf
<1>4. Kept(w, E)
  BY <1>3 DEF Kept
<1>5. \A y : Same(v, w, y)
  BY <1>3 DEF Same
<1>6. \A y \in Schema : Amiss(w, y) => Amiss(v, y) /\ ~Pends(q, y)
  BY <1>3, NotPending DEF Amiss
<1> QED
  BY <1>2, <1>4, <1>5, <1>6, SoundRefresh DEF Effect

\* The last write of DROP SCHEMA: there is no table left.
LEMMA UnregisterEffect ==
  ASSUME NEW v \in SchemaVersion, NEW D, NEW E, D \subseteq E, Kept(v, D),
         NEW x \in Named, AllListed(<<>>, v, D, x),
         NEW S, S = v.schemas \ {x}, NEW w, w = Version(S, v.tables, v.due),
         NEW q, Head(q).op = "unregister"
  PROVE  Effect(q, <<Refresh>>, v, w, E, {x, none})
<1>1. /\ v.schemas \in SUBSET Schema /\ v.tables \in Keyed(Ref \cup {tmp}, Content)
      /\ v.due \in Keyed(Ref, Due)
  BY VersionParts
<1>2. w \in SchemaVersion
  <2>1. S \in SUBSET Schema
    BY <1>1
  <2> QED
    BY <1>1, <2>1, MadeTyped
<1>3. w.schemas = S /\ w.tables = v.tables /\ w.due = v.due
  BY MadeOf
<1>4. Kept(w, E)
  BY <1>3 DEF Kept
<1>5. \A y : y # x => Same(v, w, y)
  BY <1>3 DEF Same
<1>6. Range(<<>>) = {}
  BY DEF Range
<1>7. x \notin D => ~Amiss(w, x)
  BY <1>3, <1>6 DEF Amiss, AllListed
<1>8. \A y \in Schema \ E : Amiss(w, y) => Amiss(v, y) /\ ~Pends(q, y)
  BY <1>3, <1>7, NotPending DEF Amiss
<1> QED
  BY <1>2, <1>4, <1>5, <1>8, SoundRefresh DEF Effect

\* The last write of a RENAME: there is no table left under the old name.
LEMMA ReregisterEffect ==
  ASSUME NEW v \in SchemaVersion, NEW D, NEW E, D \subseteq E, Kept(v, D),
         NEW x \in Named, NEW y \in Named, x # y, {x, y} \cap D # {} => {x, y} \subseteq E,
         Known(v, D, x), AllListed(<<>>, v, D, x),
         NEW S, S = IF x \in v.schemas THEN (v.schemas \ {x}) \cup {y} ELSE v.schemas,
         NEW w, w = Version(S, v.tables, v.due), NEW q, q = Renaming(<<>>, x, y)
  PROVE  Effect(q, <<Refresh>>, v, w, E, {x, y})
<1>1. /\ v.schemas \in SUBSET Schema /\ v.tables \in Keyed(Ref \cup {tmp}, Content)
      /\ v.due \in Keyed(Ref, Due)
  BY VersionParts
<1>2. w \in SchemaVersion
  <2>1. S \in SUBSET Schema
    BY <1>1 DEF Named
  <2> QED
    BY <1>1, <2>1, MadeTyped
<1>3. w.schemas = S /\ w.tables = v.tables /\ w.due = v.due
  BY MadeOf
<1>4. Kept(w, E)
  BY <1>3 DEF Kept
<1>5. \A z : z \notin {x, y} => Same(v, w, z)
  BY <1>3 DEF Same
<1>6. Range(<<>>) = {}
  BY DEF Range
<1>7. x \notin D => ~Amiss(w, x)
  BY <1>3, <1>6 DEF Amiss, AllListed
<1>8. y \notin E => ~Amiss(w, y)
  BY <1>3 DEF Amiss, Known, Named
<1>9. \A z : Pends(q, z) <=> z = y
  <2>1. <<>> \in Members("move_table", x, y)
    BY DEF Members
  <2> QED
    BY <2>1, RenamePends
<1>10. \A z \in Schema \ E : Amiss(w, z) => Amiss(v, z) /\ ~Pends(q, z)
  BY <1>3, <1>7, <1>8, <1>9 DEF Amiss
<1> QED
  BY <1>2, <1>4, <1>5, <1>10, SoundRefresh DEF Effect

\* DROP TABLE, and the tables of a DROP SCHEMA.
LEMMA WithoutEffect ==
  ASSUME NEW v \in SchemaVersion, NEW D, NEW E, D \subseteq E, Kept(v, D), NEW r \in Ref,
         NEW T, T = Without(v.tables, r), NEW U, U = Without(v.due, r),
         NEW w, w = Version(v.schemas, T, U),
         NEW q, q = <<>> \/ Head(q).op \notin {"move_table", "reregister"},
         NEW q2, Sound(q2, w, E)
  PROVE  Effect(q, q2, v, w, E, {r[1], none})
<1>1. /\ v.schemas \in SUBSET Schema /\ v.tables \in Keyed(Ref \cup {tmp}, Content)
      /\ v.due \in Keyed(Ref, Due)
  BY VersionParts
<1>2. w \in SchemaVersion
  <2>1. T \in Keyed(Ref \cup {tmp}, Content) /\ U \in Keyed(Ref, Due)
    BY <1>1, WithoutTyped
  <2> QED
    BY <1>1, <2>1, MadeTyped
<1>3. w.schemas = v.schemas /\ w.tables = T /\ w.due = U
  BY MadeOf
<1>4. DOMAIN T = DOMAIN v.tables \ {r}
  BY WithoutKeys
<1>5. \A x \in DOMAIN T : T[x] = v.tables[x]
  BY WithoutRows
<1>6. DOMAIN U = DOMAIN v.due \ {r}
  BY WithoutKeys
<1>7. \A x \in DOMAIN U : U[x] = v.due[x]
  BY WithoutRows
<1>8. Kept(w, E)
  <2>1. IsFiniteSet(DOMAIN T)
    BY <1>4, FS_Subset DEF Kept
  <2> QED
    BY <1>3, <1>4, <1>5, <1>6, <1>7, <2>1 DEF Kept
<1>9. \A x : x # r[1] => Same(v, w, x)
  BY <1>3, <1>4, <1>5 DEF Same
<1>10. \A x : Amiss(w, x) => Amiss(v, x)
  BY <1>3, <1>4 DEF Amiss
<1> QED
  BY <1>2, <1>3, <1>8, <1>9, <1>10, NotPending DEF Effect

\* CREATE TABLE, in a schema that is registered.
LEMMA WithEffect ==
  ASSUME NEW v \in SchemaVersion, NEW D, NEW E, D \subseteq E, Kept(v, D), NEW r \in Ref,
         NEW T, T = With(v.tables, r, Empty), NEW U, U = With(v.due, r, NothingDue),
         NEW w, w = Version(v.schemas, T, U), Known(v, D, r[1]),
         NEW q, q = <<>> \/ Head(q).op \notin {"move_table", "reregister"},
         NEW q2, Sound(q2, w, E)
  PROVE  Effect(q, q2, v, w, E, {r[1], none})
<1>1. /\ v.schemas \in SUBSET Schema /\ v.tables \in Keyed(Ref \cup {tmp}, Content)
      /\ v.due \in Keyed(Ref, Due)
  BY VersionParts
<1>2. w \in SchemaVersion
  <2>1. Empty \in Content /\ NothingDue \in Due
    BY DEF Empty, Content, NothingDue, Due
  <2>2. T \in Keyed(Ref \cup {tmp}, Content) /\ U \in Keyed(Ref, Due)
    BY <1>1, <2>1, WithTyped
  <2> QED
    BY <1>1, <2>2, MadeTyped
<1>3. w.schemas = v.schemas /\ w.tables = T /\ w.due = U
  BY MadeOf
<1>4. DOMAIN T = DOMAIN v.tables \cup {r}
  BY WithKeys
<1>5. T[r] = Empty /\ U[r] = NothingDue /\ AsDue(Empty, NothingDue)
  <2>1. AsDue(Empty, NothingDue)
    BY DEF AsDue, Empty, NothingDue
  <2>2. T[r] = Empty
    BY WithHas
  <2>3. U[r] = NothingDue
    BY WithHas
  <2> QED
    BY <2>1, <2>2, <2>3
<1>6. \A x \in DOMAIN v.tables : x # r => T[x] = v.tables[x]
  BY WithRows
<1>7. DOMAIN U = DOMAIN v.due \cup {r}
  BY WithKeys
<1>8. \A x \in DOMAIN v.due : x # r => U[x] = v.due[x]
  BY WithRows
<1>9. Kept(w, E)
  <2>1. IsFiniteSet(DOMAIN T)
    BY <1>4, FS_AddElement DEF Kept
  <2>2. r # tmp
    BY SchemasAssumption DEF Ref, tmp
  <2> QED
    BY <1>3, <1>4, <1>5, <1>6, <1>7, <1>8, <2>1, <2>2 DEF Kept
<1>10. \A x : x # r[1] => Same(v, w, x)
  BY <1>3, <1>4, <1>6 DEF Same
<1>11. \A x \in Schema \ E : Amiss(w, x) => Amiss(v, x)
  BY <1>3, <1>4 DEF Amiss, Known
<1> QED
  BY <1>2, <1>3, <1>9, <1>10, <1>11, NotPending DEF Effect

\* INSERT.
LEMMA InsertEffect ==
  ASSUME NEW v \in SchemaVersion, NEW D, NEW E, D \subseteq E, Kept(v, D), NEW r \in Ref,
         r \in DOMAIN v.tables, NEW a \in Content, NEW b \in Due,
         AsDue(v.tables[r], v.due[r]) => AsDue(a, b),
         NEW T, T = [v.tables EXCEPT ![r] = a], NEW U, U = [v.due EXCEPT ![r] = b],
         NEW w, w = Version(v.schemas, T, U),
         NEW q, q = <<>> \/ Head(q).op \notin {"move_table", "reregister"},
         NEW q2, Sound(q2, w, E)
  PROVE  Effect(q, q2, v, w, E, {r[1], none})
<1>1. /\ v.schemas \in SUBSET Schema /\ v.tables \in Keyed(Ref \cup {tmp}, Content)
      /\ v.due \in Keyed(Ref, Due)
  BY VersionParts
<1>2. r \in DOMAIN v.due
  BY DEF Kept
<1>3. w \in SchemaVersion
  <2>1. T \in Keyed(Ref \cup {tmp}, Content) /\ U \in Keyed(Ref, Due)
    BY <1>1, <1>2, ChangedTyped
  <2> QED
    BY <1>1, <2>1, MadeTyped
<1>4. w.schemas = v.schemas /\ w.tables = T /\ w.due = U
  BY MadeOf
<1>5. /\ DOMAIN T = DOMAIN v.tables /\ T[r] = a
      /\ \A x \in DOMAIN v.tables : x # r => T[x] = v.tables[x]
  OBVIOUS
<1>6. /\ DOMAIN U = DOMAIN v.due /\ U[r] = b
      /\ \A x \in DOMAIN v.due : x # r => U[x] = v.due[x]
  BY <1>2
<1>7. Kept(w, E)
  BY <1>4, <1>5, <1>6 DEF Kept
<1>8. \A x : x # r[1] => Same(v, w, x)
  BY <1>4, <1>5 DEF Same
<1>9. \A x : Amiss(w, x) => Amiss(v, x)
  BY <1>4, <1>5 DEF Amiss
<1> QED
  BY <1>3, <1>4, <1>7, <1>8, <1>9, NotPending DEF Effect

\* A table is moved to another schema.
LEMMA MoveEffect ==
  ASSUME NEW v \in SchemaVersion, NEW D, NEW E, D \subseteq E, Kept(v, D), NEW r \in Ref,
         NEW y \in Schema, r \in DOMAIN v.tables, r[1] \in D => y \in E,
         NEW to, to = <<y, r[2]>>, to \notin DOMAIN v.tables,
         NEW T, T = Moved(v.tables, r, to), NEW U, U = Moved(v.due, r, to),
         NEW w, w = Version(v.schemas, T, U),
         NEW q, \A x : x # y => ~Pends(q, x),
         NEW q2, Sound(q2, w, E), Known(v, E, y) \/ Pends(q2, y)
  PROVE  Effect(q, q2, v, w, E, {r[1], y})
<1>1. /\ v.schemas \in SUBSET Schema /\ v.tables \in Keyed(Ref \cup {tmp}, Content)
      /\ v.due \in Keyed(Ref, Due)
  BY VersionParts
<1>2. to \in Ref /\ to[1] = y /\ to # tmp
  BY SchemasAssumption DEF Ref, tmp
<1>3. r \in DOMAIN v.due
  BY DEF Kept
<1>4. w \in SchemaVersion
  <2>1. T \in Keyed(Ref \cup {tmp}, Content) /\ U \in Keyed(Ref, Due)
    BY <1>1, <1>2, <1>3, MovedTyped
  <2> QED
    BY <1>1, <2>1, MadeTyped
<1>5. w.schemas = v.schemas /\ w.tables = T /\ w.due = U
  BY MadeOf
<1>6. DOMAIN T = (DOMAIN v.tables \ {r}) \cup {to}
  BY DEF Moved, With, Without
<1>7. T[to] = v.tables[r] /\ U[to] = v.due[r]
  BY MovedHas
<1>8. \A x \in DOMAIN v.tables : x # r /\ x # to => T[x] = v.tables[x]
  BY MovedRows
<1>9. DOMAIN U = (DOMAIN v.due \ {r}) \cup {to}
  BY MovedKeys
<1>10. \A x \in DOMAIN v.due : x # r /\ x # to => U[x] = v.due[x]
  BY MovedRows
<1>11. Kept(w, E)
  <2>1. IsFiniteSet(DOMAIN v.tables \ {r})
    BY FS_Subset DEF Kept
  <2>2. IsFiniteSet(DOMAIN T)
    BY <1>6, <2>1, FS_AddElement
  <2>3. DOMAIN U = DOMAIN T /\ tmp \notin DOMAIN T
    BY <1>2, <1>6, <1>9 DEF Kept
  <2>4. ASSUME NEW x \in DOMAIN T PROVE x[1] \in E \/ AsDue(T[x], U[x])
    <3>1. CASE x = to
      BY <1>2, <1>7, <3>1 DEF Kept
    <3>2. CASE x # to
      BY <1>6, <1>8, <1>9, <1>10, <2>3, <3>2 DEF Kept
    <3> QED
      BY <3>1, <3>2
  <2> QED
    BY <1>5, <2>2, <2>3, <2>4 DEF Kept
<1>12. \A x : x \notin {r[1], y} => Same(v, w, x)
  BY <1>2, <1>5, <1>6, <1>8 DEF Same
<1>13. \A x \in Schema \ E : Amiss(w, x) => Pends(q2, x) \/ (Amiss(v, x) /\ ~Pends(q, x))
  BY <1>2, <1>5, <1>6 DEF Amiss, Known
<1> QED
  BY <1>4, <1>5, <1>11, <1>12, <1>13 DEF Effect

-----------------------------------------------------------------------------
(* A step keeps the invariants.                                            *)

\* The names in the handlers that meet s are disturbed.
Met(s, N, E) == \A o \in Others(s) : N \cap AboutOf(task[o]) # {} => AboutOf(task[o]) \subseteq E

\* A session that may write sees the version that is worked on.
LEMMA WorksOn ==
  ASSUME SchemasInv, NEW s \in Session, MayWrite(s), ~Begun(task[s])
  PROVE  /\ View(s) = work /\ ~Within /\ Settled = work /\ work \in SchemaVersion
         /\ Kept(work, disturbed)
<1>1. ~Within
  BY ConnectionsAssumption DEF MayWrite, Within
<1> QED
  BY <1>1 DEF SchemasInv, SchemasTyped, OneVersion, View, Settled, MayWrite

\* What the others rely on is there, in what is committed by such a write.
LEMMA OthersRely ==
  ASSUME SchemasInv, NEW s \in Session, Write(s, View(s)') , NEW N, disturbed \subseteq disturbed',
         View(s)' \in SchemaVersion, View(s) \in SchemaVersion,
         \A x : x \notin N => Same(View(s), View(s)', x), Met(s, N, disturbed'),
         late \cup Late(s) \subseteq late',
         NEW o \in Others(s), task'[o] = task[o]
  PROVE  Handled(o)'
<1>1. /\ db \in SchemaVersion /\ Handled(o) /\ o \in Session /\ o # s
      /\ writer # o /\ writer' = writer /\ writer \in {s, NoSession}
  BY ConnectionsAssumption DEF SchemasInv, SchemasTyped, Others, Write, MayWrite
<1>2. View(o) = db /\ View(o)' = db'
  BY <1>1 DEF View
<1>3. PICK v, w : v = View(s) /\ w = View(s)'
  OBVIOUS
<1>4. db' = db \/ (db = v /\ db' = w)
  BY <1>1, <1>3 DEF Write, View
<1>5. \A x \in AboutOf(task[o]) : x \in disturbed' \/ Same(db, db', x)
  <2>1. \A x : Same(db, db, x)
    BY DEF Same
  <2>2. \A x : x \notin N => Same(v, w, x)
    BY <1>3
  <2>3. \A x \in AboutOf(task[o]) : x \in disturbed' \/ x \notin N
    BY <1>1 DEF Met
  <2> QED
    BY <1>4, <2>1, <2>2, <2>3
<1>6. db' \in SchemaVersion
  BY <1>1, <1>3, <1>4
<1>7. CASE Sound(task[o], db, disturbed)
  <2>1. Sound(task[o], db', disturbed')
    BY <1>1, <1>5, <1>6, <1>7, SoundElsewhere
  <2> QED
    BY <1>2, <2>1 DEF Handled
<1>8. ASSUME NEW L \in SUBSET Schema, Sets(task[o], L), o \in late \/ L = db.schemas
      PROVE  Handled(o)'
  <2>1. o \in late' \/ L = db'.schemas
    <3>1. CASE db'.schemas = db.schemas
      BY <1>8, <3>1
    <3>2. CASE db'.schemas # db.schemas
      <4>1. PICK c : c = Call("set_list", <<public, none>>, none, L) /\ task[o] = <<c>>
        BY <1>8 DEF Sets
      <4>2. c.op = "set_list"
        BY <4>1, CallOp, Zenon
      <4>3. c \in Range(task[o])
        BY <4>1, List1
      <4> QED
        BY <3>2, <4>2, <4>3 DEF Late
    <3> QED
      BY <3>1, <3>2
  <2>2. Sets(task'[o], L)
    BY <1>8
  <2> QED
    BY <1>2, <2>1, <2>2 DEF Handled
<1> QED
  BY <1>1, <1>2, <1>7, <1>8 DEF Handled

\* A write outside a rebuild.
LEMMA Rewritten ==
  ASSUME SchemasInv, NEW s \in Session, NEW q, NEW q2, NEW w, NEW N,
         Write(s, w), q = task[s], GoesOn(s, q2), ~Begun(q), ~Begun(q2), ~Refreshing(q),
         disturbed \subseteq disturbed', Met(s, N, disturbed'), late' = late \cup Late(s),
         UNCHANGED <<schemaList, saved, listIs>>, Effect(q, q2, View(s), w, disturbed', N)
  PROVE  SchemasInv'
<1>1. /\ writer' = writer /\ writer \in {s, NoSession} /\ work' = w
      /\ db' = IF writer = s THEN db ELSE w
      /\ writer = NoSession => db = work
      /\ NoSession \notin Session
  BY ConnectionsAssumption DEF SchemasInv, OneVersion, Write, MayWrite
<1>2. View(s) = work /\ ~Within /\ Settled = work /\ work \in SchemaVersion
  BY WorksOn DEF Write
<1>3. /\ w \in SchemaVersion /\ Kept(w, disturbed') /\ Sound(q2, w, disturbed')
      /\ \A x : x \notin N => Same(work, w, x)
      /\ \A x \in Schema \ disturbed' :
           Amiss(w, x) => Pends(q2, x) \/ (Amiss(work, x) /\ ~Pends(q, x))
      /\ w.schemas = work.schemas \/ q2 = <<Refresh>>
  BY <1>2 DEF Effect
<1>4. /\ task' = [task EXCEPT ![s] = q2] /\ task = [o \in Session |-> task[o]]
      /\ task'[s] = q2 /\ \A o \in Session : o # s => task'[o] = task[o]
  BY DEF GoesOn, SchemasInv, SchemasTyped
<1>5. View(s)' = w
  BY <1>1 DEF View
<1>6. ~Within' /\ Settled' = w
  BY <1>1, <1>4 DEF Within, Settled
<1>7. SchemasTyped'
  <2>1. task' = [o \in Session |-> task'[o]]
    BY <1>4
  <2> QED
    BY <1>1, <1>3, <2>1 DEF SchemasInv, SchemasTyped, GoesOn
<1>8. OneVersion'
  BY <1>1, <1>6 DEF OneVersion
<1>9. \A o \in Session : Handled(o)'
  <2>1. Handled(s)'
    BY <1>3, <1>4, <1>5 DEF Handled
  <2>2. ASSUME NEW o \in Session, o # s PROVE Handled(o)'
    <3>1. Write(s, View(s)') /\ View(s)' \in SchemaVersion /\ View(s) \in SchemaVersion
      BY <1>2, <1>3, <1>5
    <3>2. \A x : x \notin N => Same(View(s), View(s)', x)
      BY <1>2, <1>3, <1>5
    <3> QED
      BY <1>4, <2>2, <3>1, <3>2, OthersRely DEF Others
  <2> QED
    BY <2>1, <2>2
<1>10. Kept(db, disturbed)' /\ Kept(Settled, disturbed)'
  <2>1. Kept(db, disturbed')
    BY DEF SchemasInv, Kept
  <2> QED
    BY <1>1, <1>3, <1>6, <2>1
<1>11. Mended'
  <2>2. ASSUME NEW x \in Schema \ disturbed', Amiss(w, x)
        PROVE  \E o \in Session : Pends(task'[o], x)
    <3>1. CASE Pends(q2, x)
      BY <1>4, <3>1
    <3>2. CASE ~Pends(q2, x)
      <4>1. Amiss(work, x) /\ ~Pends(q, x) /\ x \in Schema \ disturbed
        BY <1>3, <2>2, <3>2
      <4>2. PICK o \in Session : Pends(task[o], x)
        BY <1>2, <4>1 DEF SchemasInv, Mended
      <4> QED
        BY <1>4, <4>1, <4>2
    <3> QED
      BY <3>1, <3>2
  <2>3. ASSUME NEW x \in Schema \ disturbed', Amiss(db', x)
        PROVE  \E o \in Session \ {writer} : Pends(task'[o], x)
    <3>1. CASE writer = s
      <4>1. PICK o \in Session \ {writer} : Pends(task[o], x)
        BY <1>1, <2>3, <3>1 DEF SchemasInv, Mended
      <4> QED
        BY <1>4, <3>1, <4>1
    <3>2. CASE writer = NoSession
      BY <1>1, <2>2, <2>3, <3>2
    <3> QED
      BY <1>1, <3>1, <3>2
  <2> QED
    BY <1>1, <1>6, <2>2, <2>3 DEF Mended
<1>12. ListRight'
  <2>1. q2 = <<Refresh>> => Refreshing(q2)
    BY List1, RefreshFields DEF Refreshing
  <2>2. ASSUME listIs = "committed"
        PROVE  schemaList = db'.schemas \/ \E o \in Session \ {writer} : Refreshing(task'[o])
    <3>1. CASE schemaList = db.schemas
      BY <1>1, <1>3, <1>4, <2>1, <3>1
    <3>2. CASE \E o \in Session \ {writer} : Refreshing(task[o])
      BY <1>4, <3>2
    <3> QED
      BY <2>2, <3>1, <3>2 DEF SchemasInv, ListRight
  <2>3. ASSUME listIs = "writer"
        PROVE  writer # NoSession /\ (schemaList = w.schemas \/ Refreshing(task'[writer]))
    <3>1. writer # NoSession /\ (schemaList = work.schemas \/ Refreshing(task[writer]))
      BY <2>3 DEF SchemasInv, ListRight
    <3> QED
      BY <1>1, <1>3, <1>4, <2>1, <3>1
  <2>4. listIs' = listIs /\ schemaList' = schemaList
    OBVIOUS
  <2> QED
    BY <1>1, <1>6, <2>2, <2>3, <2>4 DEF ListRight
<1> QED
  BY <1>7, <1>8, <1>9, <1>10, <1>11, <1>12 DEF SchemasInv

\* More schemas are disturbed.
LEMMA HandledStill ==
  ASSUME SchemasInv, NEW o \in Session, task'[o] = task[o], UNCHANGED <<db, work, writer, saved>>,
         o \in late => o \in late', disturbed \subseteq disturbed'
  PROVE  Handled(o)'
<1>1. Handled(o) /\ View(o) \in SchemaVersion /\ View(o)' = View(o)
  BY DEF SchemasInv, SchemasTyped, View
<1>2. CASE Sound(task[o], View(o), disturbed)
  <2>1. \A x : Same(View(o), View(o), x)
    BY DEF Same
  <2>2. Sound(task[o], View(o), disturbed')
    BY <1>1, <1>2, <2>1, SoundElsewhere
  <2> QED
    BY <1>1, <2>2 DEF Handled
<1>3. CASE \E L \in SUBSET Schema : Sets(task[o], L) /\ (o \in late \/ L = View(o).schemas)
  BY <1>1, <1>3 DEF Handled
<1>4. CASE writer = o /\ Under(task[o], saved.v, work, disturbed)
  <2>1. \A r, ddl, aux, this : Rebuilds(saved.v, disturbed, r, ddl, aux, this)
                                 => Rebuilds(saved.v, disturbed', r, ddl, aux, this)
    BY DEF Rebuilds, Defines
  <2>2. Under(task[o], saved.v, work, disturbed')
    BY <1>4, <2>1 DEF Under
  <2> QED
    BY <1>4, <2>2 DEF Handled
<1> QED
  BY <1>1, <1>2, <1>3, <1>4 DEF Handled

\* A step that writes nothing.
LEMMA Advanced ==
  ASSUME SchemasInv, NEW s \in Session, NEW q, NEW q2, q = task[s], task' = [task EXCEPT ![s] = q2],
         ~Begun(q), ~Begun(q2), asked' \in Nat, disturbed \subseteq disturbed',
         UNCHANGED <<db, work, writer, saved, schemaList, searchPath, listIs, late>>,
         \A x \in Schema \ disturbed' : Pends(q, x) => Pends(q2, x),
         Refreshing(q) => Refreshing(q2),
         Sound(q2, View(s), disturbed') \/ Sets(q2, View(s).schemas)
  PROVE  SchemasInv'
<1>1. /\ task = [o \in Session |-> task[o]]
      /\ task'[s] = q2 /\ \A o \in Session : o # s => task'[o] = task[o]
      /\ NoSession \notin Session
  BY ConnectionsAssumption DEF SchemasInv, SchemasTyped
<1>2. Within' = Within /\ Settled' = Settled
  <2>1. Within' <=> Within
    BY <1>1 DEF Within, SchemasInv, SchemasTyped
  <2> QED
    BY <2>1 DEF Settled, Within
<1>3. SchemasTyped'
  <2>1. task' = [o \in Session |-> task'[o]]
    BY <1>1
  <2> QED
    BY <2>1 DEF SchemasInv, SchemasTyped
<1>4. OneVersion'
  BY <1>2 DEF SchemasInv, OneVersion
<1>5. \A o \in Session : Handled(o)'
  <2>1. Handled(s)'
    <3>1. View(s)' = View(s) /\ View(s).schemas \in SUBSET Schema
      BY VersionParts DEF View, SchemasInv, SchemasTyped
    <3> QED
      BY <1>1, <3>1 DEF Handled
  <2>2. ASSUME NEW o \in Session, o # s PROVE Handled(o)'
    BY <1>1, <2>2, HandledStill
  <2> QED
    BY <2>1, <2>2
<1>6. Kept(db, disturbed)' /\ Kept(Settled, disturbed)'
  BY <1>2 DEF SchemasInv, Kept
<1>7. Mended'
  <2>1. ASSUME NEW x \in Schema \ disturbed', NEW o \in Session, Pends(task[o], x)
        PROVE  Pends(task'[o], x)
    BY <1>1, <2>1
  <2> QED
    BY <1>2, <2>1 DEF SchemasInv, Mended
<1>8. ListRight'
  <2>1. ASSUME NEW o \in Session, Refreshing(task[o]) PROVE Refreshing(task'[o])
    BY <1>1, <2>1
  <2> QED
    BY <1>2, <2>1 DEF SchemasInv, SchemasTyped, ListRight
<1> QED
  BY <1>3, <1>4, <1>5, <1>6, <1>7, <1>8 DEF SchemasInv

\* A handler that is not in the midst of a rebuild has none begun.
LEMMA SoundNotBegun ==
  ASSUME NEW q, NEW v, NEW D, Sound(q, v, D)
  PROVE  ~Begun(q)
<1>1. q # <<>> => Form(Head(q).op, q, v, D)
  BY SoundForms
<1> QED
  BY <1>1 DEF Form, Begun

\* A list that is about to be set, and a rebuild that has begun.
LEMMA SetsIs ==
  ASSUME NEW q, NEW L, Sets(q, L)
  PROVE  /\ q # <<>> /\ Head(q).op = "set_list" /\ Head(q).arg = L /\ Tail(q) = <<>>
         /\ Range(q) = {Head(q)}
<1>1. PICK c : c = Call("set_list", <<public, none>>, none, L) /\ q = <<c>>
  BY DEF Sets
<1>2. c.op = "set_list" /\ c.arg = L
  BY <1>1 DEF Call
<1> QED
  BY <1>1, <1>2, List1

\* One that is, has.
LEMMA UnderBegun ==
  ASSUME NEW q, NEW u, NEW w, NEW D, Under(q, u, w, D)
  PROVE  Begun(q)
<1>1. PICK r \in Ref, aux \in SUBSET Nat, this \in SUBSET Nat :
        \/ q = Rebuild2(r, aux, this) \/ q = Rebuild3(r, aux, this) \/ q = Rebuild4(r, aux, this)
        \/ q = Rebuild5(r, aux, this) \/ q = Rebuild6(r, this)
  BY DEF Under, Copying, Filled, Dropped, Renamed, Finished
<1>2. q # <<>>
  BY <1>1, Rebuild2Is, Rebuild3Is, Rebuild4Is, Rebuild5Is, Rebuild6Is
<1>3. \/ Head(q) = OfTable("copy", r, {}) \/ Head(q) = OfTable("drop", r, {})
      \/ Head(q) = OfTable("rename", r, {}) \/ Head(q) = OfTable("index", r, aux)
      \/ Head(q) = OfTable("release", r, this)
  BY <1>1, Rebuild2Is, Rebuild3Is, Rebuild4Is, Rebuild5Is, Rebuild6Is
<1> QED
  BY <1>2, <1>3, TableOp DEF Begun

\* Who is about to set the list has a call that does.
LEMMA RefreshingCalls ==
  ASSUME NEW o, Handled(o), Refreshing(task[o])
  PROVE  \E c \in Range(task[o]) : c.op \in {"list", "set_list"}
<1>1. CASE Sound(task[o], View(o), disturbed)
  <2>1. Form(Head(task[o]).op, task[o], View(o), disturbed)
    BY <1>1, SoundForms DEF Refreshing
  <2>2. task[o] = <<Refresh>> \/ Head(task[o]).op = "set_list"
    BY <2>1 DEF Form, Refreshing
  <2>3. Head(task[o]).op # "set_list"
    BY <2>1 DEF Form
  <2> QED
    BY <2>2, <2>3, List1, RefreshFields
<1>2. CASE \E L \in SUBSET Schema : Sets(task[o], L)
  BY <1>2, SetsIs
<1>3. CASE Begun(task[o])
  BY <1>3 DEF Begun, Refreshing
<1> QED
  BY <1>1, <1>2, <1>3, UnderBegun DEF Handled

-----------------------------------------------------------------------------
(* A statement begins.                                                     *)

\* Any statement that begins with a list of calls that relies on nothing but what is so.
LEMMA StartKeeps ==
  ASSUME SchemasInv, NEW s \in Session, NEW calls, NEW D, Starts(s, calls, D),
         Sound(calls, View(s), disturbed \cup D)
  PROVE  SchemasInv'
<1>1. /\ task[s] = <<>> /\ task' = [task EXCEPT ![s] = calls]
      /\ asked' = asked + 1 /\ disturbed' = disturbed \cup D
      /\ UNCHANGED <<db, work, writer, saved, schemaList, searchPath, listIs, late>>
  BY DEF Starts, txVars
<1>2. asked' \in Nat
  BY <1>1 DEF SchemasInv, SchemasTyped
<1>3. ~Begun(<<>>) /\ ~Refreshing(<<>>) /\ \A x : ~Pends(<<>>, x)
  BY DEF Begun, Refreshing, Pends
<1>4. ~Begun(calls)
  BY SoundNotBegun
<1> QED
  BY <1>1, <1>2, <1>3, <1>4, Advanced

\* CREATE, DROP, ALTER SCHEMA, SET SCHEMA and a new connection begin.
LEMMA SchemaStatementKeeps ==
  ASSUME SchemasInv, NEW s \in Session, SchemaStatement(s)
  PROVE  SchemasInv'
<1>1. ASSUME NEW x \in Named, createSchema(s, x) PROVE SchemasInv'
  <2>1. Starts(s, ToCreate(x), {})
    BY <1>1 DEF createSchema, ToCreate
  <2>2. Sound(ToCreate(x), View(s), disturbed \cup {})
    BY DEF Sound
  <2> QED
    BY <2>1, <2>2, StartKeeps
<1>2. ASSUME NEW x \in Named, NEW cascade \in BOOLEAN, dropSchema(s, x, cascade) PROVE SchemasInv'
  <2>1. Starts(s, ToDrop(x, cascade), {})
    BY <1>2 DEF dropSchema, ToDrop
  <2>2. Sound(ToDrop(x, cascade), View(s), disturbed \cup {})
    BY DEF Sound
  <2> QED
    BY <2>1, <2>2, StartKeeps
<1>3. ASSUME NEW x \in Named, NEW y \in Schema \ {public, x}, renameSchema(s, x, y) PROVE SchemasInv'
  <2>1. Starts(s, ToRename(x, y), {})
    BY <1>3 DEF renameSchema, ToRename
  <2>2. Sound(ToRename(x, y), View(s), disturbed \cup {})
    BY DEF Sound, Named
  <2> QED
    BY <2>1, <2>2, StartKeeps
<1>4. ASSUME NEW r \in Ref, NEW y \in Schema, setTableSchema(s, r, y) PROVE SchemasInv'
  <2>1. CASE y = public
    <3>1. Starts(s, ToMove2(r, y), {})
      BY <1>4, <2>1 DEF setTableSchema, ToMove2
    <3>2. Sound(ToMove2(r, y), View(s), disturbed \cup {})
      BY <2>1 DEF Sound, Known
    <3> QED
      BY <3>1, <3>2, StartKeeps
  <2>2. CASE y # public
    <3>1. Starts(s, ToMove(r, y), {})
      BY <1>4, <2>2 DEF setTableSchema, ToMove
    <3>2. Sound(ToMove(r, y), View(s), disturbed \cup {})
      BY DEF Sound
    <3> QED
      BY <3>1, <3>2, StartKeeps
  <2> QED
    BY <2>1, <2>2
<1>5. ASSUME setupConnection(s) PROVE SchemasInv'
  <2>1. Starts(s, <<Refresh>>, {})
    BY <1>5 DEF setupConnection
  <2> QED
    BY <2>1, SoundRefresh, StartKeeps
<1>6. \A x \in Named, t \in Table : <<x, t>> \in Ref
  BY DEF Named, Ref
<1> QED
  BY <1>1, <1>2, <1>3, <1>4, <1>5, <1>6, SchemasAssumption DEF SchemaStatement, Named

\* The least position of some in a search path.
LEMMA LeastOne ==
  ASSUME NEW S, S \subseteq Nat, S # {}
  PROVE  \E x \in S : \A y \in S : x <= y
<1> DEFINE R == {ss \in Nat \X Nat : ss[1] < ss[2]}
<1>1. IsWellFoundedOn({ss \in Nat \X Nat : ss[1] < ss[2]}, Nat)
  BY NatLessThanWellFounded, Zenon DEF OpToRel
<1>2. IsWellFoundedOn(R, Nat)
  BY <1>1
<1>3. PICK x \in S : \A y \in S : ~(<<y, x>> \in R)
  <2> HIDE DEF R
  <2> QED BY <1>2, WFMin, Zenon
<1>4. ASSUME NEW y \in S PROVE x <= y
  <2>1. x \in Nat /\ y \in Nat
    OBVIOUS
  <2>2. y < x => <<y, x>> \in R
    BY <2>1
  <2> HIDE DEF R
  <2>3. ~(y < x)
    BY <1>3, <2>2
  <2> QED BY <2>1, <2>3
<1> QED BY <1>4

\* A name is resolved to a schema of the list, or to public.
LEMMA ResolvedIs ==
  ASSUME SchemasInv, NEW s \in Session, NEW x \in Schema \cup {none}, NEW t \in Table,
         NEW create \in BOOLEAN, NEW r \in Resolved(s, x, t, create)
  PROVE  r \in Ref /\ r[1] \in schemaList \cup {public}
<1>1. schemaList \subseteq Schema /\ public \in Schema /\ searchPath[s] \in Seq(Schema)
  BY SchemasAssumption DEF SchemasInv, SchemasTyped
<1>2. ASSUME NEW I \in SUBSET usableSearchPath(s)
      PROVE  firstOf(s, I) \in schemaList \cup {public}
  <2>1. CASE I # {}
    <3>1. I \in SUBSET Nat
      BY <1>1, <1>2 DEF usableSearchPath
    <3>2. \E i \in I : \A j \in I : i <= j
      BY <2>1, <3>1, LeastOne
    <3>3. PICK i : i = CHOOSE k \in I : \A j \in I : k <= j
      OBVIOUS
    <3>4. i \in I
      BY <3>2, <3>3
    <3>5. searchPath[s][i] \in schemaList
      BY <1>2, <3>4 DEF usableSearchPath
    <3> QED
      BY <2>1, <3>3, <3>5 DEF firstOf
  <2> QED
    BY <2>1 DEF firstOf
<1>3. CASE x = none
  <2>1. r = resolveTableName(s, t, create)
    BY <1>3 DEF Resolved
  <2>2. \E y \in schemaList \cup {public} : r = <<y, t>>
    <3>1. PICK has : has = {i \in usableSearchPath(s) : <<searchPath[s][i], t>> \in DOMAIN View(s).tables}
      OBVIOUS
    <3>2. has \in SUBSET usableSearchPath(s) /\ usableSearchPath(s) \in SUBSET usableSearchPath(s)
      BY <3>1
    <3>3. r = <<IF create THEN currentSchema(s) ELSE firstOf(s, has), t>>
      BY <2>1, <3>1 DEF resolveTableName
    <3>4. firstOf(s, has) \in schemaList \cup {public} /\ currentSchema(s) \in schemaList \cup {public}
      BY <1>2, <3>2 DEF currentSchema
    <3> QED
      BY <3>3, <3>4
  <2> QED
    BY <1>1, <2>2 DEF Ref
<1>4. CASE x # none
  BY <1>1, <1>4 DEF Resolved, qualifySchemaNames, Ref
<1> QED
  BY <1>3, <1>4

\* When the list can be trusted it is what the session sees.
LEMMA TrustedList ==
  ASSUME SchemasInv, NEW s \in Session, task[s] = <<>>, Trusted(s)
  PROVE  schemaList = View(s).schemas
<1>1. ASSUME NEW o \in Session PROVE ~Refreshing(task[o])
  <2>1. CASE o = s
    BY <2>1 DEF Refreshing
  <2>2. CASE o # s
    <3>1. \A c \in Range(task[o]) : c.op \notin {"list", "set_list"}
      BY <2>2 DEF Trusted, Others, ListOps
    <3> QED
      BY <3>1, RefreshingCalls DEF SchemasInv
  <2> QED
    BY <2>1, <2>2
<1>2. listIs = "committed" => schemaList = db.schemas
  BY <1>1 DEF SchemasInv, ListRight
<1>3. listIs = "writer" => schemaList = work.schemas
  BY <1>1 DEF SchemasInv, SchemasTyped, ListRight
<1> QED
  BY <1>2, <1>3 DEF Trusted, View

\* CREATE TABLE, INSERT, CREATE INDEX and DROP TABLE begin, with the name resolved by the list.
LEMMA TableStatementKeeps ==
  ASSUME SchemasInv, NEW s \in Session, TableStatement(s)
  PROVE  SchemasInv'
<1>1. PICK op \in {"create_table", "insert", "create_index", "drop_table"}, t \in Table, x \in Schema \cup {none} :
        OnTable(s, op, x, t)
  BY DEF TableStatement
<1>2. PICK r, D :
        /\ r \in Resolved(s, x, t, op = "create_table") /\ D = IF Trusted(s) THEN {} ELSE {r[1]}
        /\ Starts(s, <<OfTable(op, r, This)>>, D)
  <2>1. PICK r \in Resolved(s, x, t, op = "create_table") :
          Starts(s, <<OfTable(op, r, This)>>, IF Trusted(s) THEN {} ELSE {r[1]})
    BY <1>1 DEF OnTable
  <2> QED
    BY <2>1, Zenon
<1>3. r \in Ref /\ r[1] \in schemaList \cup {public}
  <2>1. PICK create \in BOOLEAN : create = (op = "create_table")
    OBVIOUS
  <2>2. r \in Resolved(s, x, t, create)
    BY <1>2, <2>1
  <2> QED
    BY <2>2, ResolvedIs
<1>4. This \in SUBSET Nat
  BY DEF This, SchemasInv, SchemasTyped
<1>5. Known(View(s), disturbed \cup D, r[1])
  <2>1. CASE Trusted(s)
    <3>1. schemaList = View(s).schemas
      BY <1>2, <2>1, TrustedList DEF Starts
    <3> QED
      BY <1>3, <3>1 DEF Known
  <2>2. CASE ~Trusted(s)
    BY <1>2, <2>2 DEF Known
  <2> QED
    BY <2>1, <2>2
<1>6. OfOne(<<OfTable(op, r, This)>>, View(s), disturbed \cup D)
  BY <1>3, <1>4, <1>5 DEF OfOne
<1>7. Sound(<<OfTable(op, r, This)>>, View(s), disturbed \cup D)
  BY <1>6 DEF Sound
<1> QED
  BY <1>2, <1>7, StartKeeps

\* ALTER TABLE begins.
LEMMA AlterStatementKeeps ==
  ASSUME SchemasInv, NEW s \in Session, AlterStatement(s)
  PROVE  SchemasInv'
<1>1. PICK r \in Ref : alterColumn(s, r)
  BY DEF AlterStatement
<1>2. Starts(s, <<OfTable("read", r, This)>>, {})
  BY <1>1 DEF alterColumn
<1>3. This \in SUBSET Nat
  BY DEF This, SchemasInv, SchemasTyped
<1>4. OfOne(<<OfTable("read", r, This)>>, View(s), disturbed \cup {})
  BY <1>3 DEF OfOne
<1>5. Sound(<<OfTable("read", r, This)>>, View(s), disturbed \cup {})
  BY <1>4 DEF Sound
<1> QED
  BY <1>2, <1>5, StartKeeps

\* SET search_path.
LEMMA PathStatementKeeps ==
  ASSUME SchemasInv, NEW s \in Session, PathStatement(s)
  PROVE  SchemasInv'
<1>1. PICK p \in Paths : SetSearchPath(s, p)
  BY DEF PathStatement
<1>2. /\ searchPath' = [searchPath EXCEPT ![s] = p] /\ p \in Seq(Schema)
      /\ UNCHANGED <<db, writer, work, schemaList, task, saved, asked, listIs, late, disturbed>>
  BY <1>1, SchemasAssumption DEF SetSearchPath, txVars
<1>3. SchemasTyped'
  BY <1>2 DEF SchemasInv, SchemasTyped
<1>4. /\ OneVersion' /\ Mended' /\ ListRight' /\ Kept(db, disturbed)' /\ Kept(Settled, disturbed)'
  BY <1>2 DEF SchemasInv, OneVersion, Mended, ListRight, Settled, Within
<1>5. \A o \in Session : Handled(o)'
  BY <1>2, HandledStill DEF SchemasInv
<1> QED
  BY <1>3, <1>4, <1>5 DEF SchemasInv

-----------------------------------------------------------------------------
(* Queries.                                                                *)

\* The calls that are made of a finite set.
LEMMA ListOfSet ==
  ASSUME NEW S, IsFiniteSet(S)
  PROVE  SetToSeq(S) \in Seq(S) /\ \A c \in S : c \in Range(SetToSeq(S))
<1>1. PICK n : n = Cardinality(S)
  OBVIOUS
<1>2. n \in Nat /\ ExistsBijection(1..n, S)
  BY <1>1, FS_CardinalityType
<1>3. \E f \in [1..n -> S] : IsInjective(f)
  BY <1>2 DEF ExistsBijection, Bijection, Injection
<1>4. PICK f : f = SetToSeq(S)
  OBVIOUS
<1>5. f \in [1..n -> S] /\ IsInjective(f)
  BY <1>1, <1>3, <1>4, Zenon DEF SetToSeq
<1>6. f \in Injection(1..n, S)
  BY <1>5 DEF Injection
<1>7. IsFiniteSet(1..n) /\ Cardinality(1..n) = n
  BY <1>2, FS_Interval
<1>8. f \in Surjection(1..n, S)
  BY <1>1, <1>6, <1>7, FS_Injection
<1>9. f \in Seq(S)
  BY <1>2, <1>5
<1>10. \A c \in S : c \in Range(f)
  BY <1>5, <1>8 DEF Surjection, Range
<1> QED
  BY <1>4, <1>9, <1>10

\* What a query is answered with, and the calls that follow.
Answered(s, c, q2) ==
  LET v == View(s)
      rest == Tail(task[s])
      members(op, y) == SetToSeq({Call(op, r, y, {}) : r \in schemaTables(v, c.ref[1])})
  IN q2 = CASE c.op = "members_to_drop" -> members("drop_member", none) \o rest
            [] c.op = "members_to_move" -> members("move_table", c.to) \o rest
            [] c.op = "read" -> auxDDLIn(c.ref, v.tables[c.ref].ddl \cup c.arg, c.arg)
            [] c.op = "list" -> <<Call("set_list", <<public, none>>, none, v.schemas)>>
            [] OTHER -> rest

\* The tables of a schema, as calls.
LEMMA MembersListed ==
  ASSUME NEW v \in SchemaVersion, NEW D, Kept(v, D), NEW x \in Named, NEW op, NEW y,
         NEW calls, calls = SetToSeq({Call(op, r, y, {}) : r \in schemaTables(v, x)})
  PROVE  calls \in Members(op, x, y) /\ AllListed(calls, v, D, x)
<1>1. PICK R : R = schemaTables(v, x)
  OBVIOUS
<1>2. R \subseteq {x} \X Table /\ \A r \in DOMAIN v.tables : r[1] = x => r \in R
  <2>1. ASSUME NEW r \in R PROVE r \in {x} \X Table
    <3>1. r \in DOMAIN v.tables /\ r[1] = x
      BY <1>1, <2>1 DEF schemaTables
    <3>2. r \in Ref
      BY <3>1, TablesNamed DEF Named
    <3> QED
      BY <3>1, <3>2 DEF Ref
  <2> QED
    BY <1>1, <2>1 DEF schemaTables, Named
<1>3. PICK S : S = {Call(op, r, y, {}) : r \in R}
  OBVIOUS
<1>4. IsFiniteSet(R)
  BY <1>1, FS_Subset DEF Kept, schemaTables
<1>5. IsFiniteSet(S)
  <2>1. PICK f : f = [r \in R |-> Call(op, r, y, {})]
    OBVIOUS
  <2>2. f \in Surjection(R, S)
    BY <1>3, <2>1 DEF Surjection
  <2> QED
    BY <1>4, <2>2, FS_Surjection
<1>6. calls = SetToSeq(S)
  BY <1>1, <1>3
<1>7. calls \in Seq(S) /\ \A c \in S : c \in Range(calls)
  BY <1>5, <1>6, ListOfSet
<1>8. PICK S2 : S2 = {Call(op, r, y, {}) : r \in {x} \X Table}
  OBVIOUS
<1>9. S \subseteq S2
  BY <1>2, <1>3, <1>8
<1>10. calls \in Seq(S2)
  BY <1>7, <1>9
<1>11. calls \in Members(op, x, y)
  BY <1>8, <1>10 DEF Members
<1>12. ASSUME NEW r \in DOMAIN v.tables, r[1] = x PROVE \E c \in Range(calls) : c.ref = r
  <2>1. r \in R
    BY <1>2, <1>12
  <2>2. PICK c : c = Call(op, r, y, {})
    OBVIOUS
  <2>3. c \in S
    BY <1>3, <2>1, <2>2
  <2>4. c.ref = r
    BY <2>2, CallRef, Zenon
  <2> QED
    BY <1>7, <2>3, <2>4
<1> QED
  BY <1>11, <1>12 DEF AllListed

\* The name is free.
LEMMA AbsentAnswered ==
  ASSUME NEW s, NEW q, NEW v, NEW D, NEW c, NEW q2, q = task[s], v = View(s), c = Head(q),
         q # <<>>, Sound(q, v, D), Answered(s, c, q2), c.op = "absent"
  PROVE  Sound(q2, v, D)
<1>1. q2 = Tail(q)
  BY DEF Answered
<1>2. Form("absent", q, v, D)
  BY SoundForms
<1>3. ASSUME NEW x \in Named, q = ToCreate(x) PROVE Sound(q2, v, D)
  BY <1>1, <1>3, ToCreateIs DEF Sound
<1>4. ASSUME NEW x \in Named, NEW y \in Named, x # y, q = ToRename2(x, y), Known(v, D, x)
      PROVE  Sound(q2, v, D)
  BY <1>1, <1>4, ToRename2Is DEF Sound
<1> QED
  BY <1>2, <1>3, <1>4 DEF Form

\* The schema is registered, and so known.
LEMMA RegisteredAnswered ==
  ASSUME NEW s, NEW q, NEW v, NEW D, NEW c, NEW q2, q = task[s], v = View(s), c = Head(q),
         q # <<>>, Sound(q, v, D), Answered(s, c, q2), c.op = "registered", ~Refused(s, c)
  PROVE  Sound(q2, v, D)
<1>1. q2 = Tail(q)
  BY DEF Answered
<1>2. Form("registered", q, v, D)
  BY SoundForms
<1>3. c.ref[1] \in v.schemas
  BY DEF Refused, schemaRegistered
<1>4. ASSUME NEW x, c = OfSchema("registered", x, none) PROVE Known(v, D, x)
  BY <1>3, <1>4, SchemaFields DEF Known
<1>5. ASSUME NEW x \in Named, NEW cascade \in BOOLEAN, q = ToDrop(x, cascade)
      PROVE  Sound(q2, v, D)
  BY <1>1, <1>5, ToDropIs DEF Sound
<1>6. ASSUME NEW x \in Named, NEW y \in Named, x # y, q = ToRename(x, y)
      PROVE  Sound(q2, v, D)
  <2>1. c = OfSchema("registered", x, none) /\ q2 = ToRename2(x, y)
    BY <1>1, <1>6, ToRenameIs
  <2> QED
    BY <1>4, <1>6, <2>1 DEF Sound
<1>7. ASSUME NEW r \in Ref, NEW y \in Schema, q = ToMove(r, y)
      PROVE  Sound(q2, v, D)
  <2>1. c = OfSchema("registered", y, none) /\ q2 = ToMove2(r, y)
    BY <1>1, <1>7, ToMoveIs
  <2> QED
    BY <1>4, <2>1 DEF Sound
<1> QED
  BY <1>2, <1>5, <1>6, <1>7 DEF Form

\* The tables of the schema are listed.
LEMMA MembersAnswered ==
  ASSUME NEW s, NEW q, NEW v \in SchemaVersion, NEW D, NEW c, NEW q2, q = task[s], v = View(s),
         c = Head(q), q # <<>>, Sound(q, v, D), Answered(s, c, q2), Kept(v, D),
         c.op \in {"members_to_drop", "members_to_move"}
  PROVE  Sound(q2, v, D)
<1>1. ASSUME NEW x \in Named, NEW cascade \in BOOLEAN, q = ToDrop2(x, cascade),
             c.op = "members_to_drop"
      PROVE  Sound(q2, v, D)
  <2>1. c = Call("members_to_drop", <<x, none>>, none, cascade)
    BY <1>1, ToDrop2Is
  <2>2. c.ref = <<x, none>>
    BY <2>1, CallRef, Zenon
  <2>3. Tail(q) = <<OfSchema("unregister", x, none), Refresh>>
    BY <1>1, ToDrop2Is
  <2>4. PICK calls : calls = SetToSeq({Call("drop_member", r, none, {}) : r \in schemaTables(v, c.ref[1])})
    OBVIOUS
  <2>5. calls \in Members("drop_member", x, none) /\ AllListed(calls, v, D, x)
    BY <2>2, <2>4, MembersListed
  <2>6. q2 = calls \o Tail(q)
    BY <1>1, <2>4 DEF Answered
  <2>7. q2 = Dropping(calls, x)
    BY <2>3, <2>6 DEF Dropping, Before
  <2> QED
    BY <2>5, <2>7 DEF Sound
<1>2. ASSUME NEW x \in Named, NEW y \in Named, x # y, q = ToRename3(x, y), Known(v, D, x),
             c.op = "members_to_move"
      PROVE  Sound(q2, v, D)
  <2>1. c = OfSchema("members_to_move", x, y)
    BY <1>2, ToRename3Is
  <2>2. c.ref = <<x, none>> /\ c.to = y
    BY <2>1, SchemaFields
  <2>3. Tail(q) = <<OfSchema("reregister", x, y), Refresh>>
    BY <1>2, ToRename3Is
  <2>4. PICK calls : calls = SetToSeq({Call("move_table", r, c.to, {}) : r \in schemaTables(v, c.ref[1])})
    OBVIOUS
  <2>5. calls \in Members("move_table", x, y) /\ AllListed(calls, v, D, x)
    BY <2>2, <2>4, MembersListed
  <2>6. q2 = calls \o Tail(q)
    BY <1>2, <2>4 DEF Answered
  <2>7. q2 = Renaming(calls, x, y)
    BY <2>3, <2>6 DEF Renaming, Before
  <2> QED
    BY <1>2, <2>5, <2>7 DEF Sound
<1>3. Form(c.op, q, v, D)
  BY SoundForms
<1> QED
  BY <1>1, <1>2, <1>3 DEF Form

\* The definition of the table is read.
LEMMA ReadAnswered ==
  ASSUME NEW s, NEW q, NEW v \in SchemaVersion, NEW D, NEW c, NEW q2, q = task[s], v = View(s),
         c = Head(q), q # <<>>, Sound(q, v, D), Answered(s, c, q2), ~Refused(s, c), c.op = "read"
  PROVE  Sound(q2, v, D)
<1>1. Form("read", q, v, D)
  BY SoundForms
<1>2. PICK r \in Ref, this \in SUBSET Nat : q = <<OfTable("read", r, this)>>
  BY <1>1 DEF Form
<1>3. c.ref = r /\ c.arg = this
  <2>1. c = OfTable("read", r, this)
    BY <1>2, List1
  <2> QED
    BY <2>1, TableFields
<1>4. r \in DOMAIN v.tables
  BY <1>3 DEF Refused
<1>5. PICK ddl : ddl = v.tables[r].ddl \cup this
  OBVIOUS
<1>6. ddl \in SUBSET Nat
  BY <1>4, <1>5, TablesNamed DEF Content
<1>7. q2 = auxDDLIn(r, ddl, this)
  BY <1>3, <1>5 DEF Answered
<1>8. Defines(v, D, r, ddl, this)
  BY <1>5 DEF Defines
<1> QED
  BY <1>2, <1>6, <1>7, <1>8 DEF Sound

\* The indexes and triggers are read, or the query's error is taken for none.
LEMMA ReadAuxKeeps ==
  ASSUME SchemasInv, NEW s \in Session, ReadAux(s)
  PROVE  SchemasInv'
<1>1. PICK q, v, c, there :
        /\ q = task[s] /\ v = View(s) /\ c = Head(q)
        /\ there = IF c.ref \in DOMAIN v.tables THEN v.tables[c.ref].aux ELSE {}
  OBVIOUS
<1>2. PICK aux, q2 :
        /\ aux \in {there, {}} /\ q # <<>> /\ c.op = "read_aux"
        /\ q2 = rebuildTableCopying(c.ref, c.arg.ddl, aux, c.arg.this) /\ GoesOn(s, q2)
        /\ disturbed' = IF aux = there THEN disturbed ELSE disturbed \cup {c.ref[1]}
        /\ UNCHANGED <<db, work, writer, saved, schemaList, listIs, late>>
  BY <1>1 DEF ReadAux, txVars
<1>3. Sound(q, v, disturbed)
  <2>1. ASSUME NEW L, Sets(q, L) PROVE FALSE
    BY <1>1, <1>2, <2>1, SetsIs
  <2>2. ~Begun(q)
    BY <1>1, <1>2 DEF Begun
  <2> QED
    BY <1>1, <2>1, <2>2, UnderBegun DEF SchemasInv, Handled
<1>4. ~Begun(q)
  BY <1>3, SoundNotBegun
<1>5. v \in SchemaVersion
  BY <1>1 DEF SchemasInv, SchemasTyped, View
<1>6. PICK r \in Ref, ddl \in SUBSET Nat, this \in SUBSET Nat :
        q = auxDDLIn(r, ddl, this) /\ Defines(v, disturbed, r, ddl, this)
  <2>1. Form("read_aux", q, v, disturbed)
    BY <1>1, <1>2, <1>3, SoundForms
  <2> QED
    BY <2>1 DEF Form
<1>7. PICK arg : arg = [ddl |-> ddl, this |-> this]
  OBVIOUS
<1>8. c.ref = r /\ c.arg = arg
  <2>1. c = OfTable("read_aux", r, arg)
    BY <1>1, <1>6, <1>7, AuxIs
  <2> QED
    BY <2>1, TableFields
<1>9. arg.ddl = ddl /\ arg.this = this
  BY <1>7
<1>10. q2 = rebuildTableCopying(r, ddl, aux, this)
  BY <1>2, <1>8, <1>9
<1>11. aux \in SUBSET Nat
  BY <1>1, <1>2, <1>5, TablesNamed DEF Content
<1>12. disturbed \subseteq disturbed' /\ (r[1] \in disturbed' \/ aux = there)
  BY <1>2, <1>8
<1>13. Rebuilds(v, disturbed', r, ddl, aux, this)
  BY <1>1, <1>6, <1>8, <1>12 DEF Rebuilds, Defines
<1>14. Sound(q2, View(s), disturbed')
  BY <1>1, <1>10, <1>11, <1>13 DEF Sound
<1>15. ~Begun(q2)
  BY <1>14, SoundNotBegun
<1>16. ~Refreshing(q) /\ \A x : ~Pends(q, x)
  BY <1>1, <1>2, NotPending DEF Refreshing
<1>17. /\ task' = [task EXCEPT ![s] = q2] /\ UNCHANGED searchPath /\ asked' \in Nat
  BY <1>2 DEF GoesOn, SchemasInv, SchemasTyped
<1> QED
  BY <1>1, <1>2, <1>4, <1>12, <1>14, <1>15, <1>16, <1>17, Advanced

\* A query keeps the invariants: what it answers is what the calls that follow rely on.
LEMMA QueryKeeps ==
  ASSUME SchemasInv, NEW s \in Session, Query(s)
  PROVE  SchemasInv'
<1>1. PICK q, v, c : q = task[s] /\ v = View(s) /\ c = Head(q)
  OBVIOUS
<1>2. PICK q2 : Answered(s, c, q2) /\ GoesOn(s, q2)
  BY <1>1 DEF Query, Answered
<1>3. /\ q # <<>> /\ c.op \in Queries /\ ~Refused(s, c)
      /\ UNCHANGED <<db, work, writer, saved, schemaList, searchPath, listIs, late, disturbed, asked>>
      /\ task' = [task EXCEPT ![s] = q2]
  BY <1>1, <1>2 DEF Query, GoesOn, txVars
<1>4. Sound(q, v, disturbed)
  <2>1. ASSUME NEW L, Sets(q, L) PROVE FALSE
    BY <1>1, <1>3, <2>1, SetsIs DEF Queries
  <2>2. ~Begun(q)
    BY <1>1, <1>3 DEF Begun, Queries
  <2> QED
    BY <1>1, <2>1, <2>2, UnderBegun DEF SchemasInv, Handled
<1>5. ~Begun(q)
  BY <1>4, SoundNotBegun
<1>6. v \in SchemaVersion /\ Kept(v, disturbed)
  BY <1>1, <1>5 DEF SchemasInv, SchemasTyped, View, Settled, Within
<1>7. CASE c.op = "list"
  <2>1. q2 = <<Call("set_list", <<public, none>>, none, v.schemas)>>
    BY <1>1, <1>2, <1>7 DEF Answered
  <2>2. Sets(q2, v.schemas)
    BY <2>1 DEF Sets
  <2>3. ~Begun(q2) /\ Refreshing(q2)
    BY <2>2, SetsIs DEF Begun, Refreshing
  <2>4. \A x : ~Pends(q, x)
    BY <1>1, <1>7, NotPending
  <2>5. asked' \in Nat
    BY <1>3 DEF SchemasInv, SchemasTyped
  <2> QED
    BY <1>1, <1>3, <1>5, <2>2, <2>3, <2>4, <2>5, Advanced
<1>8. CASE c.op # "list"
  <2>1. Sound(q2, v, disturbed)
    BY <1>1, <1>2, <1>3, <1>4, <1>6, <1>8, AbsentAnswered, RegisteredAnswered, MembersAnswered,
       ReadAnswered DEF Queries
  <2>2. ~Begun(q2)
    BY <2>1, SoundNotBegun
  <2>3. ~Refreshing(q)
    BY <1>1, <1>3, <1>8 DEF Refreshing, Queries
  <2>4. \A x : ~Pends(q, x)
    BY <1>1, <1>3, NotPending DEF Queries
  <2>5. asked' \in Nat
    BY <1>3 DEF SchemasInv, SchemasTyped
  <2> QED
    BY <1>1, <1>3, <1>5, <2>1, <2>2, <2>3, <2>4, <2>5, Advanced
<1> QED
  BY <1>7, <1>8

-----------------------------------------------------------------------------
(* The list is set, and writes.                                            *)

\* dbState.setSchemas keeps them: the list is what was read, unless the reader was late.
LEMMA SetSchemasKeeps ==
  ASSUME SchemasInv, NEW s \in Session, SetSchemas(s)
  PROVE  SchemasInv'
<1>1. PICK q : q = task[s]
  OBVIOUS
<1>2. /\ q # <<>> /\ Head(q).op = "set_list" /\ schemaList' = Head(q).arg
      /\ listIs' = IF s \in late THEN "nobody" ELSE IF writer = s THEN "writer" ELSE "committed"
      /\ late' = late \ {s} /\ task' = [task EXCEPT ![s] = Tail(q)]
      /\ UNCHANGED <<db, work, writer, saved, searchPath, disturbed, asked>>
  BY <1>1 DEF SetSchemas, GoesOn, txVars
<1>3. PICK L \in SUBSET Schema : Sets(q, L) /\ (s \in late \/ L = View(s).schemas)
  <2>1. ~Sound(q, View(s), disturbed)
    BY <1>2, SoundForms DEF Form
  <2>2. ~Begun(q)
    BY <1>2 DEF Begun
  <2> QED
    BY <1>1, <2>1, <2>2, UnderBegun DEF SchemasInv, Handled
<1>4. Head(q).arg = L /\ Tail(q) = <<>>
  BY <1>3, SetsIs
<1>5. /\ task = [o \in Session |-> task[o]] /\ task' = [task EXCEPT ![s] = <<>>]
      /\ task'[s] = <<>> /\ \A o \in Session : o # s => task'[o] = task[o]
      /\ NoSession \notin Session
  BY <1>2, <1>4, ConnectionsAssumption DEF SchemasInv, SchemasTyped
<1>6. ~Begun(q) /\ ~Begun(<<>>) /\ \A x : ~Pends(q, x)
  BY <1>2, NotPending DEF Begun
<1>7. Within' = Within /\ Settled' = Settled
  <2>1. Within' <=> Within
    BY <1>1, <1>2, <1>5, <1>6 DEF Within, SchemasInv, SchemasTyped
  <2> QED
    BY <1>2, <2>1 DEF Settled, Within
<1>8. SchemasTyped'
  <2>1. task' = [o \in Session |-> task'[o]]
    BY <1>5
  <2> QED
    BY <1>2, <1>4, <2>1 DEF SchemasInv, SchemasTyped
<1>9. OneVersion' /\ Kept(db, disturbed)' /\ Kept(Settled, disturbed)'
  BY <1>2, <1>7 DEF SchemasInv, OneVersion
<1>10. \A o \in Session : Handled(o)'
  <2>1. Sound(task'[s], View(s)', disturbed')
    BY <1>5, SoundNil
  <2>2. \A o \in Session : o # s => Handled(o)'
    BY <1>2, <1>5, HandledStill
  <2> QED
    BY <2>1, <2>2 DEF Handled
<1>11. Mended'
  <2>1. ASSUME NEW x, NEW o \in Session, Pends(task[o], x)
        PROVE  Pends(task'[o], x)
    BY <1>1, <1>5, <1>6, <2>1
  <2> QED
    BY <1>2, <1>7, <2>1 DEF SchemasInv, Mended
<1>12. ListRight'
  <2>1. listIs' = "committed" => schemaList' = db'.schemas
    BY <1>2, <1>3, <1>4 DEF View
  <2>2. listIs' = "writer" => writer = s /\ schemaList' = work'.schemas
    BY <1>2, <1>3, <1>4 DEF View
  <2>3. writer = s => ~Within'
    BY <1>1, <1>6, <1>7 DEF Within
  <2> QED
    BY <1>2, <1>5, <2>1, <2>2, <2>3 DEF ListRight
<1> QED
  BY <1>8, <1>9, <1>10, <1>11, <1>12 DEF SchemasInv

\* The handlers that are about the same names are disturbed.
LEMMA MeetsAll ==
  ASSUME NEW s, NEW N, NEW E, Meets(s, N) \subseteq E
  PROVE  Met(s, N, E)
<1>1. \A o : none \notin About(o) /\ About(o) = AboutOf(task[o])
  BY DEF About, AboutOf
<1>2. ASSUME NEW o \in Others(s), N \cap About(o) # {}, NEW x \in About(o) PROVE x \in E
  BY <1>1, <1>2 DEF Meets
<1> QED
  BY <1>1, <1>2 DEF Met

\* The versions that the writes make, from their parts.
LEMMA Registered ==
  ASSUME NEW s, NEW c, c.op = "register", NEW v \in SchemaVersion, v = View(s),
         NEW S, S = v.schemas \cup {c.ref[1]}
  PROVE  Written(s, c) = Version(S, v.tables, v.due)
BY DEF Written, Version, SchemaVersion

\* One that takes a schema out of the registry.
LEMMA Unregistered ==
  ASSUME NEW s, NEW c, c.op = "unregister", NEW v \in SchemaVersion, v = View(s),
         NEW S, S = v.schemas \ {c.ref[1]}
  PROVE  Written(s, c) = Version(S, v.tables, v.due)
BY DEF Written, Version, SchemaVersion

\* One that changes its name there.
LEMMA Reregistered ==
  ASSUME NEW s, NEW c, c.op = "reregister", NEW v \in SchemaVersion, v = View(s),
         NEW S, S = IF c.ref[1] \in v.schemas THEN (v.schemas \ {c.ref[1]}) \cup {c.to} ELSE v.schemas
  PROVE  Written(s, c) = Version(S, v.tables, v.due)
BY DEF Written, Version, SchemaVersion, schemaRegistered

\* CREATE TABLE.
LEMMA TableMade ==
  ASSUME NEW s, NEW c, c.op = "create_table", NEW v \in SchemaVersion, v = View(s),
         NEW r, r = c.ref, NEW T, T = With(v.tables, r, Empty), NEW U, U = With(v.due, r, NothingDue)
  PROVE  Written(s, c) = Version(v.schemas, T, U)
BY DEF Written, Version, SchemaVersion

\* DROP TABLE.
LEMMA TableDropped ==
  ASSUME NEW s, NEW c, c.op \in {"drop_table", "drop_member"}, NEW v \in SchemaVersion, v = View(s),
         NEW r, r = c.ref, NEW T, T = Without(v.tables, r), NEW U, U = Without(v.due, r)
  PROVE  Written(s, c) = Version(v.schemas, T, U)
BY DEF Written, Version, SchemaVersion

\* A table that is moved.
LEMMA TableMoved ==
  ASSUME NEW s, NEW c, c.op = "move_table", NEW v \in SchemaVersion, v = View(s),
         NEW r, r = c.ref, NEW to, to = <<c.to, r[2]>>,
         NEW T, T = Moved(v.tables, r, to), NEW U, U = Moved(v.due, r, to)
  PROVE  Written(s, c) = Version(v.schemas, T, U)
BY DEF Written, Version, SchemaVersion

\* INSERT.
LEMMA RowsAdded ==
  ASSUME NEW s, NEW c, c.op = "insert", NEW v \in SchemaVersion, v = View(s),
         NEW r, r = c.ref,
         NEW a, a = [v.tables[r] EXCEPT !.rows = @ \cup c.arg],
         NEW b, b = [v.due[r] EXCEPT !.rows = @ \cup c.arg],
         NEW T, T = [v.tables EXCEPT ![r] = a], NEW U, U = [v.due EXCEPT ![r] = b]
  PROVE  Written(s, c) = Version(v.schemas, T, U)
BY DEF Written, Version, SchemaVersion

\* CREATE INDEX.
LEMMA IndexAdded ==
  ASSUME NEW s, NEW c, c.op = "create_index", NEW v \in SchemaVersion, v = View(s),
         NEW r, r = c.ref,
         NEW a, a = [v.tables[r] EXCEPT !.aux = @ \cup c.arg],
         NEW b, b = [v.due[r] EXCEPT !.aux = @ \cup c.arg],
         NEW T, T = [v.tables EXCEPT ![r] = a], NEW U, U = [v.due EXCEPT ![r] = b]
  PROVE  Written(s, c) = Version(v.schemas, T, U)
BY DEF Written, Version, SchemaVersion

\* CREATE, DROP and ALTER SCHEMA.
LEMMA SchemaChanges ==
  ASSUME NEW s, NEW q, q # <<>>, NEW c, c = Head(q), NEW v \in SchemaVersion, v = View(s),
         NEW D, NEW E, D \subseteq E, {c.ref[1], c.to} \cap D # {} => {c.ref[1], c.to} \ {none} \subseteq E,
         Sound(q, v, D), Kept(v, D), c.op \in {"register", "unregister", "reregister"}
  PROVE  Effect(q, Tail(q), v, Written(s, c), E, {c.ref[1], c.to})
<1>1. Form(c.op, q, v, D)
  BY SoundForms
<1>2. ASSUME NEW x \in Named, q = ToCreate2(x), c.op = "register"
      PROVE  Effect(q, Tail(q), v, Written(s, c), E, {c.ref[1], c.to})
  <2>1. c = OfSchema("register", x, none)
    BY <1>2, ToCreate2Is
  <2>2. c.ref[1] = x /\ c.to = none
    BY <2>1, SchemaFields
  <2>3. Tail(q) = <<Refresh>>
    BY <1>2, ToCreate2Is
  <2>4. PICK S : S = v.schemas \cup {c.ref[1]}
    OBVIOUS
  <2>5. Written(s, c) = Version(S, v.tables, v.due)
    <3>1. c.op = "register"
      BY <1>2
    <3> QED
      BY <2>4, <3>1, Registered
  <2>6. Effect(q, <<Refresh>>, v, Written(s, c), E, {x, none})
    BY <1>2, <2>2, <2>4, <2>5, RegisterEffect
  <2> QED
    BY <2>2, <2>3, <2>6
<1>3. ASSUME NEW x \in Named, q = Dropping(<<>>, x), AllListed(<<>>, v, D, x), c.op = "unregister"
      PROVE  Effect(q, Tail(q), v, Written(s, c), E, {c.ref[1], c.to})
  <2>1. c = OfSchema("unregister", x, none)
    BY <1>3, DroppingLast
  <2>2. c.ref[1] = x /\ c.to = none
    BY <2>1, SchemaFields
  <2>3. Tail(q) = <<Refresh>>
    BY <1>3, DroppingLast
  <2>4. PICK S : S = v.schemas \ {c.ref[1]}
    OBVIOUS
  <2>5. Written(s, c) = Version(S, v.tables, v.due)
    <3>1. c.op = "unregister"
      BY <1>3
    <3> QED
      BY <2>4, <3>1, Unregistered
  <2>6. Effect(q, <<Refresh>>, v, Written(s, c), E, {x, none})
    BY <1>3, <2>2, <2>4, <2>5, UnregisterEffect
  <2> QED
    BY <2>2, <2>3, <2>6
<1>4. ASSUME NEW x \in Named, NEW y \in Named, x # y, q = Renaming(<<>>, x, y), Known(v, D, x),
             AllListed(<<>>, v, D, x), c.op = "reregister"
      PROVE  Effect(q, Tail(q), v, Written(s, c), E, {c.ref[1], c.to})
  <2>1. c = OfSchema("reregister", x, y)
    BY <1>4, RenamingLast
  <2>2. c.ref[1] = x /\ c.to = y
    BY <2>1, SchemaFields
  <2>3. Tail(q) = <<Refresh>>
    BY <1>4, RenamingLast
  <2>4. PICK S : S = IF c.ref[1] \in v.schemas THEN (v.schemas \ {c.ref[1]}) \cup {c.to} ELSE v.schemas
    OBVIOUS
  <2>5. Written(s, c) = Version(S, v.tables, v.due)
    <3>1. c.op = "reregister"
      BY <1>4
    <3> QED
      BY <2>4, <3>1, Reregistered
  <2>6. {x, y} \cap D # {} => {x, y} \subseteq E
    BY <2>2, SchemasAssumption DEF Named
  <2>7. Effect(q, <<Refresh>>, v, Written(s, c), E, {x, y})
    BY <1>4, <2>2, <2>4, <2>5, <2>6, ReregisterEffect
  <2> QED
    BY <2>2, <2>3, <2>7
<1> QED
  BY <1>1, <1>2, <1>3, <1>4 DEF Form

\* What a write has of its handler.
LEMMA DroppedMembers ==
  ASSUME NEW x \in Named, NEW calls \in Members("drop_member", x, none), calls # <<>>,
         NEW q, q = Dropping(calls, x), NEW v, NEW D, AllListed(calls, v, D, x)
  PROVE  \E r \in {x} \X Table :
            /\ Head(q) = Call("drop_member", r, none, {})
            /\ \A w, E : D \subseteq E /\ (\A t \in DOMAIN w.tables : t # r /\ t \in DOMAIN v.tables)
                 => Sound(Tail(q), w, E)
<1>1. PICK r \in {x} \X Table :
            /\ Dropping(calls, x) # <<>>
            /\ Head(Dropping(calls, x)) = Call("drop_member", r, none, {})
            /\ Tail(calls) \in Members("drop_member", x, none)
            /\ Tail(Dropping(calls, x)) = Dropping(Tail(calls), x)
            /\ \A c \in Range(calls) : c.ref = r \/ c \in Range(Tail(calls))
  BY DroppingNext
<1>2. ASSUME NEW w, NEW E, D \subseteq E, \A t \in DOMAIN w.tables : t # r /\ t \in DOMAIN v.tables
      PROVE  Sound(Tail(q), w, E)
  <2>1. AllListed(Tail(calls), w, E, x)
    BY <1>1, <1>2 DEF AllListed
  <2>2. Tail(q) = Dropping(Tail(calls), x) /\ Tail(calls) \in Members("drop_member", x, none)
    BY <1>1
  <2> QED
    BY <2>1, <2>2 DEF Sound
<1> QED
  BY <1>1, <1>2

\* The same when a table is moved.
LEMMA MovedMembers ==
  ASSUME NEW x \in Named, NEW y \in Named, x # y,
         NEW calls \in Members("move_table", x, y), calls # <<>>,
         NEW q, q = Renaming(calls, x, y), NEW v, NEW D, AllListed(calls, v, D, x), Known(v, D, x)
  PROVE  \E r \in {x} \X Table :
            /\ Head(q) = Call("move_table", r, y, {})
            /\ \A w, E : D \subseteq E /\ w.schemas = v.schemas
                         /\ (\A t \in DOMAIN w.tables : t[1] = x => t # r /\ t \in DOMAIN v.tables)
                 => Sound(Tail(q), w, E)
            /\ \A z : Pends(q, z) <=> z = y
            /\ Pends(Tail(q), y)
<1>1. PICK r \in {x} \X Table :
            /\ Renaming(calls, x, y) # <<>>
            /\ Head(Renaming(calls, x, y)) = Call("move_table", r, y, {})
            /\ Tail(calls) \in Members("move_table", x, y)
            /\ Tail(Renaming(calls, x, y)) = Renaming(Tail(calls), x, y)
            /\ \A c \in Range(calls) : c.ref = r \/ c \in Range(Tail(calls))
  BY RenamingNext
<1>2. ASSUME NEW w, NEW E, D \subseteq E, w.schemas = v.schemas,
             \A t \in DOMAIN w.tables : t[1] = x => t # r /\ t \in DOMAIN v.tables
      PROVE  Sound(Tail(q), w, E)
  <2>1. AllListed(Tail(calls), w, E, x) /\ Known(w, E, x)
    BY <1>1, <1>2 DEF AllListed, Known
  <2>2. Tail(q) = Renaming(Tail(calls), x, y) /\ Tail(calls) \in Members("move_table", x, y)
    BY <1>1
  <2> QED
    BY <2>1, <2>2 DEF Sound
<1>3. \A z : Pends(q, z) <=> z = y
  BY RenamePends
<1>4. Pends(Tail(q), y)
  <2>1. Tail(calls) \in Members("move_table", x, y)
    BY <1>1
  <2>2. Pends(Renaming(Tail(calls), x, y), y)
    BY <2>1, RenamePends
  <2>3. Tail(q) = Renaming(Tail(calls), x, y)
    BY <1>1
  <2> QED
    BY <2>2, <2>3
<1> QED
  BY <1>1, <1>2, <1>3, <1>4

\* DROP TABLE, and what DROP SCHEMA drops.
LEMMA DropChanges ==
  ASSUME NEW s, NEW q, q # <<>>, NEW c, c = Head(q), NEW v \in SchemaVersion, v = View(s),
         NEW D, NEW E, D \subseteq E, Sound(q, v, D), Kept(v, D), c.op \in {"drop_table", "drop_member"}
  PROVE  Effect(q, Tail(q), v, Written(s, c), E, {c.ref[1], c.to})
<1>1. Form(c.op, q, v, D)
  BY SoundForms
<1>2. ASSUME NEW r \in Ref, c.ref = r, c.to = none,
             \A w : (\A t \in DOMAIN w.tables : t # r /\ t \in DOMAIN v.tables) => Sound(Tail(q), w, E)
      PROVE  Effect(q, Tail(q), v, Written(s, c), E, {c.ref[1], c.to})
  <2>1. PICK T, U : T = Without(v.tables, r) /\ U = Without(v.due, r)
    OBVIOUS
  <2>2. Written(s, c) = Version(v.schemas, T, U)
    BY <1>2, <2>1, TableDropped
  <2>3. PICK w : w = Version(v.schemas, T, U)
    OBVIOUS
  <2>4. w.tables = T
    BY <2>3, MadeOf
  <2>5. DOMAIN T = DOMAIN v.tables \ {r}
    BY <2>1, WithoutKeys
  <2>6. Sound(Tail(q), w, E)
    BY <1>2, <2>4, <2>5
  <2>7. Effect(q, Tail(q), v, w, E, {r[1], none})
    BY <2>1, <2>3, <2>6, WithoutEffect
  <2> QED
    BY <1>2, <2>2, <2>3, <2>7
<1>3. ASSUME NEW r \in Ref, NEW this \in SUBSET Nat, q = <<OfTable("drop_table", r, this)>>
      PROVE  Effect(q, Tail(q), v, Written(s, c), E, {c.ref[1], c.to})
  <2>1. c = OfTable("drop_table", r, this) /\ Tail(q) = <<>>
    BY <1>3, List1
  <2>2. c.ref = r /\ c.to = none
    BY <2>1, TableFields
  <2>3. \A w : Sound(Tail(q), w, E)
    BY <2>1, SoundNil
  <2> QED
    BY <1>2, <2>2, <2>3
<1>4. ASSUME NEW x \in Named, NEW calls \in Members("drop_member", x, none), calls # <<>>,
             q = Dropping(calls, x), AllListed(calls, v, D, x)
      PROVE  Effect(q, Tail(q), v, Written(s, c), E, {c.ref[1], c.to})
  <2>1. PICK r \in {x} \X Table :
            /\ Head(q) = Call("drop_member", r, none, {})
            /\ \A w, F : D \subseteq F /\ (\A t \in DOMAIN w.tables : t # r /\ t \in DOMAIN v.tables)
                 => Sound(Tail(q), w, F)
    BY <1>4, DroppedMembers
  <2>2. c = Call("drop_member", r, none, {})
    BY <2>1
  <2>3. c.ref = r
    BY <2>2, CallRef, Zenon
  <2>4. c.to = none
    BY <2>2 DEF Call
  <2>5. r \in Ref
    BY DEF Named, Ref
  <2> QED
    BY <1>2, <2>1, <2>3, <2>4, <2>5
<1> QED
  BY <1>1, <1>3, <1>4 DEF Form

\* What a move is refused for.
LEMMA MoveRefused ==
  ASSUME NEW s, NEW c, c.op = "move_table", ~Refused(s, c), NEW v, v = View(s),
         NEW r, r = c.ref, NEW to, to = <<c.to, r[2]>>
  PROVE  r \in DOMAIN v.tables /\ to \notin DOMAIN v.tables
BY DEF Refused

\* ALTER TABLE ... SET SCHEMA, and the tables that a RENAME moves.
LEMMA MoveChanges ==
  ASSUME NEW s, NEW q, q # <<>>, NEW c, c = Head(q), NEW v \in SchemaVersion, v = View(s),
         NEW D, NEW E, D \subseteq E, {c.ref[1], c.to} \cap D # {} => {c.ref[1], c.to} \ {none} \subseteq E,
         Sound(q, v, D), Kept(v, D), c.op = "move_table", ~Refused(s, c)
  PROVE  Effect(q, Tail(q), v, Written(s, c), E, {c.ref[1], c.to})
<1>1. Form(c.op, q, v, D)
  BY SoundForms
<1>2. ASSUME NEW r \in Ref, NEW y \in Schema, c.ref = r, c.to = y,
             \A x : x # y => ~Pends(q, x), Known(v, E, y) \/ Pends(Tail(q), y),
             \A w : w.schemas = v.schemas
                    /\ (\A t \in DOMAIN w.tables : t = <<y, r[2]>> \/ (t # r /\ t \in DOMAIN v.tables))
                    => Sound(Tail(q), w, E)
      PROVE  Effect(q, Tail(q), v, Written(s, c), E, {c.ref[1], c.to})
  <2>1. PICK to : to = <<c.to, r[2]>>
    OBVIOUS
  <2>2. PICK T, U : T = Moved(v.tables, r, to) /\ U = Moved(v.due, r, to)
    OBVIOUS
  <2>3. Written(s, c) = Version(v.schemas, T, U)
    BY <1>2, <2>1, <2>2, TableMoved
  <2>4. PICK w : w = Version(v.schemas, T, U)
    OBVIOUS
  <2>5. w.tables = T /\ w.schemas = v.schemas
    BY <2>4, MadeOf
  <2>6. \A t \in DOMAIN T : t = to \/ (t # r /\ t \in DOMAIN v.tables)
    <3>1. T = Moved(v.tables, r, to)
      BY <2>2
    <3> QED
      BY <3>1, MovedFrom
  <2>7. Sound(Tail(q), w, E)
    BY <1>2, <2>1, <2>5, <2>6
  <2>8. r \in DOMAIN v.tables /\ to \notin DOMAIN v.tables
    BY <1>2, <2>1, MoveRefused
  <2>9. r[1] \in D => y \in E
    BY <1>2, SchemasAssumption
  <2>10. to = <<y, r[2]>>
    BY <1>2, <2>1
  <2>11. Effect(q, Tail(q), v, w, E, {r[1], y})
    BY <1>2, <2>2, <2>4, <2>7, <2>8, <2>9, <2>10, MoveEffect
  <2> QED
    BY <1>2, <2>3, <2>4, <2>11
<1>3. ASSUME NEW r \in Ref, NEW y \in Schema, q = ToMove2(r, y), Known(v, D, y)
      PROVE  Effect(q, Tail(q), v, Written(s, c), E, {c.ref[1], c.to})
  <2>1. c = Call("move_table", r, y, {}) /\ Tail(q) = <<Refresh>>
    BY <1>3, ToMove2Is
  <2>2. c.ref = r /\ c.to = y
    BY <2>1, CallFields
  <2>3. \A x : ~Pends(q, x)
    BY <1>3, MovePends
  <2>4. Known(v, E, y)
    BY <1>3 DEF Known
  <2>5. \A w : Sound(Tail(q), w, E)
    BY <2>1, SoundRefresh
  <2> QED
    BY <1>2, <2>2, <2>3, <2>4, <2>5
<1>4. ASSUME NEW x \in Named, NEW y \in Named, NEW calls \in Members("move_table", x, y), x # y,
             calls # <<>>, q = Renaming(calls, x, y), Known(v, D, x), AllListed(calls, v, D, x)
      PROVE  Effect(q, Tail(q), v, Written(s, c), E, {c.ref[1], c.to})
  <2>1. PICK r \in {x} \X Table :
            /\ Head(q) = Call("move_table", r, y, {})
            /\ \A w, F : D \subseteq F /\ w.schemas = v.schemas
                         /\ (\A t \in DOMAIN w.tables : t[1] = x => t # r /\ t \in DOMAIN v.tables)
                 => Sound(Tail(q), w, F)
            /\ \A z : Pends(q, z) <=> z = y
            /\ Pends(Tail(q), y)
    BY <1>4, MovedMembers
  <2>2. c = Call("move_table", r, y, {})
    BY <2>1
  <2>3. c.ref = r
    BY <2>2, CallRef, Zenon
  <2>4. c.to = y
    BY <2>2 DEF Call
  <2>5. r \in Ref /\ y \in Schema
    BY DEF Named, Ref
  <2>6. ASSUME NEW w, w.schemas = v.schemas,
               \A t \in DOMAIN w.tables : t = <<y, r[2]>> \/ (t # r /\ t \in DOMAIN v.tables)
        PROVE  Sound(Tail(q), w, E)
    <3>1. <<y, r[2]>>[1] = y
      OBVIOUS
    <3>2. \A t \in DOMAIN w.tables : t[1] = x => t # r /\ t \in DOMAIN v.tables
      BY <1>4, <2>6, <3>1
    <3> QED
      BY <2>1, <2>6, <3>2
  <2> QED
    BY <1>2, <2>1, <2>3, <2>4, <2>5, <2>6
<1> QED
  BY <1>1, <1>3, <1>4 DEF Form

\* CREATE TABLE.
LEMMA CreateChanges ==
  ASSUME NEW s, NEW q, q # <<>>, NEW c, c = Head(q), NEW v \in SchemaVersion, v = View(s),
         NEW D, NEW E, D \subseteq E, Sound(q, v, D), Kept(v, D), c.op = "create_table"
  PROVE  Effect(q, Tail(q), v, Written(s, c), E, {c.ref[1], c.to})
<1>1. Form(c.op, q, v, D)
  BY SoundForms
<1>2. PICK r \in Ref, this \in SUBSET Nat : q = <<OfTable("create_table", r, this)>> /\ Known(v, D, r[1])
  BY <1>1 DEF Form
<1>3. c = OfTable("create_table", r, this) /\ Tail(q) = <<>>
  BY <1>2, List1
<1>4. c.ref = r /\ c.to = none
  BY <1>3, TableFields
<1>5. PICK T, U : T = With(v.tables, r, Empty) /\ U = With(v.due, r, NothingDue)
  OBVIOUS
<1>6. Written(s, c) = Version(v.schemas, T, U)
  BY <1>4, <1>5, TableMade
<1>7. PICK w : w = Version(v.schemas, T, U)
  OBVIOUS
<1>8. Sound(Tail(q), w, E)
  BY <1>3, SoundNil
<1>9. Head(q).op \notin {"move_table", "reregister"}
  OBVIOUS
<1>10. Effect(q, Tail(q), v, w, E, {r[1], none})
  BY <1>2, <1>5, <1>7, <1>8, <1>9, WithEffect
<1> QED
  BY <1>4, <1>6, <1>7, <1>10

\* What is put into a table.
WithInserts(x, n) == [x EXCEPT !.rows = @ \cup n]
WithIndexes(x, n) == [x EXCEPT !.aux = @ \cup n]

\* Rows that are added are due.
LEMMA InsertAsDue ==
  ASSUME NEW x \in Content, NEW y \in Due, NEW n \in SUBSET Nat,
         NEW a, a = WithInserts(x, n), NEW b, b = WithInserts(y, n)
  PROVE  a \in Content /\ b \in Due /\ (AsDue(x, y) => AsDue(a, b))
<1>1. a \in Content /\ b \in Due
  BY DEF Content, Due, WithInserts
<1>2. /\ a.ddl = x.ddl /\ a.rows = x.rows \cup n /\ a.aux = x.aux
      /\ b.ddl = y.ddl /\ b.rows = y.rows \cup n /\ b.aux = y.aux /\ b.undone = y.undone
  BY DEF Content, Due, WithInserts
<1> QED
  BY <1>1, <1>2 DEF AsDue

\* So is an index.
LEMMA IndexAsDue ==
  ASSUME NEW x \in Content, NEW y \in Due, NEW n \in SUBSET Nat,
         NEW a, a = WithIndexes(x, n), NEW b, b = WithIndexes(y, n)
  PROVE  a \in Content /\ b \in Due /\ (AsDue(x, y) => AsDue(a, b))
<1>1. a \in Content /\ b \in Due
  BY DEF Content, Due, WithIndexes
<1>2. /\ a.ddl = x.ddl /\ a.rows = x.rows /\ a.aux = x.aux \cup n
      /\ b.ddl = y.ddl /\ b.rows = y.rows /\ b.aux = y.aux \cup n /\ b.undone = y.undone
  BY DEF Content, Due, WithIndexes
<1> QED
  BY <1>1, <1>2 DEF AsDue

\* INSERT.
LEMMA InsertChanges ==
  ASSUME NEW s, NEW q, q # <<>>, NEW c, c = Head(q), NEW v \in SchemaVersion, v = View(s),
         NEW D, NEW E, D \subseteq E, Sound(q, v, D), Kept(v, D), c.op = "insert", ~Refused(s, c)
  PROVE  Effect(q, Tail(q), v, Written(s, c), E, {c.ref[1], c.to})
<1>1. Form(c.op, q, v, D)
  BY SoundForms
<1>2. PICK r \in Ref, this \in SUBSET Nat : q = <<OfTable("insert", r, this)>>
  BY <1>1 DEF Form
<1>3. c = OfTable("insert", r, this) /\ Tail(q) = <<>>
  BY <1>2, List1
<1>4. c.ref = r /\ c.to = none /\ c.arg = this
  BY <1>3, TableFields
<1>5. r \in DOMAIN v.tables
  BY <1>4 DEF Refused
<1>6. /\ v.tables \in Keyed(Ref \cup {tmp}, Content) /\ v.due \in Keyed(Ref, Due)
  BY VersionParts
<1>7. v.tables[r] \in Content /\ v.due[r] \in Due
  BY <1>5, <1>6, RowTyped DEF Kept
<1>8. PICK a : a = [v.tables[r] EXCEPT !.rows = @ \cup this]
  OBVIOUS
<1>9. PICK b : b = [v.due[r] EXCEPT !.rows = @ \cup this]
  OBVIOUS
<1>10. a \in Content /\ b \in Due /\ (AsDue(v.tables[r], v.due[r]) => AsDue(a, b))
  <2>1. a = WithInserts(v.tables[r], this) /\ b = WithInserts(v.due[r], this)
    BY <1>8, <1>9 DEF WithInserts
  <2> QED
    BY <1>7, <2>1, InsertAsDue
<1>12. PICK T, U : T = [v.tables EXCEPT ![r] = a] /\ U = [v.due EXCEPT ![r] = b]
  OBVIOUS
<1>13. Written(s, c) = Version(v.schemas, T, U)
  BY <1>4, <1>8, <1>9, <1>12, RowsAdded
<1>14. PICK w : w = Version(v.schemas, T, U)
  OBVIOUS
<1>15. Sound(Tail(q), w, E)
  BY <1>3, SoundNil
<1>16. Head(q).op \notin {"move_table", "reregister"}
  OBVIOUS
<1>17. Effect(q, Tail(q), v, w, E, {r[1], none})
  BY <1>5, <1>10, <1>12, <1>14, <1>15, <1>16, InsertEffect
<1> QED
  BY <1>4, <1>13, <1>14, <1>17

\* CREATE INDEX.
LEMMA IndexChanges ==
  ASSUME NEW s, NEW q, q # <<>>, NEW c, c = Head(q), NEW v \in SchemaVersion, v = View(s),
         NEW D, NEW E, D \subseteq E, Sound(q, v, D), Kept(v, D), c.op = "create_index", ~Refused(s, c)
  PROVE  Effect(q, Tail(q), v, Written(s, c), E, {c.ref[1], c.to})
<1>1. Form(c.op, q, v, D)
  BY SoundForms
<1>2. PICK r \in Ref, this \in SUBSET Nat : q = <<OfTable("create_index", r, this)>>
  BY <1>1 DEF Form
<1>3. c = OfTable("create_index", r, this) /\ Tail(q) = <<>>
  BY <1>2, List1
<1>4. c.ref = r /\ c.to = none /\ c.arg = this
  BY <1>3, TableFields
<1>5. r \in DOMAIN v.tables
  BY <1>4 DEF Refused
<1>6. /\ v.tables \in Keyed(Ref \cup {tmp}, Content) /\ v.due \in Keyed(Ref, Due)
  BY VersionParts
<1>7. v.tables[r] \in Content /\ v.due[r] \in Due
  BY <1>5, <1>6, RowTyped DEF Kept
<1>8. PICK a : a = [v.tables[r] EXCEPT !.aux = @ \cup this]
  OBVIOUS
<1>9. PICK b : b = [v.due[r] EXCEPT !.aux = @ \cup this]
  OBVIOUS
<1>10. a \in Content /\ b \in Due /\ (AsDue(v.tables[r], v.due[r]) => AsDue(a, b))
  <2>1. a = WithIndexes(v.tables[r], this) /\ b = WithIndexes(v.due[r], this)
    BY <1>8, <1>9 DEF WithIndexes
  <2> QED
    BY <1>7, <2>1, IndexAsDue
<1>12. PICK T, U : T = [v.tables EXCEPT ![r] = a] /\ U = [v.due EXCEPT ![r] = b]
  OBVIOUS
<1>13. Written(s, c) = Version(v.schemas, T, U)
  BY <1>4, <1>8, <1>9, <1>12, IndexAdded
<1>14. PICK w : w = Version(v.schemas, T, U)
  OBVIOUS
<1>15. Sound(Tail(q), w, E)
  BY <1>3, SoundNil
<1>16. Head(q).op \notin {"move_table", "reregister"}
  OBVIOUS
<1>17. Effect(q, Tail(q), v, w, E, {r[1], none})
  BY <1>5, <1>10, <1>12, <1>14, <1>15, <1>16, InsertEffect
<1> QED
  BY <1>4, <1>13, <1>14, <1>17

\* A write outside a rebuild keeps the invariants.
LEMMA ChangeKeeps ==
  ASSUME SchemasInv, NEW s \in Session, Change(s)
  PROVE  SchemasInv'
<1>1. PICK q, v, c : q = task[s] /\ v = View(s) /\ c = Head(q)
  OBVIOUS
<1>2. PICK N : N = {c.ref[1], c.to}
  OBVIOUS
<1>3. /\ q # <<>> /\ c.op \notin Queries \cup Rebuild \cup Elsewhere /\ ~Refused(s, c)
      /\ Write(s, Written(s, c)) /\ GoesOn(s, Tail(q))
      /\ disturbed' = disturbed \cup Meets(s, N) \cup Spread(N)
      /\ late' = late \cup Late(s)
      /\ UNCHANGED <<schemaList, saved, listIs>>
  BY <1>1, <1>2 DEF Change
<1>4. ~Begun(q) /\ ~Refreshing(q)
  BY <1>1, <1>3 DEF Begun, Refreshing, Queries, Rebuild, Elsewhere
<1>5. Sound(q, v, disturbed)
  <2>1. ASSUME NEW L, Sets(q, L) PROVE FALSE
    BY <1>1, <1>3, <2>1, SetsIs DEF Elsewhere
  <2> QED
    BY <1>1, <1>4, <2>1, UnderBegun DEF SchemasInv, Handled
<1>6. v \in SchemaVersion /\ Kept(v, disturbed)
  <2>1. MayWrite(s)
    BY <1>3 DEF Write
  <2> QED
    BY <1>1, <1>4, <2>1, WorksOn
<1>7. disturbed \subseteq disturbed' /\ Met(s, N, disturbed')
  BY <1>3, MeetsAll
<1>8. N \cap disturbed # {} => N \ {none} \subseteq disturbed'
  BY <1>3 DEF Spread
<1>9. c.op \in {"register", "unregister", "reregister", "drop_table", "drop_member", "move_table",
                "create_table", "insert", "create_index"}
  <2>1. Form(c.op, q, v, disturbed)
    BY <1>1, <1>3, <1>5, SoundForms
  <2>2. c.op \in {"register", "unregister", "reregister", "drop_table", "drop_member", "move_table",
                  "create_table", "insert", "create_index", "list", "absent", "registered",
                  "members_to_drop", "members_to_move", "read", "read_aux", "create"}
    BY <2>1 DEF Form
  <2> QED
    BY <1>3, <2>2 DEF Queries, Rebuild, Elsewhere
<1>10. Effect(q, Tail(q), v, Written(s, c), disturbed', N)
  <2>1. PICK E : E = disturbed'
    OBVIOUS
  <2>2. disturbed \subseteq E /\ ({c.ref[1], c.to} \cap disturbed # {} => {c.ref[1], c.to} \ {none} \subseteq E)
    BY <1>2, <1>7, <1>8, <2>1
  <2>3. CASE c.op \in {"register", "unregister", "reregister"}
    BY <1>1, <1>2, <1>3, <1>5, <1>6, <2>1, <2>2, <2>3, SchemaChanges
  <2>4. CASE c.op \in {"drop_table", "drop_member"}
    BY <1>1, <1>2, <1>3, <1>5, <1>6, <2>1, <2>2, <2>4, DropChanges
  <2>5. CASE c.op = "move_table"
    BY <1>1, <1>2, <1>3, <1>5, <1>6, <2>1, <2>2, <2>5, MoveChanges
  <2>6. CASE c.op = "create_table"
    BY <1>1, <1>2, <1>3, <1>5, <1>6, <2>1, <2>2, <2>6, CreateChanges
  <2>7. CASE c.op = "insert"
    BY <1>1, <1>2, <1>3, <1>5, <1>6, <2>1, <2>2, <2>7, InsertChanges
  <2>8. CASE c.op = "create_index"
    BY <1>1, <1>2, <1>3, <1>5, <1>6, <2>1, <2>2, <2>8, IndexChanges
  <2> QED
    BY <1>9, <2>3, <2>4, <2>5, <2>6, <2>7, <2>8
<1>11. ~Begun(Tail(q))
  <2>1. PICK w : w = Written(s, c)
    OBVIOUS
  <2>2. Sound(Tail(q), w, disturbed')
    BY <1>10, <2>1 DEF Effect
  <2> QED
    BY <2>2, SoundNotBegun
<1> QED
  BY <1>1, <1>3, <1>4, <1>7, <1>10, <1>11, Rewritten

-----------------------------------------------------------------------------
(* A handler gives up.                                                     *)

\* A schema that a handler is about to register is named in it.
LEMMA PendingNamed ==
  ASSUME NEW s, NEW q, q = task[s], NEW x \in Schema, Pends(q, x)
  PROVE  x \in About(s)
<1>1. PICK c \in Range(q) : c.op = "reregister" /\ c.to = x
  BY DEF Pends
<1>2. x \in {c.ref[1], c.to} \ {none}
  BY <1>1, SchemasAssumption
<1> QED
  BY <1>1, <1>2 DEF About

\* A handler that gives up keeps them: who relied on it is disturbed.
LEMMA GiveUpKeeps ==
  ASSUME SchemasInv, NEW s \in Session, GiveUp(s)
  PROVE  SchemasInv'
<1>1. PICK q, v, c : q = task[s] /\ v = View(s) /\ c = Head(q)
  OBVIOUS
<1>2. PICK ofSchema : ofSchema <=> \E d \in Range(q) : d.op \in {"register", "unregister", "reregister"}
  OBVIOUS
<1>3. /\ q # <<>> /\ c.op \notin Rebuild \cup Elsewhere
      /\ Refused(s, c) \/ MayFail(c) \/ c.op \notin Queries
      /\ GoesOn(s, <<>>)
      /\ UNCHANGED <<schemaList, saved, listIs, late>>
  BY <1>1 DEF GiveUp
<1>4. UNCHANGED <<db, work, writer>>
  BY DEF GiveUp, Reported, txVars
<1>5. disturbed \subseteq disturbed'
  BY DEF GiveUp
<1>6. ~Begun(q) /\ ~Begun(<<>>)
  BY <1>1, <1>3 DEF Begun, Rebuild
<1>7. ASSUME NEW x \in Schema \ disturbed', Pends(q, x)
      PROVE  FALSE
  <2>1. c.op \in {"move_table", "reregister"}
    BY <1>1, <1>7 DEF Pends
  <2>2. \E d \in Range(q) : d.op \in {"register", "unregister", "reregister"}
    BY <1>7 DEF Pends
  <2>3. disturbed' = disturbed \cup About(s)
    BY <1>1, <2>1, <2>2 DEF GiveUp
  <2>4. x \in About(s)
    BY <1>1, <1>7, PendingNamed
  <2> QED
    BY <1>7, <2>3, <2>4
<1>8. ~Refreshing(q)
  <2>1. c.op # "set_list"
    BY <1>3 DEF Elsewhere
  <2>2. c.op = "list" => ~Refused(s, c) /\ ~MayFail(c) /\ c.op \in Queries
    BY DEF Refused, MayFail, Queries
  <2> QED
    BY <1>1, <1>3, <2>1, <2>2 DEF Refreshing
<1>9. task' = [task EXCEPT ![s] = <<>>] /\ UNCHANGED searchPath /\ asked' \in Nat
  BY <1>3 DEF GoesOn, SchemasInv, SchemasTyped
<1>10. Sound(<<>>, View(s), disturbed')
  BY SoundNil
<1> QED
  BY <1>1, <1>3, <1>4, <1>5, <1>6, <1>7, <1>8, <1>9, <1>10, Advanced

-----------------------------------------------------------------------------
(* Transactions.                                                           *)

\* Where a session has nothing to do.
LEMMA NothingToDo == ~Begun(<<>>) /\ ~Refreshing(<<>>) /\ \A x : ~Pends(<<>>, x)
BY DEF Begun, Refreshing, Pends

\* BEGIN keeps the invariants.
LEMMA BeginKeeps ==
  ASSUME SchemasInv, NEW s \in Session, Begin(s)
  PROVE  SchemasInv'
<1>1. /\ task[s] = <<>> /\ asked' = asked + 1 /\ writer = NoSession /\ writer' = s
      /\ UNCHANGED <<db, work, schemaList, searchPath, task, saved, listIs, late, disturbed>>
      /\ NoSession \notin Session
  BY ConnectionsAssumption DEF Begin, BeginTx
<1>2. work = db /\ ~Within /\ ~Within'
  BY <1>1, NothingToDo DEF SchemasInv, OneVersion, Within
<1>3. Settled = work /\ Settled' = work
  BY <1>1, <1>2 DEF Settled
<1>4. SchemasTyped' /\ OneVersion'
  BY <1>1, <1>2 DEF SchemasInv, SchemasTyped, OneVersion
<1>5. \A o \in Session : Handled(o)'
  <2>1. ASSUME NEW o \in Session PROVE Handled(o)'
    <3>1. View(o)' = View(o) /\ writer # o
      BY <1>1, <1>2 DEF View
    <3> QED
      BY <1>1, <3>1 DEF SchemasInv, Handled
  <2> QED
    BY <2>1
<1>6. Kept(db, disturbed)' /\ Kept(Settled, disturbed)'
  BY <1>1, <1>3 DEF SchemasInv
<1>7. Mended'
  <2>1. \A o \in Session : \A x : Pends(task[o], x) => o # s
    BY <1>1, NothingToDo
  <2> QED
    BY <1>1, <1>3, <2>1 DEF SchemasInv, Mended
<1>8. ListRight'
  <2>1. \A o \in Session : Refreshing(task[o]) => o # s
    BY <1>1, NothingToDo
  <2> QED
    BY <1>1, <2>1 DEF SchemasInv, ListRight
<1> QED
  BY <1>4, <1>5, <1>6, <1>7, <1>8 DEF SchemasInv

\* All the handlers of the others are disturbed.
LEMMA AllMet ==
  ASSUME NEW s, NEW E, MeetsAny(s) \subseteq E, NEW o \in Others(s)
  PROVE  AboutOf(task[o]) \subseteq E
BY DEF MeetsAny, About, AboutOf

\* COMMIT keeps them: who relied on what was committed before is disturbed.
LEMMA CommitKeeps ==
  ASSUME SchemasInv, NEW s \in Session, Commit(s)
  PROVE  SchemasInv'
<1>1. /\ task[s] = <<>> /\ writer = s /\ writer' = NoSession /\ db' = work
      /\ UNCHANGED <<work, schemaList, searchPath, task, saved, asked>>
      /\ listIs' = ListAfter(s, TRUE) /\ late' = late \cup Late(s)
      /\ disturbed' = disturbed \cup MeetsAny(s) /\ NoSession \notin Session
  BY ConnectionsAssumption DEF Commit, CommitTx
<1>2. ~Within /\ ~Within' /\ db \in SchemaVersion /\ work \in SchemaVersion
  BY <1>1, NothingToDo DEF Within, SchemasInv, SchemasTyped
<1>3. Settled = work /\ Settled' = work
  BY <1>1, <1>2 DEF Settled
<1>4. listIs' \in {"committed", "nobody"}
  BY <1>1 DEF ListAfter, SchemasInv, SchemasTyped
<1>5. SchemasTyped' /\ OneVersion'
  BY <1>1, <1>2, <1>4 DEF SchemasInv, SchemasTyped, OneVersion
<1>6. \A o \in Session : Handled(o)'
  <2>1. Handled(s)'
    BY <1>1, SoundNil DEF Handled
  <2>2. ASSUME NEW o \in Session, o # s PROVE Handled(o)'
    <3>1. View(o) = db /\ View(o)' = work /\ task'[o] = task[o] /\ o \in Others(s)
      BY <1>1, <2>2 DEF View, Others
    <3>2. CASE Sound(task[o], db, disturbed)
      <4>1. AboutOf(task[o]) \subseteq disturbed'
        BY <1>1, <3>1, AllMet
      <4>2. disturbed \subseteq disturbed'
        BY <1>1
      <4>3. Sound(task[o], work, disturbed')
        BY <1>2, <3>2, <4>1, <4>2, SoundElsewhere
      <4> QED
        BY <3>1, <4>3 DEF Handled
    <3>3. ASSUME NEW L \in SUBSET Schema, Sets(task[o], L), o \in late \/ L = db.schemas
          PROVE  Handled(o)'
      <4>1. o \in late' \/ L = work.schemas
        <5>1. CASE work.schemas = db.schemas
          BY <1>1, <3>3, <5>1
        <5>2. CASE work.schemas # db.schemas
          <6>1. PICK c : c = Call("set_list", <<public, none>>, none, L) /\ task[o] = <<c>>
            BY <3>3 DEF Sets
          <6>2. c.op = "set_list"
            <7>1. c = Call("set_list", <<public, none>>, none, L)
              BY <6>1
            <7> QED
              BY <7>1 DEF Call
          <6>3. c \in Range(task[o])
            BY <6>1, List1
          <6> QED
            BY <1>1, <3>1, <5>2, <6>2, <6>3 DEF Late
        <5> QED
          BY <5>1, <5>2
      <4>2. Sets(task'[o], L)
        BY <3>1, <3>3
      <4> QED
        BY <3>1, <4>1, <4>2 DEF Handled
    <3> QED
      BY <1>1, <2>2, <3>1, <3>2, <3>3 DEF SchemasInv, Handled
  <2> QED
    BY <2>1, <2>2
<1>7. Kept(db, disturbed)' /\ Kept(Settled, disturbed)'
  <2>1. Kept(work, disturbed')
    BY <1>1, <1>3 DEF SchemasInv, Kept
  <2> QED
    BY <1>1, <1>3, <2>1
<1>8. Mended'
  <2>1. \A x \in Schema \ disturbed' : Amiss(work, x) => \E o \in Session : Pends(task[o], x)
    BY <1>1, <1>3 DEF SchemasInv, Mended
  <2> QED
    BY <1>1, <1>3, <2>1 DEF Mended
<1>9. ListRight'
  <2>1. listIs = "writer" => schemaList = work.schemas
    BY <1>1, NothingToDo DEF SchemasInv, ListRight
  <2>2. listIs = "committed" => schemaList = db.schemas \/ \E o \in Session \ {NoSession} : Refreshing(task[o])
    BY <1>1 DEF SchemasInv, ListRight
  <2>3. listIs' = "committed" => listIs = "writer" \/ (listIs = "committed" /\ work.schemas = db.schemas)
    BY <1>1 DEF ListAfter
  <2> QED
    BY <1>1, <1>4, <2>1, <2>2, <2>3 DEF ListRight
<1> QED
  BY <1>5, <1>6, <1>7, <1>8, <1>9 DEF SchemasInv

\* ROLLBACK, and the end of a connection, keep them: the list it leaves tells of nobody, if the schemas were changed.
LEMMA RollbackKeeps ==
  ASSUME SchemasInv, NEW s \in Session, RollsBack(s), searchPath' \in [Session -> Seq(Schema)]
  PROVE  SchemasInv'
<1>1. /\ task[s] = <<>> /\ writer = s /\ writer' = NoSession /\ work' = db
      /\ UNCHANGED <<db, schemaList, task, saved, asked, late>>
      /\ listIs' = ListAfter(s, FALSE)
      /\ disturbed \subseteq disturbed' /\ NoSession \notin Session
  BY ConnectionsAssumption DEF RollsBack, RollbackTx
<1>2. ~Within /\ ~Within' /\ db \in SchemaVersion /\ work \in SchemaVersion
  BY <1>1, NothingToDo DEF Within, SchemasInv, SchemasTyped
<1>3. Settled = work /\ Settled' = db
  BY <1>1, <1>2 DEF Settled
<1>4. listIs' \in {"committed", "nobody"}
  BY <1>1 DEF ListAfter, SchemasInv, SchemasTyped
<1>5. SchemasTyped' /\ OneVersion'
  BY <1>1, <1>2, <1>4 DEF SchemasInv, SchemasTyped, OneVersion
<1>6. \A o \in Session : Handled(o)'
  <2>1. Handled(s)'
    BY <1>1, SoundNil DEF Handled
  <2>2. ASSUME NEW o \in Session, o # s PROVE Handled(o)'
    <3>1. View(o) = db /\ View(o)' = db /\ task'[o] = task[o]
      BY <1>1, <2>2 DEF View
    <3>2. CASE Sound(task[o], db, disturbed)
      <4>1. \A x : Same(db, db, x)
        BY DEF Same
      <4>2. Sound(task[o], db, disturbed')
        BY <1>1, <1>2, <3>2, <4>1, SoundElsewhere
      <4> QED
        BY <3>1, <4>2 DEF Handled
    <3> QED
      BY <1>1, <2>2, <3>1, <3>2 DEF SchemasInv, Handled
  <2> QED
    BY <2>1, <2>2
<1>7. Kept(db, disturbed)' /\ Kept(Settled, disturbed)'
  <2>1. Kept(db, disturbed')
    BY <1>1 DEF SchemasInv, Kept
  <2> QED
    BY <1>1, <1>3, <2>1
<1>8. Mended'
  BY <1>1, <1>3 DEF SchemasInv, Mended
<1>9. ListRight'
  <2>1. listIs = "writer" => schemaList = work.schemas
    BY <1>1, NothingToDo DEF SchemasInv, ListRight
  <2>2. listIs = "committed" => schemaList = db.schemas \/ \E o \in Session \ {NoSession} : Refreshing(task[o])
    BY <1>1 DEF SchemasInv, ListRight
  <2>3. listIs' = "committed" => listIs = "committed" \/ (listIs = "writer" /\ work.schemas = db.schemas)
    BY <1>1 DEF ListAfter, SchemasInv, SchemasTyped
  <2> QED
    BY <1>1, <1>4, <2>1, <2>2, <2>3 DEF ListRight
<1> QED
  BY <1>5, <1>6, <1>7, <1>8, <1>9 DEF SchemasInv

-----------------------------------------------------------------------------
(* The rebuild of a table.                                                 *)

\* A rebuild that has begun is known by its next call.
LEMMA RebuildAt ==
  ASSUME SchemasInv, NEW s \in Session, Begun(task[s])
  PROVE  /\ writer = s /\ Under(task[s], saved.v, work, disturbed) /\ Within
         /\ Settled = saved.v /\ saved.v \in SchemaVersion /\ Kept(saved.v, disturbed)
<1>1. ~Sound(task[s], View(s), disturbed)
  BY SoundNotBegun
<1>2. \A L : ~Sets(task[s], L)
  BY SetsIs DEF Begun
<1>3. writer = s /\ Under(task[s], saved.v, work, disturbed)
  BY <1>1, <1>2 DEF SchemasInv, Handled
<1>4. Within
  BY <1>3, ConnectionsAssumption DEF Within
<1> QED
  BY <1>3, <1>4 DEF SchemasInv, SchemasTyped, Settled

\* How far a rebuild has come, by its next call.
LEMMA UnderForm ==
  ASSUME NEW q, NEW u, NEW w, NEW D, Under(q, u, w, D)
  PROVE  \E r \in Ref, ddl, aux, this \in SUBSET Nat :
           /\ Rebuilds(u, D, r, ddl, aux, this)
           /\ w \in SchemaVersion /\ w.schemas = u.schemas /\ w.due = u.due
           /\ \/ Head(q).op = "copy" /\ Copying(q, u, w, r, ddl, aux, this)
              \/ Head(q).op = "drop" /\ Filled(q, u, w, r, ddl, aux, this)
              \/ Head(q).op = "rename" /\ Dropped(q, u, w, r, ddl, aux, this)
              \/ Head(q).op = "index" /\ Renamed(q, u, w, r, ddl, aux, this)
              \/ Head(q).op = "release" /\ Finished(q, u, w, r, ddl, aux, this)
           /\ Head(q).ref = r /\ Last(q) = OfTable("release", r, this)
<1>1. PICK r \in Ref, ddl \in SUBSET Nat, aux \in SUBSET Nat, this \in SUBSET Nat :
           /\ Rebuilds(u, D, r, ddl, aux, this)
           /\ w \in SchemaVersion /\ w.schemas = u.schemas /\ w.due = u.due
           /\ \/ Copying(q, u, w, r, ddl, aux, this)
              \/ Filled(q, u, w, r, ddl, aux, this)
              \/ Dropped(q, u, w, r, ddl, aux, this)
              \/ Renamed(q, u, w, r, ddl, aux, this)
              \/ Finished(q, u, w, r, ddl, aux, this)
  BY DEF Under
<1> DEFINE Next2(op, arg) == Head(q) = OfTable(op, r, arg) /\ Last(q) = OfTable("release", r, this)
           At(op) == Head(q).op = op /\ Head(q).ref = r /\ Last(q) = OfTable("release", r, this)
<1>2. ASSUME NEW op, NEW arg, Next2(op, arg) PROVE At(op)
  BY <1>2, TableFields
<1>3. Copying(q, u, w, r, ddl, aux, this) => Next2("copy", {})
  BY Rebuild2Is DEF Copying
<1>4. Filled(q, u, w, r, ddl, aux, this) => Next2("drop", {})
  BY Rebuild3Is DEF Filled
<1>5. Dropped(q, u, w, r, ddl, aux, this) => Next2("rename", {})
  BY Rebuild4Is DEF Dropped
<1>6. Renamed(q, u, w, r, ddl, aux, this) => Next2("index", aux)
  BY Rebuild5Is DEF Renamed
<1>7. Finished(q, u, w, r, ddl, aux, this) => Next2("release", this)
  BY Rebuild6Is DEF Finished
<1> HIDE DEF Next2
<1>8. /\ Copying(q, u, w, r, ddl, aux, this) => At("copy")
      /\ Filled(q, u, w, r, ddl, aux, this) => At("drop")
      /\ Dropped(q, u, w, r, ddl, aux, this) => At("rename")
      /\ Renamed(q, u, w, r, ddl, aux, this) => At("index")
      /\ Finished(q, u, w, r, ddl, aux, this) => At("release")
  BY <1>2, <1>3, <1>4, <1>5, <1>6, <1>7
<1> QED
  BY <1>1, <1>8

\* The temporary table is no other.
LEMMA TmpApart == tmp \notin Ref
BY SchemasAssumption DEF tmp, Ref

\* The tables after each step.
LEMMA CopiedTables ==
  ASSUME NEW T, NEW r \in Ref, r \in DOMAIN T, NEW ddl,
         NEW a, a = [ddl |-> ddl, rows |-> {}, aux |-> {}],
         NEW W, W = With(T, tmp, a), NEW b, b = [ddl |-> ddl, rows |-> T[r].rows, aux |-> {}]
  PROVE  [W EXCEPT ![tmp].rows = W[r].rows] = With(T, tmp, b)
<1>1. W[r] = T[r] /\ W[tmp] = a
  BY TmpApart DEF With
<1>2. [W EXCEPT ![tmp].rows = W[r].rows] = [W EXCEPT ![tmp] = b]
  <2>1. [a EXCEPT !.rows = T[r].rows] = b
    OBVIOUS
  <2>2. [W[tmp] EXCEPT !.rows = W[r].rows] = b
    BY <1>1, <2>1
  <2> QED
    BY <2>2
<1>3. [W EXCEPT ![tmp] = b] = With(T, tmp, b)
  BY DEF With
<1> QED
  BY <1>2, <1>3

\* Under its name, the new table is in the place of the old.
LEMMA RenamedTables ==
  ASSUME NEW T, NEW r \in Ref, r \in DOMAIN T, tmp \notin DOMAIN T, NEW b,
         NEW A, A = With(T, tmp, b), NEW W, W = Without(A, r)
  PROVE  Moved(W, tmp, r) = With(T, r, b)
<1>1. DOMAIN A = DOMAIN T \cup {tmp} /\ A[tmp] = b /\ \A x \in DOMAIN T : A[x] = T[x]
  BY DEF With
<1>2. DOMAIN W = (DOMAIN T \cup {tmp}) \ {r} /\ W[tmp] = b /\ \A x \in DOMAIN T : x # r => W[x] = T[x]
  BY <1>1, TmpApart DEF Without
<1>3. PICK B : B = Without(W, tmp)
  OBVIOUS
<1>4. DOMAIN B = DOMAIN T \ {r} /\ \A x \in DOMAIN T : x # r => B[x] = T[x]
  BY <1>2, <1>3 DEF Without
<1>5. With(B, r, b) = With(T, r, b)
  BY <1>4 DEF With
<1> QED
  BY <1>2, <1>3, <1>5 DEF Moved

\* With its indexes, it is what it was but for the definition.
IndexesIn(W, r, aux) == [W EXCEPT ![r].aux = aux]

LEMMA IndexedTables ==
  ASSUME NEW u, NEW r \in DOMAIN u.tables, NEW ddl, NEW aux,
         NEW W, W = With(u.tables, r, Copied(u, r, ddl)), NEW T, T = IndexesIn(W, r, aux)
  PROVE  T = With(u.tables, r, Indexed(u, r, ddl, aux))
<1>1. PICK a, b : a = Copied(u, r, ddl) /\ b = Indexed(u, r, ddl, aux)
  OBVIOUS
<1>2. W[r] = a /\ DOMAIN W = DOMAIN u.tables /\ r \in DOMAIN W
  BY <1>1 DEF With
<1>3. [a EXCEPT !.aux = aux] = b
  BY <1>1 DEF Copied, Indexed
<1>4. T = [W EXCEPT ![r] = b]
  BY <1>2, <1>3 DEF IndexesIn
<1>5. [W EXCEPT ![r] = b] = With(u.tables, r, b)
  BY <1>1 DEF With
<1> QED
  BY <1>1, <1>4, <1>5

\* The versions that the steps of a rebuild make, from their parts.
LEMMA MadeTemporary ==
  ASSUME NEW s, NEW c, c.op = "create", NEW v \in SchemaVersion, v = View(s),
         NEW ddl, ddl = c.arg, NEW T, T = With(v.tables, tmp, [ddl |-> ddl, rows |-> {}, aux |-> {}])
  PROVE  Written(s, c) = Version(v.schemas, T, v.due)
<1>1. [Empty EXCEPT !.ddl = ddl] = [ddl |-> ddl, rows |-> {}, aux |-> {}]
  BY DEF Empty
<1> QED
  BY <1>1 DEF Written, Version, SchemaVersion

\* The rows are copied.
LEMMA RowsCopied ==
  ASSUME NEW s, NEW c, c.op = "copy", NEW v \in SchemaVersion, v = View(s),
         NEW r, r = c.ref, NEW T, T = [v.tables EXCEPT ![tmp].rows = v.tables[r].rows]
  PROVE  Written(s, c) = Version(v.schemas, T, v.due)
BY DEF Written, Version, SchemaVersion

\* The old table is dropped.
LEMMA OldDropped ==
  ASSUME NEW s, NEW c, c.op = "drop", NEW v \in SchemaVersion, v = View(s),
         NEW r, r = c.ref, NEW T, T = Without(v.tables, r)
  PROVE  Written(s, c) = Version(v.schemas, T, v.due)
BY DEF Written, Version, SchemaVersion

\* The new one takes its name.
LEMMA NewRenamed ==
  ASSUME NEW s, NEW c, c.op = "rename", NEW v \in SchemaVersion, v = View(s),
         NEW r, r = c.ref, NEW T, T = Moved(v.tables, tmp, r)
  PROVE  Written(s, c) = Version(v.schemas, T, v.due)
BY DEF Written, Version, SchemaVersion

\* Its indexes are made.
LEMMA IndexesMade ==
  ASSUME NEW s, NEW c, c.op = "index", NEW v \in SchemaVersion, v = View(s),
         NEW r, r = c.ref, NEW T, T = [v.tables EXCEPT ![r].aux = c.arg]
  PROVE  Written(s, c) = Version(v.schemas, T, v.due)
BY DEF Written, Version, SchemaVersion

\* The change is acknowledged.
LEMMA Acknowledged ==
  ASSUME NEW s, NEW c, c.op = "release", NEW v \in SchemaVersion, v = View(s),
         NEW r, r = c.ref, NEW b, b = [v.due[r] EXCEPT !.ddl = @ \cup c.arg],
         NEW U, U = [v.due EXCEPT ![r] = b]
  PROVE  Written(s, c) = Version(v.schemas, v.tables, U)
BY DEF Written, Version, SchemaVersion

\* A rebuild begins.
LEMMA RebuildBegins ==
  ASSUME NEW s, NEW q, q # <<>>, NEW c, c = Head(q), NEW v \in SchemaVersion, v = View(s),
         NEW D, Sound(q, v, D), c.op = "create"
  PROVE  Under(Tail(q), v, Written(s, c), D)
<1>1. Form(c.op, q, v, D)
  BY SoundForms
<1>2. PICK r \in Ref, ddl \in SUBSET Nat, aux \in SUBSET Nat, this \in SUBSET Nat :
           q = rebuildTableCopying(r, ddl, aux, this) /\ Rebuilds(v, D, r, ddl, aux, this)
  BY <1>1 DEF Form
<1>3. c = OfTable("create", r, ddl) /\ Tail(q) = Rebuild2(r, aux, this)
  BY <1>2, Rebuild1Is
<1>4. c.arg = ddl
  BY <1>3, TableFields
<1>5. PICK a : a = [ddl |-> ddl, rows |-> {}, aux |-> {}]
  OBVIOUS
<1>6. PICK T : T = With(v.tables, tmp, a)
  OBVIOUS
<1>7. Written(s, c) = Version(v.schemas, T, v.due)
  BY <1>4, <1>5, <1>6, MadeTemporary
<1>8. PICK w : w = Version(v.schemas, T, v.due)
  OBVIOUS
<1>9. /\ v.schemas \in SUBSET Schema /\ v.tables \in Keyed(Ref \cup {tmp}, Content)
      /\ v.due \in Keyed(Ref, Due)
  BY VersionParts
<1>10. a \in Content
  BY <1>5 DEF Content
<1>11. T \in Keyed(Ref \cup {tmp}, Content)
  BY <1>6, <1>9, <1>10, WithTyped
<1>12. w \in SchemaVersion
  BY <1>8, <1>9, <1>11, MadeTyped
<1>13. w.schemas = v.schemas /\ w.tables = T /\ w.due = v.due
  BY <1>8, MadeOf
<1>14. Under(Tail(q), v, w, D)
  <2>1. Copying(Tail(q), v, w, r, ddl, aux, this)
    BY <1>2, <1>3, <1>5, <1>6, <1>12, <1>13 DEF Copying
  <2> QED
    BY <1>2, <1>3, <1>5, <1>6, <1>12, <1>13, <2>1 DEF Under
<1> QED
  BY <1>7, <1>8, <1>14

\* The rows are copied.
LEMMA RebuildCopies ==
  ASSUME NEW s, NEW q, q # <<>>, NEW c, c = Head(q), NEW w, w = View(s), NEW u \in SchemaVersion,
         NEW D, Under(q, u, w, D), c.op = "copy", ~Refused(s, c)
  PROVE  Under(Tail(q), u, Written(s, c), D)
<1>1. PICK r \in Ref, ddl \in SUBSET Nat, aux \in SUBSET Nat, this \in SUBSET Nat :
           /\ Rebuilds(u, D, r, ddl, aux, this)
           /\ w \in SchemaVersion /\ w.schemas = u.schemas /\ w.due = u.due
           /\ Copying(q, u, w, r, ddl, aux, this)
  BY UnderForm
<1>2. c = OfTable("copy", r, {}) /\ Tail(q) = Rebuild3(r, aux, this)
  BY <1>1, Rebuild2Is DEF Copying
<1>3. c.ref = r
  BY <1>2, TableFields
<1>4. PICK a : a = [ddl |-> ddl, rows |-> {}, aux |-> {}]
  OBVIOUS
<1>5. w.tables = With(u.tables, tmp, a)
  BY <1>1, <1>4 DEF Copying
<1>6. \A t \in DOMAIN w.tables : t = tmp \/ t \in DOMAIN u.tables
  BY <1>5, WithFrom
<1>7. r \in DOMAIN w.tables
  BY <1>3 DEF Refused
<1>8. r \in DOMAIN u.tables
  BY <1>6, <1>7, TmpApart
<1>9. PICK b : b = [ddl |-> ddl, rows |-> u.tables[r].rows, aux |-> {}]
  OBVIOUS
<1>10. PICK T : T = [w.tables EXCEPT ![tmp].rows = w.tables[r].rows]
  OBVIOUS
<1>11. T = With(u.tables, tmp, b)
  BY <1>4, <1>5, <1>8, <1>9, <1>10, CopiedTables
<1>12. Written(s, c) = Version(w.schemas, T, w.due)
  BY <1>1, <1>3, <1>10, RowsCopied
<1>13. PICK x : x = Version(w.schemas, T, w.due)
  OBVIOUS
<1>14. /\ u.schemas \in SUBSET Schema /\ u.tables \in Keyed(Ref \cup {tmp}, Content)
       /\ u.due \in Keyed(Ref, Due)
  BY VersionParts
<1>15. b \in Content
  <2>1. u.tables[r] \in Content
    BY <1>8, <1>14, RowTyped
  <2> QED
    BY <1>9, <2>1 DEF Content
<1>16. T \in Keyed(Ref \cup {tmp}, Content)
  BY <1>11, <1>14, <1>15, WithTyped
<1>17. x \in SchemaVersion
  BY <1>1, <1>13, <1>14, <1>16, MadeTyped
<1>18. x.schemas = u.schemas /\ x.tables = T /\ x.due = u.due
  BY <1>1, <1>13, MadeOf
<1>19. b = Copied(u, r, ddl)
  BY <1>9 DEF Copied, Indexed
<1>20. Under(Tail(q), u, x, D)
  <2>1. Filled(Tail(q), u, x, r, ddl, aux, this)
    BY <1>1, <1>2, <1>8, <1>11, <1>17, <1>18, <1>19 DEF Filled
  <2> QED
    BY <1>1, <1>2, <1>8, <1>11, <1>17, <1>18, <1>19, <2>1 DEF Under
<1> QED
  BY <1>12, <1>13, <1>20

\* The old table is dropped.
LEMMA RebuildDrops ==
  ASSUME NEW s, NEW q, q # <<>>, NEW c, c = Head(q), NEW w, w = View(s), NEW u \in SchemaVersion,
         NEW D, Under(q, u, w, D), c.op = "drop"
  PROVE  Under(Tail(q), u, Written(s, c), D)
<1>1. PICK r \in Ref, ddl \in SUBSET Nat, aux \in SUBSET Nat, this \in SUBSET Nat :
           /\ Rebuilds(u, D, r, ddl, aux, this)
           /\ w \in SchemaVersion /\ w.schemas = u.schemas /\ w.due = u.due
           /\ Filled(q, u, w, r, ddl, aux, this)
  BY UnderForm
<1>2. c = OfTable("drop", r, {}) /\ Tail(q) = Rebuild4(r, aux, this)
  BY <1>1, Rebuild3Is DEF Filled
<1>3. c.ref = r
  BY <1>2, TableFields
<1>4. w.tables = With(u.tables, tmp, Copied(u, r, ddl)) /\ r \in DOMAIN u.tables
  BY <1>1 DEF Filled
<1>5. PICK T : T = Without(w.tables, r)
  OBVIOUS
<1>6. Written(s, c) = Version(w.schemas, T, w.due)
  BY <1>1, <1>3, <1>5, OldDropped
<1>7. PICK x : x = Version(w.schemas, T, w.due)
  OBVIOUS
<1>8. /\ w.schemas \in SUBSET Schema /\ w.tables \in Keyed(Ref \cup {tmp}, Content)
      /\ w.due \in Keyed(Ref, Due)
  BY <1>1, VersionParts
<1>9. T \in Keyed(Ref \cup {tmp}, Content)
  BY <1>5, <1>8, WithoutTyped
<1>10. x \in SchemaVersion
  BY <1>7, <1>8, <1>9, MadeTyped
<1>11. x.schemas = u.schemas /\ x.tables = T /\ x.due = u.due
  BY <1>1, <1>7, MadeOf
<1>12. Under(Tail(q), u, x, D)
  <2>1. Dropped(Tail(q), u, x, r, ddl, aux, this)
    BY <1>1, <1>2, <1>4, <1>5, <1>10, <1>11 DEF Dropped
  <2> QED
    BY <1>1, <1>2, <1>4, <1>5, <1>10, <1>11, <2>1 DEF Under
<1> QED
  BY <1>6, <1>7, <1>12

\* The new one takes its name.
LEMMA RebuildRenames ==
  ASSUME NEW s, NEW q, q # <<>>, NEW c, c = Head(q), NEW w, w = View(s), NEW u \in SchemaVersion,
         NEW D, Under(q, u, w, D), Kept(u, D), c.op = "rename"
  PROVE  Under(Tail(q), u, Written(s, c), D)
<1>1. PICK r \in Ref, ddl \in SUBSET Nat, aux \in SUBSET Nat, this \in SUBSET Nat :
           /\ Rebuilds(u, D, r, ddl, aux, this)
           /\ w \in SchemaVersion /\ w.schemas = u.schemas /\ w.due = u.due
           /\ Dropped(q, u, w, r, ddl, aux, this)
  BY UnderForm
<1>2. c = OfTable("rename", r, {}) /\ Tail(q) = Rebuild5(r, aux, this)
  BY <1>1, Rebuild4Is DEF Dropped
<1>3. c.ref = r
  BY <1>2, TableFields
<1>4. PICK b : b = Copied(u, r, ddl)
  OBVIOUS
<1>5. r \in DOMAIN u.tables /\ tmp \notin DOMAIN u.tables
  BY <1>1 DEF Dropped, Kept
<1>6. PICK A : A = With(u.tables, tmp, b)
  OBVIOUS
<1>7. w.tables = Without(A, r)
  BY <1>1, <1>4, <1>6 DEF Dropped
<1>8. PICK T : T = Moved(w.tables, tmp, r)
  OBVIOUS
<1>9. T = With(u.tables, r, b)
  BY <1>5, <1>6, <1>7, <1>8, RenamedTables
<1>10. Written(s, c) = Version(w.schemas, T, w.due)
  BY <1>1, <1>3, <1>8, NewRenamed
<1>11. PICK x : x = Version(w.schemas, T, w.due)
  OBVIOUS
<1>12. /\ u.schemas \in SUBSET Schema /\ u.tables \in Keyed(Ref \cup {tmp}, Content)
       /\ u.due \in Keyed(Ref, Due)
  BY VersionParts
<1>13. b \in Content
  <2>1. u.tables[r] \in Content
    BY <1>5, <1>12, RowTyped
  <2> QED
    BY <1>4, <2>1 DEF Content, Copied, Indexed
<1>14. T \in Keyed(Ref \cup {tmp}, Content)
  BY <1>9, <1>12, <1>13, WithTyped
<1>15. x \in SchemaVersion
  BY <1>1, <1>11, <1>12, <1>14, MadeTyped
<1>16. x.schemas = u.schemas /\ x.tables = T /\ x.due = u.due
  BY <1>1, <1>11, MadeOf
<1>17. Under(Tail(q), u, x, D)
  <2>1. Renamed(Tail(q), u, x, r, ddl, aux, this)
    BY <1>1, <1>2, <1>4, <1>5, <1>9, <1>15, <1>16 DEF Renamed
  <2> QED
    BY <1>1, <1>2, <1>4, <1>5, <1>9, <1>15, <1>16, <2>1 DEF Under
<1> QED
  BY <1>10, <1>11, <1>17

\* Its indexes and triggers are made.
LEMMA RebuildIndexes ==
  ASSUME NEW s, NEW q, q # <<>>, NEW c, c = Head(q), NEW w, w = View(s), NEW u \in SchemaVersion,
         NEW D, Under(q, u, w, D), c.op = "index"
  PROVE  Under(Tail(q), u, Written(s, c), D)
<1>1. PICK r \in Ref, ddl \in SUBSET Nat, aux \in SUBSET Nat, this \in SUBSET Nat :
           /\ Rebuilds(u, D, r, ddl, aux, this)
           /\ w \in SchemaVersion /\ w.schemas = u.schemas /\ w.due = u.due
           /\ Renamed(q, u, w, r, ddl, aux, this)
  BY UnderForm
<1>2. c = OfTable("index", r, aux) /\ Tail(q) = Rebuild6(r, this)
  BY <1>1, Rebuild5Is DEF Renamed
<1>3. c.ref = r /\ c.arg = aux
  BY <1>2, TableFields
<1>4. PICK a : a = [ddl |-> ddl, rows |-> u.tables[r].rows, aux |-> {}]
  OBVIOUS
<1>5. w.tables = With(u.tables, r, a) /\ r \in DOMAIN u.tables
  BY <1>1, <1>4 DEF Renamed, Copied, Indexed
<1>6. PICK b : b = [ddl |-> ddl, rows |-> u.tables[r].rows, aux |-> aux]
  OBVIOUS
<1>7. PICK T : T = [w.tables EXCEPT ![r].aux = aux]
  OBVIOUS
<1>8. T = With(u.tables, r, b)
  <2>1. w.tables = With(u.tables, r, Copied(u, r, ddl))
    BY <1>1 DEF Renamed
  <2>3. PICK W : W = w.tables
    OBVIOUS
  <2>4. T = IndexesIn(W, r, aux)
    BY <1>7, <2>3 DEF IndexesIn
  <2>2. T = With(u.tables, r, Indexed(u, r, ddl, aux))
    BY <1>5, <2>1, <2>3, <2>4, IndexedTables
  <2> QED
    BY <1>6, <2>2 DEF Indexed
<1>9. Written(s, c) = Version(w.schemas, T, w.due)
  BY <1>1, <1>3, <1>7, IndexesMade
<1>10. PICK x : x = Version(w.schemas, T, w.due)
  OBVIOUS
<1>11. /\ u.schemas \in SUBSET Schema /\ u.tables \in Keyed(Ref \cup {tmp}, Content)
       /\ u.due \in Keyed(Ref, Due)
  BY VersionParts
<1>12. b \in Content
  <2>1. u.tables[r] \in Content
    BY <1>5, <1>11, RowTyped
  <2> QED
    BY <1>6, <2>1 DEF Content
<1>13. T \in Keyed(Ref \cup {tmp}, Content)
  BY <1>8, <1>11, <1>12, WithTyped
<1>14. x \in SchemaVersion
  BY <1>1, <1>10, <1>11, <1>13, MadeTyped
<1>15. x.schemas = u.schemas /\ x.tables = T /\ x.due = u.due
  BY <1>1, <1>10, MadeOf
<1>16. b = Indexed(u, r, ddl, aux)
  BY <1>6 DEF Indexed
<1>17. Under(Tail(q), u, x, D)
  <2>1. Finished(Tail(q), u, x, r, ddl, aux, this)
    BY <1>1, <1>2, <1>5, <1>8, <1>14, <1>15, <1>16 DEF Finished
  <2> QED
    BY <1>1, <1>2, <1>5, <1>8, <1>14, <1>15, <1>16, <2>1 DEF Under
<1> QED
  BY <1>9, <1>10, <1>17

\* What a rebuild of a table in the schema n has done: w is u with one table changed.
Settles(u, w, E, n) ==
  /\ w \in SchemaVersion /\ w.schemas = u.schemas /\ Kept(w, E)
  /\ DOMAIN w.tables = DOMAIN u.tables
  /\ \A x : x # n => Same(u, w, x)

\* The rebuild is acknowledged.
LEMMA RebuildReleases ==
  ASSUME NEW s, NEW q, q # <<>>, NEW c, c = Head(q), NEW w, w = View(s), NEW u \in SchemaVersion,
         NEW D, NEW E, D \subseteq E, Under(q, u, w, D), Kept(u, D), c.op = "release"
  PROVE  Tail(q) = <<>> /\ Settles(u, Written(s, c), E, c.ref[1])
<1>1. PICK r \in Ref, ddl \in SUBSET Nat, aux \in SUBSET Nat, this \in SUBSET Nat :
           /\ Rebuilds(u, D, r, ddl, aux, this)
           /\ w \in SchemaVersion /\ w.schemas = u.schemas /\ w.due = u.due
           /\ Finished(q, u, w, r, ddl, aux, this)
  BY UnderForm
<1>2. c = OfTable("release", r, this) /\ Tail(q) = <<>>
  BY <1>1, Rebuild6Is DEF Finished
<1>3. c.ref = r
  BY <1>2, TableFields
<1>4. c.arg = this
  BY <1>2, TableFields
<1>5. PICK b : b = [ddl |-> ddl, rows |-> u.tables[r].rows, aux |-> aux]
  OBVIOUS
<1>6. w.tables = With(u.tables, r, b) /\ r \in DOMAIN u.tables
  BY <1>1, <1>5 DEF Finished, Indexed
<1>7. PICK W : W = With(u.tables, r, b)
  OBVIOUS
<1>8. DOMAIN W = DOMAIN u.tables
  BY <1>6, <1>7 DEF With
<1>9. W[r] = b
  BY <1>7, WithHas
<1>10. \A t \in DOMAIN u.tables : t # r => W[t] = u.tables[t]
  BY <1>7, WithRows
<1>11. PICK d : d = [u.due[r] EXCEPT !.ddl = @ \cup this]
  OBVIOUS
<1>12. PICK U : U = [u.due EXCEPT ![r] = d]
  OBVIOUS
<1>13. Written(s, c) = Version(w.schemas, w.tables, U)
  <2>1. d = [w.due[r] EXCEPT !.ddl = @ \cup c.arg]
    BY <1>1, <1>4, <1>11
  <2>2. U = [w.due EXCEPT ![r] = d]
    BY <1>1, <1>12
  <2> QED
    BY <1>1, <1>3, <2>1, <2>2, Acknowledged
<1>14. PICK x : x = Version(w.schemas, w.tables, U)
  OBVIOUS
<1>15. /\ u.schemas \in SUBSET Schema /\ u.tables \in Keyed(Ref \cup {tmp}, Content)
       /\ u.due \in Keyed(Ref, Due)
  BY VersionParts
<1>16. w.tables \in Keyed(Ref \cup {tmp}, Content) /\ w.schemas \in SUBSET Schema
  BY <1>1, VersionParts
<1>17. r \in DOMAIN u.due /\ DOMAIN u.due = DOMAIN u.tables
  BY <1>6 DEF Kept
<1>18. u.due[r] \in Due /\ u.tables[r] \in Content
  BY <1>6, <1>15, <1>17, RowTyped
<1>19. d \in Due
  BY <1>11, <1>18 DEF Due
<1>20. U \in Keyed(Ref, Due)
  BY <1>12, <1>15, <1>17, <1>19, ChangedTyped
<1>21. x \in SchemaVersion
  BY <1>14, <1>16, <1>20, MadeTyped
<1>22. x.schemas = u.schemas /\ x.tables = W /\ x.due = U
  BY <1>1, <1>6, <1>7, <1>14, MadeOf
<1>23. DOMAIN U = DOMAIN u.tables /\ U[r] = d /\ \A t \in DOMAIN u.tables : t # r => U[t] = u.due[t]
  BY <1>12, <1>17
<1>24. r[1] \in E \/ AsDue(b, d)
  <2>1. SUFFICES ASSUME r[1] \notin E PROVE AsDue(b, d)
    OBVIOUS
  <2>2. AsDue(u.tables[r], u.due[r]) /\ r[1] \notin D
    BY <1>6, <2>1 DEF Kept
  <2>3. ddl = u.tables[r].ddl \cup this /\ aux = u.tables[r].aux
    BY <1>1, <1>6, <2>2 DEF Rebuilds, Defines
  <2>4. b.ddl = ddl /\ b.rows = u.tables[r].rows /\ b.aux = aux
    BY <1>5
  <2>5. PICK old \in Due : old = u.due[r]
    BY <1>18
  <2>6. d = [old EXCEPT !.ddl = @ \cup this]
    BY <1>11, <2>5
  <2>7. d.ddl = old.ddl \cup this /\ d.rows = old.rows /\ d.aux = old.aux /\ d.undone = old.undone
    BY <2>6 DEF Due
  <2> QED
    BY <2>2, <2>3, <2>4, <2>5, <2>7 DEF AsDue
<1>25. Kept(x, E)
  BY <1>8, <1>9, <1>10, <1>22, <1>23, <1>24 DEF Kept
<1>26. \A n : n # r[1] => Same(u, x, n)
  BY <1>8, <1>10, <1>22 DEF Same
<1>27. Settles(u, x, E, r[1])
  BY <1>8, <1>21, <1>22, <1>25, <1>26 DEF Settles
<1> QED
  BY <1>2, <1>3, <1>13, <1>14, <1>27

\* A step of a rebuild, when it is not over.
LEMMA RebuildGoesOn ==
  ASSUME SchemasInv, NEW s \in Session, MayWrite(s), NEW q, NEW q2, q = task[s],
         \/ Begun(q) /\ saved' = saved
         \/ ~Begun(q) /\ saved' = [v |-> View(s), own |-> writer # s],
         ~Refreshing(q), \A x : ~Pends(q, x),
         writer' = s, Under(q2, saved'.v, work', disturbed), GoesOn(s, q2),
         UNCHANGED <<db, schemaList, listIs, late, disturbed>>
  PROVE  SchemasInv'
<1>1. /\ task = [o \in Session |-> task[o]] /\ task' = [task EXCEPT ![s] = q2]
      /\ task'[s] = q2 /\ \A o \in Session : o # s => task'[o] = task[o]
      /\ NoSession \notin Session /\ writer \in {s, NoSession} /\ UNCHANGED <<searchPath, asked>>
  BY ConnectionsAssumption DEF SchemasInv, SchemasTyped, GoesOn, MayWrite
<1>2. work' \in SchemaVersion /\ work'.schemas = saved'.v.schemas
  BY DEF Under
<1>3. Begun(q2)
  BY UnderBegun
<1>4. Within' /\ Settled' = saved'.v
  BY <1>1, <1>3 DEF Within, Settled
<1>5. /\ saved'.v = Settled /\ work'.schemas = work.schemas
      /\ saved'.own => saved'.v = db /\ listIs # "writer"
      /\ saved'.v \in SchemaVersion /\ saved' = [v |-> saved'.v, own |-> saved'.own]
      /\ saved'.own \in BOOLEAN
  <2>1. CASE Begun(q)
    <3>1. writer = s /\ Under(q, saved.v, work, disturbed) /\ Within /\ Settled = saved.v
      BY <2>1, RebuildAt
    <3>2. work.schemas = saved.v.schemas
      BY <3>1 DEF Under
    <3>3. saved' = saved
      BY <2>1
    <3>4. saved.own => saved.v = db /\ listIs # "writer"
      BY <3>1 DEF SchemasInv, OneVersion, ListRight
    <3>5. saved.v \in SchemaVersion /\ saved = [v |-> saved.v, own |-> saved.own] /\ saved.own \in BOOLEAN
      BY DEF SchemasInv, SchemasTyped
    <3> QED
      BY <1>2, <3>1, <3>2, <3>3, <3>4, <3>5
  <2>2. CASE ~Begun(q)
    <3>1. View(s) = work /\ Settled = work /\ work \in SchemaVersion
      BY <2>2, WorksOn
    <3>2. saved' = [v |-> work, own |-> writer # s]
      BY <2>2, <3>1
    <3>3. saved'.v = work /\ (saved'.own <=> writer # s) /\ saved'.own \in BOOLEAN
      BY <3>2
    <3>4. writer # s => work = db /\ listIs # "writer"
      BY <1>1 DEF SchemasInv, OneVersion, ListRight
    <3>5. saved' = [v |-> saved'.v, own |-> saved'.own]
      BY <3>2
    <3> QED
      BY <1>2, <3>1, <3>3, <3>4, <3>5
  <2> QED
    BY <2>1, <2>2
<1>6. SchemasTyped' /\ OneVersion'
  <2>1. task' = [o \in Session |-> task'[o]]
    BY <1>1
  <2> QED
    BY <1>1, <1>2, <1>4, <1>5, <2>1 DEF SchemasInv, SchemasTyped, OneVersion
<1>7. \A o \in Session : Handled(o)'
  <2>1. Handled(s)'
    BY <1>1 DEF Handled
  <2>2. ASSUME NEW o \in Session, o # s PROVE Handled(o)'
    <3>1. View(o)' = View(o) /\ writer # o /\ task'[o] = task[o]
      BY <1>1, <2>2 DEF View
    <3> QED
      BY <3>1 DEF SchemasInv, Handled
  <2> QED
    BY <2>1, <2>2
<1>8. Kept(db, disturbed)' /\ Kept(Settled, disturbed)'
  BY <1>4, <1>5 DEF SchemasInv
<1>9. Mended'
  <2>1. ASSUME NEW x, NEW o \in Session, Pends(task[o], x)
        PROVE  o # s /\ Pends(task'[o], x)
    BY <1>1, <2>1
  <2>2. Settled' = Settled
    BY <1>4, <1>5
  <2> QED
    BY <2>1, <2>2 DEF SchemasInv, Mended
<1>10. ListRight'
  <2>1. ASSUME NEW o \in Session, Refreshing(task[o])
        PROVE  o # s /\ Refreshing(task'[o])
    BY <1>1, <2>1
  <2>2. listIs = "committed" => schemaList = db.schemas \/ \E o \in Session \ {s} : Refreshing(task'[o])
    BY <2>1 DEF SchemasInv, ListRight
  <2>3. listIs = "writer" => writer = s /\ schemaList = work.schemas
    BY <1>1 DEF SchemasInv, ListRight
  <2> QED
    BY <1>1, <1>5, <2>2, <2>3 DEF ListRight
<1> QED
  BY <1>6, <1>7, <1>8, <1>9, <1>10 DEF SchemasInv

\* What a client is told of a change that was not made.
Retold(v, w) ==
  /\ w \in SchemaVersion /\ w.schemas = v.schemas /\ w.tables = v.tables
  /\ \A D : Kept(v, D) => Kept(w, D)

\* It is due, and it is undone.
LEMMA ToldAs ==
  ASSUME NEW v \in SchemaVersion, NEW r, NEW n \in SUBSET Nat
  PROVE  Retold(v, Told(v, r, n))
<1>1. CASE r \in DOMAIN v.due
  <2>1. /\ v.schemas \in SUBSET Schema /\ v.tables \in Keyed(Ref \cup {tmp}, Content)
        /\ v.due \in Keyed(Ref, Due)
    BY VersionParts
  <2>2. v.due[r] \in Due
    BY <1>1, <2>1, RowTyped
  <2>3. PICK b : b = [v.due[r] EXCEPT !.ddl = @ \cup n, !.undone = @ \cup n]
    OBVIOUS
  <2>4. /\ b \in Due /\ b.ddl = v.due[r].ddl \cup n /\ b.rows = v.due[r].rows
        /\ b.aux = v.due[r].aux /\ b.undone = v.due[r].undone \cup n
    BY <2>2, <2>3 DEF Due
  <2>5. PICK U : U = [v.due EXCEPT ![r] = b]
    OBVIOUS
  <2>6. U \in Keyed(Ref, Due)
    BY <1>1, <2>1, <2>4, <2>5, ChangedTyped
  <2>7. Told(v, r, n) = Version(v.schemas, v.tables, U)
    BY <1>1, <2>3, <2>5 DEF Told, Version, SchemaVersion
  <2>8. PICK w : w = Version(v.schemas, v.tables, U)
    OBVIOUS
  <2>9. w \in SchemaVersion
    BY <2>1, <2>6, <2>8, MadeTyped
  <2>10. w.schemas = v.schemas /\ w.tables = v.tables /\ w.due = U
    BY <2>8, MadeOf
  <2>11. DOMAIN U = DOMAIN v.due /\ U[r] = b /\ \A t \in DOMAIN v.due : t # r => U[t] = v.due[t]
    BY <1>1, <2>5
  <2>12. \A x : AsDue(x, v.due[r]) => AsDue(x, b)
    BY <2>4 DEF AsDue
  <2>13. ASSUME NEW D, Kept(v, D) PROVE Kept(w, D)
    BY <2>10, <2>11, <2>12, <2>13 DEF Kept
  <2> QED
    BY <2>7, <2>8, <2>9, <2>10, <2>13 DEF Retold
<1>2. CASE r \notin DOMAIN v.due
  BY <1>2 DEF Told, Retold
<1> QED
  BY <1>1, <1>2

\* A handler relies on the registry and the tables, not on what is due.
LEMMA SoundRetold ==
  ASSUME NEW v \in SchemaVersion, NEW w, Retold(v, w), NEW D, NEW E, D \subseteq E,
         NEW q, Sound(q, v, D)
  PROVE  Sound(q, w, E)
<1>1. w \in SchemaVersion /\ \A x : Same(v, w, x)
  BY DEF Retold, Same
<1> QED
  BY <1>1, SoundElsewhere

\* The last step of a rebuild.
LEMMA RebuildSettles ==
  ASSUME SchemasInv, NEW s \in Session, NEW q, q = task[s], q # <<>>, Head(q).op = "release",
         RebuildStep(s) \/ ReleaseRefused(s)
  PROVE  SchemasInv'
<1>1. PICK c, n : c = Head(q) /\ n = c.ref[1]
  OBVIOUS
<1>3. Begun(q)
  BY DEF Begun
<1>4. /\ writer = s /\ Under(q, saved.v, work, disturbed) /\ Within
      /\ Settled = saved.v /\ saved.v \in SchemaVersion /\ Kept(saved.v, disturbed)
  BY <1>3, RebuildAt
<1>2. /\ saved' = saved /\ work' = Written(s, c) /\ GoesOn(s, Tail(q))
      /\ \/ saved.own /\ writer' = NoSession /\ db' = work'
         \/ ~saved.own /\ writer' = s /\ db' = db
         \/ saved.own /\ writer' = s /\ Retold(db, db')
      /\ disturbed' = disturbed \cup Meets(s, {n})
      /\ UNCHANGED <<schemaList, listIs, late>>
  <2>1. CASE RebuildStep(s)
    BY <1>1, <2>1 DEF RebuildStep
  <2>2. CASE ReleaseRefused(s)
    <3>1. PICK r \in Ref, ddl \in SUBSET Nat, aux \in SUBSET Nat, this \in SUBSET Nat :
            Finished(q, saved.v, work, r, ddl, aux, this)
      BY <1>4, UnderForm
    <3>5. c = OfTable("release", r, this)
      BY <1>1, <3>1, Rebuild6Is DEF Finished
    <3>6. c.arg = this
      BY <3>5, TableFields
    <3>2. c.arg \in SUBSET Nat
      BY <3>6
    <3>3. db \in SchemaVersion
      BY DEF SchemasInv, SchemasTyped
    <3>4. Retold(db, Told(db, c.ref, c.arg))
      BY <3>2, <3>3, ToldAs
    <3> QED
      BY <1>1, <1>4, <2>2, <3>4 DEF ReleaseRefused
  <2> QED
    BY <2>1, <2>2
<1>5. PICK u, w : u = saved.v /\ w = work'
  OBVIOUS
<1>6. Tail(q) = <<>> /\ Settles(u, w, disturbed', n)
  <2>1. View(s) = work
    BY <1>4 DEF View
  <2>2. disturbed \subseteq disturbed'
    BY <1>2
  <2>3. Under(q, u, work, disturbed) /\ Kept(u, disturbed) /\ u \in SchemaVersion
    BY <1>4, <1>5
  <2>4. c.op = "release"
    BY <1>1
  <2> QED
    BY <1>1, <1>2, <1>5, <2>1, <2>2, <2>3, <2>4, RebuildReleases
<1>7. /\ w \in SchemaVersion /\ w.schemas = u.schemas /\ Kept(w, disturbed')
      /\ DOMAIN w.tables = DOMAIN u.tables /\ \A x : x # n => Same(u, w, x)
  BY <1>6 DEF Settles
<1>8. work.schemas = u.schemas
  BY <1>4, <1>5 DEF Under
<1>9. saved.own => u = db
  BY <1>4, <1>5 DEF SchemasInv, OneVersion
<1>10. /\ task = [o \in Session |-> task[o]] /\ task' = [task EXCEPT ![s] = <<>>]
       /\ task'[s] = <<>> /\ \A o \in Session : o # s => task'[o] = task[o]
       /\ NoSession \notin Session /\ UNCHANGED <<searchPath, asked>>
  BY <1>2, <1>6, ConnectionsAssumption DEF SchemasInv, SchemasTyped, GoesOn
<1>11. ~Within' /\ Settled' = w
  BY <1>2, <1>5, <1>10, NothingToDo DEF Within, Settled
<1>12. disturbed \subseteq disturbed' /\ Met(s, {n}, disturbed')
  BY <1>2, MeetsAll
<1>13. SchemasTyped' /\ OneVersion'
  <2>1. task' = [o \in Session |-> task'[o]]
    BY <1>10
  <2> QED
    BY <1>2, <1>5, <1>7, <1>10, <1>11, <2>1 DEF SchemasInv, SchemasTyped, OneVersion, Retold
<1>14. \A x : ~Pends(q, x)
  BY NotPending
<1>15. ~Refreshing(q)
  BY DEF Refreshing
<1>16. \A o \in Session : Handled(o)'
  <2>1. Handled(s)'
    BY <1>10, SoundNil DEF Handled
  <2>2. ASSUME NEW o \in Session, o # s PROVE Handled(o)'
    <3>1. View(o) = db /\ View(o)' = db' /\ task'[o] = task[o] /\ o \in Others(s)
      BY <1>2, <1>4, <1>10, <2>2 DEF View, Others
    <3>2. db \in SchemaVersion /\ db' \in SchemaVersion /\ db'.schemas = db.schemas
      BY <1>2, <1>5, <1>7, <1>9 DEF SchemasInv, SchemasTyped, Retold
    <3>3. CASE Sound(task[o], db, disturbed)
      <4>1. \A x : x # n => Same(db, db', x)
        <5>1. \A x : Same(db, db, x)
          BY DEF Same
        <5>2. Retold(db, db') => \A x : Same(db, db', x)
          BY DEF Retold, Same
        <5> QED
          BY <1>2, <1>5, <1>7, <1>9, <5>1, <5>2
      <4>2. \A x \in AboutOf(task[o]) : x \in disturbed' \/ Same(db, db', x)
        BY <1>12, <3>1, <4>1 DEF Met
      <4>3. Sound(task[o], db', disturbed')
        BY <1>12, <3>2, <3>3, <4>2, SoundElsewhere
      <4> QED
        BY <3>1, <4>3 DEF Handled
    <3>4. ASSUME NEW L \in SUBSET Schema, Sets(task[o], L), o \in late \/ L = db.schemas
          PROVE  Handled(o)'
      <4>1. Sets(task'[o], L) /\ (o \in late' \/ L = db'.schemas)
        BY <1>2, <3>1, <3>2, <3>4
      <4> QED
        BY <3>1, <4>1 DEF Handled
    <3> QED
      BY <1>4, <2>2, <3>1, <3>3, <3>4 DEF SchemasInv, Handled
  <2> QED
    BY <2>1, <2>2
<1>17. Kept(db, disturbed)' /\ Kept(Settled, disturbed)'
  <2>1. Kept(db, disturbed')
    BY <1>12 DEF SchemasInv, Kept
  <2>2. Retold(db, db') => Kept(db', disturbed')
    BY <2>1 DEF Retold
  <2> QED
    BY <1>2, <1>5, <1>7, <1>11, <2>1, <2>2
<1>18. Mended'
  <2>1. ASSUME NEW x, NEW o \in Session, Pends(task[o], x)
        PROVE  o # s /\ Pends(task'[o], x)
    BY <1>10, <1>14, <2>1
  <2>2. \A x : Amiss(w, x) => Amiss(Settled, x)
    BY <1>4, <1>5, <1>7 DEF Amiss
  <2>3. ASSUME NEW x \in Schema \ disturbed', Amiss(w, x)
        PROVE  \E o \in Session \ {s} : Pends(task'[o], x)
    BY <1>12, <2>1, <2>2, <2>3 DEF SchemasInv, Mended
  <2>4. ASSUME NEW x \in Schema \ disturbed', Amiss(db, x)
        PROVE  \E o \in Session \ {s} : Pends(task'[o], x)
    BY <1>12, <2>1, <2>4 DEF SchemasInv, Mended
  <2>5. \A x : Retold(db, db') => (Amiss(db', x) <=> Amiss(db, x))
    BY DEF Retold, Amiss
  <2>6. ASSUME NEW x \in Schema \ disturbed', Amiss(db', x)
        PROVE  \E o \in Session \ {s} : Pends(task'[o], x)
    <3>1. db' = w \/ db' = db \/ Retold(db, db')
      BY <1>2, <1>5
    <3>2. CASE db' = w
      BY <2>3, <2>6, <3>2
    <3>3. CASE db' = db
      BY <2>4, <2>6, <3>3
    <3>4. CASE Retold(db, db')
      BY <2>4, <2>5, <2>6, <3>4
    <3> QED
      BY <3>1, <3>2, <3>3, <3>4
  <2>7. writer' \in {s, NoSession}
    BY <1>2
  <2>8. ASSUME NEW x \in Schema \ disturbed'
        PROVE  /\ Amiss(db', x) => \E o \in Session \ {writer'} : Pends(task'[o], x)
               /\ Amiss(Settled', x) => \E o \in Session : Pends(task'[o], x)
    BY <1>10, <1>11, <2>3, <2>6, <2>7
  <2> QED
    BY <2>8 DEF Mended
<1>19. ListRight'
  <2>1. ASSUME NEW o \in Session, Refreshing(task[o])
        PROVE  o # s /\ Refreshing(task'[o])
    BY <1>10, <1>15, <2>1
  <2>2. listIs = "committed" => schemaList = db.schemas \/ \E o \in Session \ {s} : Refreshing(task'[o])
    BY <1>4, <2>1 DEF SchemasInv, ListRight
  <2>3. db'.schemas = db.schemas
    BY <1>2, <1>5, <1>7, <1>9 DEF Retold
  <2>4. listIs = "writer" => ~saved.own /\ schemaList = work.schemas
    BY <1>4, <1>15 DEF SchemasInv, ListRight
  <2>5. work'.schemas = work.schemas
    BY <1>5, <1>7, <1>8
  <2> QED
    BY <1>2, <1>10, <1>11, <2>2, <2>3, <2>4, <2>5 DEF ListRight
<1> QED
  BY <1>13, <1>16, <1>17, <1>18, <1>19 DEF SchemasInv

\* A step of a rebuild keeps the invariants.
LEMMA RebuildStepKeeps ==
  ASSUME SchemasInv, NEW s \in Session, RebuildStep(s)
  PROVE  SchemasInv'
<1>1. PICK q, c : q = task[s] /\ c = Head(q)
  OBVIOUS
<1>2. /\ q # <<>> /\ c.op \in Rebuild /\ MayWrite(s) /\ ~Refused(s, c)
  BY <1>1 DEF RebuildStep
<1>3. CASE c.op = "release"
  BY <1>1, <1>2, <1>3, RebuildSettles
<1>4. CASE c.op # "release"
  <2>1. /\ saved' = IF c.op = "create" THEN [v |-> View(s), own |-> writer # s] ELSE saved
        /\ work' = Written(s, c) /\ writer' = s /\ GoesOn(s, Tail(q))
        /\ UNCHANGED <<db, schemaList, listIs, late, disturbed>>
    BY <1>1, <1>4 DEF RebuildStep
  <2>2. ~Refreshing(q) /\ \A x : ~Pends(q, x)
    BY <1>1, <1>2, NotPending DEF Refreshing, Rebuild
  <2>3. CASE c.op = "create"
    <3>1. ~Begun(q)
      BY <1>1, <2>3 DEF Begun
    <3>2. \A L : ~Sets(q, L)
      BY <1>1, <2>3, SetsIs
    <3>3. PICK v : v = View(s)
      OBVIOUS
    <3>4. Sound(q, v, disturbed)
      BY <1>1, <3>1, <3>2, <3>3, UnderBegun DEF SchemasInv, Handled
    <3>5. v \in SchemaVersion
      BY <3>3 DEF View, SchemasInv, SchemasTyped
    <3>6. Under(Tail(q), v, Written(s, c), disturbed)
      BY <1>1, <1>2, <2>3, <3>3, <3>4, <3>5, RebuildBegins
    <3>7. saved' = [v |-> View(s), own |-> writer # s] /\ saved'.v = v
      BY <2>1, <2>3, <3>3
    <3>8. Under(Tail(q), saved'.v, work', disturbed)
      BY <2>1, <3>6, <3>7
    <3> QED
      BY <1>1, <1>2, <2>1, <2>2, <3>1, <3>7, <3>8, RebuildGoesOn
  <2>4. CASE c.op \in {"copy", "drop", "rename", "index"}
    <3>1. Begun(q)
      BY <1>1, <1>2, <2>4 DEF Begun
    <3>2. PICK u, w : u = saved.v /\ w = work
      OBVIOUS
    <3>3. writer = s /\ Under(q, u, w, disturbed) /\ u \in SchemaVersion /\ Kept(u, disturbed)
      BY <1>1, <3>1, <3>2, RebuildAt
    <3>4. w = View(s)
      BY <3>2, <3>3 DEF View
    <3>5. Under(Tail(q), u, Written(s, c), disturbed)
      <4>1. CASE c.op = "copy"
        BY <1>1, <1>2, <3>3, <3>4, <4>1, RebuildCopies
      <4>2. CASE c.op = "drop"
        BY <1>1, <1>2, <3>3, <3>4, <4>2, RebuildDrops
      <4>3. CASE c.op = "rename"
        BY <1>1, <1>2, <3>3, <3>4, <4>3, RebuildRenames
      <4>4. CASE c.op = "index"
        BY <1>1, <1>2, <3>3, <3>4, <4>4, RebuildIndexes
      <4> QED
        BY <2>4, <4>1, <4>2, <4>3, <4>4
    <3>6. saved' = saved
      BY <2>1, <2>4
    <3>7. Under(Tail(q), saved'.v, work', disturbed)
      BY <2>1, <3>2, <3>5, <3>6
    <3> QED
      BY <1>1, <1>2, <2>1, <2>2, <3>1, <3>6, <3>7, RebuildGoesOn
  <2> QED
    BY <1>2, <1>4, <2>3, <2>4 DEF Rebuild
<1> QED
  BY <1>3, <1>4

\* The RELEASE that is refused keeps them.
LEMMA ReleaseRefusedKeeps ==
  ASSUME SchemasInv, NEW s \in Session, ReleaseRefused(s)
  PROVE  SchemasInv'
<1>1. PICK q : q = task[s]
  OBVIOUS
<1>2. q # <<>> /\ Head(q).op = "release"
  BY <1>1 DEF ReleaseRefused
<1> QED
  BY <1>1, <1>2, RebuildSettles

\* What is due after it is a matter of what was due.
LEMMA ToldDue ==
  ASSUME NEW v \in SchemaVersion, NEW r, NEW n, NEW d, d = v.due[r]
  PROVE  Told(v, r, n).due =
           IF r \in DOMAIN v.due
           THEN [v.due EXCEPT ![r] = [d EXCEPT !.ddl = @ \cup n, !.undone = @ \cup n]] ELSE v.due
<1>1. CASE r \in DOMAIN v.due
  <2>1. PICK b : b = [d EXCEPT !.ddl = @ \cup n, !.undone = @ \cup n]
    OBVIOUS
  <2>2. PICK U : U = [v.due EXCEPT ![r] = b]
    OBVIOUS
  <2>3. Told(v, r, n) = Version(v.schemas, v.tables, U)
    BY <1>1, <2>1, <2>2 DEF Told, Version, SchemaVersion
  <2>4. Told(v, r, n).due = U
    BY <2>3, MadeOf
  <2> QED
    BY <1>1, <2>1, <2>2, <2>4
<1>2. CASE r \notin DOMAIN v.due
  BY <1>2 DEF Told
<1> QED
  BY <1>1, <1>2

\* So it is the same if the same was due.
LEMMA ToldSame ==
  ASSUME NEW u \in SchemaVersion, NEW w \in SchemaVersion, u.due = w.due, NEW r, NEW n
  PROVE  Told(u, r, n).due = Told(w, r, n).due
<1>1. PICK d : d = u.due[r]
  OBVIOUS
<1>2. PICK U : U = [u.due EXCEPT ![r] = [d EXCEPT !.ddl = @ \cup n, !.undone = @ \cup n]]
  OBVIOUS
<1>3. Told(u, r, n).due = IF r \in DOMAIN u.due THEN U ELSE u.due
  BY <1>1, <1>2, ToldDue
<1>4. Told(w, r, n).due = IF r \in DOMAIN w.due THEN U ELSE w.due
  BY <1>1, <1>2, ToldDue
<1> QED
  BY <1>3, <1>4

\* The client is told, or not.
Tells(b, v, r, n) == IF b THEN Told(v, r, n) ELSE v

LEMMA AnsweredAs ==
  ASSUME NEW b \in BOOLEAN, NEW v \in SchemaVersion, NEW r, NEW n \in SUBSET Nat
  PROVE  Retold(v, Tells(b, v, r, n))
BY ToldAs DEF Tells, Retold

\* A rebuild of another session goes on.
LEMMA UnderAnswered ==
  ASSUME NEW b \in BOOLEAN, NEW u \in SchemaVersion, NEW w \in SchemaVersion, NEW r,
         NEW n \in SUBSET Nat, NEW q, NEW D, Under(q, u, w, D)
  PROVE  Under(q, Tells(b, u, r, n), Tells(b, w, r, n), D)
<1>1. PICK u2, w2 : u2 = Tells(b, u, r, n) /\ w2 = Tells(b, w, r, n)
  OBVIOUS
<1>2. Retold(u, u2) /\ Retold(w, w2)
  BY <1>1, AnsweredAs
<1>3. /\ u2.tables = u.tables /\ u2.schemas = u.schemas
      /\ w2 \in SchemaVersion /\ w2.tables = w.tables /\ w2.schemas = w.schemas
  BY <1>2 DEF Retold
<1>4. u.due = w.due
  BY DEF Under
<1>5. u2.due = w2.due
  <2>1. Told(u, r, n).due = Told(w, r, n).due
    BY <1>4, ToldSame
  <2> QED
    BY <1>1, <1>4, <2>1 DEF Tells
<1>6. \A x, ddl, aux, this : Rebuilds(u, D, x, ddl, aux, this) => Rebuilds(u2, D, x, ddl, aux, this)
  BY <1>3 DEF Rebuilds, Defines
<1>7. \A x, ddl, aux : Indexed(u2, x, ddl, aux) = Indexed(u, x, ddl, aux)
  BY <1>3 DEF Indexed
<1>8. \A x, ddl : Copied(u2, x, ddl) = Copied(u, x, ddl)
  BY <1>7 DEF Copied
<1>9. Under(q, u2, w2, D)
  <2>1. PICK x \in Ref, ddl \in SUBSET Nat, aux \in SUBSET Nat, this \in SUBSET Nat :
          /\ Rebuilds(u, D, x, ddl, aux, this)
          /\ w \in SchemaVersion /\ w.schemas = u.schemas /\ w.due = u.due
          /\ \/ Copying(q, u, w, x, ddl, aux, this)
             \/ Filled(q, u, w, x, ddl, aux, this)
             \/ Dropped(q, u, w, x, ddl, aux, this)
             \/ Renamed(q, u, w, x, ddl, aux, this)
             \/ Finished(q, u, w, x, ddl, aux, this)
    BY DEF Under
  <2>2. Rebuilds(u2, D, x, ddl, aux, this)
    BY <1>6, <2>1
  <2>3. w2.schemas = u2.schemas /\ w2.due = u2.due
    BY <1>3, <1>5, <2>1
  <2>4. \/ Copying(q, u2, w2, x, ddl, aux, this)
        \/ Filled(q, u2, w2, x, ddl, aux, this)
        \/ Dropped(q, u2, w2, x, ddl, aux, this)
        \/ Renamed(q, u2, w2, x, ddl, aux, this)
        \/ Finished(q, u2, w2, x, ddl, aux, this)
    BY <1>3, <1>7, <1>8, <2>1 DEF Copying, Filled, Dropped, Renamed, Finished
  <2> QED
    BY <1>3, <2>2, <2>3, <2>4 DEF Under
<1> QED
  BY <1>1, <1>9

\* What a rebuild is asked for stands in its last call.
LEMMA RebuildAsked ==
  ASSUME SchemasInv, NEW s \in Session, NEW q, q = task[s], q # <<>>, Head(q).op \in Rebuild
  PROVE  \E r \in Ref, this \in SUBSET Nat :
           Head(q).ref = r /\ Last(q) = OfTable("release", r, this)
<1>1. CASE Head(q).op = "create"
  <2>1. ~Begun(q)
    BY <1>1 DEF Begun
  <2>2. \A L : ~Sets(q, L)
    BY <1>1, SetsIs
  <2>3. Sound(q, View(s), disturbed)
    BY <2>1, <2>2, UnderBegun DEF SchemasInv, Handled
  <2>4. Form("create", q, View(s), disturbed)
    BY <1>1, <2>3, SoundForms
  <2>5. PICK r \in Ref, ddl \in SUBSET Nat, aux \in SUBSET Nat, this \in SUBSET Nat :
          q = rebuildTableCopying(r, ddl, aux, this)
    BY <2>4 DEF Form
  <2>6. Last(q) = OfTable("release", r, this) /\ Head(q) = OfTable("create", r, ddl)
    BY <2>5, Rebuild1Is
  <2>7. Head(q).ref = r
    BY <2>6, TableFields
  <2> QED
    BY <2>6, <2>7
<1>2. CASE Head(q).op # "create"
  <2>1. Begun(q)
    BY <1>2 DEF Begun, Rebuild
  <2>2. Under(q, saved.v, work, disturbed)
    BY <2>1, RebuildAt
  <2> QED
    BY <2>2, UnderForm
<1> QED
  BY <1>1, <1>2

\* The rebuild that fails, whose client is told, or not.
FailsAs(s, q, began, b, r, n, q2) ==
  /\ q # <<>> /\ Head(q).op \in Rebuild /\ GoesOn(s, q2)
  /\ work' = Tells(b, IF began THEN saved.v ELSE work, r, n)
  /\ db' = IF writer # s \/ (began /\ saved.own) THEN Tells(b, db, r, n) ELSE db
  /\ saved' = [saved EXCEPT !.v = Tells(b, @, r, n)]
  /\ writer' = IF began /\ saved.own THEN NoSession ELSE writer
  /\ UNCHANGED <<schemaList, listIs, late, disturbed>>

ThenIndex(r, n) == {<<>>, <<OfTable("create_index", r, n)>>}

LEMMA RebuildFailsAs ==
  ASSUME SchemasInv, NEW s \in Session, NEW q, q = task[s], RebuildFails(s),
         NEW began, began = (Head(q).op # "create")
  PROVE  \E b \in BOOLEAN, r \in Ref, n \in SUBSET Nat :
           \E q2 \in ThenIndex(r, n) : FailsAs(s, q, began, b, r, n, q2)
<1>1. q # <<>> /\ Head(q).op \in Rebuild
  BY DEF RebuildFails
<1>2. PICK r \in Ref, n \in SUBSET Nat : Head(q).ref = r /\ Last(q) = OfTable("release", r, n)
  BY <1>1, RebuildAsked
<1>3. Last(q).ref = r /\ Last(q).arg = n
  BY <1>2, TableFields
<1>9. PICK index : index = OfTable("create_index", Head(q).ref, Last(q).arg)
  OBVIOUS
<1>10. index = OfTable("create_index", r, n)
  BY <1>2, <1>3, <1>9
<1>7. UNCHANGED <<schemaList, listIs, late, disturbed>>
  BY DEF RebuildFails
<1>4. ASSUME NEW q2, fail(s, FALSE), GoesOn(s, q2) PROVE FailsAs(s, q, began, FALSE, r, n, q2)
  BY <1>1, <1>4, <1>7 DEF fail, goBack, Tells, FailsAs
<1>5. ASSUME NEW q2, fail(s, TRUE), GoesOn(s, q2) PROVE FailsAs(s, q, began, TRUE, r, n, q2)
  BY <1>1, <1>3, <1>5, <1>7 DEF fail, goBack, Tells, FailsAs
<1>6. \/ fail(s, FALSE) /\ GoesOn(s, <<>>)
      \/ fail(s, TRUE) /\ GoesOn(s, <<>>)
      \/ fail(s, FALSE) /\ GoesOn(s, <<index>>)
  BY <1>9 DEF RebuildFails
<1>8. <<>> \in ThenIndex(r, n) /\ <<index>> \in ThenIndex(r, n)
  BY <1>10 DEF ThenIndex
<1> QED
  BY <1>4, <1>5, <1>6, <1>8

\* Who is told of it when another is in the midst of a rebuild, and when nobody is.
LEMMA OneIsTold ==
  ASSUME SchemasInv, NEW s \in Session, NEW q, q = task[s], q # <<>>, Head(q).op = "create",
         NEW b \in BOOLEAN, NEW r, NEW n \in SUBSET Nat, NEW q2, ~Begun(q2), task' = [task EXCEPT ![s] = q2],
         work' = Tells(b, work, r, n), db' = IF writer # s THEN Tells(b, db, r, n) ELSE db,
         saved' = [saved EXCEPT !.v = Tells(b, @, r, n)], writer' = writer, UNCHANGED disturbed
  PROVE  /\ Within' = Within /\ Retold(Settled, Settled') /\ OneVersion'
         /\ \A o \in Session \ {s} : Under(task[o], saved.v, work, disturbed)
              => Under(task[o], saved'.v, work', disturbed')
<1>1. /\ task = [o \in Session |-> task[o]]
      /\ task'[s] = q2 /\ \A o \in Session : o # s => task'[o] = task[o]
      /\ NoSession \notin Session
  BY ConnectionsAssumption DEF SchemasInv, SchemasTyped
<1>2. ~Begun(q)
  BY DEF Begun
<1>3. Within' <=> Within
  BY <1>1, <1>2 DEF Within, SchemasInv, SchemasTyped
<1>4. saved'.v = Tells(b, saved.v, r, n) /\ saved'.own = saved.own
  BY DEF SchemasInv, SchemasTyped
<1>5. work \in SchemaVersion /\ db \in SchemaVersion /\ saved.v \in SchemaVersion
  BY DEF SchemasInv, SchemasTyped
<1>6. Settled' = Tells(b, Settled, r, n)
  BY <1>3, <1>4 DEF Settled, Within
<1>7. Retold(Settled, Settled')
  BY <1>5, <1>6, AnsweredAs DEF Settled
<1>8. OneVersion'
  <2>1. writer = NoSession => work = db /\ writer # s
    BY <1>1 DEF SchemasInv, OneVersion
  <2>2. Within => writer # s
    BY <1>2 DEF Within
  <2>3. Within /\ saved.own => saved.v = db
    BY DEF SchemasInv, OneVersion
  <2>4. Within' /\ saved'.own => saved'.v = db'
    BY <1>3, <1>4, <2>2, <2>3
  <2>5. writer' = NoSession => work' = db'
    BY <2>1
  <2> QED
    BY <2>4, <2>5 DEF OneVersion
<1>9. ASSUME NEW o \in Session \ {s}, Under(task[o], saved.v, work, disturbed)
      PROVE  Under(task[o], saved'.v, work', disturbed')
  BY <1>4, <1>5, <1>9, UnderAnswered
<1> QED
  BY <1>3, <1>7, <1>8, <1>9

\* A rebuild fails.
LEMMA RebuildFailsKeeps ==
  ASSUME SchemasInv, NEW s \in Session, RebuildFails(s)
  PROVE  SchemasInv'
<1>1. PICK q, began : q = task[s] /\ began = (Head(q).op # "create")
  OBVIOUS
<1>2. PICK b \in BOOLEAN, r \in Ref, n \in SUBSET Nat :
        \E q2 \in ThenIndex(r, n) : FailsAs(s, q, began, b, r, n, q2)
  BY <1>1, RebuildFailsAs
<1>16. PICK q2 \in ThenIndex(r, n) : FailsAs(s, q, began, b, r, n, q2)
  BY <1>2
<1>17. /\ q # <<>> /\ Head(q).op \in Rebuild /\ GoesOn(s, q2)
       /\ work' = Tells(b, IF began THEN saved.v ELSE work, r, n)
       /\ db' = IF writer # s \/ (began /\ saved.own) THEN Tells(b, db, r, n) ELSE db
       /\ saved' = [saved EXCEPT !.v = Tells(b, @, r, n)]
       /\ writer' = IF began /\ saved.own THEN NoSession ELSE writer
       /\ UNCHANGED <<schemaList, listIs, late, disturbed>>
  BY <1>16 DEF FailsAs
<1>3. /\ task = [o \in Session |-> task[o]] /\ task' = [task EXCEPT ![s] = q2]
      /\ task'[s] = q2 /\ \A o \in Session : o # s => task'[o] = task[o]
      /\ NoSession \notin Session /\ UNCHANGED <<searchPath, asked>>
  BY <1>17, ConnectionsAssumption DEF SchemasInv, SchemasTyped, GoesOn
<1>4. ~Refreshing(q) /\ \A x : ~Pends(q, x)
  BY <1>17, NotPending DEF Refreshing, Rebuild
<1>5. \A v, D : Sound(q2, v, D)
  <2>1. \A v, D : q2 # <<>> => OfOne(q2, v, D)
    BY <1>16 DEF OfOne, ThenIndex
  <2> QED
    BY <2>1, SoundNil DEF Sound
<1>6. ~Begun(q2)
  BY <1>5, SoundNotBegun
<1>7. work \in SchemaVersion /\ db \in SchemaVersion /\ saved.v \in SchemaVersion /\ saved.own \in BOOLEAN
  BY DEF SchemasInv, SchemasTyped
<1>8. /\ saved'.v = Tells(b, saved.v, r, n) /\ saved'.own = saved.own
      /\ saved' = [v |-> saved'.v, own |-> saved'.own]
  <2>1. saved = [v |-> saved.v, own |-> saved.own]
    BY DEF SchemasInv, SchemasTyped
  <2> QED
    BY <1>17, <2>1
<1>9. Retold(db, db') /\ Retold(saved.v, saved'.v)
  <2>1. Retold(db, db)
    BY <1>7 DEF Retold
  <2> QED
    BY <1>17, <1>7, <1>8, <2>1, AnsweredAs
<1>10. /\ Retold(Settled, Settled') /\ OneVersion' /\ work' \in SchemaVersion
       /\ work'.schemas = work.schemas
  <2>1. CASE ~began
    <3>1. Retold(work, work')
      BY <1>17, <1>7, <2>1, AnsweredAs
    <3> QED
      BY <1>1, <1>17, <1>3, <1>6, <2>1, <3>1, OneIsTold DEF Retold
  <2>2. CASE began
    <3>1. Begun(q)
      BY <1>1, <1>17, <2>2 DEF Begun, Rebuild
    <3>2. writer = s /\ Under(q, saved.v, work, disturbed) /\ Within /\ Settled = saved.v
      BY <1>1, <3>1, RebuildAt
    <3>3. work.schemas = saved.v.schemas
      BY <3>2 DEF Under
    <3>4. work' = saved'.v
      BY <1>17, <1>8, <2>2
    <3>5. ~Within'
      BY <1>17, <1>3, <1>6, <3>2 DEF Within
    <3>6. Settled' = saved'.v
      BY <3>4, <3>5 DEF Settled
    <3>7. writer' = NoSession => saved.own
      BY <1>17, <1>3, <2>2, <3>2
    <3>8. saved.own => saved.v = db
      BY <3>2 DEF SchemasInv, OneVersion
    <3>9. writer' = NoSession => work' = db'
      BY <1>17, <1>8, <2>2, <3>4, <3>7, <3>8
    <3>10. OneVersion'
      BY <3>5, <3>9 DEF OneVersion
    <3> QED
      BY <1>9, <3>2, <3>3, <3>4, <3>6, <3>10 DEF Retold
  <2> QED
    BY <2>1, <2>2
<1>11. SchemasTyped'
  <2>1. task' = [o \in Session |-> task'[o]]
    BY <1>3
  <2>2. writer' \in Session \cup {NoSession}
    BY <1>17 DEF SchemasInv, SchemasTyped
  <2> QED
    BY <1>17, <1>3, <1>7, <1>8, <1>9, <1>10, <2>1, <2>2 DEF SchemasInv, SchemasTyped, Retold
<1>12. \A o \in Session : Handled(o)'
  <2>1. Handled(s)'
    BY <1>3, <1>5 DEF Handled
  <2>2. ASSUME NEW o \in Session, o # s PROVE Handled(o)'
    <3>1. task'[o] = task[o] /\ (writer' = o <=> writer = o)
      <4>1. began => writer = s
        <5>1. began => Begun(q)
          BY <1>1, <1>17 DEF Begun, Rebuild
        <5> QED
          BY <1>1, <5>1, RebuildAt
      <4> QED
        BY <1>17, <1>3, <2>2, <4>1
    <3>2. Retold(View(o), View(o)')
      <4>1. CASE writer = o
        <5>1. ~began
          <6>1. began => Begun(q)
            BY <1>1, <1>17 DEF Begun, Rebuild
          <6> QED
            BY <1>1, <2>2, <4>1, <6>1, RebuildAt
        <5>2. Retold(work, work')
          BY <1>17, <1>7, <5>1, AnsweredAs
        <5> QED
          BY <3>1, <4>1, <5>2 DEF View
      <4>2. CASE writer # o
        BY <1>9, <3>1, <4>2 DEF View
      <4> QED
        BY <4>1, <4>2
    <3>3. View(o) \in SchemaVersion
      BY <1>7 DEF View
    <3>4. CASE Sound(task[o], View(o), disturbed)
      <4>1. Sound(task[o], View(o)', disturbed')
        BY <1>17, <3>2, <3>3, <3>4, SoundRetold
      <4> QED
        BY <3>1, <4>1 DEF Handled
    <3>5. CASE \E L \in SUBSET Schema : Sets(task[o], L) /\ (o \in late \/ L = View(o).schemas)
      <4>1. View(o)'.schemas = View(o).schemas
        BY <3>2 DEF Retold
      <4> QED
        BY <1>17, <3>1, <3>5, <4>1 DEF Handled
    <3>6. CASE writer = o /\ Under(task[o], saved.v, work, disturbed)
      <4>1. ~began
        <5>1. began => Begun(q)
          BY <1>1, <1>17 DEF Begun, Rebuild
        <5> QED
          BY <1>1, <2>2, <3>6, <5>1, RebuildAt
      <4>2. Under(task[o], saved'.v, work', disturbed')
        BY <1>1, <1>17, <1>3, <1>6, <2>2, <3>6, <4>1, OneIsTold
      <4> QED
        BY <3>1, <3>6, <4>2 DEF Handled
    <3> QED
      BY <3>4, <3>5, <3>6 DEF SchemasInv, Handled
  <2> QED
    BY <2>1, <2>2
<1>13. Kept(db, disturbed)' /\ Kept(Settled, disturbed)'
  BY <1>17, <1>9, <1>10 DEF SchemasInv, Retold
<1>14. Mended'
  <2>1. ASSUME NEW x, NEW o \in Session, Pends(task[o], x)
        PROVE  o # s /\ Pends(task'[o], x)
    BY <1>1, <1>3, <1>4, <2>1
  <2>2. \A x : (Amiss(db', x) => Amiss(db, x)) /\ (Amiss(Settled', x) => Amiss(Settled, x))
    BY <1>9, <1>10 DEF Retold, Amiss
  <2>3. writer' = writer \/ (writer' = NoSession /\ writer = s)
    BY <1>1, <1>17, RebuildAt DEF Begun, Rebuild
  <2> QED
    BY <1>17, <1>3, <2>1, <2>2, <2>3 DEF SchemasInv, Mended
<1>15. ListRight'
  <2>1. ASSUME NEW o \in Session, Refreshing(task[o])
        PROVE  o # s /\ Refreshing(task'[o])
    BY <1>1, <1>3, <1>4, <2>1
  <2>2. db'.schemas = db.schemas
    BY <1>9 DEF Retold
  <2>3. CASE ~began
    <3>1. Within' <=> Within
      BY <1>1, <1>17, <1>3, <1>6, <2>3, OneIsTold
    <3> QED
      BY <1>17, <1>3, <1>8, <1>10, <2>1, <2>2, <2>3, <3>1 DEF SchemasInv, ListRight, SchemasTyped
  <2>4. CASE began
    <3>1. Begun(q)
      BY <1>1, <1>17, <2>4 DEF Begun, Rebuild
    <3>2. writer = s /\ Within
      BY <1>1, <3>1, RebuildAt
    <3>3. ~Within'
      BY <1>17, <1>3, <1>6, <3>2 DEF Within
    <3>4. listIs = "committed" => schemaList = db.schemas \/ \E o \in Session \ {s} : Refreshing(task'[o])
      BY <2>1, <3>2 DEF SchemasInv, ListRight
    <3>5. listIs = "writer" => ~saved.own /\ schemaList = work.schemas
      BY <1>1, <1>4, <3>2 DEF SchemasInv, ListRight
    <3> QED
      BY <1>17, <1>3, <1>10, <2>2, <2>4, <3>2, <3>3, <3>4, <3>5 DEF ListRight
  <2> QED
    BY <2>3, <2>4
<1> QED
  BY <1>10, <1>11, <1>12, <1>13, <1>14, <1>15 DEF SchemasInv

\* A connection ends, with its transaction or without.
LEMMA ClosesKeeps ==
  ASSUME SchemasInv, NEW s \in Session, Closes(s)
  PROVE  SchemasInv'
<1>1. RollsBack(s)
  BY DEF Closes
<1>2. searchPath' \in [Session -> Seq(Schema)]
  BY DEF Closes, SchemasInv, SchemasTyped
<1> QED
  BY <1>1, <1>2, RollbackKeeps

-----------------------------------------------------------------------------
(* The invariants hold.                                                    *)

\* The invariants hold at the start.
LEMMA InitHolds ==
  ASSUME Init
  PROVE  SchemasInv
<1>1. PICK T : T = [r \in {public} \X Existing |-> Empty]
  OBVIOUS
<1>18. PICK U : U = [r \in {public} \X Existing |-> NothingDue]
  OBVIOUS
<1>2. PICK v : v = Version({}, T, U)
  OBVIOUS
<1>3. AtFirst = v
  BY <1>1, <1>2, <1>18 DEF AtFirst, Version
<1>4. v.schemas = {} /\ v.tables = T /\ v.due = U
  BY <1>2, MadeOf
<1>5. /\ DOMAIN T = {public} \X Existing /\ DOMAIN U = DOMAIN T
      /\ {public} \X Existing \subseteq Ref
  BY <1>1, <1>18, SchemasAssumption DEF Ref
<1>6. Empty \in Content /\ NothingDue \in Due
  BY DEF Empty, Content, NothingDue, Due
<1>7. T \in [{public} \X Existing -> Content] /\ U \in [{public} \X Existing -> Due]
  BY <1>1, <1>6, <1>18
<1>8. U \in Keyed(Ref, Due) /\ T \in Keyed(Ref \cup {tmp}, Content)
  BY <1>5, <1>7 DEF Keyed
<1>9. v \in SchemaVersion
  BY <1>2, <1>8, MadeTyped
<1>10. Kept(v, {})
  <2>1. IsFiniteSet({public} \X Existing)
    BY SchemasAssumption, FS_Product, FS_Singleton
  <2>2. tmp \notin DOMAIN T
    BY <1>5, TmpApart
  <2>3. AsDue(Empty, NothingDue)
    BY DEF AsDue, Empty, NothingDue
  <2>4. \A r \in DOMAIN T : AsDue(T[r], U[r])
    BY <1>1, <1>5, <1>18, <2>3
  <2> QED
    BY <1>4, <1>5, <2>1, <2>2, <2>4 DEF Kept
<1>11. /\ db = v /\ work = v /\ writer = NoSession /\ schemaList = {}
       /\ searchPath = [s \in Session |-> <<>>] /\ task = [s \in Session |-> <<>>]
       /\ saved = [v |-> v, own |-> FALSE] /\ asked = 0 /\ listIs = "committed"
       /\ late = {} /\ disturbed = {}
  BY <1>3 DEF Init, VersionsInit
<1>12. \A s \in Session : task[s] = <<>>
  BY <1>11
<1>13. ~Within /\ Settled = v
  BY <1>11 DEF Within, Settled
<1>14. SchemasTyped /\ OneVersion
  <2>1. searchPath \in [Session -> Seq(Schema)]
    BY <1>11
  <2>2. saved.v = v /\ saved = [v |-> saved.v, own |-> saved.own] /\ saved.own \in BOOLEAN
    BY <1>11
  <2> QED
    BY <1>9, <1>11, <1>12, <1>13, <2>1, <2>2 DEF SchemasTyped, OneVersion
<1>15. \A s \in Session : Handled(s)
  BY <1>12, SoundNil DEF Handled
<1>16. Mended
  <2>1. \A x : ~Amiss(v, x)
    BY <1>4, <1>5 DEF Amiss
  <2> QED
    BY <1>11, <1>13, <2>1 DEF Mended
<1>17. ListRight
  BY <1>4, <1>11 DEF ListRight
<1> QED
  BY <1>10, <1>11, <1>13, <1>14, <1>15, <1>16, <1>17 DEF SchemasInv

\* Every step keeps them.
LEMMA StepKeeps ==
  ASSUME SchemasInv, [Next]_vars
  PROVE  SchemasInv'
<1>1. ASSUME NEW s \in Session, SchemaStatement(s) PROVE SchemasInv'
  BY <1>1, SchemaStatementKeeps
<1>2. ASSUME NEW s \in Session, TableStatement(s) PROVE SchemasInv'
  BY <1>2, TableStatementKeeps
<1>3. ASSUME NEW s \in Session, AlterStatement(s) PROVE SchemasInv'
  BY <1>3, AlterStatementKeeps
<1>4. ASSUME NEW s \in Session, PathStatement(s) PROVE SchemasInv'
  BY <1>4, PathStatementKeeps
<1>5. ASSUME NEW s \in Session, Query(s) PROVE SchemasInv'
  BY <1>5, QueryKeeps
<1>6. ASSUME NEW s \in Session, SetSchemas(s) PROVE SchemasInv'
  BY <1>6, SetSchemasKeeps
<1>7. ASSUME NEW s \in Session, Change(s) PROVE SchemasInv'
  BY <1>7, ChangeKeeps
<1>8. ASSUME NEW s \in Session, RebuildStep(s) PROVE SchemasInv'
  BY <1>8, RebuildStepKeeps
<1>9. ASSUME NEW s \in Session, RebuildFails(s) PROVE SchemasInv'
  BY <1>9, RebuildFailsKeeps
<1>10. ASSUME NEW s \in Session, GiveUp(s) PROVE SchemasInv'
  BY <1>10, GiveUpKeeps
<1>11. ASSUME NEW s \in Session, Begin(s) PROVE SchemasInv'
  BY <1>11, BeginKeeps
<1>12. ASSUME NEW s \in Session, Commit(s) PROVE SchemasInv'
  BY <1>12, CommitKeeps
<1>13. ASSUME NEW s \in Session, Rollback(s) PROVE SchemasInv'
  BY <1>13, RollbackKeeps DEF Rollback, SchemasInv, SchemasTyped
<1>15. ASSUME NEW s \in Session, Closes(s) PROVE SchemasInv'
  BY <1>15, ClosesKeeps
<1>16. ASSUME NEW s \in Session, ReadAux(s) PROVE SchemasInv'
  BY <1>16, ReadAuxKeeps
<1>17. ASSUME NEW s \in Session, ReleaseRefused(s) PROVE SchemasInv'
  BY <1>17, ReleaseRefusedKeeps
<1>14. CASE UNCHANGED vars
  BY <1>14 DEF vars, txVars, SchemasInv, SchemasTyped, OneVersion, Mended, ListRight, Handled,
     Settled, Within, View
<1> QED
  BY <1>1, <1>2, <1>3, <1>4, <1>5, <1>6, <1>7, <1>8, <1>9, <1>10, <1>11, <1>12, <1>13, <1>14,
     <1>15, <1>16, <1>17 DEF Next

\* What the handlers rely on, and what becomes of the tables and the list, in
\* every state: for any sessions, schemas, tables and search paths.
THEOREM SchemasInvariant == Spec => []SchemasInv
<1>1. Init => SchemasInv
  BY InitHolds
<1>2. SchemasInv /\ [Next]_vars => SchemasInv'
  BY StepKeeps
<1> QED
  BY <1>1, <1>2, PTL DEF Spec

\* When nothing is under way, nobody pends and nobody is about to read the list.
LEMMA AgreeTells == SchemasInv => SchemasAgree
<1> SUFFICES ASSUME SchemasInv, writer = NoSession, \A s \in Session : task[s] = <<>>
             PROVE  /\ \A r \in DOMAIN db.tables : r[1] \in {public} \cup db.schemas \cup disturbed
                    /\ listIs # "nobody" => schemaList = db.schemas
  BY DEF SchemasAgree
<1>1. \A s \in Session : ~Refreshing(task[s]) /\ \A x : ~Pends(task[s], x)
  BY NothingToDo
<1>2. ASSUME NEW r \in DOMAIN db.tables
      PROVE  r[1] \in {public} \cup db.schemas \cup disturbed
  <2>1. r \in Ref
    BY TablesNamed DEF SchemasInv, SchemasTyped, Kept
  <2>2. r[1] \in Schema
    BY <2>1 DEF Ref
  <2> QED
    BY <1>1, <2>2 DEF SchemasInv, Mended, Amiss
<1>3. listIs # "nobody" => schemaList = db.schemas
  BY <1>1 DEF SchemasInv, SchemasTyped, ListRight
<1> QED
  BY <1>2, <1>3

\* For any sessions, schemas, tables and search paths: between statements, with no
\* transaction open, a table is in a schema that is registered, and the list in
\* memory is the registry (schema.go:215-219, 418-426; searchpath.go:24-41).
THEOREM SchemasDoAgree == Spec => []SchemasAgree
BY SchemasInvariant, AgreeTells, PTL

\* The committed version is kept, whatever a rebuild has made of the other.
LEMMA KeptTells == SchemasInv => RebuildKept
BY DEF SchemasInv, Kept, RebuildKept

\* For any sessions, schemas, tables and ALTERs: no temporary table stays, and a table
\* has every row, index and trigger that was acknowledged, and every acknowledged change
\* of its definition but those whose error was swallowed or whose RELEASE was refused,
\* though rebuilds fail half way (alter.go:46-61, 210-218, 283-341).
THEOREM RebuildsKeep == Spec => []RebuildKept
BY SchemasInvariant, KeptTells, PTL

=============================================================================
