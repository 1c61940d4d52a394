----------------------------- MODULE RowSecurity -----------------------------
(***************************************************************************)
(* Row-level security (protocol/postgres/rls.go).  SQLite has none: before *)
(* a statement runs, its session reads the table's flags, what the role    *)
(* may bypass, and the policies, each with a query of its own, and puts    *)
(* the policies' expressions into the statement.  An INSERT is checked by  *)
(* counting its rows first, an upsert after it ran, inside a savepoint.    *)
(*                                                                         *)
(* A row is what the policies can tell apart; an expression is the set of  *)
(* the rows it is true of.                                                 *)
(***************************************************************************)
EXTENDS Versions, Naturals, FiniteSets

CONSTANTS Row,        \* rows the table may have
          Copy,       \* the row INSERT ... SELECT, or SET, makes of a row
          Policy,     \* policies there may be
          Effective,  \* the role and those it is a member of
          Role,       \* the role
          Starts,     \* bound: versions the file begins with
          Subjects,   \* sessions of the role; the others are superusers'
          Wheres,     \* bound: conditions of statements
          MaxPolicies, MaxChanges, MaxStatements  \* bounds

public == "public"

\* A version: the rows; the table's row of _overlite_rls; the policies; and what
\* the role may do.
TableVersion ==
  [rows : SUBSET Row, flags : SUBSET [enabled : BOOLEAN, forced : BOOLEAN], policies : SUBSET Policy,
   standing : [super : BOOLEAN, bypass : BOOLEAN, owner : BOOLEAN]]

ASSUME RowSecurityAssumption ==
  /\ IsFiniteSet(Row) /\ Copy \in [Row -> Row]
  /\ Starts \subseteq TableVersion /\ Wheres \subseteq SUBSET Row
  /\ \A p \in Policy : /\ p.permissive \in BOOLEAN
                       /\ p.using \subseteq Row /\ p.check \subseteq Row
  /\ Subjects \subseteq Session /\ Role \in Effective
  /\ MaxPolicies \in Nat /\ MaxChanges \in Nat /\ MaxStatements \in Nat

VARIABLES
  stmt,     \* the statement a session runs, and how far it is
  changes,  \* how many changes superusers have made
  ran       \* how many statements have been run

rlsVars == <<txVars, stmt, changes, ran>>

\* What a version says about security.
Security(v) == [flags |-> v.flags, policies |-> v.policies, standing |-> v.standing]
NoFlags == [enabled |-> FALSE, forced |-> FALSE]

\* Ops: what the statement is; rows: those of its condition or of its VALUES; at,
\* phase: how far its handler is; filter, source: the expressions put into it;
\* forced, provided: locals.  Then what it met, read and changed; every state of
\* the table's security while it ran; whether the table was disturbed, and whether
\* one of the handler's own queries failed.
Idle == [op |-> "none", rows |-> {}, at |-> "done", phase |-> "filter", forced |-> FALSE,
         filter |-> {}, source |-> {}, provided |-> 0,
         met |-> {}, read |-> {}, touched |-> {}, seen |-> {},
         disturbed |-> FALSE, lost |-> FALSE]

Listing == {"INSERT VALUES", "INSERT SOME COLUMNS"}
Inserts == Listing \cup {"INSERT SELECT", "UPSERT"}
Filtered == {"SELECT", "UPDATE", "DELETE"}

RlsInit ==
  /\ \E v \in Starts : VersionsInit(v)
  /\ stmt = [s \in Session |-> Idle]
  /\ changes = 0 /\ ran = 0

Over == {"done", "rejected", "failed"}
Running(s) == stmt[s].at \notin Over

\* The others' statements meet the committed version v.  A table that gets
\* another owner is disturbed, and so is one an INSERT ... SELECT reads.
Meet(t, v) ==
  IF t.at \in Over THEN t
  ELSE [t EXCEPT !.seen = @ \cup {Security(v)},
                 !.disturbed = @ \/ v.standing.owner # db.standing.owner
                                 \/ (t.op = "INSERT SELECT" /\ v # db)]

\* s goes on with statement t; it sees what it wrote.
GoesOn(s, t) ==
  stmt' = [x \in Session |-> IF x = s THEN t ELSE IF db' = db THEN stmt[x] ELSE Meet(stmt[x], db')]

Fails(s, at) ==
  /\ Failure(s)
  /\ GoesOn(s, [stmt[s] EXCEPT !.at = at])

-----------------------------------------------------------------------------
(* The expressions.                                                        *)

policyRoleMatch(p) == p.roles = {} \/ p.roles \cap (Effective \cup {public}) # {}

gatherPolicies(v, command) ==
  {p \in v.policies : p.command \in {"ALL", command} /\ policyRoleMatch(p)}

\* WITH CHECK or else USING, and if there is neither, any row.  An expression
\* that was not written is {}.
ExpressionOf(p, forCheck) ==
  IF forCheck /\ p.check # {} THEN p.check ELSE IF p.using # {} THEN p.using ELSE Row

\* Mutant: without a permissive policy, any row.
combineRLSOpen(policies, forCheck) ==
  LET perm == {ExpressionOf(p, forCheck) : p \in {q \in policies : q.permissive}}
      restr == {ExpressionOf(p, forCheck) : p \in {q \in policies : ~q.permissive}}
  IN {r \in Row : (perm = {} \/ \E e \in perm : r \in e) /\ \A e \in restr : r \in e}

combineRLS(policies, forCheck) ==
  LET perm == {ExpressionOf(p, forCheck) : p \in {q \in policies : q.permissive}}
      restr == {ExpressionOf(p, forCheck) : p \in {q \in policies : ~q.permissive}}
  IN {r \in Row : (\E e \in perm : r \in e) /\ \A e \in restr : r \in e}

-----------------------------------------------------------------------------
(* A statement of the role.                                                *)

Ask(s, op, rows) ==
  /\ ~Running(s)
  /\ ~(writer = s /\ failed)
  /\ ran < MaxStatements
  /\ ran' = ran + 1
  /\ stmt' = [stmt EXCEPT ![s] =
                [Idle EXCEPT !.op = op, !.rows = rows, !.at = "flags",
                             !.phase = IF op \in Inserts THEN "check" ELSE "filter",
                             !.filter = Row, !.source = Row, !.seen = {Security(View(s))}]]
  /\ UNCHANGED <<txVars, changes>>

\* rlsFilter or rlsCheckExpr has answered: the role is subject to expression e, or
\* free.  applyRLS looks at the source of an INSERT again.
Answered(t, e, subject) ==
  IF t.phase = "check" /\ ~subject
  THEN IF t.op = "INSERT SELECT" THEN [t EXCEPT !.at = "flags", !.phase = "run source"]
       ELSE [t EXCEPT !.at = "run"]
  ELSE CASE t.phase = "filter" -> [t EXCEPT !.at = "run", !.filter = e]
         [] t.phase = "check" /\ t.op = "INSERT SELECT" ->
              [t EXCEPT !.at = "flags", !.phase = "count source", !.filter = e]
         [] t.phase = "check" /\ t.op = "UPSERT" -> [t EXCEPT !.at = "upsert"]
         [] t.phase = "check" /\ t.op \in Listing -> [t EXCEPT !.at = "provided", !.filter = e]
         [] t.phase = "count source" -> [t EXCEPT !.at = "provided", !.source = e]
         [] OTHER -> [t EXCEPT !.at = "run", !.source = e]

Free(t) == Answered(t, Row, FALSE)

\* A query of the handler: it changes nothing but its own statement.
Query(s, at, t) ==
  /\ stmt[s].at = at
  /\ stmt' = [stmt EXCEPT ![s] = t]
  /\ UNCHANGED <<txVars, changes, ran>>

ReadFlags(s) ==
  LET f == View(s).flags
  IN Query(s, "flags",
           IF \A x \in f : ~x.enabled THEN Free(stmt[s])
           ELSE [stmt[s] EXCEPT !.at = "super", !.forced = \E x \in f : x.forced])

roleBypasses(s) ==
  Query(s, "super", IF View(s).standing.super THEN Free(stmt[s])
                    ELSE [stmt[s] EXCEPT !.at = "bypass"])

NoBypass(t) == [t EXCEPT !.at = IF t.forced THEN "policies" ELSE "owner"]

hasBypassRLS(s) ==
  Query(s, "bypass", IF View(s).standing.bypass THEN Free(stmt[s]) ELSE NoBypass(stmt[s]))

ownsTable(s) ==
  Query(s, "owner", IF View(s).standing.owner THEN Free(stmt[s])
                    ELSE [stmt[s] EXCEPT !.at = "policies"])

\* The command whose policies are asked for.
Command(t) ==
  IF t.phase = "filter" THEN t.op ELSE IF t.phase = "check" THEN "INSERT" ELSE "SELECT"

ReadPolicies(s) ==
  LET c == Command(stmt[s])
  IN Query(s, "policies",
           Answered(stmt[s], combineRLS(gatherPolicies(View(s), c), c = "INSERT"), TRUE))

\* The rows an INSERT takes from the table.
SourceOf(t, v) == IF t.op = "INSERT SELECT" THEN v.rows \cap t.rows \cap t.source ELSE {}
NewRows(t, v) == IF t.op = "INSERT SELECT" THEN {Copy[r] : r \in SourceOf(t, v)} ELSE t.rows

\* How many rows there are, and how many pass; only then the INSERT itself.
CountProvided(s) ==
  Query(s, "provided",
        [stmt[s] EXCEPT !.at = "pass", !.provided = Cardinality(NewRows(stmt[s], View(s)))])

CountPassing(s) ==
  LET t == stmt[s]
      new == NewRows(t, View(s))
      met == [t EXCEPT !.met = new, !.read = SourceOf(t, View(s))]
  IN /\ t.at = "pass"
     \* A policy names a column that is not listed: the count fails, the INSERT runs.
     /\ IF t.op # "INSERT SOME COLUMNS" /\ Cardinality(new \cap t.filter) < t.provided
        THEN /\ Failure(s)
             /\ GoesOn(s, [met EXCEPT !.at = "rejected"])
        ELSE /\ UNCHANGED txVars
             /\ GoesOn(s, IF t.op = "INSERT SELECT"
                          THEN [met EXCEPT !.at = "flags", !.phase = "run source"]
                          ELSE [met EXCEPT !.at = "run"])
     /\ UNCHANGED <<changes, ran>>

\* rlsCheckUpsert: the rows it left must pass the policies for UPDATE.
GatherUpsert(s) ==
  Query(s, "upsert",
        [stmt[s] EXCEPT !.at = "check upsert",
                        !.filter = combineRLS(gatherPolicies(View(s), "UPDATE"), TRUE)])

\* A query of the handler fails: it is interrupted, or the file cannot be read.  A
\* role is not subject then, a count or a savepoint is done without; but no policies
\* let nothing pass, and those of the roles it is a member of may be missing.
QueryFails(s) ==
  LET t == [stmt[s] EXCEPT !.lost = TRUE]
      c == Command(t)
      own == {p \in gatherPolicies(View(s), c) : p.roles = {} \/ p.roles \cap {Role, public} # {}}
      unchecked == IF t.op = "INSERT SELECT" THEN [t EXCEPT !.at = "flags", !.phase = "run source"]
                   ELSE [t EXCEPT !.at = "run"]
  IN \/ \E at \in {"flags", "super"} : Query(s, at, Free(t))
     \/ Query(s, "bypass", NoBypass(t)) \/ Query(s, "owner", [t EXCEPT !.at = "policies"])
     \/ \E P \in {{}, own} : Query(s, "policies", Answered(t, combineRLS(P, c = "INSERT"), TRUE))
     \/ \E at \in {"provided", "pass", "check upsert"} : Query(s, at, unchecked)
     \/ Query(s, "upsert", [t EXCEPT !.at = "check upsert", !.filter = combineRLS({}, TRUE)])

\* The statement itself.
Run(s) ==
  LET t == stmt[s]
      v == View(s)
      met == IF t.op \in Inserts THEN NewRows(t, v) ELSE v.rows \cap t.rows
      hit == IF t.op \in Inserts THEN met ELSE met \cap t.filter
      left == CASE t.op = "SELECT" -> v.rows
                [] t.op = "DELETE" -> v.rows \ hit
                [] t.op = "UPDATE" -> (v.rows \ hit) \cup {Copy[r] : r \in hit}
                [] OTHER -> v.rows \cup hit
      ended == [t EXCEPT !.at = "done", !.met = met, !.touched = hit, !.read = SourceOf(t, v)]
  IN /\ t.at = "run" /\ t.op # "UPSERT"
     /\ IF t.op = "SELECT" THEN UNCHANGED txVars ELSE Write(s, [v EXCEPT !.rows = left])
     /\ GoesOn(s, ended)
     /\ UNCHANGED <<changes, ran>>

\* An upsert adds its rows but those taken, which have the keys of old ones: DO UPDATE
\* rewrites these, whoever may see them.  If it is checked, every row it leaves must
\* pass; else it goes back to its savepoint.
RunUpsert(s) ==
  LET t == stmt[s]
      v == View(s)
  IN /\ t.at \in {"run", "check upsert"} /\ t.op = "UPSERT"
     /\ MayWrite(s)
     /\ \E taken \in SUBSET t.rows : \E old \in [taken -> v.rows] :
          LET added == t.rows \ taken
              met == added \cup {Copy[old[r]] : r \in taken}
              ended == [t EXCEPT !.met = met]
          IN IF t.at = "run" \/ met \subseteq t.filter
             THEN /\ Write(s, [v EXCEPT !.rows = (@ \ {old[r] : r \in taken}) \cup met])
                  /\ GoesOn(s, [ended EXCEPT !.at = "done", !.touched = met])
             ELSE /\ Failure(s)
                  /\ GoesOn(s, [ended EXCEPT !.at = "rejected"])
     /\ UNCHANGED <<changes, ran>>

\* Another session has the write lock.
RunFails(s) ==
  /\ stmt[s].at \in {"run", "check upsert"} /\ stmt[s].op # "SELECT"
  /\ ~MayWrite(s)
  /\ Fails(s, "failed")
  /\ UNCHANGED <<changes, ran>>

-----------------------------------------------------------------------------
(* Superusers.                                                             *)

Change(s, v) ==
  /\ changes < MaxChanges
  /\ changes' = changes + 1
  /\ v # View(s)
  /\ Write(s, v)
  /\ GoesOn(s, stmt[s])
  /\ UNCHANGED ran

\* ALTER TABLE ... ENABLE, DISABLE, FORCE, NO FORCE ROW LEVEL SECURITY: a row of
\* the table's flags, if there is none, and then the flag.
AddFlags(s) == View(s).flags = {} /\ Change(s, [View(s) EXCEPT !.flags = {NoFlags}])
alterTableRLS(s, flag, value) ==
  View(s).flags # {} /\ Change(s, [View(s) EXCEPT !.flags = {[f EXCEPT ![flag] = value] : f \in @}])

createPolicy(s, p) ==
  /\ Cardinality(View(s).policies) < MaxPolicies
  /\ Change(s, [View(s) EXCEPT !.policies = @ \cup {p}])

dropPolicy(s, p) == Change(s, [View(s) EXCEPT !.policies = @ \ {p}])

\* ALTER ROLE, and a table whose owner is recorded anew.
SetStanding(s, what, value) == Change(s, [View(s) EXCEPT !.standing[what] = value])

WriteRows(s, rows) == Change(s, [View(s) EXCEPT !.rows = rows])

-----------------------------------------------------------------------------
Begin(s) ==
  /\ ~Running(s) /\ ran = 0 /\ changes = 0
  /\ BeginTx(s)
  /\ UNCHANGED <<stmt, changes, ran>>

Commit(s) ==
  /\ ~Running(s)
  /\ CommitTx(s)
  /\ GoesOn(s, stmt[s])
  /\ UNCHANGED <<changes, ran>>

Rollback(s) ==
  /\ ~Running(s)
  /\ RollbackTx(s)
  /\ UNCHANGED <<stmt, changes, ran>>

SubjectStep(s) ==
  \/ \E op \in Inserts \cup Filtered, rows \in Wheres : Ask(s, op, rows)
  \/ ReadFlags(s) \/ roleBypasses(s) \/ hasBypassRLS(s) \/ ownsTable(s) \/ ReadPolicies(s)
  \/ CountProvided(s) \/ CountPassing(s) \/ GatherUpsert(s) \/ QueryFails(s)
  \/ Run(s) \/ RunUpsert(s) \/ RunFails(s)

SuperStep(s) ==
  \/ AddFlags(s)
  \/ \E flag \in {"enabled", "forced"}, value \in BOOLEAN : alterTableRLS(s, flag, value)
  \/ \E p \in Policy : createPolicy(s, p) \/ dropPolicy(s, p)
  \/ \E what \in {"super", "bypass", "owner"}, value \in BOOLEAN : SetStanding(s, what, value)
  \/ \E rows \in SUBSET Row : WriteRows(s, rows)

RlsNext ==
  \/ \E s \in Session : Begin(s) \/ Commit(s) \/ Rollback(s)
  \/ \E s \in Subjects : SubjectStep(s)
  \/ \E s \in Session \ Subjects : SuperStep(s)

RlsSpec == RlsInit /\ [][RlsNext]_rlsVars

-----------------------------------------------------------------------------
(* What row-level security promises.                                       *)

\* r is within what security m lets the role do: it is free, or a permissive
\* policy and no restrictive one has its say about the row.
Permits(m, command, forCheck, r) ==
  LET about == {p \in m.policies : /\ p.command \in {command, "ALL"}
                                   /\ p.roles = {} \/ \E q \in p.roles : q = public \/ q \in Effective}
      says(p) == IF forCheck /\ p.check # {} THEN r \in p.check
                 ELSE p.using # {} => r \in p.using
      free == \/ \A f \in m.flags : ~f.enabled
              \/ m.standing.super \/ m.standing.bypass
              \/ m.standing.owner /\ \A f \in m.flags : ~f.forced
  IN free \/ (/\ \E p \in about : p.permissive /\ says(p)
              /\ ~\E p \in about : ~p.permissive /\ ~says(p))

Permitted(m, t) ==
  {r \in Row : CASE t.op \in Filtered -> Permits(m, t.op, FALSE, r)
                 [] t.op = "UPSERT" -> Permits(m, "UPDATE", TRUE, r)
                 [] OTHER -> Permits(m, "INSERT", TRUE, r)}

Readable(m) == {r \in Row : Permits(m, "SELECT", FALSE, r)}

\* What a statement read was permitted at some moment while it ran, and so was what it
\* updated, deleted or inserted, and what an upsert made of the rows it added or
\* overwrote, whatever superusers did meanwhile.  And if they did nothing, it took all
\* that was permitted, and an INSERT or upsert was rejected only for a row that was not
\* (rls.go:168-302, 401-542).  For an upsert the policies are those for UPDATE; what its
\* rows were before is not looked at, nor are the policies for INSERT, unless the role
\* is free by them.  Not claimed: for a statement one of whose handler's queries failed,
\* which may run without the policies (rls.go:191, 206, 514); for an INSERT that names
\* not all columns of a policy; for the table of an INSERT ... SELECT, outside a
\* transaction, that is changed while its rows are counted; for a table that changes
\* hands.
RowsPermitted ==
  \A s \in Subjects :
    LET t == stmt[s]
    IN t.op # "none" /\ t.op # "INSERT SOME COLUMNS" /\ ~t.disturbed /\ ~t.lost =>
         /\ \E m \in t.seen : t.touched \subseteq Permitted(m, t)
         /\ \E m \in t.seen : t.read \subseteq Readable(m)
         /\ \A m \in t.seen :
              t.seen = {m} /\ t.at \in {"done", "rejected"} =>
                IF t.op \in Filtered THEN t.touched = t.met \cap Permitted(m, t)
                ELSE (t.at = "done") <=> t.met \subseteq Permitted(m, t)
=============================================================================
