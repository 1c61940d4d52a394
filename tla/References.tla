----------------------------- MODULE References -----------------------------
(***************************************************************************)
(* The tables a statement names: which privileges it needs                 *)
(* (protocol/postgres/privileges.go), the policies put into its text       *)
(* (protocol/postgres/rls.go), and a schema's tables by the names SQLite   *)
(* has them under (engine/schemaqualify.go).                               *)
(*                                                                         *)
(* A text is a sequence of tokens; literals and comments are not in it.    *)
(* "s.t" is one token, as it is to the scanners.                           *)
(***************************************************************************)
EXTENDS Integers, Sequences, FiniteSets, FiniteSetsExt, SequencesExt

Qualified == {"s.t"}                 \* of the schema s, which is registered
Named == {"t", "u"} \cup Qualified
System == {"pg_class"}
Protected == {"t"}                   \* the bare names under policies

Punctuation == {"(", ")", ",", "="}
IsWord(t) == t \notin Punctuation

bareAlias(name) == IF name \in Qualified THEN "t" ELSE name
Stored(name) == IF name \in Qualified THEN "'s.t'" ELSE name

At(sql, i) == IF i \in 1..Len(sql) THEN sql[i] ELSE ""

-----------------------------------------------------------------------------
(* Privileges (privileges.go:150-239).                                     *)

Keywords == [select |-> {"from", "join"}, insert |-> {"into"}, update |-> {"update"},
             delete |-> {"from"}, alter |-> {"table"}]

\* Words that may follow FROM and the like and are no table.
sqlReserved == {"select", "where", "on", "using", "set", "values", "lateral", "only", "as", "group",
                "order", "limit", "returning", "natural", "left", "right", "inner", "outer", "full",
                "cross", "join"}

tableName(t) == t \notin sqlReserved \cup System \cup {"("}

\* Commas and ")" are no words of the scanner's.
scanWords(sql) == SelectSeq(sql, LAMBDA t : t \notin Punctuation \ {"("})

\* Mutant: a table that is joined is not asked for.
tablesAfterFromOnly(words, keywords) ==
  {bareAlias(words[i]) : i \in {j \in 2..Len(words) : words[j - 1] \in keywords \ {"join"} /\ tableName(words[j])}}

\* After a comma nothing is looked for.
tablesAfter(words, keywords) ==
  {bareAlias(words[i]) : i \in {j \in 2..Len(words) : words[j - 1] \in keywords /\ tableName(words[j])}}

truncateTables(words) ==
  {bareAlias(words[i]) : i \in {j \in 2..Len(words) : words[j] \notin {"table", "only"} /\ tableName(words[j])}}

requiredPrivileges(sql) ==
  IF sql[1] = "truncate" THEN truncateTables(scanWords(sql))
  ELSE IF sql[1] \in {"with", "table"} THEN tablesAfter(scanWords(sql), Keywords["select"])
  ELSE IF sql[1] \in DOMAIN Keywords THEN tablesAfter(scanWords(sql), Keywords[sql[1]])
  ELSE {}

-----------------------------------------------------------------------------
(* Policies (rls.go:304-399, 544-808).                                     *)

Filter(name) == <<"(", "select", "*", "from", name, "where", "policy", ")">>

NoAlias == {"on", "using", "where", "group", "order", "having", "limit", "join", "inner", "left", "right",
            "full", "cross", "natural", "union", "except", "intersect", "window", "returning", "set"}

aliasFollows(sql, i) == At(sql, i + 1) # "" /\ IsWord(sql[i + 1]) /\ sql[i + 1] \notin NoAlias

EndsFrom == {"where", "group", "having", "order", "limit", "window", "union", "except", "intersect", "on",
             "using", "returning", "set", "values"}

\* One token more: list, whether a FROM list is being read; table, whether a table is next.
Wrapped(sql, s, i) ==
  LET t == sql[i]
      keep == [s EXCEPT !.out = Append(s.out, t)]
  IN CASE t = "from" -> [keep EXCEPT !.list = TRUE, !.table = TRUE]
       [] t = "join" -> [keep EXCEPT !.table = TRUE]
       [] t \in {"only", "lateral"} -> keep
       [] t \in EndsFrom -> [keep EXCEPT !.list = FALSE, !.table = FALSE]
       [] t = "(" -> [keep EXCEPT !.table = FALSE]
       [] t = "," -> [keep EXCEPT !.table = s.table \/ s.list]
       [] t \in {")", "="} -> keep
       [] s.table /\ t \in Named /\ bareAlias(t) \in Protected ->
            [s EXCEPT !.table = FALSE,
                      !.out = s.out \o Filter(t)
                                \o (IF aliasFollows(sql, i) THEN <<>> ELSE <<"as", bareAlias(t)>>)]
       [] OTHER -> [keep EXCEPT !.table = FALSE]

wrapRLSSelect(sql) ==
  FoldLeft(LAMBDA s, i : Wrapped(sql, s, i), [out |-> <<>>, list |-> FALSE, table |-> FALSE],
           [i \in 1..Len(sql) |-> i]).out

Depth(sql, i) == Cardinality({k \in 1..i : sql[k] = "("}) - Cardinality({k \in 1..i : sql[k] = ")"})

\* Where a keyword stands outside parentheses, or 0.
topLevelKeyword(sql, word) ==
  LET P == {i \in 1..Len(sql) : sql[i] = word /\ Depth(sql, i) = 0} IN IF P = {} THEN 0 ELSE Min(P)

topLevelOnConflict(sql) ==
  LET P == {i \in 1..Len(sql) : sql[i] = "on" /\ At(sql, i + 1) = "conflict" /\ Depth(sql, i) = 0}
  IN IF P = {} THEN 0 ELSE Min(P)

\* UPDATE and DELETE of a protected table: its filter and the condition, before RETURNING.
injectRLSWhere(sql, target) ==
  LET r == topLevelKeyword(sql, "returning")
      body == IF r = 0 THEN sql ELSE SubSeq(sql, 1, r - 1)
      ret == IF r = 0 THEN <<>> ELSE SubSeq(sql, r, Len(sql))
      w == topLevelKeyword(body, "where")
  IN IF bareAlias(target) \notin Protected THEN sql
     ELSE (IF w = 0 THEN body \o <<"where", "(", "policy", ")">>
           ELSE SubSeq(body, 1, w) \o <<"(", "(", "policy", ")", "and", "(">>
                  \o SubSeq(body, w + 1, Len(body)) \o <<")", ")">>)
          \o ret

\* The parts of an INSERT: its table, the columns it gives, and where its rows begin.
parseInsert(sql) ==
  LET i == Min({k \in 1..Len(sql) : sql[k] = "into"})
      close == Min({k \in i + 3..Len(sql) : sql[k] = ")"})
      listed == At(sql, i + 2) = "("
  IN [target |-> sql[i + 1],
      cols |-> IF listed THEN SelectSeq(SubSeq(sql, i + 3, close - 1), IsWord) ELSE <<>>,
      from |-> IF listed THEN close + 1 ELSE i + 2]

-----------------------------------------------------------------------------
(* Schemas (schemaqualify.go:63-164).                                      *)

clauseKeywords == {"where", "set", "values", "select", "join", "inner", "left", "right", "full", "cross",
                   "natural", "on", "using", "group", "order", "limit", "offset", "having", "union",
                   "returning", "default"}

\* Where a table may be given an alias, and has none.
needsAlias(sql, i) ==
  /\ \/ At(sql, i - 1) \in {"from", "join", "update"}
     \/ At(sql, i - 1) = "into" /\ At(sql, i - 2) = "insert"
  /\ \/ At(sql, i + 1) = ""
     \/ ~IsWord(sql[i + 1])
     \/ sql[i + 1] \in clauseKeywords

qualifyOneSchema(sql) ==
  FoldLeft(LAMBDA out, i : out \o (IF sql[i] \notin Qualified THEN <<sql[i]>>
                                   ELSE <<Stored(sql[i])>> \o (IF needsAlias(sql, i) THEN <<"as", bareAlias(sql[i])>>
                                                               ELSE <<>>)),
           <<>>, [i \in 1..Len(sql) |-> i])

\* An index goes where its table is.
prefixSchemaIndexName(sql) ==
  IF At(sql, 1) = "create" /\ At(sql, 2) = "index" /\ At(sql, 5) = "'s.t'" THEN [sql EXCEPT ![3] = "'s.i'"]
  ELSE sql

qualifySchemaNames(sql) == prefixSchemaIndexName(qualifyOneSchema(sql))

-----------------------------------------------------------------------------
(* What is said, what it is under the policies, what it is to SQLite; the  *)
(* tables it reads, and those that follow a comma.                         *)

Phrase(said, filtered, stored, reads, listed) ==
  [said |-> said, filtered |-> filtered, stored |-> stored, reads |-> reads, listed |-> listed]

Plain(tokens) == Phrase(tokens, tokens, tokens, {}, {})
Then(p, q) ==
  Phrase(p.said \o q.said, p.filtered \o q.filtered, p.stored \o q.stored, p.reads \cup q.reads,
         p.listed \cup q.listed)
Group(p) == Then(Then(Plain(<<"(">>), p), Plain(<<")">>))

\* A table of a FROM clause, with the alias the client gives it, or none: then it is
\* known by its bare name.
Table(name, alias) ==
  LET known == IF alias = <<>> THEN <<"as", bareAlias(name)>> ELSE alias
  IN Phrase(<<name>> \o alias,
            IF name \in Named /\ bareAlias(name) \in Protected THEN Filter(name) \o known ELSE <<name>> \o alias,
            IF name \in Qualified THEN <<Stored(name)>> \o known ELSE <<name>> \o alias,
            {bareAlias(name)} \ System, {})

Derived(q) == Then(Group(q), Plain(<<"as", "d">>))
Joined(p, q) == Then(Then(p, Then(Plain(<<"left", "join">>), q)), Plain(<<"on", "c">>))
Listed(p, q) == [Then(p, Then(Plain(<<",">>), q)) EXCEPT !.listed = p.listed \cup q.reads]

\* SELECT a, b FROM ... WHERE c (or EXISTS (...)).
Select(from, condition) ==
  Then(Then(Plain(<<"select", "a", ",", "b", "from">>), from), condition)
Where(p) == Then(Plain(<<"where", "exists">>), Group(p))

\* UPDATE and DELETE of a table, under a condition, or none, that may read others.
Changing(first, target, mid, condition, ret) ==
  LET c == IF condition.said = <<>> THEN Plain(<<>>) ELSE Then(Plain(<<"where">>), condition)
      policies == bareAlias(target) \in Protected
      all == Then(Then(Then(Plain(first), Table(target, <<>>)), Plain(mid)), Then(c, Plain(ret)))
      said == first \o <<target>> \o mid \o c.said \o ret
  IN [all EXCEPT
        !.filtered = IF ~policies THEN said
                     ELSE first \o <<target>> \o mid \o <<"where">>
                            \o (IF condition.said = <<>> THEN <<"(", "policy", ")">>
                                ELSE <<"(", "(", "policy", ")", "and", "(">> \o condition.said \o <<")", ")">>)
                            \o ret]

\* The tables that are read are asked for, but those after a comma, and no others
\* (privileges.go:150-239).
AskedRight(p) ==
  /\ requiredPrivileges(p.said) \subseteq p.reads
  /\ p.reads \ p.listed \subseteq requiredPrivileges(p.said)

\* Every protected table a query reads is read through its policies, and is known by
\* the name it had (rls.go:304-365).
FilteredRight(p) == wrapRLSSelect(p.said) = p.filtered

\* The table's policies and the condition both hold (rls.go:367-399).
InjectedRight(p, target) == injectRLSWhere(p.said, target) = p.filtered

\* A schema's table is found under its stored name and known by its own
\* (schemaqualify.go:78-90).
QualifiedRight(p) == qualifySchemaNames(p.said) = p.stored

\* An INSERT is taken apart as it was written (rls.go:544-580, 759-808).
InsertRight(target, cols, source, conflict) ==
  LET listed == IF cols = <<>> THEN <<>> ELSE <<"(", cols[1]>> \o FlattenSeq([i \in 1..Len(cols) - 1 |-> <<",", cols[i + 1]>>]) \o <<")">>
      head == <<"insert", "into", target>> \o listed
      sql == head \o source \o conflict
  IN /\ parseInsert(sql) = [target |-> target, cols |-> cols, from |-> Len(head) + 1]
     /\ topLevelOnConflict(sql) = (IF conflict = <<>> THEN 0 ELSE Len(head \o source) + 1)
=============================================================================
