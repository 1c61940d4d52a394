------------------------------- MODULE Dialect -------------------------------
(***************************************************************************)
(* Rewriting PostgreSQL's expressions and clauses into SQLite's            *)
(* (protocol/postgres/dialect.go, offset.go): ::, date arithmetic, @> <@   *)
(* && ? ~, OFFSET.  The rules look for a token and for the operands before *)
(* and after it, and put something else in their place.                    *)
(*                                                                         *)
(* A text is a sequence of tokens; "(" follows the word before it at once, *)
(* " (" after a blank.  A literal is one token, unless it holds quotes or  *)
(* parentheses, which not every scan passes over: then it is spelled, and  *)
(* its quotes and what is between them are tokens.                         *)
(***************************************************************************)
EXTENDS Integers, Sequences, FiniteSets, FiniteSetsExt, SequencesExt

NumberWords == {"1", "'1'"}
Literals == {"'a'", "'1'", "'1 day'"}
Opening == {"(", " ("}
Signs == {"+", "-"}
Containing == {"@>", "<@"}
Existing == {"?", "?|", "?&"}
Matching == {"~", "!~", "~*", "!~*"}
Symbols == Opening \cup Signs \cup Containing \cup Existing \cup Matching
             \cup {")", ",", ";", ".", "::", "&&", "[]", "=", "'"}

\* A token made of letters, digits, dots and the like.
IsWord(t) == t \notin Symbols \cup Literals

At(sql, i) == IF i \in 1..Len(sql) THEN sql[i] ELSE ""
Opens(sql, i, j) == Cardinality({k \in i..j : sql[k] \in Opening})
Closes(sql, i, j) == Cardinality({k \in i..j : sql[k] = ")"})

\* In a literal that is spelled; and a group that begins at i is complete at j, if
\* literals are passed over.
InString(sql, i) == Cardinality({k \in 1..i - 1 : sql[k] = "'"}) % 2 = 1
Balanced(sql, i, j) ==
  LET code(W) == Cardinality({k \in i..j : sql[k] \in W /\ ~InString(sql, k)})
  IN code(Opening) = code({")"})

\* Tokens from i to j - 1 replaced.
Replaced(sql, i, j, by) == SubSeq(sql, 1, i - 1) \o by \o SubSeq(sql, j, Len(sql))

\* The first such position from i on, or 0.
FirstOf(sql, i, Is(_)) ==
  LET P == {j \in i..Len(sql) : Is(j)} IN IF P = {} THEN 0 ELSE Min(P)

CallOf(name, args) == <<name, "(">> \o args \o <<")">>

-----------------------------------------------------------------------------
(* Operands.                                                               *)

\* Mutant: a group is taken without the name of the function.
RECURSIVE operandBeforeNoName(_, _)
operandBeforeNoName(sql, i) ==
  CASE At(sql, i - 1) = ")" -> Max({k \in 1..i - 1 : Opens(sql, k, i - 1) = Closes(sql, k, i - 1)})
    [] At(sql, i - 1) # ")" /\ (i > 1 /\ (IsWord(sql[i - 1]) \/ sql[i - 1] \in Literals)) -> i - 1
    [] OTHER -> i

\* Where the operand that ends before i begins; i if there is none.  A group has
\* its function's name with it; after FILTER or OVER it goes with the call before.
\* Parentheses in literals are counted, and a literal begins at the nearest quote.
RECURSIVE operandBefore(_, _)
operandBefore(sql, i) ==
  LET last == At(sql, i - 1)
      j == Max({k \in 1..i - 1 : Opens(sql, k, i - 1) = Closes(sql, k, i - 1)})
      word == At(sql, j - 1)
  IN CASE last = ")" ->
            (CASE word \in {"filter", "over"} ->
                    IF At(sql, j - 2) = ")" THEN operandBefore(sql, j - 1) ELSE j - 1
               [] word \notin {"filter", "over"} /\ sql[j] = "(" /\ j > 1 /\ IsWord(word) -> j - 1
               [] OTHER -> j)
       [] last = "'" -> Max({k \in 1..i - 2 : sql[k] = "'"})
       [] last \in Literals \/ (i > 1 /\ last # ")" /\ IsWord(last)) -> i - 1
       [] OTHER -> i

\* Past the operand that begins at i: a literal, to the nearest quote; a group, counting
\* the parentheses in literals; or a word.
operandAfter(sql, i) ==
  CASE At(sql, i) \in Opening ->
         Min({k \in i..Len(sql) : Opens(sql, i, k) = Closes(sql, i, k)} \cup {Len(sql)}) + 1
    [] At(sql, i) = "'" -> Min({k \in i + 1..Len(sql) : sql[k] = "'"} \cup {Len(sql)}) + 1
    [] At(sql, i) \notin Opening /\ (i <= Len(sql) /\ (IsWord(sql[i]) \/ sql[i] \in Literals)) -> i + 1
    [] OTHER -> i

\* And past the arguments of a call.
balancedParen(sql, i) == Min({k \in i..Len(sql) : Balanced(sql, i, k)} \cup {Len(sql)}) + 1

RECURSIVE extendPastCall(_, _)
extendPastCall(sql, i) ==
  IF At(sql, i) \in Opening THEN extendPastCall(sql, balancedParen(sql, i)) ELSE i

\* What an operator with its operands becomes.
existsFunction(op) ==
  CASE op = "?|" -> "jsonb_exists_any" [] op = "?&" -> "jsonb_exists_all" [] OTHER -> "jsonb_exists"

IsLiteral(t) == (Len(t) = 1 /\ t[1] \in Literals) \/ (Len(t) > 1 /\ t[1] = "'" /\ Last(t) = "'")

injectCaseInsensitive(b) ==
  IF IsLiteral(b) THEN <<"(?i) and">> \o b ELSE <<" (", "(?i) and">> \o b \o <<")">>

Applied(op, a, b) ==
  LET match == a \o <<"REGEXP">> \o (IF op \in {"~*", "!~*"} THEN injectCaseInsensitive(b) ELSE b)
  IN CASE op = "@>" -> CallOf("json_contains", a \o <<",">> \o b)
       [] op = "<@" -> CallOf("json_contains", b \o <<",">> \o a)
       [] op = "&&" -> CallOf("overlite_overlaps", a \o <<",">> \o b)
       [] op \in Existing -> CallOf(existsFunction(op), a \o <<",">> \o b)
       [] op \in {"!~", "!~*"} -> <<"NOT", " (">> \o match \o <<")">>
       [] OTHER -> match

\* A rule: the first of the operators is replaced, with its operands, until there
\* is none.  Without an operand the rule gives up.
RECURSIVE rewriteOperator(_, _, _)
rewriteOperator(sql, ops, extended) ==
  LET i == FirstOf(sql, 1, LAMBDA k : sql[k] \in ops /\ ~InString(sql, k))
      start == operandBefore(sql, i)
      after == operandAfter(sql, i + 1)
      end == IF extended THEN extendPastCall(sql, after) ELSE after
  IN IF i = 0 THEN sql
     ELSE IF start = i \/ after = i + 1 THEN sql
     ELSE rewriteOperator(Replaced(sql, start, end,
                                   Applied(sql[i], SubSeq(sql, start, i - 1), SubSeq(sql, i + 1, end - 1))),
                          ops, extended)

-----------------------------------------------------------------------------
(* The rules, in the order they are applied.                               *)

\* ts + interval '...': a call of datetime, with the amounts and their sign.
Modifiers(sign) == IF sign = "-" THEN "minus the amounts" ELSE "plus the amounts"

RECURSIVE rewriteIntervalFrom(_, _)
rewriteIntervalFrom(sql, from) ==
  LET i == FirstOf(sql, from, LAMBDA k : sql[k] = "interval")
      start == operandBefore(sql, i - 1)
      to == CallOf("datetime", SubSeq(sql, start, i - 2) \o <<",", Modifiers(sql[i - 1])>>)
  IN IF i = 0 THEN sql
     ELSE IF At(sql, i + 1) # "'1 day'" \/ At(sql, i - 1) \notin Signs \/ start = i - 1
          THEN rewriteIntervalFrom(sql, i + 1)
     ELSE rewriteIntervalFrom(Replaced(sql, start, i + 2, to), start + Len(to))

rewriteInterval(sql) == rewriteIntervalFrom(sql, 1)

\* operand::type; the oid of a name and the name of an oid are looked up.
castExpr(operand, type) ==
  IF type # "regclass" THEN CallOf("CAST", operand \o <<"as", type>>)
  ELSE IF Len(operand) = 1 /\ operand[1] \in NumberWords THEN <<"1">>
  ELSE IF IsLiteral(operand) THEN <<" (", "oid of">> \o operand \o <<")">>
  ELSE <<" (", "name of">> \o operand \o <<")">>

\* Array suffixes are dropped.
RECURSIVE rewriteCasts(_)
rewriteCasts(sql) ==
  LET i == FirstOf(sql, 1, LAMBDA k : sql[k] = "::" /\ ~InString(sql, k))
      start == operandBefore(sql, i)
      end == FirstOf(sql \o <<"">>, i + 2, LAMBDA k : At(sql, k) # "[]")
  IN IF i = 0 THEN sql
     ELSE IF At(sql, i + 1) = "" \/ ~IsWord(sql[i + 1]) \/ start = i THEN sql
     ELSE rewriteCasts(Replaced(sql, start, end, castExpr(SubSeq(sql, start, i - 1), sql[i + 1])))

rewriteJSONContains(sql) == rewriteOperator(sql, Containing, TRUE)
rewriteOverlaps(sql) == rewriteOperator(sql, {"&&"}, TRUE)
rewriteJSONExists(sql) == rewriteOperator(sql, Existing, TRUE)

\* The operand after ends before a call's arguments: they follow what is put in.
rewriteMatchOperators(sql) == rewriteOperator(sql, Matching, FALSE)

-----------------------------------------------------------------------------
(* OFFSET: SQLite wants it after a LIMIT.                                  *)

ClauseWords == {"limit", "offset", "fetch", "for", "union", "intersect", "except", "returning"}

isClauseWord(sql, i, W) == At(sql, i) \in W /\ At(sql, i - 1) \notin {".", "as"}

\* Where the clause whose expression begins at i ends.
clauseEnd(sql, i) ==
  Min({k \in i..Len(sql) :
         /\ ~InString(sql, k) /\ Balanced(sql, i, k - 1)
         /\ \A j \in i..k - 1 : sql[j] = ")" => ~Balanced(sql, i, j - 1) \/ InString(sql, j)
         /\ sql[k] \in {")", ";"} \/ isClauseWord(sql, k, ClauseWords)}
      \cup {Len(sql) + 1})

\* From i on; limited: which of the queries i is in have their LIMIT.
RECURSIVE rewriteOffsetFrom(_, _, _)
rewriteOffsetFrom(sql, i, limited) ==
  LET d == Len(limited)
      now == [limited EXCEPT ![d] = TRUE]
      offEnd == clauseEnd(sql, i + 1)
      limEnd == clauseEnd(sql, offEnd + 1)
      next(l) == <<sql[i]>> \o rewriteOffsetFrom(sql, i + 1, l)
  IN CASE i > Len(sql) -> <<>>
       [] i <= Len(sql) /\ InString(sql, i) -> next(limited)
       [] At(sql, i) \in Opening -> next(Append(limited, FALSE))
       [] At(sql, i) = ")" -> next(IF d > 1 THEN Front(limited) ELSE limited)
       [] isClauseWord(sql, i, {"limit"}) -> next(now)
       [] isClauseWord(sql, i, {"offset"}) /\ ~limited[d] ->
            IF isClauseWord(sql, offEnd, {"limit"})
            THEN SubSeq(sql, offEnd, limEnd - 1) \o SubSeq(sql, i, offEnd - 1)
                   \o rewriteOffsetFrom(sql, limEnd, now)
            ELSE <<"limit", "-1">> \o next(now)
       [] OTHER -> next(limited)

rewriteOffset(sql) == rewriteOffsetFrom(sql, 1, <<FALSE>>)

rewrite(sql) ==
  rewriteOffset(rewriteMatchOperators(rewriteJSONExists(rewriteOverlaps(rewriteJSONContains(
    rewriteCasts(rewriteInterval(sql)))))))

-----------------------------------------------------------------------------
(* The amounts of an interval: pairs of a number and a unit.               *)

Short == [yr |-> "year", mon |-> "month", d |-> "day", hr |-> "hour", h |-> "hour",
          min |-> "minute", m |-> "minute", sec |-> "second", wk |-> "week", w |-> "week"]
Whole(u) == IF u \in DOMAIN Short THEN Short[u] ELSE u

\* A field that is no pair, as in "1 day 02:00:00", is left out.
intervalModifiers(body, sign) ==
  [i \in 1..Len(body) |->
     LET n == IF sign = "-" THEN -body[i].n ELSE body[i].n
     IN IF Whole(body[i].unit) = "week" THEN [n |-> 7 * n, unit |-> "day"]
        ELSE [n |-> n, unit |-> Whole(body[i].unit)]]

Months == [year |-> 12, month |-> 1, week |-> 0, day |-> 0, hour |-> 0, minute |-> 0, second |-> 0]
Seconds == [year |-> 0, month |-> 0, week |-> 604800, day |-> 86400, hour |-> 3600, minute |-> 60, second |-> 1]

SumOf(body, F, sign) ==
  FoldLeft(LAMBDA sum, a : IF sign = "-" THEN sum - a.n * F[Whole(a.unit)] ELSE sum + a.n * F[Whole(a.unit)],
           0, body)

\* The modifiers add, or take away, as many months and seconds as the interval has
\* (dialect.go:513-564).
IntervalRight(body) ==
  \A sign \in Signs, F \in {Months, Seconds} :
    SumOf(intervalModifiers(body, sign), F, "+") = SumOf(body, F, sign)

-----------------------------------------------------------------------------
(* What a client says, and what it means to SQLite.                        *)

Phrase(said, meant) == [said |-> said, meant |-> meant]
Plain(tokens) == Phrase(tokens, tokens)
Spelled(tokens) == Plain(<<"'">> \o tokens \o <<"'">>)
Then(p, q) == Phrase(p.said \o q.said, p.meant \o q.meant)
Group(p) == Then(Then(Plain(<<" (">>), p), Plain(<<")">>))
Call(f, p) == Then(Then(Plain(<<f, "(">>), p), Plain(<<")">>))

\* count(*) FILTER (WHERE p) OVER (q).
Aggregate(p, q) ==
  Then(Then(Plain(<<"count", "(", "x", ")", "filter">>), Group(Then(Plain(<<"where">>), p))),
       Then(Plain(<<"over">>), Group(q)))

Cast(p, type, suffix) ==
  Phrase(p.said \o <<"::", type>> \o suffix, castExpr(p.meant, type))

\* A date, and an interval added to it.
Plus(p, sign) ==
  Phrase(p.said \o <<sign, "interval", "'1 day'">>,
         CallOf("datetime", p.meant \o <<",", Modifiers(sign)>>))

\* An operator between two phrases; the pattern of a match is one token.
Between(p, op, q) == Phrase(p.said \o <<op>> \o q.said, Applied(op, p.meant, q.meant))

\* A query with its clauses; those it has not are {}.  offsetFirst: as it is said.
Clause(word, S, Side(_)) == IF S = {} THEN <<>> ELSE <<word>> \o Side(CHOOSE p \in S : TRUE)

Query(items, lim, off, offsetFirst, tail) ==
  LET said(p) == p.said
      meant(p) == p.meant
      l == Clause("limit", lim, said)
      o == Clause("offset", off, said)
  IN Phrase(<<"select">> \o items.said \o (IF offsetFirst THEN o \o l ELSE l \o o) \o tail,
            <<"select">> \o items.meant
              \o (IF lim = {} /\ off # {} THEN <<"limit", "-1">> ELSE Clause("limit", lim, meant))
              \o Clause("offset", off, meant) \o tail)

\* The rules, one after the other, make of what is said what is meant, if literals have
\* whole parentheses and no quotes in them: of others operandBefore may take a part, though
\* its comment promises "a quoted string" (dialect.go:227-230, 371-381, 409-414; all
\* rules: dialect.go:231-425, 469-513, 895-1070, 1846-1941, offset.go:14-112).
RewriteRight(p) == rewrite(p.said) = p.meant
=============================================================================
