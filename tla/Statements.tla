------------------------------ MODULE Statements ------------------------------
(***************************************************************************)
(* Cutting a Query message into statements (protocol/postgres/             *)
(* multistatement.go, blank.go): at the semicolons that are not in a       *)
(* string, a quoted name, a dollar-quoted body, a comment or the body of a *)
(* trigger.                                                                *)
(*                                                                         *)
(* A text is a sequence of characters, but a word like "begin" is one      *)
(* character, that stands for the word with blanks around it.              *)
(***************************************************************************)
EXTENDS Integers, Sequences, FiniteSets, FiniteSetsExt, SequencesExt

Spaces == {" ", "\n"}
WordBytes == {"e", "x", "1"}
Digits == {"1"}

\* The character at i, or "" past the ends.
At(sql, i) == IF i \in 1..Len(sql) THEN sql[i] ELSE ""
HasPrefixAt(sql, i, p) == \A k \in 1..Len(p) : At(sql, i + k - 1) = p[k]
LineComment == <<"-", "-">>
OpenComment == <<"/", "*">>
CloseComment == <<"*", "/">>

\* Where the first such position is, or past the end.
First(sql, i, Is(_)) == Min({j \in i..Len(sql) : Is(j)} \cup {Len(sql) + 1})

-----------------------------------------------------------------------------
(* Where what starts at i ends: the position after it.                     *)

skipLineComment(sql, i) ==
  Min({First(sql, i, LAMBDA j : sql[j] = "\n") + 1, Len(sql) + 1})

\* Comments nest.
skipBlockComment(sql, i) ==
  LET n == Len(sql)
      f[j \in i..n + 2, depth \in 0..n] ==
        IF j > n THEN [end |-> n + 1, closed |-> FALSE]
        ELSE IF HasPrefixAt(sql, j, OpenComment) THEN f[j + 2, depth + 1]
        ELSE IF ~HasPrefixAt(sql, j, CloseComment) THEN f[j + 1, depth]
        ELSE IF depth = 1 THEN [end |-> j + 2, closed |-> TRUE] ELSE f[j + 2, depth - 1]
  IN f[i, 0]

\* A doubled quote stays inside.
skipQuoted(sql, i, q) ==
  LET n == Len(sql)
      f[j \in i..n + 2] ==
        IF j > n THEN n + 1
        ELSE IF sql[j] # q THEN f[j + 1]
        ELSE IF At(sql, j + 1) = q THEN f[j + 2] ELSE j + 1
  IN f[i + 1]

\* Mutant: it does not look for a backslash.
skipEscapeStringPlain(sql, i) == skipQuoted(sql, i, "'")

skipEscapeString(sql, i) ==
  LET n == Len(sql)
      f[j \in i..n + 2] ==
        IF j > n THEN n + 1
        ELSE IF sql[j] = "\\" THEN f[j + 2]
        ELSE IF sql[j] # "'" THEN f[j + 1]
        ELSE IF At(sql, j + 1) = "'" THEN f[j + 2] ELSE j + 1
  IN f[i + 1]

\* E'...' at i.
IsEscapeString(sql, i) == At(sql, i - 1) = "e" /\ At(sql, i - 2) \notin WordBytes

\* The $tag$ that starts at i, or <<>>.
dollarTag(sql, i) ==
  LET j == First(sql, i + 1, LAMBDA k : sql[k] = "$")
      tag == SubSeq(sql, i + 1, j - 1)
  IN IF \/ At(sql, i - 1) \in WordBytes \/ j > Len(sql)
        \/ Range(tag) \ WordBytes # {} \/ (tag # <<>> /\ tag[1] \in Digits)
     THEN <<>> ELSE SubSeq(sql, i, j)

\* Past the body after a tag.
skipDollar(sql, i) ==
  LET tag == dollarTag(sql, i)
      body == i + Len(tag)
      close == First(sql, body, LAMBDA k : HasPrefixAt(sql, k, tag))
  IN IF tag = <<>> THEN i + 1 ELSE Min({close + Len(tag), Len(sql) + 1})

\* The next position to look at.  openBody has no escape strings.
Skip(sql, i, escapes) ==
  CASE sql[i] = "'" /\ escapes /\ IsEscapeString(sql, i) -> skipEscapeString(sql, i)
    [] sql[i] \in {"'", "\""} /\ ~(sql[i] = "'" /\ escapes /\ IsEscapeString(sql, i)) ->
         skipQuoted(sql, i, sql[i])
    [] HasPrefixAt(sql, i, LineComment) -> skipLineComment(sql, i)
    [] HasPrefixAt(sql, i, OpenComment) -> skipBlockComment(sql, i).end
    [] sql[i] = "$" -> skipDollar(sql, i)
    [] OTHER -> i + 1

\* Past the blanks, semicolons and comments in front of a statement.  A comment
\* that does not end counts as something.
executableStart(sql) ==
  LET n == Len(sql)
      f[i \in 1..n + 1] ==
        IF i > n THEN i
        ELSE IF sql[i] \in Spaces \cup {";"} THEN f[i + 1]
        ELSE IF HasPrefixAt(sql, i, LineComment) THEN f[skipLineComment(sql, i)]
        ELSE IF HasPrefixAt(sql, i, OpenComment) /\ skipBlockComment(sql, i).closed
             THEN f[skipBlockComment(sql, i).end]
        ELSE i
  IN f[1]

stripLeadingComments(sql) == SubSeq(sql, executableStart(sql), Len(sql))
isBlankStatement(sql) == executableStart(sql) > Len(sql)

\* A dollar-quoted body that starts at i and does not end.
Unterminated(sql, i) ==
  LET tag == dollarTag(sql, i)
  IN sql[i] = "$" /\ tag # <<>> /\ \A k \in i + Len(tag)..Len(sql) : ~HasPrefixAt(sql, k, tag)

\* A CREATE [OR REPLACE] [TEMP] TRIGGER (or function) whose BEGIN is open; none is, if
\* a dollar-quoted body does not end.
openBody(stmt) ==
  LET words == SelectSeq(stripLeadingComments(stmt), LAMBDA c : c \notin Spaces)
      rest == IF HasPrefixAt(words, 2, <<"or replace">>) THEN SubSeq(words, 3, Len(words))
              ELSE SubSeq(words, 2, Len(words))
      kind == IF HasPrefixAt(rest, 1, <<"temp">>) THEN At(rest, 2) ELSE At(rest, 1)
      n == Len(stmt)
      depth[i \in 1..n + 1] ==
        IF i > n THEN 0
        ELSE IF Unterminated(stmt, i) THEN -n
        ELSE (CASE stmt[i] \in {"begin", "case"} -> 1 [] stmt[i] = "end" -> -1 [] OTHER -> 0)
             + depth[Skip(stmt, i, FALSE)]
  IN At(words, 1) = "create" /\ kind = "trigger" /\ depth[1] > 0

\* The statements, as positions: from one to the other.
splitStatements(sql) ==
  LET n == Len(sql)
      piece(i, j) == IF isBlankStatement(SubSeq(sql, i, j - 1)) THEN <<>> ELSE <<<<i, j - 1>>>>
      f[start \in 1..n + 1, i \in 1..n + 1] ==
        IF i > n THEN piece(start, i)
        ELSE IF sql[i] = ";" /\ ~openBody(SubSeq(sql, start, i - 1))
             THEN piece(start, i) \o f[i + 1, i + 1]
        ELSE f[start, Skip(sql, i, TRUE)]
  IN f[1, 1]

-----------------------------------------------------------------------------
(* What a client means: read from the left, a character at a time.         *)

\* Where the reader is, how deep in comments, in which dollar tag, and how many
\* characters it has read ahead.
Code == [in |-> "code", depth |-> 0, tag |-> <<>>, ahead |-> 0]

Read(sql, st, i) ==
  LET c == sql[i]
      to(in) == [Code EXCEPT !.in = in]
      over(k) == [st EXCEPT !.ahead = k]
      deeper(d) == [st EXCEPT !.in = IF st.depth + d = 0 THEN "code" ELSE "block",
                              !.depth = @ + d, !.ahead = 1]
  IN IF st.ahead > 0 THEN over(st.ahead - 1)
     ELSE CASE st.in = "code" ->
                 (CASE c = "'" /\ IsEscapeString(sql, i) -> to("escape")
                    [] c = "'" /\ ~IsEscapeString(sql, i) -> to("string")
                    [] c = "\"" -> to("name")
                    [] HasPrefixAt(sql, i, LineComment) -> to("line")
                    [] HasPrefixAt(sql, i, OpenComment) -> deeper(1)
                    [] c = "$" /\ dollarTag(sql, i) # <<>> ->
                         [Code EXCEPT !.in = "dollar", !.tag = dollarTag(sql, i),
                                      !.ahead = Len(dollarTag(sql, i)) - 1]
                    [] OTHER -> st)
            [] st.in = "string" -> IF c = "'" THEN Code ELSE st
            [] st.in = "name" -> IF c = "\"" THEN Code ELSE st
            [] st.in = "escape" ->
                 (CASE c = "\\" \/ (c = "'" /\ At(sql, i + 1) = "'") -> over(1)
                    [] c = "'" /\ At(sql, i + 1) # "'" -> Code
                    [] OTHER -> st)
            [] st.in = "line" -> IF c = "\n" THEN Code ELSE st
            [] st.in = "dollar" ->
                 IF HasPrefixAt(sql, i, st.tag) THEN [Code EXCEPT !.ahead = Len(st.tag) - 1] ELSE st
            [] OTHER ->
                 (CASE HasPrefixAt(sql, i, OpenComment) -> deeper(1)
                    [] HasPrefixAt(sql, i, CloseComment) -> deeper(-1)
                    [] OTHER -> st)

\* Where the reader is before each character, and at the end.
Reading(sql) ==
  FoldLeft(LAMBDA r, i : Append(r, Read(sql, r[i], i)), <<Code>>, [i \in 1..Len(sql) |-> i])

\* A trigger's body is open: more BEGINs and CASEs than ENDs, in the code.
InBody(sql, reading, i, j) ==
  LET code(W) == Cardinality({k \in i..j : reading[k].in = "code" /\ sql[k] \in W})
      said == SelectSeq(SubSeq(sql, i, j), LAMBDA c : c \notin Spaces)
  IN /\ \E p \in {<<"create">>, <<"create", "or replace">>}, q \in {<<>>, <<"temp">>} :
          HasPrefixAt(said, 1, p \o q \o <<"trigger">>)
     /\ code({"begin", "case"}) > code({"end"})

\* A message is cut where code has a semicolon and no trigger's body is open, and
\* a piece is left out if all its code is blank (multistatement.go:62-182,
\* blank.go:17-85).
SplitRight(sql) ==
  LET reading == Reading(sql)
      n == Len(sql)
      top(i) == reading[i].in = "code" /\ reading[i].ahead = 0 /\ sql[i] = ";"
      begins == FoldLeft(LAMBDA b, i : Append(b, IF top(i) /\ ~InBody(sql, reading, b[i], i - 1)
                                                THEN i + 1 ELSE b[i]),
                         <<1>>, [i \in 1..n |-> i])
      comment(i) ==
        \/ reading[i].in \in {"line", "block"} \/ reading[i].ahead > 0
        \/ HasPrefixAt(sql, i, LineComment)
        \/ HasPrefixAt(sql, i, OpenComment) /\ skipBlockComment(sql, i).closed
      blank(i, j) == \A k \in i..j : \/ sql[k] \in Spaces \cup {";"} /\ reading[k].in = "code"
                                     \/ comment(k)
      ends == {j \in 1..n : begins[j + 1] = j + 1}
      pieces == Range(splitStatements(sql))
  IN \A i, j \in 1..n :
       <<i, j>> \in pieces <=>
         /\ begins[i] = i /\ begins[j] = i
         /\ j \notin ends /\ (j = n \/ j + 1 \in ends)
         /\ ~blank(i, j)
=============================================================================
