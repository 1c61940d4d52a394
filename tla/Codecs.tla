------------------------------- MODULE Codecs -------------------------------
(***************************************************************************)
(* Values written for a client and read back: COPY's text format           *)
(* (protocol/postgres/copy.go), arrays (protocol/postgres/array.go)         *)
(* and hstore (engine/hstore.go, protocol/postgres/hstore.go).             *)
(*                                                                         *)
(* A text is a sequence of characters; the word null is one of them, as    *)
(* both arrays and hstore only look for all of it.                         *)
(***************************************************************************)
EXTENDS Integers, Sequences, FiniteSets, FiniteSetsExt, SequencesExt

BS == "\\"                           \* a backslash
TAB == "tab"
LF == "newline"
CR == "return"
Quote == "\""
Blanks == {" ", TAB, LF}

\* A field, an element or a value: a text, or NULL.
Text(t) == [null |-> FALSE, text |-> t]
NULL == [null |-> TRUE, text |-> <<>>]

\* Each character of a text as To has it.
Escaped(t, To(_)) == FlattenSeq([i \in 1..Len(t) |-> To(t[i])])

\* Backslashes taken away; the character after one is what From has it for.
Unescaped(t, From(_)) ==
  FoldLeft(LAMBDA s, i : IF s.escaped THEN [out |-> Append(s.out, From(t[i])), escaped |-> FALSE]
                         ELSE IF t[i] = BS /\ i < Len(t) THEN [s EXCEPT !.escaped = TRUE]
                         ELSE [s EXCEPT !.out = Append(@, t[i])],
           [out |-> <<>>, escaped |-> FALSE], [i \in 1..Len(t) |-> i]).out

Same(c) == c
Split(t, at) ==
  FoldLeft(LAMBDA s, c : IF c = at THEN Append(s, <<>>) ELSE [s EXCEPT ![Len(s)] = Append(@, c)], << <<>> >>, t)
JoinedBy(parts, by) ==
  FlattenSeq([i \in 1..Len(parts) |-> (IF i = 1 THEN <<>> ELSE by) \o parts[i]])

-----------------------------------------------------------------------------
(* COPY ... TO STDOUT and FROM STDIN, as text (copy.go:250-376).           *)

Marker == <<BS, "N">>

\* Mutant: a backslash is not escaped.
escapeOfPlain(c) == CASE c = TAB -> <<BS, "t">> [] c = LF -> <<BS, "n">> [] c = CR -> <<BS, "r">> [] OTHER -> <<c>>

escapeOf(c) ==
  CASE c = BS -> <<BS, BS>> [] c = TAB -> <<BS, "t">> [] c = LF -> <<BS, "n">> [] c = CR -> <<BS, "r">>
    [] OTHER -> <<c>>
escapeCopyText(t) == Escaped(t, escapeOf)

escapedBy(c) == CASE c = "t" -> TAB [] c = "n" -> LF [] c = "r" -> CR [] OTHER -> c
unescapeCopyText(t) == Unescaped(t, escapedBy)

\* A row as a line.  The marker of a NULL is escaped as a text is.
copyLine(row) ==
  JoinedBy([i \in 1..Len(row) |-> escapeCopyText(IF row[i].null THEN Marker ELSE row[i].text)], <<TAB>>)
    \o <<LF>>
copyOut(rows) == FlattenSeq([i \in 1..Len(rows) |-> copyLine(rows[i])])

TrimLF(t) == SubSeq(t, 1, Max({0} \cup {i \in 1..Len(t) : t[i] # LF}))

\* The rows a client sent, up to a lone \.; a row of another width fails it all.
parseCopyData(data, numCols) ==
  LET lines == Split(TrimLF(data), LF)
      ends == {i \in 1..Len(lines) : lines[i] = <<BS, ".">>}
      n == IF ends = {} THEN Len(lines) ELSE Min(ends) - 1
      fields(i) == Split(lines[i], TAB)
      value(f) == IF f = Marker THEN NULL ELSE Text(unescapeCopyText(f))
  IN IF TrimLF(data) = <<>> THEN [failed |-> FALSE, rows |-> <<>>]
     ELSE IF \E i \in 1..n : Len(fields(i)) # numCols THEN [failed |-> TRUE, rows |-> <<>>]
     ELSE [failed |-> FALSE,
           rows |-> [i \in 1..n |-> [j \in 1..numCols |-> value(fields(i)[j])]]]

\* What is sent may be what a client wrote (pg_dump: NULL is its marker, and a lone \.
\* ends it) or what COPY TO wrote.
Sent(rows, theirs) ==
  FlattenSeq([i \in 1..Len(rows) |->
                JoinedBy([j \in 1..Len(rows[i]) |->
                            IF theirs /\ rows[i][j].null THEN Marker
                            ELSE escapeCopyText(IF rows[i][j].null THEN Marker ELSE rows[i][j].text)], <<TAB>>)
                  \o <<LF>>])
  \o (IF theirs THEN <<BS, ".", LF>> ELSE <<>>)

\* The rows a client wrote are read as they were written.  Those that COPY TO wrote are
\* read in their number and order, up to the last that is not an empty line, and every
\* text in them is.  A NULL in them is not: its marker was escaped (copy.go:257, 268).
CopyRight(rows, numCols, theirs) ==
  LET blank(i) == rows[i] = <<Text(<<>>)>>
      n == IF theirs THEN Len(rows) ELSE Max({0} \cup {i \in 1..Len(rows) : ~blank(i)})
      got == parseCopyData(Sent(rows, theirs), numCols)
  IN /\ ~theirs => copyOut(rows) = Sent(rows, FALSE)
     /\ ~got.failed /\ Len(got.rows) = n
     /\ \A i \in 1..n, j \in 1..numCols : theirs \/ ~rows[i][j].null => got.rows[i][j] = rows[i][j]

-----------------------------------------------------------------------------
(* Arrays (array.go:76-126, 342-364).                                      *)

Special == {"{", "}", ",", Quote, BS, " "}
InQuotes(t) ==
  <<Quote>> \o Escaped(t, LAMBDA c : IF c \in {BS, Quote} THEN <<BS, c>> ELSE <<c>>) \o <<Quote>>

\* Quoted when it would be taken for something else.
quotePGArrayElem(t) ==
  IF t = <<>> \/ t = <<"null">> \/ (\E i \in 1..Len(t) : t[i] \in Special) THEN InQuotes(t) ELSE t

pgArrayText(arr) ==
  <<"{">> \o JoinedBy([i \in 1..Len(arr) |-> IF arr[i].null THEN <<"null">> ELSE quotePGArrayElem(arr[i].text)],
                      <<",">>) \o <<"}">>

\* The array a client reads in such a text: an element ends at a comma outside quotes.
ReadArray(text) ==
  LET t == SubSeq(text, 2, Len(text) - 1)
      end(e, quoted) == IF ~quoted /\ e = <<"null">> THEN NULL ELSE Text(e)
      read == FoldLeft(LAMBDA s, c :
                         CASE s.escaped -> [s EXCEPT !.e = Append(@, c), !.escaped = FALSE]
                           [] ~s.escaped /\ c = BS -> [s EXCEPT !.escaped = TRUE]
                           [] ~s.escaped /\ c = Quote -> [s EXCEPT !.in = ~@, !.quoted = TRUE]
                           [] ~s.escaped /\ c = "," /\ ~s.in ->
                                [s EXCEPT !.arr = Append(@, end(s.e, s.quoted)), !.e = <<>>, !.quoted = FALSE]
                           [] OTHER -> [s EXCEPT !.e = Append(@, c)],
                       [arr |-> <<>>, e |-> <<>>, in |-> FALSE, quoted |-> FALSE, escaped |-> FALSE], t)
  IN IF t = <<>> THEN <<>> ELSE Append(read.arr, end(read.e, read.quoted))

\* A literal's elements: at every comma, whatever is quoted; quotes around are dropped.
TrimQuotes(t) ==
  LET P == {i \in 1..Len(t) : t[i] # Quote} IN IF P = {} THEN <<>> ELSE SubSeq(t, Min(P), Max(P))

pgArrayLitToJSON(text) ==
  LET t == SubSeq(text, 2, Len(text) - 1)
      parts == Split(t, ",")
      of(e) == IF TrimQuotes(e) = <<"null">> THEN NULL ELSE Text(TrimQuotes(e))
  IN IF t = <<>> THEN <<>> ELSE [i \in 1..Len(parts) |-> of(parts[i])]

\* A client reads the elements that are stored; a literal of plain ones is stored as it
\* is written (array.go:117-126, 342-364).
ArrayRight(arr) ==
  LET plain == \A i \in 1..Len(arr) : arr[i].null \/ quotePGArrayElem(arr[i].text) \in {arr[i].text, <<Quote, Quote>>}
  IN /\ ReadArray(pgArrayText(arr)) = arr
     /\ plain => pgArrayLitToJSON(pgArrayText(arr)) = arr

-----------------------------------------------------------------------------
(* hstore (engine/hstore.go:14-136, protocol/postgres/hstore.go:9-45).     *)

skipWS(s, i) == Min({k \in i..Len(s) : s[k] \notin Blanks} \cup {Len(s) + 1})

\* Where the quotes that open at i close.
closing(s, i) ==
  LET run(j) == j - 1 - Max({k \in i..j - 1 : s[k] # BS})
  IN Min({j \in i + 1..Len(s) : s[j] = Quote /\ run(j) % 2 = 0} \cup {Len(s) + 1})

\* A token from i on: a quoted one, or up to one of the stops.
hstoreToken(s, i, stops) ==
  LET end == closing(s, i)
      stop == Min({k \in i..Len(s) : s[k] \in stops} \cup {Len(s) + 1})
  IN IF i <= Len(s) /\ s[i] = Quote
     THEN [quoted |-> TRUE, text |-> Unescaped(SubSeq(s, i + 1, end - 1), Same), next |-> end + 1]
     ELSE [quoted |-> FALSE, text |-> SubSeq(s, i, stop - 1), next |-> stop]

\* The pairs of a literal, up to what is none; of two of one key the last counts.
hstoreIn(s) ==
  LET from[i \in 1..Len(s) + 4] ==
        LET key == hstoreToken(s, skipWS(s, i), Blanks \cup {"=", ","})
            arrow == skipWS(s, key.next)
            val == hstoreToken(s, skipWS(s, arrow + 2), Blanks \cup {","})
            value == IF ~val.quoted /\ val.text = <<"null">> THEN NULL ELSE Text(val.text)
            end == skipWS(s, val.next)
            rest == from[IF end <= Len(s) /\ s[end] = "," THEN end + 1 ELSE end]
        IN IF skipWS(s, i) > Len(s) \/ (~key.quoted /\ key.text = <<>>) THEN <<>>
           ELSE IF arrow >= Len(s) THEN <<>>
           ELSE IF s[arrow] # "=" \/ s[arrow + 1] # ">" THEN <<>>
           ELSE [k \in DOMAIN rest \cup {key.text} |-> IF k \in DOMAIN rest THEN rest[k] ELSE value]
  IN from[1]

hstoreQuote(t) == InQuotes(t)

\* The pairs in the order of keys.
hstoreOut(m, keys) ==
  JoinedBy([i \in 1..Len(keys) |->
              hstoreQuote(keys[i]) \o <<"=", ">">>
                \o (IF m[keys[i]].null THEN <<"null">> ELSE hstoreQuote(m[keys[i]].text))],
           <<",", " ">>)

\* A map is read back from what is written, and from its pairs without quotes or blanks
\* where they need none (engine/hstore.go:14-136).
HstoreRight(m, keys) ==
  LET bare(t) == t # <<>> /\ t # <<"null">> /\ \A i \in 1..Len(t) : t[i] \notin Blanks \cup {Quote, ",", "=", BS}
      value(v) == IF v.null THEN <<"null">> ELSE v.text
  IN /\ hstoreIn(hstoreOut(m, keys)) = m
     /\ (\A k \in DOMAIN m : bare(k) /\ (m[k].null \/ bare(m[k].text))) =>
          hstoreIn(JoinedBy([i \in 1..Len(keys) |-> keys[i] \o <<"=", ">">> \o value(m[keys[i]])], <<",">>)) = m
=============================================================================
