------------------------------- MODULE MCParts -------------------------------
EXTENDS Parts, TLC

CONSTANTS u1, u2, d1, d2, a1, a2, p1, p2, n1, n2, s1, s2, r1, r2

Upto(A, n) == UNION {[1..k -> A] : k \in 0..n}

\* Authentication.
MCFold == [u \in User |-> u1]
Named(x) == {Pattern("name", x)}
Every == {All}
Anywhere == Pattern("all", {})
Line(toks, before) == [toks |-> toks, before |-> before]
Conf(lines) == [conf |-> lines, yaml |-> none]
MCFiles == {
  [conf |-> none, yaml |-> none],
  Conf(<<Line(<<"local", Every, Every, "peer">>, 4),
         Line(<<"host", Named(d1), Every, Pattern("cidr", {a1}), "md5">>, 5),
         Line(<<"host", Every, Every, Anywhere, "trust">>, 0),
         Line(<<"hostssl", Every, Named(u1), Anywhere, "scram-sha-256">>, 5)>>),
  Conf(<<Line(<<"host", Every, Every, Anywhere, "password">>, 3),
         Line(<<"local", Every, Every, "trust">>, 4)>>),
  Conf(<<Line(<<"host", {Pseudo}, Every, Anywhere, "trust">>, 5),
         Line(<<"hostnossl", Every, Every, Pattern("samehost", {}), "password">>, 5),
         Line(<<"host", Every, {Pattern("+", u2)}, Anywhere, "reject">>, 5)>>),
  [conf |-> none,
   yaml |-> <<Rule("hostnossl", {}, Named(u2), Anywhere, "reject"),
              Rule("host", Named(d2), {}, Pattern("name", {}), "trust"),
              Rule("host", {}, {}, Anywhere, "scram-sha-256")>>] }
MCSettings == {[password |-> none, method |-> ""]} \cup [password : {p1}, method : {"", "md5", "password"}]

\* Row-level security.
Policies(command, to, permissive, using, check) ==
  [command |-> command, roles |-> to, permissive |-> permissive, using |-> using, check |-> check]
MCPolicy == {Policies("ALL", {}, TRUE, {r1}, {}), Policies("INSERT", {"me"}, TRUE, {}, {r2}),
             Policies("SELECT", {"them"}, TRUE, {r2}, {}), Policies("ALL", {"public"}, FALSE, {r1}, {r2}),
             Policies("UPDATE", {"us", "them"}, TRUE, {r2}, {})}
MCCopy == (r1 :> r2) @@ (r2 :> r1)
Standing(owner) == [super |-> FALSE, bypass |-> FALSE, owner |-> owner]
Version(f, p, o) == [rows |-> Row, flags |-> f, policies |-> p, standing |-> Standing(o)]
Flags(enabled, forced) == {[enabled |-> enabled, forced |-> forced]}
MCStarts ==
  {Version(Flags(TRUE, f), p, o) : f \in BOOLEAN, p \in {x \in SUBSET MCPolicy : Cardinality(x) <= 2}, o \in BOOLEAN}
    \cup {Version({}, {}, FALSE), Version(Flags(FALSE, TRUE), {}, TRUE)}

\* Values.
MCCells == {Cell("null", 0), Cell("int", 10), Cell("int", -20), Cell("float", 5), Cell("text", 3), Cell("word", 1)}
MCInt64 == -30..30
MCBounds == {R!NoBound, R!NumberText(4, ".0"), R!OtherText(2)} \cup {R!NumberText(n, "") : n \in {2, 4, 6}}
MCRanges == {R!EmptyText} \cup {R!RangeText(a, b, i, j) : a \in MCBounds, b \in MCBounds, i \in BOOLEAN, j \in BOOLEAN}
MCPoints == 1..7
Days(y, m) == {1, 2, 15, 28, T!MonthDays(y, m) - 1, T!MonthDays(y, m)}
Clocks == {<<0, 0, 0>>, <<0, 59, 59>>, <<11, 0, 59>>, <<12, 30, 0>>, <<23, 59, 59>>}
MCMoments == UNION {{T!Time(y, m, d, c[1], c[2], c[3]) : d \in Days(y, m), c \in Clocks} : y \in 1999..2004, m \in 1..12}
Ends == UNION {{T!Time(y, m, d, c[1], c[2], c[3]) : d \in Days(y, m), c \in {<<0, 0, 0>>, <<12, 30, 5>>, <<12, 29, 50>>}}
               : y \in {2000, 2001}, m \in {1, 2, 3, 12}}
MCAges == Ends \X Ends
MCNumbers == (-2600..2600) \X {1, 10, 100}
MCFractions == {f \in (-7..7) \X (1..130) : \A k \in 2..7 : f[1] % k # 0 \/ f[2] % k # 0}
MCTypes == {t \in {"varchar", "char", "numeric", "timestamp", "integer"} \X Upto({0, 1, 10, 1000}, 2) :
              t[1] # "numeric" => Len(t[2]) <= 1}

\* Texts.
Body == {"create", "temp", "trigger", "begin", "case", "end", ";", "'", "$"}
MCMessages ==
  Upto({"'", ";", "e", "\\", "x", "\""}, 5) \cup Upto({"-", "\n", ";", "/", "*", "'"}, 5)
    \cup Upto({"$", "x", ";", "1", "'"}, 5)
    \cup {<<"create", "trigger">> \o t : t \in Upto(Body, 4)}
    \cup {<<"create", "or replace", "trigger", "begin">> \o t : t \in Upto(Body, 4)}

\* Phrases of P, of those and others, of those and one of few, of dates.
Word(w) == D!Plain(<<w>>)
Phrases(P, Others, Dates) ==
  {D!Group(p) : p \in P} \cup {D!Call("f", p) : p \in P}
    \cup {D!Cast(p, t, s) : p \in P, t \in {"int", "regclass"}, s \in {<<>>, <<"[]">>}}
    \cup {D!Plus(p, s) : p \in Dates, s \in D!Signs}
    \cup {D!Between(p, op, r) : p \in P, op \in D!Existing \cup D!Containing \cup {"&&"}, r \in Others}
    \cup {D!Between(p, op, Word(r)) : p \in P, op \in D!Matching, r \in {"'a'", "b"}}
    \cup {D!Aggregate(p, r) : p \in P, r \in Others}
Simple == {Word(w) : w \in {"a", "t.b", "'a'", "'1'", "1"}}
Few == {Word("a"), D!Call("f", Word("a")), D!Cast(Word("a"), "jsonb", <<>>)}
Nested == Phrases(Simple, Simple, Simple)
Datelike == Simple \cup {D!Group(p) : p \in Nested} \cup {D!Call("f", p) : p \in Nested}
              \cup {D!Plus(Word("a"), "+"), D!Aggregate(Word("b"), Word("a"))}
Limits == {{}, {Word("1")}, {D!Cast(Word("a"), "int", <<>>)}, {D!Group(Word("1"))}}
Queries(I) == {D!Query(i, l, o, f, <<>>) : i \in I, l \in Limits, o \in Limits, f \in BOOLEAN}
Subqueries == {D!Group(D!Query(Word("a"), l, {Word("1")}, f, <<>>)) : l \in {{}, {Word("a")}}, f \in BOOLEAN}
\* Literals with whole parentheses, and with what means something outside of them.
Quoted == {D!Spelled(t) : t \in {<<" (", ")">>, <<"a", "::", "int">>, <<"@>", "?">>, <<"~", "&&">>,
                                  <<"limit", "offset">>}}
AboutQuoted == Phrases(Quoted, Quoted \cup {Word("a")}, {})
                 \cup {D!Between(Word("a"), op, D!Group(p)) : op \in D!Containing, p \in Quoted}
MCExpressions ==
  AboutQuoted \cup Queries(Quoted)
    \cup Nested \cup Phrases(Datelike \cup {D!Cast(p, "int", <<>>) : p \in Simple}, Few, Datelike)
    \cup Queries({Word("a"), Word("t.limit"), D!Plain(<<"a", "as", "offset">>), D!Cast(Word("a"), "int", <<>>)}
                   \cup Subqueries \cup {D!Between(p, "@>", Word("a")) : p \in Subqueries})
    \cup {D!Then(D!Plain(<<"select", "a", "union">>), p) : p \in Queries({Word("a")})}
    \cup {D!Then(p, Word(";")) : p \in Queries({Word("a")})}
MCIntervals == Upto([n : {-2, 3}, unit : {"yr", "year", "mon", "w", "day", "hr", "min", "second"}], 2)

Tables == {F!Table(n, x) : n \in F!Named \cup F!System, x \in {<<>>, <<"as", "x">>, <<"x">>}}
Selects == {F!Select(F!Table(n, <<>>), F!Plain(<<>>)) : n \in F!Named}
Items == Tables \cup {F!Derived(s) : s \in Selects}
Lists == {F!Listed(f, g) : f \in Items, g \in Tables \ {F!Table("s.t", <<>>)}}
Conditions == {F!Plain(<<>>), F!Plain(<<"where", "a", "=", "b">>), F!Plain(<<"limit", "1">>)}
                \cup {F!Where(s) : s \in Selects}
MCReads == {F!Select(f, c) : f \in Items \cup Lists \cup {F!Joined(g, h) : g \in Items \cup Lists, h \in Items},
                             c \in Conditions}
Update == [first |-> <<"update">>, mid |-> <<"set", "a", "=", "b">>]
Delete == [first |-> <<"delete", "from">>, mid |-> <<>>]
MCWrites ==
  {<<n, F!Changing(f.first, n, f.mid, c, r)>> :
     n \in F!Named, f \in {Update, Delete}, r \in {<<>>, <<"returning", "a">>},
     c \in {F!Plain(<<>>), F!Plain(<<"a", "=", "b">>)}
             \cup {F!Then(F!Plain(<<"exists">>), F!Group(F!Select(F!Table("u", <<>>), F!Plain(<<"where", "b">>))))}}
MCAdditions ==
  F!Named \X {<<>>, <<"a">>, <<"a", "b">>}
    \X {<<"values", "(", "a", ",", "b", ")">>, <<"select", "a", "from", "u", "join", "t", "on", "c">>,
        <<"default", "values">>}
    \X {<<>>, <<"on", "conflict", "do", "nothing">>}

\* Texts of one field, element or value, or NULL.
Fields(A, n) == {C!NULL} \cup {C!Text(t) : t \in Upto(A, n)}
Rows(A, n, width, m) == Upto([1..width -> Fields(A, n)], m) \X {width} \X BOOLEAN
MCTransfers ==
  Rows({C!BS, C!TAB, C!LF, "t", "N", "."}, 2, 1, 1) \cup Rows({C!BS, "N", C!LF}, 2, 1, 2)
    \cup Rows({C!BS, C!TAB, "N"}, 2, 2, 1) \cup Rows({C!BS, C!TAB}, 1, 2, 2)
MCArrays == Upto(Fields(C!Special \cup {"a", "null"}, 2), 1) \cup Upto(Fields({",", C!Quote, C!BS, "a", "null"}, 1), 3)
Marks == {C!Quote, C!BS, ",", "=", " ", "a", "null"}
MCMaps ==
  {<<[k \in {a} |-> v], <<a>> >> : a \in Upto(Marks, 2), v \in Fields(Marks, 1)}
    \cup {<<[k \in {a, b} |-> IF k = a THEN v ELSE w], <<a, b>> >> :
            a \in Upto({C!BS, ",", "a"}, 1), b \in {<<"b">>, <<"null", "=">>},
            v \in Fields(Marks, 1), w \in Fields(Marks, 1)}
=============================================================================
