----------------------------- MODULE MCSequences -----------------------------
(* Two sessions and a sequence with the integers -4..3.                      *)
EXTENDS SequenceCounters
CONSTANTS a, b, ids

Fn(fn, val, called) == [fn |-> fn, seq |-> ids, val |-> val, called |-> called]
next == Fn("nextval", 0, TRUE)

MCCreateLists ==
  { <<>>, << <<"INCREMENT", 2>>, <<"START", 3>> >>,
    << <<"INCREMENT", -2>>, <<"START", 1>>, <<"MAXVALUE", 1>>, <<"NO MINVALUE">> >> }
MCAlterLists ==
  { << <<"CYCLE">>, <<"MAXVALUE", 2>> >>, << <<"INCREMENT", 1>>, <<"MINVALUE", -3>> >> }
MCStatements ==
  (a :> { <<next>>, <<Fn("setval", 2, TRUE), next>> }) @@
  (b :> { <<next, Fn("currval", 0, TRUE)>>, <<Fn("lastval", 0, TRUE)>> })
=============================================================================
