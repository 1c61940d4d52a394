--------------------------- MODULE SequenceCounters ---------------------------
(***************************************************************************)
(* Sequences (protocol/postgres/sequences.go, defaults.go): rows of the    *)
(* table _overlite_sequences.  The calls in a statement are evaluated one  *)
(* after the other before the statement runs, each with statements of its  *)
(* own; nextval reads the row and then writes it.                          *)
(*                                                                         *)
(* Integers are those of the code with fewer bits: MaxInt for 2^63 - 1.    *)
(***************************************************************************)
EXTENDS Versions, Integers, Sequences, SequencesExt

CONSTANTS Sequence,    \* names of sequences
          NoSequence,  \* no name
          MaxInt,      \* the largest integer
          CreateLists, \* bound: the options CREATE SEQUENCE lists
          AlterLists,  \* bound: and ALTER SEQUENCE
          Given,       \* bound: the values setval and RESTART WITH are given
          Statements,  \* bound: the calls in a session's statements
          MaxRecords,  \* bound: records of the column default
          MaxAsked     \* bound: the statements the sessions run

\* int64, with fewer bits.
MinInt == -MaxInt - 1
Ints == MinInt..MaxInt
Width == 2 * (MaxInt + 1)

\* An option of CREATE or ALTER SEQUENCE, and a call in a statement.
Option == {<<"CYCLE">>, <<"NO CYCLE">>, <<"NO MINVALUE">>, <<"NO MAXVALUE">>}
            \cup ({"START", "INCREMENT", "MINVALUE", "MAXVALUE"} \X Ints)
CallOf == [fn : {"nextval", "currval", "lastval", "setval"},
           seq : Sequence, val : Ints, called : BOOLEAN]

ASSUME CountersAssumption ==
  /\ NoSequence \notin Sequence
  /\ MaxInt \in Nat \ {0}
  /\ CreateLists \subseteq Seq(Option) /\ AlterLists \subseteq Seq(Option)
  /\ Given \subseteq Ints
  /\ \A s \in Session : Statements[s] \subseteq Seq(CallOf)
  /\ MaxRecords \in Nat
  /\ MaxAsked \in Nat

VARIABLES
  asked,    \* how many statements the sessions have run
  calls,    \* the calls left in a session's statement
  step,     \* nextval has read the row
  got,      \* and this is what it read
  seqCurr,  \* session.seqCurr
  seqLast,  \* session.seqLast
  given,    \* {the last value handed out since the counter was set}, or {}
  again     \* the sequences that handed one out again, or an earlier one

sessionVars == <<calls, step, got, seqCurr, seqLast>>
vars == <<txVars, asked, sessionVars, given, again>>

-----------------------------------------------------------------------------
(* One sequence's row.                                                     *)

\* int64 arithmetic.
Wrapped(n) == ((n - MinInt) % Width) + MinInt

Row == [last : Ints, incr : Ints, min : Ints, max : Ints, start : Ints,
        cycled : BOOLEAN, called : BOOLEAN]

NothingRead == [last |-> 0, incr |-> 0, min |-> 0, max |-> 0, start |-> 0,
                cycled |-> FALSE, called |-> FALSE]

\* defaultSeqOptions, for CREATE; the zero seqOptions, for ALTER.
Unset == [start |-> 0, incr |-> 0, min |-> 0, max |-> 0]
defaultSeqOptions == [start |-> 1, incr |-> 1, min |-> 1, max |-> MaxInt]

\* Where the last of these options is in the list, if one is there.
LastOf(tokens, options) ==
  {i \in DOMAIN tokens : /\ tokens[i][1] \in options
                         /\ \A j \in DOMAIN tokens : tokens[j][1] \in options => j <= i}

IsSet(tokens, option) == LastOf(tokens, {option}) # {}
Value(tokens, option, unset) ==
  IF IsSet(tokens, option) THEN tokens[CHOOSE i \in LastOf(tokens, {option}) : TRUE][2] ELSE unset

\* parseSeqOptions: the last of an option counts; "NO MINVALUE" and "NO
\* MAXVALUE" leave what there is, CACHE and AS change nothing.
parseSeqOptions(tokens, o) ==
  [start |-> Value(tokens, "START", o.start), startSet |-> IsSet(tokens, "START"),
   incr |-> Value(tokens, "INCREMENT", o.incr),
   min |-> Value(tokens, "MINVALUE", o.min), minSet |-> IsSet(tokens, "MINVALUE"),
   max |-> Value(tokens, "MAXVALUE", o.max), maxSet |-> IsSet(tokens, "MAXVALUE"),
   cycle |-> \E i \in LastOf(tokens, {"CYCLE", "NO CYCLE"}) : tokens[i][1] = "CYCLE"]

\* createSequence: a descending sequence has other defaults.
Created(tokens) ==
  LET o == parseSeqOptions(tokens, defaultSeqOptions)
      max == IF o.incr < 0 /\ ~o.maxSet THEN -1 ELSE o.max
      start == IF o.incr < 0 /\ ~o.startSet THEN max ELSE o.start
  IN [last |-> start, incr |-> o.incr,
      min |-> IF o.incr < 0 /\ ~o.minSet THEN MinInt ELSE o.min,
      max |-> max, start |-> start, cycled |-> o.cycle, called |-> FALSE]

\* alterSequence: START is ignored, and CYCLE is cleared unless it is named.
Altered(r, tokens) ==
  LET o == parseSeqOptions(tokens, Unset)
  IN [r EXCEPT !.incr = IF o.incr # 0 THEN o.incr ELSE @,
               !.min = IF o.minSet THEN o.min ELSE @,
               !.max = IF o.maxSet THEN o.max ELSE @,
               !.cycled = o.cycle]

\* What nextval computes from the row it has read.  The sum may wrap, and
\* is compared with the bounds after that.
Sum(r) == Wrapped(r.last + r.incr)

\* Mutant: one value too many.
PastMaxByOne(r) == r.called /\ r.incr > 0 /\ Sum(r) > r.max + 1

PastMax(r) == r.called /\ r.incr > 0 /\ Sum(r) > r.max
PastMin(r) == r.called /\ r.incr < 0 /\ Sum(r) < r.min
Exhausted(r) == (PastMax(r) \/ PastMin(r)) /\ ~r.cycled

NextValue(r) ==
  IF ~r.called THEN r.last
  ELSE IF PastMax(r) THEN r.min
  ELSE IF PastMin(r) THEN r.max
  ELSE Sum(r)

\* The values go on in the direction of the increment, without a wrap.
Overflows(r) == r.called /\ Sum(r) # r.last + r.incr
Ascends(r) == r.called => ~(PastMax(r) \/ PastMin(r) \/ Overflows(r) \/ r.incr = 0)

Beyond(v, g, r) == IF r.incr > 0 THEN v > g ELSE v < g

-----------------------------------------------------------------------------
(* The database and the sessions.                                          *)

\* A version: the rows of _overlite_sequences, whether there is a table whose
\* column has the default nextval(Default), and how many records of that
\* default _overlite_defaults has.
Version == [seqs : Keyed(Sequence, Row), table : BOOLEAN, records : 0..MaxRecords]
NoDatabase == [seqs |-> [q \in {} |-> NothingRead], table |-> FALSE, records |-> 0]

TypeOK ==
  /\ db \in Version /\ work \in Version
  /\ writer \in Session \cup {NoSession}
  /\ failed \in BOOLEAN
  /\ asked \in 0..MaxAsked
  /\ calls \in [Session -> Seq(CallOf)]
  /\ step \in [Session -> {"call", "write"}]
  /\ got \in [Session -> Row]
  /\ seqCurr \in [Session -> Keyed(Sequence, Ints)]
  /\ seqLast \in [Session -> Sequence \cup {NoSequence}]
  /\ given \in [Sequence -> SUBSET Ints]
  /\ again \subseteq Sequence

Init ==
  /\ VersionsInit(NoDatabase)
  /\ asked = 0
  /\ calls = [s \in Session |-> <<>>]
  /\ step = [s \in Session |-> "call"]
  /\ got = [s \in Session |-> NothingRead]
  /\ seqCurr = [s \in Session |-> [q \in {} |-> 0]]
  /\ seqLast = [s \in Session |-> NoSequence]
  /\ given = [q \in Sequence |-> {}]
  /\ again = {}

\* The session waits for a statement, would run it, and gets one.
Asks(s) ==
  /\ calls[s] = <<>>
  /\ ~(writer = s /\ failed)
  /\ asked < MaxAsked
  /\ asked' = asked + 1

\* The statement of s ends with an error.
Fail(s) ==
  /\ calls' = [calls EXCEPT ![s] = <<>>]
  /\ step' = [step EXCEPT ![s] = "call"]
  /\ got' = [got EXCEPT ![s] = NothingRead]
  /\ Failure(s)
  /\ UNCHANGED <<seqCurr, seqLast, given, again>>

\* A row was made, set or lost: its values start anew.
Anew(Q) ==
  /\ given' = [q \in Sequence |-> IF q \in Q THEN {} ELSE given[q]]
  /\ UNCHANGED again

-----------------------------------------------------------------------------
(* Transactions.                                                           *)

Begin(s) ==
  /\ Asks(s)
  /\ BeginTx(s)
  /\ UNCHANGED <<sessionVars, given, again>>

Commit(s) ==
  /\ calls[s] = <<>>
  /\ CommitTx(s)
  /\ UNCHANGED <<asked, sessionVars, given, again>>

\* The counters return to what they were before the transaction.
Rollback(s) ==
  /\ calls[s] = <<>>
  /\ RollbackTx(s)
  /\ Anew({q \in Sequence :
            \/ (q \in DOMAIN db.seqs) # (q \in DOMAIN work.seqs)
            \/ q \in DOMAIN db.seqs /\ db.seqs[q] # work.seqs[q]})
  /\ UNCHANGED <<asked, sessionVars>>

-----------------------------------------------------------------------------
(* CREATE, ALTER and DROP SEQUENCE.                                        *)

\* With IF NOT EXISTS nothing happens if there is one.
createSequence(s, q, tokens) ==
  /\ Asks(s)
  /\ q \notin DOMAIN View(s).seqs
  /\ Write(s, [View(s) EXCEPT !.seqs = With(@, q, Created(tokens))])
  /\ Anew({q})
  /\ UNCHANGED sessionVars

\* Without it the INSERT fails.
CreateExisting(s, q) ==
  /\ Asks(s)
  /\ q \in DOMAIN View(s).seqs
  /\ Fail(s)

\* An UPDATE of a row that may not be there.
Update(s, q, r) ==
  IF q \in DOMAIN View(s).seqs
  THEN Write(s, [View(s) EXCEPT !.seqs = With(@, q, r)])
  ELSE Write(s, View(s))

alterSequence(s, q, tokens) ==
  /\ Asks(s)
  /\ q \in DOMAIN View(s).seqs
  /\ Update(s, q, Altered(View(s).seqs[q], tokens))
  /\ Anew({q})
  /\ UNCHANGED sessionVars

\* RESTART, and RESTART WITH n.
Restart(s, q, n) ==
  /\ Asks(s)
  /\ q \in DOMAIN View(s).seqs
  /\ n \in Given \cup {View(s).seqs[q].start}
  /\ Update(s, q, [View(s).seqs[q] EXCEPT !.last = n, !.called = FALSE])
  /\ Anew({q})
  /\ UNCHANGED sessionVars

\* DROP SEQUENCE forgets the session's currval, but not that it was the last.
dropSequence(s, q) ==
  /\ Asks(s)
  /\ Write(s, [View(s) EXCEPT !.seqs = Without(@, q)])
  /\ seqCurr' = [seqCurr EXCEPT ![s] = Without(@, q)]
  /\ Anew({q})
  /\ UNCHANGED <<calls, step, got, seqLast>>

-----------------------------------------------------------------------------
(* The calls of a statement: scanFuncCalls evaluates them left to right.   *)

Statement(s, list) ==
  /\ Asks(s)
  /\ calls' = [calls EXCEPT ![s] = list]
  /\ UNCHANGED <<txVars, step, got, seqCurr, seqLast, given, again>>

Call(s, fn) == calls[s] # <<>> /\ calls[s][1].fn = fn

Returns(s) ==
  /\ calls' = [calls EXCEPT ![s] = Tail(@)]
  /\ step' = [step EXCEPT ![s] = "call"]
  /\ got' = [got EXCEPT ![s] = NothingRead]

rememberSeq(s, q, v) ==
  /\ seqCurr' = [seqCurr EXCEPT ![s] = With(@, q, v)]
  /\ seqLast' = [seqLast EXCEPT ![s] = q]

\* Mutant: it reads what is committed, over another connection.
NextvalReadsCommitted(s) ==
  LET q == calls[s][1].seq
  IN /\ Call(s, "nextval")
     /\ step[s] = "call"
     /\ q \in DOMAIN db.seqs
     /\ step' = [step EXCEPT ![s] = "write"]
     /\ got' = [got EXCEPT ![s] = db.seqs[q]]
     /\ UNCHANGED <<txVars, asked, calls, seqCurr, seqLast, given, again>>

\* nextval, its SELECT.
NextvalReads(s) ==
  LET q == calls[s][1].seq
  IN /\ Call(s, "nextval")
     /\ step[s] = "call"
     /\ q \in DOMAIN View(s).seqs
     /\ step' = [step EXCEPT ![s] = "write"]
     /\ got' = [got EXCEPT ![s] = View(s).seqs[q]]
     /\ UNCHANGED <<txVars, asked, calls, seqCurr, seqLast, given, again>>

\* Mutant: the UPDATE leaves is_called.
NextvalWritesLast(s) ==
  LET q == calls[s][1].seq
      r == got[s]
      v == NextValue(r)
      overtaken == writer # s /\ (q \in DOMAIN db.seqs => db.seqs[q] # r)
      goesOn == Ascends(r) /\ ~overtaken
  IN /\ Call(s, "nextval")
     /\ step[s] = "write"
     /\ ~Exhausted(r)
     /\ Update(s, q, [View(s).seqs[q] EXCEPT !.last = v])
     /\ rememberSeq(s, q, v)
     /\ Returns(s)
     /\ given' = [given EXCEPT ![q] = {v}]
     /\ again' = IF goesOn /\ (\E g \in given[q] : ~Beyond(v, g, r))
                 THEN again \cup {q} ELSE again
     /\ UNCHANGED asked

\* nextval, its UPDATE: it sets what it computed, whatever the row is by now.
\* given and again tell whether the value is past those handed out before,
\* from where the counter was last set, wrapped, or overtaken: set back by a
\* nextval outside a transaction that read it before others changed it.
NextvalWrites(s) ==
  LET q == calls[s][1].seq
      r == got[s]
      v == NextValue(r)
      overtaken == writer # s /\ (q \in DOMAIN db.seqs => db.seqs[q] # r)
      goesOn == Ascends(r) /\ ~overtaken
  IN /\ Call(s, "nextval")
     /\ step[s] = "write"
     /\ ~Exhausted(r)
     /\ Update(s, q, [View(s).seqs[q] EXCEPT !.last = v, !.called = TRUE])
     /\ rememberSeq(s, q, v)
     /\ Returns(s)
     /\ given' = [given EXCEPT ![q] = {v}]
     /\ again' = IF goesOn /\ (\E g \in given[q] : ~Beyond(v, g, r))
                 THEN again \cup {q} ELSE again
     /\ UNCHANGED asked

\* "reached maximum value of sequence", or of minimum.
NextvalFails(s) ==
  /\ Call(s, "nextval")
  /\ IF step[s] = "write"
       THEN Exhausted(got[s])
       ELSE calls[s][1].seq \notin DOMAIN View(s).seqs
  /\ Fail(s)
  /\ UNCHANGED asked

\* currval and lastval; after DROP SEQUENCE lastval answers 0.
Lookup(s) ==
  /\ \/ Call(s, "currval") /\ calls[s][1].seq \in DOMAIN seqCurr[s]
     \/ Call(s, "lastval") /\ seqLast[s] # NoSequence
  /\ Returns(s)
  /\ UNCHANGED <<txVars, asked, seqCurr, seqLast, given, again>>

LookupFails(s) ==
  /\ \/ Call(s, "currval") /\ calls[s][1].seq \notin DOMAIN seqCurr[s]
     \/ Call(s, "lastval") /\ seqLast[s] = NoSequence
  /\ Fail(s)
  /\ UNCHANGED asked

setval(s) ==
  LET c == calls[s][1]
  IN /\ Call(s, "setval")
     /\ c.seq \in DOMAIN View(s).seqs
     /\ Update(s, c.seq, [View(s).seqs[c.seq] EXCEPT !.last = c.val, !.called = c.called])
     /\ IF c.called THEN rememberSeq(s, c.seq, c.val) ELSE UNCHANGED <<seqCurr, seqLast>>
     /\ Returns(s)
     /\ Anew({c.seq})
     /\ UNCHANGED asked

setvalFails(s) ==
  /\ Call(s, "setval")
  /\ calls[s][1].seq \notin DOMAIN View(s).seqs
  /\ Fail(s)
  /\ UNCHANGED asked

\* The busy timeout, while another session's transaction keeps the lock.
Locked(s) ==
  /\ ~MayWrite(s)
  /\ Call(s, "setval") \/ (Call(s, "nextval") /\ step[s] = "write")
  /\ Fail(s)
  /\ UNCHANGED asked

-----------------------------------------------------------------------------
(* A column with DEFAULT nextval(q), of the one table.                     *)

\* CREATE TABLE [IF NOT EXISTS]: the default is recorded before the table is
\* created, and even if it is there already.
CreateTable(s) ==
  /\ Asks(s)
  /\ View(s).records < MaxRecords
  /\ Write(s, [View(s) EXCEPT !.records = @ + 1, !.table = TRUE])
  /\ UNCHANGED <<sessionVars, given, again>>

\* DROP TABLE leaves the records.
DropTable(s) ==
  /\ Asks(s)
  /\ View(s).table
  /\ Write(s, [View(s) EXCEPT !.table = FALSE])
  /\ UNCHANGED <<sessionVars, given, again>>

\* INSERT without the column: one call for every tuple and record.
Insert(s, q, tuples) ==
  /\ Asks(s)
  /\ View(s).table
  /\ View(s).records > 0
  /\ calls' = [calls EXCEPT ![s] =
                 [i \in 1..(tuples * View(s).records) |->
                    [fn |-> "nextval", seq |-> q, val |-> 0, called |-> TRUE]]]
  /\ UNCHANGED <<txVars, step, got, seqCurr, seqLast, given, again>>

-----------------------------------------------------------------------------
Next ==
  \E s \in Session :
    \/ Begin(s)
    \/ Commit(s) \/ Rollback(s)
    \/ \E q \in Sequence :
         \/ \E o \in CreateLists : createSequence(s, q, o)
         \/ \E o \in AlterLists : alterSequence(s, q, o)
         \/ \E n \in Ints : Restart(s, q, n)
         \/ CreateExisting(s, q)
         \/ dropSequence(s, q)
         \/ \E k \in 1..2 : Insert(s, q, k)
    \/ \E list \in Statements[s] : Statement(s, list)
    \/ NextvalReads(s) \/ NextvalWrites(s) \/ NextvalFails(s)
    \/ Lookup(s) \/ LookupFails(s)
    \/ setval(s) \/ setvalFails(s)
    \/ Locked(s)
    \/ CreateTable(s) \/ DropTable(s)

Spec == Init /\ [][Next]_vars

-----------------------------------------------------------------------------
(* What must hold.                                                         *)

\* A sequence hands a value out once, counting from where its counter was set
\* (created, altered, restarted, setval, rolled back), wrapped, or was set back
\* by a nextval outside a transaction that had read it before another session
\* changed it; only an INCREMENT of 0 repeats it (sequences.go:321-359).
HandedOutOnce == again = {}

\* In a transaction nextval never overwrites what others did: the row is the
\* one it has read (sqlite.go:138, _txlock=immediate).
NoOverwriteInTx ==
  \A s \in Session :
     writer = s /\ step[s] = "write" =>
        /\ calls[s][1].seq \in DOMAIN work.seqs
        /\ work.seqs[calls[s][1].seq] = got[s]

\* The counter stays within the sequence's bounds, or nextval fails, from any
\* row whose counter is within them -- unless the sum leaves the integers,
\* which only a bound within one increment of their end allows.
WithinBounds ==
  \A s \in Session : \A q \in DOMAIN View(s).seqs :
     LET r == View(s).seqs[q]
     IN r.min <= r.last /\ r.last <= r.max =>
           \/ Exhausted(r)
           \/ r.min <= NextValue(r) /\ NextValue(r) <= r.max
           \/ Overflows(r) /\ (r.max > MaxInt - r.incr \/ r.min < MinInt - r.incr)
=============================================================================
