--------------------------- MODULE SequencesProofs ---------------------------
(***************************************************************************)
(* Proofs about SequenceCounters, for any sessions, sequences, statements, *)
(* options and any width of the integers.                                  *)
(***************************************************************************)
EXTENDS SequenceCounters, TLAPS

-----------------------------------------------------------------------------
(* Tables, and the other helpers.                                          *)

\* A table keeps its type when a row is put into it.
LEMMA WithTyped ==
  ASSUME NEW K, NEW R, NEW T \in Keyed(K, R), NEW k \in K, NEW row \in R
  PROVE  With(T, k, row) \in Keyed(K, R)
<1>1. PICK Q \in SUBSET K : T \in [Q -> R]
  BY DEF Keyed
<1>2. With(T, k, row) \in [Q \cup {k} -> R]
  BY <1>1 DEF With
<1>3. Q \cup {k} \in SUBSET K
  BY <1>1
<1> QED
  BY <1>2, <1>3 DEF Keyed

\* And when one is taken out of it.
LEMMA WithoutTyped ==
  ASSUME NEW K, NEW R, NEW T \in Keyed(K, R), NEW k
  PROVE  Without(T, k) \in Keyed(K, R)
<1>1. PICK Q \in SUBSET K : T \in [Q -> R]
  BY DEF Keyed
<1>2. Without(T, k) \in [Q \ {k} -> R]
  BY <1>1 DEF Without
<1>3. Q \ {k} \in SUBSET K
  BY <1>1
<1> QED
  BY <1>2, <1>3 DEF Keyed

\* The rows of a table are rows.
LEMMA RowTyped ==
  ASSUME NEW K, NEW R, NEW T \in Keyed(K, R)
  PROVE  /\ DOMAIN T \subseteq K
         /\ \A x \in DOMAIN T : T[x] \in R
BY DEF Keyed

\* The empty table.
LEMMA EmptyTyped ==
  ASSUME NEW K, NEW R, NEW c
  PROVE  [q \in {} |-> c] \in Keyed(K, R)
<1>1. [q \in {} |-> c] \in [{} -> R]
  OBVIOUS
<1>2. {} \in SUBSET K
  OBVIOUS
<1> QED
  BY <1>1, <1>2 DEF Keyed

\* A sum is cut off at the width of the integers, and is what it is within it.
LEMMA WrappedSum ==
  ASSUME NEW m \in Ints, NEW n \in Ints
  PROVE  /\ Wrapped(m + n) \in Ints
         /\ m + n \in Ints => Wrapped(m + n) = m + n
<1>1. MaxInt \in Nat \ {0} /\ MinInt = -MaxInt - 1 /\ Width = 2 * (MaxInt + 1)
  BY CountersAssumption DEF MinInt, Width
<1>2. m \in Int /\ n \in Int /\ MinInt <= m /\ m <= MaxInt /\ MinInt <= n /\ n <= MaxInt
  BY <1>1 DEF Ints
<1> DEFINE d == (m + n) - MinInt
<1>3. d \in Int /\ -Width < d /\ d < Width + Width /\ Width \in Nat \ {0}
  BY <1>1, <1>2
<1>4. d % Width \in 0..(Width - 1) /\ (0 <= d /\ d < Width => d % Width = d)
  BY <1>3
<1>5. Wrapped(m + n) = (d % Width) + MinInt
  BY DEF Wrapped
<1> HIDE DEF d
<1>6. Wrapped(m + n) \in Ints
  BY <1>1, <1>4, <1>5 DEF Ints
<1>7. ASSUME m + n \in Ints PROVE Wrapped(m + n) = m + n
  <2>1. MinInt <= m + n /\ m + n <= MaxInt
    BY <1>1, <1>2, <1>7 DEF Ints
  <2>2. 0 <= d /\ d < Width
    BY <1>1, <1>2, <2>1 DEF d
  <2> QED
    BY <1>1, <1>2, <1>4, <1>5, <2>2 DEF d
<1> QED
  BY <1>6, <1>7

\* The value nextval computes is an integer.
LEMMA NextValueTyped ==
  ASSUME NEW r \in Row
  PROVE  NextValue(r) \in Ints /\ Sum(r) \in Ints
<1>1. r.last \in Ints /\ r.incr \in Ints /\ r.min \in Ints /\ r.max \in Ints
  BY DEF Row
<1>2. Sum(r) \in Ints
  BY <1>1, WrappedSum DEF Sum
<1> QED
  BY <1>1, <1>2 DEF NextValue

\* Constants of the sequences are integers.
LEMMA SmallInts == {0, 1, -1, MinInt, MaxInt} \subseteq Ints
BY CountersAssumption DEF Ints, MinInt

\* The options listed have integers for their values.
LEMMA ValueTyped ==
  ASSUME NEW tokens \in Seq(Option), NEW unset \in Ints,
         NEW option \in {"START", "INCREMENT", "MINVALUE", "MAXVALUE"}
  PROVE  Value(tokens, option, unset) \in Ints
<1>1. CASE IsSet(tokens, option)
  <2>1. PICK i : i = CHOOSE j \in LastOf(tokens, {option}) : TRUE
    OBVIOUS
  <2>2. i \in LastOf(tokens, {option})
    BY <1>1, <2>1 DEF IsSet
  <2>3. tokens[i] \in Option /\ tokens[i][1] = option
    BY <2>2 DEF LastOf
  <2> DEFINE t == tokens[i]
  <2>4. t \in {"START", "INCREMENT", "MINVALUE", "MAXVALUE"} \X Ints
    <3>1. t # <<"CYCLE">> /\ t # <<"NO CYCLE">> /\ t # <<"NO MINVALUE">> /\ t # <<"NO MAXVALUE">>
      <4>1. t[1] \notin {"CYCLE", "NO CYCLE", "NO MINVALUE", "NO MAXVALUE"}
        BY <2>3
      <4>2. \A c : t[1] # c => t # <<c>>
        OBVIOUS
      <4> HIDE DEF t
      <4> QED
        BY <4>1, <4>2
    <3>2. t \in Option
      BY <2>3
    <3> HIDE DEF t
    <3> QED
      BY <3>1, <3>2 DEF Option
  <2>5. tokens[i][2] \in Ints
    BY <2>4
  <2> QED
    BY <1>1, <2>1, <2>5 DEF Value
<1>2. CASE ~IsSet(tokens, option)
  BY <1>2 DEF Value
<1> QED
  BY <1>1, <1>2

\* CREATE SEQUENCE makes a row.
LEMMA CreatedTyped ==
  ASSUME NEW tokens \in CreateLists
  PROVE  Created(tokens) \in Row
<1> DEFINE o == parseSeqOptions(tokens, defaultSeqOptions)
<1>1. tokens \in Seq(Option)
  BY CountersAssumption
<1>2. {1, -1, MaxInt, MinInt} \subseteq Ints
  BY SmallInts
<1>3. o.start \in Ints
  BY <1>1, <1>2, ValueTyped DEF parseSeqOptions, defaultSeqOptions
<1>4. o.incr \in Ints
  BY <1>1, <1>2, ValueTyped DEF parseSeqOptions, defaultSeqOptions
<1>5. o.min \in Ints
  BY <1>1, <1>2, ValueTyped DEF parseSeqOptions, defaultSeqOptions
<1>6. o.max \in Ints
  BY <1>1, <1>2, ValueTyped DEF parseSeqOptions, defaultSeqOptions
<1>7. o.cycle \in BOOLEAN
  BY DEF parseSeqOptions
<1> DEFINE max == IF o.incr < 0 /\ ~o.maxSet THEN -1 ELSE o.max
           start == IF o.incr < 0 /\ ~o.startSet THEN max ELSE o.start
           min == IF o.incr < 0 /\ ~o.minSet THEN MinInt ELSE o.min
<1>8. max \in Ints /\ min \in Ints
  BY <1>2, <1>5, <1>6
<1>9. start \in Ints
  BY <1>3, <1>8
<1>10. Created(tokens) = [last |-> start, incr |-> o.incr, min |-> min, max |-> max,
                          start |-> start, cycled |-> o.cycle, called |-> FALSE]
  BY DEF Created
<1> HIDE DEF o, max, start, min
<1> QED
  BY <1>4, <1>7, <1>8, <1>9, <1>10 DEF Row

\* ALTER SEQUENCE makes a row of a row.
LEMMA AlteredTyped ==
  ASSUME NEW tokens \in AlterLists, NEW r \in Row
  PROVE  Altered(r, tokens) \in Row
<1> DEFINE o == parseSeqOptions(tokens, Unset)
<1>1. tokens \in Seq(Option)
  BY CountersAssumption
<1>2. 0 \in Ints
  BY SmallInts
<1>3. o.incr \in Ints
  BY <1>1, <1>2, ValueTyped DEF parseSeqOptions, Unset
<1>4. o.min \in Ints
  BY <1>1, <1>2, ValueTyped DEF parseSeqOptions, Unset
<1>5. o.max \in Ints
  BY <1>1, <1>2, ValueTyped DEF parseSeqOptions, Unset
<1>6. o.cycle \in BOOLEAN
  BY DEF parseSeqOptions
<1>7. Altered(r, tokens) = [r EXCEPT !.incr = IF o.incr # 0 THEN o.incr ELSE @,
               !.min = IF o.minSet THEN o.min ELSE @,
               !.max = IF o.maxSet THEN o.max ELSE @,
               !.cycled = o.cycle]
  BY DEF Altered
<1> HIDE DEF o
<1> QED
  BY <1>3, <1>4, <1>5, <1>6, <1>7 DEF Row

-----------------------------------------------------------------------------
(* The invariant.                                                          *)

\* Outside a transaction there is one version.
Quiet == writer = NoSession => work = db

\* It is for a nextval that a row has been read.
Reads == \A s \in Session : step[s] = "write" => Call(s, "nextval")

\* The last value handed out is the one the row holds.
Holds(r, g) == g # {} => r.called = TRUE /\ g = {r.last}
Counted == \A q \in DOMAIN work.seqs : Holds(work.seqs[q], given[q])

Facts == Quiet /\ Reads /\ NoOverwriteInTx /\ Counted /\ HandedOutOnce
SequencesInv == TypeOK /\ Facts

\* What a session sees is a version, and its rows are rows.
LEMMA ViewTyped ==
  ASSUME TypeOK, NEW s \in Session
  PROVE  /\ View(s) \in Version
         /\ View(s).seqs \in Keyed(Sequence, Row)
         /\ \A q \in DOMAIN View(s).seqs : View(s).seqs[q] \in Row
<1>1. View(s) \in Version
  BY DEF TypeOK, View
<1>2. View(s).seqs \in Keyed(Sequence, Row)
  BY <1>1 DEF Version
<1> QED
  BY <1>1, <1>2, RowTyped

\* A version whose rows are replaced.
LEMMA RowsReplaced ==
  ASSUME NEW v \in Version, NEW T \in Keyed(Sequence, Row)
  PROVE  [v EXCEPT !.seqs = T] \in Version /\ [v EXCEPT !.seqs = T].seqs = T
BY DEF Version

\* The version an UPDATE makes.
Updated(v, q, r) == IF q \in DOMAIN v.seqs THEN [v EXCEPT !.seqs = With(@, q, r)] ELSE v

\* An UPDATE of a row changes that row.
LEMMA UpdatedTyped ==
  ASSUME NEW v \in Version, NEW q \in Sequence, NEW r, q \in DOMAIN v.seqs => r \in Row
  PROVE  /\ Updated(v, q, r) \in Version
         /\ DOMAIN Updated(v, q, r).seqs = DOMAIN v.seqs
         /\ q \in DOMAIN v.seqs => Updated(v, q, r).seqs[q] = r
         /\ \A p \in DOMAIN v.seqs : p # q => Updated(v, q, r).seqs[p] = v.seqs[p]
<1>1. v.seqs \in Keyed(Sequence, Row)
  BY DEF Version
<1>2. CASE q \in DOMAIN v.seqs
  <2> DEFINE T == With(v.seqs, q, r)
  <2>0. r \in Row
    BY <1>2
  <2>1. /\ T \in Keyed(Sequence, Row) /\ DOMAIN T = DOMAIN v.seqs \cup {q} /\ T[q] = r
        /\ \A p \in DOMAIN v.seqs : p # q => T[p] = v.seqs[p]
    <3>1. T \in Keyed(Sequence, Row)
      BY <1>1, <2>0, WithTyped
    <3> QED
      BY <3>1 DEF With
  <2>2. Updated(v, q, r) = [v EXCEPT !.seqs = T]
    BY <1>2 DEF Updated
  <2> HIDE DEF T
  <2>3. Updated(v, q, r) \in Version /\ Updated(v, q, r).seqs = T
    BY <2>1, <2>2, RowsReplaced
  <2> QED
    BY <1>2, <2>1, <2>3
<1>3. CASE q \notin DOMAIN v.seqs
  BY <1>3 DEF Updated
<1> QED
  BY <1>2, <1>3

\* Update writes that version.
LEMMA UpdateWrites ==
  ASSUME NEW s, NEW q, NEW r, Update(s, q, r)
  PROVE  Write(s, Updated(View(s), q, r))
BY DEF Update, Updated

\* A step that leaves the versions alone and is not a read of nextval.
LEMMA Idles ==
  ASSUME Facts, NEW s \in Session,
         UNCHANGED <<db, work, writer, given, again>>,
         step'[s] = "call",
         \A t \in Session \ {s} : /\ step'[t] = step[t] /\ calls'[t] = calls[t]
                                  /\ got'[t] = got[t]
  PROVE  Facts'
<1>1. Quiet' /\ Counted' /\ HandedOutOnce'
  BY DEF Facts, Quiet, Counted, HandedOutOnce
<1>2. Reads'
  BY DEF Facts, Reads, Call
<1>3. NoOverwriteInTx'
  BY DEF Facts, NoOverwriteInTx
<1> QED
  BY <1>1, <1>2, <1>3 DEF Facts

\* A session that may write sees the version it writes over.
LEMMA WriterSees ==
  ASSUME Quiet, NEW s \in Session, MayWrite(s)
  PROVE  View(s) = work
BY ConnectionsAssumption DEF Quiet, MayWrite, View

\* A step that writes a version.
LEMMA Wrote ==
  ASSUME Facts, NEW s \in Session, NEW v, Write(s, v),
         step'[s] = "call",
         \A t \in Session \ {s} : /\ step'[t] = step[t] /\ calls'[t] = calls[t]
                                  /\ got'[t] = got[t],
         \A q \in DOMAIN v.seqs : Holds(v.seqs[q], given'[q]),
         again' = {}
  PROVE  Facts'
<1>1. work' = v /\ writer' = writer /\ writer \in {s, NoSession}
      /\ db' = IF writer = s THEN db ELSE v
  BY DEF Write, MayWrite
<1>2. Quiet'
  BY <1>1, ConnectionsAssumption DEF Quiet
<1>3. Reads'
  BY DEF Facts, Reads, Call
<1>4. NoOverwriteInTx'
  BY <1>1, ConnectionsAssumption DEF NoOverwriteInTx
<1>5. Counted' /\ HandedOutOnce'
  BY <1>1 DEF Counted, HandedOutOnce
<1> QED
  BY <1>2, <1>3, <1>4, <1>5 DEF Facts

\* A session that waits for a statement has read nothing.
LEMMA AtRest ==
  ASSUME TypeOK, Facts, NEW s \in Session, calls[s] = <<>>
  PROVE  step[s] = "call"
BY DEF TypeOK, Facts, Reads, Call

\* Anew forgets the values of some sequences.
LEMMA AnewTyped ==
  ASSUME TypeOK, NEW Q, Anew(Q)
  PROVE  /\ given' \in [Sequence -> SUBSET Ints] /\ again' = again
         /\ \A q \in Sequence : given'[q] = IF q \in Q THEN {} ELSE given[q]
BY DEF TypeOK, Anew

\* The types of what a write leaves.
LEMMA WriteTyped ==
  ASSUME TypeOK, NEW s, NEW v \in Version, Write(s, v)
  PROVE  /\ db' \in Version /\ work' \in Version
         /\ writer' \in Session \cup {NoSession} /\ failed' \in BOOLEAN
BY DEF TypeOK, Write

\* The session's statement ends with an error.
LEMMA FailKeeps ==
  ASSUME SequencesInv, NEW s \in Session, Fail(s), asked' \in 0..MaxAsked
  PROVE  SequencesInv'
<1>1. TypeOK'
  <2>1. calls' \in [Session -> Seq(CallOf)]
    BY DEF SequencesInv, TypeOK, Fail
  <2>2. NothingRead \in Row
    BY SmallInts DEF NothingRead, Row
  <2>3. got' \in [Session -> Row]
    BY <2>2 DEF SequencesInv, TypeOK, Fail
  <2>4. step' \in [Session -> {"call", "write"}]
    BY DEF SequencesInv, TypeOK, Fail
  <2>5. failed' \in BOOLEAN /\ UNCHANGED <<db, work, writer>>
    BY DEF SequencesInv, TypeOK, Fail, Failure
  <2> QED
    BY <2>1, <2>3, <2>4, <2>5 DEF SequencesInv, TypeOK, Fail
<1>2. Facts'
  <2>1. UNCHANGED <<db, work, writer, given, again>>
    BY DEF Fail, Failure
  <2>2. /\ step'[s] = "call"
        /\ \A t \in Session \ {s} : /\ step'[t] = step[t] /\ calls'[t] = calls[t]
                                    /\ got'[t] = got[t]
    BY DEF SequencesInv, TypeOK, Fail
  <2> QED
    BY <2>1, <2>2, Idles DEF SequencesInv
<1> QED
  BY <1>1, <1>2 DEF SequencesInv

\* A call has answered.
LEMMA ReturnsTyped ==
  ASSUME TypeOK, NEW s \in Session, calls[s] # <<>>, Returns(s)
  PROVE  /\ calls' \in [Session -> Seq(CallOf)]
         /\ step' \in [Session -> {"call", "write"}]
         /\ got' \in [Session -> Row]
         /\ step'[s] = "call"
         /\ \A t \in Session \ {s} : /\ step'[t] = step[t] /\ calls'[t] = calls[t]
                                     /\ got'[t] = got[t]
<1>1. NothingRead \in Row
  BY SmallInts DEF NothingRead, Row
<1>2. Tail(calls[s]) \in Seq(CallOf)
  BY DEF TypeOK
<1> QED
  BY <1>1, <1>2 DEF TypeOK, Returns

\* The call a session is at.
LEMMA CallTyped ==
  ASSUME TypeOK, NEW s \in Session, NEW fn, Call(s, fn)
  PROVE  /\ calls[s] # <<>> /\ calls[s][1] \in CallOf
         /\ calls[s][1].seq \in Sequence /\ calls[s][1].val \in Ints
         /\ calls[s][1].called \in BOOLEAN
<1>1. calls[s] \in Seq(CallOf) /\ calls[s] # <<>>
  BY DEF TypeOK, Call
<1>2. calls[s][1] \in CallOf
  BY <1>1
<1> QED
  BY <1>1, <1>2 DEF CallOf

\* What the session remembers.
LEMMA RememberTyped ==
  ASSUME TypeOK, NEW s \in Session, NEW q \in Sequence, NEW v \in Ints, rememberSeq(s, q, v)
  PROVE  /\ seqCurr' \in [Session -> Keyed(Sequence, Ints)]
         /\ seqLast' \in [Session -> Sequence \cup {NoSequence}]
<1>1. seqCurr[s] \in Keyed(Sequence, Ints)
  BY DEF TypeOK
<1>2. With(seqCurr[s], q, v) \in Keyed(Sequence, Ints)
  BY <1>1, WithTyped
<1> QED
  BY <1>2 DEF TypeOK, rememberSeq

-----------------------------------------------------------------------------
(* The steps.                                                              *)

\* One more statement is asked for.
LEMMA AsksTyped ==
  ASSUME TypeOK, NEW s, Asks(s)
  PROVE  asked' \in 0..MaxAsked /\ calls[s] = <<>>
BY CountersAssumption DEF TypeOK, Asks

\* A statement that makes the rows of Q anew, or none, and keeps the others.
LEMMA DefinitionKeeps ==
  ASSUME SequencesInv, NEW s \in Session, Asks(s),
         NEW v \in Version, Write(s, v), NEW Q, Anew(Q),
         \A q \in DOMAIN v.seqs \ Q :
            q \in DOMAIN View(s).seqs /\ v.seqs[q] = View(s).seqs[q],
         UNCHANGED <<calls, step, got, seqLast>>,
         seqCurr' \in [Session -> Keyed(Sequence, Ints)]
  PROVE  SequencesInv'
<1>1. TypeOK /\ Facts
  BY DEF SequencesInv
<1>2. given' \in [Sequence -> SUBSET Ints] /\ again' = again
      /\ \A q \in Sequence : given'[q] = IF q \in Q THEN {} ELSE given[q]
  BY <1>1, AnewTyped
<1>3. TypeOK'
  <2>1. asked' \in 0..MaxAsked
    BY <1>1, AsksTyped
  <2>2. /\ db' \in Version /\ work' \in Version
        /\ writer' \in Session \cup {NoSession} /\ failed' \in BOOLEAN
    BY <1>1, WriteTyped
  <2> QED
    BY <1>1, <1>2, <2>1, <2>2 DEF TypeOK
<1>4. Facts'
  <2>1. step'[s] = "call"
    BY <1>1, AsksTyped, AtRest
  <2>2. \A t \in Session \ {s} : /\ step'[t] = step[t] /\ calls'[t] = calls[t]
                                 /\ got'[t] = got[t]
    OBVIOUS
  <2>3. View(s) = work
    BY <1>1, WriterSees DEF Facts, Write
  <2>4. v.seqs \in Keyed(Sequence, Row)
    BY DEF Version
  <2>5. DOMAIN v.seqs \subseteq Sequence
    BY <2>4, RowTyped
  <2>6. \A q \in DOMAIN v.seqs : Holds(v.seqs[q], given'[q])
    <3> SUFFICES ASSUME NEW q \in DOMAIN v.seqs PROVE Holds(v.seqs[q], given'[q])
      OBVIOUS
    <3>1. CASE q \in Q
      BY <1>2, <2>5, <3>1 DEF Holds
    <3>2. CASE q \notin Q
      <4>1. q \in DOMAIN work.seqs /\ v.seqs[q] = work.seqs[q] /\ given'[q] = given[q]
        BY <1>2, <2>3, <2>5, <3>2
      <4>2. Holds(work.seqs[q], given[q])
        BY <1>1, <4>1 DEF Facts, Counted
      <4> QED
        BY <4>1, <4>2
    <3> QED
      BY <3>1, <3>2
  <2>7. again' = {}
    BY <1>1, <1>2 DEF Facts, HandedOutOnce
  <2> QED
    BY <1>1, <2>1, <2>2, <2>6, <2>7, Wrote
<1> QED
  BY <1>3, <1>4 DEF SequencesInv

\* CREATE SEQUENCE
LEMMA CreateKeeps ==
  ASSUME SequencesInv, NEW s \in Session, NEW q \in Sequence, NEW tokens \in CreateLists,
         createSequence(s, q, tokens)
  PROVE  SequencesInv'
<1>1. TypeOK
  BY DEF SequencesInv
<1> DEFINE T == With(View(s).seqs, q, Created(tokens))
           v == [View(s) EXCEPT !.seqs = T]
<1>2. T \in Keyed(Sequence, Row)
  BY <1>1, ViewTyped, CreatedTyped, WithTyped
<1>3. \A p \in DOMAIN T \ {q} : p \in DOMAIN View(s).seqs /\ T[p] = View(s).seqs[p]
  BY DEF With
<1>4. Asks(s) /\ Write(s, v) /\ Anew({q}) /\ UNCHANGED <<calls, step, got, seqCurr, seqLast>>
  BY DEF createSequence, sessionVars
<1> HIDE DEF T
<1>5. v \in Version /\ v.seqs = T
  BY <1>1, <1>2, ViewTyped, RowsReplaced
<1> HIDE DEF v
<1>6. seqCurr' \in [Session -> Keyed(Sequence, Ints)]
  BY <1>1, <1>4 DEF TypeOK
<1> QED
  BY <1>3, <1>4, <1>5, <1>6, DefinitionKeeps

\* A statement that changes a row.
LEMMA UpdateKeeps ==
  ASSUME SequencesInv, NEW s \in Session, NEW q \in Sequence, NEW r \in Row,
         Asks(s), Update(s, q, r), Anew({q}), UNCHANGED sessionVars
  PROVE  SequencesInv'
<1>1. TypeOK
  BY DEF SequencesInv
<1> DEFINE v == Updated(View(s), q, r)
<1>2. Write(s, v)
  BY UpdateWrites
<1>3. v \in Version /\ DOMAIN v.seqs = DOMAIN View(s).seqs
      /\ \A p \in DOMAIN View(s).seqs : p # q => v.seqs[p] = View(s).seqs[p]
  BY <1>1, ViewTyped, UpdatedTyped
<1>4. UNCHANGED <<calls, step, got, seqCurr, seqLast>>
  BY DEF sessionVars
<1>5. seqCurr' \in [Session -> Keyed(Sequence, Ints)]
  BY <1>1, <1>4 DEF TypeOK
<1> HIDE DEF v
<1> QED
  BY <1>2, <1>3, <1>4, <1>5, DefinitionKeeps

\* ALTER SEQUENCE
LEMMA AlterKeeps ==
  ASSUME SequencesInv, NEW s \in Session, NEW q \in Sequence, NEW tokens \in AlterLists,
         alterSequence(s, q, tokens)
  PROVE  SequencesInv'
<1>1. View(s).seqs[q] \in Row
  BY ViewTyped DEF SequencesInv, alterSequence
<1>2. Altered(View(s).seqs[q], tokens) \in Row
  BY <1>1, AlteredTyped
<1> QED
  BY <1>2, UpdateKeeps DEF alterSequence

\* ALTER SEQUENCE ... RESTART
LEMMA RestartKeeps ==
  ASSUME SequencesInv, NEW s \in Session, NEW q \in Sequence, NEW n \in Ints,
         Restart(s, q, n)
  PROVE  SequencesInv'
<1>1. View(s).seqs[q] \in Row
  BY ViewTyped DEF SequencesInv, Restart
<1>2. [View(s).seqs[q] EXCEPT !.last = n, !.called = FALSE] \in Row
  BY <1>1 DEF Row
<1> QED
  BY <1>2, UpdateKeeps DEF Restart

\* DROP SEQUENCE
LEMMA DropKeeps ==
  ASSUME SequencesInv, NEW s \in Session, NEW q \in Sequence, dropSequence(s, q)
  PROVE  SequencesInv'
<1>1. TypeOK
  BY DEF SequencesInv
<1> DEFINE T == Without(View(s).seqs, q)
           v == [View(s) EXCEPT !.seqs = T]
<1>2. T \in Keyed(Sequence, Row)
  BY <1>1, ViewTyped, WithoutTyped
<1>3. \A p \in DOMAIN T : p \in DOMAIN View(s).seqs /\ T[p] = View(s).seqs[p]
  BY DEF Without
<1>4. Asks(s) /\ Write(s, v) /\ Anew({q}) /\ UNCHANGED <<calls, step, got, seqLast>>
  BY DEF dropSequence
<1> HIDE DEF T
<1>5. v \in Version /\ v.seqs = T
  BY <1>1, <1>2, ViewTyped, RowsReplaced
<1> HIDE DEF v
<1>6. seqCurr' \in [Session -> Keyed(Sequence, Ints)]
  <2>1. Without(seqCurr[s], q) \in Keyed(Sequence, Ints)
    BY <1>1, WithoutTyped DEF TypeOK
  <2> QED
    BY <1>1, <2>1 DEF TypeOK, dropSequence
<1> QED
  BY <1>3, <1>4, <1>5, <1>6, DefinitionKeeps

\* CREATE TABLE and DROP TABLE
LEMMA TableKeeps ==
  ASSUME SequencesInv, NEW s \in Session, CreateTable(s) \/ DropTable(s)
  PROVE  SequencesInv'
<1>1. TypeOK
  BY DEF SequencesInv
<1>2. View(s) \in Version
  BY <1>1, ViewTyped
<1>3. Anew({})
  BY <1>1 DEF TypeOK, Anew, CreateTable, DropTable
<1>4. /\ UNCHANGED <<calls, step, got, seqCurr, seqLast>> /\ Asks(s)
      /\ seqCurr' \in [Session -> Keyed(Sequence, Ints)]
  BY <1>1 DEF TypeOK, CreateTable, DropTable, sessionVars
<1>5. PICK v \in Version : v.seqs = View(s).seqs /\ Write(s, v)
  <2>1. CASE CreateTable(s)
    <3> DEFINE v == [View(s) EXCEPT !.records = @ + 1, !.table = TRUE]
    <3>1. View(s).records + 1 \in 0..MaxRecords
      BY <1>2, <2>1, CountersAssumption DEF CreateTable, Version
    <3>2. v \in Version /\ v.seqs = View(s).seqs
      BY <1>2, <3>1 DEF Version
    <3>3. Write(s, v)
      BY <2>1 DEF CreateTable
    <3> QED
      BY <3>2, <3>3
  <2>2. CASE DropTable(s)
    <3> DEFINE v == [View(s) EXCEPT !.table = FALSE]
    <3>1. v \in Version /\ v.seqs = View(s).seqs
      BY <1>2 DEF Version
    <3>2. Write(s, v)
      BY <2>2 DEF DropTable
    <3> QED
      BY <3>1, <3>2
  <2> QED
    BY <2>1, <2>2
<1> QED
  BY <1>3, <1>4, <1>5, DefinitionKeeps

\* A statement with calls.
LEMMA StatementKeeps ==
  ASSUME SequencesInv, NEW s \in Session, NEW list \in Seq(CallOf), Asks(s),
         calls' = [calls EXCEPT ![s] = list],
         UNCHANGED <<txVars, step, got, seqCurr, seqLast, given, again>>
  PROVE  SequencesInv'
<1>1. TypeOK /\ Facts
  BY DEF SequencesInv
<1>2. TypeOK'
  BY <1>1, AsksTyped DEF TypeOK, txVars
<1>3. step'[s] = "call"
  BY <1>1, AsksTyped, AtRest
<1>4. Facts'
  BY <1>1, <1>3, Idles DEF txVars, TypeOK
<1> QED
  BY <1>2, <1>4 DEF SequencesInv

\* INSERT makes calls of nextval.
LEMMA InsertTyped ==
  ASSUME TypeOK, NEW s \in Session, NEW q \in Sequence, NEW k \in 1..2
  PROVE  [i \in 1..(k * View(s).records) |->
            [fn |-> "nextval", seq |-> q, val |-> 0, called |-> TRUE]] \in Seq(CallOf)
<1> DEFINE n == View(s).records
           c == [fn |-> "nextval", seq |-> q, val |-> 0, called |-> TRUE]
<1>1. n \in Nat
  BY ViewTyped, CountersAssumption DEF Version
<1>2. k * n \in Nat
  <2>1. CASE k = 1
    BY <1>1, <2>1
  <2>2. CASE k = 2
    BY <1>1, <2>2
  <2> QED
    BY <2>1, <2>2
<1>3. c \in CallOf
  BY SmallInts DEF CallOf
<1> HIDE DEF n, c
<1> DEFINE N == k * n
<1>4. N \in Nat
  BY <1>2
<1> HIDE DEF N
<1>5. [i \in 1..N |-> c] \in Seq(CallOf)
  BY <1>3, <1>4
<1> QED
  BY <1>5 DEF N, n, c

\* The SELECT of nextval: in a transaction it reads the row that is there.
LEMMA NextvalReadsKeeps ==
  ASSUME SequencesInv, NEW s \in Session, NextvalReads(s)
  PROVE  SequencesInv'
<1>1. TypeOK /\ Facts
  BY DEF SequencesInv
<1> DEFINE q == calls[s][1].seq
<1>2. q \in DOMAIN View(s).seqs /\ View(s).seqs[q] \in Row
  BY <1>1, ViewTyped DEF NextvalReads
<1>3. /\ step' = [step EXCEPT ![s] = "write"]
      /\ got' = [got EXCEPT ![s] = View(s).seqs[q]]
      /\ UNCHANGED <<db, work, writer, failed, asked, calls, seqCurr, seqLast, given, again>>
      /\ Call(s, "nextval")
  BY DEF NextvalReads, txVars
<1>4. TypeOK'
  BY <1>1, <1>2, <1>3 DEF TypeOK
<1>5. Quiet' /\ Counted' /\ HandedOutOnce'
  BY <1>1, <1>3 DEF Facts, Quiet, Counted, HandedOutOnce
<1>6. Reads'
  BY <1>1, <1>3 DEF Facts, Reads, Call, TypeOK
<1>7. NoOverwriteInTx'
  <2> SUFFICES ASSUME NEW t \in Session, writer = t, step'[t] = "write"
               PROVE  /\ calls[t][1].seq \in DOMAIN work.seqs
                      /\ work.seqs[calls[t][1].seq] = got'[t]
    BY <1>3 DEF NoOverwriteInTx
  <2>1. CASE t = s
    <3>1. View(s) = work
      BY <2>1 DEF View
    <3>2. got'[s] = View(s).seqs[q]
      BY <1>1, <1>3 DEF TypeOK
    <3> QED
      BY <1>2, <2>1, <3>1, <3>2
  <2>2. CASE t # s
    <3>1. step[t] = "write" /\ got'[t] = got[t]
      BY <1>1, <1>3, <2>2 DEF TypeOK
    <3> QED
      BY <1>1, <3>1 DEF Facts, NoOverwriteInTx
  <2> QED
    BY <2>1, <2>2
<1> QED
  BY <1>4, <1>5, <1>6, <1>7 DEF SequencesInv, Facts

\* A call that writes a row, or finds none, and answers.
LEMMA CallWrites ==
  ASSUME SequencesInv, NEW s \in Session, NEW q \in Sequence, NEW r,
         q \in DOMAIN View(s).seqs => r \in Row,
         calls[s] # <<>>, Update(s, q, r), Returns(s),
         given' \in [Sequence -> SUBSET Ints],
         q \in DOMAIN View(s).seqs => Holds(r, given'[q]),
         \A p \in Sequence \ {q} : given'[p] = given[p],
         again' = {},
         asked' = asked,
         seqCurr' \in [Session -> Keyed(Sequence, Ints)],
         seqLast' \in [Session -> Sequence \cup {NoSequence}]
  PROVE  SequencesInv'
<1>1. TypeOK /\ Facts
  BY DEF SequencesInv
<1> DEFINE v == Updated(View(s), q, r)
<1>2. Write(s, v)
  BY UpdateWrites
<1>3. /\ v \in Version /\ DOMAIN v.seqs = DOMAIN View(s).seqs
      /\ q \in DOMAIN View(s).seqs => v.seqs[q] = r
      /\ \A p \in DOMAIN View(s).seqs : p # q => v.seqs[p] = View(s).seqs[p]
  BY <1>1, ViewTyped, UpdatedTyped
<1> HIDE DEF v
<1>4. View(s) = work
  BY <1>1, <1>2, WriterSees DEF Facts, Write
<1>5. /\ calls' \in [Session -> Seq(CallOf)]
      /\ step' \in [Session -> {"call", "write"}]
      /\ got' \in [Session -> Row]
      /\ step'[s] = "call"
      /\ \A t \in Session \ {s} : /\ step'[t] = step[t] /\ calls'[t] = calls[t]
                                  /\ got'[t] = got[t]
  BY <1>1, ReturnsTyped
<1>6. TypeOK'
  <2>1. /\ db' \in Version /\ work' \in Version
        /\ writer' \in Session \cup {NoSession} /\ failed' \in BOOLEAN
    BY <1>1, <1>2, <1>3, WriteTyped
  <2> QED
    BY <1>1, <1>5, <2>1 DEF TypeOK
<1>7. DOMAIN v.seqs \subseteq Sequence
  <2>1. v.seqs \in Keyed(Sequence, Row)
    BY <1>3 DEF Version
  <2> QED
    BY <2>1, RowTyped
<1>8. \A p \in DOMAIN v.seqs : Holds(v.seqs[p], given'[p])
  <2> SUFFICES ASSUME NEW p \in DOMAIN v.seqs PROVE Holds(v.seqs[p], given'[p])
    OBVIOUS
  <2>1. CASE p = q
    BY <1>3, <2>1
  <2>2. CASE p # q
    <3>1. v.seqs[p] = work.seqs[p] /\ given'[p] = given[p] /\ p \in DOMAIN work.seqs
      BY <1>3, <1>4, <1>7, <2>2
    <3>2. Holds(work.seqs[p], given[p])
      BY <1>1, <3>1 DEF Facts, Counted
    <3> QED
      BY <3>1, <3>2
  <2> QED
    BY <2>1, <2>2
<1>9. Facts'
  BY <1>1, <1>2, <1>5, <1>8, Wrote
<1> QED
  BY <1>6, <1>9 DEF SequencesInv

\* setval
LEMMA SetvalKeeps ==
  ASSUME SequencesInv, NEW s \in Session, setval(s)
  PROVE  SequencesInv'
<1>1. TypeOK /\ again = {}
  BY DEF SequencesInv, Facts, HandedOutOnce
<1> DEFINE c == calls[s][1]
           r == [View(s).seqs[c.seq] EXCEPT !.last = c.val, !.called = c.called]
<1>2. calls[s] # <<>> /\ c.seq \in Sequence /\ c.val \in Ints /\ c.called \in BOOLEAN
  BY <1>1, CallTyped DEF setval
<1>3. r \in Row
  <2>1. View(s).seqs[c.seq] \in Row
    BY <1>1, ViewTyped DEF setval
  <2> QED
    BY <1>2, <2>1 DEF Row
<1>4. /\ Update(s, c.seq, r) /\ Returns(s) /\ Anew({c.seq}) /\ asked' = asked
      /\ IF c.called THEN rememberSeq(s, c.seq, c.val) ELSE UNCHANGED <<seqCurr, seqLast>>
  BY DEF setval
<1>5. /\ seqCurr' \in [Session -> Keyed(Sequence, Ints)]
      /\ seqLast' \in [Session -> Sequence \cup {NoSequence}]
  <2>1. CASE c.called
    BY <1>1, <1>2, <1>4, <2>1, RememberTyped
  <2>2. CASE ~c.called
    BY <1>1, <1>4, <2>2 DEF TypeOK
  <2> QED
    BY <2>1, <2>2
<1> HIDE DEF r
<1>6. given' \in [Sequence -> SUBSET Ints] /\ again' = {}
      /\ \A p \in Sequence : given'[p] = IF p \in {c.seq} THEN {} ELSE given[p]
  BY <1>1, <1>4, AnewTyped
<1>7. Holds(r, given'[c.seq])
  BY <1>2, <1>6 DEF Holds
<1> HIDE DEF c
<1> QED
  BY <1>2, <1>3, <1>4, <1>5, <1>6, <1>7, CallWrites DEF c

\* The value nextval computes is past the last one, if its sequence goes on.
LEMMA PastTheLast ==
  ASSUME NEW r \in Row, r.called = TRUE, Ascends(r)
  PROVE  Beyond(NextValue(r), r.last, r)
<1>1. r.last \in Ints /\ r.incr \in Ints
  BY DEF Row
<1>2. r.last \in Int /\ r.incr \in Int
  BY <1>1, CountersAssumption DEF Ints, MinInt
<1>3. ~PastMax(r) /\ ~PastMin(r) /\ Sum(r) = r.last + r.incr /\ r.incr # 0
  BY DEF Ascends, Overflows
<1>4. NextValue(r) = r.last + r.incr
  BY <1>3 DEF NextValue
<1> QED
  BY <1>2, <1>3, <1>4 DEF Beyond

\* The UPDATE of nextval hands out a value that is past those before it.
LEMMA NextvalWritesKeeps ==
  ASSUME SequencesInv, NEW s \in Session, NextvalWrites(s)
  PROVE  SequencesInv'
<1>1. TypeOK /\ Facts
  BY DEF SequencesInv
<1> DEFINE q == calls[s][1].seq
           r == got[s]
           v == NextValue(r)
           new == [View(s).seqs[q] EXCEPT !.last = v, !.called = TRUE]
           overtaken == writer # s /\ (q \in DOMAIN db.seqs => db.seqs[q] # r)
           goesOn == Ascends(r) /\ ~overtaken
<1>2. calls[s] # <<>> /\ q \in Sequence
  BY <1>1, CallTyped DEF NextvalWrites
<1>3. r \in Row /\ v \in Ints
  BY <1>1, NextValueTyped DEF TypeOK
<1>4. /\ step[s] = "write" /\ Update(s, q, new) /\ rememberSeq(s, q, v) /\ Returns(s)
      /\ given' = [given EXCEPT ![q] = {v}]
      /\ again' = IF goesOn /\ (\E g \in given[q] : ~Beyond(v, g, r))
                  THEN again \cup {q} ELSE again
      /\ asked' = asked
  BY DEF NextvalWrites
<1> HIDE DEF v
<1>5. q \in DOMAIN View(s).seqs => new \in Row /\ new.last = v /\ new.called = TRUE
  BY <1>1, <1>3, ViewTyped DEF Row
<1>6. given' \in [Sequence -> SUBSET Ints] /\ given'[q] = {v}
      /\ \A p \in Sequence \ {q} : given'[p] = given[p]
  BY <1>1, <1>2, <1>3, <1>4 DEF TypeOK
<1>7. /\ seqCurr' \in [Session -> Keyed(Sequence, Ints)]
      /\ seqLast' \in [Session -> Sequence \cup {NoSequence}]
  BY <1>1, <1>2, <1>3, <1>4, RememberTyped
<1>8. ASSUME goesOn, NEW g \in given[q] PROVE Beyond(v, g, r)
  <2>1. q \in DOMAIN work.seqs /\ work.seqs[q] = r
    <3>1. CASE writer = s
      BY <1>1, <1>4, <3>1 DEF Facts, NoOverwriteInTx
    <3>2. CASE writer # s
      <4>1. View(s) = work
        BY <1>1, <1>4, UpdateWrites, WriterSees DEF Write, Facts
      <4>2. View(s) = db
        BY <3>2 DEF View
      <4> QED
        BY <1>8, <3>2, <4>1, <4>2
    <3> QED
      BY <3>1, <3>2
  <2>2. Holds(r, given[q])
    BY <1>1, <2>1 DEF Facts, Counted
  <2>3. r.called = TRUE /\ g = r.last
    BY <1>8, <2>2 DEF Holds
  <2> QED
    BY <1>3, <1>8, <2>3, PastTheLast DEF v
<1>9. again' = {}
  BY <1>1, <1>4, <1>8 DEF Facts, HandedOutOnce
<1>10. q \in DOMAIN View(s).seqs => Holds(new, given'[q])
  BY <1>5, <1>6 DEF Holds
<1> HIDE DEF new, q
<1> QED
  BY <1>2, <1>4, <1>5, <1>6, <1>7, <1>9, <1>10, CallWrites

\* currval and lastval
LEMMA LookupKeeps ==
  ASSUME SequencesInv, NEW s \in Session, Lookup(s)
  PROVE  SequencesInv'
<1>1. TypeOK /\ Facts
  BY DEF SequencesInv
<1>2. /\ calls[s] # <<>> /\ Returns(s)
      /\ UNCHANGED <<txVars, asked, seqCurr, seqLast, given, again>>
  BY DEF Lookup, Call
<1>3. /\ calls' \in [Session -> Seq(CallOf)]
      /\ step' \in [Session -> {"call", "write"}]
      /\ got' \in [Session -> Row]
      /\ step'[s] = "call"
      /\ \A t \in Session \ {s} : /\ step'[t] = step[t] /\ calls'[t] = calls[t]
                                  /\ got'[t] = got[t]
  BY <1>1, <1>2, ReturnsTyped
<1>4. TypeOK'
  BY <1>1, <1>2, <1>3 DEF TypeOK, txVars
<1>5. Facts'
  BY <1>1, <1>2, <1>3, Idles DEF txVars
<1> QED
  BY <1>4, <1>5 DEF SequencesInv

\* BEGIN: the session has read nothing yet.
LEMMA BeginKeeps ==
  ASSUME SequencesInv, NEW s \in Session, Begin(s)
  PROVE  SequencesInv'
<1>1. TypeOK /\ Facts
  BY DEF SequencesInv
<1>2. /\ writer = NoSession /\ writer' = s
      /\ UNCHANGED <<db, work, failed, calls, step, got, seqCurr, seqLast, given, again>>
      /\ Asks(s)
  BY DEF Begin, BeginTx, sessionVars
<1>3. step[s] = "call"
  BY <1>1, <1>2, AsksTyped, AtRest
<1>4. TypeOK'
  BY <1>1, <1>2, AsksTyped DEF TypeOK
<1>5. Quiet' /\ Reads' /\ Counted' /\ HandedOutOnce'
  BY <1>1, <1>2, ConnectionsAssumption DEF Facts, Quiet, Reads, Call, Counted, HandedOutOnce
<1>6. NoOverwriteInTx'
  BY <1>2, <1>3 DEF NoOverwriteInTx
<1> QED
  BY <1>4, <1>5, <1>6 DEF SequencesInv, Facts

\* COMMIT
LEMMA CommitKeeps ==
  ASSUME SequencesInv, NEW s \in Session, Commit(s)
  PROVE  SequencesInv'
<1>1. TypeOK /\ Facts
  BY DEF SequencesInv
<1>2. /\ writer' = NoSession /\ db' = work
      /\ UNCHANGED <<work, failed, asked, calls, step, got, seqCurr, seqLast, given, again>>
  BY DEF Commit, CommitTx, sessionVars
<1>3. TypeOK'
  BY <1>1, <1>2 DEF TypeOK
<1>4. Facts'
  BY <1>1, <1>2, ConnectionsAssumption
     DEF Facts, Quiet, Reads, Call, NoOverwriteInTx, Counted, HandedOutOnce
<1> QED
  BY <1>3, <1>4 DEF SequencesInv

\* ROLLBACK: the rows that return to what they were have their values anew.
LEMMA RollbackKeeps ==
  ASSUME SequencesInv, NEW s \in Session, Rollback(s)
  PROVE  SequencesInv'
<1>1. TypeOK /\ Facts
  BY DEF SequencesInv
<1> DEFINE Q == {q \in Sequence :
            \/ (q \in DOMAIN db.seqs) # (q \in DOMAIN work.seqs)
            \/ q \in DOMAIN db.seqs /\ db.seqs[q] # work.seqs[q]}
<1>2. /\ writer' = NoSession /\ work' = db /\ failed' = FALSE /\ Anew(Q)
      /\ UNCHANGED <<db, asked, calls, step, got, seqCurr, seqLast>>
  BY DEF Rollback, RollbackTx, sessionVars
<1>3. /\ given' \in [Sequence -> SUBSET Ints] /\ again' = again
      /\ \A q \in Sequence : given'[q] = IF q \in Q THEN {} ELSE given[q]
  BY <1>1, <1>2, AnewTyped
<1>4. TypeOK'
  BY <1>1, <1>2, <1>3 DEF TypeOK
<1>5. Quiet' /\ Reads' /\ NoOverwriteInTx' /\ HandedOutOnce'
  BY <1>1, <1>2, <1>3, ConnectionsAssumption
     DEF Facts, Quiet, Reads, Call, NoOverwriteInTx, HandedOutOnce
<1>6. Counted'
  <2> SUFFICES ASSUME NEW q \in DOMAIN db.seqs PROVE Holds(db.seqs[q], given'[q])
    BY <1>2 DEF Counted
  <2>1. q \in Sequence
    <3>1. db.seqs \in Keyed(Sequence, Row)
      BY <1>1 DEF TypeOK, Version
    <3> QED
      BY <3>1, RowTyped
  <2>2. CASE q \in Q
    BY <1>3, <2>1, <2>2 DEF Holds
  <2>3. CASE q \notin Q
    <3>1. q \in DOMAIN work.seqs /\ db.seqs[q] = work.seqs[q] /\ given'[q] = given[q]
      BY <1>3, <2>1, <2>3
    <3> QED
      BY <1>1, <3>1 DEF Facts, Counted
  <2> QED
    BY <2>2, <2>3
<1> QED
  BY <1>4, <1>5, <1>6 DEF SequencesInv, Facts

-----------------------------------------------------------------------------
(* The theorems.                                                           *)

\* Nothing has been handed out at first.
LEMMA InitSequences == Init => SequencesInv
<1> SUFFICES ASSUME Init PROVE SequencesInv
  OBVIOUS
<1>1. NoDatabase \in Version
  <2>1. [q \in {} |-> NothingRead] \in Keyed(Sequence, Row)
    BY EmptyTyped
  <2> QED
    BY <2>1, CountersAssumption DEF NoDatabase, Version
<1>2. NothingRead \in Row
  BY SmallInts DEF NothingRead, Row
<1>3. [q \in {} |-> 0] \in Keyed(Sequence, Ints)
  BY EmptyTyped
<1>4. <<>> \in Seq(CallOf)
  OBVIOUS
<1>5. TypeOK
  <2>1. db \in Version /\ work \in Version /\ writer = NoSession /\ failed = FALSE
    BY <1>1 DEF Init, VersionsInit
  <2>2. asked \in 0..MaxAsked
    BY CountersAssumption DEF Init
  <2>3. calls \in [Session -> Seq(CallOf)] /\ step \in [Session -> {"call", "write"}]
    BY <1>4 DEF Init
  <2>4. got \in [Session -> Row]
    BY <1>2 DEF Init
  <2>5. seqCurr \in [Session -> Keyed(Sequence, Ints)]
    BY <1>3 DEF Init
  <2>6. seqLast \in [Session -> Sequence \cup {NoSequence}]
    BY DEF Init
  <2>7. given \in [Sequence -> SUBSET Ints] /\ again = {}
    BY DEF Init
  <2> QED
    BY <2>1, <2>2, <2>3, <2>4, <2>5, <2>6, <2>7 DEF TypeOK
<1>6. \A q \in Sequence : given[q] = {}
  BY DEF Init
<1>7. DOMAIN work.seqs = {}
  BY DEF Init, VersionsInit, NoDatabase
<1>8. Facts
  BY <1>6, <1>7, ConnectionsAssumption
     DEF Init, VersionsInit, Facts, Quiet, Reads, NoOverwriteInTx, Counted, HandedOutOnce
<1> QED
  BY <1>5, <1>8 DEF SequencesInv

\* Every step keeps it.
LEMMA NextSequences == SequencesInv /\ [Next]_vars => SequencesInv'
<1> SUFFICES ASSUME SequencesInv, [Next]_vars PROVE SequencesInv'
  OBVIOUS
<1>1. TypeOK
  BY DEF SequencesInv
<1>2. CASE UNCHANGED vars
  BY <1>2 DEF vars, txVars, sessionVars, SequencesInv, TypeOK, Facts, Quiet, Reads, Call,
     NoOverwriteInTx, Counted, HandedOutOnce
<1>3. ASSUME NEW s \in Session, Begin(s) \/ Commit(s) \/ Rollback(s) PROVE SequencesInv'
  BY <1>3, BeginKeeps, CommitKeeps, RollbackKeeps
<1>4. ASSUME NEW s \in Session, NEW q \in Sequence, NEW o \in CreateLists, createSequence(s, q, o)
      PROVE  SequencesInv'
  BY <1>4, CreateKeeps
<1>5. ASSUME NEW s \in Session, NEW q \in Sequence, NEW o \in AlterLists, alterSequence(s, q, o)
      PROVE  SequencesInv'
  BY <1>5, AlterKeeps
<1>6. ASSUME NEW s \in Session, NEW q \in Sequence, NEW n \in Ints, Restart(s, q, n)
      PROVE  SequencesInv'
  BY <1>6, RestartKeeps
<1>7. ASSUME NEW s \in Session, NEW q \in Sequence, CreateExisting(s, q) PROVE SequencesInv'
  BY <1>1, <1>7, AsksTyped, FailKeeps DEF CreateExisting
<1>8. ASSUME NEW s \in Session, NEW q \in Sequence, dropSequence(s, q) PROVE SequencesInv'
  BY <1>8, DropKeeps
<1>9. ASSUME NEW s \in Session, NEW q \in Sequence, NEW k \in 1..2, Insert(s, q, k)
      PROVE  SequencesInv'
  <2> DEFINE list == [i \in 1..(k * View(s).records) |->
                        [fn |-> "nextval", seq |-> q, val |-> 0, called |-> TRUE]]
  <2>1. list \in Seq(CallOf)
    BY <1>1, InsertTyped
  <2>2. /\ Asks(s) /\ calls' = [calls EXCEPT ![s] = list]
        /\ UNCHANGED <<txVars, step, got, seqCurr, seqLast, given, again>>
    BY <1>9 DEF Insert
  <2> HIDE DEF list
  <2> QED
    BY <2>1, <2>2, StatementKeeps
<1>10. ASSUME NEW s \in Session, NEW list \in Statements[s], Statement(s, list)
       PROVE  SequencesInv'
  <2>1. list \in Seq(CallOf)
    BY <1>10, CountersAssumption
  <2> QED
    BY <1>10, <2>1, StatementKeeps DEF Statement
<1>11. ASSUME NEW s \in Session, NextvalReads(s) \/ NextvalWrites(s) PROVE SequencesInv'
  BY <1>11, NextvalReadsKeeps, NextvalWritesKeeps
<1>12. ASSUME NEW s \in Session, NextvalFails(s) \/ LookupFails(s) \/ setvalFails(s) \/ Locked(s)
       PROVE  SequencesInv'
  <2>1. Fail(s) /\ asked' = asked
    BY <1>12 DEF NextvalFails, LookupFails, setvalFails, Locked
  <2>2. asked' \in 0..MaxAsked
    BY <1>1, <2>1 DEF TypeOK
  <2> QED
    BY <2>1, <2>2, FailKeeps
<1>13. ASSUME NEW s \in Session, Lookup(s) \/ setval(s) PROVE SequencesInv'
  BY <1>13, LookupKeeps, SetvalKeeps
<1>14. ASSUME NEW s \in Session, CreateTable(s) \/ DropTable(s) PROVE SequencesInv'
  BY <1>14, TableKeeps
<1> QED
  BY <1>2, <1>3, <1>4, <1>5, <1>6, <1>7, <1>8, <1>9, <1>10, <1>11, <1>12, <1>13, <1>14 DEF Next

\* The invariant of the sequences, for every run of the sessions.
THEOREM SequencesInvariant == Spec => []SequencesInv
BY InitSequences, NextSequences, PTL DEF Spec

\* No value is handed out a second time, nor one from before the last, from where
\* the counter was set (nextval's two statements, sequences.go:321-359).
THEOREM ValuesAreHandedOutOnce == Spec => []HandedOutOnce
<1>1. SequencesInv => HandedOutOnce
  BY DEF SequencesInv, Facts
<1> QED
  BY <1>1, SequencesInvariant, PTL

\* In a transaction the row nextval writes is the one it has read.
THEOREM NothingOverwrittenInTx == Spec => []NoOverwriteInTx
<1>1. SequencesInv => NoOverwriteInTx
  BY DEF SequencesInv, Facts
<1> QED
  BY <1>1, SequencesInvariant, PTL

\* What nextval does with one row, for every row of integers.
LEMMA RowWithinBounds ==
  ASSUME NEW r \in Row, r.min <= r.last, r.last <= r.max
  PROVE  \/ Exhausted(r)
         \/ r.min <= NextValue(r) /\ NextValue(r) <= r.max
         \/ Overflows(r) /\ (r.max > MaxInt - r.incr \/ r.min < MinInt - r.incr)
<1>1. r.last \in Ints /\ r.incr \in Ints /\ r.min \in Ints /\ r.max \in Ints
  BY DEF Row
<1>2. /\ r.last \in Int /\ r.incr \in Int /\ r.min \in Int /\ r.max \in Int
      /\ MaxInt \in Int /\ MinInt \in Int
      /\ MinInt <= r.last /\ r.last <= MaxInt
  BY <1>1, CountersAssumption DEF Ints, MinInt
<1>3. r.last + r.incr \in Ints => Sum(r) = r.last + r.incr
  BY <1>1, WrappedSum DEF Sum
<1>4. Sum(r) \in Int
  BY <1>2, NextValueTyped, CountersAssumption DEF Ints, MinInt
<1>5. CASE r.called = FALSE
  BY <1>5 DEF NextValue
<1>6. CASE r.called # FALSE /\ (PastMax(r) \/ PastMin(r))
  BY <1>2, <1>6 DEF Exhausted, NextValue
<1>7. CASE r.called # FALSE /\ ~(PastMax(r) \/ PastMin(r))
  <2>1. NextValue(r) = Sum(r) /\ r.called = TRUE
    BY <1>7 DEF NextValue, Row
  <2>2. CASE Sum(r) = r.last + r.incr
    <3>1. r.incr > 0 => Sum(r) <= r.max
      BY <1>2, <1>4, <1>7, <2>1 DEF PastMax
    <3>2. r.incr < 0 => Sum(r) >= r.min
      BY <1>2, <1>4, <1>7, <2>1 DEF PastMin
    <3>3. r.min <= Sum(r) /\ Sum(r) <= r.max
      BY <1>2, <1>4, <2>2, <3>1, <3>2
    <3> QED
      BY <2>1, <3>3
  <2>3. CASE Sum(r) # r.last + r.incr
    <3>1. Overflows(r)
      BY <2>1, <2>3 DEF Overflows
    <3>2. r.last + r.incr > MaxInt \/ r.last + r.incr < MinInt
      BY <1>2, <1>3, <2>3 DEF Ints
    <3>3. r.max > MaxInt - r.incr \/ r.min < MinInt - r.incr
      BY <1>2, <3>2
    <3> QED
      BY <3>1, <3>3
  <2> QED
    BY <2>2, <2>3
<1> QED
  BY <1>5, <1>6, <1>7

\* A counter within its bounds stays within them, or nextval fails, or the sum
\* leaves the integers.
THEOREM CountersStayWithinBounds == Spec => []WithinBounds
<1>1. SequencesInv => WithinBounds
  BY ViewTyped, RowWithinBounds DEF SequencesInv, WithinBounds
<1> QED
  BY <1>1, SequencesInvariant, PTL
=============================================================================
