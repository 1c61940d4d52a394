--------------------------- MODULE SessionProofs ---------------------------
(***************************************************************************)
(* What TLAPS proves of Session and the SQLite connection under it, for    *)
(* any Query messages, prepared statements, portals and bounds.            *)
(***************************************************************************)
EXTENDS Session, SequenceTheorems, TLAPS

StorageType ==
  /\ levels \in Seq(Level)
  /\ durable \in SUBSET Work
  /\ next \in 1 .. MaxWork + 1

TxStates == {"none", "open", "failed"}

\* SQLite has the transaction that a BEGIN opened.
Sound == InTransaction /\ ~ levels[1].savepoint

\* No transaction comes from nowhere, a sound one stays sound, and nothing is
\* committed: what a step inside a transaction does to the storage.
Inside ==
  /\ StorageType'
  /\ InTransaction => durable' = durable /\ InTransaction'
  /\ Sound => Sound'
  /\ ~ InTransaction => ~ InTransaction'

-----------------------------------------------------------------------------
(* SQLite. *)

\* A level keeps its kind when its work changes.
LEMMA NewTop ==
  ASSUME NEW level \in Level, NEW W \in SUBSET Work
  PROVE  \E top \in Level : /\ top = [level EXCEPT !.work = W]
                            /\ top.savepoint = level.savepoint
<1> DEFINE top == [level EXCEPT !.work = W]
<1>1. top \in Level /\ top.savepoint = level.savepoint
  BY DEF Level
<1>2. top = [level EXCEPT !.work = W]
  OBVIOUS
<1> HIDE DEF top
<1> QED BY <1>1, <1>2

\* A statement that changes the work of the last level changes nothing else.
LEMMA TopChanged ==
  ASSUME StorageType, InTransaction, NEW W \in SUBSET Work,
         levels' = [levels EXCEPT ![Len(levels)].work = W]
  PROVE  /\ levels' \in Seq(Level)
         /\ InTransaction'
         /\ Sound => Sound'
<1>1. Len(levels) \in Nat /\ Len(levels) >= 1 /\ DOMAIN levels = 1 .. Len(levels)
  BY EmptySeq, LenProperties DEF StorageType, InTransaction
<1>2. levels[Len(levels)] \in Level /\ levels[1] \in Level
  BY <1>1 DEF StorageType
<1>3. PICK top \in Level : /\ top = [levels[Len(levels)] EXCEPT !.work = W]
                           /\ top.savepoint = levels[Len(levels)].savepoint
  BY <1>2, NewTop
<1>4. levels' = [levels EXCEPT ![Len(levels)] = top]
  BY <1>3
<1>5. levels' \in Seq(Level) /\ Len(levels') = Len(levels)
  BY <1>1, <1>4, ExceptSeq DEF StorageType
<1>6. levels'[1].savepoint = levels[1].savepoint
  BY <1>1, <1>3, <1>4 DEF StorageType
<1>7. InTransaction'
  BY <1>1, <1>5 DEF InTransaction
<1> QED BY <1>5, <1>6, <1>7 DEF Sound

\* A statement that writes stays inside the transaction, if there is one.
LEMMA WriteInside ==
  ASSUME StorageType, Write
  PROVE  Inside
<1>1. next \in Work /\ next' = next + 1 /\ next' \in 1 .. MaxWork + 1
  BY WorkAssumption DEF Write, Work, StorageType
<1>2. CASE InTransaction
  <2>1. Len(levels) \in 1 .. Len(levels)
    BY <1>2, EmptySeq, LenProperties DEF StorageType, InTransaction
  <2>2. levels[Len(levels)] \in Level
    BY <2>1 DEF StorageType
  <2>3. PICK W \in SUBSET Work : W = levels[Len(levels)].work \cup {next}
    BY <1>1, <2>2 DEF Level
  <2>4. levels' = [levels EXCEPT ![Len(levels)].work = W]
    BY <1>2, <2>3 DEF Write
  <2>5. durable' = durable
    BY <1>2 DEF Write
  <2> QED BY <1>1, <1>2, <2>4, <2>5, TopChanged DEF Inside, StorageType
<1>3. CASE ~ InTransaction
  BY <1>1, <1>3 DEF Write, Inside, StorageType, InTransaction, Sound
<1> QED BY <1>2, <1>3

\* A failure may cost the transaction, never make one.
LEMMA FailureLoses ==
  ASSUME StorageType, WriteFails
  PROVE  StorageType' /\ durable' = durable /\ (~ InTransaction => ~ InTransaction')
<1>1. levels' = levels \/ levels' = <<>>
  BY DEF WriteFails
<1>2. levels' \in Seq(Level)
  BY <1>1, EmptySeq DEF StorageType
<1> QED BY <1>1, <1>2 DEF WriteFails, StorageType, InTransaction

\* A command that fails half-way may have written, or lost the transaction.
LEMMA PartlyLoses ==
  ASSUME StorageType, PartlyFails
  PROVE  /\ StorageType'
         /\ InTransaction => durable' = durable
         /\ ~ InTransaction => ~ InTransaction'
BY WriteInside, FailureLoses DEF PartlyFails, Inside

\* BEGIN opens a sound transaction and changes nothing yet.
LEMMA BeginOpens ==
  ASSUME StorageType, BeginTx
  PROVE  StorageType' /\ durable' = durable /\ Sound'
<1>0. NewLevel(FALSE) \in Level /\ ~ NewLevel(FALSE).savepoint
  BY DEF NewLevel, Level
<1>1. PICK level \in Level : level = NewLevel(FALSE) /\ ~ level.savepoint
  BY <1>0, Zenon
<1>2. levels' = <<level>> /\ UNCHANGED <<durable, next>>
  BY <1>1 DEF BeginTx
<1>3. levels' \in Seq(Level) /\ levels'[1] = level /\ levels' # <<>>
  BY <1>2
<1> QED BY <1>1, <1>2, <1>3 DEF StorageType, Sound, InTransaction

\* COMMIT leaves no transaction.
LEMMA CommitEnds ==
  ASSUME StorageType, Commit
  PROVE  StorageType' /\ ~ InTransaction'
<1>1. ASSUME NEW i \in DOMAIN levels PROVE levels[i].work \subseteq Work
  <2>1. levels[i] \in Level
    BY <1>1, LenProperties, ElementOfSeq DEF StorageType
  <2> QED BY <2>1 DEF Level
<1>2. AllWork \subseteq Work
  BY <1>1 DEF AllWork
<1> QED BY <1>2 DEF Commit, StorageType, InTransaction

\* ROLLBACK leaves no transaction and nothing of its work.
LEMMA RollbackEnds ==
  ASSUME StorageType, Rollback
  PROVE  StorageType' /\ durable' = durable /\ ~ InTransaction'
BY DEF Rollback, StorageType, InTransaction

\* SAVEPOINT commits nothing, and a sound transaction stays sound.
LEMMA SavepointInside ==
  ASSUME StorageType, Savepoint
  PROVE  /\ StorageType' /\ durable' = durable /\ InTransaction'
         /\ Sound => Sound'
<1>1. PICK level \in Level : level = NewLevel(TRUE)
  BY DEF NewLevel, Level
<1>2. levels' = Append(levels, level) /\ UNCHANGED <<durable, next>>
  BY <1>1 DEF Savepoint
<1>3. levels' \in Seq(Level) /\ levels' # <<>>
  BY <1>2, AppendProperties DEF StorageType
<1>4. InTransaction => levels'[1] = levels[1]
  <2>1. InTransaction => Len(levels) >= 1 /\ Len(levels) \in Nat
    BY EmptySeq, LenProperties DEF StorageType, InTransaction
  <2> QED BY <1>2, <2>1, AppendProperties DEF StorageType
<1> QED BY <1>2, <1>3, <1>4 DEF Savepoint, StorageType, InTransaction, Sound

\* ROLLBACK TO stays inside the transaction.
LEMMA RollbackToInside ==
  ASSUME StorageType, RollbackTo
  PROVE  /\ StorageType' /\ durable' = durable
         /\ InTransaction /\ InTransaction'
         /\ Sound => Sound'
<1>1. InTransaction /\ levels' = [levels EXCEPT ![Len(levels)].work = {}]
      /\ UNCHANGED <<durable, next>>
  BY DEF RollbackTo, HasSavepoint
<1>2. {} \in SUBSET Work
  OBVIOUS
<1> QED BY <1>1, <1>2, TopChanged DEF StorageType

\* RELEASE commits only when the savepoint is all there is.
LEMMA ReleaseInside ==
  ASSUME StorageType, Release
  PROVE  /\ StorageType' /\ InTransaction
         /\ Sound => durable' = durable /\ Sound'
<1>1. InTransaction /\ Top.savepoint
  BY DEF Release, HasSavepoint
<1>2. Len(levels) \in Nat /\ Len(levels) >= 1
  BY <1>1, EmptySeq, LenProperties DEF StorageType, InTransaction
<1>3. CASE Len(levels) = 1
  <2>1. Commit /\ levels[1].savepoint
    BY <1>1, <1>3 DEF Release, Top
  <2> QED BY <1>1, <2>1, CommitEnds DEF Sound
<1>4. CASE Len(levels) # 1
  <2>1. PICK n \in Nat : n = Len(levels) - 1 /\ n >= 1
    BY <1>2, <1>4
  <2>a. /\ SubSeq(levels, 1, n) \in Seq(Level)
        /\ Len(SubSeq(levels, 1, n)) = n
        /\ \A i \in 1 .. n : SubSeq(levels, 1, n)[i] = levels[i]
    BY <1>2, <2>1, SubSeqProperties DEF StorageType
  <2>2. PICK s \in Seq(Level) : /\ s = SubSeq(levels, 1, n) /\ Len(s) = n
                                /\ \A i \in 1 .. n : s[i] = levels[i]
    BY <2>a, Zenon
  <2>3. levels' = [s EXCEPT ![n].work = @ \cup Top.work] /\ UNCHANGED <<durable, next>>
    BY <1>4, <2>1, <2>2 DEF Release
  <2>4. Top \in Level /\ s[n] \in Level
    BY <1>2, <2>1, <2>2 DEF Top, StorageType
  <2>b. s[n].work \cup Top.work \in SUBSET Work
    BY <2>4 DEF Level
  <2>5. PICK top \in Level : /\ top = [s[n] EXCEPT !.work = s[n].work \cup Top.work]
                             /\ top.savepoint = s[n].savepoint
    BY <2>4, <2>b, NewTop
  <2>6. levels' = [s EXCEPT ![n] = top]
    BY <2>3, <2>5
  <2>7. levels' \in Seq(Level) /\ Len(levels') = n
    BY <2>1, <2>2, <2>6, ExceptSeq
  <2>8. levels'[1].savepoint = levels[1].savepoint
    <3>1. DOMAIN s = 1 .. n /\ s[1] = levels[1] /\ 1 \in 1 .. n
      BY <2>1, <2>2, LenProperties
    <3> QED BY <2>5, <2>6, <3>1
  <2>9. InTransaction'
    BY <2>1, <2>7 DEF InTransaction
  <2> QED BY <1>1, <2>3, <2>7, <2>8, <2>9 DEF StorageType, Sound
<1> QED BY <1>3, <1>4

-----------------------------------------------------------------------------
(* What a statement may do, however it is handled. *)

StatementType == /\ StorageType
                 /\ tx \in TxStates
                 /\ failed \in BOOLEAN
                 /\ dbs \in SUBSET Work

Answers == {"complete", "error", "suspended"}

\* The variables stay in their ranges; the simple protocol never skips.
KeepsType(via) ==
  /\ StatementType'
  /\ out' \in Answers
  /\ via = "simple" => failed' = failed

\* A statement of an implicit transaction leaves everything to its COMMIT.
NothingDone ==
  /\ dbs' = dbs
  /\ InTransaction => durable' = durable
  /\ InTransaction /\ out' # "error" => InTransaction'

\* What happens to the transaction, seen from the session and from SQLite.
KeepsTx(unmarked) ==
  /\ durable' # durable /\ tx # "none" => Lost \/ (tx = "open" /\ tx' = "none")
  /\ ~ Lost /\ Lost' /\ tx' = "open" => unmarked
  /\ ~ Forgotten /\ Forgotten' => out' = "error" /\ tx = "open"

\* The statements whose error handlers leave txFailed alone.
Unmarked(kind, via) ==
  \/ via = "simple" /\ kind \in {"SCHEMA", "EXECUTE"}
  \/ via = "extended" /\ kind = "COMMENT"

Handled(kind, via) ==
  /\ KeepsType(via)
  /\ via = "simple" /\ kind \notin OptOut => NothingDone
  /\ KeepsTx(Unmarked(kind, via))

\* BEGIN, COMMIT and ROLLBACK (applyTxControl).
LEMMA TxControlHandled ==
  ASSUME StatementType, NEW kind \in TxControl, NEW via \in {"simple", "extended"},
         applyTxControl(kind, via), UNCHANGED dbs
  PROVE  Handled(kind, via)
<1> USE DEF StatementType, TxStates, Answers
<1>0. kind \in OptOut
  BY DEF OptOut
<1>1. KeepsType(via) /\ KeepsTx(FALSE)
  <2>1. CASE begin(via)
    BY <2>1, BeginOpens
       DEF begin, Complete, Error, KeepsType, KeepsTx, storage, Lost, Forgotten,
           StorageType, Sound, InTransaction
  <2>2. ASSUME NEW commit \in BOOLEAN, endTx(commit, via)
        PROVE  KeepsType(via) /\ KeepsTx(FALSE)
    <3>1. CASE tx = "none" /\ Complete /\ UNCHANGED <<tx, storage>>
      BY <3>1 DEF Complete, KeepsType, KeepsTx, storage, Lost, Forgotten,
                  StorageType, InTransaction
    <3>2. CASE tx = "open" /\ tx' = "none" /\ Commit /\ Complete
      BY <3>2, CommitEnds
         DEF Complete, KeepsType, KeepsTx, Lost, Forgotten
    <3>3. CASE tx = "open" /\ tx' = "none" /\ CommitRefused /\ Error(via)
      <4>1. levels' \in Seq(Level)
        BY <3>3, EmptySeq DEF CommitRefused, StorageType
      <4> QED BY <3>3, <4>1
              DEF CommitRefused, Error, KeepsType, KeepsTx, Lost, Forgotten, StorageType
    <3>4. CASE tx # "none" /\ tx' = "none" /\ Rollback /\ Complete
      BY <3>4, RollbackEnds DEF Complete, KeepsType, KeepsTx, Lost, Forgotten
    <3>5. CASE /\ tx # "none" /\ tx' = "none" /\ ~ InTransaction
               /\ Error(via) /\ UNCHANGED storage
      BY <3>5 DEF Error, KeepsType, KeepsTx, storage, Lost, Forgotten,
                  StorageType, InTransaction
    <3> QED BY <2>2, <3>1, <3>2, <3>3, <3>4, <3>5 DEF endTx
  <2> QED BY <2>1, <2>2 DEF applyTxControl
<1> QED BY <1>0, <1>1 DEF Handled, KeepsTx

\* SAVEPOINT, RELEASE and ROLLBACK TO (trySavepoint).
LEMMA SavepointHandled ==
  ASSUME StatementType, NEW kind \in SavepointKinds, NEW via \in {"simple", "extended"},
         trySavepoint(kind, via), UNCHANGED dbs
  PROVE  Handled(kind, via)
<1> USE DEF StatementType, TxStates, Answers
<1>0. kind \in OptOut
  BY DEF OptOut
<1>1. KeepsType(via) /\ KeepsTx(FALSE)
  <2>1. CASE Error(via) /\ UNCHANGED <<tx, storage>>
    BY <2>1 DEF Error, KeepsType, KeepsTx, storage, Lost, Forgotten,
                StorageType, InTransaction
  <2>2. CASE tx # "none" /\ RollbackTo /\ tx' = "open" /\ Complete
    BY <2>2, RollbackToInside
       DEF Complete, KeepsType, KeepsTx, Lost, Forgotten, Sound
  <2>3. CASE tx = "open" /\ Savepoint /\ Complete /\ UNCHANGED tx
    BY <2>3, SavepointInside
       DEF Complete, KeepsType, KeepsTx, Lost, Forgotten, Sound
  <2>4. CASE tx = "open" /\ Release /\ Complete /\ UNCHANGED tx
    BY <2>4, ReleaseInside
       DEF Complete, KeepsType, KeepsTx, Lost, Forgotten, Sound
  <2>5. CASE tx = "open" /\ WriteFails /\ tx' = "failed" /\ Error(via)
    BY <2>5, FailureLoses DEF Error, KeepsType, KeepsTx, Lost, Forgotten
  <2> QED BY <2>1, <2>2, <2>3, <2>4, <2>5 DEF trySavepoint
<1> QED BY <1>0, <1>1 DEF Handled, KeepsTx

\* The statement runs and succeeds.
LEMMA WriteHandled ==
  ASSUME StatementType, NEW kind, NEW via \in {"simple", "extended"},
         Write, Complete, UNCHANGED <<tx, dbs>>
  PROVE  Handled(kind, via)
BY WriteInside DEF StatementType, Answers, Inside, Complete, Handled, KeepsType,
                   NothingDone, KeepsTx, Lost, Forgotten, Sound

\* It fails, and may leave part of its work, or cost the transaction.
LEMMA FailureHandled ==
  ASSUME StatementType, NEW kind, NEW via \in {"simple", "extended"},
         WriteFails \/ PartlyFails, Error(via), UNCHANGED dbs,
         abort \/ (UNCHANGED tx /\ Unmarked(kind, via))
  PROVE  Handled(kind, via)
<1>1. PartlyFails
  BY DEF PartlyFails
<1>2. tx' \in TxStates /\ (tx' = "none" <=> tx = "none")
      /\ (tx' = "open" => Unmarked(kind, via))
  BY DEF abort, TxStates, StatementType
<1>3. KeepsType(via)
  BY <1>1, <1>2, PartlyLoses DEF StatementType, Answers, Error, KeepsType
<1>4. NothingDone
  BY <1>1, PartlyLoses DEF StatementType, Error, NothingDone
<1>5. KeepsTx(Unmarked(kind, via))
  BY <1>1, <1>2, PartlyLoses DEF StatementType, Error, KeepsTx, Lost, Forgotten
<1> QED BY <1>3, <1>4, <1>5 DEF Handled

\* It leaves the storage alone.
LEMMA QuietHandled ==
  ASSUME StatementType, NEW kind, NEW via \in {"simple", "extended"},
         Complete \/ Error(via), abort \/ UNCHANGED tx, UNCHANGED <<storage, dbs>>
  PROVE  Handled(kind, via)
<1>1. tx' \in TxStates /\ (tx' = "none" <=> tx = "none")
  BY DEF abort, TxStates, StatementType
<1>2. out' \in {"complete", "error"} /\ failed' \in BOOLEAN
      /\ (via = "simple" => failed' = failed)
  BY DEF Complete, Error, StatementType
<1> QED BY <1>1, <1>2
        DEF StatementType, Answers, Handled, KeepsType, NothingDone, KeepsTx,
            Lost, Forgotten, StorageType, InTransaction, storage

\* CREATE and DROP DATABASE (tryDatabaseDDL).
LEMMA DatabaseHandled ==
  ASSUME StatementType, NEW via \in {"simple", "extended"}, tryDatabaseDDL(via)
  PROVE  Handled("DATABASE", via)
<1>1. CASE /\ next \in Work /\ next' = next + 1 /\ dbs' = dbs \cup {next}
           /\ Complete /\ UNCHANGED <<tx, levels, durable>>
  <2>1. next' \in 1 .. MaxWork + 1
    BY <1>1, WorkAssumption DEF Work
  <2> QED BY <1>1, <2>1
          DEF StatementType, Answers, Complete, Handled, KeepsType, KeepsTx, Lost,
              Forgotten, StorageType, InTransaction, OptOut
<1>2. CASE Error(via) /\ (abort \/ UNCHANGED tx) /\ UNCHANGED <<storage, dbs>>
  BY <1>2, QuietHandled
<1> QED BY <1>1, <1>2 DEF tryDatabaseDDL

\* What stands behind the check for an aborted transaction.
LEMMA GuardedHandled ==
  ASSUME StatementType, NEW kind, NEW via \in {"simple", "extended"},
         Guarded(kind, via)
  PROVE  Handled(kind, via)
<1>1. CASE Aborted(via)
  BY <1>1, QuietHandled DEF Aborted
<1>2. CASE kind = "WRITE" /\ WriteStatement(via) /\ UNCHANGED dbs
  BY <1>2, WriteHandled, FailureHandled DEF WriteStatement
<1>3. CASE kind = "DDL" /\ DDLStatement(via) /\ UNCHANGED dbs
  BY <1>3, WriteHandled, FailureHandled DEF DDLStatement
<1>4. CASE kind = "COMMENT" /\ CommentStatement(via) /\ UNCHANGED dbs
  BY <1>4, WriteHandled, FailureHandled DEF CommentStatement, Unmarked
<1>5. CASE kind = "EXECUTE" /\ ExecuteStatement(via) /\ UNCHANGED dbs
  <2>1. CASE via = "simple" /\ UNCHANGED tx /\ Write /\ Complete
    BY <1>5, <2>1, WriteHandled
  <2>2. CASE via = "simple" /\ UNCHANGED tx /\ WriteFails /\ Error(via)
    BY <1>5, <2>2, FailureHandled DEF Unmarked
  <2>3. CASE /\ Complete \/ Error(via)
             /\ abort \/ UNCHANGED tx
             /\ UNCHANGED storage
    BY <1>5, <2>3, QuietHandled
  <2> QED BY <1>5, <2>1, <2>2, <2>3 DEF ExecuteStatement
<1>6. CASE kind = "READ" /\ ReadStatement(via) /\ UNCHANGED dbs
  BY <1>6, QuietHandled DEF ReadStatement
<1>7. CASE kind = "DATABASE" /\ tryDatabaseDDL(via)
  BY <1>7, DatabaseHandled
<1> QED BY <1>1, <1>2, <1>3, <1>4, <1>5, <1>6, <1>7 DEF Guarded

\* Every statement of the simple protocol (handleSimpleQuery).
LEMMA SimpleHandled ==
  ASSUME StatementType, NEW kind, handleSimpleQuery(kind)
  PROVE  Handled(kind, "simple")
<1>1. CASE kind \in TxControl /\ applyTxControl(kind, "simple") /\ UNCHANGED dbs
  BY <1>1, TxControlHandled
<1>2. CASE kind = "SCHEMA" /\ trySchemaDDL /\ UNCHANGED dbs
  BY <1>2, WriteHandled, FailureHandled DEF trySchemaDDL, Unmarked
<1>3. CASE kind \in SavepointKinds /\ trySavepoint(kind, "simple") /\ UNCHANGED dbs
  BY <1>3, SavepointHandled
<1>4. CASE Guarded(kind, "simple")
  BY <1>4, GuardedHandled
<1> QED BY <1>1, <1>2, <1>3, <1>4 DEF handleSimpleQuery

\* Where the client is in a result and where the portal is.
PagesAgree ==
  \A p \in Portals :
    /\ portals[p].pos = 0 \/ portals[p].pos < Rows
    /\ got[p] = portals[p].pos \/ (portals[p].pos = 0 /\ got[p] = Rows)

PortalType ==
  /\ prepared \in [Statements -> Kinds \cup {NoStatement}]
  /\ portals \in [Portals -> [kind : Kinds \cup {NoStatement}, pos : 0 .. Rows]]
  /\ got \in [Portals -> 0 .. Rows]
  /\ PagesAgree

\* A page ends where the client is, and the last one is the end of the result.
LEMMA PageKeeps ==
  ASSUME PortalType, NEW p \in Portals, NEW max \in 0 .. Rows,
         Page(p, max), UNCHANGED prepared
  PROVE  /\ PortalType'
         /\ out' \in {"complete", "suspended"}
         /\ out' = "complete" => got'[p] = Rows
<1>1. Rows \in Nat
  BY SessionAssumption DEF SessionAssumption
<1>2. PICK pos \in 0 .. Rows, end \in 0 .. Rows :
        /\ pos = portals[p].pos /\ end = PageEnd(pos, max)
        /\ pos <= end /\ (end < Rows => pos < Rows)
  BY <1>1 DEF PortalType, PageEnd
<1>3. /\ got' = [got EXCEPT ![p] = Received(p, end - pos)]
      /\ portals' = [portals EXCEPT ![p].pos = IF end < Rows THEN end ELSE 0]
      /\ out' = IF end < Rows THEN "suspended" ELSE "complete"
  BY <1>2 DEF Page
<1>4. Received(p, end - pos) = end
  BY <1>1, <1>2 DEF Received, PortalType, PagesAgree
<1>5. got'[p] = end
  BY <1>3, <1>4 DEF PortalType
<1>6. PICK q \in 0 .. Rows : q = IF end < Rows THEN end ELSE 0
  BY <1>1
<1>7. PICK portal \in [kind : Kinds \cup {NoStatement}, pos : 0 .. Rows] :
        portal = [portals[p] EXCEPT !.pos = q] /\ portal.pos = q
  <2>1. portals[p] \in [kind : Kinds \cup {NoStatement}, pos : 0 .. Rows]
    BY DEF PortalType
  <2>2. [portals[p] EXCEPT !.pos = q] \in [kind : Kinds \cup {NoStatement}, pos : 0 .. Rows]
        /\ [portals[p] EXCEPT !.pos = q].pos = q
    BY <2>1
  <2> QED BY <2>2, Zenon
<1>8. portals' = [portals EXCEPT ![p] = portal]
  BY <1>3, <1>6, <1>7
<1>9. /\ portals' \in [Portals -> [kind : Kinds \cup {NoStatement}, pos : 0 .. Rows]]
      /\ got' \in [Portals -> 0 .. Rows]
      /\ portals'[p].pos = q
  BY <1>3, <1>4, <1>7, <1>8 DEF PortalType
<1>10. PagesAgree'
  <2> SUFFICES ASSUME NEW x \in Portals
               PROVE  /\ portals'[x].pos = 0 \/ portals'[x].pos < Rows
                      /\ \/ got'[x] = portals'[x].pos
                         \/ portals'[x].pos = 0 /\ got'[x] = Rows
    BY DEF PagesAgree
  <2>1. CASE x = p
    BY <1>1, <1>2, <1>5, <1>6, <1>9, <2>1
  <2>2. CASE x # p
    <3>1. portals'[x] = portals[x] /\ got'[x] = got[x]
      BY <1>3, <1>8, <2>2 DEF PortalType
    <3> QED BY <3>1 DEF PortalType, PagesAgree
  <2> QED BY <2>1, <2>2
<1> QED BY <1>1, <1>2, <1>3, <1>5, <1>9, <1>10 DEF PortalType

\* Execute: the statement is handled, and the portals follow the pages.
LEMMA ExecuteHandled ==
  ASSUME StatementType, PortalType, NEW p \in Portals, NEW max \in 0 .. Rows,
         Execute(p, max)
  PROVE  /\ Handled(portals[p].kind, "extended")
         /\ PortalType'
         /\ portals[p].kind = "READ" /\ out' = "complete" => got'[p] = Rows
         /\ UNCHANGED <<pc, protocol, prepared>>
         /\ ~ failed
<1> DEFINE kind == portals[p].kind
<1>0. UNCHANGED <<pc, protocol, prepared>> /\ ~ failed
  BY DEF Execute, Cycle
<1>1. CASE kind = "READ" /\ ExecuteRead(p, max)
  <2>1. CASE Aborted("extended") /\ UNCHANGED <<portals, got>>
    BY <1>0, <2>1, QuietHandled DEF Aborted, Error, PortalType, PagesAgree
  <2>2. CASE Page(p, max) /\ UNCHANGED dbs
    <3>1. PortalType' /\ out' \in {"complete", "suspended"}
          /\ (out' = "complete" => got'[p] = Rows)
      BY <1>0, <2>2, PageKeeps
    <3>2. Handled(kind, "extended")
      BY <2>2, <3>1
         DEF Page, StatementType, Answers, Handled, KeepsType, KeepsTx, Lost,
             Forgotten, StorageType, InTransaction, storage
    <3> QED BY <1>0, <3>1, <3>2
  <2>3. CASE abort /\ Error("extended") /\ UNCHANGED <<portals, got, storage, dbs>>
    BY <1>0, <2>3, QuietHandled DEF Error, PortalType, PagesAgree
  <2> QED BY <1>1, <2>1, <2>2, <2>3 DEF ExecuteRead
<1>2. CASE kind # "READ" /\ UNCHANGED <<portals, got>>
           /\ \/ kind = "DATABASE" /\ tryDatabaseDDL("extended")
              \/ /\ kind \in TxControl
                 /\ applyTxControl(kind, "extended")
                 /\ UNCHANGED dbs
              \/ /\ kind \in SavepointKinds
                 /\ trySavepoint(kind, "extended")
                 /\ UNCHANGED dbs
              \/ Guarded(kind, "extended")
  <2>1. Handled(kind, "extended")
    BY <1>2, DatabaseHandled, TxControlHandled, SavepointHandled, GuardedHandled
  <2>2. PortalType'
    BY <1>0, <1>2 DEF PortalType, PagesAgree
  <2> QED BY <1>0, <1>2, <2>1, <2>2
<1>3. "READ" # "DATABASE" /\ "READ" \notin TxControl /\ "READ" \notin SavepointKinds
  BY DEF TxControl, SavepointKinds
<1> QED BY <1>1, <1>2, <1>3 DEF Execute

-----------------------------------------------------------------------------
(***************************************************************************)
(* The inductive invariant.  Beyond the types: the portals' positions, a   *)
(* cycle is skipped only between Queries, and while an implicit            *)
(* transaction is running SQLite is in it, nothing has been done for good, *)
(* and nothing that could commit is left in the Query.                     *)
(***************************************************************************)
QueryType ==
  /\ pc \in {"loop", "batch", "finish", "copy", "closed"}
  /\ out \in {"ready", "complete", "error", "suspended", "copy"}
  /\ implicit \in BOOLEAN
  /\ rest \in Seq(Kinds)
  /\ before \in SUBSET Work
  /\ pc = "batch" => rest # <<>>
  /\ pc # "loop" => ~ failed

ImplicitOK ==
  implicit =>
    /\ pc \in {"batch", "copy", "finish"}
    /\ Done = before
    /\ pc # "finish" => InTransaction /\ \A i \in DOMAIN rest : rest[i] \notin OptOut

IInv == StatementType /\ PortalType /\ QueryType /\ ImplicitOK

\* The invariant implies the type invariant.
LEMMA InvTyped == IInv => TypeOK
BY DEF IInv, StatementType, StorageType, TxStates, PortalType, QueryType, TypeOK

\* The three exceptions of LossIsNoticed.
UnmarkedFailure ==
  \/ pc = "batch" /\ Head(rest) \in {"SCHEMA", "EXECUTE"}
  \/ pc = "loop" /\ \E p \in Portals : portals[p].kind = "COMMENT"

\* What copyInsert may do to the transaction.
CopyKeepsTx ==
  /\ pc = "copy"
  /\ durable' # durable /\ tx # "none" => Lost
  /\ ~ Lost /\ Lost' => tx' # "open"
  /\ ~ Forgotten /\ Forgotten' => out' = "error"

\* The bodies of the action properties of Session.
Atomic == implicit => Done' = before \/ (Finish /\ out # "error")
Skips == failed /\ failed' => UNCHANGED <<tx, storage, dbs, extended>>
StepOK == Atomic /\ Skips /\ (KeepsTx(UnmarkedFailure) \/ CopyKeepsTx)

Good == IInv' /\ StepOK

\* A step between Queries that leaves the data and the transaction alone.
LEMMA LoopGood ==
  ASSUME IInv, pc = "loop", pc' = "loop", UNCHANGED <<tx, protocol, dbs, storage>>,
         failed' \in BOOLEAN, out' \in {"ready", "complete", "error"},
         PortalType', failed /\ failed' => UNCHANGED extended
  PROVE  Good
<1>1. StatementType' /\ QueryType' /\ ImplicitOK'
  BY DEF IInv, StatementType, StorageType, QueryType, ImplicitOK, protocol, storage
<1>2. StepOK
  BY DEF IInv, ImplicitOK, StepOK, Atomic, Skips, KeepsTx, Lost, Forgotten, InTransaction, storage, protocol
<1> QED BY <1>1, <1>2 DEF Good, IInv

\* Parse.
LEMMA ParseGood ==
  ASSUME IInv, NEW n \in Statements, NEW kind \in Parsed, Parse(n, kind)
  PROVE  Good
<1> USE DEF IInv
<1>1. kind \in Kinds
  BY SessionAssumption DEF SessionAssumption
<1>2. PortalType'
  BY <1>1 DEF Parse, PortalType, PagesAgree
<1> QED BY <1>2, LoopGood DEF Parse, Cycle, StatementType

\* Close of a prepared statement.
LEMMA CloseStatementGood ==
  ASSUME IInv, NEW n \in Statements, CloseStatement(n)
  PROVE  Good
<1> USE DEF IInv
<1>1. PortalType'
  BY DEF CloseStatement, PortalType, PagesAgree
<1> QED BY <1>1, LoopGood DEF CloseStatement, Cycle, StatementType

\* A portal that starts from the first row, or is gone.
LEMMA NewPortalTyped ==
  ASSUME PortalType, NEW p \in Portals, NEW k \in Kinds \cup {NoStatement},
         portals' = [portals EXCEPT ![p] = [kind |-> k, pos |-> 0]],
         got' = [got EXCEPT ![p] = 0], UNCHANGED prepared
  PROVE  PortalType'
<1>1. Rows \in Nat
  BY SessionAssumption DEF SessionAssumption
<1>2. [kind |-> k, pos |-> 0] \in [kind : Kinds \cup {NoStatement}, pos : 0 .. Rows]
  BY <1>1
<1>3. PICK portal \in [kind : Kinds \cup {NoStatement}, pos : 0 .. Rows] :
        portal = [kind |-> k, pos |-> 0]
  BY <1>2, Zenon
<1>4. portals' = [portals EXCEPT ![p] = portal] /\ portal.pos = 0
  BY <1>3
<1> QED BY <1>1, <1>4 DEF PortalType, PagesAgree

\* Bind.
LEMMA BindGood ==
  ASSUME IInv, NEW n \in Statements, NEW p \in Portals, Bind(p, n)
  PROVE  Good
<1> USE DEF IInv
<1>1. prepared[n] \in Kinds \cup {NoStatement}
  BY DEF PortalType
<1>2. PortalType'
  BY <1>1, NewPortalTyped DEF Bind
<1> QED BY <1>2, LoopGood DEF Bind, Cycle, StatementType

\* Close of a portal.
LEMMA ClosePortalGood ==
  ASSUME IInv, NEW p \in Portals, ClosePortal(p)
  PROVE  Good
<1> USE DEF IInv
<1>1. PortalType'
  BY NewPortalTyped DEF ClosePortal, NoPortal
<1> QED BY <1>1, LoopGood DEF ClosePortal, Cycle, StatementType

\* A protocol error, and Sync.
LEMMA ProtoErrorGood ==
  ASSUME IInv, ProtoError \/ Sync
  PROVE  Good
<1>1. PortalType'
  BY DEF IInv, PortalType, PagesAgree, ProtoError, Sync, extended
<1>2. /\ pc = "loop" /\ pc' = "loop"
      /\ UNCHANGED <<tx, protocol, extended, dbs, storage>>
      /\ failed' \in BOOLEAN /\ out' \in {"ready", "error"}
  BY DEF ProtoError, Sync, Error, IInv, StatementType
<1> QED BY <1>1, <1>2, LoopGood

\* Execute.
LEMMA ExecuteGood ==
  ASSUME IInv, NEW p \in Portals, NEW max \in 0 .. Rows, Execute(p, max)
  PROVE  Good
<1> USE DEF IInv
<1>1. /\ Handled(portals[p].kind, "extended") /\ PortalType'
      /\ UNCHANGED <<pc, protocol, prepared>> /\ ~ failed /\ pc = "loop"
  BY ExecuteHandled DEF Execute, Cycle
<1>2. StatementType' /\ out' \in Answers
  BY <1>1 DEF Handled, KeepsType
<1>3. QueryType' /\ ImplicitOK'
  BY <1>1, <1>2 DEF QueryType, ImplicitOK, Answers, protocol
<1>4. StepOK
  <2>1. KeepsTx(Unmarked(portals[p].kind, "extended"))
    BY <1>1 DEF Handled
  <2>2. Unmarked(portals[p].kind, "extended") => UnmarkedFailure
    BY <1>1 DEF Unmarked, UnmarkedFailure
  <2>3. ~ implicit
    BY <1>1 DEF ImplicitOK
  <2>4. KeepsTx(UnmarkedFailure)
    BY <1>1, <2>1, <2>2, Zenon DEF KeepsTx
  <2> QED BY <1>1, <2>3, <2>4, Zenon DEF StepOK, Atomic, Skips
<1> QED BY <1>1, <1>2, <1>3, <1>4 DEF Good

\* A Query arrives (the start of handleQuery).
LEMMA QueryGood ==
  ASSUME IInv, NEW q \in Queries, Query(q)
  PROVE  Good
<1> USE DEF IInv
<1>1. q \in Seq(Kinds) /\ q # <<>>
  BY SessionAssumption DEF SessionAssumption
<1>2. /\ pc = "loop" /\ failed' = FALSE /\ before' = Done
      /\ UNCHANGED <<prepared, portals, got, dbs>>
      /\ Done \in SUBSET Work /\ ~ implicit
  BY DEF Query, extended, Done, StatementType, StorageType, QueryType, ImplicitOK
<1>3. PortalType'
  BY <1>2 DEF PortalType, PagesAgree
<1>4. CASE /\ pc' = "batch" /\ rest' = q /\ implicit' = FALSE
           /\ UNCHANGED <<tx, out, storage>>
  <2>1. StatementType' /\ QueryType' /\ ImplicitOK'
    BY <1>1, <1>2, <1>4 DEF StatementType, StorageType, QueryType, ImplicitOK, storage
  <2>2. StepOK
    BY <1>2, <1>4 DEF StepOK, Atomic, Skips, KeepsTx, Lost, Forgotten, InTransaction, storage
  <2> QED BY <1>3, <2>1, <2>2 DEF Good
<1>5. CASE /\ Implicit(q) /\ BeginTx /\ tx' = "open"
           /\ pc' = "batch" /\ rest' = q /\ implicit' = TRUE /\ UNCHANGED out
  <2>1. StorageType' /\ durable' = durable /\ Sound'
    BY <1>5, BeginOpens DEF StatementType
  <2>2. StatementType' /\ QueryType'
    BY <1>1, <1>2, <1>5, <2>1 DEF StatementType, TxStates, QueryType
  <2>3. ImplicitOK'
    BY <1>2, <1>5, <2>1 DEF ImplicitOK, Implicit, Done, Sound
  <2>4. StepOK
    BY <1>2, <1>5, <2>1 DEF StepOK, Atomic, Skips, KeepsTx, Lost, Forgotten, Sound, Implicit
  <2> QED BY <1>3, <2>2, <2>3, <2>4 DEF Good
<1>6. CASE out' = "error" /\ UNCHANGED <<pc, tx, rest, implicit, storage>>
  <2>1. StatementType' /\ QueryType' /\ ImplicitOK'
    BY <1>2, <1>6 DEF StatementType, StorageType, QueryType, ImplicitOK, storage
  <2>2. StepOK
    BY <1>2, <1>6 DEF StepOK, Atomic, Skips, KeepsTx, Lost, Forgotten, InTransaction, storage
  <2> QED BY <1>3, <2>1, <2>2 DEF Good
<1> QED BY <1>4, <1>5, <1>6 DEF Query

\* A statement of a Query.
LEMMA QueryStepGood ==
  ASSUME IInv, QueryStep
  PROVE  Good
<1> USE DEF IInv
<1>1. PICK kind \in Kinds : kind = Head(rest)
  BY HeadTailProperties DEF QueryStep, QueryType
<1>2. PICK left \in Seq(Kinds) :
        /\ left = Tail(rest)
        /\ \A i \in DOMAIN left : i + 1 \in DOMAIN rest /\ left[i] = rest[i + 1]
  <2>1. rest \in Seq(Kinds) /\ rest # <<>>
    BY DEF QueryStep, QueryType
  <2>2. Tail(rest) \in Seq(Kinds) /\ Len(Tail(rest)) = Len(rest) - 1
        /\ \A i \in 1 .. Len(Tail(rest)) : Tail(rest)[i] = rest[i + 1]
    BY <2>1, HeadTailProperties
  <2>3. PICK left \in Seq(Kinds) : left = Tail(rest)
    BY <2>2, Zenon
  <2>4. DOMAIN left = 1 .. Len(left) /\ DOMAIN rest = 1 .. Len(rest)
        /\ Len(rest) \in Nat /\ Len(left) \in Nat
    BY <2>1, LenProperties
  <2> QED BY <2>2, <2>3, <2>4
<1>3. /\ pc = "batch" /\ rest' = left /\ rest # <<>>
      /\ UNCHANGED <<implicit, before, prepared, portals, got>> /\ ~ failed
  BY <1>2 DEF QueryStep, extended, QueryType
<1>4. PortalType'
  BY <1>3 DEF PortalType, PagesAgree
<1>5. implicit => /\ kind \notin OptOut /\ InTransaction /\ Done = before
                  /\ \A i \in DOMAIN left : left[i] \notin OptOut
  <2>1. 1 \in DOMAIN rest /\ Head(rest) = rest[1]
    BY <1>3, EmptySeq, LenProperties DEF QueryType
  <2> QED BY <1>1, <1>2, <1>3, <2>1 DEF ImplicitOK
<1>6. ASSUME Handled(kind, "simple"), Proceed(left)
      PROVE  Good
  <2>1. /\ StatementType' /\ out' \in Answers /\ ~ failed'
        /\ kind \notin OptOut => NothingDone
        /\ KeepsTx(Unmarked(kind, "simple"))
    BY <1>3, <1>6 DEF Handled, KeepsType
  <2>2. QueryType'
    BY <1>2, <1>3, <1>6, <2>1 DEF QueryType, Proceed, Answers
  <2>3. implicit => /\ Done' = before
                    /\ out' # "error" => InTransaction'
    BY <1>5, <2>1 DEF NothingDone, Done
  <2>4. ImplicitOK'
    BY <1>3, <1>5, <1>6, <2>3 DEF ImplicitOK, Proceed
  <2>5. Unmarked(kind, "simple") => UnmarkedFailure
    BY <1>1, <1>3 DEF Unmarked, UnmarkedFailure
  <2>6. KeepsTx(UnmarkedFailure)
    BY <1>3, <2>1, <2>5, Zenon DEF KeepsTx
  <2>7. StepOK
    BY <1>3, <2>3, <2>6, Zenon DEF StepOK, Atomic, Skips
  <2> QED BY <1>4, <2>1, <2>2, <2>4, <2>7 DEF Good
<1>7. CASE handleSimpleQuery(Head(rest)) /\ Proceed(Tail(rest))
  BY <1>1, <1>2, <1>6, <1>7, SimpleHandled
<1>8. CASE Aborted("simple") /\ Proceed(Tail(rest))
  BY <1>1, <1>2, <1>6, <1>8, QuietHandled DEF Aborted
<1>9. CASE pc' = "copy" /\ out' = "copy" /\ UNCHANGED <<tx, failed, dbs, storage>>
  <2>1. StatementType' /\ QueryType'
    BY <1>2, <1>3, <1>9 DEF StatementType, StorageType, QueryType, storage
  <2>2. ImplicitOK'
    BY <1>3, <1>5, <1>9 DEF ImplicitOK, Done, InTransaction, storage
  <2>3. StepOK
    BY <1>3, <1>5, <1>9 DEF StepOK, Atomic, Skips, KeepsTx, Done, Lost, Forgotten, InTransaction, storage
  <2> QED BY <1>4, <2>1, <2>2, <2>3 DEF Good
<1> QED BY <1>7, <1>8, <1>9 DEF QueryStep

\* The end of handleQuery, with the end of the implicit transaction.
LEMMA FinishGood ==
  ASSUME IInv, Finish
  PROVE  Good
<1> USE DEF IInv
<1>1. /\ pc = "finish" /\ pc' = "loop" /\ rest' = <<>> /\ implicit' = FALSE
      /\ UNCHANGED <<before, prepared, portals, got, dbs>> /\ ~ failed
      /\ <<>> \in Seq(Kinds)
  BY EmptySeq DEF Finish, extended, QueryType
<1>2. PortalType' /\ ImplicitOK'
  BY <1>1 DEF PortalType, PagesAgree, ImplicitOK
<1>3. CASE tx # "none" /\ endTx(out # "error", "simple")
  <2>1. PICK kind \in TxControl : kind = IF out # "error" THEN "COMMIT" ELSE "ROLLBACK"
    BY DEF TxControl
  <2>2. applyTxControl(kind, "simple")
    <3>1. CASE out # "error"
      <4>1. endTx(TRUE, "simple")
        BY <1>3, <3>1 DEF endTx
      <4> QED BY <2>1, <3>1, <4>1 DEF applyTxControl
    <3>2. CASE out = "error"
      <4>1. endTx(FALSE, "simple")
        BY <1>3, <3>2 DEF endTx
      <4> QED BY <2>1, <3>2, <4>1 DEF applyTxControl
    <3> QED BY <3>1, <3>2
  <2>3. Handled(kind, "simple")
    BY <1>1, <2>2, TxControlHandled
  <2>4. /\ StatementType' /\ out' \in Answers /\ ~ failed'
        /\ KeepsTx(Unmarked(kind, "simple"))
    BY <1>1, <2>3 DEF Handled, KeepsType
  <2>a. ~ Unmarked(kind, "simple")
    BY <2>1 DEF Unmarked
  <2>5. QueryType'
    BY <1>1, <2>4 DEF QueryType, Answers
  <2>6. out = "error" => durable' = durable
    BY <1>3, RollbackEnds DEF endTx, storage, StatementType
  <2>7. implicit => Done' = before \/ (Finish /\ out # "error")
    BY <1>1, <2>6 DEF ImplicitOK, Done
  <2>8. KeepsTx(UnmarkedFailure)
    BY <2>4, <2>a, Zenon DEF KeepsTx
  <2>9. StepOK
    BY <1>1, <2>7, <2>8, Zenon DEF StepOK, Atomic, Skips
  <2> QED BY <1>2, <2>4, <2>5, <2>9 DEF Good
<1>4. CASE UNCHANGED <<tx, out, failed, storage>>
  <2>1. StatementType' /\ QueryType'
    BY <1>1, <1>4 DEF StatementType, StorageType, QueryType, storage
  <2>2. StepOK
    BY <1>1, <1>4 DEF StepOK, Atomic, Skips, KeepsTx, ImplicitOK, Done, Lost, Forgotten,
                      InTransaction, storage
  <2> QED BY <1>2, <2>1, <2>2 DEF Good
<1> QED BY <1>3, <1>4 DEF Finish

\* The end of a COPY (copyIn, copyInsert).
LEMMA CopyGood ==
  ASSUME IInv, CopyDone \/ CopyFail
  PROVE  Good
<1> USE DEF IInv
<1>0. /\ pc = "copy" /\ failed = FALSE /\ Proceed(rest)
      /\ UNCHANGED <<rest, implicit, before, prepared, portals, got, dbs>>
  BY DEF CopyDone, CopyFail, Aborted, QueryType, StatementType, protocol, extended
<1>a. Complete \/ Error("simple")
  BY DEF CopyDone, CopyFail, Aborted
<1>b. failed' = FALSE /\ out' \in {"complete", "error"}
  BY <1>0, <1>a DEF Complete, Error
<1>1. /\ pc = "copy" /\ UNCHANGED <<rest, implicit, before, prepared, portals, got, dbs>>
      /\ failed = FALSE /\ failed' = FALSE /\ Proceed(rest)
      /\ out' \in {"complete", "error"}
  BY <1>0, <1>b
<1>2. PortalType'
  BY <1>1 DEF PortalType, PagesAgree
<1>3. ASSUME StorageType', tx' \in TxStates, NothingDone, CopyKeepsTx
      PROVE  Good
  <2>1. StatementType' /\ QueryType'
    BY <1>1, <1>3 DEF StatementType, QueryType, Proceed
  <2>2. implicit => /\ Done' = before
                    /\ out' # "error" => InTransaction'
    BY <1>1, <1>3 DEF ImplicitOK, NothingDone, Done
  <2>3. ImplicitOK'
    BY <1>1, <2>2 DEF ImplicitOK, Proceed
  <2>4. StepOK
    BY <1>1, <1>3, <2>2 DEF StepOK, Atomic, Skips
  <2> QED BY <1>2, <2>1, <2>3, <2>4 DEF Good
<1>4. CASE Write /\ Complete /\ UNCHANGED tx
  <2>1. Inside
    BY <1>4, WriteInside DEF StatementType
  <2> QED BY <1>1, <1>3, <1>4, <2>1
          DEF Inside, NothingDone, CopyKeepsTx, Lost, Forgotten, Sound, StatementType
<1>5. CASE tx # "none" /\ PartlyFails /\ abort /\ Error("simple")
  <2>1. /\ StorageType'
        /\ InTransaction => durable' = durable
        /\ ~ InTransaction => ~ InTransaction'
    BY <1>5, PartlyLoses DEF StatementType
  <2>2. tx' = "failed" /\ out' = "error"
    BY <1>5 DEF abort, Error
  <2> QED BY <1>1, <1>3, <1>5, <2>1, <2>2
          DEF NothingDone, CopyKeepsTx, Lost, Forgotten, TxStates
<1>6. CASE Error("simple") /\ UNCHANGED <<tx, storage>>
  BY <1>1, <1>3, <1>6
     DEF Error, NothingDone, CopyKeepsTx, Lost, Forgotten, InTransaction, storage,
         StatementType, StorageType
<1>7. CASE /\ tx = "none" /\ UNCHANGED tx /\ ~ InTransaction /\ next \in Work
           /\ levels' = <<[savepoint |-> FALSE, work |-> {next}]>>
           /\ next' = next + 1 /\ Error("simple") /\ UNCHANGED durable
  <2>1. PICK level \in Level : level = [savepoint |-> FALSE, work |-> {next}]
    <3>1. [savepoint |-> FALSE, work |-> {next}] \in Level
      BY <1>7 DEF Level
    <3> QED BY <3>1, Zenon
  <2>2. levels' \in Seq(Level)
    BY <1>7, <2>1
  <2>3. next' \in 1 .. MaxWork + 1
    BY <1>7, WorkAssumption DEF Work
  <2>4. StorageType' /\ tx' = "none" /\ out' = "error"
    BY <1>7, <2>2, <2>3 DEF StorageType, StatementType, Error
  <2> QED BY <1>1, <1>3, <1>7, <2>4
          DEF NothingDone, CopyKeepsTx, Lost, Forgotten, TxStates
<1> QED BY <1>4, <1>5, <1>6, <1>7 DEF CopyDone, CopyFail, Aborted

\* The connection or the process ends, or a new one begins.
LEMMA ResetGood ==
  ASSUME IInv, Disconnect \/ Crash \/ Connect
  PROVE  Good
<1> USE DEF IInv
<1>1. Reset /\ pc' \in {"closed", "loop"}
  BY DEF Disconnect, Crash, Connect
<1>2. Rows \in Nat /\ <<>> \in Seq(Kinds) /\ <<>> \in Seq(Level)
  BY SessionAssumption, EmptySeq DEF SessionAssumption
<1>3. StatementType' /\ durable' = durable /\ dbs' = dbs
      /\ ~ InTransaction' /\ tx' = "none"
  BY <1>1, <1>2 DEF Reset, LoseConnection, StatementType, StorageType, TxStates,
                    InTransaction
<1>4. QueryType' /\ ImplicitOK'
  BY <1>1, <1>2 DEF Reset, QueryType, ImplicitOK
<1>5. PortalType'
  <2>0. NoPortal \in [kind : Kinds \cup {NoStatement}, pos : 0 .. Rows]
    BY <1>2 DEF NoPortal
  <2>1. PICK portal \in [kind : Kinds \cup {NoStatement}, pos : 0 .. Rows] :
          portal = NoPortal
    BY <2>0, Zenon
  <2>2. portal.pos = 0
    BY <2>1 DEF NoPortal
  <2>3. portals' = [p \in Portals |-> portal] /\ got' = [p \in Portals |-> 0]
        /\ prepared' = [n \in Statements |-> NoStatement]
    BY <1>1, <2>1 DEF Reset
  <2> QED BY <1>2, <2>2, <2>3 DEF PortalType, PagesAgree
<1>6. StepOK
  BY <1>1, <1>3 DEF StepOK, Atomic, Skips, KeepsTx, Reset, Lost, Forgotten,
                    ImplicitOK, Done
<1> QED BY <1>3, <1>4, <1>5, <1>6 DEF Good

-----------------------------------------------------------------------------
(* The theorems. *)

\* A new connection satisfies the invariant.
LEMMA InitInvariant == Init => IInv
<1> SUFFICES ASSUME Init PROVE IInv
  OBVIOUS
<1>1. Rows \in Nat /\ <<>> \in Seq(Kinds) /\ <<>> \in Seq(Level) /\ MaxWork \in Nat
  BY SessionAssumption, WorkAssumption, EmptySeq DEF SessionAssumption
<1>b. StorageType
  BY <1>1 DEF Init, StorageInit, StorageType
<1>c. StatementType
  BY <1>b DEF Init, StatementType, TxStates
<1>2. QueryType /\ ImplicitOK
  BY <1>1 DEF Init, QueryType, ImplicitOK
<1>a. NoPortal \in [kind : Kinds \cup {NoStatement}, pos : 0 .. Rows]
  BY <1>1 DEF NoPortal
<1>3. PICK portal \in [kind : Kinds \cup {NoStatement}, pos : 0 .. Rows] :
        portal = NoPortal
  BY <1>a, Zenon
<1>4. portal.pos = 0
  BY <1>3 DEF NoPortal
<1>5. portals = [p \in Portals |-> portal] /\ got = [p \in Portals |-> 0]
      /\ prepared = [n \in Statements |-> NoStatement]
  BY <1>3 DEF Init
<1>6. PortalType
  BY <1>1, <1>4, <1>5 DEF PortalType, PagesAgree
<1> QED BY <1>c, <1>2, <1>6 DEF IInv

\* Every step keeps the invariant and does only what a step may do.
LEMMA StepGood == IInv /\ [Next]_vars => IInv' /\ [StepOK]_vars
<1> SUFFICES ASSUME IInv, [Next]_vars PROVE IInv' /\ [StepOK]_vars
  OBVIOUS
<1>1. CASE UNCHANGED vars
  <2>1. StatementType' /\ PortalType' /\ QueryType' /\ ImplicitOK'
    BY <1>1 DEF IInv, vars, protocol, extended, storage, StatementType, StorageType,
                PortalType, PagesAgree, QueryType, ImplicitOK, Done, InTransaction
  <2> QED BY <1>1, <2>1 DEF IInv
<1>2. CASE Next
  <2>1. ASSUME NEW q \in Queries, Query(q) PROVE Good
    BY <2>1, QueryGood
  <2>2. ASSUME QueryStep PROVE Good
    BY <2>2, QueryStepGood
  <2>3. ASSUME Finish PROVE Good
    BY <2>3, FinishGood
  <2>4. ASSUME CopyDone \/ CopyFail PROVE Good
    BY <2>4, CopyGood
  <2>5. ASSUME NEW n \in Statements, NEW kind \in Parsed, Parse(n, kind) PROVE Good
    BY <2>5, ParseGood
  <2>6. ASSUME NEW n \in Statements, CloseStatement(n) PROVE Good
    BY <2>6, CloseStatementGood
  <2>7. ASSUME NEW n \in Statements, NEW p \in Portals, Bind(p, n) PROVE Good
    BY <2>7, BindGood
  <2>8. ASSUME NEW p \in Portals, ClosePortal(p) PROVE Good
    BY <2>8, ClosePortalGood
  <2>9. ASSUME NEW p \in Portals, NEW max \in 0 .. Rows, Execute(p, max) PROVE Good
    BY <2>9, ExecuteGood
  <2>10. ASSUME ProtoError \/ Sync PROVE Good
    BY <2>10, ProtoErrorGood
  <2>11. ASSUME Disconnect \/ Crash \/ Connect PROVE Good
    BY <2>11, ResetGood
  <2>12. Good
    BY <1>2, <2>1, <2>2, <2>3, <2>4, <2>5, <2>6, <2>7, <2>8, <2>9, <2>10, <2>11
       DEF Next
  <2> QED BY <2>12 DEF Good
<1> QED BY <1>1, <1>2

\* The invariant that carries the others (type session and its connection).
THEOREM InductiveInvariant == Spec => []IInv
<1>1. IInv /\ [Next]_vars => IInv'
  BY StepGood
<1> QED BY <1>1, InitInvariant, PTL DEF Spec

\* Every variable of the session and of its SQLite connection keeps its range.
THEOREM TypeCorrect == Spec => []TypeOK
<1> QED BY InductiveInvariant, InvTyped, PTL

\* A Query with an implicit transaction is all or nothing (handleQuery).
THEOREM BatchIsAtomic == Spec => QueryIsAtomic
<1>1. IInv /\ [Next]_vars =>
        [implicit => \/ Done' = before
                     \/ Finish /\ out # "error"]_vars
  BY StepGood DEF StepOK, Atomic
<1> QED BY <1>1, InductiveInvariant, PTL DEF Spec, QueryIsAtomic

\* After an error nothing happens until Sync or a Query (loop).
THEOREM FailedCycleIsSkipped == Spec => SkipsToSync
<1>1. IInv /\ [Next]_vars =>
        [failed /\ failed' => UNCHANGED <<tx, storage, dbs, extended>>]_vars
  BY StepGood DEF StepOK, Skips
<1> QED BY <1>1, InductiveInvariant, PTL DEF Spec, SkipsToSync

\* Inside a transaction nothing takes effect before COMMIT, nor after a failure,
\* unless SQLite has lost the transaction (applyTxControl, sqliteTx).
THEOREM EffectsWaitForCommit == Spec => TakesEffectAtCommit
<1>1. IInv /\ [Next]_vars =>
        [durable' # durable /\ tx # "none" => Lost \/ (tx = "open" /\ tx' = "none")]_vars
  BY StepGood DEF StepOK, KeepsTx, CopyKeepsTx
<1> QED BY <1>1, InductiveInvariant, PTL DEF Spec, TakesEffectAtCommit

\* A transaction that SQLite rolled back is marked as failed, but for three
\* error handlers (trySchemaDDL, handleExecuteSQL, COMMENT in Execute).
THEOREM LossesAreNoticed == Spec => LossIsNoticed
<1>1. IInv /\ [Next]_vars =>
        [~ Lost /\ Lost' /\ tx' = "open" =>
           \/ pc = "batch" /\ Head(rest) \in {"SCHEMA", "EXECUTE"}
           \/ pc = "loop" /\ \E p \in Portals : portals[p].kind = "COMMENT"]_vars
  BY StepGood DEF StepOK, KeepsTx, CopyKeepsTx, UnmarkedFailure
<1> QED BY <1>1, InductiveInvariant, PTL DEF Spec, LossIsNoticed

\* SQLite is left in a transaction that the session forgot only by a COMMIT
\* that it refused (endTx, copyInsert).
THEOREM OnlyCommitForgets == Spec => ForgottenByCommitAlone
<1>1. IInv /\ [Next]_vars =>
        [~ Forgotten /\ Forgotten' =>
           /\ out' = "error"
           /\ tx = "open" \/ pc = "copy"]_vars
  BY StepGood DEF StepOK, KeepsTx, CopyKeepsTx
<1> QED BY <1>1, InductiveInvariant, PTL DEF Spec, ForgottenByCommitAlone

\* A result fetched in pages of any size is complete (handleExecute).
THEOREM FetchesAreComplete == Spec => FetchIsComplete
<1>1. IInv /\ [Next]_vars =>
        [\A p \in Portals, max \in 0 .. Rows :
           portals[p].kind = "READ" /\ Execute(p, max) /\ out' = "complete"
             => got'[p] = Rows]_vars
  BY ExecuteHandled DEF IInv
<1> QED BY <1>1, InductiveInvariant, PTL DEF Spec, FetchIsComplete
=============================================================================
