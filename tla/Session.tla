------------------------------ MODULE Session -------------------------------
(***************************************************************************)
(* One client connection of the PostgreSQL protocol: type session in       *)
(* protocol/postgres.  Its loop reads a message, acts on it and answers;   *)
(* a Query may hold several statements, run one after the other in an      *)
(* implicit transaction, and the extended protocol prepares, binds,        *)
(* executes and pages.  Underneath is the client's SQLite connection,      *)
(* whose idea of the transaction is its own (module SqliteTx).             *)
(*                                                                         *)
(* Statements are reduced to the way the session treats them:              *)
(*   BEGIN COMMIT ROLLBACK           txControlKind                         *)
(*   SAVEPOINT, RELEASE, ROLLBACK TO savepointKind                         *)
(*   SCHEMA    CREATE/DROP/ALTER SCHEMA                                    *)
(*   DATABASE  CREATE/DROP DATABASE, which acts on the cluster             *)
(*   READ      a query, of Rows rows                                       *)
(*   WRITE     a statement SQLite runs as it is                            *)
(*   DDL       one the session turns into several: GRANT, ALTER TABLE, ... *)
(*   COMMENT   COMMENT ON                                                  *)
(*   EXECUTE   PREPARE, EXECUTE, SET ROLE, COPY TO: those that answer an   *)
(*             error themselves                                            *)
(*   COPY      COPY ... FROM STDIN                                         *)
(* Statements that change nothing (SET, SHOW, LISTEN, a lone comment) are  *)
(* left out.                                                               *)
(***************************************************************************)
EXTENDS SqliteTx

CONSTANTS Queries,    \* the Query messages: sequences of statements
          Parsed,     \* the statements that clients prepare
          Statements, Portals,   \* names of prepared statements and portals
          Rows,       \* rows of a query's result
          MaxSavepoints   \* bound on savepoints, for model checking only

TxControl == {"BEGIN", "COMMIT", "ROLLBACK"}
SavepointKinds == {"SAVEPOINT", "RELEASE", "ROLLBACK TO"}
Kinds == TxControl \cup SavepointKinds \cup
  {"SCHEMA", "DATABASE", "READ", "WRITE", "DDL", "COMMENT", "EXECUTE", "COPY"}

ASSUME SessionAssumption ==
  /\ Queries \subseteq Seq(Kinds) \ {<<>>}
  /\ Parsed \subseteq Kinds \ {"COPY", "SCHEMA"}
  /\ Rows \in Nat
  /\ MaxSavepoints \in Nat

VARIABLES
  pc,        \* "loop": reading a message; "batch", "finish": inside
             \* handleQuery; "copy": inside copyIn; "closed"
  tx,        \* session.tx: "none", "open", or "failed" (txFailed)
  failed,    \* session.failed: skip the extended messages until Sync
  rest,      \* the statements of the Query still to run
  implicit,  \* handleQuery began a transaction for the Query
  prepared,  \* session.prepared: the statement, by name
  portals,   \* session.portals: its statement, and the rows already sent of
             \* the buffered result (0: no result)
  dbs,       \* what CREATE and DROP DATABASE did to the cluster
  out,       \* the last answer
  before,    \* history: what had been done for good when the Query came
  got        \* history: the rows of the result the client has received

protocol == <<rest, implicit, before>>
extended == <<prepared, portals, got>>
vars == <<pc, tx, failed, protocol, extended, dbs, out, storage>>

NoStatement == "none"
NoPortal == [kind |-> NoStatement, pos |-> 0]

\* What would survive a crash now.
Done == durable \cup dbs

Init ==
  /\ StorageInit
  /\ pc = "loop" /\ tx = "none" /\ failed = FALSE
  /\ rest = <<>> /\ implicit = FALSE /\ before = {}
  /\ prepared = [n \in Statements |-> NoStatement]
  /\ portals = [p \in Portals |-> NoPortal]
  /\ got = [p \in Portals |-> 0]
  /\ dbs = {}
  /\ out = "ready"

-----------------------------------------------------------------------------
(* Answers.  via is "simple" or "extended". *)

Complete == out' = "complete" /\ UNCHANGED failed

\* sendError, or protoError which also skips the rest of the cycle.
Error(via) == out' = "error" /\ failed' = (failed \/ via = "extended")

\* "if s.tx != nil { s.txFailed = true }"
abort == tx' = IF tx = "none" THEN "none" ELSE "failed"

abortedTxError == tx = "failed"

-----------------------------------------------------------------------------
(* applyTxControl. *)

begin(via) ==
  \/ /\ tx # "none"
     /\ Complete
     /\ UNCHANGED <<tx, storage>>
  \/ /\ tx = "none"
     /\ BeginTx
     /\ tx' = "open"
     /\ Complete
  \/ /\ tx = "none"     \* another writer holds the lock for too long
     /\ Error(via)
     /\ UNCHANGED <<tx, storage>>

\* Mutant: COMMIT does not look at txFailed.
endTxIgnoresFailure(commit, via) ==
  \/ /\ tx = "none"
     /\ Complete
     /\ UNCHANGED <<tx, storage>>
  \/ /\ tx # "none"
     /\ tx' = "none"
     /\ \/ commit /\ Commit /\ Complete
        \/ ~ commit /\ Rollback /\ Complete
        \/ ~ InTransaction /\ Error(via) /\ UNCHANGED storage

\* Mutant: a failed transaction is forgotten, not rolled back.
endTxForgets(commit, via) ==
  \/ /\ tx = "none"
     /\ Complete
     /\ UNCHANGED <<tx, storage>>
  \/ /\ tx # "none"
     /\ tx' = "none"
     /\ \/ tx = "open" /\ commit /\ Commit /\ Complete
        \/ tx = "open" /\ ~ commit /\ Rollback /\ Complete
        \/ tx = "failed" /\ Complete /\ UNCHANGED storage

endTx(commit, via) ==
  \/ /\ tx = "none"
     /\ Complete
     /\ UNCHANGED <<tx, storage>>
  \/ /\ tx = "open" /\ commit
     /\ tx' = "none"
     /\ \/ Commit /\ Complete
        \/ CommitRefused /\ Error(via)
  \/ /\ tx = "failed" \/ (tx = "open" /\ ~commit)
     /\ tx' = "none"
     /\ \/ Rollback /\ Complete
        \/ ~ InTransaction /\ Error(via) /\ UNCHANGED storage

applyTxControl(kind, via) ==
  \/ kind = "BEGIN" /\ begin(via)
  \/ kind = "COMMIT" /\ endTx(TRUE, via)
  \/ kind = "ROLLBACK" /\ endTx(FALSE, via)

(* trySavepoint. *)

trySavepoint(kind, via) ==
  \/ /\ \/ tx = "none"
        \/ tx = "failed" /\ kind # "ROLLBACK TO"
        \/ kind = "ROLLBACK TO" /\ ~ HasSavepoint
     /\ Error(via)
     /\ UNCHANGED <<tx, storage>>
  \/ /\ tx # "none" /\ kind = "ROLLBACK TO"
     /\ RollbackTo
     /\ tx' = "open"
     /\ Complete
  \/ /\ tx = "open"
     /\ \/ kind = "SAVEPOINT" /\ Len(levels) <= MaxSavepoints /\ Savepoint
        \/ kind = "RELEASE" /\ Release
     /\ Complete
     /\ UNCHANGED tx
  \/ /\ tx = "open" /\ kind # "ROLLBACK TO"
     /\ kind = "RELEASE" => ~ HasSavepoint
     /\ WriteFails
     /\ tx' = "failed"
     /\ Error(via)

\* trySchemaDDL, ahead of the guard for aborted transactions.
trySchemaDDL ==
  /\ UNCHANGED tx
  /\ \/ Write /\ Complete
     \/ PartlyFails /\ Error("simple")

\* tryDatabaseDDL: the cluster's work, in no transaction.
tryDatabaseDDL(via) ==
  \/ /\ next \in Work
     /\ next' = next + 1
     /\ dbs' = dbs \cup {next}
     /\ Complete
     /\ UNCHANGED <<tx, levels, durable>>
  \/ /\ IF via = "simple" THEN abort ELSE UNCHANGED tx
     /\ Error(via)
     /\ UNCHANGED <<storage, dbs>>

-----------------------------------------------------------------------------
(* The statements behind the guard. *)

\* Mutant: the error handler forgets s.txFailed.
WriteKeepsTx(via) ==
  \/ Write /\ Complete /\ UNCHANGED tx
  \/ WriteFails /\ Error(via) /\ UNCHANGED tx

WriteStatement(via) ==
  \/ Write /\ Complete /\ UNCHANGED tx
  \/ WriteFails /\ abort /\ Error(via)

DDLStatement(via) ==
  \/ Write /\ Complete /\ UNCHANGED tx
  \/ PartlyFails /\ abort /\ Error(via)

\* In the extended protocol a failing COMMENT leaves the transaction open.
CommentStatement(via) ==
  \/ Write /\ Complete /\ UNCHANGED tx
  \/ /\ PartlyFails
     /\ Error(via)
     /\ IF via = "simple" THEN abort ELSE UNCHANGED tx

ReadStatement(via) ==
  \/ Complete /\ UNCHANGED <<tx, storage>>
  \/ abort /\ Error(via) /\ UNCHANGED storage

\* handleExecuteSQL and the others send their error and return.  The extended
\* protocol knows SET ROLE alone; the rest SQLite takes for a syntax error.
ExecuteStatement(via) ==
  \/ Complete /\ UNCHANGED <<tx, storage>>
  \/ Error(via) /\ UNCHANGED <<tx, storage>>
  \/ /\ via = "simple"
     /\ UNCHANGED tx
     /\ \/ Write /\ Complete
        \/ WriteFails /\ Error(via)
  \/ via = "extended" /\ abort /\ Error(via) /\ UNCHANGED storage

Aborted(via) == Error(via) /\ UNCHANGED <<tx, storage, dbs>>

\* What both protocols do with a statement once it has reached the guard.
Guarded(kind, via) ==
  IF abortedTxError
  THEN Aborted(via)
  ELSE \/ /\ \/ kind = "WRITE" /\ WriteStatement(via)
             \/ kind = "DDL" /\ DDLStatement(via)
             \/ kind = "COMMENT" /\ CommentStatement(via)
             \/ kind = "EXECUTE" /\ ExecuteStatement(via)
          /\ UNCHANGED dbs
       \/ via = "simple" /\ kind = "READ" /\ ReadStatement(via) /\ UNCHANGED dbs
       \/ via = "simple" /\ kind = "DATABASE" /\ tryDatabaseDDL(via)

-----------------------------------------------------------------------------
(* The simple protocol: handleQuery and handleSimpleQuery. *)

\* Mutant: CREATE DATABASE does not opt out of the implicit transaction.
OptOutWithoutDatabase == TxControl \cup SavepointKinds

OptOut == TxControl \cup SavepointKinds \cup {"DATABASE"}

\* The Query gets a transaction of its own.
Implicit(q) ==
  /\ Len(q) > 1
  /\ tx = "none"
  /\ \A i \in DOMAIN q : q[i] \notin OptOut

Query(q) ==
  /\ pc = "loop"
  /\ failed' = FALSE
  /\ before' = Done
  /\ IF ~ Implicit(q)
     THEN /\ pc' = "batch" /\ rest' = q /\ implicit' = FALSE
          /\ UNCHANGED <<tx, out, storage>>
     ELSE \/ /\ BeginTx
             /\ tx' = "open"
             /\ pc' = "batch" /\ rest' = q /\ implicit' = TRUE
             /\ UNCHANGED out
          \/ /\ out' = "error"
             /\ UNCHANGED <<pc, tx, rest, implicit, storage>>
  /\ UNCHANGED <<extended, dbs>>

\* After a statement: the next, unless there is none or it failed.
Proceed(left) ==
  pc' = IF out' = "error" \/ left = <<>> THEN "finish" ELSE "batch"

handleSimpleQuery(kind) ==
  \/ kind \in TxControl /\ applyTxControl(kind, "simple") /\ UNCHANGED dbs
  \/ kind = "SCHEMA" /\ trySchemaDDL /\ UNCHANGED dbs
  \/ kind \in SavepointKinds /\ trySavepoint(kind, "simple") /\ UNCHANGED dbs
  \/ /\ kind \notin TxControl \cup SavepointKinds \cup {"SCHEMA", "COPY"}
     /\ Guarded(kind, "simple")

QueryStep ==
  /\ pc = "batch"
  /\ rest' = Tail(rest)
  /\ \/ handleSimpleQuery(Head(rest)) /\ Proceed(Tail(rest))
     \/ /\ Head(rest) = "COPY"   \* CopyInResponse
        /\ ~ abortedTxError
        /\ pc' = "copy"
        /\ out' = "copy"
        /\ UNCHANGED <<tx, failed, dbs, storage>>
     \/ /\ Head(rest) = "COPY"   \* or no such table
        /\ Aborted("simple")
        /\ Proceed(Tail(rest))
  /\ UNCHANGED <<implicit, before, extended>>

\* The end of handleQuery, and ReadyForQuery.
Finish ==
  /\ pc = "finish"
  /\ pc' = "loop"
  /\ rest' = <<>>
  /\ implicit' = FALSE
  /\ IF implicit /\ tx # "none"
     THEN endTx(out # "error", "simple")
     ELSE UNCHANGED <<tx, out, failed, storage>>
  /\ UNCHANGED <<before, extended, dbs>>

\* CopyDone: the rows are inserted, in a transaction of copyInsert's own when
\* there is none.
CopyDone ==
  /\ pc = "copy"
  /\ \/ /\ tx # "none"
        /\ \/ Write /\ Complete /\ UNCHANGED tx
           \/ PartlyFails /\ abort /\ Error("simple")
     \/ /\ tx = "none"
        /\ UNCHANGED tx
        /\ \/ ~ InTransaction /\ Write /\ Complete
           \/ Error("simple") /\ UNCHANGED storage
           \/ /\ ~ InTransaction /\ next \in Work   \* its Commit is refused
              /\ levels' = <<[savepoint |-> FALSE, work |-> {next}]>>
              /\ next' = next + 1
              /\ Error("simple")
              /\ UNCHANGED durable
  /\ Proceed(rest)
  /\ UNCHANGED <<protocol, extended, dbs>>

\* CopyFail, or anything else that is not CopyData.
CopyFail ==
  /\ pc = "copy"
  /\ Aborted("simple")
  /\ Proceed(rest)
  /\ UNCHANGED <<protocol, extended>>

-----------------------------------------------------------------------------
(* The extended protocol.  A message is skipped while failed is set. *)

\* Mutant: the loop does not look at s.failed.
CycleUnskipped == pc = "loop"

Cycle == pc = "loop" /\ ~ failed

Parse(n, kind) ==
  /\ Cycle
  /\ prepared' = [prepared EXCEPT ![n] = kind]
  /\ out' = "complete"
  /\ UNCHANGED <<pc, tx, failed, protocol, portals, got, dbs, storage>>

Bind(p, n) ==
  /\ Cycle
  /\ prepared[n] # NoStatement
  /\ portals' = [portals EXCEPT ![p] = [kind |-> prepared[n], pos |-> 0]]
  /\ got' = [got EXCEPT ![p] = 0]
  /\ out' = "complete"
  /\ UNCHANGED <<pc, tx, failed, protocol, prepared, dbs, storage>>

CloseStatement(n) ==
  /\ Cycle
  /\ prepared' = [prepared EXCEPT ![n] = NoStatement]
  /\ out' = "complete"
  /\ UNCHANGED <<pc, tx, failed, protocol, portals, got, dbs, storage>>

ClosePortal(p) ==
  /\ Cycle
  /\ portals' = [portals EXCEPT ![p] = NoPortal]
  /\ got' = [got EXCEPT ![p] = 0]
  /\ out' = "complete"
  /\ UNCHANGED <<pc, tx, failed, protocol, prepared, dbs, storage>>

\* protoError with nothing done: a malformed message, a name that does not
\* exist, a Describe that SQLite refuses.  An unsupported message gets one
\* even while the cycle is being skipped.
ProtoError ==
  /\ pc = "loop"
  /\ Error("extended")
  /\ UNCHANGED <<pc, tx, protocol, extended, dbs, storage>>

Sync ==
  /\ pc = "loop"
  /\ failed' = FALSE
  /\ out' = "ready"
  /\ UNCHANGED <<pc, tx, protocol, extended, dbs, storage>>

\* Where a page of at most max rows (0: no limit) that starts at pos ends.
PageEnd(pos, max) == IF max > 0 /\ pos + max < Rows THEN pos + max ELSE Rows

\* The client counts from 0 again once it has had all the rows.
Received(p, n) == (IF got[p] >= Rows THEN 0 ELSE got[p]) + n

\* Mutant: resetPortal is missing at the end of the result.
PageNotReset(p, max) ==
  LET pos == portals[p].pos
      end == PageEnd(pos, max)
  IN  /\ got' = [got EXCEPT ![p] = Received(p, end - pos)]
      /\ portals' = [portals EXCEPT ![p].pos = end]
      /\ out' = IF end < Rows THEN "suspended" ELSE "complete"
      /\ UNCHANGED <<tx, failed, storage>>

\* A page of the buffered rows: PortalSuspended, or the end of the result.
Page(p, max) ==
  LET pos == portals[p].pos
      end == PageEnd(pos, max)
  IN  /\ got' = [got EXCEPT ![p] = Received(p, end - pos)]
      /\ portals' = [portals EXCEPT ![p].pos = IF end < Rows THEN end ELSE 0]
      /\ out' = IF end < Rows THEN "suspended" ELSE "complete"
      /\ UNCHANGED <<tx, failed, storage>>

\* The query runs once; its rows are buffered for the Executes to come.
ExecuteRead(p, max) ==
  IF abortedTxError
  THEN Aborted("extended") /\ UNCHANGED <<portals, got>>
  ELSE /\ \/ Page(p, max)
          \/ /\ portals[p].pos = 0
             /\ abort
             /\ Error("extended")
             /\ UNCHANGED <<portals, got, storage>>
       /\ UNCHANGED dbs

Execute(p, max) ==
  LET kind == portals[p].kind IN
  /\ Cycle
  /\ kind # NoStatement
  /\ \/ kind = "READ" /\ ExecuteRead(p, max)
     \/ /\ \/ kind = "DATABASE" /\ tryDatabaseDDL("extended")
           \/ /\ kind \in TxControl
              /\ applyTxControl(kind, "extended")
              /\ UNCHANGED dbs
           \/ /\ kind \in SavepointKinds
              /\ trySavepoint(kind, "extended")
              /\ UNCHANGED dbs
           \/ /\ kind \notin TxControl \cup SavepointKinds \cup {"READ", "DATABASE"}
              /\ Guarded(kind, "extended")
        /\ UNCHANGED <<portals, got>>
  /\ UNCHANGED <<pc, protocol, prepared>>

-----------------------------------------------------------------------------
Reset ==
  /\ tx' = "none" /\ failed' = FALSE
  /\ rest' = <<>> /\ implicit' = FALSE /\ before' = {}
  /\ prepared' = [n \in Statements |-> NoStatement]
  /\ portals' = [p \in Portals |-> NoPortal]
  /\ got' = [p \in Portals |-> 0]
  /\ out' = "ready"
  /\ LoseConnection
  /\ UNCHANGED dbs

\* The client leaves: loop's deferred function rolls the transaction back.
Disconnect == pc \in {"loop", "copy"} /\ pc' = "closed" /\ Reset

\* The process dies at any point.
Crash == pc # "closed" /\ pc' = "closed" /\ Reset

Connect == pc = "closed" /\ pc' = "loop" /\ Reset

Next ==
  \/ \E q \in Queries : Query(q)
  \/ QueryStep \/ Finish \/ CopyDone \/ CopyFail
  \/ \E n \in Statements : \/ \E kind \in Parsed : Parse(n, kind)
                           \/ CloseStatement(n)
                           \/ \E p \in Portals : Bind(p, n)
  \/ \E p \in Portals : \/ ClosePortal(p)
                        \/ \E max \in 0 .. Rows : Execute(p, max)
  \/ ProtoError \/ Sync
  \/ Disconnect \/ Crash \/ Connect

Spec == Init /\ [][Next]_vars

-----------------------------------------------------------------------------
(* Properties. *)

\* The range of every variable.
TypeOK ==
  /\ levels \in Seq(Level) /\ durable \in SUBSET Work /\ next \in 1 .. MaxWork + 1
  /\ pc \in {"loop", "batch", "finish", "copy", "closed"}
  /\ tx \in {"none", "open", "failed"}
  /\ failed \in BOOLEAN /\ implicit \in BOOLEAN
  /\ rest \in Seq(Kinds)
  /\ prepared \in [Statements -> Kinds \cup {NoStatement}]
  /\ portals \in [Portals -> [kind : Kinds \cup {NoStatement}, pos : 0 .. Rows]]
  /\ dbs \in SUBSET Work /\ before \in SUBSET Work
  /\ out \in {"ready", "complete", "error", "suspended", "copy"}
  /\ got \in [Portals -> 0 .. Rows]

\* The session believes in a transaction that SQLite no longer has, or that a
\* savepoint opened in its place.
Lost == tx # "none" /\ (~ InTransaction \/ levels[1].savepoint)

\* multistatement.go: a Query with an implicit transaction is all or nothing.
\* Until handleQuery commits it, and for good when one of its statements
\* failed or the process died, nothing of it has been done.
QueryIsAtomic ==
  [][implicit => \/ Done' = before
                 \/ Finish /\ out # "error"]_vars

\* Inside a transaction nothing takes effect before COMMIT, and never when a
\* statement of it failed, unless SQLite has lost the transaction.
TakesEffectAtCommit ==
  [][durable' # durable /\ tx # "none" => Lost \/ (tx = "open" /\ tx' = "none")]_vars

\* When SQLite drops the transaction on its own the session marks its own as
\* failed, so that no statement runs outside it: with three exceptions, whose
\* error handlers leave txFailed alone.
LossIsNoticed ==
  [][~ Lost /\ Lost' /\ tx' = "open" =>
       \/ pc = "batch" /\ Head(rest) \in {"SCHEMA", "EXECUTE"}
       \/ pc = "loop" /\ \E p \in Portals : portals[p].kind = "COMMENT"]_vars

\* SQLite is left in a transaction the session has forgotten only when it
\* refused a COMMIT: the client's, the implicit one's or copyInsert's.
Forgotten == tx = "none" /\ InTransaction

ForgottenByCommitAlone ==
  [][~ Forgotten /\ Forgotten' =>
       /\ out' = "error"
       /\ tx = "open" \/ pc = "copy"]_vars

\* After an error in the extended protocol nothing happens, to the data, the
\* transaction or the portals, until Sync or a Query.
SkipsToSync ==
  [][failed /\ failed' => UNCHANGED <<tx, storage, dbs, extended>>]_vars

\* A result fetched page by page is complete: when Execute ends the command
\* the client has had each row once, whatever happened between the pages.
FetchIsComplete ==
  [][\A p \in Portals, max \in 0 .. Rows :
       portals[p].kind = "READ" /\ Execute(p, max) /\ out' = "complete"
         => got'[p] = Rows]_vars

\* extended.go:36: "txFailed marks it as aborted: further statements are
\* rejected until COMMIT/ROLLBACK."  CREATE SCHEMA and, in the extended
\* protocol, CREATE DATABASE are not.
AbortedRejects ==
  [][tx = "failed" /\ tx' = "failed" => UNCHANGED <<storage, dbs>>]_vars

\* tx_wire_test.go:44: "A failed statement inside a transaction aborts it".
\* The errors of EXECUTE, COPY, SET ROLE and CREATE SCHEMA do not.
FailureAborts ==
  [][pc = "batch" /\ tx = "open" /\ ~ implicit /\ out' = "error"
       => tx' # "open"]_vars
=============================================================================
