------------------------------ MODULE SqliteTx ------------------------------
(***************************************************************************)
(* The one SQLite connection behind a client: engine/sqlite.go's           *)
(* sqliteSession and sqliteTx, and what SQLite itself does with the        *)
(* statements they pass on.  What a statement writes is a single number,   *)
(* new each time, so that one can ask later where it went.                 *)
(***************************************************************************)
EXTENDS Naturals, Sequences

CONSTANT MaxWork   \* bound on the statements that write

ASSUME WorkAssumption == MaxWork \in Nat

VARIABLES
  levels,    \* the open transaction: its own work and, above it, the work done
             \* since each savepoint; <<>> in autocommit mode
  durable,   \* what has been committed to the file
  next       \* the work of the next statement that writes

storage == <<levels, durable, next>>

Work == 1 .. MaxWork
Level == [savepoint : BOOLEAN, work : SUBSET Work]

NewLevel(sp) == [savepoint |-> sp, work |-> {}]

InTransaction == levels # <<>>
Top == levels[Len(levels)]
AllWork == UNION {levels[i].work : i \in DOMAIN levels}

StorageInit == levels = <<>> /\ durable = {} /\ next = 1

\* BEGIN IMMEDIATE.
BeginTx ==
  /\ ~ InTransaction
  /\ levels' = <<NewLevel(FALSE)>>
  /\ UNCHANGED <<durable, next>>

Commit ==
  /\ InTransaction
  /\ durable' = durable \cup AllWork
  /\ levels' = <<>>
  /\ UNCHANGED next

\* SQLite refuses to commit and keeps the transaction open (database/sql is
\* done with it all the same), or the driver gives it up.
CommitRefused ==
  /\ levels' \in {levels, <<>>}
  /\ UNCHANGED <<durable, next>>

Rollback ==
  /\ InTransaction
  /\ levels' = <<>>
  /\ UNCHANGED <<durable, next>>

\* Outside a transaction SAVEPOINT opens one, and its RELEASE commits it.
Savepoint ==
  /\ levels' = Append(levels, NewLevel(TRUE))
  /\ UNCHANGED <<durable, next>>

\* Every savepoint has the same name here: the commands find the last one.
HasSavepoint == InTransaction /\ Top.savepoint

RollbackTo ==
  /\ HasSavepoint
  /\ levels' = [levels EXCEPT ![Len(levels)].work = {}]
  /\ UNCHANGED <<durable, next>>

Release ==
  /\ HasSavepoint
  /\ IF Len(levels) = 1
     THEN Commit
     ELSE LET n == Len(levels) - 1 IN
          /\ levels' = [SubSeq(levels, 1, n) EXCEPT ![n].work = @ \cup Top.work]
          /\ UNCHANGED <<durable, next>>

\* A statement that writes succeeds.
Write ==
  /\ next \in Work
  /\ next' = next + 1
  /\ IF InTransaction
     THEN /\ levels' = [levels EXCEPT ![Len(levels)].work = @ \cup {next}]
          /\ UNCHANGED durable
     ELSE /\ durable' = durable \cup {next}
          /\ UNCHANGED levels

\* A statement fails, and leaves nothing; an interrupted write, a full disk or
\* an I/O error makes SQLite roll back the whole transaction.
WriteFails ==
  /\ levels' \in {levels, <<>>}
  /\ UNCHANGED <<durable, next>>

\* A command that takes several statements fails after some of them.
PartlyFails == WriteFails \/ Write

\* The process dies: the WAL has what was committed.
LoseConnection ==
  /\ levels' = <<>>
  /\ UNCHANGED <<durable, next>>
=============================================================================
