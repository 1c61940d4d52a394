------------------------------ MODULE Versions ------------------------------
(***************************************************************************)
(* The database file as the sessions see it (engine/sqlite.go).  BEGIN     *)
(* takes SQLite's write lock (_txlock=immediate, journal mode WAL): one    *)
(* session is in a transaction, works on a version of its own and keeps    *)
(* the others from writing; they read the committed version.  Outside a    *)
(* transaction every statement commits by itself.                          *)
(***************************************************************************)
EXTENDS Connections

VARIABLES
  db,      \* the committed version
  writer,  \* the session that is in a transaction
  work,    \* its version; db if nobody is
  failed   \* the transaction is aborted

txVars == <<db, writer, work, failed>>

\* The rows of a table by their key; one is put there, or taken out.
Keyed(K, R) == UNION {[Q -> R] : Q \in SUBSET K}
With(T, k, row) == [x \in DOMAIN T \cup {k} |-> IF x = k THEN row ELSE T[x]]
Without(T, k) == [x \in DOMAIN T \ {k} |-> T[x]]

VersionsInit(v) ==
  /\ db = v /\ work = v
  /\ writer = NoSession
  /\ failed = FALSE

\* What s sees.
View(s) == IF writer = s THEN work ELSE db

\* s may write; else its statement fails, after the busy timeout.
MayWrite(s) == writer \in {s, NoSession}

\* A statement of s that makes what it sees v.
Write(s, v) ==
  /\ MayWrite(s)
  /\ work' = v
  /\ db' = IF writer = s THEN db ELSE v
  /\ UNCHANGED <<writer, failed>>

\* An error: it aborts the transaction.
Failure(s) ==
  /\ failed' = (failed \/ writer = s)
  /\ UNCHANGED <<db, work, writer>>

BeginTx(s) ==
  /\ writer = NoSession
  /\ writer' = s
  /\ UNCHANGED <<db, work, failed>>

CommitTx(s) ==
  /\ writer = s /\ ~failed
  /\ writer' = NoSession
  /\ db' = work
  /\ UNCHANGED <<work, failed>>

\* ROLLBACK, and the COMMIT of an aborted transaction.
RollbackTx(s) ==
  /\ writer = s
  /\ writer' = NoSession
  /\ failed' = FALSE
  /\ work' = db
  /\ UNCHANGED db
=============================================================================
