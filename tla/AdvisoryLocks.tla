--------------------------- MODULE AdvisoryLocks ---------------------------
(***************************************************************************)
(* pg_advisory_lock and its family: protocol/postgres/advisory.go.  One    *)
(* registry for every connection maps a key to the sessions that hold it;  *)
(* a call that has to wait captures the registry's "released" channel,     *)
(* tries, and sleeps until that very channel is closed.  Every section     *)
(* under advisoryLocks.mu is one action; a blocking call is several.       *)
(***************************************************************************)
EXTENDS Naturals, Sequences, FiniteSets

CONSTANTS Sessions,   \* connections
          Keys,       \* advisoryKey values
          NoSession,  \* the nil of advisoryHold.exclusive
          XactOnly,   \* the sessions whose client uses only the _xact_ forms
          MaxHolds,   \* bound on how often a session takes a lock, and
  MaxRecords  \* on the locks a transaction records: for model checking only

ASSUME AdvisoryAssumption ==
  /\ Keys # {}
  /\ NoSession \notin Sessions
  /\ XactOnly \subseteq Sessions
  /\ MaxHolds \in Nat
  /\ MaxRecords \in Nat

VARIABLES
  excl,       \* holds[k].exclusive
  exclCount,  \* holds[k].exclCount
  shared,     \* holds[k].shared, 0 for a session that is not in the map
  chan,       \* the released channel a waiting call captured: "open", or
              \* "closed" since wakeAdvisoryWaiters; "none" outside waitAdvisory
  pc,         \* where each session is
  req,        \* the call it is evaluating
  tx,         \* session.tx: "none", "open", or "failed" (txFailed)
  txHolds     \* session.txAdvisory

registry == <<excl, exclCount, shared>>
vars == <<excl, exclCount, shared, chan, pc, req, tx, txHolds>>

Modes == BOOLEAN                               \* TRUE: a _shared function
Holds == [key : Keys, shared : Modes]          \* txAdvisoryHold
Calls == [key : Keys, shared : Modes, xact : BOOLEAN]

(***************************************************************************)
(* "gone": no connection; "idle": the loop reads the next message;         *)
(* "capture", "try", "blocked": the steps of waitAdvisory; "granted": an   *)
(* _xact_ call has its lock and has not recorded it; "ending": endTx lets  *)
(* the transaction's locks go one by one; "closing": the loop's deferred   *)
(* functions have released the locks and not yet rolled back.              *)
(***************************************************************************)
Places == {"gone", "idle", "capture", "try", "blocked", "granted",
           "ending", "closing"}

-----------------------------------------------------------------------------
(* advisoryHold. *)

\* Mutant: an exclusive lock is granted over shared ones.
canTakeOverShared(s, k, sh) == excl[k] \in {NoSession, s}

\* Mutant: a shared lock is granted over another session's exclusive one.
canShareExclusive(s, k, sh) ==
  \/ sh
  \/ /\ excl[k] \in {NoSession, s}
     /\ \A t \in Sessions \ {s} : shared[k][t] = 0

canTake(s, k, sh) ==
  /\ excl[k] \in {NoSession, s}
  /\ sh \/ \A t \in Sessions \ {s} : shared[k][t] = 0

take(s, k, sh) ==
  IF sh
  THEN /\ shared' = [shared EXCEPT ![k][s] = @ + 1]
       /\ UNCHANGED <<excl, exclCount>>
  ELSE /\ excl' = [excl EXCEPT ![k] = s]
       /\ exclCount' = [exclCount EXCEPT ![k] = @ + 1]
       /\ UNCHANGED shared

\* How often s holds the lock k in that mode.
Count(s, k, sh) ==
  IF sh THEN shared[k][s] ELSE IF excl[k] = s THEN exclCount[k] ELSE 0

\* s has at least one hold of that mode, which is what unlockAdvisory reports.
HasHold(s, k, sh) == IF sh THEN shared[k][s] > 0 ELSE excl[k] = s

\* Mutant: one waiting call is woken instead of all.
wakeOneWaiter ==
  \E t \in Sessions :
    /\ \/ chan[t] = "open"
       \/ \A u \in Sessions : chan[u] # "open"
    /\ chan' = [chan EXCEPT ![t] = IF @ = "open" THEN "closed" ELSE @]

\* wakeAdvisoryWaiters closes the channel that waiting calls captured.
wakeAdvisoryWaiters ==
  chan' = [t \in Sessions |-> IF chan[t] = "open" THEN "closed" ELSE chan[t]]

\* Mutant: a shared hold is given back without being looked for.
unlockUnchecked(s, k, sh) ==
  /\ IF sh
     THEN /\ shared' = [shared EXCEPT ![k][s] = @ - 1]
          /\ UNCHANGED <<excl, exclCount>>
     ELSE UNCHANGED registry
  /\ wakeAdvisoryWaiters

\* Mutant: giving a shared hold back wakes nobody.
unlockSharedSilently(s, k, sh) ==
  IF ~ HasHold(s, k, sh)
  THEN UNCHANGED <<registry, chan>>
  ELSE IF sh
  THEN /\ shared' = [shared EXCEPT ![k][s] = @ - 1]
       /\ UNCHANGED <<excl, exclCount, chan>>
  ELSE /\ exclCount' = [exclCount EXCEPT ![k] = @ - 1]
       /\ excl' = [excl EXCEPT ![k] = IF exclCount[k] = 1 THEN NoSession ELSE s]
       /\ wakeAdvisoryWaiters
       /\ UNCHANGED shared

unlockAdvisory(s, k, sh) ==
  IF ~ HasHold(s, k, sh)
  THEN UNCHANGED <<registry, chan>>
  ELSE /\ IF sh
          THEN /\ shared' = [shared EXCEPT ![k][s] = @ - 1]
               /\ UNCHANGED <<excl, exclCount>>
          ELSE /\ exclCount' = [exclCount EXCEPT ![k] = @ - 1]
               /\ excl' = [excl EXCEPT ![k] = IF exclCount[k] = 1
                                              THEN NoSession ELSE s]
               /\ UNCHANGED shared
       /\ wakeAdvisoryWaiters

\* Mutant: the closing session's shared holds are forgotten.
releaseExclusive(s) ==
  /\ excl' = [k \in Keys |-> IF excl[k] = s THEN NoSession ELSE excl[k]]
  /\ exclCount' = [k \in Keys |-> IF excl[k] = s THEN 0 ELSE exclCount[k]]
  /\ txHolds' = [txHolds EXCEPT ![s] = <<>>]
  /\ wakeAdvisoryWaiters
  /\ UNCHANGED shared

releaseAdvisoryLocks(s) ==
  /\ excl' = [k \in Keys |-> IF excl[k] = s THEN NoSession ELSE excl[k]]
  /\ exclCount' = [k \in Keys |-> IF excl[k] = s THEN 0 ELSE exclCount[k]]
  /\ shared' = [k \in Keys |-> [shared[k] EXCEPT ![s] = 0]]
  /\ txHolds' = [txHolds EXCEPT ![s] = <<>>]
  /\ wakeAdvisoryWaiters

-----------------------------------------------------------------------------
NoCall == CHOOSE c \in Calls : TRUE   \* req of a session that evaluates none

Init ==
  /\ excl = [k \in Keys |-> NoSession]
  /\ exclCount = [k \in Keys |-> 0]
  /\ shared = [k \in Keys |-> [s \in Sessions |-> 0]]
  /\ chan = [s \in Sessions |-> "none"]
  /\ pc = [s \in Sessions |-> "gone"]
  /\ req = [s \in Sessions |-> NoCall]
  /\ tx = [s \in Sessions |-> "none"]
  /\ txHolds = [s \in Sessions |-> <<>>]

Goto(s, place) == pc' = [pc EXCEPT ![s] = place]

\* A statement is evaluated unless the transaction has failed (25P02).
Ready(s) == pc[s] = "idle" /\ tx[s] # "failed"

(* The connection and its transactions, as far as the locks depend on them. *)

Connect(s) ==
  /\ pc[s] = "gone"
  /\ Goto(s, "idle")
  /\ UNCHANGED <<registry, chan, req, tx, txHolds>>

Begin(s) ==
  /\ pc[s] = "idle"
  /\ tx[s] = "none"
  /\ tx' = [tx EXCEPT ![s] = "open"]
  /\ UNCHANGED <<registry, chan, pc, req, txHolds>>

\* A statement of the transaction fails, or ROLLBACK TO SAVEPOINT revives it.
TxFails(s) ==
  /\ pc[s] = "idle"
  /\ tx[s] = "open"
  /\ tx' = [tx EXCEPT ![s] = "failed"]
  /\ UNCHANGED <<registry, chan, pc, req, txHolds>>

RollbackToSavepoint(s) ==
  /\ pc[s] = "idle"
  /\ tx[s] = "failed"
  /\ tx' = [tx EXCEPT ![s] = "open"]
  /\ UNCHANGED <<registry, chan, pc, req, txHolds>>

\* Mutant: the deferred releaseTxAdvisoryLocks is missing.
EndTxKeepsLocks(s) ==
  /\ pc[s] = "idle"
  /\ tx[s] # "none"
  /\ tx' = [tx EXCEPT ![s] = "none"]
  /\ UNCHANGED <<registry, chan, pc, req, txHolds>>

\* endTx: s.tx is cleared, SQLite commits or rolls back, and the deferred
\* releaseTxAdvisoryLocks walks the transaction's locks.
EndTx(s) ==
  /\ pc[s] = "idle"
  /\ tx[s] # "none"
  /\ tx' = [tx EXCEPT ![s] = "none"]
  /\ Goto(s, IF txHolds[s] = <<>> THEN "idle" ELSE "ending")
  /\ UNCHANGED <<registry, chan, req, txHolds>>

releaseTxAdvisoryLocks(s) ==
  LET h == Head(txHolds[s]) IN
  /\ pc[s] = "ending"
  /\ unlockAdvisory(s, h.key, h.shared)
  /\ txHolds' = [txHolds EXCEPT ![s] = Tail(@)]
  /\ Goto(s, IF Len(txHolds[s]) = 1 THEN "idle" ELSE "ending")
  /\ UNCHANGED <<req, tx>>

\* The client is gone: loop's deferred functions release the locks first ...
Close(s) ==
  /\ pc[s] = "idle"
  /\ releaseAdvisoryLocks(s)
  /\ Goto(s, "closing")
  /\ UNCHANGED <<req, tx>>

\* ... and roll the transaction back last.
CloseRollback(s) ==
  /\ pc[s] = "closing"
  /\ tx' = [tx EXCEPT ![s] = "none"]
  /\ Goto(s, "gone")
  /\ UNCHANGED <<registry, chan, req, txHolds>>

-----------------------------------------------------------------------------
(* The functions. *)

Allowed(s, call) ==
  /\ s \in XactOnly => call.xact
  /\ Count(s, call.key, call.shared) < MaxHolds
  /\ Len(txHolds[s]) < MaxRecords

\* pg_try_advisory_lock and its variants: tryAdvisory once.
TryLock(s, call) ==
  /\ Ready(s)
  /\ Allowed(s, call)
  /\ canTake(s, call.key, call.shared)
  /\ take(s, call.key, call.shared)
  /\ IF call.xact
     THEN /\ Goto(s, "granted")
          /\ req' = [req EXCEPT ![s] = call]
     ELSE UNCHANGED <<pc, req>>
  /\ UNCHANGED <<chan, tx, txHolds>>

\* pg_advisory_lock and its variants: waitAdvisory.
Lock(s, call) ==
  /\ Ready(s)
  /\ Allowed(s, call)
  /\ Goto(s, "capture")
  /\ req' = [req EXCEPT ![s] = call]
  /\ UNCHANGED <<registry, chan, tx, txHolds>>

\* The channel is read before the lock is tried, so a release in between is
\* not missed.
Capture(s) ==
  /\ pc[s] = "capture"
  /\ chan' = [chan EXCEPT ![s] = "open"]
  /\ Goto(s, "try")
  /\ UNCHANGED <<registry, req, tx, txHolds>>

Acquire(s) ==
  LET call == req[s] IN
  /\ pc[s] = "try"
  /\ canTake(s, call.key, call.shared)
  /\ take(s, call.key, call.shared)
  /\ chan' = [chan EXCEPT ![s] = "none"]
  /\ IF call.xact
     THEN Goto(s, "granted") /\ UNCHANGED req
     ELSE Goto(s, "idle") /\ req' = [req EXCEPT ![s] = NoCall]
  /\ UNCHANGED <<tx, txHolds>>

Block(s) ==
  /\ pc[s] = "try"
  /\ ~ canTake(s, req[s].key, req[s].shared)
  /\ Goto(s, "blocked")
  /\ UNCHANGED <<registry, chan, req, tx, txHolds>>

Wake(s) ==
  /\ pc[s] = "blocked"
  /\ chan[s] = "closed"
  /\ Goto(s, "capture")
  /\ chan' = [chan EXCEPT ![s] = "none"]
  /\ UNCHANGED <<registry, req, tx, txHolds>>

\* A CancelRequest for the statement, or the server stopping.  The error fails
\* the transaction, if there is one.
Cancel(s) ==
  /\ pc[s] = "blocked"
  /\ Goto(s, "idle")
  /\ chan' = [chan EXCEPT ![s] = "none"]
  /\ req' = [req EXCEPT ![s] = NoCall]
  /\ tx' = [tx EXCEPT ![s] = IF @ = "none" THEN "none" ELSE "failed"]
  /\ UNCHANGED <<registry, txHolds>>

\* Outside a transaction the statement is the transaction, and the lock that
\* was just taken goes at once; inside it is recorded for endTx.
holdForTx(s) ==
  LET call == req[s] IN
  /\ pc[s] = "granted"
  /\ IF tx[s] = "none"
     THEN /\ unlockAdvisory(s, call.key, call.shared)
          /\ UNCHANGED txHolds
     ELSE /\ txHolds' = [txHolds EXCEPT ![s] =
                Append(@, [key |-> call.key, shared |-> call.shared])]
          /\ UNCHANGED <<registry, chan>>
  /\ Goto(s, "idle")
  /\ req' = [req EXCEPT ![s] = NoCall]
  /\ UNCHANGED tx

\* pg_advisory_unlock and pg_advisory_unlock_shared.
Unlock(s, k, sh) ==
  /\ Ready(s)
  /\ s \notin XactOnly
  /\ unlockAdvisory(s, k, sh)
  /\ UNCHANGED <<pc, req, tx, txHolds>>

UnlockAll(s) ==
  /\ Ready(s)
  /\ s \notin XactOnly
  /\ releaseAdvisoryLocks(s)
  /\ UNCHANGED <<pc, req, tx>>

\* What a session's goroutine does on its own, without its client.
OwnStep(s) ==
  \/ Capture(s) \/ Acquire(s) \/ Block(s) \/ Wake(s)
  \/ holdForTx(s) \/ releaseTxAdvisoryLocks(s) \/ CloseRollback(s)

ClientStep(s) ==
  \/ Connect(s) \/ Begin(s) \/ TxFails(s) \/ RollbackToSavepoint(s)
  \/ EndTx(s) \/ Close(s) \/ Cancel(s) \/ UnlockAll(s)
  \/ \E call \in Calls : Lock(s, call) \/ TryLock(s, call)
  \/ \E k \in Keys, sh \in Modes : Unlock(s, k, sh)

Next == \E s \in Sessions : OwnStep(s) \/ ClientStep(s)

Spec == Init /\ [][Next]_vars

\* Goroutines that can run do; clients owe nothing.
Fairness == \A s \in Sessions : WF_vars(OwnStep(s))

FairSpec == Spec /\ Fairness

-----------------------------------------------------------------------------
(* Properties. *)

\* The range of every variable: the registry, the waiters and the sessions.
TypeOK ==
  /\ excl \in [Keys -> Sessions \cup {NoSession}]
  /\ exclCount \in [Keys -> Nat]
  /\ shared \in [Keys -> [Sessions -> Nat]]
  /\ chan \in [Sessions -> {"none", "open", "closed"}]
  /\ pc \in [Sessions -> Places]
  /\ req \in [Sessions -> Calls]
  /\ tx \in [Sessions -> {"none", "open", "failed"}]
  /\ txHolds \in [Sessions -> Seq(Holds)]

\* A lock held exclusively is held by one session, and the count says so; no
\* other session shares it.
MutualExclusion ==
  \A k \in Keys :
    /\ excl[k] = NoSession <=> exclCount[k] = 0
    /\ excl[k] # NoSession =>
         \A t \in Sessions \ {excl[k]} : shared[k][t] = 0

\* No wakeup is lost: a call asleep on a channel that is still open really
\* cannot have its lock, because whatever would free it closes that channel.
NoLostWakeup ==
  \A s \in Sessions :
    pc[s] = "blocked" /\ chan[s] = "open"
      => ~ canTake(s, req[s].key, req[s].shared)

\* A connection that closed left nothing behind in the registry, so nobody
\* waits for a session that no longer exists.
NothingAfterClose ==
  \A s \in Sessions :
    pc[s] \in {"gone", "closing"} =>
      /\ txHolds[s] = <<>>
      /\ \A k \in Keys : excl[k] # s /\ shared[k][s] = 0

\* How often the transaction of s has recorded it, the call that has its lock
\* and is about to record it included.
Recorded(s, k, sh) ==
  LET h == [key |-> k, shared |-> sh]
      pending == pc[s] = "granted" /\ req[s].key = k /\ req[s].shared = sh
  IN  Cardinality({i \in DOMAIN txHolds[s] : txHolds[s][i] = h})
        + (IF pending THEN 1 ELSE 0)

\* For a client that uses the _xact_ functions alone, the registry holds
\* exactly what its transaction recorded: the locks last to the end of the
\* transaction, and none outlives it.
XactLocksExact ==
  \A s \in XactOnly :
    /\ tx[s] = "none" /\ pc[s] # "ending" => txHolds[s] = <<>>
    /\ \A k \in Keys, sh \in Modes : Count(s, k, sh) = Recorded(s, k, sh)

\* A call does not sleep for ever on a lock that stays free to it.
FreeLockIsTaken ==
  \A s \in Sessions :
    []<>~(/\ pc[s] \in {"capture", "try", "blocked"}
          /\ canTake(s, req[s].key, req[s].shared))

\* A call in waitAdvisory's loop, and a session whose locks keep the call of s there.
Waiting(s) == pc[s] \in {"capture", "try", "blocked"}

InTheWay(t, s) ==
  LET call == req[s]
  IN  /\ t # s
      /\ excl[call.key] = t \/ (~call.shared /\ shared[call.key][t] > 0)

\* Each of them waits for a lock that another of them has.
Deadlocked(C) == \A s \in C : Waiting(s) /\ \E t \in C : InTheWay(t, s)

\* Sessions that wait for one another's locks do so until one of them is canceled:
\* nothing that they or others do lets one of them have its lock (advisory.go:245-267).
OnlyCancelEndsDeadlock ==
  [][\A C \in SUBSET Sessions : Deadlocked(C) => Deadlocked(C)' \/ \E s \in C : Cancel(s)]_vars

\* The registry keeps the contract: every change of it is a grant to a session
\* whose mode nobody's conflicts with, or a session giving its own lock back.
Granted ==
  {g \in Sessions \X Keys \X Modes : HasHold(g[1], g[2], g[3])}

Contract == INSTANCE AdvisoryContract WITH granted <- Granted

KeepsContract == Contract!Spec

\* advisory.go:23 "transaction-level one (the _xact_ forms) until the
\* transaction ends": a lock the transaction recorded is in the registry.
XactLockLastsForTx ==
  \A s \in Sessions :
    tx[s] # "none" => \A i \in DOMAIN txHolds[s] :
                        HasHold(s, txHolds[s][i].key, txHolds[s][i].shared)
=============================================================================
