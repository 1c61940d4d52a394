------------------------------- MODULE Cancel -------------------------------
(***************************************************************************)
(* Query cancellation (protocol/postgres/cancel.go, extended.go).          *)
(*                                                                         *)
(* A connection that finished its handshake is registered under a random   *)
(* key.  While it executes a statement its canceler holds that statement's *)
(* cancel function.  A CancelRequest arrives on a connection of its own:   *)
(* it looks the key up, reads the function under the canceler's mutex, and *)
(* calls it after the mutex is released, when the statement may be over    *)
(* and another one running.                                                *)
(*                                                                         *)
(* A key is modelled by the session it was made for: 63 random bits do not *)
(* collide.                                                                *)
(***************************************************************************)
EXTENDS Connections, Integers, FiniteSets

CONSTANT MaxStatements  \* bound: statements a session executes

ASSUME CancelAssumption == MaxStatements \in Nat

VARIABLES
  backends,   \* the keys registered
  armed,      \* canceler.fn: the statement it would cancel, 0 for nil
  stmt,       \* how many statements the session has executed
  cancelled,  \* the contexts that have been cancelled
  req,        \* a connection's CancelRequest: its step, key, the function it
              \* read, and the statements executing when it came and read
  reported    \* statements answered with 57014

cancelVars == <<backends, armed, stmt, cancelled, req, reported>>

NoContext == <<NoSession, 0>>
NoRequest == [step |-> "none", key |-> NoSession, asked |-> 0, found |-> 0,
              fn |-> NoContext]

CancelTypeOK ==
  /\ backends \subseteq Session
  /\ armed \in [Session -> 0..MaxStatements]
  /\ stmt \in [Session -> 0..MaxStatements]
  /\ cancelled \subseteq Session \X (1..MaxStatements)
  /\ \A s \in Session :
        /\ req[s].step \in {"none", "lookup", "read", "call", "done"}
        /\ req[s].key \in Session \cup {NoSession}
        /\ req[s].fn \in (Session \X (1..MaxStatements)) \cup {NoContext}
        /\ {req[s].asked, req[s].found} \subseteq 0..MaxStatements
  /\ reported \subseteq Session \X (1..MaxStatements)

CancelInit ==
  /\ backends = {}
  /\ armed = [s \in Session |-> 0]
  /\ stmt = [s \in Session |-> 0]
  /\ cancelled = {}
  /\ req = [s \in Session |-> NoRequest]
  /\ reported = {}

-----------------------------------------------------------------------------
(* The session that executes.                                              *)

registerBackend(s) ==
  /\ backends' = backends \cup {s}
  /\ UNCHANGED <<armed, stmt, cancelled, req, reported>>

unregisterBackend(s) ==
  /\ backends' = backends \ {s}
  /\ UNCHANGED <<armed, stmt, cancelled, req, reported>>

\* Mutant: one context per session.
ContextOfSession(s, n) == <<s, 1>>

\* armCancel: every statement runs under a context of its own.
Context(s, n) == <<s, n>>

Exec(s) ==
  /\ armed[s] = 0
  /\ stmt[s] < MaxStatements
  /\ stmt' = [stmt EXCEPT ![s] = @ + 1]
  /\ armed' = [armed EXCEPT ![s] = stmt[s] + 1]
  /\ UNCHANGED <<backends, cancelled, req, reported>>

\* The statement is over: interrupted if its context was cancelled, though it
\* may also have finished before it noticed.  The deferred disarm follows; a
\* request that reads the function in between cancels a dead context.
Ended(s, interrupted) ==
  /\ armed[s] # 0
  /\ interrupted => Context(s, armed[s]) \in cancelled
  /\ reported' = IF interrupted THEN reported \cup {<<s, armed[s]>>} ELSE reported
  /\ armed' = [armed EXCEPT ![s] = 0]
  /\ UNCHANGED <<backends, stmt, cancelled, req>>

-----------------------------------------------------------------------------
(* The connection x that brings a CancelRequest.                           *)

Request(x, key) ==
  /\ req[x].step = "none"
  /\ req' = [req EXCEPT ![x] = [NoRequest EXCEPT !.step = "lookup", !.key = key,
                                !.asked = IF key = NoSession THEN 0 ELSE armed[key]]]
  /\ UNCHANGED <<backends, armed, stmt, cancelled, reported>>

\* backends.Load: an unknown key is ignored.
Lookup(x) ==
  /\ req[x].step = "lookup"
  /\ req' = [req EXCEPT ![x].step = IF req[x].key \in backends THEN "read" ELSE "done"]
  /\ UNCHANGED <<backends, armed, stmt, cancelled, reported>>

\* Mutant: the mutex is held as long as the statement runs.
ReadFnAfterwards(x) ==
  /\ req[x].step = "read"
  /\ armed[req[x].key] = 0
  /\ req' = [req EXCEPT ![x].step = "done"]
  /\ UNCHANGED <<backends, armed, stmt, cancelled, reported>>

\* canceler.cancel, with the mutex.
ReadFn(x) ==
  LET k == req[x].key
  IN /\ req[x].step = "read"
     /\ req' = [req EXCEPT ![x] =
                  IF armed[k] = 0
                    THEN [@ EXCEPT !.step = "done"]
                    ELSE [@ EXCEPT !.step = "call", !.fn = Context(k, armed[k]),
                                 !.found = armed[k]]]
     /\ UNCHANGED <<backends, armed, stmt, cancelled, reported>>

\* canceler.cancel, without it.
CallFn(x) ==
  /\ req[x].step = "call"
  /\ cancelled' = cancelled \cup {req[x].fn}
  /\ req' = [req EXCEPT ![x].step = "done"]
  /\ UNCHANGED <<backends, armed, stmt, reported>>

-----------------------------------------------------------------------------
(* What must hold.                                                         *)

\* A statement is reported as cancelled only if a CancelRequest carrying its
\* session's key found that very statement executing: a request that comes
\* late never reaches the next statement (cancel.go:65-74).
OnlyTheStatementAsked ==
  \A c \in reported : \E x \in Session : req[x].key = c[1] /\ req[x].found = c[2]

\* A CancelRequest that arrives while a statement executes ends it: by the
\* time it is served the statement is over, or it is interrupted soon after.
CancelIsHeard ==
  \A x \in Session :
     (req[x].asked # 0) ~> (\A s \in Session : req[x].key = s => armed[s] # req[x].asked)
=============================================================================
