------------------------------- MODULE Server -------------------------------
(***************************************************************************)
(* A connection's life: accepted and tracked by the server                 *)
(* (server/server.go), taken through startup, its database, the engine's   *)
(* connection pool and authentication by Protocol.Serve                    *)
(* (protocol/postgres/postgres.go), and then a session: its loop, with the *)
(* notifications of Notify and the executions of Cancel, until the         *)
(* deferred calls undo it all.                                             *)
(*                                                                         *)
(* The pool is database/sql's: at the limit a client waits, and a          *)
(* connection that is returned goes to a client that waits, no matter      *)
(* which.  Which databases there are and when their engines are closed is  *)
(* module Cluster's; here a client's reference on its engine is one bit.   *)
(***************************************************************************)
EXTENDS Notify, Cancel

CONSTANTS MaxConnections,  \* maxConnections, the pool's limit
          Asks             \* bound: what each connection's client may do

ASSUME ServerAssumption ==
  /\ MaxConnections \in Nat \ {0}
  /\ Asks \in [Session -> SUBSET {"session", "cancel", "listen", "notify",
                                     "execute", "leave"}]

VARIABLES
  phase,    \* where Protocol.Serve is with the connection
  conns,    \* Server.conns: the connections being tracked
  refs,     \* connections that hold a reference on the engine
  slots,    \* connections that hold a pooled database connection
  worn,     \* those whose database connection served another client before
  waited    \* connections that found the pool full

poolVars == <<slots, worn, waited>>
vars == <<notifyVars, cancelVars, phase, conns, refs, poolVars>>

Phases == {"new", "startup", "canceling", "waiting", "granted", "auth", "open",
           "ended", "freed", "closed"}

\* The variables keep their ranges.
TypeOK ==
  /\ NotifyTypeOK
  /\ CancelTypeOK
  /\ phase \in [Session -> Phases]
  /\ \A V \in {conns, refs, slots, worn, waited} : V \subseteq Session

Init ==
  /\ NotifyInit
  /\ CancelInit
  /\ phase = [c \in Session |-> "new"]
  /\ conns = {} /\ refs = {} /\ slots = {} /\ worn = {} /\ waited = {}

\* Protocol.Serve goes from one phase to the next.
Go(c, from, to) ==
  /\ phase[c] = from
  /\ phase' = [phase EXCEPT ![c] = to]

-----------------------------------------------------------------------------
(* Server.handle and Protocol.Serve, before there is a session.            *)

Accept(c) ==
  /\ Go(c, "new", "startup")
  /\ conns' = conns \cup {c}
  /\ UNCHANGED <<notifyVars, cancelVars, poolVars, refs>>

\* The end of handle, after Serve returned or panicked: conn.Close, untrack.
Gone(c, from) ==
  /\ Go(c, from, "closed")
  /\ conns' = conns \ {c}

\* readStartup fails: the client leaves, or what it sent is no startup.  Or
\* the cluster has no database of that name, and the client is told 3D000.
StartupFails(c) ==
  /\ "leave" \in Asks[c]
  /\ Gone(c, "startup")
  /\ UNCHANGED <<notifyVars, cancelVars, poolVars, refs>>

\* The key is one that a session was told, or one that nobody was.
CancelRequest(c, key) ==
  /\ Go(c, "startup", "canceling")
  /\ key # NoSession => pc[key] # "none"
  /\ "cancel" \in Asks[c]
  /\ Request(c, key)
  /\ UNCHANGED <<notifyVars, conns, poolVars, refs>>

\* cancelBackend returns, and so does Serve.
CancelServed(c) ==
  /\ Gone(c, "canceling")
  /\ req[c].step = "done"
  /\ UNCHANGED <<notifyVars, cancelVars, poolVars, refs>>

\* The engine keeps one connection of the pool for itself.
Free == Cardinality(slots) + 1 < MaxConnections

\* Mutant: a connection that was returned is kept for the next client.
EngineSessionPooled(c) ==
  /\ phase[c] = "startup"
  /\ "session" \in Asks[c]
  /\ Free
  /\ refs' = refs \cup {c}
  /\ Go(c, "startup", "auth")
  /\ slots' = slots \cup {c}
  /\ worn' = IF \E d \in Session : pc[d] = "gone" /\ phase[d] = "closed"
               THEN worn \cup {c} ELSE worn
  /\ UNCHANGED <<notifyVars, cancelVars, conns, waited>>

\* cluster.Engine counts the client; Engine.Session takes a connection of the
\* pool or, in db.Conn, gets in line for one.
EngineSession(c) ==
  /\ phase[c] = "startup"
  /\ "session" \in Asks[c]
  /\ refs' = refs \cup {c}
  /\ IF Free
       THEN /\ Go(c, "startup", "auth")
            /\ slots' = slots \cup {c}
            /\ UNCHANGED waited
       ELSE /\ Go(c, "startup", "waiting")
            /\ waited' = waited \cup {c}
            /\ UNCHANGED slots
  /\ UNCHANGED <<notifyVars, cancelVars, conns, worn>>

\* database/sql putConn: the database connection of c goes to a client that
\* waits, whichever; SetMaxIdleConns(0) has it closed if nobody does.
PutConn(c, from, to) ==
  /\ phase[c] = from
  /\ \/ \E w \in Session :
          /\ phase[w] = "waiting"
          /\ phase' = [phase EXCEPT ![c] = to, ![w] = "granted"]
          /\ slots' = (slots \ {c}) \cup {w}
          /\ worn' = (worn \ {c}) \cup {w}
     \/ /\ \A w \in Session : phase[w] # "waiting"
        /\ phase' = [phase EXCEPT ![c] = to]
        /\ slots' = slots \ {c}
        /\ worn' = worn \ {c}

\* Mutant: a refused client's reference is not returned.
SessionTimesOutCounted(c) ==
  /\ Gone(c, "waiting")
  /\ UNCHANGED <<notifyVars, cancelVars, poolVars, refs>>

\* connWaitTimeout ends the wait: the client is told 53300.
SessionTimesOut(c) ==
  /\ Go(c, "waiting", "freed")
  /\ UNCHANGED <<notifyVars, cancelVars, conns, poolVars, refs>>

\* It ends just as a connection is handed over: db.Conn puts that back.
SessionTooLate(c) ==
  /\ PutConn(c, "granted", "freed")
  /\ UNCHANGED <<notifyVars, cancelVars, conns, waited, refs>>

SessionGranted(c) ==
  /\ Go(c, "granted", "auth")
  /\ UNCHANGED <<notifyVars, cancelVars, conns, poolVars, refs>>

AuthFails(c) ==
  /\ "leave" \in Asks[c]
  /\ Go(c, "auth", "ended")
  /\ UNCHANGED <<notifyVars, cancelVars, conns, poolVars, refs>>

\* authenticate succeeds; the backend is registered before the handshake that
\* tells the client its key; then newSession and loop.
Authenticated(c) ==
  /\ Go(c, "auth", "open")
  /\ registerBackend(c)
  /\ StartSession(c)
  /\ UNCHANGED <<conns, poolVars, refs>>

-----------------------------------------------------------------------------
(* The session: its loop, and what other sessions do to it.                *)

\* The goroutine of c runs the loop, and is not inside a statement.
Running(c) == phase[c] = "open" /\ armed[c] = 0

Deliver(c) ==
  \/ GoIdle(c)
  \/ FinishGoIdle(c)
  \/ \E t \in Session : EnqueueBusy(c, t) \/ EnqueueIdle(c, t) \/ FinishEnqueue(c, t)

Command(c) ==
  \/ GoBusy(c)
  \/ ReadOn(c)
  \/ "listen" \in Asks[c] /\ UnlistenAll(c)
  \/ \E ch \in Channel : \/ "listen" \in Asks[c] /\ (Listen(c, ch) \/ Unlisten(c, ch))
                         \/ "notify" \in Asks[c] /\ Publish(c, ch)

Loop(c) ==
  /\ Running(c)
  /\ Deliver(c) \/ Command(c)
  /\ UNCHANGED <<cancelVars, conns, poolVars, phase, refs>>

Execute(c) ==
  /\ Running(c)
  /\ "execute" \in Asks[c]
  /\ pc[c] = "busy"
  /\ Exec(c)
  /\ UNCHANGED <<notifyVars, conns, poolVars, phase, refs>>

Executed(c, interrupted) ==
  /\ Ended(c, interrupted)
  /\ UNCHANGED <<notifyVars, conns, poolVars, phase, refs>>

\* Terminate, the end of the stream, a failed write, or a panic.
Leave(c) ==
  /\ Running(c)
  /\ "leave" \in Asks[c]
  /\ EndSession(c)
  /\ Go(c, "open", "ended")
  /\ UNCHANGED <<cancelVars, conns, poolVars, refs>>

-----------------------------------------------------------------------------
(* The deferred calls, last first, whatever ended the connection.          *)

DbClose(c) ==
  /\ PutConn(c, "ended", "freed")
  /\ unregisterBackend(c)
  /\ UNCHANGED <<notifyVars, conns, waited, refs>>

Release(c) ==
  /\ Gone(c, "freed")
  /\ refs' = refs \ {c}
  /\ UNCHANGED <<notifyVars, cancelVars, poolVars>>

\* A step of the connection that carries a CancelRequest.
Serving(c) ==
  /\ Lookup(c) \/ ReadFn(c) \/ CallFn(c)
  /\ UNCHANGED <<notifyVars, conns, poolVars, phase, refs>>

Next ==
  \E c \in Session :
    \/ Accept(c) \/ StartupFails(c)
    \/ \E key \in Session \cup {NoSession} : CancelRequest(c, key)
    \/ Serving(c) \/ CancelServed(c)
    \/ EngineSession(c) \/ SessionTimesOut(c) \/ SessionTooLate(c) \/ SessionGranted(c)
    \/ AuthFails(c) \/ Authenticated(c)
    \/ Loop(c) \/ Execute(c) \/ Leave(c)
    \/ \E i \in BOOLEAN : Executed(c, i)
    \/ DbClose(c) \/ Release(c)

Spec == Init /\ [][Next]_vars

\* Goroutines run; SQLite stops when its context is cancelled; and the clients
\* that notifications are written to read them.  Nothing makes a client send,
\* nor a statement end by itself.
Fairness ==
  \A c \in Session :
     /\ WF_vars(Serving(c))
     /\ WF_vars(Executed(c, TRUE))
     /\ WF_vars(Loop(c) /\ pc[c] \in {"publish", "write"})

FairSpec == Spec /\ Fairness

-----------------------------------------------------------------------------
(* What must hold.                                                         *)

\* postgres.go:94-138: whatever ends a connection, and wherever, it holds the
\* pool's connection exactly from the grant to db.Close, under a reference on
\* its engine, and its key is known only while it has both; the pool is never
\* over its limit, and nobody waits for it while it has room.
HeldInOrder ==
  /\ slots = {c \in Session : phase[c] \in {"granted", "auth", "open", "ended"}}
  /\ refs = slots \cup {c \in Session : phase[c] \in {"waiting", "freed"}}
  /\ backends \subseteq slots
  /\ {c \in Session : pc[c] \notin {"none", "gone"}} \subseteq backends
  /\ Cardinality(slots) + 1 <= MaxConnections
  /\ (\E c \in Session : phase[c] = "waiting") => ~Free

\* sqlite.go:53-55: a session does not get a connection that another one has
\* used.  It may only when it had to wait for one.
FreshUnlessWaited == worn \subseteq waited

\* notify.go:60-112: while a session that a notification is addressed to sits
\* between two messages, the notification is on its way: it is written unless
\* the session turns to a message or leaves first.
DeliveredWhenIdle ==
  \A i \in Notifications, t \in Session :
     (i \in DOMAIN addressed /\ t \in addressed[i].to /\ idle[t])
       ~> (Times(i, received[t]) = 1 \/ ~idle[t] \/ pc[t] = "gone")
=============================================================================
