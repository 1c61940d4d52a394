------------------------------- MODULE Notify -------------------------------
(***************************************************************************)
(* LISTEN, UNLISTEN and NOTIFY (protocol/postgres/notify.go): the registry *)
(* of listening sessions and, per session, the notifications that wait for *)
(* it to be between two messages.                                          *)
(*                                                                         *)
(* A session's connection is written by its own goroutine while it answers *)
(* (idle = FALSE) and by a notifying session's goroutine while it is idle; *)
(* the mutex nmu orders the two.  Writing may block on the client, so the  *)
(* mutex is held from one step to another and taking it is a guard.        *)
(*                                                                         *)
(* A session is used once: a client that comes back is another session.    *)
(***************************************************************************)
EXTENDS Connections, Integers, Sequences, FiniteSets

CONSTANTS Channel,   \* channel names
          MaxNotes   \* bound: notifications sent in all

ASSUME NotifyAssumption == MaxNotes \in Nat

VARIABLES
  listens,   \* session.listens: the channels a session listens on
  registry,  \* notifyRegistry.channels: the sessions listening on a channel
  pending,   \* session.pending: notifications not written yet
  idle,      \* session.idle: between two messages, others may write
  nmu,       \* session.nmu: who holds it across a blocking write
  pc,        \* where the session's goroutine is
  targets,   \* publishNotify: the sessions still to be notified
  note,      \* publishNotify: the notification being published
  received,  \* what the client has been sent, in order
  addressed  \* every notification: its sender, and who listened then

notifyVars == <<listens, registry, pending, idle, nmu, pc, targets, note,
                received, addressed>>

\* A notification is its place in addressed; 0 is none.
Notifications == 1..MaxNotes

NotifyTypeOK ==
  /\ listens \in [Session -> SUBSET Channel]
  /\ registry \in [Channel -> SUBSET Session]
  /\ pending \in [Session -> Seq(Notifications)]
  /\ idle \in [Session -> BOOLEAN]
  /\ nmu \in [Session -> Session \cup {NoSession}]
  /\ pc \in [Session -> {"none", "read", "busy", "publish", "write", "gone"}]
  /\ targets \in [Session -> SUBSET Session]
  /\ note \in [Session -> Notifications \cup {0}]
  /\ received \in [Session -> Seq(Notifications)]
  /\ addressed \in Seq([pid : Session, to : SUBSET Session])
  /\ Len(addressed) <= MaxNotes

NotifyInit ==
  /\ listens = [s \in Session |-> {}]
  /\ registry = [ch \in Channel |-> {}]
  /\ pending = [s \in Session |-> <<>>]
  /\ idle = [s \in Session |-> FALSE]
  /\ nmu = [s \in Session |-> NoSession]
  /\ pc = [s \in Session |-> "none"]
  /\ targets = [s \in Session |-> {}]
  /\ note = [s \in Session |-> 0]
  /\ received = [s \in Session |-> <<>>]
  /\ addressed = <<>>

-----------------------------------------------------------------------------
(* The session's own goroutine.                                            *)

\* newSession and the start of loop: nothing has been answered yet, so the
\* session is not idle until its first message is.
StartSession(s) ==
  /\ pc[s] = "none"
  /\ pc' = [pc EXCEPT ![s] = "read"]
  /\ UNCHANGED <<listens, registry, pending, idle, nmu, targets, note,
                 received, addressed>>

\* Mutant: goBusy does not take the mutex.
GoBusyAtOnce(s) ==
  /\ pc[s] = "read"
  /\ idle' = [idle EXCEPT ![s] = FALSE]
  /\ pc' = [pc EXCEPT ![s] = "busy"]
  /\ UNCHANGED <<listens, registry, pending, nmu, targets, note, received,
                 addressed>>

\* A message arrives; goBusy waits for whoever is writing to the connection.
GoBusy(s) ==
  /\ pc[s] = "read"
  /\ nmu[s] = NoSession
  /\ idle' = [idle EXCEPT ![s] = FALSE]
  /\ pc' = [pc EXCEPT ![s] = "busy"]
  /\ UNCHANGED <<listens, registry, pending, nmu, targets, note, received,
                 addressed>>

\* A message of an extended cycle, Flush, or one the loop does not know ends
\* without goIdle: the session reads on, still busy.
ReadOn(s) ==
  /\ pc[s] = "busy"
  /\ pc' = [pc EXCEPT ![s] = "read"]
  /\ UNCHANGED <<listens, registry, pending, idle, nmu, targets, note,
                 received, addressed>>

\* Query or Sync has been answered and flushed: goIdle.  With notifications
\* waiting, deliverLocked starts to write them and keeps the mutex.
GoIdle(s) ==
  /\ pc[s] = "busy"
  /\ nmu[s] = NoSession
  /\ idle' = [idle EXCEPT ![s] = TRUE]
  /\ IF pending[s] = <<>>
       THEN /\ pc' = [pc EXCEPT ![s] = "read"]
            /\ UNCHANGED nmu
       ELSE /\ pc' = [pc EXCEPT ![s] = "write"]
            /\ nmu' = [nmu EXCEPT ![s] = s]
  /\ UNCHANGED <<listens, registry, pending, targets, note, received,
                 addressed>>

\* Mutant: deliverLocked does not forget what it has written.
WrittenAgain(w, s) ==
  /\ nmu[s] = w
  /\ received' = [received EXCEPT ![s] = IF pc[s] = "gone" THEN @ ELSE @ \o pending[s]]
  /\ pending' = pending
  /\ nmu' = [nmu EXCEPT ![s] = NoSession]

\* The end of deliverLocked by w on the connection of s: everything pending
\* is written, unless the client is gone and the errors are ignored.
Written(w, s) ==
  /\ nmu[s] = w
  /\ received' = [received EXCEPT ![s] = IF pc[s] = "gone" THEN @ ELSE @ \o pending[s]]
  /\ pending' = [pending EXCEPT ![s] = <<>>]
  /\ nmu' = [nmu EXCEPT ![s] = NoSession]

FinishGoIdle(s) ==
  /\ pc[s] = "write"
  /\ Written(s, s)
  /\ pc' = [pc EXCEPT ![s] = "read"]
  /\ UNCHANGED <<listens, registry, idle, targets, note, addressed>>

Listen(s, ch) ==
  /\ pc[s] = "busy"
  /\ listens' = [listens EXCEPT ![s] = @ \cup {ch}]
  /\ registry' = [registry EXCEPT ![ch] = @ \cup {s}]
  /\ UNCHANGED <<pending, idle, nmu, pc, targets, note, received, addressed>>

Unlisten(s, ch) ==
  /\ pc[s] = "busy"
  /\ listens' = [listens EXCEPT ![s] = @ \ {ch}]
  /\ registry' = [registry EXCEPT ![ch] = @ \ {s}]
  /\ UNCHANGED <<pending, idle, nmu, pc, targets, note, received, addressed>>

\* UNLISTEN *: one lock per channel, and no publisher looks at two channels.
UnlistenAll(s) ==
  /\ pc[s] = "busy"
  /\ listens' = [listens EXCEPT ![s] = {}]
  /\ registry' = [ch \in Channel |-> IF ch \in listens[s] THEN registry[ch] \ {s}
                                                          ELSE registry[ch]]
  /\ UNCHANGED <<pending, idle, nmu, pc, targets, note, received, addressed>>

\* NOTIFY: publishNotify copies the set of listeners and lets the registry go.
Publish(s, ch) ==
  /\ pc[s] = "busy"
  /\ Len(addressed) < MaxNotes
  /\ note' = [note EXCEPT ![s] = IF registry[ch] = {} THEN 0 ELSE Len(addressed) + 1]
  /\ targets' = [targets EXCEPT ![s] = registry[ch]]
  /\ addressed' = Append(addressed, [pid |-> s, to |-> registry[ch]])
  /\ pc' = [pc EXCEPT ![s] = IF registry[ch] = {} THEN "busy" ELSE "publish"]
  /\ UNCHANGED <<listens, registry, pending, idle, nmu, received>>

\* The session is done with t: on to the next of its targets, or back.
DoneWith(s, t) ==
  /\ targets' = [targets EXCEPT ![s] = @ \ {t}]
  /\ note' = [note EXCEPT ![s] = IF targets[s] = {t} THEN 0 ELSE @]
  /\ pc' = [pc EXCEPT ![s] = IF targets[s] = {t} THEN "busy" ELSE "publish"]

\* Mutant: the newest notification is put in front.
EnqueueBusyInFront(s, t) ==
  /\ pc[s] = "publish"
  /\ t \in targets[s]
  /\ nmu[t] = NoSession
  /\ ~idle[t]
  /\ pending' = [pending EXCEPT ![t] = <<note[s]>> \o @]
  /\ DoneWith(s, t)
  /\ UNCHANGED <<listens, registry, idle, nmu, received, addressed>>

\* enqueueNotify on a target that is answering: it will deliver by itself.
EnqueueBusy(s, t) ==
  /\ pc[s] = "publish"
  /\ t \in targets[s]
  /\ nmu[t] = NoSession
  /\ ~idle[t]
  /\ pending' = [pending EXCEPT ![t] = Append(@, note[s])]
  /\ DoneWith(s, t)
  /\ UNCHANGED <<listens, registry, idle, nmu, received, addressed>>

\* Mutant: the notification is left for the idle session to find.
EnqueueIdleOnly(s, t) ==
  /\ pc[s] = "publish"
  /\ t \in targets[s]
  /\ nmu[t] = NoSession
  /\ idle[t]
  /\ pending' = [pending EXCEPT ![t] = Append(@, note[s])]
  /\ DoneWith(s, t)
  /\ UNCHANGED <<listens, registry, idle, nmu, received, addressed>>

\* enqueueNotify on an idle target: the publisher writes, under its mutex.
EnqueueIdle(s, t) ==
  /\ pc[s] = "publish"
  /\ t \in targets[s]
  /\ nmu[t] = NoSession
  /\ idle[t]
  /\ pending' = [pending EXCEPT ![t] = Append(@, note[s])]
  /\ nmu' = [nmu EXCEPT ![t] = s]
  /\ pc' = [pc EXCEPT ![s] = "write"]
  /\ UNCHANGED <<listens, registry, idle, targets, note, received, addressed>>

FinishEnqueue(s, t) ==
  /\ pc[s] = "write"
  /\ t # s
  /\ Written(s, t)
  /\ DoneWith(s, t)
  /\ UNCHANGED <<listens, registry, idle, addressed>>

\* The connection ends while a message is read or answered: unregisterAll.
\* A publisher that copied the listeners before still holds the session.
unregisterAll(s) ==
  /\ listens' = [listens EXCEPT ![s] = {}]
  /\ registry' = [ch \in Channel |-> registry[ch] \ {s}]

EndSession(s) ==
  /\ pc[s] \in {"read", "busy"}
  /\ pc' = [pc EXCEPT ![s] = "gone"]
  /\ unregisterAll(s)
  /\ UNCHANGED <<pending, idle, nmu, targets, note, received, addressed>>

-----------------------------------------------------------------------------
(* What must hold.                                                         *)

\* How often an element stands in a sequence.
Times(x, q) == Cardinality({i \in DOMAIN q : q[i] = x})

\* The registry and the sessions' own sets name the same listeners, and a
\* session that has left is no longer among them (notify.go:29-58).
RegistryAgrees ==
  \A s \in Session, ch \in Channel :
     /\ s \in registry[ch] <=> ch \in listens[s]
     /\ s \in registry[ch] => pc[s] \notin {"none", "gone"}

\* notify.go:10-16: the session's goroutine and a notifying one never write to
\* the connection at the same time, and a notifying one writes only between
\* two messages.
OneWriter ==
  \A s \in Session :
     nmu[s] # NoSession =>
        /\ idle[s]
        /\ pc[s] \in {"read", "write", "gone"}
        /\ pc[s] = "write" => nmu[s] = s
        /\ nmu[s] # s => pc[nmu[s]] = "write"

\* No lost wakeup (notify.go:83-97): a notification waits only while its
\* session is busy, or while somebody is writing it.
PendingIsTaken ==
  \A s \in Session :
     pending[s] # <<>> => ~idle[s] \/ nmu[s] # NoSession

\* Where notification i is on its way to t.
OnItsWay(i, t) ==
  LET s == addressed[i].pid
  IN IF note[s] = i /\ t \in targets[s] /\ nmu[t] # s THEN 1 ELSE 0

\* publishNotify's promise: every session a notification was addressed to gets
\* it once (it is still to be enqueued, waits, or was written) unless that
\* session has left, and no other session gets it.
ExactlyOnce ==
  \A i \in DOMAIN addressed, t \in Session :
     LET copies == OnItsWay(i, t) + Times(i, pending[t]) + Times(i, received[t])
     IN IF t \notin addressed[i].to THEN copies = 0
        ELSE IF pc[t] = "gone" THEN copies <= 1
        ELSE copies = 1

\* A sender's notifications reach each listener in the order they were sent,
\* although another sender's may come in between.
SenderOrder ==
  \A t \in Session :
     LET q == received[t] \o pending[t]
     IN \A i, j \in DOMAIN q :
           i < j /\ addressed[q[i]].pid = addressed[q[j]].pid => q[i] < q[j]
=============================================================================
