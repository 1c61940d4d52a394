---------------------------- MODULE ServerProofs ----------------------------
(***************************************************************************)
(* For any connections, channels and bounds: who writes to a connection,   *)
(* which notifications arrive, which statement a cancel reaches, and what  *)
(* a connection holds.                                                     *)
(*                                                                         *)
(* They concern different variables, so each has an invariant of its own,  *)
(* and a step is looked at as a step of Notify, or of Cancel, where that   *)
(* is all that matters of it.                                              *)
(***************************************************************************)
EXTENDS Server, FiniteSetTheorems, TLAPS

-----------------------------------------------------------------------------
(* Notifications.                                                          *)

\* What a step may do to Notify's variables.
NotifyStep ==
  \/ UNCHANGED notifyVars
  \/ \E s \in Session :
       \/ StartSession(s) \/ GoBusy(s) \/ ReadOn(s) \/ GoIdle(s) \/ FinishGoIdle(s)
       \/ UnlistenAll(s) \/ EndSession(s)
       \/ \E ch \in Channel : Listen(s, ch) \/ Unlisten(s, ch) \/ Publish(s, ch)
       \/ \E t \in Session : EnqueueBusy(s, t) \/ EnqueueIdle(s, t) \/ FinishEnqueue(s, t)

\* A step of the server is one of Notify's, or leaves its variables alone.
LEMMA StepNotifies ==
  ASSUME [Next]_vars
  PROVE  NotifyStep
BY DEF Next, vars, NotifyStep, Accept, StartupFails, CancelRequest, Serving, CancelServed, EngineSession,
       SessionTimesOut, SessionTooLate, SessionGranted, AuthFails, Authenticated, Loop, Deliver, Command,
       Execute, Leave, Executed, DbClose, Release

WritersTyped ==
  /\ pc \in [Session -> {"none", "read", "busy", "publish", "write", "gone"}]
  /\ idle \in [Session -> BOOLEAN]
  /\ nmu \in [Session -> Session \cup {NoSession}]

\* Who holds a mutex is writing, and to that connection alone.
HoldersWrite ==
  \A s \in Session :
    nmu[s] # NoSession =>
      /\ pc[nmu[s]] = "write"
      /\ idle[s]
      /\ pc[s] \in {"read", "write", "gone"}
      /\ pc[s] = "write" => nmu[s] = s
      /\ \A t \in Session : nmu[t] = nmu[s] => t = s

\* A session that works is not idle; one that is and writes, writes to its own.
WorkersAreBusy ==
  \A s \in Session :
    /\ pc[s] \in {"none", "busy", "publish"} => ~idle[s]
    /\ pc[s] = "write" /\ idle[s] => nmu[s] = s

WriterInv == WritersTyped /\ HoldersWrite /\ WorkersAreBusy

\* At first nobody writes, and nobody is idle.
LEMMA WriterInit ==
  ASSUME Init
  PROVE  WriterInv
BY DEF Init, NotifyInit, WriterInv, WritersTyped, HoldersWrite, WorkersAreBusy

\* A session goes on to p and idle stays as it is.
LEMMA SameIdle ==
  ASSUME WriterInv, NEW s \in Session, NEW p \in {"read", "busy", "publish", "gone"},
         pc[s] \notin {"write", "gone"}, nmu' = nmu, idle' = idle,
         pc' = [pc EXCEPT ![s] = p],
         p \in {"busy", "publish"} => ~idle[s] /\ nmu[s] = NoSession
  PROVE  WriterInv'
<1>1. WritersTyped'
  BY DEF WriterInv, WritersTyped
<1>2. \A t \in Session : nmu[t] # s
  BY ConnectionsAssumption DEF WriterInv, WritersTyped, HoldersWrite, ConnectionsAssumption
<1>3. HoldersWrite'
  BY <1>2 DEF WriterInv, WritersTyped, HoldersWrite
<1>4. WorkersAreBusy'
  BY DEF WriterInv, WritersTyped, WorkersAreBusy
<1> QED BY <1>1, <1>3, <1>4 DEF WriterInv

\* It turns to a message while nobody writes to it.
LEMMA TurnsBusy ==
  ASSUME WriterInv, NEW s \in Session, pc[s] = "read", nmu[s] = NoSession, nmu' = nmu,
         idle' = [idle EXCEPT ![s] = FALSE], pc' = [pc EXCEPT ![s] = "busy"]
  PROVE  WriterInv'
<1>1. WritersTyped'
  BY DEF WriterInv, WritersTyped
<1>2. \A t \in Session : nmu[t] # s
  BY ConnectionsAssumption DEF WriterInv, WritersTyped, HoldersWrite, ConnectionsAssumption
<1>3. HoldersWrite'
  BY <1>2 DEF WriterInv, WritersTyped, HoldersWrite
<1>4. WorkersAreBusy'
  BY DEF WriterInv, WritersTyped, WorkersAreBusy
<1> QED BY <1>1, <1>3, <1>4 DEF WriterInv

\* It has answered, and nothing is to be written.
LEMMA TurnsIdle ==
  ASSUME WriterInv, NEW s \in Session, pc[s] = "busy", nmu[s] = NoSession, nmu' = nmu,
         idle' = [idle EXCEPT ![s] = TRUE], pc' = [pc EXCEPT ![s] = "read"]
  PROVE  WriterInv'
<1>1. WritersTyped'
  BY DEF WriterInv, WritersTyped
<1>2. \A t \in Session : nmu[t] # s
  BY ConnectionsAssumption DEF WriterInv, WritersTyped, HoldersWrite, ConnectionsAssumption
<1>3. HoldersWrite'
  BY <1>2 DEF WriterInv, WritersTyped, HoldersWrite
<1>4. WorkersAreBusy'
  BY DEF WriterInv, WritersTyped, WorkersAreBusy
<1> QED BY <1>1, <1>3, <1>4 DEF WriterInv

\* A session starts to write to an idle connection: its own, or a listener's.
LEMMA WriteBegins ==
  ASSUME WriterInv, NEW s \in Session, NEW t \in Session,
         pc[s] \in {"busy", "publish"}, nmu[t] = NoSession,
         pc' = [pc EXCEPT ![s] = "write"], nmu' = [nmu EXCEPT ![t] = s],
         \/ t = s /\ idle' = [idle EXCEPT ![s] = TRUE]
         \/ idle[t] /\ idle' = idle
  PROVE  WriterInv'
<1>1. WritersTyped'
  BY DEF WriterInv, WritersTyped
<1>2. \A u \in Session : nmu[u] # s
  BY ConnectionsAssumption DEF WriterInv, WritersTyped, HoldersWrite, ConnectionsAssumption
<1>3. t # s => pc[t] \in {"read", "gone"}
  <2> SUFFICES ASSUME t # s PROVE pc[t] \in {"read", "gone"}
    OBVIOUS
  <2>1. idle[t]
    OBVIOUS
  <2>2. pc[t] \notin {"none", "busy", "publish"}
    BY <2>1 DEF WriterInv, WorkersAreBusy
  <2>3. pc[t] # "write"
    BY <2>1, ConnectionsAssumption DEF WriterInv, WorkersAreBusy, ConnectionsAssumption
  <2> QED BY <2>2, <2>3 DEF WriterInv, WritersTyped
<1>4. idle'[t] /\ (t # s => ~idle[s] /\ idle' = idle)
  BY DEF WriterInv, WritersTyped, WorkersAreBusy
<1>5. HoldersWrite'
  BY <1>2, <1>3, <1>4 DEF WriterInv, WritersTyped, HoldersWrite
<1>6. WorkersAreBusy'
  BY <1>2, <1>3, <1>4 DEF WriterInv, WritersTyped, WorkersAreBusy
<1> QED BY <1>1, <1>5, <1>6 DEF WriterInv

\* It has written, and goes on as p.
LEMMA WriteEnds ==
  ASSUME WriterInv, NEW s \in Session, NEW t \in Session, NEW p \in {"read", "busy", "publish"},
         pc[s] = "write", nmu[t] = s, idle' = idle,
         pc' = [pc EXCEPT ![s] = p], nmu' = [nmu EXCEPT ![t] = NoSession],
         p = "read" <=> t = s
  PROVE  WriterInv'
<1>1. WritersTyped'
  BY DEF WriterInv, WritersTyped
<1>2. \A u \in Session : nmu[u] = s => u = t
  BY ConnectionsAssumption DEF WriterInv, WritersTyped, HoldersWrite, ConnectionsAssumption
<1>3. t # s => ~idle[s]
  BY <1>2 DEF WriterInv, WritersTyped, WorkersAreBusy
<1>4. HoldersWrite'
  BY <1>2 DEF WriterInv, WritersTyped, HoldersWrite
<1>5. WorkersAreBusy'
  BY <1>2, <1>3 DEF WriterInv, WritersTyped, WorkersAreBusy
<1> QED BY <1>1, <1>4, <1>5 DEF WriterInv

\* A step of Notify keeps who writes to what.
LEMMA NotifyKeepsWriters ==
  ASSUME WriterInv, NotifyStep
  PROVE  WriterInv'
<1>1. CASE UNCHANGED notifyVars
  BY <1>1 DEF notifyVars, WriterInv, WritersTyped, HoldersWrite, WorkersAreBusy
<1>2. ASSUME NEW s \in Session, StartSession(s)
      PROVE  WriterInv'
  <2>1. nmu[s] = NoSession /\ idle[s] = FALSE
    BY <1>2 DEF StartSession, WriterInv, WritersTyped, HoldersWrite, WorkersAreBusy
  <2> QED BY <1>2, <2>1, SameIdle DEF StartSession
<1>3. ASSUME NEW s \in Session, GoBusy(s)
      PROVE  WriterInv'
  BY <1>3, TurnsBusy DEF GoBusy
<1>4. ASSUME NEW s \in Session, ReadOn(s)
      PROVE  WriterInv'
  BY <1>4, SameIdle DEF ReadOn
<1>5. ASSUME NEW s \in Session, EndSession(s)
      PROVE  WriterInv'
  BY <1>5, SameIdle DEF EndSession
<1>6. ASSUME NEW s \in Session, NEW ch \in Channel, Publish(s, ch)
      PROVE  WriterInv'
  <2>1. nmu[s] = NoSession
    BY <1>6 DEF Publish, WriterInv, WritersTyped, HoldersWrite
  <2>2. PICK p \in {"busy", "publish"} : pc' = [pc EXCEPT ![s] = p]
    BY <1>6 DEF Publish
  <2>3. idle[s] = FALSE
    BY <1>6 DEF Publish, WriterInv, WritersTyped, WorkersAreBusy
  <2> QED BY <1>6, <2>1, <2>2, <2>3, SameIdle DEF Publish
<1>7. ASSUME NEW s \in Session, GoIdle(s)
      PROVE  WriterInv'
  <2>1. CASE pending[s] = <<>>
    BY <1>7, <2>1, TurnsIdle DEF GoIdle
  <2>2. CASE pending[s] # <<>>
    BY <1>7, <2>2, WriteBegins DEF GoIdle
  <2> QED BY <2>1, <2>2
<1>8. ASSUME NEW s \in Session, FinishGoIdle(s)
      PROVE  WriterInv'
  BY <1>8, WriteEnds DEF FinishGoIdle, Written
<1>9. ASSUME NEW s \in Session, UnlistenAll(s) \/ \E ch \in Channel : Listen(s, ch) \/ Unlisten(s, ch)
      PROVE  WriterInv'
  BY <1>9 DEF UnlistenAll, Listen, Unlisten, WriterInv, WritersTyped, HoldersWrite, WorkersAreBusy
<1>10. ASSUME NEW s \in Session, NEW t \in Session, EnqueueBusy(s, t)
       PROVE  WriterInv'
  <2>1. PICK p \in {"busy", "publish"} : pc' = [pc EXCEPT ![s] = p]
    BY <1>10 DEF EnqueueBusy, DoneWith
  <2>2. nmu[s] = NoSession /\ idle[s] = FALSE
    BY <1>10 DEF EnqueueBusy, WriterInv, WritersTyped, HoldersWrite, WorkersAreBusy
  <2> QED BY <1>10, <2>1, <2>2, SameIdle DEF EnqueueBusy
<1>11. ASSUME NEW s \in Session, NEW t \in Session, EnqueueIdle(s, t)
       PROVE  WriterInv'
  BY <1>11, WriteBegins DEF EnqueueIdle
<1>12. ASSUME NEW s \in Session, NEW t \in Session, FinishEnqueue(s, t)
       PROVE  WriterInv'
  <2>1. PICK p \in {"busy", "publish"} : pc' = [pc EXCEPT ![s] = p]
    BY <1>12 DEF FinishEnqueue, DoneWith
  <2> QED BY <1>12, <2>1, WriteEnds DEF FinishEnqueue, Written
<1> QED BY <1>1, <1>2, <1>3, <1>4, <1>5, <1>6, <1>7, <1>8, <1>9, <1>10, <1>11, <1>12 DEF NotifyStep

\* WriterInv says what OneWriter does, and more.
LEMMA WritersAreOne ==
  ASSUME WriterInv
  PROVE  OneWriter
BY DEF WriterInv, WritersTyped, HoldersWrite, OneWriter

\* Every step keeps it.
LEMMA WriterStep ==
  ASSUME WriterInv, [Next]_vars
  PROVE  WriterInv'
BY StepNotifies, NotifyKeepsWriters

\* notify.go:10-16: the session's goroutine and a notifying one never write to
\* the connection at the same time, and a notifying one writes only between
\* two messages.
THEOREM WritesAreSerial == Spec => []OneWriter
BY WriterInit, WriterStep, WritersAreOne, PTL DEF Spec

PendingInv == DOMAIN pending = Session /\ PendingIsTaken

\* A step of Notify leaves no notification behind.
LEMMA NotifyKeepsPending ==
  ASSUME WriterInv, PendingInv, NotifyStep
  PROVE  PendingInv'
<1>1. CASE UNCHANGED notifyVars
  BY <1>1 DEF notifyVars, PendingInv, PendingIsTaken
<1>2. ASSUME NEW s \in Session,
             StartSession(s) \/ ReadOn(s) \/ UnlistenAll(s) \/ EndSession(s)
             \/ \E ch \in Channel : Listen(s, ch) \/ Unlisten(s, ch) \/ Publish(s, ch)
      PROVE  PendingInv'
  <2>1. UNCHANGED <<pending, idle, nmu>>
    BY <1>2 DEF StartSession, ReadOn, UnlistenAll, EndSession, Listen, Unlisten, Publish
  <2> QED BY <2>1 DEF PendingInv, PendingIsTaken
<1>3. ASSUME NEW s \in Session, GoBusy(s)
      PROVE  PendingInv'
  BY <1>3 DEF GoBusy, PendingInv, PendingIsTaken, WriterInv, WritersTyped
<1>4. ASSUME NEW s \in Session, GoIdle(s)
      PROVE  PendingInv'
  BY <1>4, ConnectionsAssumption
     DEF GoIdle, PendingInv, PendingIsTaken, WriterInv, WritersTyped, ConnectionsAssumption
<1>5. ASSUME NEW s \in Session, FinishGoIdle(s)
      PROVE  PendingInv'
  BY <1>5 DEF FinishGoIdle, Written, PendingInv, PendingIsTaken, WriterInv, WritersTyped
<1>6. ASSUME NEW s \in Session, NEW t \in Session, EnqueueBusy(s, t)
      PROVE  PendingInv'
  BY <1>6 DEF EnqueueBusy, PendingInv, PendingIsTaken
<1>7. ASSUME NEW s \in Session, NEW t \in Session, EnqueueIdle(s, t)
      PROVE  PendingInv'
  BY <1>7, ConnectionsAssumption
     DEF EnqueueIdle, PendingInv, PendingIsTaken, WriterInv, WritersTyped, ConnectionsAssumption
<1>8. ASSUME NEW s \in Session, NEW t \in Session, FinishEnqueue(s, t)
      PROVE  PendingInv'
  BY <1>8 DEF FinishEnqueue, Written, PendingInv, PendingIsTaken, WriterInv, WritersTyped
<1> QED BY <1>1, <1>2, <1>3, <1>4, <1>5, <1>6, <1>7, <1>8 DEF NotifyStep

\* No lost wakeup (notify.go:83-97): a notification waits only while its
\* session is busy, or while somebody is writing it.
THEOREM NothingLeftBehind == Spec => []PendingIsTaken
<1>1. Init => PendingInv
  BY DEF Init, NotifyInit, PendingInv, PendingIsTaken
<1>2. WriterInv /\ PendingInv /\ [Next]_vars => PendingInv'
  BY StepNotifies, NotifyKeepsPending
<1>3. PendingInv => PendingIsTaken
  BY DEF PendingInv
<1> QED BY <1>1, <1>2, <1>3, WriterInit, WriterStep, PTL DEF Spec

RegistryInv ==
  /\ listens \in [Session -> SUBSET Channel]
  /\ registry \in [Channel -> SUBSET Session]
  /\ RegistryAgrees

\* A step that leaves the registry alone ends no session.
LEMMA RegistryStays ==
  ASSUME RegistryInv, UNCHANGED <<listens, registry>>,
         \A u \in Session : pc[u] \notin {"none", "gone"} => pc'[u] \notin {"none", "gone"}
  PROVE  RegistryInv'
BY DEF RegistryInv, RegistryAgrees

\* A step of Notify keeps the registry and the sessions' own sets together.
LEMMA NotifyKeepsRegistry ==
  ASSUME WriterInv, RegistryInv, NotifyStep
  PROVE  RegistryInv'
<1>1. CASE UNCHANGED notifyVars
  BY <1>1 DEF notifyVars, RegistryInv, RegistryAgrees
<1>2. ASSUME NEW s \in Session,
             \/ StartSession(s) \/ GoBusy(s) \/ ReadOn(s) \/ GoIdle(s) \/ FinishGoIdle(s)
             \/ \E ch \in Channel : Publish(s, ch)
             \/ \E t \in Session : EnqueueBusy(s, t) \/ EnqueueIdle(s, t) \/ FinishEnqueue(s, t)
      PROVE  RegistryInv'
  <2>1. UNCHANGED <<listens, registry>>
    BY <1>2 DEF StartSession, GoBusy, ReadOn, GoIdle, FinishGoIdle, Publish, EnqueueBusy, EnqueueIdle,
                FinishEnqueue
  <2>2. PICK p \in {"read", "busy", "publish", "write"} : pc' = [pc EXCEPT ![s] = p]
    BY <1>2 DEF StartSession, GoBusy, ReadOn, GoIdle, FinishGoIdle, Publish, EnqueueBusy, EnqueueIdle,
                FinishEnqueue, DoneWith
  <2>3. \A u \in Session : pc[u] \notin {"none", "gone"} => pc'[u] \notin {"none", "gone"}
    BY <2>2 DEF WriterInv, WritersTyped
  <2> QED BY <2>1, <2>3, RegistryStays
<1>3. ASSUME NEW s \in Session, NEW ch \in Channel, Listen(s, ch) \/ Unlisten(s, ch)
      PROVE  RegistryInv'
  BY <1>3 DEF Listen, Unlisten, RegistryInv, RegistryAgrees
<1>4. ASSUME NEW s \in Session, UnlistenAll(s)
      PROVE  RegistryInv'
  BY <1>4 DEF UnlistenAll, RegistryInv, RegistryAgrees
<1>5. ASSUME NEW s \in Session, EndSession(s)
      PROVE  RegistryInv'
  BY <1>5 DEF EndSession, unregisterAll, RegistryInv, RegistryAgrees, WriterInv, WritersTyped
<1> QED BY <1>1, <1>2, <1>3, <1>4, <1>5 DEF NotifyStep

\* The registry and the sessions' own sets name the same listeners, and a
\* session that has left is no longer among them (notify.go:29-58).
THEOREM RegistryIsRight == Spec => []RegistryAgrees
<1>1. Init => RegistryInv
  BY DEF Init, NotifyInit, RegistryInv, RegistryAgrees
<1>2. WriterInv /\ RegistryInv /\ [Next]_vars => RegistryInv'
  BY StepNotifies, NotifyKeepsRegistry
<1>3. RegistryInv => RegistryAgrees
  BY DEF RegistryInv
<1> QED BY <1>1, <1>2, <1>3, WriterInit, WriterStep, PTL DEF Spec

-----------------------------------------------------------------------------
(* Every notification arrives once, and in its sender's order.             *)

\* All that t was sent, or is about to be.
History(t) == received[t] \o pending[t]

\* Notification x is still to be enqueued for t.
OnWay(x, t) ==
  /\ note[addressed[x].pid] = x
  /\ t \in targets[addressed[x].pid]
  /\ nmu[t] # addressed[x].pid

\* What a session publishes is the last of its notifications.
PublishesLast(s) ==
  /\ note[s] # 0 =>
       /\ note[s] \in DOMAIN addressed
       /\ addressed[note[s]].pid = s
       /\ targets[s] \subseteq addressed[note[s]].to
       /\ \A j \in DOMAIN addressed : addressed[j].pid = s => j <= note[s]
  /\ pc[s] = "publish" => note[s] # 0
  /\ pc[s] \in {"none", "read", "busy", "gone"} => note[s] = 0
  /\ pc[s] = "write" => (note[s] = 0 <=> nmu[s] = s)

\* The sequence h of notifications is what t has been sent.
SentTo(h, t) ==
  /\ \A k \in DOMAIN h :
       h[k] \in DOMAIN addressed /\ t \in addressed[h[k]].to /\ ~OnWay(h[k], t)
  /\ \A k, l \in DOMAIN h : h[k] = h[l] => k = l
  /\ \A k, l \in DOMAIN h :
       k < l /\ addressed[h[k]].pid = addressed[h[l]].pid => h[k] < h[l]

AllSentTo(h, t) ==
  \A x \in DOMAIN addressed :
    t \in addressed[x].to /\ ~OnWay(x, t) => \E k \in DOMAIN h : h[k] = x

SentRight(t) ==
  /\ SentTo(History(t), t)
  /\ pc[t] # "gone" => AllSentTo(History(t), t)

NotesInv == /\ NotifyTypeOK
            /\ \A s \in Session : PublishesLast(s) /\ SentRight(s)

\* A history is a sequence of notifications.
LEMMA HistoryTyped ==
  ASSUME NotifyTypeOK, NEW t \in Session
  PROVE  History(t) \in Seq(Notifications)
BY DEF NotifyTypeOK, History

\* Written down or not, what was sent is the same.
LEMMA ConcatEmpty ==
  ASSUME NEW S, NEW p \in Seq(S)
  PROVE  p \o <<>> = p
OBVIOUS

\* Enqueueing adds to the history.
LEMMA ConcatAppend ==
  ASSUME NEW S, NEW p \in Seq(S), NEW q \in Seq(S), NEW x \in S
  PROVE  p \o Append(q, x) = Append(p \o q, x)
OBVIOUS

\* Where a notification stands once in a sequence, it does so one time.
LEMMA TimesOnce ==
  ASSUME NEW x, NEW q, NEW k \in DOMAIN q, q[k] = x,
         \A l \in DOMAIN q : q[l] = x => l = k
  PROVE  Times(x, q) = 1
<1>1. {i \in DOMAIN q : q[i] = x} = {k}
  OBVIOUS
<1>2. Cardinality({k}) = 1
  BY FS_Singleton
<1> QED
  BY <1>1, <1>2 DEF Times

\* And where it does not stand, none.
LEMMA TimesNever ==
  ASSUME NEW x, NEW q, \A l \in DOMAIN q : q[l] # x
  PROVE  Times(x, q) = 0
<1>1. {i \in DOMAIN q : q[i] = x} = {}
  OBVIOUS
<1>2. Cardinality({}) = 0
  BY FS_EmptySet
<1> QED
  BY <1>1, <1>2 DEF Times

\* The members of a concatenation.
LEMMA ConcatMembers ==
  ASSUME NEW S, NEW p \in Seq(S), NEW q \in Seq(S)
  PROVE  /\ \A k \in DOMAIN p : k \in DOMAIN (p \o q) /\ (p \o q)[k] = p[k]
         /\ \A k \in DOMAIN q : Len(p) + k \in DOMAIN (p \o q) /\ (p \o q)[Len(p) + k] = q[k]
         /\ \A k \in DOMAIN (p \o q) :
              \/ k \in DOMAIN p
              \/ k - Len(p) \in DOMAIN q
OBVIOUS

\* A notification has a sender.
LEMMA AddressedTyped ==
  ASSUME NotifyTypeOK, NEW i \in DOMAIN addressed
  PROVE  i \in Notifications /\ i # 0 /\ addressed[i].pid \in Session
<1> DEFINE R == [pid : Session, to : SUBSET Session]
<1>1. addressed \in Seq(R) /\ Len(addressed) <= MaxNotes
  BY DEF NotifyTypeOK
<1>2. addressed[i] \in R /\ i \in 1..Len(addressed)
  <2> HIDE DEF R
  <2> QED
    BY <1>1
<1>3. Len(addressed) \in Nat
  <2> HIDE DEF R
  <2> QED
    BY <1>1
<1> QED
  BY <1>1, <1>2, <1>3, NotifyAssumption DEF Notifications

\* The copies of a notification: on its way, waiting or written, at most one.
LEMMA Copies ==
  ASSUME NotesInv, NEW i \in DOMAIN addressed, NEW t \in Session
  PROVE  LET copies == OnItsWay(i, t) + Times(i, pending[t]) + Times(i, received[t])
         IN IF t \notin addressed[i].to THEN copies = 0
            ELSE IF pc[t] = "gone" THEN copies <= 1
            ELSE copies = 1
<1> DEFINE r == received[t]
           p == pending[t]
           h == History(t)
           s == addressed[i].pid
<1>1. r \in Seq(Notifications) /\ p \in Seq(Notifications) /\ h = r \o p
  BY DEF NotesInv, NotifyTypeOK, History
<1>2. SentTo(h, t) /\ (pc[t] # "gone" => AllSentTo(h, t))
  BY DEF NotesInv, SentRight
<1>3. i # 0 /\ s \in Session
  BY AddressedTyped DEF NotesInv
<1>4. OnItsWay(i, t) = IF OnWay(i, t) THEN 1 ELSE 0
  BY DEF OnItsWay, OnWay
<1>5. OnWay(i, t) => t \in addressed[i].to
  BY <1>3 DEF OnWay, NotesInv, PublishesLast
<1> HIDE DEF r, p, h, s
<1>6. CASE \E k \in DOMAIN h : h[k] = i
  <2>1. PICK k \in DOMAIN h : h[k] = i
    BY <1>6
  <2>2. ~OnWay(i, t) /\ t \in addressed[i].to
    BY <1>2, <2>1 DEF SentTo
  <2>3. \A l \in DOMAIN h : h[l] = i => l = k
    BY <1>2, <2>1 DEF SentTo
  <2>4. <<Times(i, p), Times(i, r)>> \in {<<0, 1>>, <<1, 0>>}
    <3>1. CASE k \in DOMAIN r
      <4>1. r[k] = i /\ \A l \in DOMAIN r : r[l] = i => l = k
        BY <1>1, <2>1, <2>3, <3>1, ConcatMembers
      <4>2. \A l \in DOMAIN p : p[l] # i
        <5> SUFFICES ASSUME NEW l \in DOMAIN p, p[l] = i PROVE FALSE
          OBVIOUS
        <5>1. Len(r) + l \in DOMAIN h /\ h[Len(r) + l] = i
          BY <1>1, ConcatMembers
        <5>2. Len(r) + l = k
          BY <2>3, <5>1
        <5> QED
          BY <1>1, <3>1, <5>2
      <4>3. Times(i, r) = 1
        BY <3>1, <4>1, TimesOnce
      <4>4. Times(i, p) = 0
        BY <4>2, TimesNever
      <4> QED
        BY <4>3, <4>4
    <3>2. CASE k \notin DOMAIN r
      <4>1. k - Len(r) \in DOMAIN p /\ p[k - Len(r)] = i
        BY <1>1, <2>1, <3>2, ConcatMembers
      <4>2. \A l \in DOMAIN p : p[l] = i => l = k - Len(r)
        <5> SUFFICES ASSUME NEW l \in DOMAIN p, p[l] = i PROVE l = k - Len(r)
          OBVIOUS
        <5>1. Len(r) + l \in DOMAIN h /\ h[Len(r) + l] = i
          BY <1>1, ConcatMembers
        <5>2. Len(r) + l = k
          BY <2>3, <5>1
        <5> QED
          BY <1>1, <5>2
      <4>3. \A l \in DOMAIN r : r[l] # i
        <5> SUFFICES ASSUME NEW l \in DOMAIN r, r[l] = i PROVE FALSE
          OBVIOUS
        <5>1. l \in DOMAIN h /\ h[l] = i
          BY <1>1, ConcatMembers
        <5> QED
          BY <2>3, <3>2, <5>1
      <4>4. Times(i, p) = 1
        BY <4>1, <4>2, TimesOnce
      <4>5. Times(i, r) = 0
        BY <4>3, TimesNever
      <4> QED
        BY <4>4, <4>5
    <3> QED
      BY <3>1, <3>2
  <2> QED
    BY <1>4, <2>2, <2>4 DEF r, p
<1>7. CASE \A k \in DOMAIN h : h[k] # i
  <2>1. \A k \in DOMAIN r : r[k] # i
    BY <1>1, <1>7, ConcatMembers
  <2>2. \A k \in DOMAIN p : p[k] # i
    <3> SUFFICES ASSUME NEW k \in DOMAIN p PROVE p[k] # i
      OBVIOUS
    <3>1. Len(r) + k \in DOMAIN h /\ h[Len(r) + k] = p[k]
      BY <1>1, ConcatMembers
    <3> QED
      BY <1>7, <3>1
  <2>3. Times(i, p) = 0 /\ Times(i, r) = 0
    BY <2>1, <2>2, TimesNever
  <2>4. pc[t] # "gone" /\ t \in addressed[i].to => OnWay(i, t)
    BY <1>2, <1>7 DEF AllSentTo
  <2> QED
    BY <1>4, <1>5, <2>3, <2>4 DEF r, p
<1> QED
  BY <1>6, <1>7

\* The invariant says what the two properties do.
LEMMA NotesAreRight ==
  ASSUME NotesInv
  PROVE  ExactlyOnce /\ SenderOrder
<1>1. ExactlyOnce
  BY Copies DEF ExactlyOnce
<1>2. SenderOrder
  BY DEF NotesInv, SentRight, SentTo, History, SenderOrder
<1> QED
  BY <1>1, <1>2

\* At first nothing is sent.
LEMMA NotesInit ==
  ASSUME Init
  PROVE  NotesInv
<1>1. NotifyTypeOK
  BY NotifyAssumption DEF Init, NotifyInit, NotifyTypeOK
<1>2. addressed = <<>> /\ \A s \in Session :
         note[s] = 0 /\ pc[s] = "none" /\ History(s) = <<>>
  BY DEF Init, NotifyInit, History
<1>3. \A s \in Session : PublishesLast(s)
  BY <1>2 DEF PublishesLast
<1>4. \A s \in Session : SentRight(s)
  <2> SUFFICES ASSUME NEW s \in Session PROVE SentRight(s)
    OBVIOUS
  <2>1. DOMAIN <<>> = {} /\ DOMAIN addressed = {}
    BY <1>2
  <2>2. SentTo(<<>>, s) /\ AllSentTo(<<>>, s)
    BY <2>1 DEF SentTo, AllSentTo
  <2> QED
    BY <1>2, <2>2 DEF SentRight
<1> QED
  BY <1>1, <1>3, <1>4 DEF NotesInv

\* What t was sent, while nothing of it changes.
LEMMA SentStays ==
  ASSUME NEW t \in Session, SentRight(t),
         addressed' = addressed, History(t)' = History(t),
         \A x \in DOMAIN addressed : OnWay(x, t)' <=> OnWay(x, t),
         pc[t] = "gone" => pc'[t] = "gone"
  PROVE  SentRight(t)'
<1>1. SentTo(History(t), t)'
  BY DEF SentRight, SentTo
<1>2. pc'[t] # "gone" => AllSentTo(History(t), t)'
  BY DEF SentRight, AllSentTo
<1> QED
  BY <1>1, <1>2 DEF SentRight

\* Notification x reaches t, which it was on its way to.
LEMMA SentGrows ==
  ASSUME NEW t \in Session, NotesInv,
         NEW x \in DOMAIN addressed, OnWay(x, t), x # 0, x \in Notifications,
         addressed' = addressed, History(t)' = Append(History(t), x),
         ~OnWay(x, t)',
         \A y \in DOMAIN addressed : y # x => (OnWay(y, t)' <=> OnWay(y, t)),
         pc[t] = "gone" => pc'[t] = "gone"
  PROVE  SentRight(t)'
<1>0. PICK h, g : h = History(t) /\ g = Append(h, x)
  OBVIOUS
<1>1. h \in Seq(Notifications) /\ x \in Nat
  BY <1>0, HistoryTyped DEF NotesInv, Notifications
<1>2. SentTo(h, t) /\ (pc[t] # "gone" => AllSentTo(h, t))
  BY <1>0 DEF NotesInv, SentRight
<1>3. /\ note[addressed[x].pid] = x /\ t \in targets[addressed[x].pid]
      /\ addressed[x].pid \in Session
  <2>1. addressed[x].pid \in Session
    BY AddressedTyped DEF NotesInv
  <2> QED
    BY <2>1 DEF OnWay
<1>4. t \in addressed[x].to /\ \A j \in DOMAIN addressed : addressed[j].pid = addressed[x].pid => j <= x
  BY <1>3 DEF NotesInv, PublishesLast
<1>5. /\ DOMAIN g = DOMAIN h \cup {Len(h) + 1} /\ Len(h) + 1 \notin DOMAIN h
      /\ \A k \in DOMAIN h : g[k] = h[k] /\ k < Len(h) + 1
      /\ g[Len(h) + 1] = x
      /\ Len(h) \in Nat
  BY <1>0, <1>1
<1>6. \A k \in DOMAIN h : h[k] # x /\ h[k] \in Nat
  <2> SUFFICES ASSUME NEW k \in DOMAIN h PROVE h[k] # x /\ h[k] \in Nat
    OBVIOUS
  <2>1. ~OnWay(h[k], t)
    BY <1>2 DEF SentTo
  <2>2. h[k] # x
    BY <2>1
  <2>3. h[k] \in Notifications
    BY <1>1
  <2> QED
    BY <2>2, <2>3 DEF Notifications
<1>7. \A k \in DOMAIN g : g[k] \in DOMAIN addressed /\ t \in addressed[g[k]].to /\ ~OnWay(g[k], t)'
  <2>1. \A k \in DOMAIN h : g[k] \in DOMAIN addressed /\ t \in addressed[g[k]].to /\ ~OnWay(g[k], t)'
    BY <1>2, <1>5, <1>6 DEF SentTo
  <2> QED
    BY <1>4, <1>5, <2>1
<1>8. \A k, l \in DOMAIN g : g[k] = g[l] => k = l
  BY <1>2, <1>5, <1>6 DEF SentTo
<1>9. \A k, l \in DOMAIN g : k < l /\ addressed[g[k]].pid = addressed[g[l]].pid => g[k] < g[l]
  <2> SUFFICES ASSUME NEW k \in DOMAIN g, NEW l \in DOMAIN g, k < l,
                      addressed[g[k]].pid = addressed[g[l]].pid
               PROVE  g[k] < g[l]
    OBVIOUS
  <2>1. DOMAIN h = 1..Len(h)
    BY <1>1
  <2>2. k \in DOMAIN h
    BY <1>5, <2>1
  <2>3. CASE l \in DOMAIN h
    BY <1>2, <1>5, <2>2, <2>3 DEF SentTo
  <2>4. CASE l \notin DOMAIN h
    <3>1. g[l] = x /\ g[k] = h[k]
      BY <1>5, <2>2, <2>4
    <3>2. h[k] \in DOMAIN addressed /\ addressed[h[k]].pid = addressed[x].pid
      BY <1>2, <2>2, <3>1 DEF SentTo
    <3>3. h[k] <= x /\ h[k] # x /\ h[k] \in Nat
      BY <1>4, <1>6, <2>2, <3>2
    <3> QED
      BY <1>1, <3>1, <3>3
  <2> QED
    BY <2>3, <2>4
<1>10. SentTo(g, t)'
  BY <1>7, <1>8, <1>9 DEF SentTo
<1>11. pc'[t] # "gone" => AllSentTo(g, t)'
  <2> SUFFICES ASSUME pc'[t] # "gone", NEW y \in DOMAIN addressed,
                      t \in addressed[y].to, ~OnWay(y, t)'
               PROVE  \E k \in DOMAIN g : g[k] = y
    BY DEF AllSentTo
  <2>1. CASE y = x
    BY <1>5, <2>1
  <2>2. CASE y # x
    <3>1. \E k \in DOMAIN h : h[k] = y
      BY <1>2, <2>2 DEF AllSentTo
    <3> QED
      BY <1>5, <3>1
  <2> QED
    BY <2>1, <2>2
<1>12. History(t)' = g
  BY <1>0
<1> QED
  BY <1>10, <1>11, <1>12 DEF SentRight

\* The sequence of all notifications is left alone, or grows by one.
LEMMA NotesTyped ==
  ASSUME NotesInv, NotifyStep
  PROVE  NotifyTypeOK'
<1> DEFINE R == [pid : Session, to : SUBSET Session]
<1>0. /\ NotifyTypeOK
      /\ pending \in [Session -> Seq(Notifications)]
      /\ received \in [Session -> Seq(Notifications)]
      /\ addressed \in Seq(R)
  BY DEF NotesInv, NotifyTypeOK
<1>a. /\ idle \in [Session -> BOOLEAN]
      /\ nmu \in [Session -> Session \cup {NoSession}]
      /\ pc \in [Session -> {"none", "read", "busy", "publish", "write", "gone"}]
  BY <1>0 DEF NotifyTypeOK
<1>b. /\ listens \in [Session -> SUBSET Channel]
      /\ registry \in [Channel -> SUBSET Session]
  BY <1>0 DEF NotifyTypeOK
<1>c. /\ targets \in [Session -> SUBSET Session]
      /\ note \in [Session -> Notifications \cup {0}]
  BY <1>0 DEF NotifyTypeOK
<1>1. CASE UNCHANGED notifyVars
  BY <1>0, <1>1 DEF notifyVars, NotifyTypeOK
<1>2. ASSUME NEW s \in Session, StartSession(s) \/ GoBusy(s) \/ ReadOn(s) \/ GoIdle(s)
      PROVE  NotifyTypeOK'
  <2>1. UNCHANGED <<listens, registry, pending, targets, note, received, addressed>>
    BY <1>2 DEF StartSession, GoBusy, ReadOn, GoIdle
  <2>2. PICK p \in {"read", "busy", "write"} : pc' = [pc EXCEPT ![s] = p]
    BY <1>2 DEF StartSession, GoBusy, ReadOn, GoIdle
  <2>3. idle' \in [Session -> BOOLEAN]
    <3>1. PICK i \in BOOLEAN : idle' = idle \/ idle' = [idle EXCEPT ![s] = i]
      BY <1>2 DEF StartSession, GoBusy, ReadOn, GoIdle
    <3> QED
      BY <1>a, <3>1
  <2>4. nmu' \in [Session -> Session \cup {NoSession}]
    <3>1. nmu' = nmu \/ nmu' = [nmu EXCEPT ![s] = s]
      BY <1>2 DEF StartSession, GoBusy, ReadOn, GoIdle
    <3> QED
      BY <1>a, <3>1
  <2>5. pc' \in [Session -> {"none", "read", "busy", "publish", "write", "gone"}]
    BY <1>a, <2>2
  <2> QED
    BY <1>0, <2>1, <2>3, <2>4, <2>5 DEF NotifyTypeOK
<1>3. ASSUME NEW s \in Session, NEW ch \in Channel,
             Listen(s, ch) \/ Unlisten(s, ch)
      PROVE  NotifyTypeOK'
  <2>1. UNCHANGED <<pending, idle, nmu, pc, targets, note, received, addressed>>
    BY <1>3 DEF Listen, Unlisten
  <2>2. listens' \in [Session -> SUBSET Channel]
    <3>1. PICK L : listens' = [listens EXCEPT ![s] = L] /\ L \in {listens[s] \cup {ch}, listens[s] \ {ch}}
      BY <1>3 DEF Listen, Unlisten
    <3> QED
      BY <1>b, <3>1
  <2>3. registry' \in [Channel -> SUBSET Session]
    <3>1. PICK L : registry' = [registry EXCEPT ![ch] = L] /\ L \in {registry[ch] \cup {s}, registry[ch] \ {s}}
      BY <1>3 DEF Listen, Unlisten
    <3> QED
      BY <1>b, <3>1
  <2> QED
    BY <1>0, <2>1, <2>2, <2>3 DEF NotifyTypeOK
<1>4. ASSUME NEW s \in Session, UnlistenAll(s) \/ EndSession(s)
      PROVE  NotifyTypeOK'
  <2>1. UNCHANGED <<pending, idle, nmu, targets, note, received, addressed>>
    BY <1>4 DEF UnlistenAll, EndSession
  <2>2. listens' \in [Session -> SUBSET Channel]
    <3>1. listens' = [listens EXCEPT ![s] = {}]
      BY <1>4 DEF UnlistenAll, EndSession, unregisterAll
    <3> QED
      BY <1>b, <3>1
  <2>3. registry' \in [Channel -> SUBSET Session]
    <3>1. DOMAIN registry' = Channel /\ \A ch \in Channel : registry'[ch] \subseteq registry[ch]
      BY <1>b, <1>4 DEF UnlistenAll, EndSession, unregisterAll
    <3>2. registry' = [ch \in Channel |-> registry'[ch]]
      BY <1>4 DEF UnlistenAll, EndSession, unregisterAll
    <3> QED
      BY <1>b, <3>1, <3>2
  <2>4. pc' \in [Session -> {"none", "read", "busy", "publish", "write", "gone"}]
    BY <1>0, <1>4 DEF NotifyTypeOK, UnlistenAll, EndSession
  <2> QED
    BY <1>0, <2>1, <2>2, <2>3, <2>4 DEF NotifyTypeOK
<1>5. ASSUME NEW s \in Session, NEW ch \in Channel, Publish(s, ch)
      PROVE  NotifyTypeOK'
  <2>1. registry[ch] \in SUBSET Session
    BY <1>0 DEF NotifyTypeOK
  <2> DEFINE n == [pid |-> s, to |-> registry[ch]]
  <2>2. n \in R
    BY <2>1
  <2>3. addressed' = Append(addressed, n) /\ Len(addressed) < MaxNotes /\ Len(addressed) \in Nat
    <3>1. addressed' = Append(addressed, n) /\ Len(addressed) < MaxNotes
      BY <1>5 DEF Publish
    <3> HIDE DEF R
    <3> QED
      BY <1>0, <3>1
  <2>4. addressed' \in Seq(R) /\ Len(addressed') = Len(addressed) + 1
    <3> HIDE DEF R, n
    <3> QED
      BY <1>0, <2>2, <2>3
  <2>5. Len(addressed') <= MaxNotes /\ Len(addressed) + 1 \in Notifications
    BY <2>3, <2>4, NotifyAssumption DEF Notifications
  <2>6. /\ note' \in [Session -> Notifications \cup {0}]
        /\ targets' \in [Session -> SUBSET Session]
        /\ pc' \in [Session -> {"none", "read", "busy", "publish", "write", "gone"}]
    BY <1>0, <1>5, <2>1, <2>5 DEF NotifyTypeOK, Publish
  <2>7. UNCHANGED <<listens, registry, pending, idle, nmu, received>>
    BY <1>5 DEF Publish
  <2> QED
    BY <1>0, <2>4, <2>5, <2>6, <2>7 DEF NotifyTypeOK
<1>6. ASSUME NEW s \in Session, NEW t \in Session, EnqueueBusy(s, t) \/ EnqueueIdle(s, t)
      PROVE  NotifyTypeOK'
  <2>1. note[s] \in Notifications
    BY <1>6 DEF NotesInv, PublishesLast, NotifyTypeOK, EnqueueBusy, EnqueueIdle
  <2>2. Append(pending[t], note[s]) \in Seq(Notifications)
    BY <1>0, <2>1
  <2>3. pending' = [pending EXCEPT ![t] = Append(pending[t], note[s])]
    BY <1>6 DEF EnqueueBusy, EnqueueIdle
  <2>4. pending' \in [Session -> Seq(Notifications)]
    BY <1>0, <2>2, <2>3
  <2>5. UNCHANGED <<listens, registry, idle, received, addressed>>
    BY <1>6 DEF EnqueueBusy, EnqueueIdle
  <2>6. note' \in [Session -> Notifications \cup {0}]
    <3>1. PICK n \in {0, note[s]} : note' = note \/ note' = [note EXCEPT ![s] = n]
      BY <1>6 DEF EnqueueBusy, EnqueueIdle, DoneWith
    <3> QED
      BY <1>c, <3>1
  <2>7. targets' \in [Session -> SUBSET Session]
    <3>1. targets' = targets \/ targets' = [targets EXCEPT ![s] = targets[s] \ {t}]
      BY <1>6 DEF EnqueueBusy, EnqueueIdle, DoneWith
    <3> QED
      BY <1>c, <3>1
  <2>8. PICK p \in {"read", "busy", "publish", "write"} : pc' = [pc EXCEPT ![s] = p]
    BY <1>6 DEF EnqueueBusy, EnqueueIdle, DoneWith
  <2>9. pc' \in [Session -> {"none", "read", "busy", "publish", "write", "gone"}]
    BY <1>a, <2>8
  <2>10. nmu' \in [Session -> Session \cup {NoSession}]
    <3>1. nmu' = nmu \/ nmu' = [nmu EXCEPT ![t] = s]
      BY <1>6 DEF EnqueueBusy, EnqueueIdle
    <3> QED
      BY <1>a, <3>1
  <2> QED
    BY <1>0, <2>4, <2>5, <2>6, <2>7, <2>9, <2>10 DEF NotifyTypeOK
<1>7. ASSUME NEW s \in Session, NEW t \in Session, Written(s, t),
             \/ FinishGoIdle(s)
             \/ FinishEnqueue(s, t)
      PROVE  NotifyTypeOK'
  <2>1. received[t] \o pending[t] \in Seq(Notifications) /\ <<>> \in Seq(Notifications)
    BY <1>0
  <2>2. pending' \in [Session -> Seq(Notifications)]
    BY <1>0, <1>7, <2>1 DEF Written
  <2>3. received' \in [Session -> Seq(Notifications)]
    BY <1>0, <1>7, <2>1 DEF Written
  <2>4. nmu' \in [Session -> Session \cup {NoSession}]
    BY <1>0, <1>7 DEF Written, NotifyTypeOK
  <2>5. UNCHANGED <<listens, registry, idle, addressed>>
    BY <1>7 DEF FinishGoIdle, FinishEnqueue
  <2>6. note' \in [Session -> Notifications \cup {0}]
    <3>1. PICK n \in {0, note[s]} : note' = note \/ note' = [note EXCEPT ![s] = n]
      BY <1>7 DEF FinishGoIdle, FinishEnqueue, DoneWith
    <3> QED
      BY <1>c, <3>1
  <2>7. targets' \in [Session -> SUBSET Session]
    <3>1. targets' = targets \/ targets' = [targets EXCEPT ![s] = targets[s] \ {t}]
      BY <1>7 DEF FinishGoIdle, FinishEnqueue, DoneWith
    <3> QED
      BY <1>c, <3>1
  <2>8. PICK p \in {"read", "busy", "publish", "write"} : pc' = [pc EXCEPT ![s] = p]
    BY <1>7 DEF FinishGoIdle, FinishEnqueue, DoneWith
  <2>9. pc' \in [Session -> {"none", "read", "busy", "publish", "write", "gone"}]
    BY <1>a, <2>8
  <2> QED
    BY <1>0, <2>2, <2>3, <2>4, <2>5, <2>6, <2>7, <2>9 DEF NotifyTypeOK
<1> QED
  BY <1>1, <1>2, <1>3, <1>4, <1>5, <1>6, <1>7 DEF NotifyStep, FinishGoIdle, FinishEnqueue

\* A step that enqueues and writes nothing, of a session that publishes nothing.
LEMMA NotesQuiet ==
  ASSUME NotesInv, NotifyTypeOK', NEW s \in Session,
         UNCHANGED <<pending, targets, note, received, addressed>>,
         pc[s] \in {"none", "read", "busy"},
         NEW p, pc' = [pc EXCEPT ![s] = p],
         \/ nmu' = nmu /\ p \in {"read", "busy", "gone"}
         \/ nmu[s] = NoSession /\ nmu' = [nmu EXCEPT ![s] = s] /\ p = "write"
  PROVE  NotesInv'
<1>1. /\ note[s] = 0 /\ pc'[s] = p /\ NotifyTypeOK
      /\ \A u \in Session \ {s} : pc'[u] = pc[u] /\ nmu'[u] = nmu[u]
      /\ p = "write" => nmu'[s] = s
      /\ p \in {"read", "busy", "gone", "write"}
  BY DEF NotesInv, NotifyTypeOK, PublishesLast
<1>2. ASSUME NEW u \in Session PROVE PublishesLast(u)'
  <2>1. PublishesLast(u)
    BY DEF NotesInv
  <2>2. CASE u = s
    BY <1>1, <2>2 DEF PublishesLast
  <2>3. CASE u # s
    BY <1>1, <2>1, <2>3 DEF PublishesLast
  <2> QED
    BY <2>2, <2>3
<1>3. ASSUME NEW u \in Session PROVE SentRight(u)'
  <2>1. \A x \in DOMAIN addressed : OnWay(x, u)' <=> OnWay(x, u)
    <3> SUFFICES ASSUME NEW x \in DOMAIN addressed PROVE OnWay(x, u)' <=> OnWay(x, u)
      OBVIOUS
    <3>1. x # 0 /\ addressed[x].pid \in Session
      BY <1>1, AddressedTyped
    <3>2. CASE addressed[x].pid = s
      BY <1>1, <3>1, <3>2 DEF OnWay
    <3>3. CASE addressed[x].pid # s
      <4>1. nmu'[u] # addressed[x].pid <=> nmu[u] # addressed[x].pid
        BY <1>1, <3>1, <3>3, ConnectionsAssumption DEF NotifyTypeOK
      <4> QED
        BY <4>1 DEF OnWay
    <3> QED
      BY <3>2, <3>3
  <2>2. History(u)' = History(u)
    BY DEF History
  <2>3. pc[u] = "gone" => pc'[u] = "gone"
    BY <1>1
  <2>4. SentRight(u)
    BY DEF NotesInv
  <2> QED
    BY <2>1, <2>2, <2>3, <2>4, SentStays
<1> QED
  BY <1>2, <1>3 DEF NotesInv

\* NOTIFY: the new notification is on its way to every listener.
LEMMA NotesPublish ==
  ASSUME NotesInv, NotifyTypeOK', WriterInv, NEW s \in Session, NEW ch \in Channel, Publish(s, ch)
  PROVE  NotesInv'
<1> DEFINE L == registry[ch]
           R == [pid : Session, to : SUBSET Session]
<1>0. NotifyTypeOK
  BY DEF NotesInv
<1>x. PICK x : x = Len(addressed) + 1
  OBVIOUS
<1>1. /\ pc[s] = "busy" /\ note[s] = 0
      /\ UNCHANGED <<pending, nmu, received>>
      /\ addressed' = Append(addressed, [pid |-> s, to |-> L])
  BY DEF NotesInv, PublishesLast, Publish
<1>2. addressed \in Seq(R)
  BY <1>0 DEF NotifyTypeOK
<1>3. /\ DOMAIN addressed' = DOMAIN addressed \cup {x} /\ x \in Nat
      /\ \A i \in DOMAIN addressed : addressed'[i] = addressed[i] /\ i <= x /\ i # x
      /\ addressed'[x] = [pid |-> s, to |-> L]
  <2> DEFINE n == [pid |-> s, to |-> L]
  <2>1. n \in R
    BY <1>0 DEF NotifyTypeOK
  <2>2. addressed' = Append(addressed, n)
    BY <1>1
  <2> HIDE DEF n, R
  <2>3. /\ DOMAIN addressed' = DOMAIN addressed \cup {x} /\ x \in Nat
        /\ \A i \in DOMAIN addressed : addressed'[i] = addressed[i] /\ i <= x /\ i # x
        /\ addressed'[x] = n
    BY <1>x, <1>2, <2>1, <2>2
  <2> QED
    BY <2>3 DEF n
<1>4. addressed'[x].pid = s /\ addressed'[x].to = L
  BY <1>3
<1>5. /\ note'[s] = (IF L = {} THEN 0 ELSE x) /\ targets'[s] = L
      /\ pc'[s] = (IF L = {} THEN "busy" ELSE "publish")
      /\ \A u \in Session \ {s} : note'[u] = note[u] /\ targets'[u] = targets[u] /\ pc'[u] = pc[u]
  BY <1>0, <1>x DEF Publish, NotifyTypeOK
<1>6. \A t \in Session : nmu[t] # s
  BY <1>1, ConnectionsAssumption DEF WriterInv, WritersTyped, HoldersWrite
<1> HIDE DEF L, R
<1>7. ASSUME NEW u \in Session PROVE PublishesLast(u)'
  <2>1. PublishesLast(u)
    BY DEF NotesInv
  <2>2. CASE u = s
    <3>1. note'[s] # 0 => note'[s] = x /\ pc'[s] = "publish"
      BY <1>5
    <3>2. note'[s] = 0 => pc'[s] = "busy"
      <4>1. x # 0
        BY <1>2, <1>x
      <4> QED
        BY <1>5, <4>1
    <3>3. \A j \in DOMAIN addressed' : j <= x
      BY <1>3
    <3>4. targets'[s] \subseteq addressed'[x].to
      BY <1>4, <1>5
    <3> QED
      BY <1>3, <1>4, <2>2, <3>1, <3>2, <3>3, <3>4 DEF PublishesLast
  <2>3. CASE u # s
    <3>1. note'[u] = note[u] /\ targets'[u] = targets[u] /\ pc'[u] = pc[u] /\ nmu'[u] = nmu[u]
      BY <1>1, <1>5, <2>3
    <3>2. note[u] # 0 =>
            /\ note[u] \in DOMAIN addressed' /\ addressed'[note[u]] = addressed[note[u]]
            /\ \A j \in DOMAIN addressed' : addressed'[j].pid = u => j \in DOMAIN addressed
      BY <1>3, <1>4, <2>1, <2>3 DEF PublishesLast
    <3> QED
      BY <1>3, <2>1, <3>1, <3>2 DEF PublishesLast
  <2> QED
    BY <2>2, <2>3
<1>8. ASSUME NEW u \in Session PROVE SentRight(u)'
  <2>1. SentRight(u) /\ History(u)' = History(u)
    BY <1>1 DEF NotesInv, History
  <2>2. \A y \in DOMAIN addressed : OnWay(y, u)' <=> OnWay(y, u)
    <3> SUFFICES ASSUME NEW y \in DOMAIN addressed PROVE OnWay(y, u)' <=> OnWay(y, u)
      OBVIOUS
    <3>1. y # 0 /\ addressed[y].pid \in Session /\ addressed'[y] = addressed[y] /\ y # x
      BY <1>0, <1>3, AddressedTyped
    <3>2. CASE addressed[y].pid = s
      BY <1>1, <1>5, <3>1, <3>2 DEF OnWay
    <3>3. CASE addressed[y].pid # s
      BY <1>1, <1>5, <3>1, <3>3 DEF OnWay
    <3> QED
      BY <3>2, <3>3
  <2>3. PICK h : h = History(u)
    OBVIOUS
  <2>4. SentTo(h, u) /\ (pc[u] # "gone" => AllSentTo(h, u))
    BY <2>1, <2>3 DEF SentRight
  <2>5. SentTo(h, u)'
    BY <1>3, <2>2, <2>4 DEF SentTo
  <2>6. pc'[u] # "gone" => AllSentTo(h, u)'
    <3>1. OnWay(x, u)' <=> u \in addressed'[x].to
      <4>1. u \in addressed'[x].to => note'[s] = x
        BY <1>4, <1>5
      <4> QED
        BY <1>1, <1>4, <1>5, <1>6, <4>1 DEF OnWay
    <3>2. pc'[u] # "gone" => pc[u] # "gone"
      BY <1>1, <1>5
    <3> QED
      BY <1>3, <2>2, <2>4, <3>1, <3>2 DEF AllSentTo
  <2> QED
    BY <2>1, <2>3, <2>5, <2>6 DEF SentRight
<1> QED
  BY <1>7, <1>8 DEF NotesInv

\* enqueueNotify: the notification reaches the session it was on its way to.
LEMMA NotesEnqueue ==
  ASSUME NotesInv, NotifyTypeOK', WriterInv, NEW s \in Session, NEW t \in Session,
         EnqueueBusy(s, t) \/ EnqueueIdle(s, t)
  PROVE  NotesInv'
<1>0. NotifyTypeOK
  BY DEF NotesInv
<1>x. PICK x : x = note[s]
  OBVIOUS
<1>1. /\ pc[s] = "publish" /\ t \in targets[s] /\ nmu[t] = NoSession
      /\ UNCHANGED <<received, addressed>>
      /\ pending' = [pending EXCEPT ![t] = Append(@, x)]
  BY <1>x DEF EnqueueBusy, EnqueueIdle
<1>2. /\ x # 0 /\ x \in DOMAIN addressed /\ x \in Notifications /\ addressed[x].pid = s
      /\ targets[s] \subseteq addressed[x].to
      /\ \A j \in DOMAIN addressed : addressed[j].pid = s => j <= x
  BY <1>0, <1>1, <1>x, AddressedTyped DEF NotesInv, PublishesLast
<1>3. /\ \A u \in Session \ {s} : note'[u] = note[u] /\ targets'[u] = targets[u] /\ pc'[u] = pc[u]
      /\ \A u \in Session \ {t} : nmu'[u] = nmu[u]
      /\ nmu'[t] \in {s, NoSession}
  BY <1>0, <1>1 DEF EnqueueBusy, EnqueueIdle, DoneWith, NotifyTypeOK
<1>4. \/ /\ nmu' = nmu /\ targets'[s] = targets[s] \ {t}
         /\ note'[s] = (IF targets[s] = {t} THEN 0 ELSE x)
         /\ pc'[s] = (IF targets[s] = {t} THEN "busy" ELSE "publish")
      \/ nmu'[t] = s /\ targets'[s] = targets[s] /\ note'[s] = x /\ pc'[s] = "write"
  BY <1>0, <1>1, <1>x DEF EnqueueBusy, EnqueueIdle, DoneWith, NotifyTypeOK
<1>5. t # s \/ ~idle[t]
  BY <1>1 DEF WriterInv, WorkersAreBusy
<1>6. nmu'[s] # s
  <2>1. nmu[s] # s
    BY <1>1, ConnectionsAssumption DEF WriterInv, HoldersWrite
  <2>2. CASE EnqueueBusy(s, t)
    BY <2>1, <2>2 DEF EnqueueBusy
  <2>3. CASE EnqueueIdle(s, t)
    BY <1>3, <1>5, <2>1, <2>3 DEF EnqueueIdle
  <2> QED
    BY <2>2, <2>3
<1>7. ASSUME NEW u \in Session PROVE PublishesLast(u)'
  <2>1. PublishesLast(u)
    BY DEF NotesInv
  <2>2. CASE u = s
    <3>1. note'[s] # 0 => note'[s] = x /\ targets'[s] \subseteq targets[s]
      BY <1>4
    <3>2. /\ pc'[s] = "publish" => note'[s] # 0
          /\ pc'[s] \in {"none", "read", "busy", "gone"} => note'[s] = 0
          /\ pc'[s] = "write" => note'[s] # 0
      BY <1>2, <1>4
    <3> QED
      BY <1>1, <1>2, <1>6, <2>2, <3>1, <3>2 DEF PublishesLast
  <2>3. CASE u # s
    <3>1. note'[u] = note[u] /\ targets'[u] = targets[u] /\ pc'[u] = pc[u] /\ addressed' = addressed
      BY <1>1, <1>3, <2>3
    <3>2. nmu'[u] = u <=> nmu[u] = u
      <4>1. NoSession # u
        BY ConnectionsAssumption
      <4> QED
        BY <1>1, <1>3, <2>3, <4>1
    <3> QED
      BY <2>1, <3>1, <3>2 DEF PublishesLast
  <2> QED
    BY <2>2, <2>3
<1>8. ASSUME NEW u \in Session PROVE SentRight(u)'
  <2>1. \A y \in DOMAIN addressed : <<y, u>> # <<x, t>> => (OnWay(y, u)' <=> OnWay(y, u))
    <3> SUFFICES ASSUME NEW y \in DOMAIN addressed, <<y, u>> # <<x, t>>
                 PROVE  OnWay(y, u)' <=> OnWay(y, u)
      OBVIOUS
    <3>1. y # 0 /\ addressed[y].pid \in Session /\ addressed' = addressed
      BY <1>0, <1>1, AddressedTyped
    <3>2. CASE addressed[y].pid = s
      <4>1. CASE y = x
        <5>1. u # t /\ nmu'[u] = nmu[u]
          BY <1>3, <4>1
        <5>2. u \in targets'[s] /\ note'[s] = x <=> u \in targets[s] /\ note[s] = x
          BY <1>4, <1>x, <5>1
        <5> QED
          BY <1>2, <3>1, <3>2, <4>1, <5>1, <5>2 DEF OnWay
      <4>2. CASE y # x
        BY <1>4, <1>x, <3>1, <3>2, <4>2 DEF OnWay
      <4> QED
        BY <4>1, <4>2
    <3>3. CASE addressed[y].pid # s
      <4>1. nmu'[u] # addressed[y].pid <=> nmu[u] # addressed[y].pid
        BY <1>1, <1>3, <3>1, <3>3, ConnectionsAssumption
      <4> QED
        BY <1>3, <3>1, <3>3, <4>1 DEF OnWay
    <3> QED
      BY <3>2, <3>3
  <2>2. pc[u] = "gone" => pc'[u] = "gone"
    BY <1>1, <1>3
  <2>3. CASE u = t
    <3>1. OnWay(x, t) /\ ~OnWay(x, t)'
      BY <1>1, <1>2, <1>4, <1>x, ConnectionsAssumption DEF OnWay
    <3>2. History(t)' = Append(History(t), x)
      <4>1. received[t] \in Seq(Notifications) /\ pending[t] \in Seq(Notifications)
        BY <1>0 DEF NotifyTypeOK
      <4>2. pending'[t] = Append(pending[t], x) /\ received' = received
        BY <1>0, <1>1 DEF NotifyTypeOK
      <4>3. History(t)' = received[t] \o Append(pending[t], x)
        BY <4>2 DEF History
      <4>4. received[t] \o Append(pending[t], x) = Append(received[t] \o pending[t], x)
        <5>1. ASSUME NEW r \in Seq(Notifications), NEW p \in Seq(Notifications)
              PROVE  r \o Append(p, x) = Append(r \o p, x)
          BY <1>2, ConcatAppend
        <5> QED
          BY <4>1, <5>1
      <4> QED
        BY <4>3, <4>4 DEF History
    <3> QED
      BY <1>1, <1>2, <2>1, <2>2, <2>3, <3>1, <3>2, SentGrows
  <2>4. CASE u # t
    <3>1. History(u)' = History(u)
      BY <1>0, <1>1, <2>4 DEF NotifyTypeOK, History
    <3>2. SentRight(u)
      BY DEF NotesInv
    <3> QED
      BY <1>1, <2>1, <2>2, <2>4, <3>1, <3>2, SentStays
  <2> QED
    BY <2>3, <2>4
<1> QED
  BY <1>7, <1>8 DEF NotesInv

\* What waited has been written, or is dropped with the session: the history is
\* what it was, or what was written before.
LEMMA SentCut ==
  ASSUME NEW t \in Session, SentRight(t), addressed' = addressed,
         received[t] \in Seq(Notifications), pending[t] \in Seq(Notifications),
         pending'[t] = <<>>,
         received'[t] = IF pc[t] = "gone" THEN received[t] ELSE received[t] \o pending[t],
         \A x \in DOMAIN addressed : OnWay(x, t)' <=> OnWay(x, t),
         pc[t] = "gone" => pc'[t] = "gone"
  PROVE  SentRight(t)'
<1>1. CASE pc[t] # "gone"
  <2>1. received[t] \o pending[t] \in Seq(Notifications)
    OBVIOUS
  <2>2. (received[t] \o pending[t]) \o <<>> = received[t] \o pending[t]
    BY <2>1, ConcatEmpty
  <2>3. History(t)' = History(t)
    BY <1>1, <2>2 DEF History
  <2> QED
    BY <2>3, SentStays
<1>2. CASE pc[t] = "gone"
  <2>1. PICK r, p : r = received[t] /\ p = pending[t]
    OBVIOUS
  <2>2. History(t)' = r /\ History(t) = r \o p
    BY <1>2, <2>1, ConcatEmpty DEF History
  <2>3. \A k \in DOMAIN r : k \in DOMAIN (r \o p) /\ (r \o p)[k] = r[k]
    <3>1. r \in Seq(Notifications) /\ p \in Seq(Notifications)
      BY <2>1
    <3> QED
      BY <3>1, ConcatMembers
  <2>4. SentTo(r \o p, t)
    BY <2>2 DEF SentRight
  <2>5. SentTo(r, t)'
    BY <2>3, <2>4 DEF SentTo
  <2> QED
    BY <1>2, <2>2, <2>5 DEF SentRight
<1> QED
  BY <1>1, <1>2

\* deliverLocked has written what waited.
LEMMA NotesWritten ==
  ASSUME NotesInv, NotifyTypeOK', WriterInv, NEW s \in Session, NEW t \in Session,
         Written(s, t), pc[s] = "write",
         \/ t = s /\ FinishGoIdle(s)
         \/ t # s /\ FinishEnqueue(s, t)
  PROVE  NotesInv'
<1>0. NotifyTypeOK
  BY DEF NotesInv
<1>1. /\ nmu[t] = s /\ nmu'[t] = NoSession /\ addressed' = addressed
      /\ \A u \in Session \ {t} : /\ nmu'[u] = nmu[u] /\ pending'[u] = pending[u]
                                  /\ received'[u] = received[u]
      /\ pending'[t] = <<>>
      /\ received'[t] = IF pc[t] = "gone" THEN received[t] ELSE received[t] \o pending[t]
  BY <1>0 DEF Written, FinishGoIdle, FinishEnqueue, NotifyTypeOK
<1>2. \A u \in Session \ {s} : note'[u] = note[u] /\ targets'[u] = targets[u] /\ pc'[u] = pc[u]
  BY <1>0 DEF FinishGoIdle, FinishEnqueue, DoneWith, NotifyTypeOK
<1>3. \/ /\ t = s /\ note[s] = 0 /\ note'[s] = 0 /\ pc'[s] = "read"
      \/ /\ t # s /\ note[s] # 0 /\ targets'[s] = targets[s] \ {t}
         /\ note'[s] = (IF targets[s] = {t} THEN 0 ELSE note[s])
         /\ pc'[s] = (IF targets[s] = {t} THEN "busy" ELSE "publish")
  <2>1. CASE t = s
    BY <1>0, <1>1, <2>1 DEF FinishGoIdle, NotesInv, PublishesLast, NotifyTypeOK
  <2>2. CASE t # s
    <3>1. nmu[s] # s
      BY <1>1, <2>2, ConnectionsAssumption DEF WriterInv, HoldersWrite
    <3>2. note[s] # 0
      BY <3>1 DEF NotesInv, PublishesLast
    <3> QED
      BY <1>0, <2>2, <3>2 DEF FinishEnqueue, DoneWith, NotifyTypeOK
  <2> QED
    BY <2>1, <2>2
<1>4. ASSUME NEW u \in Session PROVE PublishesLast(u)'
  <2>1. PublishesLast(u)
    BY DEF NotesInv
  <2>2. CASE u = s
    <3>1. note'[s] # 0 => note'[s] = note[s] /\ targets'[s] \subseteq targets[s]
      BY <1>3
    <3>2. /\ pc'[s] = "publish" => note'[s] # 0
          /\ pc'[s] \in {"none", "read", "busy", "gone"} => note'[s] = 0
          /\ pc'[s] # "write"
      BY <1>3
    <3> QED
      BY <1>1, <2>1, <2>2, <3>1, <3>2 DEF PublishesLast
  <2>3. CASE u # s
    <3>1. note'[u] = note[u] /\ targets'[u] = targets[u] /\ pc'[u] = pc[u] /\ addressed' = addressed
      BY <1>1, <1>2, <2>3
    <3>2. nmu'[u] = u <=> nmu[u] = u
      <4>1. NoSession # u
        BY ConnectionsAssumption
      <4> QED
        BY <1>1, <2>3, <4>1
    <3> QED
      BY <2>1, <3>1, <3>2 DEF PublishesLast
  <2> QED
    BY <2>2, <2>3
<1>5. ASSUME NEW u \in Session PROVE SentRight(u)'
  <2>1. \A y \in DOMAIN addressed : OnWay(y, u)' <=> OnWay(y, u)
    <3> SUFFICES ASSUME NEW y \in DOMAIN addressed PROVE OnWay(y, u)' <=> OnWay(y, u)
      OBVIOUS
    <3>1. y # 0 /\ addressed[y].pid \in Session /\ addressed' = addressed
      BY <1>0, <1>1, AddressedTyped
    <3>2. CASE addressed[y].pid = s
      <4>1. CASE t = s
        BY <1>3, <3>1, <3>2, <4>1 DEF OnWay
      <4>2. CASE t # s
        <5>1. CASE u = t
          BY <1>1, <1>3, <3>1, <3>2, <4>2, <5>1 DEF OnWay
        <5>2. CASE u # t
          <6>1. nmu'[u] = nmu[u]
            BY <1>1, <5>2
          <6>2. u \in targets'[s] /\ note'[s] = y <=> u \in targets[s] /\ note[s] = y
            BY <1>3, <3>1, <4>2, <5>2
          <6> QED
            BY <3>1, <3>2, <6>1, <6>2 DEF OnWay
        <5> QED
          BY <5>1, <5>2
      <4> QED
        BY <4>1, <4>2
    <3>3. CASE addressed[y].pid # s
      <4>1. nmu'[u] # addressed[y].pid <=> nmu[u] # addressed[y].pid
        BY <1>1, <3>1, <3>3, ConnectionsAssumption
      <4> QED
        BY <1>2, <3>1, <3>3, <4>1 DEF OnWay
    <3> QED
      BY <3>2, <3>3
  <2>2. pc[u] = "gone" => pc'[u] = "gone"
    BY <1>2
  <2>3. SentRight(u)
    BY DEF NotesInv
  <2>4. CASE u = t
    <3>1. received[t] \in Seq(Notifications) /\ pending[t] \in Seq(Notifications)
      BY <1>0 DEF NotifyTypeOK
    <3> QED
      BY <1>1, <2>1, <2>2, <2>3, <2>4, <3>1, SentCut
  <2>5. CASE u # t
    <3>1. History(u)' = History(u)
      BY <1>1, <2>5 DEF History
    <3> QED
      BY <1>1, <2>1, <2>2, <2>3, <3>1, SentStays
  <2> QED
    BY <2>4, <2>5
<1> QED
  BY <1>4, <1>5 DEF NotesInv

\* A step of Notify keeps the notifications right.
LEMMA NotifyKeepsNotes ==
  ASSUME WriterInv, NotesInv, NotifyStep
  PROVE  NotesInv'
<1>0. NotifyTypeOK' /\ NotifyTypeOK
  BY NotesTyped DEF NotesInv
<1>1. CASE UNCHANGED notifyVars
  <2>1. \A t \in Session : SentRight(t)'
    <3> SUFFICES ASSUME NEW t \in Session PROVE SentRight(t)'
      OBVIOUS
    <3>1. SentRight(t) /\ History(t)' = History(t) /\ addressed' = addressed /\ pc' = pc
          /\ \A x \in DOMAIN addressed : OnWay(x, t)' <=> OnWay(x, t)
      BY <1>1 DEF NotesInv, notifyVars, History, OnWay
    <3> QED
      BY <3>1, SentStays
  <2>2. \A s \in Session : PublishesLast(s)'
    BY <1>1 DEF NotesInv, notifyVars, PublishesLast
  <2> QED
    BY <1>0, <2>1, <2>2 DEF NotesInv
<1>2. ASSUME NEW s \in Session,
             \/ StartSession(s) \/ GoBusy(s) \/ ReadOn(s) \/ GoIdle(s) \/ UnlistenAll(s) \/ EndSession(s)
             \/ \E ch \in Channel : Listen(s, ch) \/ Unlisten(s, ch)
      PROVE  NotesInv'
  <2>1. UNCHANGED <<pending, targets, note, received, addressed>>
    BY <1>2 DEF StartSession, GoBusy, ReadOn, GoIdle, UnlistenAll, EndSession, Listen, Unlisten
  <2>2. pc[s] \in {"none", "read", "busy"}
    BY <1>2 DEF StartSession, GoBusy, ReadOn, GoIdle, UnlistenAll, EndSession, Listen, Unlisten
  <2>3. PICK p : /\ pc' = [pc EXCEPT ![s] = p]
                 /\ \/ nmu' = nmu /\ p \in {"read", "busy", "gone"}
                    \/ nmu[s] = NoSession /\ nmu' = [nmu EXCEPT ![s] = s] /\ p = "write"
    <3>1. CASE StartSession(s) \/ GoBusy(s) \/ ReadOn(s) \/ EndSession(s)
      BY <3>1 DEF StartSession, GoBusy, ReadOn, EndSession
    <3>2. CASE GoIdle(s)
      BY <3>2 DEF GoIdle
    <3>3. CASE UnlistenAll(s) \/ \E ch \in Channel : Listen(s, ch) \/ Unlisten(s, ch)
      <4>1. pc[s] = "busy" /\ pc' = pc /\ nmu' = nmu
        BY <3>3 DEF UnlistenAll, Listen, Unlisten
      <4>2. pc' = [pc EXCEPT ![s] = "busy"]
        BY <1>0, <4>1 DEF NotifyTypeOK
      <4> QED
        BY <4>1, <4>2
    <3> QED
      BY <1>2, <3>1, <3>2, <3>3
  <2> QED
    BY <1>0, <2>1, <2>2, <2>3, NotesQuiet
<1>3. ASSUME NEW s \in Session, NEW ch \in Channel, Publish(s, ch) PROVE NotesInv'
  BY <1>0, <1>3, NotesPublish
<1>4. ASSUME NEW s \in Session, NEW t \in Session, EnqueueBusy(s, t) \/ EnqueueIdle(s, t)
      PROVE  NotesInv'
  BY <1>0, <1>4, NotesEnqueue
<1>5. ASSUME NEW s \in Session, FinishGoIdle(s) PROVE NotesInv'
  <2>1. Written(s, s) /\ pc[s] = "write"
    BY <1>5 DEF FinishGoIdle
  <2> QED
    BY <1>0, <1>5, <2>1, NotesWritten
<1>6. ASSUME NEW s \in Session, NEW t \in Session, FinishEnqueue(s, t) PROVE NotesInv'
  <2>1. Written(s, t) /\ pc[s] = "write" /\ t # s
    BY <1>6 DEF FinishEnqueue
  <2> QED
    BY <1>0, <1>6, <2>1, NotesWritten
<1> QED
  BY <1>1, <1>2, <1>3, <1>4, <1>5, <1>6 DEF NotifyStep

\* Nobody a notification was addressed to misses it or gets it twice, and nobody
\* else gets it; a sender's notifications arrive in their order.
LEMMA NotesKept == Spec => [](ExactlyOnce /\ SenderOrder)
<1>1. Init => WriterInv /\ NotesInv
  BY WriterInit, NotesInit
<1>2. (WriterInv /\ NotesInv) /\ [Next]_vars => (WriterInv /\ NotesInv)'
  BY WriterStep, StepNotifies, NotifyKeepsNotes
<1>3. NotesInv => ExactlyOnce /\ SenderOrder
  BY NotesAreRight
<1> QED
  BY <1>1, <1>2, <1>3, PTL DEF Spec

\* publishNotify's promise: every session a notification was addressed to gets
\* it once unless it has left, and no other session gets it (notify.go:60-112).
THEOREM NotifiedExactlyOnce == Spec => []ExactlyOnce
BY NotesKept, PTL

\* A sender's notifications reach each listener in the order they were sent.
THEOREM NotifiedInOrder == Spec => []SenderOrder
BY NotesKept, PTL

-----------------------------------------------------------------------------
(* Cancel requests.                                                        *)

\* What a step may do to Cancel's variables.
CancelStep ==
  \/ UNCHANGED cancelVars
  \/ \E s \in Session :
       \/ registerBackend(s) \/ unregisterBackend(s) \/ Exec(s)
       \/ \E i \in BOOLEAN : Ended(s, i)
       \/ \E key \in Session \cup {NoSession} : Request(s, key)
       \/ Lookup(s) \/ ReadFn(s) \/ CallFn(s)

\* A step of the server is one of Cancel's, or leaves its variables alone.
LEMMA StepCancels ==
  ASSUME [Next]_vars
  PROVE  CancelStep
BY DEF Next, vars, CancelStep, Accept, StartupFails, CancelRequest, Serving, CancelServed, EngineSession,
       SessionTimesOut, SessionTooLate, SessionGranted, AuthFails, Authenticated, Loop, Deliver, Command,
       Execute, Leave, Executed, DbClose, Release

RequestSteps == {"none", "lookup", "read", "call", "done"}

Requests == [step : RequestSteps, key : Session \cup {NoSession}, asked : Nat, found : Nat,
             fn : (Session \cup {NoSession}) \X Nat]

CancelTyped ==
  /\ backends \subseteq Session
  /\ armed \in [Session -> Nat]
  /\ stmt \in [Session -> Nat]
  /\ req \in [Session -> Requests]

\* A request has found a statement only once it has read its function, and
\* what it is about to call is that function.
FoundWhenRead ==
  \A x \in Session :
    /\ req[x].step \in {"none", "lookup", "read"} => req[x].found = 0
    /\ req[x].step = "read" => req[x].key \in Session
    /\ req[x].step = "call" => req[x].found # 0 /\ req[x].fn = <<req[x].key, req[x].found>>

\* Some request with the key of the context's session found its statement.
FoundBy(c) == \E x \in Session : req[x].found # 0 /\ c = <<req[x].key, req[x].found>>

CancelledAsAsked == \A c \in cancelled \cup reported : FoundBy(c)

CancelInv == CancelTyped /\ FoundWhenRead /\ CancelledAsAsked

\* Nothing has been asked at first.
LEMMA CancelInit0 ==
  ASSUME Init
  PROVE  CancelInv
BY DEF Init, CancelInit, CancelInv, CancelTyped, FoundWhenRead, CancelledAsAsked, NoRequest, NoContext,
       RequestSteps, Requests

\* What a request has found stays: it changes nothing of it afterwards.
LEMMA FoundStays ==
  ASSUME CancelInv, NEW x \in Session,
         req' = [req EXCEPT ![x] = req'[x]],
         req[x].found # 0 => req'[x].found = req[x].found /\ req'[x].key = req[x].key,
         NEW c, FoundBy(c)
  PROVE  FoundBy(c)'
<1>1. PICK y \in Session : req[y].found # 0 /\ c = <<req[y].key, req[y].found>>
  BY DEF FoundBy
<1>2. req'[y].found = req[y].found /\ req'[y].key = req[y].key
  BY <1>1 DEF CancelInv, CancelTyped
<1> QED BY <1>1, <1>2 DEF FoundBy

\* A step of the request x alone, which cancels at most what it has found.
LEMMA RequestGoesOn ==
  ASSUME CancelInv, NEW x \in Session,
         UNCHANGED <<backends, armed, stmt, reported>>,
         req' = [req EXCEPT ![x] = req'[x]],
         req'[x] \in Requests,
         req[x].found # 0 => req'[x].found = req[x].found /\ req'[x].key = req[x].key,
         req'[x].step \in {"none", "lookup", "read"} => req'[x].found = 0,
         req'[x].step = "read" => req'[x].key \in Session,
         req'[x].step = "call" => req'[x].found # 0 /\ req'[x].fn = <<req'[x].key, req'[x].found>>,
         \A c \in cancelled' : c \in cancelled \/ FoundBy(c)
  PROVE  CancelInv'
<1>1. CancelTyped'
  BY DEF CancelInv, CancelTyped
<1>2. FoundWhenRead'
  <2> SUFFICES ASSUME NEW y \in Session
               PROVE  /\ req'[y].step \in {"none", "lookup", "read"} => req'[y].found = 0
                      /\ req'[y].step = "read" => req'[y].key \in Session
                      /\ req'[y].step = "call" => req'[y].found # 0 /\ req'[y].fn = <<req'[y].key, req'[y].found>>
    BY DEF FoundWhenRead
  <2>1. y # x => req'[y] = req[y]
    BY DEF CancelInv, CancelTyped
  <2> QED BY <2>1 DEF CancelInv, FoundWhenRead
<1>3. \A c \in cancelled \cup reported : FoundBy(c)
  BY DEF CancelInv, CancelledAsAsked
<1>4. \A c \in cancelled' \cup reported' : FoundBy(c)'
  BY <1>3, FoundStays
<1>5. CancelledAsAsked'
  BY <1>4 DEF CancelledAsAsked
<1> QED BY <1>1, <1>2, <1>5 DEF CancelInv

\* A step of the session that executes: what was found stays.
LEMMA SessionGoesOn ==
  ASSUME CancelInv, req' = req, cancelled' = cancelled, CancelTyped',
         \A c \in reported' : c \in reported \cup cancelled
  PROVE  CancelInv'
BY DEF CancelInv, FoundWhenRead, CancelledAsAsked, FoundBy

\* A step of Cancel keeps what was cancelled accounted for.
LEMMA CancelKeepsFound ==
  ASSUME CancelInv, CancelStep
  PROVE  CancelInv'
<1>1. CASE UNCHANGED cancelVars
  BY <1>1 DEF cancelVars, CancelInv, CancelTyped, FoundWhenRead, CancelledAsAsked, FoundBy
<1>2. ASSUME NEW s \in Session, registerBackend(s) \/ unregisterBackend(s)
      PROVE  CancelInv'
  <2>1. CancelTyped'
    BY <1>2 DEF registerBackend, unregisterBackend, CancelInv, CancelTyped
  <2> QED BY <1>2, <2>1, SessionGoesOn DEF registerBackend, unregisterBackend
<1>3. ASSUME NEW s \in Session, Exec(s)
      PROVE  CancelInv'
  <2>1. CancelTyped'
    BY <1>3 DEF Exec, CancelInv, CancelTyped
  <2> QED BY <1>3, <2>1, SessionGoesOn DEF Exec
<1>4. ASSUME NEW s \in Session, NEW i \in BOOLEAN, Ended(s, i)
      PROVE  CancelInv'
  <2>1. CancelTyped'
    BY <1>4 DEF Ended, CancelInv, CancelTyped
  <2>2. \A c \in reported' : c \in reported \cup cancelled
    BY <1>4 DEF Ended, Context
  <2> QED BY <1>4, <2>1, <2>2, SessionGoesOn DEF Ended
<1>5. ASSUME NEW x \in Session, NEW key \in Session \cup {NoSession}, Request(x, key)
      PROVE  CancelInv'
  <2>1. PICK n \in Nat : req' = [req EXCEPT ![x] = [NoRequest EXCEPT !.step = "lookup", !.key = key,
                                                                !.asked = n]]
    BY <1>5 DEF Request, CancelInv, CancelTyped
  <2>2. req'[x] = [step |-> "lookup", key |-> key, asked |-> n, found |-> 0, fn |-> NoContext]
    BY <2>1 DEF NoRequest, CancelInv, CancelTyped
  <2>3. req' = [req EXCEPT ![x] = req'[x]]
    BY <2>1, <2>2 DEF NoRequest
  <2>4. req[x].found = 0
    BY <1>5 DEF Request, CancelInv, FoundWhenRead
  <2>5. req'[x] \in Requests
    BY <2>2 DEF Requests, RequestSteps, NoContext
  <2>6. UNCHANGED <<backends, armed, stmt, reported>> /\ cancelled' = cancelled
    BY <1>5 DEF Request
  <2>7. req'[x].step = "lookup" /\ req'[x].found = 0
    BY <2>2
  <2> QED BY <2>3, <2>4, <2>5, <2>6, <2>7, RequestGoesOn
<1>6. ASSUME NEW x \in Session, Lookup(x)
      PROVE  CancelInv'
  <2>1. req[x] \in Requests /\ req[x].found = 0
    BY <1>6 DEF Lookup, CancelInv, CancelTyped, FoundWhenRead
  <2>2. PICK p \in {"read", "done"} : /\ req' = [req EXCEPT ![x].step = p]
                                      /\ p = "read" => req[x].key \in Session
    BY <1>6 DEF Lookup, CancelInv, CancelTyped
  <2>3. req'[x] = [req[x] EXCEPT !.step = p]
    BY <2>2 DEF CancelInv, CancelTyped
  <2>4. req' = [req EXCEPT ![x] = req'[x]]
    BY <2>2, <2>3
  <2>5. req'[x] \in Requests /\ req'[x].step = p /\ req'[x].found = 0 /\ req'[x].key = req[x].key
    BY <2>1, <2>3 DEF Requests, RequestSteps
  <2> QED BY <1>6, <2>1, <2>2, <2>4, <2>5, RequestGoesOn DEF Lookup
<1>7. ASSUME NEW x \in Session, ReadFn(x)
      PROVE  CancelInv'
  <2>1. req[x] \in Requests /\ req[x].found = 0
    BY <1>7 DEF ReadFn, CancelInv, CancelTyped, FoundWhenRead
  <2>2. req[x].key \in Session /\ armed[req[x].key] \in Nat
    BY <1>7 DEF ReadFn, CancelInv, CancelTyped, FoundWhenRead
  <2>3. CASE armed[req[x].key] = 0
    <3>1. req'[x] = [req[x] EXCEPT !.step = "done"] /\ req' = [req EXCEPT ![x] = req'[x]]
      BY <1>7, <2>3 DEF ReadFn, CancelInv, CancelTyped
    <3>2. req'[x] \in Requests /\ req'[x].step = "done" /\ req'[x].found = 0
      BY <2>1, <3>1 DEF Requests, RequestSteps
    <3> QED BY <1>7, <2>1, <3>1, <3>2, RequestGoesOn DEF ReadFn
  <2>4. CASE armed[req[x].key] # 0
    <3>1. /\ req'[x] = [req[x] EXCEPT !.step = "call", !.fn = <<req[x].key, armed[req[x].key]>>,
                                      !.found = armed[req[x].key]]
          /\ req' = [req EXCEPT ![x] = req'[x]]
      BY <1>7, <2>4 DEF ReadFn, Context, CancelInv, CancelTyped
    <3>2. /\ req'[x].step = "call" /\ req'[x].key = req[x].key
          /\ req'[x].found = armed[req[x].key] /\ req'[x].fn = <<req[x].key, armed[req[x].key]>>
          /\ req'[x].asked = req[x].asked
      BY <2>1, <3>1 DEF Requests
    <3>3. req'[x] \in Requests
      <4>1. req'[x] = [step |-> "call", key |-> req[x].key, asked |-> req[x].asked,
                       found |-> armed[req[x].key], fn |-> <<req[x].key, armed[req[x].key]>>]
        BY <2>1, <3>1 DEF Requests
      <4> QED BY <2>1, <2>2, <4>1 DEF Requests, RequestSteps
    <3> QED BY <1>7, <2>1, <2>2, <2>4, <3>1, <3>2, <3>3, RequestGoesOn DEF ReadFn
  <2> QED BY <2>3, <2>4
<1>8. ASSUME NEW x \in Session, CallFn(x)
      PROVE  CancelInv'
  <2>1. req[x] \in Requests
    BY DEF CancelInv, CancelTyped
  <2>2. req'[x] = [req[x] EXCEPT !.step = "done"] /\ req' = [req EXCEPT ![x] = req'[x]]
    BY <1>8 DEF CallFn, CancelInv, CancelTyped
  <2>3. FoundBy(req[x].fn)
    BY <1>8 DEF CallFn, CancelInv, FoundWhenRead, FoundBy
  <2>4. \A c \in cancelled' : c \in cancelled \/ FoundBy(c)
    BY <1>8, <2>3 DEF CallFn
  <2>5. /\ req'[x] \in Requests /\ req'[x].step = "done"
        /\ req'[x].found = req[x].found /\ req'[x].key = req[x].key
    BY <2>1, <2>2 DEF Requests, RequestSteps
  <2> QED BY <1>8, <2>2, <2>4, <2>5, RequestGoesOn DEF CallFn
<1> QED BY <1>1, <1>2, <1>3, <1>4, <1>5, <1>6, <1>7, <1>8 DEF CancelStep

\* Every step keeps it.
LEMMA CancelInvStep ==
  ASSUME CancelInv, [Next]_vars
  PROVE  CancelInv'
BY StepCancels, CancelKeepsFound

\* What is reported was found.
LEMMA ReportedAsAsked ==
  ASSUME CancelInv
  PROVE  OnlyTheStatementAsked
<1> SUFFICES ASSUME NEW c \in reported
             PROVE  \E x \in Session : req[x].key = c[1] /\ req[x].found = c[2]
  BY DEF OnlyTheStatementAsked
<1>1. PICK x \in Session : c = <<req[x].key, req[x].found>>
  BY DEF CancelInv, CancelledAsAsked, FoundBy
<1> QED BY <1>1

\* A statement is reported as cancelled only if a CancelRequest carrying its
\* session's key found that very statement executing: a request that comes
\* late never reaches the next statement (cancel.go:65-74).
THEOREM CancelsAreExact == Spec => []OnlyTheStatementAsked
BY CancelInit0, CancelInvStep, ReportedAsAsked, PTL DEF Spec

-----------------------------------------------------------------------------
(* What a connection holds.                                                *)

Holding == {"granted", "auth", "open", "ended"}
Counted == Holding \cup {"waiting", "freed"}
Before  == {"new", "startup", "canceling", "waiting", "granted", "auth"}

\* What is held follows from the phase.
HeldByPhase ==
  /\ phase \in [Session -> Phases]
  /\ slots = {c \in Session : phase[c] \in Holding}
  /\ refs = {c \in Session : phase[c] \in Counted}

\* The key is registered as long as the session is, and no longer than db.Close.
KeysByPhase ==
  /\ backends \subseteq {c \in Session : phase[c] \in {"open", "ended"}}
  /\ \A c \in Session : phase[c] = "open" => c \in backends

\* There is a goroutine in the loop only while the connection is open.
LoopsByPhase ==
  \A c \in Session :
    /\ phase[c] \in Before => pc[c] = "none"
    /\ phase[c] \in {"ended", "freed", "closed"} => pc[c] \in {"none", "gone"}

PhaseInv == HeldByPhase /\ KeysByPhase /\ LoopsByPhase

\* The pool's limit, and who waits at it.
PoolInv ==
  /\ IsFiniteSet(slots)
  /\ Cardinality(slots) + 1 <= MaxConnections
  /\ (\E c \in Session : phase[c] = "waiting") => ~Free
  /\ \A c \in Session : phase[c] = "waiting" => c \in waited
  /\ worn \subseteq waited

HoldInv == PhaseInv /\ PoolInv

\* At first nobody has anything.
LEMMA HoldInit ==
  ASSUME Init
  PROVE  HoldInv
<1>1. IsFiniteSet({}) /\ Cardinality({}) = 0
  BY FS_EmptySet
<1>2. phase = [c \in Session |-> "new"] /\ slots = {} /\ refs = {} /\ worn = {} /\ backends = {}
      /\ pc = [c \in Session |-> "none"]
  BY DEF Init, NotifyInit, CancelInit
<1>3. PhaseInv
  BY <1>2 DEF PhaseInv, HeldByPhase, KeysByPhase, LoopsByPhase, Phases, Holding, Counted, Before
<1>4. PoolInv
  BY <1>1, <1>2, ServerAssumption DEF PoolInv, ServerAssumption
<1> QED BY <1>3, <1>4 DEF HoldInv

\* A connection goes on to where it holds the same.
LEMMA HoldsTheSame ==
  ASSUME HoldInv, NEW c \in Session, NEW from, NEW to, Go(c, from, to),
         <<from, to>> \in {<<"new", "startup">>, <<"startup", "closed">>, <<"startup", "canceling">>,
                          <<"canceling", "closed">>, <<"waiting", "freed">>, <<"granted", "auth">>,
                          <<"auth", "ended">>},
         UNCHANGED <<pc, backends, refs, poolVars>>
  PROVE  HoldInv'
<1>1. phase' = [phase EXCEPT ![c] = to] /\ phase[c] = from
  BY DEF Go
<1>2. HeldByPhase'
  BY <1>1 DEF HoldInv, PhaseInv, HeldByPhase, Phases, Holding, Counted, poolVars
<1>3. KeysByPhase'
  BY <1>1 DEF HoldInv, PhaseInv, HeldByPhase, KeysByPhase
<1>4. LoopsByPhase'
  BY <1>1 DEF HoldInv, PhaseInv, HeldByPhase, LoopsByPhase, Before
<1>5. \A d \in Session : phase'[d] = "waiting" => phase[d] = "waiting"
  BY <1>1 DEF HoldInv, PhaseInv, HeldByPhase
<1>6. PoolInv'
  BY <1>5 DEF HoldInv, PoolInv, Free, poolVars
<1> QED BY <1>2, <1>3, <1>4, <1>6 DEF HoldInv, PhaseInv

\* An open session's step in its loop, or one that is no connection's phase.
LEMMA HoldsInLoop ==
  ASSUME HoldInv, UNCHANGED <<phase, backends, refs, poolVars>>,
         \A c \in Session : pc'[c] # pc[c] => phase[c] = "open"
  PROVE  HoldInv'
<1>1. PhaseInv'
  BY DEF HoldInv, PhaseInv, HeldByPhase, KeysByPhase, LoopsByPhase, Before, poolVars
<1>2. PoolInv'
  BY DEF HoldInv, PoolInv, Free, poolVars
<1> QED BY <1>1, <1>2 DEF HoldInv

\* A connection of the pool is taken, or waited for.
LEMMA HoldsWhenTaken ==
  ASSUME HoldInv, NEW c \in Session, EngineSession(c)
  PROVE  HoldInv'
<1>1. /\ phase[c] = "startup" /\ c \notin slots /\ refs' = refs \cup {c}
      /\ pc' = pc /\ backends' = backends /\ worn' = worn
  BY DEF EngineSession, Go, notifyVars, cancelVars, HoldInv, PhaseInv, HeldByPhase, Holding
<1>2. CASE Free
  <2>1. phase' = [phase EXCEPT ![c] = "auth"] /\ slots' = slots \cup {c} /\ waited' = waited
    BY <1>2 DEF EngineSession, Go
  <2>2. HeldByPhase'
    BY <1>1, <2>1 DEF HoldInv, PhaseInv, HeldByPhase, Phases, Holding, Counted
  <2>3. KeysByPhase' /\ LoopsByPhase'
    BY <1>1, <2>1 DEF HoldInv, PhaseInv, HeldByPhase, KeysByPhase, LoopsByPhase, Before
  <2>4. IsFiniteSet(slots') /\ Cardinality(slots') = Cardinality(slots) + 1
    BY <1>1, <2>1, FS_AddElement DEF HoldInv, PoolInv
  <2>5. Cardinality(slots) \in Nat
    BY FS_CardinalityType DEF HoldInv, PoolInv
  <2>6. \A d \in Session : phase'[d] # "waiting"
    BY <1>2, <2>1 DEF HoldInv, PhaseInv, HeldByPhase, PoolInv
  <2>7. PoolInv'
    BY <1>1, <1>2, <2>1, <2>4, <2>5, <2>6, ServerAssumption DEF HoldInv, PoolInv, Free, ServerAssumption
  <2> QED BY <2>2, <2>3, <2>7 DEF HoldInv, PhaseInv
<1>3. CASE ~Free
  <2>1. phase' = [phase EXCEPT ![c] = "waiting"] /\ slots' = slots /\ waited' = waited \cup {c}
    BY <1>3 DEF EngineSession, Go
  <2>2. HeldByPhase'
    BY <1>1, <2>1 DEF HoldInv, PhaseInv, HeldByPhase, Phases, Holding, Counted
  <2>3. KeysByPhase' /\ LoopsByPhase'
    BY <1>1, <2>1 DEF HoldInv, PhaseInv, HeldByPhase, KeysByPhase, LoopsByPhase, Before
  <2>4. ~Free'
    BY <1>3, <2>1 DEF Free
  <2>5. \A d \in Session : phase'[d] = "waiting" => d \in waited'
    BY <2>1 DEF HoldInv, PhaseInv, HeldByPhase, PoolInv
  <2>6. PoolInv'
    BY <1>1, <2>1, <2>4, <2>5 DEF HoldInv, PoolInv
  <2> QED BY <2>2, <2>3, <2>6 DEF HoldInv, PhaseInv
<1> QED BY <1>2, <1>3

\* A connection is put back: somebody who waits for one gets it, or it is closed.
LEMMA HoldsWhenPut ==
  ASSUME HoldInv, NEW c \in Session, NEW from \in {"granted", "ended"}, PutConn(c, from, "freed"),
         backends' = backends \ {c},
         UNCHANGED <<pc, refs, waited>>
  PROVE  HoldInv'
<1>1. phase[c] = from /\ c \in slots
  BY DEF PutConn, HoldInv, PhaseInv, HeldByPhase, Holding
<1>2. IsFiniteSet(slots \ {c}) /\ Cardinality(slots \ {c}) = Cardinality(slots) - 1 /\ Cardinality(slots) \in Nat
  BY <1>1, FS_RemoveElement, FS_CardinalityType DEF HoldInv, PoolInv
<1>3. CASE \A w \in Session : phase[w] # "waiting"
  <2>1. phase' = [phase EXCEPT ![c] = "freed"] /\ slots' = slots \ {c} /\ worn' = worn \ {c}
    BY <1>3 DEF PutConn
  <2>2. HeldByPhase'
    BY <1>1, <2>1 DEF HoldInv, PhaseInv, HeldByPhase, Phases, Holding, Counted
  <2>3. KeysByPhase'
    BY <1>1, <2>1 DEF HoldInv, PhaseInv, HeldByPhase, KeysByPhase
  <2>4. LoopsByPhase'
    BY <1>1, <2>1 DEF HoldInv, PhaseInv, HeldByPhase, LoopsByPhase, Before
  <2>5. \A d \in Session : phase'[d] # "waiting"
    BY <1>3, <2>1 DEF HoldInv, PhaseInv, HeldByPhase
  <2>6. PoolInv'
    BY <1>2, <2>1, <2>5, ServerAssumption DEF HoldInv, PoolInv, ServerAssumption
  <2> QED BY <2>2, <2>3, <2>4, <2>6 DEF HoldInv, PhaseInv
<1>4. CASE \E w \in Session : phase[w] = "waiting"
  <2>1. PICK w \in Session : /\ phase[w] = "waiting"
                             /\ phase' = [phase EXCEPT ![c] = "freed", ![w] = "granted"]
                             /\ slots' = (slots \ {c}) \cup {w}
                             /\ worn' = (worn \ {c}) \cup {w}
    BY <1>4 DEF PutConn
  <2>2. /\ w # c /\ w \notin slots \ {c} /\ phase \in [Session -> Phases] /\ phase' \in [Session -> Phases]
        /\ phase'[c] = "freed" /\ phase'[w] = "granted"
        /\ \A d \in Session : d \notin {c, w} => phase'[d] = phase[d]
    BY <1>1, <2>1 DEF HoldInv, PhaseInv, HeldByPhase, Phases, Holding
  <2>3. HeldByPhase'
    BY <1>1, <2>1, <2>2 DEF HoldInv, PhaseInv, HeldByPhase, Holding, Counted
  <2>4. KeysByPhase'
    BY <1>1, <2>1, <2>2 DEF HoldInv, PhaseInv, KeysByPhase
  <2>5. LoopsByPhase'
    BY <1>1, <2>1, <2>2 DEF HoldInv, PhaseInv, LoopsByPhase, Before
  <2>6. IsFiniteSet(slots') /\ Cardinality(slots') = Cardinality(slots)
    <3>1. IsFiniteSet((slots \ {c}) \cup {w}) /\ Cardinality((slots \ {c}) \cup {w}) = Cardinality(slots \ {c}) + 1
      BY <1>2, <2>2, FS_AddElement
    <3> QED BY <1>2, <2>1, <3>1
  <2>7. ~Free /\ ~Free'
    BY <2>1, <2>6 DEF HoldInv, PoolInv, Free
  <2>8. \A d \in Session : phase'[d] = "waiting" => d \in waited
    BY <2>1, <2>2 DEF HoldInv, PoolInv
  <2>9. worn' \subseteq waited
    BY <2>1 DEF HoldInv, PoolInv
  <2>10. PoolInv'
    BY <2>6, <2>7, <2>8, <2>9 DEF HoldInv, PoolInv
  <2> QED BY <2>3, <2>4, <2>5, <2>10 DEF HoldInv, PhaseInv
<1> QED BY <1>3, <1>4

\* The key is registered before the session starts.
LEMMA HoldsWhenOpened ==
  ASSUME HoldInv, WriterInv, NEW c \in Session, Authenticated(c)
  PROVE  HoldInv'
<1>1. /\ phase[c] = "auth" /\ phase' = [phase EXCEPT ![c] = "open"]
      /\ backends' = backends \cup {c} /\ pc' = [pc EXCEPT ![c] = "read"]
      /\ UNCHANGED <<refs, slots, worn, waited>>
  BY DEF Authenticated, Go, registerBackend, StartSession, poolVars
<1>2. HeldByPhase'
  BY <1>1 DEF HoldInv, PhaseInv, HeldByPhase, Phases, Holding, Counted
<1>3. KeysByPhase'
  BY <1>1 DEF HoldInv, PhaseInv, HeldByPhase, KeysByPhase
<1>4. LoopsByPhase'
  BY <1>1 DEF HoldInv, PhaseInv, HeldByPhase, LoopsByPhase, Before, WriterInv, WritersTyped
<1>5. PoolInv'
  BY <1>1 DEF HoldInv, PhaseInv, HeldByPhase, PoolInv, Free
<1> QED BY <1>2, <1>3, <1>4, <1>5 DEF HoldInv, PhaseInv

\* The session ends, and the connection of the pool is still its.
LEMMA HoldsWhenLeft ==
  ASSUME HoldInv, WriterInv, NEW c \in Session, Leave(c)
  PROVE  HoldInv'
<1>1. /\ phase[c] = "open" /\ phase' = [phase EXCEPT ![c] = "ended"]
      /\ backends' = backends /\ pc' = [pc EXCEPT ![c] = "gone"]
      /\ UNCHANGED <<refs, slots, worn, waited>>
  BY DEF Leave, Go, EndSession, cancelVars, poolVars
<1>2. HeldByPhase'
  BY <1>1 DEF HoldInv, PhaseInv, HeldByPhase, Phases, Holding, Counted
<1>3. KeysByPhase'
  BY <1>1 DEF HoldInv, PhaseInv, HeldByPhase, KeysByPhase
<1>4. LoopsByPhase'
  BY <1>1 DEF HoldInv, PhaseInv, HeldByPhase, LoopsByPhase, Before, WriterInv, WritersTyped
<1>5. PoolInv'
  BY <1>1 DEF HoldInv, PhaseInv, HeldByPhase, PoolInv, Free
<1> QED BY <1>2, <1>3, <1>4, <1>5 DEF HoldInv, PhaseInv

\* The reference is given back last.
LEMMA HoldsWhenReleased ==
  ASSUME HoldInv, NEW c \in Session, Release(c)
  PROVE  HoldInv'
<1>1. /\ phase[c] = "freed" /\ phase' = [phase EXCEPT ![c] = "closed"] /\ refs' = refs \ {c}
      /\ UNCHANGED <<pc, backends, slots, worn, waited>>
  BY DEF Release, Gone, Go, notifyVars, cancelVars, poolVars
<1>2. HeldByPhase'
  BY <1>1 DEF HoldInv, PhaseInv, HeldByPhase, Phases, Holding, Counted
<1>3. KeysByPhase' /\ LoopsByPhase'
  BY <1>1 DEF HoldInv, PhaseInv, HeldByPhase, KeysByPhase, LoopsByPhase, Before
<1>4. PoolInv'
  BY <1>1 DEF HoldInv, PhaseInv, HeldByPhase, PoolInv, Free
<1> QED BY <1>2, <1>3, <1>4 DEF HoldInv, PhaseInv

\* The loop moves its own session alone.
LEMMA LoopMovesItself ==
  ASSUME WriterInv, NEW c \in Session, Loop(c)
  PROVE  \A d \in Session : pc'[d] # pc[d] => phase[d] = "open"
<1>1. phase[c] = "open"
  BY DEF Loop, Running
<1>2. \A d \in Session : d # c => pc'[d] = pc[d]
  <2>1. CASE Deliver(c)
    BY <2>1 DEF Deliver, GoIdle, FinishGoIdle, EnqueueBusy, EnqueueIdle, FinishEnqueue, DoneWith,
                WriterInv, WritersTyped
  <2>2. CASE Command(c)
    BY <2>2 DEF Command, GoBusy, ReadOn, UnlistenAll, Listen, Unlisten, Publish, WriterInv, WritersTyped
  <2> QED BY <2>1, <2>2 DEF Loop
<1> QED BY <1>1, <1>2

\* Every step keeps what a connection holds in order.
LEMMA HoldStep ==
  ASSUME HoldInv, WriterInv, [Next]_vars
  PROVE  HoldInv'
<1>1. CASE UNCHANGED vars
  <2>1. UNCHANGED <<phase, backends, refs, poolVars, pc>>
    BY <1>1 DEF vars, notifyVars, cancelVars
  <2> QED BY <2>1, HoldsInLoop
<1>2. ASSUME NEW c \in Session,
             Accept(c) \/ StartupFails(c) \/ (\E key \in Session \cup {NoSession} : CancelRequest(c, key))
             \/ CancelServed(c) \/ SessionTimesOut(c) \/ SessionGranted(c) \/ AuthFails(c)
      PROVE  HoldInv'
  <2>1. UNCHANGED <<pc, backends, refs, poolVars>>
    BY <1>2 DEF Accept, StartupFails, CancelRequest, CancelServed, SessionTimesOut, SessionGranted, AuthFails,
                Request, notifyVars, cancelVars
  <2>2. PICK from \in Phases, to \in Phases :
          /\ Go(c, from, to)
          /\ <<from, to>> \in {<<"new", "startup">>, <<"startup", "closed">>, <<"startup", "canceling">>,
                                <<"canceling", "closed">>, <<"waiting", "freed">>, <<"granted", "auth">>,
                                <<"auth", "ended">>}
    BY <1>2 DEF Accept, StartupFails, CancelRequest, CancelServed, SessionTimesOut, SessionGranted, AuthFails,
                Gone, Phases
  <2> QED BY <2>1, <2>2, HoldsTheSame
<1>3. ASSUME NEW c \in Session,
             Serving(c) \/ Execute(c) \/ (\E i \in BOOLEAN : Executed(c, i))
      PROVE  HoldInv'
  <2>1. UNCHANGED <<phase, backends, refs, poolVars, pc>>
    BY <1>3 DEF Serving, Execute, Executed, Lookup, ReadFn, CallFn, Exec, Ended, notifyVars
  <2> QED BY <2>1, HoldsInLoop
<1>4. ASSUME NEW c \in Session, Loop(c)
      PROVE  HoldInv'
  <2>1. UNCHANGED <<phase, backends, refs, poolVars>>
    BY <1>4 DEF Loop, cancelVars
  <2> QED BY <1>4, <2>1, LoopMovesItself, HoldsInLoop
<1>5. ASSUME NEW c \in Session, SessionTooLate(c)
      PROVE  HoldInv'
  <2>1. PutConn(c, "granted", "freed") /\ backends' = backends /\ UNCHANGED <<pc, refs, waited>>
    BY <1>5 DEF SessionTooLate, notifyVars, cancelVars
  <2>2. phase[c] = "granted" /\ c \notin backends
    BY <2>1 DEF PutConn, HoldInv, PhaseInv, KeysByPhase
  <2>3. backends' = backends \ {c}
    BY <2>1, <2>2
  <2> QED BY <2>1, <2>3, HoldsWhenPut
<1>6. ASSUME NEW c \in Session, DbClose(c)
      PROVE  HoldInv'
  <2>1. PutConn(c, "ended", "freed") /\ backends' = backends \ {c} /\ UNCHANGED <<pc, refs, waited>>
    BY <1>6 DEF DbClose, unregisterBackend, notifyVars
  <2> QED BY <2>1, HoldsWhenPut
<1> QED
  BY <1>1, <1>2, <1>3, <1>4, <1>5, <1>6, HoldsWhenTaken, HoldsWhenOpened, HoldsWhenLeft, HoldsWhenReleased DEF Next

\* It says what HeldInOrder does, and more.
LEMMA HoldIsOrder ==
  ASSUME HoldInv, WriterInv
  PROVE  HeldInOrder /\ FreshUnlessWaited
<1>1. slots = {c \in Session : phase[c] \in {"granted", "auth", "open", "ended"}}
  BY DEF HoldInv, PhaseInv, HeldByPhase, Holding
<1>2. refs = slots \cup {c \in Session : phase[c] \in {"waiting", "freed"}}
  BY DEF HoldInv, PhaseInv, HeldByPhase, Counted
<1>3. backends \subseteq slots
  BY <1>1 DEF HoldInv, PhaseInv, KeysByPhase
<1>4. {c \in Session : pc[c] \notin {"none", "gone"}} \subseteq backends
  BY DEF HoldInv, PhaseInv, HeldByPhase, KeysByPhase, LoopsByPhase, Phases, Before
<1>5. FreshUnlessWaited
  BY DEF HoldInv, PoolInv, FreshUnlessWaited
<1> QED BY <1>1, <1>2, <1>3, <1>4, <1>5 DEF HoldInv, PoolInv, HeldInOrder

\* Both invariants, and so both properties, hold of every behaviour.
LEMMA OrderKept == Spec => [](HeldInOrder /\ FreshUnlessWaited)
<1>1. Init => WriterInv /\ HoldInv
  BY WriterInit, HoldInit
<1>2. (WriterInv /\ HoldInv) /\ [Next]_vars => (WriterInv /\ HoldInv)'
  BY WriterStep, HoldStep
<1>3. WriterInv /\ HoldInv => HeldInOrder /\ FreshUnlessWaited
  BY HoldIsOrder
<1> QED BY <1>1, <1>2, <1>3, PTL DEF Spec

\* postgres.go:94-138: whatever ends a connection, and wherever, it holds the
\* pool's connection exactly from the grant to db.Close, under a reference on
\* its engine, and its key is known only while it has both; the pool is never
\* over its limit, and nobody waits for it while it has room.
THEOREM HeldAlwaysInOrder == Spec => []HeldInOrder
BY OrderKept, PTL

\* sqlite.go:53-55: a session gets a connection that another one has used only
\* when it had to wait for one.
THEOREM FreshConnections == Spec => []FreshUnlessWaited
BY OrderKept, PTL
=============================================================================
