------------------------ MODULE AdvisoryLocksProofs ------------------------
(***************************************************************************)
(* What TLAPS proves of AdvisoryLocks, for any number of sessions and keys *)
(* and any bound.                                                          *)
(***************************************************************************)
EXTENDS AdvisoryLocks, SequenceTheorems, FiniteSetTheorems, TLAPS

RegistryType ==
  /\ excl \in [Keys -> Sessions \cup {NoSession}]
  /\ exclCount \in [Keys -> Nat]
  /\ shared \in [Keys -> [Sessions -> Nat]]

SessionType ==
  /\ chan \in [Sessions -> {"none", "open", "closed"}]
  /\ pc \in [Sessions -> Places]
  /\ req \in [Sessions -> Calls]
  /\ tx \in [Sessions -> {"none", "open", "failed"}]

TxHoldsType == txHolds \in [Sessions -> Seq(Holds)]

\* The inductive invariant: exclCount[k] - 1 stays in Nat only because a lock
\* with an exclusive holder has a positive count.
RegistryOK == RegistryType /\ MutualExclusion
Inv == RegistryOK /\ SessionType /\ TxHoldsType

\* The invariant is the type invariant and exclusion, regrouped.
LEMMA InvTyped == Inv <=> TypeOK /\ MutualExclusion
BY DEF Inv, RegistryOK, TypeOK, RegistryType, SessionType, TxHoldsType

-----------------------------------------------------------------------------
\* advisoryHold.take keeps the registry well formed when canTake allowed it.
LEMMA TakeRegistry ==
  ASSUME RegistryType, MutualExclusion,
         NEW s \in Sessions, NEW k \in Keys, NEW sh \in Modes,
         canTake(s, k, sh), take(s, k, sh)
  PROVE  RegistryType' /\ MutualExclusion'
<1>1. CASE sh
  <2>1. /\ shared' \in [Keys -> [Sessions -> Nat]]
        /\ \A j \in Keys, t \in Sessions :
             t # s => shared'[j][t] = shared[j][t]
        /\ \A j \in Keys \ {k} : shared'[j] = shared[j]
    BY <1>1 DEF RegistryType, take
  <2>2. UNCHANGED <<excl, exclCount>>
    BY <1>1 DEF take
  <2>3. excl[k] \in {NoSession, s}
    BY DEF canTake
  <2>4. MutualExclusion'
    BY <2>1, <2>2, <2>3, AdvisoryAssumption DEF MutualExclusion, RegistryType
  <2> QED BY <2>1, <2>2, <2>4 DEF RegistryType
<1>2. CASE ~sh
  <2>1. /\ excl' = [excl EXCEPT ![k] = s]
        /\ exclCount' = [exclCount EXCEPT ![k] = @ + 1]
        /\ shared' = shared
    BY <1>2 DEF take
  <2>2. excl[k] \in {NoSession, s} /\ \A t \in Sessions \ {s} : shared[k][t] = 0
    BY <1>2 DEF canTake
  <2>3. RegistryType'
    BY <2>1 DEF RegistryType
  <2>4. MutualExclusion'
    BY <2>1, <2>2, AdvisoryAssumption DEF MutualExclusion, RegistryType
  <2> QED BY <2>3, <2>4
<1> QED BY <1>1, <1>2 DEF Modes

\* unlockAdvisory gives back one hold, and the registry stays well formed.
LEMMA UnlockRegistry ==
  ASSUME RegistryType, MutualExclusion,
         NEW s \in Sessions, NEW k \in Keys, NEW sh \in Modes,
         unlockAdvisory(s, k, sh)
  PROVE  RegistryType' /\ MutualExclusion'
<1>1. CASE ~ HasHold(s, k, sh)
  BY <1>1 DEF unlockAdvisory, registry, RegistryType, MutualExclusion
<1>2. CASE HasHold(s, k, sh) /\ sh
  <2>1. /\ shared[k][s] > 0
        /\ shared' = [shared EXCEPT ![k][s] = @ - 1]
        /\ UNCHANGED <<excl, exclCount>>
    BY <1>2 DEF unlockAdvisory, HasHold
  <2>2. /\ shared' \in [Keys -> [Sessions -> Nat]]
        /\ \A j \in Keys, t \in Sessions :
             shared[j][t] = 0 => shared'[j][t] = 0
    BY <2>1 DEF RegistryType
  <2> QED BY <2>1, <2>2 DEF RegistryType, MutualExclusion
<1>3. CASE HasHold(s, k, sh) /\ ~sh
  <2>1. excl[k] = s /\ exclCount[k] \in Nat \ {0}
    BY <1>3, AdvisoryAssumption DEF HasHold, MutualExclusion, RegistryType
  <2> DEFINE owner == IF exclCount[k] = 1 THEN NoSession ELSE s
  <2>2. /\ exclCount' = [exclCount EXCEPT ![k] = @ - 1]
        /\ excl' = [excl EXCEPT ![k] = owner]
        /\ shared' = shared
    BY <1>3 DEF unlockAdvisory
  <2>3. owner \in Sessions \cup {NoSession}
    OBVIOUS
  <2>4. owner = NoSession <=> exclCount[k] - 1 = 0
    BY <2>1, AdvisoryAssumption
  <2>5. owner \in {NoSession, s}
    OBVIOUS
  <2> HIDE DEF owner
  <2>6. RegistryType'
    <3>1. exclCount[k] - 1 \in Nat
      BY <2>1
    <3>2. exclCount' \in [Keys -> Nat]
      BY <2>2, <3>1 DEF RegistryType
    <3>3. excl' \in [Keys -> Sessions \cup {NoSession}]
      BY <2>2, <2>3 DEF RegistryType
    <3> QED BY <2>2, <3>2, <3>3 DEF RegistryType
  <2>7. ASSUME NEW j \in Keys
        PROVE  /\ excl'[j] = NoSession <=> exclCount'[j] = 0
               /\ excl'[j] # NoSession =>
                    \A t \in Sessions \ {excl'[j]} : shared'[j][t] = 0
    <3>1. CASE j = k
      <4>1. excl'[j] = owner /\ exclCount'[j] = exclCount[k] - 1
        BY <2>2, <3>1 DEF RegistryType
      <4>2. \A t \in Sessions \ {s} : shared'[j][t] = 0
        BY <2>1, <2>2, <3>1, AdvisoryAssumption DEF MutualExclusion
      <4> QED BY <4>1, <4>2, <2>4, <2>5
    <3>2. CASE j # k
      BY <2>2, <3>2 DEF MutualExclusion, RegistryType
    <3> QED BY <3>1, <3>2
  <2> QED BY <2>6, <2>7 DEF MutualExclusion
<1> QED BY <1>1, <1>2, <1>3 DEF Modes

\* releaseAdvisoryLocks gives back all of a session's holds.
LEMMA ReleaseAllRegistry ==
  ASSUME RegistryType, MutualExclusion,
         NEW s \in Sessions, releaseAdvisoryLocks(s)
  PROVE  RegistryType' /\ MutualExclusion'
BY AdvisoryAssumption DEF RegistryType, releaseAdvisoryLocks, MutualExclusion

\* A session that calls nothing has a well-typed call.
LEMMA NoCallTyped == NoCall \in Calls
<1>1. PICK k \in Keys : TRUE
  BY AdvisoryAssumption
<1>2. [key |-> k, shared |-> TRUE, xact |-> TRUE] \in Calls
  BY DEF Calls, Modes
<1> QED BY <1>2 DEF NoCall

\* The fields of a call.
LEMMA CallFields ==
  ASSUME NEW c \in Calls
  PROVE  c.key \in Keys /\ c.shared \in Modes /\ c.xact \in BOOLEAN
BY DEF Calls

\* The next lock that releaseTxAdvisoryLocks returns is a well-typed one.
LEMMA HeadOfHolds ==
  ASSUME TxHoldsType, NEW s \in Sessions, txHolds[s] # <<>>
  PROVE  /\ Head(txHolds[s]).key \in Keys
         /\ Head(txHolds[s]).shared \in Modes
<1>1. txHolds[s] \in Seq(Holds)
  BY DEF TxHoldsType
<1>2. Head(txHolds[s]) \in Holds
  BY <1>1, HeadTailProperties
<1> QED BY <1>2 DEF Holds

\* A session walks a list of locks only while there is one left.
EndingHasHolds == \A s \in Sessions : pc[s] = "ending" => txHolds[s] # <<>>

-----------------------------------------------------------------------------
\* Every step keeps the registry well formed.
LEMMA RegistryStep ==
  ASSUME Inv, EndingHasHolds, NEW s \in Sessions, OwnStep(s) \/ ClientStep(s)
  PROVE  RegistryOK'
<1> USE DEF Inv
<1>1. CASE UNCHANGED registry
  BY <1>1 DEF registry, RegistryOK, RegistryType, MutualExclusion
<1>2. CASE Acquire(s)
  BY <1>2, CallFields, TakeRegistry DEF Acquire, SessionType, RegistryOK
<1>3. CASE \E call \in Calls : TryLock(s, call)
  BY <1>3, CallFields, TakeRegistry DEF TryLock, RegistryOK
<1>4. CASE \E k \in Keys, sh \in Modes : Unlock(s, k, sh)
  BY <1>4, UnlockRegistry DEF Unlock, RegistryOK
<1>5. CASE UnlockAll(s) \/ Close(s)
  BY <1>5, ReleaseAllRegistry DEF UnlockAll, Close, RegistryOK
<1>6. CASE holdForTx(s)
  <2>1. CASE tx[s] = "none"
    BY <1>6, <2>1, CallFields, UnlockRegistry
       DEF holdForTx, SessionType, RegistryOK
  <2>2. CASE tx[s] # "none"
    BY <1>6, <2>2, <1>1 DEF holdForTx
  <2> QED BY <2>1, <2>2
<1>7. CASE releaseTxAdvisoryLocks(s)
  BY <1>7, HeadOfHolds, UnlockRegistry
     DEF releaseTxAdvisoryLocks, RegistryOK, EndingHasHolds
<1>8. CASE \/ Capture(s) \/ Block(s) \/ Wake(s) \/ CloseRollback(s)
           \/ Connect(s) \/ Begin(s) \/ TxFails(s) \/ RollbackToSavepoint(s)
           \/ EndTx(s) \/ Cancel(s)
           \/ \E call \in Calls : Lock(s, call)
  BY <1>8, <1>1 DEF Capture, Block, Wake, CloseRollback, Connect, Begin,
       TxFails, RollbackToSavepoint, EndTx, Cancel, Lock, registry
<1> QED
  BY <1>2, <1>3, <1>4, <1>5, <1>6, <1>7, <1>8 DEF OwnStep, ClientStep

-----------------------------------------------------------------------------
ChanType == chan \in [Sessions -> {"none", "open", "closed"}]

\* An unlock only closes channels.
LEMMA UnlockChan ==
  ASSUME ChanType, NEW s, NEW k, NEW sh, unlockAdvisory(s, k, sh)
  PROVE  ChanType'
BY DEF ChanType, unlockAdvisory, wakeAdvisoryWaiters

\* Every step keeps the sessions well formed.
LEMMA SessionStep ==
  ASSUME Inv, NEW s \in Sessions, OwnStep(s) \/ ClientStep(s)
  PROVE  SessionType'
<1> USE DEF SessionType, Places, Goto
<1>0. SessionType /\ ChanType
  BY DEF Inv, ChanType
<1>1. CASE Capture(s) \/ Block(s) \/ Wake(s) \/ CloseRollback(s)
  BY <1>0, <1>1 DEF Capture, Block, Wake, CloseRollback
<1>2. CASE Acquire(s)
  BY <1>0, <1>2, NoCallTyped DEF Acquire
<1>3. CASE Connect(s) \/ Begin(s) \/ TxFails(s) \/ RollbackToSavepoint(s)
  BY <1>0, <1>3 DEF Connect, Begin, TxFails, RollbackToSavepoint
<1>4. CASE EndTx(s)
  BY <1>0, <1>4 DEF EndTx
<1>5. CASE Cancel(s)
  BY <1>0, <1>5, NoCallTyped DEF Cancel
<1>6. CASE \E call \in Calls : Lock(s, call)
  BY <1>0, <1>6 DEF Lock
<1>7. CASE \E call \in Calls : TryLock(s, call)
  BY <1>0, <1>7 DEF TryLock
<1>8. CASE \E k \in Keys, sh \in Modes : Unlock(s, k, sh)
  <2>1. ChanType'
    BY <1>0, <1>8, UnlockChan DEF Unlock
  <2> QED BY <1>0, <1>8, <2>1 DEF Unlock, ChanType
<1>9. CASE UnlockAll(s) \/ Close(s)
  BY <1>0, <1>9
     DEF UnlockAll, Close, releaseAdvisoryLocks, wakeAdvisoryWaiters
<1>10. CASE holdForTx(s)
  <2>1. ChanType'
    BY <1>0, <1>10, UnlockChan DEF holdForTx, ChanType
  <2> QED BY <1>0, <1>10, <2>1, NoCallTyped DEF holdForTx, ChanType
<1>11. CASE releaseTxAdvisoryLocks(s)
  <2>1. ChanType'
    BY <1>0, <1>11, UnlockChan DEF releaseTxAdvisoryLocks
  <2> QED BY <1>0, <1>11, <2>1 DEF releaseTxAdvisoryLocks, ChanType
<1> QED
  BY <1>1, <1>2, <1>3, <1>4, <1>5, <1>6, <1>7, <1>8, <1>9, <1>10, <1>11
     DEF OwnStep, ClientStep

\* Every step keeps the transactions' lists of locks well formed, and a list
\* that is being walked is not empty.
LEMMA TxHoldsStep ==
  ASSUME Inv, EndingHasHolds, NEW s \in Sessions, OwnStep(s) \/ ClientStep(s)
  PROVE  TxHoldsType' /\ EndingHasHolds'
<1>0. TxHoldsType /\ pc \in [Sessions -> Places] /\ req \in [Sessions -> Calls]
  BY DEF Inv, SessionType
<1>1. CASE UNCHANGED txHolds /\ \A t \in Sessions : pc'[t] = "ending" => pc[t] = "ending"
  BY <1>0, <1>1 DEF TxHoldsType, EndingHasHolds
<1>2. CASE EndTx(s)
  BY <1>0, <1>2 DEF EndTx, Goto, TxHoldsType, EndingHasHolds
<1>3. CASE UnlockAll(s) \/ Close(s)
  <2>1. /\ txHolds' = [txHolds EXCEPT ![s] = <<>>]
        /\ \A t \in Sessions : pc'[t] = "ending" => pc[t] = "ending" /\ t # s
    BY <1>0, <1>3 DEF UnlockAll, Close, releaseAdvisoryLocks, Goto, Ready
  <2> QED BY <1>0, <2>1, EmptySeq DEF TxHoldsType, EndingHasHolds
<1>4. CASE holdForTx(s)
  <2>1. \A t \in Sessions : pc'[t] = "ending" => pc[t] = "ending" /\ t # s
    BY <1>0, <1>4 DEF holdForTx, Goto
  <2>2. CASE tx[s] = "none"
    BY <1>1, <1>4, <2>1, <2>2 DEF holdForTx
  <2>3. CASE tx[s] # "none"
    <3> DEFINE h == [key |-> req[s].key, shared |-> req[s].shared]
    <3>1. h \in Holds
      BY <1>0, CallFields DEF Holds
    <3>2. txHolds' = [txHolds EXCEPT ![s] = Append(@, h)]
      BY <1>4, <2>3 DEF holdForTx
    <3>3. Append(txHolds[s], h) \in Seq(Holds)
      BY <1>0, <3>1, AppendProperties DEF TxHoldsType
    <3> HIDE DEF h
    <3> QED BY <1>0, <2>1, <3>2, <3>3 DEF TxHoldsType, EndingHasHolds
  <2> QED BY <2>2, <2>3
<1>5. CASE releaseTxAdvisoryLocks(s)
  <2>1. txHolds[s] \in Seq(Holds) /\ txHolds[s] # <<>>
    BY <1>0, <1>5 DEF TxHoldsType, EndingHasHolds, releaseTxAdvisoryLocks
  <2>2. /\ Tail(txHolds[s]) \in Seq(Holds)
        /\ Len(Tail(txHolds[s])) = Len(txHolds[s]) - 1
        /\ Len(txHolds[s]) \in Nat
    BY <2>1, HeadTailProperties, LenProperties
  <2>3. Len(txHolds[s]) # 1 => Tail(txHolds[s]) # <<>>
    <3>1. ASSUME Tail(txHolds[s]) = <<>> PROVE Len(txHolds[s]) = 1
      <4>1. Len(<<>>) = 0
        BY EmptySeq
      <4>2. Len(Tail(txHolds[s])) = Len(<<>>)
        BY <3>1, Zenon
      <4>3. Len(Tail(txHolds[s])) = 0
        BY <4>1, <4>2, Zenon
      <4> QED BY <2>2, <4>3
    <3> QED BY <3>1
  <2>4. /\ txHolds' = [txHolds EXCEPT ![s] = Tail(@)]
        /\ pc' = [pc EXCEPT ![s] = IF Len(txHolds[s]) = 1 THEN "idle" ELSE "ending"]
    BY <1>5 DEF releaseTxAdvisoryLocks, Goto
  <2> QED BY <1>0, <2>2, <2>3, <2>4 DEF TxHoldsType, EndingHasHolds
<1>6. CASE \/ Capture(s) \/ Acquire(s) \/ Block(s) \/ Wake(s) \/ CloseRollback(s)
           \/ Connect(s) \/ Begin(s) \/ TxFails(s) \/ RollbackToSavepoint(s)
           \/ Cancel(s)
  BY <1>0, <1>1, <1>6 DEF Capture, Acquire, Block, Wake, CloseRollback, Connect,
       Begin, TxFails, RollbackToSavepoint, Cancel, Goto
<1>7. CASE \/ \E call \in Calls : Lock(s, call) \/ TryLock(s, call)
           \/ \E k \in Keys, sh \in Modes : Unlock(s, k, sh)
  BY <1>0, <1>1, <1>7 DEF Lock, TryLock, Unlock, Goto
<1> QED
  BY <1>2, <1>3, <1>4, <1>5, <1>6, <1>7 DEF OwnStep, ClientStep

-----------------------------------------------------------------------------
\* advisory.go's registry keeps its shape, and a lock held exclusively belongs
\* to one session alone, whatever the sessions do and in whatever order.
IInv == Inv /\ EndingHasHolds

\* The registry, the sessions and their lists of locks stay well formed.
LEMMA InductiveInvariant == Spec => []IInv
<1>1. Init => IInv
  BY NoCallTyped, EmptySeq, AdvisoryAssumption
     DEF Init, IInv, Inv, RegistryOK, RegistryType, SessionType, TxHoldsType,
         MutualExclusion, EndingHasHolds, Places
<1>2. IInv /\ [Next]_vars => IInv'
  <2> SUFFICES ASSUME IInv, [Next]_vars PROVE IInv'
    OBVIOUS
  <2>1. CASE Next
    <3>1. PICK s \in Sessions : OwnStep(s) \/ ClientStep(s)
      BY <2>1 DEF Next
    <3> QED BY <3>1, RegistryStep, SessionStep, TxHoldsStep DEF IInv, Inv
  <2>2. CASE UNCHANGED vars
    <3>1. RegistryOK'
      BY <2>2 DEF vars, IInv, Inv, RegistryOK, RegistryType, MutualExclusion
    <3>2. SessionType' /\ TxHoldsType' /\ EndingHasHolds'
      BY <2>2 DEF vars, IInv, Inv, SessionType, TxHoldsType, EndingHasHolds
    <3> QED BY <3>1, <3>2 DEF IInv, Inv
  <2> QED BY <2>1, <2>2
<1> QED BY <1>1, <1>2, PTL DEF Spec

\* The variables stay in the ranges the Go types give them; in particular
\* unlockAdvisory never counts below zero.
THEOREM TypeCorrect == Spec => []TypeOK
<1>1. IInv => TypeOK
  BY InvTyped DEF IInv
<1> QED BY <1>1, InductiveInvariant, PTL

\* canTake and the counting of take and unlockAdvisory keep an exclusive lock
\* to one session.
THEOREM ExclusionHolds == Spec => []MutualExclusion
<1>1. IInv => MutualExclusion
  BY InvTyped DEF IInv
<1> QED BY <1>1, InductiveInvariant, PTL

-----------------------------------------------------------------------------
(* What a step may do to the registry, and to the sessions that do not take it. *)

Taken(s)    == \E k \in Keys, sh \in Modes : canTake(s, k, sh) /\ take(s, k, sh)
Unlocked(s) == \E k \in Keys, sh \in Modes : unlockAdvisory(s, k, sh)

\* A step of s takes a lock without touching any channel but its own, or lets
\* go of locks through unlockAdvisory or releaseAdvisoryLocks, or leaves the
\* registry alone.
LEMMA RegistryFrame ==
  ASSUME Inv, EndingHasHolds, NEW s \in Sessions, OwnStep(s) \/ ClientStep(s)
  PROVE  \/ Taken(s) /\ \A t \in Sessions \ {s} : chan'[t] = chan[t]
         \/ Unlocked(s)
         \/ releaseAdvisoryLocks(s)
         \/ UNCHANGED registry /\ \A t \in Sessions \ {s} : chan'[t] = chan[t]
<1>0. /\ req[s] \in Calls
      /\ chan \in [Sessions -> {"none", "open", "closed"}]
      /\ TxHoldsType
  BY DEF Inv, SessionType
<1>1. CASE Acquire(s)
  BY <1>0, <1>1, CallFields DEF Acquire, Taken
<1>2. CASE \E call \in Calls : TryLock(s, call)
  BY <1>2, CallFields DEF TryLock, Taken
<1>3. CASE \E k \in Keys, sh \in Modes : Unlock(s, k, sh)
  BY <1>3 DEF Unlock, Unlocked
<1>4. CASE UnlockAll(s) \/ Close(s)
  BY <1>4 DEF UnlockAll, Close
<1>5. CASE holdForTx(s)
  BY <1>0, <1>5, CallFields DEF holdForTx, Unlocked
<1>6. CASE releaseTxAdvisoryLocks(s)
  BY <1>0, <1>6, HeadOfHolds
     DEF releaseTxAdvisoryLocks, EndingHasHolds, Unlocked
<1>7. CASE \/ Capture(s) \/ Block(s) \/ Wake(s) \/ CloseRollback(s)
           \/ Connect(s) \/ Begin(s) \/ TxFails(s) \/ RollbackToSavepoint(s)
           \/ EndTx(s) \/ Cancel(s)
           \/ \E call \in Calls : Lock(s, call)
  BY <1>0, <1>7 DEF Capture, Block, Wake, CloseRollback, Connect, Begin, TxFails,
       RollbackToSavepoint, EndTx, Cancel, Lock
<1> QED
  BY <1>1, <1>2, <1>3, <1>4, <1>5, <1>6, <1>7 DEF OwnStep, ClientStep

\* A step of s leaves where the others are, and what they ask for, alone.
LEMMA OthersStay ==
  ASSUME Inv, NEW s \in Sessions, OwnStep(s) \/ ClientStep(s),
         NEW t \in Sessions, t # s
  PROVE  /\ pc'[t] = pc[t] /\ req'[t] = req[t]
         /\ tx'[t] = tx[t] /\ txHolds'[t] = txHolds[t]
<1>0. /\ pc \in [Sessions -> Places] /\ req \in [Sessions -> Calls]
      /\ tx \in [Sessions -> {"none", "open", "failed"}]
      /\ txHolds \in [Sessions -> Seq(Holds)]
  BY DEF Inv, SessionType, TxHoldsType
<1>1. CASE OwnStep(s)
  BY <1>0, <1>1 DEF OwnStep, Capture, Acquire, Block, Wake, holdForTx,
       releaseTxAdvisoryLocks, CloseRollback, Goto
<1>2. CASE ClientStep(s)
  <2>1. CASE \/ Connect(s) \/ Begin(s) \/ TxFails(s) \/ RollbackToSavepoint(s)
             \/ EndTx(s) \/ Close(s) \/ Cancel(s) \/ UnlockAll(s)
    BY <1>0, <2>1 DEF Connect, Begin, TxFails, RollbackToSavepoint, EndTx, Close,
         Cancel, UnlockAll, releaseAdvisoryLocks, Goto
  <2>2. CASE \/ \E call \in Calls : Lock(s, call) \/ TryLock(s, call)
             \/ \E k \in Keys, sh \in Modes : Unlock(s, k, sh)
    BY <1>0, <2>2 DEF Lock, TryLock, Unlock, Goto
  <2> QED BY <1>2, <2>1, <2>2 DEF ClientStep
<1> QED BY <1>1, <1>2

\* What taking a lock changes: only the taker gains a hold.
LEMMA TakenFrame ==
  ASSUME RegistryType, NEW s \in Sessions, Taken(s), NEW t \in Sessions, t # s,
         NEW j \in Keys
  PROVE  /\ shared'[j][t] = shared[j][t]
         /\ shared[j][s] > 0 => shared'[j][s] > 0
         /\ excl'[j] = excl[j] \/ (excl[j] \in {NoSession, s} /\ excl'[j] = s)
<1>1. PICK k \in Keys, sh \in Modes : canTake(s, k, sh) /\ take(s, k, sh)
  BY DEF Taken
<1>2. CASE sh
  <2>1. shared' = [shared EXCEPT ![k][s] = @ + 1] /\ excl' = excl
    BY <1>1, <1>2 DEF take
  <2> QED BY <2>1 DEF RegistryType
<1>3. CASE ~sh
  <2>1. shared' = shared /\ excl' = [excl EXCEPT ![k] = s]
    BY <1>1, <1>3 DEF take
  <2> QED BY <1>1, <2>1 DEF RegistryType, canTake
<1> QED BY <1>2, <1>3 DEF Modes

-----------------------------------------------------------------------------
\* waitAdvisory reads the channel before it tries the lock, and every release
\* closes the channel in the section that frees the lock: no call is left
\* asleep on an open channel when its lock is free to it.
THEOREM WakeupsAreNotLost == Spec => []NoLostWakeup
<1>1. Init => NoLostWakeup
  BY DEF Init, NoLostWakeup
<1>2. ASSUME IInv, NoLostWakeup, [Next]_vars PROVE NoLostWakeup'
  <2>1. CASE UNCHANGED vars
    BY <1>2, <2>1 DEF vars, NoLostWakeup, canTake
  <2>2. ASSUME NEW s \in Sessions, OwnStep(s) \/ ClientStep(s),
               NEW t \in Sessions, pc'[t] = "blocked", chan'[t] = "open"
        PROVE  ~ canTake(t, req[t].key, req[t].shared)'
    <3>0. /\ Inv /\ EndingHasHolds /\ RegistryType
          /\ chan \in [Sessions -> {"none", "open", "closed"}]
          /\ pc \in [Sessions -> Places] /\ req[t] \in Calls
          /\ req \in [Sessions -> Calls]
      BY <1>2 DEF IInv, Inv, SessionType, RegistryOK
    <3>1. CASE t = s
      <4>1. Block(s)
        <5>1. CASE OwnStep(s)
          BY <2>2, <3>0, <3>1, <5>1 DEF OwnStep, Capture, Acquire, Wake,
               holdForTx, releaseTxAdvisoryLocks, CloseRollback, Goto
        <5>2. CASE ClientStep(s)
          <6>1. CASE \/ Connect(s) \/ Begin(s) \/ TxFails(s)
                     \/ RollbackToSavepoint(s) \/ EndTx(s) \/ Close(s)
                     \/ Cancel(s) \/ UnlockAll(s)
            BY <2>2, <3>0, <3>1, <6>1 DEF Connect, Begin, TxFails,
                 RollbackToSavepoint, EndTx, Close, Cancel, UnlockAll, Ready, Goto
          <6>2. CASE \/ \E call \in Calls : Lock(s, call) \/ TryLock(s, call)
                     \/ \E k \in Keys, sh \in Modes : Unlock(s, k, sh)
            BY <2>2, <3>0, <3>1, <6>2 DEF Lock, TryLock, Unlock, Ready, Goto
          <6> QED BY <5>2, <6>1, <6>2 DEF ClientStep
        <5> QED BY <2>2, <5>1, <5>2
      <4> QED BY <3>1, <4>1 DEF Block, canTake, registry
    <3>2. CASE t # s
      <4>1. /\ pc[t] = "blocked" /\ req'[t] = req[t]
            /\ req[t].key \in Keys /\ req[t].shared \in Modes
        BY <2>2, <3>0, <3>2, OthersStay, CallFields
      <4>2. ~ releaseAdvisoryLocks(s)
        BY <2>2, <3>0 DEF releaseAdvisoryLocks, wakeAdvisoryWaiters
      <4>3. Unlocked(s) =>
              /\ UNCHANGED registry
              /\ chan'[t] = chan[t]
        BY <2>2, <3>0 DEF Unlocked, unlockAdvisory, wakeAdvisoryWaiters
      <4>4. /\ chan[t] = "open"
            /\ Taken(s) \/ UNCHANGED registry
        BY <2>2, <3>0, <3>2, <4>2, <4>3, RegistryFrame
      <4>5. PICK k \in Keys, sh \in Modes : k = req[t].key /\ sh = req[t].shared
        BY <4>1
      <4>6. ~ canTake(t, k, sh)
        BY <1>2, <4>1, <4>4, <4>5 DEF NoLostWakeup
      <4>7. ASSUME UNCHANGED registry PROVE ~ canTake(t, k, sh)'
        BY <4>6, <4>7 DEF canTake, registry
      <4>8. ASSUME Taken(s) PROVE ~ canTake(t, k, sh)'
        <5>1. CASE excl[k] \notin {NoSession, t}
          <6>1. excl'[k] \in {excl[k], s}
            BY <3>0, <3>2, <4>8, TakenFrame
          <6>2. s \notin {NoSession, t}
            BY <3>2, AdvisoryAssumption
          <6> QED BY <5>1, <6>1, <6>2 DEF canTake
        <5>2. CASE \E u \in Sessions \ {t} : shared[k][u] # 0 /\ ~sh
          <6>1. PICK u \in Sessions \ {t} : shared[k][u] # 0 /\ ~sh
            BY <5>2
          <6>2. shared[k][u] > 0
            BY <3>0, <6>1 DEF RegistryType
          <6>3. CASE u = s
            <7>1. shared'[k][s] > 0
              BY <3>0, <3>2, <4>8, <6>2, <6>3, TakenFrame
            <7> QED BY <6>1, <6>3, <7>1 DEF canTake
          <6>4. CASE u # s
            <7>1. shared'[k][u] = shared[k][u]
              BY <3>0, <4>8, <6>4, TakenFrame
            <7> QED BY <6>1, <7>1 DEF canTake
          <6> QED BY <6>3, <6>4
        <5> QED BY <4>6, <5>1, <5>2 DEF canTake
      <4> QED BY <4>1, <4>4, <4>5, <4>7, <4>8 DEF canTake
    <3> QED BY <3>1, <3>2
  <2>3. CASE Next
    BY <2>2, <2>3 DEF Next, NoLostWakeup
  <2> QED BY <1>2, <2>1, <2>3
<1> QED BY <1>1, <1>2, InductiveInvariant, PTL DEF Spec

-----------------------------------------------------------------------------
\* A step of s gives no other session a lock, and takes none from it.
LEMMA OthersKeepTheirs ==
  ASSUME RegistryType, MutualExclusion, NEW s \in Sessions,
         \/ Taken(s) \/ Unlocked(s) \/ releaseAdvisoryLocks(s)
         \/ UNCHANGED registry,
         NEW t \in Sessions, t # s, NEW j \in Keys
  PROVE  /\ shared'[j][t] = shared[j][t]
         /\ excl'[j] = t <=> excl[j] = t
<1>1. CASE Taken(s)
  BY <1>1, TakenFrame, AdvisoryAssumption
<1>2. CASE Unlocked(s)
  <2>1. PICK k \in Keys, sh \in Modes : unlockAdvisory(s, k, sh)
    BY <1>2 DEF Unlocked
  <2>2. CASE ~ HasHold(s, k, sh)
    BY <2>1, <2>2 DEF unlockAdvisory, registry
  <2>3. CASE HasHold(s, k, sh) /\ sh
    <3>1. shared' = [shared EXCEPT ![k][s] = @ - 1] /\ excl' = excl
      BY <2>1, <2>3 DEF unlockAdvisory
    <3> QED BY <3>1 DEF RegistryType
  <2>4. CASE HasHold(s, k, sh) /\ ~sh
    <3> DEFINE owner == IF exclCount[k] = 1 THEN NoSession ELSE s
    <3>1. shared' = shared
      BY <2>1, <2>4 DEF unlockAdvisory
    <3>2. excl' = [excl EXCEPT ![k] = owner]
      BY <2>1, <2>4 DEF unlockAdvisory
    <3>3. excl[k] = s
      BY <2>4 DEF HasHold
    <3>4. owner # t
      BY AdvisoryAssumption
    <3> HIDE DEF owner
    <3> QED BY <3>1, <3>2, <3>3, <3>4 DEF RegistryType
  <2> QED BY <2>2, <2>3, <2>4
<1>3. CASE releaseAdvisoryLocks(s)
  BY <1>3, AdvisoryAssumption DEF releaseAdvisoryLocks, RegistryType
<1>4. CASE UNCHANGED registry
  BY <1>4 DEF registry
<1> QED BY <1>1, <1>2, <1>3, <1>4

\* loop's deferred releaseAdvisoryLocks leaves nothing of the session, and
\* nothing gives a session that has closed a lock again.
THEOREM ClosedHoldNothing == Spec => []NothingAfterClose
<1>1. Init => NothingAfterClose
  BY AdvisoryAssumption DEF Init, NothingAfterClose
<1>2. ASSUME IInv, NothingAfterClose, [Next]_vars PROVE NothingAfterClose'
  <2>1. CASE UNCHANGED vars
    BY <1>2, <2>1 DEF vars, NothingAfterClose
  <2>2. ASSUME NEW s \in Sessions, OwnStep(s) \/ ClientStep(s),
               NEW t \in Sessions, pc'[t] \in {"gone", "closing"}
        PROVE  /\ txHolds'[t] = <<>>
               /\ \A k \in Keys : excl'[k] # t /\ shared'[k][t] = 0
    <3>0. /\ Inv /\ EndingHasHolds /\ RegistryType /\ MutualExclusion
          /\ pc \in [Sessions -> Places] /\ TxHoldsType
      BY <1>2 DEF IInv, Inv, SessionType, RegistryOK
    <3>1. CASE t # s
      <4>1. pc'[t] = pc[t] /\ txHolds'[t] = txHolds[t]
        BY <2>2, <3>0, <3>1, OthersStay
      <4>2. \/ Taken(s) \/ Unlocked(s) \/ releaseAdvisoryLocks(s)
            \/ UNCHANGED registry
        BY <2>2, <3>0, RegistryFrame
      <4>3. \A k \in Keys : /\ shared'[k][t] = shared[k][t]
                            /\ excl'[k] = t <=> excl[k] = t
        BY <3>0, <3>1, <4>2, OthersKeepTheirs
      <4> QED BY <1>2, <2>2, <4>1, <4>3 DEF NothingAfterClose
    <3>2. CASE t = s
      <4>1. Close(s) \/ CloseRollback(s)
        <5>1. CASE OwnStep(s)
          BY <2>2, <3>0, <3>2, <5>1 DEF OwnStep, Capture, Acquire, Block, Wake,
               holdForTx, releaseTxAdvisoryLocks, Goto
        <5>2. CASE \/ Connect(s) \/ Begin(s) \/ TxFails(s)
                   \/ RollbackToSavepoint(s) \/ EndTx(s) \/ Close(s)
                   \/ Cancel(s) \/ UnlockAll(s)
          BY <2>2, <3>0, <3>2, <5>2 DEF Connect, Begin, TxFails,
               RollbackToSavepoint, EndTx, Cancel, UnlockAll, Ready, Goto
        <5>3. CASE \/ \E call \in Calls : Lock(s, call) \/ TryLock(s, call)
                   \/ \E k \in Keys, sh \in Modes : Unlock(s, k, sh)
          BY <2>2, <3>0, <3>2, <5>3 DEF Lock, TryLock, Unlock, Ready, Goto
        <5> QED BY <2>2, <5>1, <5>2, <5>3 DEF ClientStep
      <4>2. CASE Close(s)
        BY <3>0, <3>2, <4>2, AdvisoryAssumption
           DEF Close, releaseAdvisoryLocks, RegistryType, TxHoldsType
      <4>3. CASE CloseRollback(s)
        BY <1>2, <3>2, <4>3 DEF CloseRollback, NothingAfterClose, registry
      <4> QED BY <4>1, <4>2, <4>3
    <3> QED BY <3>1, <3>2
  <2>3. CASE Next
    BY <2>2, <2>3 DEF Next, NothingAfterClose
  <2> QED BY <1>2, <2>1, <2>3
<1> QED BY <1>1, <1>2, InductiveInvariant, PTL DEF Spec

-----------------------------------------------------------------------------
\* A step of a session that waits for one of them: it goes on waiting, its locks and its
\* call as they were, unless it is canceled.
LEMMA WaiterStaysInLine ==
  ASSUME Inv, NEW s \in Sessions, NEW t \in Sessions, Waiting(s), InTheWay(t, s),
         OwnStep(s) \/ ClientStep(s), ~Cancel(s)
  PROVE  Waiting(s)' /\ UNCHANGED <<registry, req>>
<1>0. pc \in [Sessions -> Places]
  BY DEF Inv, SessionType
<1>1. pc[s] \in {"capture", "try", "blocked"}
  BY DEF Waiting
<1>2. ~ canTake(s, req[s].key, req[s].shared)
  BY AdvisoryAssumption DEF InTheWay, canTake, Inv, RegistryOK, RegistryType
<1>3. Capture(s) \/ Block(s) \/ Wake(s)
  BY <1>1, <1>2 DEF OwnStep, ClientStep, Acquire, holdForTx, releaseTxAdvisoryLocks, CloseRollback,
       Connect, Begin, TxFails, RollbackToSavepoint, EndTx, Close, UnlockAll, Lock, TryLock, Unlock, Ready
<1> QED BY <1>0, <1>3 DEF Capture, Block, Wake, Goto, Waiting

\* waitAdvisory leaves its loop only with the lock or with the error of a canceled
\* statement, and nobody gives back another session's locks: a deadlock stands until one
\* of its sessions is canceled.
THEOREM DeadlockStands == Spec => OnlyCancelEndsDeadlock
<1>1. ASSUME IInv, [Next]_vars, NEW C \in SUBSET Sessions, Deadlocked(C), ~ \E s \in C : Cancel(s)
      PROVE  Deadlocked(C)'
  <2>0. Inv /\ EndingHasHolds /\ RegistryType /\ MutualExclusion /\ req \in [Sessions -> Calls]
    BY <1>1 DEF IInv, Inv, RegistryOK, SessionType
  <2>1. CASE UNCHANGED vars
    BY <1>1, <2>1 DEF vars, Deadlocked, Waiting, InTheWay
  <2>2. ASSUME NEW s \in Sessions, OwnStep(s) \/ ClientStep(s) PROVE Deadlocked(C)'
    <3>1. CASE s \in C
      <4>1. Waiting(s)' /\ UNCHANGED <<registry, req>>
        BY <1>1, <2>0, <2>2, <3>1, WaiterStaysInLine DEF Deadlocked
      <4>2. \A u \in C : Waiting(u)'
        BY <1>1, <2>0, <2>2, <4>1, OthersStay DEF Deadlocked, Waiting
      <4> QED BY <1>1, <4>1, <4>2 DEF Deadlocked, InTheWay, registry
    <3>2. CASE s \notin C
      <4>1. ASSUME NEW u \in C PROVE Waiting(u)' /\ req'[u] = req[u]
        BY <1>1, <2>0, <2>2, <3>2, <4>1, OthersStay DEF Deadlocked, Waiting
      <4>2. \/ Taken(s) \/ Unlocked(s) \/ releaseAdvisoryLocks(s)
            \/ UNCHANGED registry
        BY <2>0, <2>2, RegistryFrame
      <4>3. ASSUME NEW u \in C, NEW t \in C, InTheWay(t, u) PROVE InTheWay(t, u)'
        <5>1. req[u].key \in Keys /\ t # s /\ t \in Sessions
          BY <1>1, <2>0, <3>2, <4>3, CallFields
        <5>2. /\ shared'[req[u].key][t] = shared[req[u].key][t]
              /\ excl'[req[u].key] = t <=> excl[req[u].key] = t
          BY <2>0, <2>2, <4>2, <5>1, OthersKeepTheirs
        <5> QED BY <4>1, <4>3, <5>2 DEF InTheWay
      <4> QED BY <1>1, <4>1, <4>3 DEF Deadlocked
    <3> QED BY <3>1, <3>2
  <2> QED BY <1>1, <2>1, <2>2 DEF Next
<1>2. ASSUME IInv, [Next]_vars
      PROVE  [\A C \in SUBSET Sessions : Deadlocked(C) => Deadlocked(C)' \/ \E s \in C : Cancel(s)]_vars
  BY <1>1, <1>2
<1> QED BY <1>2, InductiveInvariant, PTL DEF Spec, OnlyCancelEndsDeadlock

-----------------------------------------------------------------------------
(* How often a session holds a lock, and how often it has recorded it.     *)

\* Where h is in the list q, and how often.
Positions(q, h) == {i \in DOMAIN q : q[i] = h}
Occurs(q, h) == Cardinality(Positions(q, h))

\* One, if h is g.
One(h, g) == IF h = g THEN 1 ELSE 0

\* The lock of mode sh on k.
Lockage(k, sh) == [key |-> k, shared |-> sh]

\* The lock a call has been given and has not recorded.
Pending(s, k, sh) == pc[s] = "granted" /\ req[s].key = k /\ req[s].shared = sh

\* A list's positions are finitely many.
LEMMA OccursTyped ==
  ASSUME NEW q \in Seq(Holds), NEW h
  PROVE  IsFiniteSet(Positions(q, h)) /\ Occurs(q, h) \in Nat
<1>1. DOMAIN q = 1..Len(q) /\ Len(q) \in Nat
  BY LenProperties
<1>2. IsFiniteSet(1..Len(q))
  BY <1>1, FS_Interval
<1>3. Positions(q, h) \in SUBSET (1..Len(q))
  BY <1>1 DEF Positions
<1>4. IsFiniteSet(Positions(q, h))
  BY <1>2, <1>3, FS_Subset
<1> QED
  BY <1>4, FS_CardinalityType DEF Occurs

\* Nothing is in the empty list.
LEMMA OccursEmpty == \A h : Occurs(<<>>, h) = 0
<1>1. \A h : Positions(<<>>, h) = {}
  BY DEF Positions
<1> QED
  BY <1>1, FS_EmptySet DEF Occurs

\* Appending g adds one g.
LEMMA OccursAppended ==
  ASSUME NEW q \in Seq(Holds), NEW g \in Holds, NEW h
  PROVE  Occurs(Append(q, g), h) = Occurs(q, h) + One(h, g)
<1>1. /\ DOMAIN q = 1..Len(q) /\ Len(q) \in Nat
      /\ DOMAIN Append(q, g) = 1..Len(q) + 1
      /\ \A i \in 1..Len(q) : Append(q, g)[i] = q[i]
      /\ Append(q, g)[Len(q) + 1] = g
  BY LenProperties, AppendProperties
<1>2. CASE h = g
  <2>1. Positions(Append(q, g), h) = Positions(q, h) \cup {Len(q) + 1}
    BY <1>1, <1>2 DEF Positions
  <2>2. Len(q) + 1 \notin Positions(q, h)
    BY <1>1 DEF Positions
  <2> QED
    BY <1>2, <2>1, <2>2, OccursTyped, FS_AddElement DEF Occurs, One
<1>3. CASE h # g
  <2>1. Positions(Append(q, g), h) = Positions(q, h)
    BY <1>1, <1>3 DEF Positions
  <2>2. Occurs(q, h) \in Nat
    BY OccursTyped
  <2> QED
    BY <1>3, <2>1, <2>2 DEF Occurs, One
<1> QED
  BY <1>2, <1>3

\* Taking the head away takes one of it away.
LEMMA OccursTail ==
  ASSUME NEW q \in Seq(Holds), q # <<>>, NEW h
  PROVE  Occurs(q, h) = Occurs(Tail(q), h) + One(h, Head(q))
<1>1. /\ DOMAIN q = 1..Len(q) /\ Len(q) \in Nat \ {0} /\ Head(q) = q[1]
      /\ Tail(q) \in Seq(Holds)
      /\ Len(Tail(q)) = Len(q) - 1 /\ DOMAIN Tail(q) = 1..Len(q) - 1
      /\ \A i \in 1..Len(q) - 1 : Tail(q)[i] = q[i + 1]
  BY LenProperties, HeadTailProperties, EmptySeq
<1> DEFINE P == Positions(Tail(q), h)
           R == {i \in Positions(q, h) : i # 1}
           f == [i \in P |-> i + 1]
<1>2. P \subseteq 1..Len(q) - 1 /\ R \subseteq 2..Len(q)
  BY <1>1 DEF Positions
<1>3. \A i \in 1..Len(q) - 1 : i \in P <=> i + 1 \in R
  BY <1>1 DEF Positions
<1>4. ExistsBijection(P, R)
  <2> HIDE DEF P, R
  <2>1. f \in [P -> R]
    BY <1>2, <1>3
  <2>2. \A i, j \in P : f[i] = f[j] => i = j
    BY <1>2
  <2>3. \A j \in R : \E i \in P : f[i] = j
    <3>1. TAKE j \in R
    <3>2. j - 1 \in 1..Len(q) - 1 /\ (j - 1) + 1 = j
      BY <1>1, <1>2, <3>1
    <3>3. j - 1 \in P
      BY <1>3, <3>1, <3>2
    <3>4. f[j - 1] = j
      BY <3>2, <3>3
    <3> QED
      BY <3>3, <3>4
  <2> HIDE DEF f
  <2>4. f \in Bijection(P, R)
    BY <2>1, <2>2, <2>3 DEF Bijection, Injection, Surjection, IsInjective
  <2> QED
    BY <2>4 DEF ExistsBijection
<1>5. IsFiniteSet(P) /\ Cardinality(P) \in Nat /\ IsFiniteSet(Positions(q, h))
  BY <1>1, OccursTyped DEF Occurs
<1>6. IsFiniteSet(R) /\ Cardinality(R) = Cardinality(P)
  <2> HIDE DEF P, R
  <2> QED
    BY <1>4, <1>5, FS_Bijection
<1>7. CASE h = Head(q)
  <2>1. Positions(q, h) = R \cup {1} /\ 1 \notin R
    BY <1>1, <1>7 DEF Positions
  <2> HIDE DEF R
  <2>2. Cardinality(R \cup {1}) = Cardinality(R) + 1
    BY <1>6, <2>1, FS_AddElement
  <2> QED
    BY <1>6, <1>7, <2>1, <2>2 DEF Occurs, One
<1>8. CASE h # Head(q)
  <2>1. Positions(q, h) = R
    BY <1>1, <1>8 DEF Positions
  <2>2. Occurs(q, h) = Cardinality(R) /\ Occurs(Tail(q), h) = Cardinality(P) /\ One(h, Head(q)) = 0
    BY <1>8, <2>1 DEF Occurs, One
  <2> HIDE DEF P, R
  <2> QED
    BY <1>5, <1>6, <2>2
<1> QED
  BY <1>7, <1>8

\* What is recorded is counted in the list, but for what is pending.
LEMMA RecordedIs ==
  ASSUME NEW s, NEW k, NEW sh
  PROVE  /\ Pending(s, k, sh) => Recorded(s, k, sh) = Occurs(txHolds[s], Lockage(k, sh)) + 1
         /\ ~Pending(s, k, sh) => Recorded(s, k, sh) = Occurs(txHolds[s], Lockage(k, sh)) + 0
BY DEF Recorded, Occurs, Positions, Lockage, Pending

\* Locks are the same if their keys and modes are.
LEMMA LockagesDiffer ==
  ASSUME NEW k \in Keys, NEW sh \in Modes, NEW j \in Keys, NEW m \in Modes
  PROVE  /\ Lockage(k, sh) \in Holds
         /\ Lockage(j, m) = Lockage(k, sh) <=> j = k /\ m = sh
BY DEF Lockage, Holds

\* Counts are numbers, and positive for a lock that is held.
LEMMA CountTyped ==
  ASSUME RegistryType, MutualExclusion, NEW s \in Sessions, NEW k \in Keys, NEW sh \in Modes
  PROVE  Count(s, k, sh) \in Nat /\ (Count(s, k, sh) > 0 <=> HasHold(s, k, sh))
<1>1. shared[k][s] \in Nat /\ exclCount[k] \in Nat
  BY DEF RegistryType
<1>2. excl[k] = s => exclCount[k] > 0
  BY <1>1, AdvisoryAssumption DEF MutualExclusion
<1> QED
  BY <1>1, <1>2 DEF Count, HasHold

\* take counts one more of the lock it takes, and of no other.
LEMMA TakeCounts ==
  ASSUME RegistryType, MutualExclusion,
         NEW s \in Sessions, NEW k \in Keys, NEW sh \in Modes,
         canTake(s, k, sh), take(s, k, sh),
         NEW j \in Keys, NEW m \in Modes
  PROVE  Count(s, j, m)' = Count(s, j, m) + One(Lockage(j, m), Lockage(k, sh))
<1>1. One(Lockage(j, m), Lockage(k, sh)) = IF j = k /\ m = sh THEN 1 ELSE 0
  BY LockagesDiffer DEF One
<1>2. shared[j][s] \in Nat /\ exclCount[j] \in Nat
  BY DEF RegistryType
<1>3. CASE sh
  <2>1. shared' = [shared EXCEPT ![k][s] = @ + 1] /\ excl' = excl /\ exclCount' = exclCount
    BY <1>3 DEF take
  <2>2. shared'[j][s] = IF j = k THEN shared[j][s] + 1 ELSE shared[j][s]
    BY <2>1 DEF RegistryType
  <2>3. m => m = sh
    BY <1>3 DEF Modes
  <2>4. ~m => m # sh
    BY <1>3
  <2> QED
    BY <1>1, <1>2, <2>1, <2>2, <2>3, <2>4 DEF Count, Modes
<1>4. CASE ~sh
  <2>1. /\ excl' = [excl EXCEPT ![k] = s] /\ exclCount' = [exclCount EXCEPT ![k] = @ + 1]
        /\ shared' = shared
    BY <1>4 DEF take
  <2>2. /\ excl'[j] = IF j = k THEN s ELSE excl[j]
        /\ exclCount'[j] = IF j = k THEN exclCount[j] + 1 ELSE exclCount[j]
    BY <2>1 DEF RegistryType
  <2>3. j = k /\ excl[j] # s => exclCount[j] = 0
    BY DEF canTake, MutualExclusion
  <2>4. ~m => m = sh
    BY <1>4 DEF Modes
  <2>5. m => m # sh
    BY <1>4
  <2> QED
    BY <1>1, <1>2, <2>1, <2>2, <2>3, <2>4, <2>5 DEF Count, Modes
<1> QED
  BY <1>3, <1>4

\* unlockAdvisory counts one less of a lock that is held, and of no other.
LEMMA UnlockCounts ==
  ASSUME RegistryType, MutualExclusion,
         NEW s \in Sessions, NEW k \in Keys, NEW sh \in Modes,
         HasHold(s, k, sh), unlockAdvisory(s, k, sh),
         NEW j \in Keys, NEW m \in Modes
  PROVE  Count(s, j, m) = Count(s, j, m)' + One(Lockage(j, m), Lockage(k, sh))
<1>1. One(Lockage(j, m), Lockage(k, sh)) = IF j = k /\ m = sh THEN 1 ELSE 0
  BY LockagesDiffer DEF One
<1>2. shared[j][s] \in Nat /\ exclCount[j] \in Nat
  BY DEF RegistryType
<1>3. CASE sh
  <2>1. shared' = [shared EXCEPT ![k][s] = @ - 1] /\ excl' = excl /\ exclCount' = exclCount
    BY <1>3 DEF unlockAdvisory
  <2>2. shared'[j][s] = IF j = k THEN shared[j][s] - 1 ELSE shared[j][s]
    BY <2>1 DEF RegistryType
  <2>3. m => m = sh
    BY <1>3 DEF Modes
  <2>4. ~m => m # sh
    BY <1>3
  <2> QED
    BY <1>1, <1>2, <2>1, <2>2, <2>3, <2>4 DEF Count, Modes
<1>4. CASE ~sh
  <2> DEFINE owner == IF exclCount[k] = 1 THEN NoSession ELSE s
  <2>1. excl[k] = s
    BY <1>4 DEF HasHold
  <2>2. exclCount[k] # 0
    BY <2>1, AdvisoryAssumption DEF MutualExclusion
  <2>3. /\ excl' = [excl EXCEPT ![k] = owner] /\ exclCount' = [exclCount EXCEPT ![k] = @ - 1]
        /\ shared' = shared
    BY <1>4 DEF unlockAdvisory
  <2>4. (owner = s <=> exclCount[k] # 1) /\ owner \in {NoSession, s}
    BY AdvisoryAssumption
  <2> HIDE DEF owner
  <2>5. /\ excl'[j] = IF j = k THEN owner ELSE excl[j]
        /\ exclCount'[j] = IF j = k THEN exclCount[j] - 1 ELSE exclCount[j]
    BY <2>3 DEF RegistryType
  <2>6. ~m => m = sh
    BY <1>4 DEF Modes
  <2>7. m => m # sh
    BY <1>4
  <2> QED
    BY <1>1, <1>2, <2>1, <2>2, <2>3, <2>4, <2>5, <2>6, <2>7 DEF Count, Modes
<1> QED
  BY <1>3, <1>4

\* A step of s changes no count of another session.
LEMMA OthersCountTheirs ==
  ASSUME RegistryType, MutualExclusion, NEW s \in Sessions,
         \/ Taken(s) \/ Unlocked(s) \/ releaseAdvisoryLocks(s)
         \/ UNCHANGED registry,
         NEW t \in Sessions, t # s, NEW j \in Keys, NEW m \in Modes
  PROVE  Count(t, j, m)' = Count(t, j, m)
<1>1. shared'[j][t] = shared[j][t] /\ (excl'[j] = t <=> excl[j] = t)
  BY OthersKeepTheirs
<1>2. ASSUME excl[j] = t PROVE exclCount'[j] = exclCount[j]
  <2>1. CASE Taken(s)
    <3>1. PICK k \in Keys, sh \in Modes : canTake(s, k, sh) /\ take(s, k, sh)
      BY <2>1 DEF Taken
    <3>2. CASE sh
      BY <3>1, <3>2 DEF take
    <3>3. CASE ~sh
      <4>1. j # k
        BY <1>2, <3>1, AdvisoryAssumption DEF canTake
      <4> QED
        BY <3>1, <3>3, <4>1 DEF take, RegistryType
    <3> QED
      BY <3>2, <3>3
  <2>2. CASE Unlocked(s)
    <3>1. PICK k \in Keys, sh \in Modes : unlockAdvisory(s, k, sh)
      BY <2>2 DEF Unlocked
    <3>2. CASE ~HasHold(s, k, sh) \/ sh
      BY <3>1, <3>2 DEF unlockAdvisory, registry
    <3>3. CASE HasHold(s, k, sh) /\ ~sh
      <4>1. j # k
        BY <1>2, <3>3 DEF HasHold
      <4> QED
        BY <3>1, <3>3, <4>1 DEF unlockAdvisory, RegistryType
    <3> QED
      BY <3>2, <3>3
  <2>3. CASE releaseAdvisoryLocks(s)
    BY <1>2, <2>3 DEF releaseAdvisoryLocks
  <2>4. CASE UNCHANGED registry
    BY <2>4 DEF registry
  <2> QED
    BY <2>1, <2>2, <2>3, <2>4
<1> QED
  BY <1>1, <1>2 DEF Count

-----------------------------------------------------------------------------
(* Transaction-level locks.                                                *)

\* What the list of a transaction and the registry say about s.
Exact(s) ==
  /\ pc[s] \in {"capture", "try", "blocked", "granted"} => req[s].xact
  /\ tx[s] = "none" /\ pc[s] # "ending" => txHolds[s] = <<>>
  /\ \A k \in Keys, sh \in Modes : Count(s, k, sh) = Recorded(s, k, sh)

\* A step that touches neither the registry nor the list keeps them equal.
LEMMA ExactStays ==
  ASSUME NEW s \in XactOnly, Exact(s), UNCHANGED registry, txHolds'[s] = txHolds[s],
         pc[s] # "granted" /\ pc'[s] # "granted",
         pc'[s] \in {"capture", "try", "blocked"} => req'[s].xact,
         tx'[s] = "none" /\ pc'[s] # "ending" => txHolds[s] = <<>>
  PROVE  Exact(s)'
<1>1. ASSUME NEW k \in Keys, NEW sh \in Modes PROVE Count(s, k, sh)' = Recorded(s, k, sh)'
  <2>1. Count(s, k, sh)' = Count(s, k, sh)
    BY DEF Count, registry
  <2>2. Recorded(s, k, sh)' = Recorded(s, k, sh)
    BY DEF Recorded
  <2> QED
    BY <2>1, <2>2 DEF Exact
<1> QED
  BY <1>1 DEF Exact

\* A call that takes its lock has it to record.
LEMMA ExactTaken ==
  ASSUME RegistryType, MutualExclusion, TxHoldsType, NEW s \in XactOnly, s \in Sessions, Exact(s),
         NEW call \in Calls, call.xact,
         canTake(s, call.key, call.shared), take(s, call.key, call.shared),
         pc[s] # "granted", pc[s] # "ending", pc'[s] = "granted", req'[s] = call,
         txHolds'[s] = txHolds[s], tx'[s] = tx[s]
  PROVE  Exact(s)'
<1>1. PICK k \in Keys, sh \in Modes : k = call.key /\ sh = call.shared
  BY CallFields
<1>2. ASSUME NEW j \in Keys, NEW m \in Modes PROVE Count(s, j, m)' = Recorded(s, j, m)'
  <2>1. Count(s, j, m)' = Count(s, j, m) + One(Lockage(j, m), Lockage(k, sh))
    BY <1>1, TakeCounts
  <2>2. Count(s, j, m) = Occurs(txHolds[s], Lockage(j, m)) + 0
    BY RecordedIs DEF Exact, Pending
  <2>3. One(Lockage(j, m), Lockage(k, sh)) = IF j = k /\ m = sh THEN 1 ELSE 0
    BY LockagesDiffer DEF One
  <2>4. Recorded(s, j, m)' = Occurs(txHolds[s], Lockage(j, m)) + IF j = k /\ m = sh THEN 1 ELSE 0
    BY <1>1 DEF Recorded, Occurs, Positions, Lockage
  <2>5. Occurs(txHolds[s], Lockage(j, m)) \in Nat
    BY OccursTyped DEF TxHoldsType
  <2> QED
    BY <2>1, <2>2, <2>3, <2>4, <2>5
<1> QED
  BY <1>2 DEF Exact

\* holdForTx records the lock, or gives it back (advisory.go:325-333).
LEMMA ExactHeld ==
  ASSUME Inv, NEW s \in XactOnly, s \in Sessions, Exact(s), holdForTx(s)
  PROVE  Exact(s)'
<1>0. /\ RegistryType /\ MutualExclusion /\ TxHoldsType /\ req[s] \in Calls
      /\ pc \in [Sessions -> Places] /\ txHolds[s] \in Seq(Holds)
  BY DEF Inv, SessionType, RegistryOK, TxHoldsType
<1>1. PICK k \in Keys, sh \in Modes : k = req[s].key /\ sh = req[s].shared
  BY <1>0, CallFields
<1>2. pc[s] = "granted" /\ pc'[s] = "idle" /\ tx' = tx
  BY <1>0 DEF holdForTx, Goto
<1>3. \A j \in Keys, m \in Modes :
        Count(s, j, m) = Occurs(txHolds[s], Lockage(j, m)) + One(Lockage(j, m), Lockage(k, sh))
  <2>1. TAKE j \in Keys, m \in Modes
  <2>2. Pending(s, j, m) <=> j = k /\ m = sh
    BY <1>1, <1>2 DEF Pending
  <2>3. One(Lockage(j, m), Lockage(k, sh)) = IF j = k /\ m = sh THEN 1 ELSE 0
    BY LockagesDiffer DEF One
  <2> QED
    BY <2>2, <2>3, RecordedIs DEF Exact
<1>4. \A j \in Keys, m \in Modes : Recorded(s, j, m)' = Occurs(txHolds'[s], Lockage(j, m)) + 0
  BY <1>2 DEF Recorded, Occurs, Positions, Lockage
<1>5. CASE tx[s] = "none"
  <2>1. unlockAdvisory(s, k, sh) /\ txHolds' = txHolds /\ txHolds[s] = <<>>
    BY <1>1, <1>2, <1>5 DEF holdForTx, Exact
  <2>2. HasHold(s, k, sh)
    <3>1. Count(s, k, sh) = Occurs(txHolds[s], Lockage(k, sh)) + 1
      BY <1>3 DEF One
    <3>2. Occurs(txHolds[s], Lockage(k, sh)) \in Nat
      BY <1>0, OccursTyped
    <3> QED
      BY <1>0, <3>1, <3>2, CountTyped
  <2>3. ASSUME NEW j \in Keys, NEW m \in Modes PROVE Count(s, j, m)' = Recorded(s, j, m)'
    <3>1. Count(s, j, m) = Count(s, j, m)' + One(Lockage(j, m), Lockage(k, sh))
      BY <1>0, <2>1, <2>2, UnlockCounts
    <3>2. Count(s, j, m)' \in Nat
      <4>1. RegistryType'
        BY <1>0, <2>1, UnlockRegistry
      <4> QED
        BY <4>1 DEF RegistryType, Count
    <3>3. Occurs(txHolds[s], Lockage(j, m)) \in Nat
      BY <1>0, OccursTyped
    <3>4. One(Lockage(j, m), Lockage(k, sh)) \in Nat
      BY DEF One
    <3> QED
      BY <1>3, <1>4, <2>1, <3>1, <3>2, <3>3, <3>4
  <2> QED
    BY <1>2, <2>1, <2>3 DEF Exact
<1>6. CASE tx[s] # "none"
  <2>1. UNCHANGED registry /\ txHolds'[s] = Append(txHolds[s], Lockage(k, sh))
    BY <1>0, <1>1, <1>6 DEF holdForTx, Lockage, TxHoldsType
  <2>2. ASSUME NEW j \in Keys, NEW m \in Modes PROVE Count(s, j, m)' = Recorded(s, j, m)'
    <3>1. Count(s, j, m)' = Count(s, j, m)
      BY <2>1 DEF Count, registry
    <3>2. Occurs(txHolds'[s], Lockage(j, m)) =
            Occurs(txHolds[s], Lockage(j, m)) + One(Lockage(j, m), Lockage(k, sh))
      BY <1>0, <2>1, LockagesDiffer, OccursAppended
    <3>3. Occurs(txHolds[s], Lockage(j, m)) \in Nat
      BY <1>0, OccursTyped
    <3>4. One(Lockage(j, m), Lockage(k, sh)) \in Nat
      BY DEF One
    <3> QED
      BY <1>3, <1>4, <3>1, <3>2, <3>3, <3>4
  <2> QED
    BY <1>2, <1>6, <2>2 DEF Exact
<1> QED
  BY <1>5, <1>6

\* releaseTxAdvisoryLocks gives back the locks one by one (advisory.go:335-341).
LEMMA ExactReturned ==
  ASSUME Inv, EndingHasHolds, NEW s \in XactOnly, s \in Sessions, Exact(s),
         releaseTxAdvisoryLocks(s)
  PROVE  Exact(s)'
<1>0. /\ RegistryType /\ MutualExclusion /\ TxHoldsType
      /\ pc \in [Sessions -> Places] /\ txHolds[s] \in Seq(Holds) /\ txHolds[s] # <<>>
  BY DEF Inv, SessionType, RegistryOK, TxHoldsType, EndingHasHolds, releaseTxAdvisoryLocks
<1>1. PICK k \in Keys, sh \in Modes : k = Head(txHolds[s]).key /\ sh = Head(txHolds[s]).shared
  BY <1>0, HeadOfHolds
<1>2. Head(txHolds[s]) = Lockage(k, sh)
  <2>1. Head(txHolds[s]) \in Holds
    BY <1>0, HeadTailProperties
  <2> QED
    BY <1>1, <2>1 DEF Holds, Lockage
<1>3. /\ pc[s] = "ending" /\ pc'[s] \in {"idle", "ending"}
      /\ pc'[s] = "idle" => Len(txHolds[s]) = 1
      /\ unlockAdvisory(s, k, sh) /\ txHolds'[s] = Tail(txHolds[s])
  BY <1>0, <1>1 DEF releaseTxAdvisoryLocks, Goto, TxHoldsType
<1>4. Tail(txHolds[s]) \in Seq(Holds) /\ Len(Tail(txHolds[s])) = Len(txHolds[s]) - 1
  BY <1>0, HeadTailProperties
<1>5. pc'[s] = "idle" => txHolds'[s] = <<>>
  <2>1. Len(txHolds[s]) = 1 => Len(Tail(txHolds[s])) \notin Nat \ {0}
    BY <1>4
  <2> QED
    BY <1>3, <1>4, <2>1, EmptySeq
<1>6. \A j \in Keys, m \in Modes :
        /\ Count(s, j, m) = Occurs(Tail(txHolds[s]), Lockage(j, m)) + One(Lockage(j, m), Lockage(k, sh))
        /\ Occurs(Tail(txHolds[s]), Lockage(j, m)) \in Nat
  <2>1. TAKE j \in Keys, m \in Modes
  <2>2. Count(s, j, m) = Occurs(txHolds[s], Lockage(j, m)) + 0
    BY <1>3, RecordedIs DEF Exact, Pending
  <2>3. Occurs(txHolds[s], Lockage(j, m)) =
          Occurs(Tail(txHolds[s]), Lockage(j, m)) + One(Lockage(j, m), Lockage(k, sh))
    BY <1>0, <1>2, OccursTail
  <2>4. /\ Occurs(txHolds[s], Lockage(j, m)) \in Nat
        /\ Occurs(Tail(txHolds[s]), Lockage(j, m)) \in Nat
    BY <1>0, <1>4, OccursTyped
  <2> QED
    BY <2>2, <2>3, <2>4
<1>7. HasHold(s, k, sh)
  <2>1. One(Lockage(k, sh), Lockage(k, sh)) = 1
    BY DEF One
  <2>2. Count(s, k, sh) > 0
    BY <1>6, <2>1
  <2> QED
    BY <1>0, <2>2, CountTyped
<1>8. ASSUME NEW j \in Keys, NEW m \in Modes PROVE Count(s, j, m)' = Recorded(s, j, m)'
  <2>1. Count(s, j, m) = Count(s, j, m)' + One(Lockage(j, m), Lockage(k, sh))
    BY <1>0, <1>3, <1>7, UnlockCounts
  <2>2. Count(s, j, m)' \in Nat
    <3>1. RegistryType'
      BY <1>0, <1>3, UnlockRegistry
    <3> QED
      BY <3>1 DEF RegistryType, Count
  <2>3. Recorded(s, j, m)' = Occurs(txHolds'[s], Lockage(j, m)) + 0
    BY <1>3 DEF Recorded, Occurs, Positions, Lockage
  <2>4. One(Lockage(j, m), Lockage(k, sh)) \in Nat
    BY DEF One
  <2> QED
    BY <1>3, <1>6, <2>1, <2>2, <2>3, <2>4
<1> QED
  BY <1>3, <1>5, <1>8 DEF Exact

\* The loop's end gives everything back.
LEMMA ExactClosed ==
  ASSUME Inv, NEW s \in XactOnly, s \in Sessions, Close(s)
  PROVE  Exact(s)'
<1>1. /\ pc'[s] = "closing" /\ txHolds'[s] = <<>>
      /\ \A k \in Keys : excl'[k] # s /\ shared'[k][s] = 0
  BY AdvisoryAssumption DEF Inv, SessionType, RegistryOK, RegistryType, TxHoldsType, Close,
       releaseAdvisoryLocks, Goto
<1>2. ASSUME NEW k \in Keys, NEW sh \in Modes PROVE Count(s, k, sh)' = Recorded(s, k, sh)'
  <2>1. Count(s, k, sh)' = 0
    BY <1>1 DEF Count
  <2>2. Recorded(s, k, sh)' = Occurs(txHolds'[s], Lockage(k, sh)) + 0
    BY <1>1 DEF Recorded, Occurs, Positions, Lockage
  <2> QED
    BY <1>1, <2>1, <2>2, OccursEmpty
<1> QED
  BY <1>1, <1>2 DEF Exact

\* A session's own steps keep what it has recorded exact.
LEMMA ExactStep ==
  ASSUME IInv, NothingAfterClose, NEW s \in XactOnly, s \in Sessions, Exact(s),
         OwnStep(s) \/ ClientStep(s)
  PROVE  Exact(s)'
<1>0. /\ Inv /\ EndingHasHolds /\ RegistryType /\ MutualExclusion /\ TxHoldsType
      /\ pc \in [Sessions -> Places] /\ req \in [Sessions -> Calls]
      /\ tx \in [Sessions -> {"none", "open", "failed"}]
  BY DEF IInv, Inv, SessionType, RegistryOK
<1>1. CASE Capture(s) \/ Block(s) \/ Wake(s) \/ Cancel(s)
  <2>1. /\ UNCHANGED registry /\ txHolds' = txHolds /\ pc[s] \in {"capture", "try", "blocked"}
        /\ pc'[s] \in {"try", "blocked", "capture"} /\ req' = req /\ tx' = tx
        \/ /\ UNCHANGED registry /\ txHolds' = txHolds /\ pc[s] = "blocked" /\ pc'[s] = "idle"
           /\ tx'[s] = "none" => tx[s] = "none"
    BY <1>0, <1>1 DEF Capture, Block, Wake, Cancel, Goto
  <2> QED
    BY <2>1, ExactStays DEF Exact
<1>2. CASE Connect(s) \/ Begin(s) \/ TxFails(s) \/ RollbackToSavepoint(s)
  <2>1. /\ UNCHANGED registry /\ txHolds' = txHolds /\ pc[s] \in {"gone", "idle"}
        /\ pc'[s] = "idle" /\ (tx'[s] = "none" => tx[s] = "none")
    BY <1>0, <1>2 DEF Connect, Begin, TxFails, RollbackToSavepoint, Goto
  <2> QED
    BY <2>1, ExactStays DEF Exact
<1>3. CASE \E call \in Calls : Lock(s, call)
  <2>1. PICK call \in Calls : Lock(s, call)
    BY <1>3
  <2>2. /\ UNCHANGED registry /\ txHolds' = txHolds /\ pc[s] = "idle" /\ pc'[s] = "capture"
        /\ tx' = tx /\ req'[s] = call /\ call.xact
    BY <1>0, <2>1 DEF Lock, Ready, Allowed, Goto
  <2> QED
    BY <2>2, ExactStays DEF Exact
<1>4. CASE EndTx(s)
  <2>1. /\ UNCHANGED registry /\ txHolds' = txHolds /\ pc[s] = "idle"
        /\ pc'[s] \in {"idle", "ending"} /\ (pc'[s] # "ending" => txHolds[s] = <<>>)
    BY <1>0, <1>4 DEF EndTx, Goto
  <2> QED
    BY <2>1, ExactStays
<1>5. CASE CloseRollback(s)
  <2>1. /\ UNCHANGED registry /\ txHolds' = txHolds /\ pc[s] = "closing" /\ pc'[s] = "gone"
        /\ txHolds[s] = <<>>
    BY <1>0, <1>5 DEF CloseRollback, Goto, NothingAfterClose
  <2> QED
    BY <2>1, ExactStays
<1>6. CASE Close(s)
  BY <1>0, <1>6, ExactClosed
<1>7. CASE \E call \in Calls : TryLock(s, call)
  <2>1. PICK call \in Calls : TryLock(s, call)
    BY <1>7
  <2>2. /\ canTake(s, call.key, call.shared) /\ take(s, call.key, call.shared)
        /\ pc[s] = "idle" /\ pc'[s] = "granted" /\ req'[s] = call /\ call.xact
        /\ txHolds' = txHolds /\ tx' = tx
    BY <1>0, <2>1 DEF TryLock, Ready, Allowed, Goto
  <2> QED
    BY <1>0, <2>2, ExactTaken
<1>8. CASE Acquire(s)
  <2>1. req[s] \in Calls /\ req[s].xact
    BY <1>0, <1>8 DEF Acquire, Exact
  <2>2. /\ canTake(s, req[s].key, req[s].shared) /\ take(s, req[s].key, req[s].shared)
        /\ pc[s] = "try" /\ pc'[s] = "granted" /\ req'[s] = req[s]
        /\ txHolds' = txHolds /\ tx' = tx
    BY <1>0, <1>8, <2>1 DEF Acquire, Goto
  <2> QED
    BY <1>0, <2>1, <2>2, ExactTaken
<1>9. CASE holdForTx(s)
  BY <1>0, <1>9, ExactHeld
<1>10. CASE releaseTxAdvisoryLocks(s)
  BY <1>0, <1>10, ExactReturned
<1>11. ~UnlockAll(s) /\ ~(\E k \in Keys, sh \in Modes : Unlock(s, k, sh))
  BY DEF UnlockAll, Unlock
<1> QED
  BY <1>1, <1>2, <1>3, <1>4, <1>5, <1>6, <1>7, <1>8, <1>9, <1>10, <1>11 DEF OwnStep, ClientStep

\* A client that uses the _xact_ functions alone holds exactly what its transaction
\* recorded, and nothing outside a transaction, however its calls wait, are
\* cancelled or end with the connection (advisory.go:325-341, extended.go:263-271).
THEOREM XactLocksAreExact == Spec => []XactLocksExact
<1> DEFINE AllExact == \A s \in XactOnly : Exact(s)
<1>1. Init => AllExact
  <2> SUFFICES ASSUME Init, NEW s \in XactOnly PROVE Exact(s)
    OBVIOUS
  <2>1. s \in Sessions
    BY AdvisoryAssumption
  <2>2. /\ pc[s] = "gone" /\ txHolds[s] = <<>>
        /\ \A k \in Keys : excl[k] = NoSession /\ shared[k][s] = 0
    BY <2>1 DEF Init
  <2>3. ASSUME NEW k \in Keys, NEW sh \in Modes PROVE Count(s, k, sh) = Recorded(s, k, sh)
    <3>1. Count(s, k, sh) = 0
      BY <2>1, <2>2, AdvisoryAssumption DEF Count
    <3>2. Recorded(s, k, sh) = Occurs(txHolds[s], Lockage(k, sh)) + 0
      BY <2>2, RecordedIs DEF Pending
    <3> QED
      BY <2>2, <3>1, <3>2, OccursEmpty
  <2> QED
    BY <2>2, <2>3 DEF Exact
<1>2. IInv /\ NothingAfterClose /\ AllExact /\ [Next]_vars => AllExact'
  <2> SUFFICES ASSUME IInv, NothingAfterClose, AllExact, [Next]_vars, NEW t \in XactOnly
               PROVE  Exact(t)'
    OBVIOUS
  <2>0. Exact(t) /\ t \in Sessions
    BY AdvisoryAssumption
  <2>1. CASE UNCHANGED vars
    BY <2>0, <2>1 DEF vars, Exact, Count, Recorded
  <2>2. CASE Next
    <3>1. PICK s \in Sessions : OwnStep(s) \/ ClientStep(s)
      BY <2>2 DEF Next
    <3>2. CASE t = s
      BY <2>0, <3>1, <3>2, ExactStep
    <3>3. CASE t # s
      <4>1. /\ pc'[t] = pc[t] /\ req'[t] = req[t] /\ tx'[t] = tx[t] /\ txHolds'[t] = txHolds[t]
        BY <2>0, <3>1, <3>3, OthersStay DEF IInv
      <4>2. \/ Taken(s) \/ Unlocked(s) \/ releaseAdvisoryLocks(s)
            \/ UNCHANGED registry
        BY <3>1, RegistryFrame DEF IInv
      <4>3. \A k \in Keys, sh \in Modes : Count(t, k, sh)' = Count(t, k, sh)
        BY <2>0, <3>3, <4>2, OthersCountTheirs DEF IInv, Inv, RegistryOK
      <4>4. \A k \in Keys, sh \in Modes : Recorded(t, k, sh)' = Recorded(t, k, sh)
        BY <4>1 DEF Recorded
      <4> QED
        BY <2>0, <4>1, <4>3, <4>4 DEF Exact
    <3> QED
      BY <3>2, <3>3
  <2> QED
    BY <2>1, <2>2
<1>3. AllExact => XactLocksExact
  BY DEF XactLocksExact, Exact
<1> HIDE DEF AllExact
<1> QED
  BY <1>1, <1>2, <1>3, InductiveInvariant, ClosedHoldNothing, PTL DEF Spec

-----------------------------------------------------------------------------
\* What the three registry operations do to the set of granted locks.
LEMMA TakeGrants ==
  ASSUME RegistryType, MutualExclusion,
         NEW s \in Sessions, NEW k \in Keys, NEW sh \in Modes,
         canTake(s, k, sh), take(s, k, sh)
  PROVE  Contract!Grant(s, k, sh)
<1>1. Contract!Compatible(s, k, sh)
  <2>1. SUFFICES ASSUME NEW g \in Granted, g[2] = k, g[1] # s
                 PROVE  g[3] /\ sh
    BY DEF Contract!Compatible
  <2>2. g[1] \in Sessions /\ g[3] \in BOOLEAN /\ HasHold(g[1], k, g[3])
    BY <2>1 DEF Granted, Modes
  <2>3. g[3]
    BY <2>1, <2>2, AdvisoryAssumption DEF canTake, HasHold
  <2>4. shared[k][g[1]] > 0
    BY <2>2, <2>3 DEF HasHold
  <2>5. sh
    BY <2>1, <2>2, <2>4 DEF canTake
  <2> QED BY <2>3, <2>5
<1>2. ASSUME NEW t \in Sessions, NEW j \in Keys, NEW m \in Modes
      PROVE  HasHold(t, j, m)' <=> HasHold(t, j, m) \/ (t = s /\ j = k /\ m = sh)
  <2>1. CASE sh
    <3>1. shared' = [shared EXCEPT ![k][s] = @ + 1] /\ excl' = excl
      BY <2>1 DEF take
    <3>2. shared'[j][t] = IF j = k /\ t = s THEN shared[j][t] + 1 ELSE shared[j][t]
      BY <3>1 DEF RegistryType
    <3>3. shared[j][t] \in Nat
      BY DEF RegistryType
    <3>4. CASE m
      <4>1. HasHold(t, j, m)' <=> shared'[j][t] > 0
        BY <3>4 DEF HasHold
      <4>2. HasHold(t, j, m) <=> shared[j][t] > 0
        BY <3>4 DEF HasHold
      <4>3. m = sh
        BY <2>1, <3>4 DEF Modes
      <4> QED BY <3>2, <3>3, <4>1, <4>2, <4>3
    <3>5. CASE ~m
      BY <2>1, <3>1, <3>5 DEF HasHold
    <3> QED BY <3>4, <3>5
  <2>2. CASE ~sh
    <3>1. excl' = [excl EXCEPT ![k] = s] /\ shared' = shared
      BY <2>2 DEF take
    <3>2. excl[k] \in {NoSession, s}
      BY DEF canTake
    <3>3. CASE m
      BY <2>2, <3>1, <3>3 DEF HasHold
    <3>4. CASE ~m
      <4>1. excl'[j] = IF j = k THEN s ELSE excl[j]
        BY <3>1 DEF RegistryType
      <4>2. /\ HasHold(t, j, m)' <=> excl'[j] = t
            /\ HasHold(t, j, m) <=> excl[j] = t
        BY <3>4 DEF HasHold
      <4>3. m = sh
        BY <2>2, <3>4 DEF Modes
      <4> QED BY <3>2, <4>1, <4>2, <4>3, AdvisoryAssumption
    <3> QED BY <3>3, <3>4
  <2> QED BY <2>1, <2>2 DEF Modes
<1>3. Granted' = Granted \cup {<<s, k, sh>>}
  BY <1>2 DEF Granted
<1> QED BY <1>1, <1>3 DEF Contract!Grant

\* An unlock is a return, or no step, of the abstract lock table.
LEMMA UnlockReturns ==
  ASSUME RegistryType, MutualExclusion,
         NEW s \in Sessions, NEW k \in Keys, NEW sh \in Modes,
         unlockAdvisory(s, k, sh)
  PROVE  Contract!Return(s, k, sh) \/ Granted' = Granted
<1>1. CASE UNCHANGED registry
  BY <1>1 DEF registry, Granted, HasHold
<1>2. CASE HasHold(s, k, sh)
  <2>1. ASSUME NEW t \in Sessions, NEW j \in Keys, NEW m \in Modes,
               t # s \/ j # k \/ m # sh
        PROVE  HasHold(t, j, m)' <=> HasHold(t, j, m)
    <3>1. CASE sh
      <4>1. shared' = [shared EXCEPT ![k][s] = @ - 1] /\ excl' = excl
        BY <1>2, <3>1 DEF unlockAdvisory
      <4>2. CASE m
        <5>1. t # s \/ j # k
          BY <2>1, <3>1, <4>2 DEF Modes
        <5>2. shared'[j][t] = shared[j][t]
          BY <4>1, <5>1 DEF RegistryType
        <5> QED BY <4>2, <5>2 DEF HasHold
      <4>3. CASE ~m
        BY <4>1, <4>3 DEF HasHold
      <4> QED BY <4>2, <4>3
    <3>2. CASE ~sh
      <4> DEFINE owner == IF exclCount[k] = 1 THEN NoSession ELSE s
      <4>1. shared' = shared
        BY <1>2, <3>2 DEF unlockAdvisory
      <4>2. excl' = [excl EXCEPT ![k] = owner]
        BY <1>2, <3>2 DEF unlockAdvisory
      <4>3. excl[k] = s
        BY <1>2, <3>2 DEF HasHold
      <4>4. owner \in {NoSession, s}
        OBVIOUS
      <4> HIDE DEF owner
      <4>5. CASE m
        BY <4>1, <4>5 DEF HasHold
      <4>6. CASE ~m
        <5>1. t # s \/ j # k
          BY <2>1, <3>2, <4>6 DEF Modes
        <5>2. excl'[j] = IF j = k THEN owner ELSE excl[j]
          BY <4>2 DEF RegistryType
        <5>3. excl'[j] = t <=> excl[j] = t
          BY <4>3, <4>4, <5>1, <5>2, AdvisoryAssumption
        <5> QED BY <4>6, <5>3 DEF HasHold
      <4> QED BY <4>5, <4>6
    <3> QED BY <3>1, <3>2
  <2>2. CASE HasHold(s, k, sh)'
    <3>1. Granted' = Granted
      BY <1>2, <2>1, <2>2 DEF Granted
    <3> QED BY <3>1
  <2>3. CASE ~ HasHold(s, k, sh)'
    <3>1. Granted' = Granted \ {<<s, k, sh>>}
      BY <2>1, <2>3 DEF Granted
    <3> QED BY <3>1 DEF Contract!Return
  <2> QED BY <2>2, <2>3
<1> QED BY <1>1, <1>2 DEF unlockAdvisory

\* Releasing everything a session holds returns all its grants.
LEMMA ReleaseAllReturns ==
  ASSUME RegistryType, NEW s \in Sessions, releaseAdvisoryLocks(s)
  PROVE  Contract!ReturnAll(s)
<1>1. ASSUME NEW t \in Sessions, NEW j \in Keys, NEW m \in Modes
      PROVE  HasHold(t, j, m)' <=> HasHold(t, j, m) /\ t # s
  <2>1. shared'[j][t] = IF t = s THEN 0 ELSE shared[j][t]
    BY DEF releaseAdvisoryLocks, RegistryType
  <2>2. excl'[j] = IF excl[j] = s THEN NoSession ELSE excl[j]
    BY DEF releaseAdvisoryLocks
  <2>3. CASE m
    BY <2>1, <2>3 DEF HasHold
  <2>4. CASE ~m
    BY <2>2, <2>4, AdvisoryAssumption DEF HasHold
  <2> QED BY <2>3, <2>4
<1>2. Granted' = {g \in Granted : g[1] # s}
  BY <1>1 DEF Granted
<1> QED BY <1>2 DEF Contract!ReturnAll

\* The registry, its counts and its waiters implement the contract: granted
\* locks never conflict, and each step of the code is a grant, a return, or
\* nothing the contract sees.
THEOREM ImplementsContract == Spec => KeepsContract
<1>1. Init => Contract!Init
  BY AdvisoryAssumption DEF Init, Contract!Init, Granted, HasHold, Modes
<1>2. ASSUME IInv, [Next]_vars PROVE [Contract!Next]_Granted
  <2>1. CASE UNCHANGED vars
    BY <2>1 DEF vars, Granted, HasHold
  <2>2. ASSUME NEW s \in Sessions, OwnStep(s) \/ ClientStep(s)
        PROVE  [Contract!Next]_Granted
    <3>1. Inv /\ EndingHasHolds /\ RegistryType /\ MutualExclusion
      BY <1>2 DEF IInv, Inv, RegistryOK
    <3>2. CASE Taken(s)
      BY <3>1, <3>2, TakeGrants DEF Taken, Contract!Next, Modes, Contract!Modes
    <3>3. CASE Unlocked(s)
      BY <3>1, <3>3, UnlockReturns
         DEF Unlocked, Contract!Next, Modes, Contract!Modes
    <3>4. CASE releaseAdvisoryLocks(s)
      BY <3>1, <3>4, ReleaseAllReturns DEF Contract!Next
    <3>5. CASE UNCHANGED registry
      BY <3>5 DEF registry, Granted, HasHold
    <3> QED BY <2>2, <3>1, <3>2, <3>3, <3>4, <3>5, RegistryFrame
  <2> QED BY <1>2, <2>1, <2>2 DEF Next
<1> QED BY <1>1, <1>2, InductiveInvariant, PTL
        DEF Spec, KeepsContract, Contract!Spec

\* The contract is strong enough: granting only what is compatible keeps
\* conflicting modes apart.
THEOREM ContractExcludes == Contract!Spec => []Contract!Exclusion
<1>1. Contract!Init => Contract!Exclusion
  BY DEF Contract!Init, Contract!Exclusion
<1>2. Contract!Exclusion /\ [Contract!Next]_Granted => Contract!Exclusion'
  <2> SUFFICES ASSUME Contract!Exclusion, [Contract!Next]_Granted
               PROVE  Contract!Exclusion'
    OBVIOUS
  <2>1. CASE \E s \in Sessions, k \in Keys, sh \in BOOLEAN : Contract!Grant(s, k, sh)
    <3>1. PICK s \in Sessions, k \in Keys, sh \in BOOLEAN : Contract!Grant(s, k, sh)
      BY <2>1
    <3>2. Granted' = Granted \cup {<<s, k, sh>>} /\ Contract!Compatible(s, k, sh)
      BY <3>1 DEF Contract!Grant
    <3>3. ASSUME NEW g \in Granted', NEW h \in Granted', g[2] = h[2], g[1] # h[1]
          PROVE  g[3] /\ h[3]
      <4>1. CASE g \in Granted /\ h \in Granted
        BY <3>3, <4>1 DEF Contract!Exclusion
      <4>2. CASE g = <<s, k, sh>> /\ h \in Granted
        BY <3>2, <3>3, <4>2 DEF Contract!Compatible
      <4>3. CASE g \in Granted /\ h = <<s, k, sh>>
        BY <3>2, <3>3, <4>3 DEF Contract!Compatible
      <4> QED BY <3>2, <3>3, <4>1, <4>2, <4>3
    <3> QED BY <3>3 DEF Contract!Exclusion
  <2>2. CASE Granted' \subseteq Granted
    BY <2>2 DEF Contract!Exclusion
  <2> QED
    BY <2>1, <2>2 DEF Contract!Next, Contract!Return, Contract!ReturnAll, Contract!Modes
<1> QED BY <1>1, <1>2, PTL DEF Contract!Spec

\* So two sessions that hold an advisory lock at the same time both hold it shared.
THEOREM GrantsExclude == Spec => []Contract!Exclusion
BY ImplementsContract, ContractExcludes, PTL DEF KeepsContract
=============================================================================
