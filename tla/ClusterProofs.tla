--------------------------- MODULE ClusterProofs ---------------------------
(***************************************************************************)
(* Theorems about the directory of databases, for every set of clients and *)
(* names and every cap.  The inductive invariant adds to the properties of *)
(* Cluster what is known of the engines: an entry's engine is live, no two *)
(* entries share one, and all are numbered up to seq.                      *)
(***************************************************************************)
EXTENDS Cluster, FiniteSetTheorems, TLAPS

\* The engines and the sequence numbers of the table.
EnginesKnown ==
  /\ live \subseteq 1 .. seq
  /\ \A d \in Names : used[d] <= seq
  /\ \A d \in open : eng[d] \in live
  /\ \A d \in Names \ open : eng[d] = NoEngine
  /\ \A d, n \in open : eng[d] = eng[n] => d = n

IInv == /\ TypeOK
        /\ EnginesKnown
        /\ OpenHasFile
        /\ RefsAreHeld
        /\ OverCapOnlyInUse
        /\ ExactUnlessLeaked

-----------------------------------------------------------------------------
(* evictLocked. *)

\* The table <<o, e, r, u, l>> with nothing done to it but idle engines closed.
OnlyIdleClosed(o, e, r, u, l) ==
  /\ open' \subseteq o
  /\ \A d \in o \ open' : r[d] = 0
  /\ refs' = r
  /\ eng' \in [Names -> Nat] /\ used' \in [Names -> Nat]
  /\ \A d \in Names : d \in open' \/ d \notin o => eng'[d] = e[d]
  /\ \A d \in o \ open' : eng'[d] = NoEngine
  /\ \A d \in Names : used'[d] = u[d] \/ used'[d] = 0
  /\ \A d \in open' : used'[d] = u[d]
  /\ live' = l \ {e[d] : d \in o \ open'}

\* Eviction closes idle engines, with their entries, and touches nothing else.
LEMMA EvictLeaves ==
  ASSUME NEW o \in SUBSET Names, NEW e \in [Names -> Nat], NEW r \in [Names -> Nat],
         NEW u \in [Names -> Nat], NEW l \in SUBSET Nat,
         evictLocked(o, e, r, u, l)
  PROVE  OnlyIdleClosed(o, e, r, u, l)
<1>1. PICK V \in SUBSET o :
        /\ Victims(V, o, r, u)
        /\ open' = o \ V
        /\ eng'  = [d \in Names |-> IF d \in V THEN NoEngine ELSE e[d]]
        /\ refs' = r
        /\ used' = [d \in Names |-> IF d \in V THEN 0 ELSE u[d]]
        /\ live' = l \ {e[v] : v \in V}
  BY DEF evictLocked
<1>2. V = o \ open'
  BY <1>1
<1>3. \A d \in V : r[d] = 0
  BY <1>1 DEF Victims, Idle
<1>4. NoEngine \in Nat
  BY DEF NoEngine
<1> QED BY <1>1, <1>2, <1>3, <1>4 DEF OnlyIdleClosed

\* Eviction stops at the cap, or when every engine left is in use.
LEMMA EvictReachesCap ==
  ASSUME NEW o \in SUBSET Names, NEW e \in [Names -> Nat], NEW r \in [Names -> Nat],
         NEW u \in [Names -> Nat], NEW l \in SUBSET Nat,
         evictLocked(o, e, r, u, l)
  PROVE  OverCapOnlyInUse'
<1> DEFINE I == Idle(o, r)
<1>1. PICK V \in SUBSET o :
        /\ V \subseteq I
        /\ Cardinality(V) =
             IF Cardinality(o) <= MaxOpen
             THEN 0
             ELSE SmallerOf(Cardinality(o) - MaxOpen, Cardinality(I))
        /\ open' = o \ V
        /\ refs' = r
  BY DEF evictLocked, Victims
<1>2. IsFiniteSet(o) /\ IsFiniteSet(I) /\ IsFiniteSet(V) /\ I \subseteq o
  <2>1. IsFiniteSet(o)
    BY FS_Subset, ClusterAssumption DEF ClusterAssumption
  <2>2. I \subseteq o /\ V \subseteq o
    BY <1>1 DEF Idle
  <2> QED BY <2>1, <2>2, FS_Subset
<1>3. /\ Cardinality(o) \in Nat /\ Cardinality(I) \in Nat /\ Cardinality(V) \in Nat
      /\ MaxOpen \in Nat
  BY <1>2, FS_CardinalityType, ClusterAssumption DEF ClusterAssumption
<1>4. Cardinality(o \ V) = Cardinality(o) - Cardinality(V)
  <2>1. o \cap V = V
    OBVIOUS
  <2> QED BY <2>1, <1>2, FS_Difference
<1>5. SUFFICES ASSUME Cardinality(o \ V) > MaxOpen, NEW d \in o \ V
               PROVE  r[d] > 0
  BY <1>1 DEF OverCapOnlyInUse
<1> HIDE DEF I
<1>6. Cardinality(V) = Cardinality(I)
  BY <1>1, <1>3, <1>4, <1>5 DEF SmallerOf
<1>7. V = I
  BY <1>1, <1>2, <1>6, FS_Subset
<1>8. r[d] # 0
  BY <1>5, <1>7 DEF I, Idle
<1>9. r[d] \in Nat
  BY <1>5
<1> QED BY <1>8, <1>9

\* The table that is left when a new engine was entered under d.
Entered(d, count) ==
  /\ seq' = seq + 1
  /\ files' = files \cup {d}
  /\ open' \subseteq open \cup {d}
  /\ refs' = [refs EXCEPT ![d] = count]
  /\ \A x \in (open \cup {d}) \ open' : refs'[x] = 0
  /\ eng' \in [Names -> Nat] /\ used' \in [Names -> Nat]
  /\ \A x \in open' : eng'[x] = IF x = d THEN seq + 1 ELSE eng[x]
  /\ \A x \in (open \cup {d}) \ open' : eng'[x] = NoEngine
  /\ \A x \in Names \ (open \cup {d}) : eng'[x] = eng[x]
  /\ \A x \in Names : used'[x] \in {0, seq + 1, used[x]}
  /\ live' = (live \cup {seq + 1})
               \ {IF x = d THEN seq + 1 ELSE eng[x] : x \in (open \cup {d}) \ open'}
  /\ OverCapOnlyInUse'

\* A method that enters a new engine evicts, the new entry's included.
LEMMA EnterLeaves ==
  ASSUME TypeOK, NEW d \in Names, NEW count \in Nat, Enter(d, count)
  PROVE  Entered(d, count)
<1>0. /\ open \cup {d} \in SUBSET Names
      /\ [eng  EXCEPT ![d] = seq + 1] \in [Names -> Nat]
      /\ [refs EXCEPT ![d] = count] \in [Names -> Nat]
      /\ [used EXCEPT ![d] = seq + 1] \in [Names -> Nat]
      /\ live \cup {seq + 1} \in SUBSET Nat
  BY DEF TypeOK
<1>a. PICK o \in SUBSET Names : o = open \cup {d}
  BY <1>0, Zenon
<1>b. PICK e \in [Names -> Nat] : e = [eng EXCEPT ![d] = seq + 1]
  BY <1>0, Zenon
<1>c. PICK r \in [Names -> Nat] : r = [refs EXCEPT ![d] = count]
  BY <1>0, Zenon
<1>d. PICK u \in [Names -> Nat] : u = [used EXCEPT ![d] = seq + 1]
  BY <1>0, Zenon
<1>e. PICK l \in SUBSET Nat : l = live \cup {seq + 1}
  BY <1>0, Zenon
<1>1. /\ o = open \cup {d}
      /\ e = [eng  EXCEPT ![d] = seq + 1]
      /\ r = [refs EXCEPT ![d] = count]
      /\ u = [used EXCEPT ![d] = seq + 1]
      /\ l = live \cup {seq + 1}
  BY <1>a, <1>b, <1>c, <1>d, <1>e
<1>2. evictLocked(o, e, r, u, l)
  BY <1>1 DEF Enter, NewEngine
<1>3. \A x \in Names : e[x] = IF x = d THEN seq + 1 ELSE eng[x]
  BY <1>1 DEF TypeOK
<1>4. \A x \in Names : u[x] \in {seq + 1, used[x]}
  BY <1>1 DEF TypeOK
<1>6. OverCapOnlyInUse'
  BY <1>2, EvictReachesCap
<1>7. OnlyIdleClosed(o, e, r, u, l)
  BY <1>2, EvictLeaves
<1>8. seq' = seq + 1 /\ files' = files \cup {d}
  BY DEF Enter
<1>9. {e[x] : x \in o \ open'} = {IF x = d THEN seq + 1 ELSE eng[x] : x \in o \ open'}
  BY <1>1, <1>3
<1> QED BY <1>1, <1>3, <1>4, <1>6, <1>7, <1>8, <1>9 DEF OnlyIdleClosed, Entered

-----------------------------------------------------------------------------
(* The directory at start, and the connections on a database. *)

\* The table of a process that has just started.
StartTable(fl, op, en, us, sq, lv) ==
  /\ fl \in SUBSET Names /\ op \subseteq fl
  /\ en \in [Names -> Nat] /\ us \in [Names -> Nat] /\ sq \in Nat
  /\ lv \subseteq 1 .. sq
  /\ \A d \in Names : us[d] <= sq
  /\ lv = {en[d] : d \in op}
  /\ \A d \in Names \ op : en[d] = NoEngine
  /\ \A d, n \in op : en[d] = en[n] => d = n
  /\ Cardinality(op) <= MaxOpen

\* OpenCluster leaves such a table, at the first start and after a crash.
LEMMA StartKnown ==
  ASSUME NEW f \in SUBSET Names, NEW fl, NEW op, NEW en, NEW us, NEW sq, NEW lv,
         OpenCluster(f, fl, op, en, us, sq, lv)
  PROVE  StartTable(fl, op, en, us, sq, lv)
<1> DEFINE C == Created(f)
<1>1. Entry \in Names /\ Maintenance \in Names /\ MaxOpen \in Nat /\ MaxOpen >= 1
  BY ClusterAssumption DEF ClusterAssumption
<1>2. \/ C = {} /\ Cardinality(C) = 0
      \/ C = {Entry} /\ Cardinality(C) = 1
      \/ C = {Maintenance} /\ Cardinality(C) = 1
      \/ Entry # Maintenance /\ C = {Entry, Maintenance} /\ Cardinality(C) = 2
  <2>1. C = {} \/ C = {Entry} \/ C = {Maintenance}
          \/ (Entry # Maintenance /\ C = {Entry, Maintenance})
    BY DEF Created
  <2>2. Cardinality({}) = 0
    BY FS_EmptySet
  <2>3. Cardinality({Entry}) = 1 /\ Cardinality({Maintenance}) = 1
    BY FS_Singleton
  <2>4. ASSUME Entry # Maintenance PROVE Cardinality({Entry, Maintenance}) = 2
    <3>1. IsFiniteSet({Entry}) /\ Maintenance \notin {Entry}
      BY <2>4, FS_Singleton
    <3>2. Cardinality({Entry} \cup {Maintenance}) = 2
      BY <2>3, <3>1, FS_AddElement
    <3>3. {Entry} \cup {Maintenance} = {Entry, Maintenance}
      OBVIOUS
    <3> QED BY <3>2, <3>3
  <2> QED BY <2>1, <2>2, <2>3, <2>4
<1> HIDE DEF C
<1>3. /\ fl = f \cup {Entry, Maintenance} /\ sq = Cardinality(C)
      /\ op = IF Cardinality(C) > MaxOpen THEN {Maintenance} ELSE C
      /\ en = [d \in Names |-> StartSeq(f, d)]
      /\ us = [d \in Names |-> StartSeq(f, d)]
      /\ lv = {StartSeq(f, d) : d \in op}
      /\ op \subseteq Names
  BY <1>1, <1>2 DEF OpenCluster, OpenedAtStart, C
<1>4. \A d \in Names : StartSeq(f, d) = IF d \notin op THEN 0
                                         ELSE IF d = Entry THEN 1 ELSE Cardinality(C)
  BY <1>3 DEF StartSeq, OpenedAtStart, C
<1>5. \A d \in op : StartSeq(f, d) \in 1 .. Cardinality(C)
  BY <1>1, <1>2, <1>3, <1>4
<1>6. \A d \in Names : StartSeq(f, d) \in Nat /\ StartSeq(f, d) <= Cardinality(C)
  BY <1>2, <1>4, <1>5
<1>7. \A d, n \in op : StartSeq(f, d) = StartSeq(f, n) => d = n
  BY <1>1, <1>2, <1>3, <1>4
<1>8. Cardinality(op) <= MaxOpen
  BY <1>1, <1>2, <1>3, FS_Singleton
<1>9. op \subseteq fl /\ fl \in SUBSET Names
  BY <1>1, <1>2, <1>3
<1>10. lv = {en[d] : d \in op}
  BY <1>3
<1> QED BY <1>2, <1>3, <1>4, <1>5, <1>6, <1>7, <1>8, <1>9, <1>10
        DEF NoEngine, StartTable

\* The connections on a database are finitely many.
LEMMA HoldersFinite ==
  ASSUME NEW d
  PROVE  IsFiniteSet(Holders(d)) /\ Cardinality(Holders(d)) \in Nat
<1>1. Holders(d) \subseteq Clients /\ IsFiniteSet(Clients)
  BY ClusterAssumption DEF Holders, ClusterAssumption
<1> QED BY <1>1, FS_Subset, FS_CardinalityType

\* A connection that gets its engine is one more holder of its database.
LEMMA OneJoins ==
  ASSUME TypeOK, NEW c \in Clients, NEW d \in Names,
         db[c] = d, ~ Connected(c), pc' = [pc EXCEPT ![c] = "in"], db' = db
  PROVE  /\ Cardinality(Holders(d)') = Cardinality(Holders(d)) + 1
         /\ \A x \in Names \ {d} : Holders(x)' = Holders(x)
<1>1. Holders(d)' = Holders(d) \cup {c} /\ c \notin Holders(d)
  BY DEF Holders, Connected, TypeOK
<1>2. \A x \in Names \ {d} : Holders(x)' = Holders(x)
  BY DEF Holders, Connected, TypeOK
<1>3. IsFiniteSet(Holders(d))
  BY HoldersFinite
<1> QED BY <1>1, <1>2, <1>3, FS_AddElement

\* One that is released is one less.
LEMMA OneLeaves ==
  ASSUME TypeOK, NEW c \in Clients, NEW d \in Names,
         db[c] = d, Connected(c), pc' = [pc EXCEPT ![c] = "out"],
         db' = [db EXCEPT ![c] = NoName]
  PROVE  /\ Cardinality(Holders(d)') = Cardinality(Holders(d)) - 1
         /\ Cardinality(Holders(d)) > 0
         /\ \A x \in Names \ {d} : Holders(x)' = Holders(x)
<1>1. Holders(d)' = Holders(d) \ {c} /\ c \in Holders(d)
  BY DEF Holders, Connected, TypeOK
<1>2. \A x \in Names \ {d} : Holders(x)' = Holders(x)
  BY DEF Holders, Connected, TypeOK
<1>3. IsFiniteSet(Holders(d)) /\ Cardinality(Holders(d)) \in Nat
  BY HoldersFinite
<1>4. Cardinality(Holders(d)) # 0
  BY <1>1, <1>3, FS_EmptySet
<1>5. Cardinality(Holders(d) \ {c}) = Cardinality(Holders(d)) - 1
  BY <1>1, <1>3, FS_RemoveElement
<1>6. Cardinality(Holders(d)) > 0
  BY <1>3, <1>4
<1> QED BY <1>1, <1>2, <1>5, <1>6

-----------------------------------------------------------------------------
(* Typing. *)

\* The process starts with variables in their ranges.
LEMMA InitTyped == Init => TypeOK
<1> SUFFICES ASSUME Init PROVE TypeOK
  OBVIOUS
<1>1. PICK f \in SUBSET Names : OpenCluster(f, files, open, eng, used, seq, live)
  BY DEF Init
<1>2. StartTable(files, open, eng, used, seq, live)
  BY <1>1, StartKnown
<1>3. /\ files \in SUBSET Names /\ open \in SUBSET Names /\ live \in SUBSET Nat
      /\ eng \in [Names -> Nat] /\ used \in [Names -> Nat] /\ seq \in Nat
  BY <1>2 DEF StartTable
<1>4. refs \in [Names -> Nat] /\ held \in [Clients -> Nat]
  BY DEF Init, NoEngine
<1>5. /\ pc \in [Clients -> States] /\ db \in [Clients -> Names]
      /\ target \in [Clients -> Names]
  BY ClusterAssumption DEF Init, NoName, States, ClusterAssumption
<1> QED BY <1>3, <1>4, <1>5 DEF TypeOK

\* What Restart leaves of the table.
LEMMA RestartKnown ==
  ASSUME TypeOK, Restart
  PROVE  StartTable(files', open', eng', used', seq', live')
<1>1. PICK f : /\ f \in SUBSET Names
               /\ OpenCluster(f, files', open', eng', used', seq', live')
  <2>1. PICK made \in SUBSET InProgress :
          OpenCluster(files \cup made, files', open', eng', used', seq', live')
    BY DEF Restart
  <2>2. files \cup made \in SUBSET Names
    BY DEF InProgress, TypeOK
  <2> QED BY <2>1, <2>2
<1> QED BY <1>1, StartKnown

\* Every step keeps them there.
LEMMA StepTyped == TypeOK /\ [Next]_vars => TypeOK'
<1> SUFFICES ASSUME TypeOK, [Next]_vars PROVE TypeOK'
  OBVIOUS
<1> USE ClusterAssumption DEF ClusterAssumption, States, NoEngine
<1>1. CASE UNCHANGED vars
  BY <1>1 DEF vars, TypeOK
<1>2. CASE Restart
  <2>1. /\ files' \in SUBSET Names /\ open' \in SUBSET Names /\ live' \in SUBSET Nat
        /\ eng' \in [Names -> Nat] /\ used' \in [Names -> Nat] /\ seq' \in Nat
    BY <1>2, RestartKnown DEF StartTable
  <2>2. refs' \in [Names -> Nat] /\ held' \in [Clients -> Nat]
    BY <1>2 DEF Restart
  <2>3. /\ pc' \in [Clients -> States] /\ db' \in [Clients -> Names]
        /\ target' \in [Clients -> Names]
    BY <1>2 DEF Restart, NoName
  <2> QED BY <2>1, <2>2, <2>3 DEF TypeOK
<1>3. ASSUME NEW c \in Clients, ConnectionStep(c) PROVE TypeOK'
  <2> DEFINE Typed == files' \in SUBSET Names /\ open' \in SUBSET Names
                      /\ eng' \in [Names -> Nat] /\ refs' \in [Names -> Nat]
                      /\ used' \in [Names -> Nat] /\ seq' \in Nat /\ live' \in SUBSET Nat
  <2>0. ASSUME NEW d \in Names, NEW count \in Nat, Enter(d, count) PROVE Typed
    <3>1. Entered(d, count)
      BY <2>0, EnterLeaves
    <3>2. seq \in Nat /\ live \subseteq Nat /\ seq + 1 \in Nat
      BY DEF TypeOK
    <3>3. live' \subseteq live \cup {seq + 1}
      BY <3>1 DEF Entered
    <3>4. seq' = seq + 1
      BY <3>1 DEF Entered
    <3>5. live' \in SUBSET Nat
      BY <3>2, <3>3
    <3>6. files' \in SUBSET Names /\ open' \in SUBSET Names /\ refs' \in [Names -> Nat]
      BY <3>1 DEF Entered, TypeOK
    <3>7. eng' \in [Names -> Nat] /\ used' \in [Names -> Nat]
      BY <3>1 DEF Entered
    <3> QED BY <3>2, <3>4, <3>5, <3>6, <3>7
  <2>1. ASSUME NEW d \in Names, EngineCheck(c, d) \/ CreateCheck(c, d) \/ DropCheck(c, d)
        PROVE  TypeOK'
    <3>1. CASE EngineCheck(c, d)
      BY <3>1 DEF EngineCheck, TypeOK, table
    <3>2. CASE CreateCheck(c, d)
      BY <3>2 DEF CreateCheck, TypeOK, table
    <3>3. CASE DropCheck(c, d)
      BY <3>3 DEF DropCheck, TypeOK, table
    <3> QED BY <2>1, <3>1, <3>2, <3>3
  <2>2. CASE EngineShare(c)
    <3>1. /\ seq' \in Nat /\ refs' \in [Names -> Nat] /\ used' \in [Names -> Nat]
          /\ UNCHANGED <<files, open, eng, live, db, target>>
      BY <2>2 DEF EngineShare, TypeOK
    <3>2. pc' \in [Clients -> States] /\ held' \in [Clients -> Nat]
      BY <2>2 DEF EngineShare, TypeOK
    <3> QED BY <3>1, <3>2 DEF TypeOK
  <2>3. CASE EngineOpen(c)
    <3>1. Typed
      BY <2>0, <2>3 DEF EngineOpen, TypeOK
    <3> QED BY <2>3, <3>1 DEF EngineOpen, TypeOK, NewEngine
  <2>4. CASE EngineFails(c) \/ CreateFails(c)
    <3>1. \E d \in Names : files' \in {files, files \cup {d}}
      BY <2>4 DEF EngineFails, CreateFails, TypeOK
    <3>2. files' \in SUBSET Names
      BY <3>1 DEF TypeOK
    <3>3. pc' \in [Clients -> States]
      BY <2>4 DEF EngineFails, CreateFails, Answered, TypeOK
    <3>4. db' \in [Clients -> Names] /\ target' \in [Clients -> Names]
      BY <2>4 DEF EngineFails, CreateFails, Answered, TypeOK, NoName
    <3>5. UNCHANGED <<open, eng, refs, used, seq, live, held>>
      BY <2>4 DEF EngineFails, CreateFails, table
    <3> QED BY <3>2, <3>3, <3>4, <3>5 DEF TypeOK
  <2>5. CASE Release(c)
    <3>1. PICK r \in [Names -> Nat] : evictLocked(open, eng, r, used, live)
      <4> DEFINE R == [refs EXCEPT ![db[c]] =
                          IF db[c] \in open /\ refs[db[c]] > 0 THEN @ - 1 ELSE @]
      <4>1. R \in [Names -> Nat]
        BY DEF TypeOK
      <4>2. evictLocked(open, eng, R, used, live)
        BY <2>5 DEF Release
      <4> HIDE DEF R
      <4> QED BY <4>1, <4>2
    <3>2. OnlyIdleClosed(open, eng, r, used, live)
      BY <3>1, EvictLeaves DEF TypeOK
    <3>3. Typed
      BY <2>5, <3>2 DEF OnlyIdleClosed, TypeOK, Release
    <3> QED BY <2>5, <3>3 DEF Release, TypeOK, NoName
  <2>6. CASE CreateLocked(c)
    <3>1. Typed
      BY <2>0, <2>6 DEF CreateLocked, TypeOK
    <3> QED BY <2>6, <3>1 DEF CreateLocked, Answered, TypeOK, NoName
  <2>7. CASE DropBusy(c) \/ DropGiveUp(c)
    BY <2>7 DEF DropBusy, DropGiveUp, Answered, TypeOK, table, NoName
  <2>8. CASE DropLocked(c)
    BY <2>8 DEF DropLocked, Answered, TypeOK, NoName
  <2> QED BY <1>3, <2>1, <2>2, <2>3, <2>4, <2>5, <2>6, <2>7, <2>8 DEF ConnectionStep
<1> QED BY <1>1, <1>2, <1>3 DEF Next

\* The table, the counts and the connections keep their types: a count never
\* becomes negative, whatever entries come and go under a connection.
THEOREM TypeCorrect == Spec => []TypeOK
<1> QED BY InitTyped, StepTyped, PTL DEF Spec

-----------------------------------------------------------------------------
(* The inductive step, action by action. *)

\* A process that has just started.
Fresh ==
  /\ TypeOK
  /\ StartTable(files, open, eng, used, seq, live)
  /\ refs = [d \in Names |-> 0]
  /\ pc = [c \in Clients |-> "out"]

\* A new process has no holder and has lost no engine.
LEMMA FreshStart == Fresh => IInv
<1> SUFFICES ASSUME Fresh PROVE IInv
  OBVIOUS
<1> USE DEF Fresh
<1>1. EnginesKnown /\ OpenHasFile
  BY DEF StartTable, EnginesKnown, OpenHasFile, TypeOK
<1>2. \A d : Holders(d) = {}
  BY DEF Holders, Connected
<1>3. \A d : Cardinality(Holders(d)) = 0
  BY <1>2, FS_EmptySet
<1>4. \A d \in open : refs[d] = 0
  BY DEF TypeOK
<1>5. RefsAreHeld
  BY <1>3, <1>4 DEF RefsAreHeld
<1>6. \A c \in Clients : ~ Connected(c)
  BY DEF Connected
<1>7. ExactUnlessLeaked
  BY <1>3, <1>4, <1>6 DEF ExactUnlessLeaked
<1>8. OverCapOnlyInUse
  <2>1. IsFiniteSet(open)
    BY FS_Subset, ClusterAssumption DEF ClusterAssumption, TypeOK
  <2>2. Cardinality(open) \in Nat /\ MaxOpen \in Nat /\ Cardinality(open) <= MaxOpen
    BY <2>1, FS_CardinalityType, ClusterAssumption DEF ClusterAssumption, StartTable
  <2> QED BY <2>2 DEF OverCapOnlyInUse
<1> QED BY <1>1, <1>5, <1>7, <1>8 DEF IInv

\* Steps that touch neither the table nor the set of holders.
LEMMA Unconcerned ==
  ASSUME IInv, TypeOK', files \subseteq files',
         UNCHANGED <<open, eng, refs, used, seq, live, held>>,
         \A c \in Clients : /\ Connected(c)' = Connected(c)
                            /\ Connected(c) => db'[c] = db[c]
  PROVE  IInv'
<1>1. \A d : Holders(d)' = Holders(d)
  BY DEF Holders
<1>2. EnginesKnown' /\ OpenHasFile'
  BY DEF IInv, EnginesKnown, OpenHasFile
<1>3. RefsAreHeld' /\ OverCapOnlyInUse'
  BY <1>1 DEF IInv, RefsAreHeld, OverCapOnlyInUse
<1>4. ExactUnlessLeaked'
  BY <1>1 DEF IInv, ExactUnlessLeaked, Leaked
<1> QED BY <1>2, <1>3, <1>4 DEF IInv

\* Engine finds the database open.
LEMMA ShareKeeps ==
  ASSUME IInv, TypeOK', NEW c \in Clients, EngineShare(c)
  PROVE  IInv'
<1>1. PICK d \in Names : d = db[c]
  BY DEF IInv, TypeOK
<1>2. /\ d \in open /\ open' = open /\ eng' = eng /\ live' = live /\ seq' = seq + 1
      /\ files' = files /\ refs' = [refs EXCEPT ![d] = @ + 1]
      /\ used' = [used EXCEPT ![d] = seq + 1] /\ db' = db
      /\ pc' = [pc EXCEPT ![c] = "in"] /\ held' = [held EXCEPT ![c] = eng[d]]
      /\ ~ Connected(c)
  BY <1>1 DEF EngineShare, Connected
<1>3. /\ Cardinality(Holders(d)') = Cardinality(Holders(d)) + 1
      /\ \A x \in Names \ {d} : Holders(x)' = Holders(x)
  BY <1>1, <1>2, OneJoins DEF IInv
<1>4. \A x \in open : /\ refs'[x] = IF x = d THEN refs[x] + 1 ELSE refs[x]
                      /\ x \in Names /\ refs[x] \in Nat
  BY <1>2 DEF IInv, TypeOK
<1>5. Cardinality(Holders(d)) \in Nat
  BY HoldersFinite
<1>6. EnginesKnown' /\ OpenHasFile'
  BY <1>2 DEF IInv, EnginesKnown, OpenHasFile, TypeOK
<1>7. RefsAreHeld'
  BY <1>2, <1>3, <1>4, <1>5 DEF IInv, RefsAreHeld
<1>8. OverCapOnlyInUse'
  BY <1>2, <1>4 DEF IInv, OverCapOnlyInUse
<1>9. ASSUME Leaked' = {}
      PROVE  /\ \A x \in open' : refs'[x] = Cardinality(Holders(x)')
             /\ \A b \in Clients :
                  Connected(b)' => /\ db'[b] \in open'
                                   /\ held'[b] = eng'[db'[b]]
                                   /\ held'[b] \in live'
  <2>1. Leaked = {}
    BY <1>2, <1>9 DEF Leaked
  <2>2. \A x \in open' : refs'[x] = Cardinality(Holders(x)')
    BY <1>2, <1>3, <1>4, <2>1 DEF IInv, ExactUnlessLeaked
  <2>3. ASSUME NEW b \in Clients, Connected(b)'
        PROVE  db'[b] \in open' /\ held'[b] = eng'[db'[b]] /\ held'[b] \in live'
    <3>1. CASE b = c
      BY <1>1, <1>2, <3>1 DEF IInv, TypeOK, EnginesKnown
    <3>2. CASE b # c
      <4>1. Connected(b) /\ held'[b] = held[b]
        BY <1>2, <2>3, <3>2 DEF Connected, IInv, TypeOK
      <4> QED BY <1>2, <2>1, <4>1 DEF IInv, ExactUnlessLeaked
    <3> QED BY <3>1, <3>2
  <2> QED BY <2>2, <2>3
<1>10. ExactUnlessLeaked'
  BY <1>9 DEF ExactUnlessLeaked
<1> QED BY <1>6, <1>7, <1>8, <1>10 DEF IInv

\* A new engine entered under d: when no engine is lost then, none was
\* before, and d was not open.
LEMMA EnterKnown ==
  ASSUME IInv, TypeOK', NEW d \in Names, NEW count \in Nat, Enter(d, count)
  PROVE  /\ EnginesKnown' /\ OpenHasFile' /\ OverCapOnlyInUse'
         /\ Leaked' = {} => Leaked = {} /\ d \notin open
<1> USE DEF IInv
<1>1. /\ seq' = seq + 1
      /\ files' = files \cup {d}
      /\ open' \subseteq open \cup {d}
      /\ used' \in [Names -> Nat]
      /\ \A x \in open' : eng'[x] = IF x = d THEN seq + 1 ELSE eng[x]
      /\ \A x \in (open \cup {d}) \ open' : eng'[x] = NoEngine
      /\ \A x \in Names \ (open \cup {d}) : eng'[x] = eng[x]
      /\ \A x \in Names : used'[x] \in {0, seq + 1, used[x]}
      /\ OverCapOnlyInUse'
  BY EnterLeaves DEF Entered
<1>2. live' = (live \cup {seq + 1})
                \ {IF x = d THEN seq + 1 ELSE eng[x] : x \in (open \cup {d}) \ open'}
  BY EnterLeaves DEF Entered
<1>3. \A z : z \in live' <=>
        /\ z \in live \/ z = seq + 1
        /\ \A x \in (open \cup {d}) \ open' : z # IF x = d THEN seq + 1 ELSE eng[x]
  BY <1>2
<1>4. seq \in Nat /\ live \subseteq 1 .. seq /\ open \subseteq Names
  BY DEF EnginesKnown, TypeOK
<1>5. \A z \in live : z # seq + 1
  BY <1>4
<1>6. \A x, y \in open : eng[x] \in live /\ (eng[x] = eng[y] => x = y)
  BY DEF EnginesKnown
<1>7. \A x \in open' : eng'[x] \in live'
  <2> SUFFICES ASSUME NEW x \in open' PROVE eng'[x] \in live'
    OBVIOUS
  <2>1. CASE x = d
    BY <1>1, <1>3, <1>5, <1>6, <2>1
  <2>2. CASE x # d
    <3>1. x \in open /\ eng'[x] = eng[x] /\ eng[x] \in live
      BY <1>1, <1>6, <2>2
    <3>2. \A y \in (open \cup {d}) \ open' : eng[x] # IF y = d THEN seq + 1 ELSE eng[y]
      BY <1>5, <1>6, <3>1
    <3> QED BY <1>3, <3>1, <3>2
  <2> QED BY <2>1, <2>2
<1>8. EnginesKnown'
  <2>1. live' \subseteq 1 .. seq'
    <3>1. live' \subseteq live \cup {seq + 1}
      BY <1>2
    <3> QED BY <1>1, <1>4, <3>1
  <2>2. \A x \in Names : used'[x] <= seq'
    BY <1>1, <1>4 DEF EnginesKnown, TypeOK
  <2>3. \A x \in Names \ open' : eng'[x] = NoEngine
    BY <1>1 DEF EnginesKnown
  <2>4. \A x, y \in open' : eng'[x] = eng'[y] => x = y
    BY <1>1, <1>5, <1>6
  <2> QED BY <1>7, <2>1, <2>2, <2>3, <2>4 DEF EnginesKnown
<1>9. OpenHasFile'
  BY <1>1 DEF OpenHasFile
<1>10. ASSUME NEW z \in Leaked PROVE z \in Leaked'
  <2>1. z \in live /\ z # seq + 1 /\ \A x \in open : z # eng[x]
    BY <1>5 DEF Leaked
  <2>2. z \in live'
    BY <1>3, <2>1
  <2>3. \A x \in open' : z # eng'[x]
    BY <1>1, <2>1
  <2> QED BY <2>2, <2>3 DEF Leaked
<1>11. ASSUME d \in open PROVE eng[d] \in Leaked'
  <2>1. eng[d] \in live /\ eng[d] # seq + 1
    BY <1>5, <1>6, <1>11
  <2>2. \A x \in open : x # d => eng[d] # eng[x]
    BY <1>6, <1>11
  <2>3. \A x \in (open \cup {d}) \ open' : eng[d] # IF x = d THEN seq + 1 ELSE eng[x]
    BY <2>1, <2>2
  <2>4. eng[d] \in live'
    BY <1>3, <2>1, <2>3
  <2>5. \A x \in open' : eng[d] # eng'[x]
    BY <1>1, <1>11, <2>1, <2>2
  <2>6. \A x : eng[d] \in live' /\ (x \in {eng'[y] : y \in open'} => x # eng[d])
    BY <2>4, <2>5
  <2> QED BY <2>6 DEF Leaked
<1>12. Leaked' = {} => Leaked = {} /\ d \notin open
  BY <1>10, <1>11
<1> QED BY <1>1, <1>8, <1>9, <1>12

\* Engine opens the database.
LEMMA OpenKeeps ==
  ASSUME IInv, TypeOK', NEW c \in Clients, EngineOpen(c)
  PROVE  IInv'
<1> USE DEF IInv
<1>1. PICK d \in Names : d = db[c]
  BY DEF TypeOK
<1>2. /\ d \notin open /\ Enter(d, 1) /\ pc[c] = "opening" /\ ~ Connected(c)
      /\ pc' = [pc EXCEPT ![c] = "in"] /\ held' = [held EXCEPT ![c] = seq + 1]
      /\ db' = db
  BY <1>1 DEF EngineOpen, NewEngine, Connected
<1>3. /\ EnginesKnown' /\ OpenHasFile' /\ OverCapOnlyInUse'
      /\ Leaked' = {} => Leaked = {}
  BY <1>2, EnterKnown
<1>4. /\ open' \subseteq open \cup {d}
      /\ refs' = [refs EXCEPT ![d] = 1]
      /\ \A x \in (open \cup {d}) \ open' : refs'[x] = 0
      /\ \A x \in open' : eng'[x] = IF x = d THEN seq + 1 ELSE eng[x]
  BY <1>2, EnterLeaves DEF Entered
<1>5. \A x \in Names : refs'[x] = IF x = d THEN 1 ELSE refs[x]
  BY <1>4 DEF TypeOK
<1>6. /\ Cardinality(Holders(d)') = Cardinality(Holders(d)) + 1
      /\ \A x \in Names \ {d} : Holders(x)' = Holders(x)
      /\ Cardinality(Holders(d)) \in Nat
  BY <1>1, <1>2, OneJoins, HoldersFinite
<1>7. d \in open'
  BY <1>4, <1>5
<1>8. \A x \in open' : x \in Names /\ (x # d => x \in open)
  BY <1>4 DEF TypeOK
<1>9. RefsAreHeld'
  BY <1>5, <1>6, <1>8 DEF RefsAreHeld
<1>10. ASSUME Leaked' = {}
       PROVE  /\ \A x \in open' : refs'[x] = Cardinality(Holders(x)')
              /\ \A b \in Clients :
                   Connected(b)' => /\ db'[b] \in open'
                                    /\ held'[b] = eng'[db'[b]]
                                    /\ held'[b] \in live'
  <2>1. /\ \A x \in open : refs[x] = Cardinality(Holders(x))
        /\ \A b \in Clients : Connected(b) => /\ db[b] \in open
                                              /\ held[b] = eng[db[b]]
                                              /\ held[b] \in live
    BY <1>3, <1>10 DEF ExactUnlessLeaked
  <2>2. Holders(d) = {}
    BY <1>2, <2>1 DEF Holders
  <2>3. Cardinality(Holders(d)) = 0
    BY <2>2, FS_EmptySet
  <2>4. \A x \in open' : refs'[x] = Cardinality(Holders(x)')
    BY <1>5, <1>6, <1>8, <2>1, <2>3
  <2>5. ASSUME NEW b \in Clients, Connected(b)'
        PROVE  db'[b] \in open' /\ held'[b] = eng'[db'[b]] /\ held'[b] \in live'
    <3>1. CASE b = c
      BY <1>1, <1>2, <1>3, <1>4, <1>7, <3>1 DEF TypeOK, EnginesKnown
    <3>2. CASE b # c
      <4>1. Connected(b) /\ held'[b] = held[b] /\ db'[b] = db[b]
        BY <1>2, <2>5, <3>2 DEF Connected, TypeOK
      <4>2. b \in Holders(db[b]) /\ db[b] \in open /\ db[b] \in Names /\ db[b] # d
        BY <1>2, <2>1, <4>1 DEF Holders, TypeOK
      <4>3. Cardinality(Holders(db[b])) # 0
        BY <4>2, HoldersFinite, FS_EmptySet
      <4>4. db[b] \in open'
        BY <1>4, <1>5, <2>1, <4>2, <4>3
      <4>5. held'[b] = eng'[db'[b]]
        BY <1>4, <2>1, <4>1, <4>2, <4>4
      <4> QED BY <1>3, <4>1, <4>4, <4>5 DEF EnginesKnown
    <3> QED BY <3>1, <3>2
  <2> QED BY <2>4, <2>5
<1>11. ExactUnlessLeaked'
  BY <1>10 DEF ExactUnlessLeaked
<1> QED BY <1>3, <1>9, <1>11

\* CREATE DATABASE enters its new engine.
LEMMA CreateKeeps ==
  ASSUME IInv, TypeOK', NEW c \in Clients, CreateLocked(c)
  PROVE  IInv'
<1> USE DEF IInv
<1>1. PICK d \in Names : d = target[c]
  BY DEF TypeOK
<1>2. /\ Enter(d, 0) /\ pc[c] = "creating" /\ pc' = [pc EXCEPT ![c] = "in"]
      /\ held' = held /\ db' = db
  BY <1>1 DEF CreateLocked, Answered
<1>3. /\ EnginesKnown' /\ OpenHasFile' /\ OverCapOnlyInUse'
      /\ Leaked' = {} => Leaked = {} /\ d \notin open
  BY <1>2, EnterKnown
<1>4. /\ open' \subseteq open \cup {d}
      /\ refs' = [refs EXCEPT ![d] = 0]
      /\ \A x \in (open \cup {d}) \ open' : refs'[x] = 0
      /\ \A x \in open' : eng'[x] = IF x = d THEN seq + 1 ELSE eng[x]
  BY <1>2, EnterLeaves DEF Entered
<1>5. \A x \in Names : refs'[x] = IF x = d THEN 0 ELSE refs[x]
  BY <1>4 DEF TypeOK
<1>6. \A b \in Clients : Connected(b)' = Connected(b)
  BY <1>2 DEF Connected, TypeOK
<1>7. \A x : Holders(x)' = Holders(x)
  BY <1>2, <1>6 DEF Holders
<1>8. \A x \in open' : x \in Names /\ (x # d => x \in open)
  BY <1>4 DEF TypeOK
<1>9. RefsAreHeld'
  BY <1>5, <1>7, <1>8, HoldersFinite DEF RefsAreHeld
<1>10. ASSUME Leaked' = {}
       PROVE  /\ \A x \in open' : refs'[x] = Cardinality(Holders(x)')
              /\ \A b \in Clients :
                   Connected(b)' => /\ db'[b] \in open'
                                    /\ held'[b] = eng'[db'[b]]
                                    /\ held'[b] \in live'
  <2>1. /\ \A x \in open : refs[x] = Cardinality(Holders(x))
        /\ \A b \in Clients : Connected(b) => /\ db[b] \in open
                                              /\ held[b] = eng[db[b]]
                                              /\ held[b] \in live
        /\ d \notin open
    BY <1>3, <1>10 DEF ExactUnlessLeaked
  <2>2. Holders(d) = {}
    BY <2>1 DEF Holders
  <2>3. Cardinality(Holders(d)) = 0
    BY <2>2, FS_EmptySet
  <2>4. \A x \in open' : refs'[x] = Cardinality(Holders(x)')
    BY <1>5, <1>7, <1>8, <2>1, <2>3
  <2>5. ASSUME NEW b \in Clients, Connected(b)'
        PROVE  db'[b] \in open' /\ held'[b] = eng'[db'[b]] /\ held'[b] \in live'
    <3>1. Connected(b)
      BY <1>6, <2>5
    <3>2. b \in Holders(db[b]) /\ db[b] \in open /\ db[b] \in Names /\ db[b] # d
      BY <2>1, <3>1 DEF Holders, TypeOK
    <3>3. Cardinality(Holders(db[b])) # 0
      BY <3>2, HoldersFinite, FS_EmptySet
    <3>4. db[b] \in open'
      BY <1>4, <1>5, <2>1, <3>2, <3>3
    <3>5. held'[b] = eng'[db'[b]]
      BY <1>2, <1>4, <2>1, <3>1, <3>2, <3>4
    <3> QED BY <1>2, <1>3, <3>4, <3>5 DEF EnginesKnown
  <2> QED BY <2>4, <2>5
<1>11. ExactUnlessLeaked'
  BY <1>10 DEF ExactUnlessLeaked
<1> QED BY <1>3, <1>9, <1>11

\* A connection ends; its database, or another, may be evicted.
LEMMA ReleaseKeeps ==
  ASSUME IInv, TypeOK', NEW c \in Clients, Release(c)
  PROVE  IInv'
<1> USE DEF IInv
<1>1. PICK d \in Names : d = db[c]
  BY DEF TypeOK
<1>2. PICK r \in [Names -> Nat] :
        /\ \A x \in Names : r[x] = IF x = d /\ d \in open /\ refs[d] > 0
                                    THEN refs[d] - 1 ELSE refs[x]
        /\ evictLocked(open, eng, r, used, live)
  <2> DEFINE R == [refs EXCEPT ![d] = IF d \in open /\ refs[d] > 0 THEN @ - 1 ELSE @]
  <2>1. R \in [Names -> Nat]
    BY DEF TypeOK
  <2>2. \A x \in Names : R[x] = IF x = d /\ d \in open /\ refs[d] > 0
                                THEN refs[d] - 1 ELSE refs[x]
    BY DEF TypeOK
  <2>3. evictLocked(open, eng, R, used, live)
    BY <1>1 DEF Release
  <2> HIDE DEF R
  <2> QED BY <2>1, <2>2, <2>3
<1>3. OnlyIdleClosed(open, eng, r, used, live) /\ OverCapOnlyInUse'
  BY <1>2, EvictLeaves, EvictReachesCap DEF TypeOK
<1>4. /\ open' \subseteq open
      /\ \A x \in open \ open' : r[x] = 0 /\ eng'[x] = NoEngine
      /\ refs' = r
      /\ \A x \in Names : x \in open' \/ x \notin open => eng'[x] = eng[x]
      /\ \A x \in Names : used'[x] = used[x] \/ used'[x] = 0
      /\ live' = live \ {eng[x] : x \in open \ open'}
  BY <1>3 DEF OnlyIdleClosed
<1>5. /\ files' = files /\ seq' = seq /\ pc[c] = "in" /\ Connected(c)
      /\ pc' = [pc EXCEPT ![c] = "out"] /\ db' = [db EXCEPT ![c] = NoName]
      /\ held' = [held EXCEPT ![c] = NoEngine]
  BY DEF Release, Connected
<1>6. /\ Cardinality(Holders(d)') = Cardinality(Holders(d)) - 1
      /\ Cardinality(Holders(d)) > 0
      /\ Cardinality(Holders(d)) \in Nat
      /\ \A x \in Names \ {d} : Holders(x)' = Holders(x)
  BY <1>1, <1>5, OneLeaves, HoldersFinite
<1>7. open \subseteq Names /\ open' \subseteq Names /\ live \subseteq 1 .. seq
  BY <1>4 DEF TypeOK, EnginesKnown
<1>8. \A x, y \in open : eng[x] \in live /\ (eng[x] = eng[y] => x = y)
  BY DEF EnginesKnown
<1>9. \A x \in open' : eng'[x] = eng[x] /\ eng[x] \in live'
  <2> SUFFICES ASSUME NEW x \in open' PROVE eng'[x] = eng[x] /\ eng[x] \in live'
    OBVIOUS
  <2>1. \A y \in open \ open' : eng[y] # eng[x]
    BY <1>4, <1>8
  <2> QED BY <1>4, <1>7, <1>8, <2>1
<1>10. EnginesKnown'
  <2>1. live' \subseteq 1 .. seq'
    BY <1>4, <1>5, <1>7
  <2>2. \A x \in Names : used'[x] <= seq'
    BY <1>4, <1>5 DEF EnginesKnown, TypeOK
  <2>3. \A x \in Names \ open' : eng'[x] = NoEngine
    BY <1>4 DEF EnginesKnown
  <2>4. \A x, y \in open' : eng'[x] = eng'[y] => x = y
    BY <1>4, <1>8, <1>9
  <2> QED BY <1>9, <2>1, <2>2, <2>3, <2>4 DEF EnginesKnown
<1>11. OpenHasFile'
  BY <1>4, <1>5 DEF OpenHasFile
<1>12. RefsAreHeld'
  <2> SUFFICES ASSUME NEW x \in open' PROVE refs'[x] <= Cardinality(Holders(x)')
    BY DEF RefsAreHeld
  <2>1. x \in open /\ x \in Names /\ refs[x] \in Nat /\ refs[x] <= Cardinality(Holders(x))
    BY <1>4, <1>7 DEF RefsAreHeld, TypeOK
  <2>2. CASE x = d
    BY <1>2, <1>4, <1>6, <2>1, <2>2
  <2>3. CASE x # d
    BY <1>2, <1>4, <1>6, <2>1, <2>3
  <2> QED BY <2>2, <2>3
<1>13. ASSUME Leaked' = {}
       PROVE  /\ \A x \in open' : refs'[x] = Cardinality(Holders(x)')
              /\ \A b \in Clients :
                   Connected(b)' => /\ db'[b] \in open'
                                    /\ held'[b] = eng'[db'[b]]
                                    /\ held'[b] \in live'
  <2>0. ASSUME NEW z \in Leaked PROVE z \in Leaked'
    <3>1. z \in live /\ \A x \in open : z # eng[x]
      BY <2>0 DEF Leaked
    <3>2. z \in live' /\ \A x \in open' : z # eng'[x]
      BY <1>4, <1>9, <3>1
    <3> QED BY <3>2 DEF Leaked
  <2>1. /\ \A x \in open : refs[x] = Cardinality(Holders(x))
        /\ \A b \in Clients : Connected(b) => /\ db[b] \in open
                                              /\ held[b] = eng[db[b]]
                                              /\ held[b] \in live
    BY <1>13, <2>0 DEF ExactUnlessLeaked
  <2>2. \A x \in open' : refs'[x] = Cardinality(Holders(x)')
    <3> SUFFICES ASSUME NEW x \in open' PROVE refs'[x] = Cardinality(Holders(x)')
      OBVIOUS
    <3>1. x \in open /\ x \in Names /\ refs[x] = Cardinality(Holders(x))
      BY <1>4, <1>7, <2>1
    <3>2. CASE x = d
      BY <1>2, <1>4, <1>6, <3>1, <3>2
    <3>3. CASE x # d
      BY <1>2, <1>4, <1>6, <3>1, <3>3
    <3> QED BY <3>2, <3>3
  <2>3. ASSUME NEW b \in Clients, Connected(b)'
        PROVE  db'[b] \in open' /\ held'[b] = eng'[db'[b]] /\ held'[b] \in live'
    <3>1. b # c /\ Connected(b) /\ db'[b] = db[b] /\ held'[b] = held[b]
      BY <1>5, <2>3 DEF Connected, TypeOK
    <3>2. PICK x \in Names : x = db[b]
      BY DEF TypeOK
    <3>3. x \in open /\ refs[x] = Cardinality(Holders(x)) /\ held[b] = eng[x]
      BY <2>1, <3>1, <3>2
    <3>4. r[x] # 0
      <4>1. CASE x = d
        <5>1. b \in Holders(d)'
          BY <2>3, <3>1, <3>2, <4>1 DEF Holders
        <5>2. IsFiniteSet(Holders(d)')
          <6>1. Holders(d)' \subseteq Clients /\ IsFiniteSet(Clients)
            BY ClusterAssumption DEF Holders, ClusterAssumption
          <6> QED BY <6>1, FS_Subset
        <5>3. Cardinality(Holders(d)') # 0
          BY <5>1, <5>2, FS_EmptySet
        <5> QED BY <1>2, <1>6, <3>3, <4>1, <5>3
      <4>2. CASE x # d
        <5>1. b \in Holders(x)
          BY <3>1, <3>2 DEF Holders
        <5>2. Cardinality(Holders(x)) # 0
          BY <5>1, HoldersFinite, FS_EmptySet
        <5> QED BY <1>2, <3>3, <4>2, <5>2
      <4> QED BY <4>1, <4>2
    <3>5. x \in open'
      BY <1>4, <3>3, <3>4
    <3> QED BY <1>9, <3>1, <3>2, <3>3, <3>5
  <2> QED BY <2>2, <2>3
<1>14. ExactUnlessLeaked'
  BY <1>13 DEF ExactUnlessLeaked
<1> QED BY <1>3, <1>10, <1>11, <1>12, <1>14

\* The locked section of DROP DATABASE closes an engine that nobody is counted
\* on: when no engine is lost, nobody is on it.
LEMMA DropKeeps ==
  ASSUME IInv, TypeOK', NEW c \in Clients, DropLocked(c)
  PROVE  IInv'
<1> USE DEF IInv
<1>1. PICK d \in Names : d = target[c]
  BY DEF TypeOK
<1>2. /\ ~ Busy(d)
      /\ open' = open \ {d} /\ live' = live \ {eng[d]}
      /\ eng'  = [eng  EXCEPT ![d] = NoEngine]
      /\ refs' = [refs EXCEPT ![d] = 0]
      /\ used' = [used EXCEPT ![d] = 0]
      /\ files' \in {files, files \ {d}}
      /\ seq' = seq /\ db' = db /\ held' = held
      /\ pc[c] \in {"dropping", "waiting"} /\ pc' = [pc EXCEPT ![c] = "in"]
  BY <1>1 DEF DropLocked, Answered
<1>3. \A b \in Clients : Connected(b)' = Connected(b)
  BY <1>2 DEF Connected, TypeOK
<1>4. \A x : Holders(x)' = Holders(x)
  BY <1>2, <1>3 DEF Holders
<1>5. \A x \in open' : /\ x \in open /\ x \in Names /\ x # d
                       /\ eng'[x] = eng[x] /\ refs'[x] = refs[x]
  BY <1>2 DEF TypeOK
<1>6. \A x, y \in open : eng[x] \in live /\ (eng[x] = eng[y] => x = y)
  BY DEF EnginesKnown
<1>7. d \notin open => eng[d] = NoEngine /\ NoEngine \notin live
  BY DEF EnginesKnown, TypeOK, NoEngine
<1>8. \A x \in open' : eng[x] # eng[d] /\ eng[x] \in live'
  BY <1>2, <1>5, <1>6, <1>7
<1>9. EnginesKnown'
  <2>1. live' \subseteq 1 .. seq'
    BY <1>2 DEF EnginesKnown
  <2>2. \A x \in Names : used'[x] <= seq'
    BY <1>2 DEF EnginesKnown, TypeOK
  <2>3. \A x \in Names \ open' : eng'[x] = NoEngine
    BY <1>2 DEF EnginesKnown, TypeOK
  <2> QED BY <1>5, <1>6, <1>8, <2>1, <2>2, <2>3 DEF EnginesKnown
<1>10. OpenHasFile'
  BY <1>2 DEF OpenHasFile
<1>11. RefsAreHeld'
  BY <1>4, <1>5 DEF RefsAreHeld
<1>12. OverCapOnlyInUse'
  <2>1. IsFiniteSet(open) /\ IsFiniteSet(open')
    BY <1>2, FS_Subset, ClusterAssumption DEF ClusterAssumption, TypeOK
  <2>2. /\ Cardinality(open') <= Cardinality(open)
        /\ Cardinality(open) \in Nat /\ Cardinality(open') \in Nat
        /\ MaxOpen \in Nat
    BY <1>2, <2>1, FS_Subset, FS_CardinalityType, ClusterAssumption DEF ClusterAssumption
  <2>3. Cardinality(open') > MaxOpen => Cardinality(open) > MaxOpen
    BY <2>2
  <2> QED BY <1>5, <2>3 DEF OverCapOnlyInUse
<1>13. ASSUME Leaked' = {}
       PROVE  /\ \A x \in open' : refs'[x] = Cardinality(Holders(x)')
              /\ \A b \in Clients :
                   Connected(b)' => /\ db'[b] \in open'
                                    /\ held'[b] = eng'[db'[b]]
                                    /\ held'[b] \in live'
  <2>0. ASSUME NEW z \in Leaked PROVE z \in Leaked'
    <3>1. z \in live /\ \A x \in open : z # eng[x]
      BY <2>0 DEF Leaked
    <3>2. z \in live' /\ \A x \in open' : z # eng'[x]
      BY <1>2, <1>5, <1>7, <3>1
    <3> QED BY <3>2 DEF Leaked
  <2>1. /\ \A x \in open : refs[x] = Cardinality(Holders(x))
        /\ \A b \in Clients : Connected(b) => /\ db[b] \in open
                                              /\ held[b] = eng[db[b]]
                                              /\ held[b] \in live
    BY <1>13, <2>0 DEF ExactUnlessLeaked
  <2>2. \A b \in Clients : Connected(b) => db[b] # d
    <3> SUFFICES ASSUME NEW b \in Clients, Connected(b), db[b] = d PROVE FALSE
      OBVIOUS
    <3>1. b \in Holders(d) /\ d \in open
      BY <2>1 DEF Holders
    <3>2. Cardinality(Holders(d)) # 0 /\ Cardinality(Holders(d)) \in Nat
      BY <3>1, HoldersFinite, FS_EmptySet
    <3> QED BY <1>2, <2>1, <3>1, <3>2 DEF Busy
  <2>3. \A x \in open' : refs'[x] = Cardinality(Holders(x)')
    BY <1>4, <1>5, <2>1
  <2>4. ASSUME NEW b \in Clients, Connected(b)'
        PROVE  db'[b] \in open' /\ held'[b] = eng'[db'[b]] /\ held'[b] \in live'
    <3>1. Connected(b) /\ db'[b] = db[b] /\ held'[b] = held[b]
      BY <1>2, <1>3, <2>4
    <3>2. db[b] \in open'
      BY <1>2, <2>1, <2>2, <3>1
    <3> QED BY <1>5, <1>8, <2>1, <3>1, <3>2
  <2> QED BY <2>3, <2>4
<1>14. ExactUnlessLeaked'
  BY <1>13 DEF ExactUnlessLeaked
<1> QED BY <1>9, <1>10, <1>11, <1>12, <1>14

\* The process is started again.
LEMMA FreshAgain == Fresh' => IInv'
<1> QED BY FreshStart, PTL

\* A restart leaves a fresh process on the old directory.
LEMMA RestartKeeps ==
  ASSUME IInv, TypeOK', Restart
  PROVE  IInv'
<1>1. StartTable(files', open', eng', used', seq', live')
  BY RestartKnown DEF IInv
<1>2. Fresh'
  BY <1>1 DEF Fresh, Restart
<1> QED BY <1>2, FreshAgain

-----------------------------------------------------------------------------
(* The theorems. *)

\* The invariant holds when the process is first started.
LEMMA InitInvariant == Init => IInv
<1> SUFFICES ASSUME Init PROVE IInv
  OBVIOUS
<1>1. PICK f \in SUBSET Names : OpenCluster(f, files, open, eng, used, seq, live)
  BY DEF Init
<1>2. StartTable(files, open, eng, used, seq, live)
  BY <1>1, StartKnown
<1>3. Fresh
  BY <1>2, InitTyped DEF Fresh, Init
<1> QED BY <1>3, FreshStart

\* Every step keeps it.
LEMMA StepInvariant == IInv /\ [Next]_vars => IInv'
<1> SUFFICES ASSUME IInv, [Next]_vars PROVE IInv'
  OBVIOUS
<1>0. TypeOK'
  BY StepTyped DEF IInv
<1>1. CASE UNCHANGED vars
  BY <1>0, <1>1, Unconcerned DEF vars, Connected
<1>2. CASE Restart
  BY <1>0, <1>2, RestartKeeps
<1>3. ASSUME NEW c \in Clients, ConnectionStep(c) PROVE IInv'
  <2>1. ASSUME NEW d \in Names, EngineCheck(c, d) PROVE IInv'
    <3>1. \A b \in Clients : /\ Connected(b)' = Connected(b)
                             /\ Connected(b) => db'[b] = db[b]
      BY <2>1 DEF EngineCheck, Connected, IInv, TypeOK
    <3> QED BY <1>0, <2>1, <3>1, Unconcerned DEF EngineCheck, table
  <2>2. ASSUME NEW d \in Names, CreateCheck(c, d) PROVE IInv'
    <3>1. \A b \in Clients : /\ Connected(b)' = Connected(b)
                             /\ Connected(b) => db'[b] = db[b]
      BY <2>2 DEF CreateCheck, Connected, IInv, TypeOK
    <3> QED BY <1>0, <2>2, <3>1, Unconcerned DEF CreateCheck, table
  <2>3. ASSUME NEW d \in Names, DropCheck(c, d) PROVE IInv'
    <3>1. \A b \in Clients : /\ Connected(b)' = Connected(b)
                             /\ Connected(b) => db'[b] = db[b]
      BY <2>3 DEF DropCheck, Connected, IInv, TypeOK
    <3> QED BY <1>0, <2>3, <3>1, Unconcerned DEF DropCheck, table
  <2>4. CASE EngineShare(c)
    BY <1>0, <2>4, ShareKeeps
  <2>5. CASE EngineOpen(c)
    BY <1>0, <2>5, OpenKeeps
  <2>6. CASE EngineFails(c)
    <3>1. \A b \in Clients : /\ Connected(b)' = Connected(b)
                             /\ Connected(b) => db'[b] = db[b]
      BY <2>6 DEF EngineFails, Connected, IInv, TypeOK
    <3> QED BY <1>0, <2>6, <3>1, Unconcerned DEF EngineFails, table
  <2>7. CASE Release(c)
    BY <1>0, <2>7, ReleaseKeeps
  <2>8. CASE CreateLocked(c)
    BY <1>0, <2>8, CreateKeeps
  <2>9. CASE CreateFails(c)
    <3>1. \A b \in Clients : /\ Connected(b)' = Connected(b)
                             /\ Connected(b) => db'[b] = db[b]
      BY <2>9 DEF CreateFails, Answered, Connected, IInv, TypeOK
    <3> QED BY <1>0, <2>9, <3>1, Unconcerned DEF CreateFails, table
  <2>10. CASE DropBusy(c)
    <3>1. \A b \in Clients : /\ Connected(b)' = Connected(b)
                             /\ Connected(b) => db'[b] = db[b]
      BY <2>10 DEF DropBusy, Connected, IInv, TypeOK
    <3> QED BY <1>0, <2>10, <3>1, Unconcerned DEF DropBusy, table
  <2>11. CASE DropGiveUp(c)
    <3>1. \A b \in Clients : /\ Connected(b)' = Connected(b)
                             /\ Connected(b) => db'[b] = db[b]
      BY <2>11 DEF DropGiveUp, Answered, Connected, IInv, TypeOK
    <3> QED BY <1>0, <2>11, <3>1, Unconcerned DEF DropGiveUp, table
  <2>12. CASE DropLocked(c)
    BY <1>0, <2>12, DropKeeps
  <2> QED BY <1>3, <2>1, <2>2, <2>3, <2>4, <2>5, <2>6, <2>7, <2>8, <2>9, <2>10,
             <2>11, <2>12 DEF ConnectionStep
<1> QED BY <1>1, <1>2, <1>3 DEF Next

\* The invariant that carries the others (Dir.open, its counts, its engines).
THEOREM InductiveInvariant == Spec => []IInv
<1> QED BY InitInvariant, StepInvariant, PTL DEF Spec

\* Every entry of the table has its file, also while files of interrupted
\* opens lie about and removals fail (DropDatabase, OpenCluster).
THEOREM FilesAreThere == Spec => []OpenHasFile
<1>1. IInv => OpenHasFile
  BY DEF IInv
<1> QED BY <1>1, InductiveInvariant, PTL

\* No reference leaks (Engine, Release, CreateDatabase, DropDatabase).
THEOREM NoReferenceLeaks == Spec => []RefsAreHeld
<1>1. IInv => RefsAreHeld
  BY DEF IInv
<1> QED BY <1>1, InductiveInvariant, PTL

\* More than MaxOpen engines are open only while all are in use (evictLocked).
THEOREM CapHolds == Spec => []OverCapOnlyInUse
<1>1. IInv => OverCapOnlyInUse
  BY DEF IInv
<1> QED BY <1>1, InductiveInvariant, PTL

\* Counts and engines are exact until CREATE DATABASE overwrites an entry.
THEOREM CountsExact == Spec => []ExactUnlessLeaked
<1>1. IInv => ExactUnlessLeaked
  BY DEF IInv
<1> QED BY <1>1, InductiveInvariant, PTL

-----------------------------------------------------------------------------
(* What single steps may do. *)

\* Of the entries o, used at u, those that go were used before the idle ones
\* that stay.
OldestFirst(o, u) ==
  \A v \in o \ open', d \in open' :
    refs'[d] = 0 => u[v] < u[d] /\ used'[d] = u[d]

\* evictLocked closes the engines that were used first.
LEMMA EvictionOrder ==
  ASSUME NEW o \in SUBSET Names, NEW e \in [Names -> Nat], NEW r \in [Names -> Nat],
         NEW u \in [Names -> Nat], NEW l \in SUBSET Nat,
         evictLocked(o, e, r, u, l)
  PROVE  OldestFirst(o, u)
<1>0. SUFFICES ASSUME NEW v \in o \ open', NEW d \in open', refs'[d] = 0
               PROVE  u[v] < u[d] /\ used'[d] = u[d]
  BY DEF OldestFirst
<1>1. PICK V \in SUBSET o :
        /\ \A x \in V, y \in Idle(o, r) \ V : u[x] < u[y]
        /\ open' = o \ V
        /\ refs' = r
  BY DEF evictLocked, Victims
<1>2. v \in V /\ d \in Idle(o, r) \ V
  BY <1>0, <1>1 DEF Idle
<1>3. OnlyIdleClosed(o, e, r, u, l)
  BY EvictLeaves
<1>4. used'[d] = u[d]
  BY <1>3 DEF OnlyIdleClosed
<1> QED BY <1>1, <1>2, <1>4

\* Eviction is least recently used first, also when the entry that a CREATE
\* DATABASE has just made is the one to go (evictLocked).
LEMMA StepEvictsOldest ==
  ASSUME IInv, NEW c \in Clients, EngineOpen(c) \/ CreateLocked(c) \/ Release(c),
         NEW v \in open \ open', NEW d \in open', refs'[d] = 0
  PROVE  used[v] < used'[d]
<1> USE DEF IInv
<1>1. ASSUME NEW n \in Names, NEW count \in Nat, Enter(n, count)
      PROVE  used[v] < used'[d]
  <2>0. /\ open \cup {n} \in SUBSET Names
        /\ [eng  EXCEPT ![n] = seq + 1] \in [Names -> Nat]
        /\ [refs EXCEPT ![n] = count] \in [Names -> Nat]
        /\ [used EXCEPT ![n] = seq + 1] \in [Names -> Nat]
        /\ live \cup {seq + 1} \in SUBSET Nat
    BY DEF TypeOK
  <2>1. PICK o \in SUBSET Names : o = open \cup {n}
    BY <2>0, Zenon
  <2>2. PICK e \in [Names -> Nat] : e = [eng EXCEPT ![n] = seq + 1]
    BY <2>0, Zenon
  <2>3. PICK r \in [Names -> Nat] : r = [refs EXCEPT ![n] = count]
    BY <2>0, Zenon
  <2>4. PICK u \in [Names -> Nat] : u = [used EXCEPT ![n] = seq + 1]
    BY <2>0, Zenon
  <2>5. PICK l \in SUBSET Nat : l = live \cup {seq + 1}
    BY <2>0, Zenon
  <2>6. evictLocked(o, e, r, u, l)
    BY <1>1, <2>1, <2>2, <2>3, <2>4, <2>5 DEF Enter, NewEngine
  <2>7. v \in o \ open'
    BY <2>1
  <2>8. u[v] < u[d] /\ used'[d] = u[d]
    <3>1. OldestFirst(o, u)
      BY <2>6, EvictionOrder
    <3> QED BY <2>7, <3>1 DEF OldestFirst
  <2>9. d \in Names
    <3>1. OnlyIdleClosed(o, e, r, u, l)
      BY <2>6, EvictLeaves
    <3> QED BY <3>1 DEF OnlyIdleClosed
  <2>10. /\ used[v] <= seq /\ used[v] \in Nat /\ seq \in Nat /\ u[d] \in Nat
         /\ u[v] = used[v] \/ u[v] = seq + 1
    BY <2>4, <2>9 DEF EnginesKnown, TypeOK
  <2> QED BY <2>8, <2>10
<1>2. CASE EngineOpen(c)
  BY <1>1, <1>2 DEF EngineOpen, TypeOK
<1>3. CASE CreateLocked(c)
  BY <1>1, <1>3 DEF CreateLocked, TypeOK
<1>4. CASE Release(c)
  <2> DEFINE R == [refs EXCEPT ![db[c]] =
                      IF db[c] \in open /\ refs[db[c]] > 0 THEN @ - 1 ELSE @]
  <2>1. R \in [Names -> Nat]
    BY DEF TypeOK
  <2>2. evictLocked(open, eng, R, used, live)
    BY <1>4 DEF Release
  <2> HIDE DEF R
  <2>3. OldestFirst(open, used)
    BY <2>1, <2>2, EvictionOrder DEF TypeOK
  <2> QED BY <2>3 DEF OldestFirst
<1> QED BY <1>2, <1>3, <1>4

\* evictLocked never closes an idle engine before one that was used earlier.
THEOREM EvictsOldest == Spec => EvictsOldestFirst
<1>1. IInv /\ [Next]_vars =>
        [(\E c \in Clients : EngineOpen(c) \/ CreateLocked(c) \/ Release(c)) =>
           \A v \in open \ open', d \in open' :
             refs'[d] = 0 => used[v] < used'[d]]_vars
  BY StepEvictsOldest
<1> QED BY <1>1, InductiveInvariant, PTL DEF Spec, EvictsOldestFirst

\* DROP DATABASE removes a database that somebody uses only after an engine has
\* been lost: what core/cluster.go promises of DropDatabase holds until CREATE
\* DATABASE has overwritten a live entry.
THEOREM DropFailsInUseUnlessLeaked ==
  Spec => [][\A c \in Clients :
               Leaked = {} /\ DropLocked(c) => Holders(target[c]) = {}]_vars
<1>1. ASSUME IInv, NEW c \in Clients, Leaked = {}, DropLocked(c)
      PROVE  Holders(target[c]) = {}
  <2>1. PICK d \in Names : d = target[c]
    BY <1>1 DEF IInv, TypeOK
  <2>2. ~ Busy(d)
    BY <1>1, <2>1 DEF DropLocked
  <2>3. /\ \A x \in open : refs[x] = Cardinality(Holders(x))
        /\ \A b \in Clients : Connected(b) => db[b] \in open
    BY <1>1 DEF IInv, ExactUnlessLeaked
  <2>4. ASSUME NEW b \in Holders(d) PROVE FALSE
    <3>1. d \in open
      BY <2>3 DEF Holders
    <3>2. Cardinality(Holders(d)) # 0 /\ Cardinality(Holders(d)) \in Nat
      BY HoldersFinite, FS_EmptySet
    <3> QED BY <2>2, <2>3, <3>1, <3>2 DEF Busy
  <2> QED BY <2>1, <2>4
<1>2. IInv /\ [Next]_vars =>
        [\A c \in Clients :
           Leaked = {} /\ DropLocked(c) => Holders(target[c]) = {}]_vars
  BY <1>1
<1> QED BY <1>2, InductiveInvariant, PTL DEF Spec
=============================================================================
