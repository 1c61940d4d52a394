------------------------------ MODULE Cluster ------------------------------
(***************************************************************************)
(* The directory of databases behind one overlite process: type Dir in     *)
(* engine/cluster.go.  Every <name>.db file of the directory is a          *)
(* database; an engine (a pool of SQLite connections on that file) is      *)
(* opened when the first client asks for it, counted while clients are on  *)
(* it, and closed again when it is idle and more than maxOpen are open.    *)
(*                                                                         *)
(* Dir.mu makes the body of each method atomic, but Engine,                *)
(* CreateDatabase and DropDatabase look for the file BEFORE they take the  *)
(* mutex, so each of them is two actions here: the unlocked check and the  *)
(* locked section, with every interleaving between them.                   *)
(***************************************************************************)
EXTENDS Naturals, FiniteSets

CONSTANTS Clients,      \* client connections (one goroutine each)
          Names,        \* the valid database names
          Entry,        \* the database overlite was started with
          Maintenance,  \* MaintenanceDatabase, "postgres" in the code
          MaxOpen,      \* Dir.maxOpen
          MaxSeq        \* bound on Dir.seq, for model checking only

ASSUME ClusterAssumption ==
  /\ IsFiniteSet(Clients)
  /\ IsFiniteSet(Names)
  /\ Entry \in Names
  /\ Maintenance \in Names
  /\ MaxOpen \in Nat \ {0}   \* OpenCluster replaces anything smaller
  /\ MaxSeq \in Nat

VARIABLES
  files,   \* the <name>.db files in the directory
  open,    \* the domain of Dir.open
  eng,     \* Dir.open[d].eng, an engine identity; NoEngine outside open
  refs,    \* Dir.open[d].refs
  used,    \* Dir.open[d].used
  seq,     \* Dir.seq
  live,    \* the engines that were opened and not closed
  pc,      \* where each connection goroutine is
  db,      \* the database each connection asked for
  held,    \* the engine Engine() returned to it
  target   \* the database of its CREATE or DROP DATABASE

table == <<open, eng, refs, used>>
conn  == <<pc, db, held, target>>
vars  == <<files, open, eng, refs, used, seq, live, pc, db, held, target>>

NoEngine == 0

\* db and target of a connection that has none; never read.
NoName == Maintenance

(***************************************************************************)
(* A connection is "out" until Engine has returned, "opening" between      *)
(* Engine's check and its locked section, "in" while it may use the        *)
(* engine; "creating" and "dropping" are between the check and the locked  *)
(* section of CREATE and DROP DATABASE, and "waiting" is the sleep of      *)
(* lockIdle.                                                               *)
(***************************************************************************)
States == {"out", "opening", "in", "creating", "dropping", "waiting"}

\* The connections that took an engine and have not released it.
Connected(c) == pc[c] \notin {"out", "opening"}

Holders(d) == {c \in Clients : Connected(c) /\ db[c] = d}

\* Engines nobody can reach any more: opened, not closed, in no entry.
Leaked == live \ {eng[d] : d \in open}

-----------------------------------------------------------------------------
(***************************************************************************)
(* evictLocked: while more than MaxOpen engines are open, close the idle   *)
(* one with the smallest used, until none is idle.  The set V it closes:   *)
(***************************************************************************)
Idle(o, r) == {d \in o : r[d] = 0}

SmallerOf(m, n) == IF m < n THEN m ELSE n

\* Mutant: the most recently used engines are closed first.
VictimsNewest(V, o, r, u) ==
  /\ V \subseteq Idle(o, r)
  /\ \A v \in V, d \in Idle(o, r) \ V : u[v] > u[d]
  /\ Cardinality(V) =
       IF Cardinality(o) <= MaxOpen
       THEN 0
       ELSE SmallerOf(Cardinality(o) - MaxOpen, Cardinality(Idle(o, r)))

Victims(V, o, r, u) ==
  /\ V \subseteq Idle(o, r)
  /\ \A v \in V, d \in Idle(o, r) \ V : u[v] < u[d]
  /\ Cardinality(V) =
       IF Cardinality(o) <= MaxOpen
       THEN 0
       ELSE SmallerOf(Cardinality(o) - MaxOpen, Cardinality(Idle(o, r)))

\* The table and the engines evictLocked leaves when it finds (o, e, r, u, l).
evictLocked(o, e, r, u, l) ==
  \E V \in SUBSET o :
    /\ Victims(V, o, r, u)
    /\ open' = o \ V
    /\ eng'  = [d \in Names |-> IF d \in V THEN NoEngine ELSE e[d]]
    /\ refs' = r
    /\ used' = [d \in Names |-> IF d \in V THEN 0 ELSE u[d]]
    /\ live' = l \ {e[v] : v \in V}

\* Open(path): a new engine, named by the sequence number it is entered with.
NewEngine == seq + 1

\* d.seq++; d.open[name] = &openDB{eng, refs, used: d.seq}; d.evictLocked()
Enter(d, count) ==
  /\ seq < MaxSeq
  /\ seq' = seq + 1
  /\ files' = files \cup {d}
  /\ evictLocked(open \cup {d},
                 [eng  EXCEPT ![d] = NewEngine],
                 [refs EXCEPT ![d] = count],
                 [used EXCEPT ![d] = seq + 1],
                 live \cup {NewEngine})

-----------------------------------------------------------------------------
(***************************************************************************)
(* OpenCluster on a directory that holds the files f: the entry database   *)
(* and then the maintenance one are created when they are missing, each    *)
(* through CreateDatabase, which leaves it open and idle.                  *)
(***************************************************************************)
Created(f) == {Entry, Maintenance} \ f

OpenedAtStart(f) ==
  IF Cardinality(Created(f)) > MaxOpen THEN {Maintenance} ELSE Created(f)

StartSeq(f, d) ==
  IF d \notin OpenedAtStart(f) THEN 0
  ELSE IF d = Entry THEN 1 ELSE Cardinality(Created(f))

OpenCluster(f, fl, op, en, us, sq, lv) ==
  /\ fl = f \cup {Entry, Maintenance}
  /\ op = OpenedAtStart(f)
  /\ en = [d \in Names |-> StartSeq(f, d)]
  /\ us = [d \in Names |-> StartSeq(f, d)]
  /\ sq = Cardinality(Created(f))
  /\ lv = {StartSeq(f, d) : d \in OpenedAtStart(f)}

Init ==
  /\ \E f \in SUBSET Names : OpenCluster(f, files, open, eng, used, seq, live)
  /\ refs = [d \in Names |-> 0]
  /\ pc = [c \in Clients |-> "out"]
  /\ db = [c \in Clients |-> NoName]
  /\ held = [c \in Clients |-> NoEngine]
  /\ target = [c \in Clients |-> NoName]

-----------------------------------------------------------------------------
(* Engine, called by Protocol.Serve for a new connection. *)

\* The name is valid and its file exists; nothing is locked yet.
EngineCheck(c, d) ==
  /\ pc[c] = "out"
  /\ d \in files
  /\ pc' = [pc EXCEPT ![c] = "opening"]
  /\ db' = [db EXCEPT ![c] = d]
  /\ UNCHANGED <<files, table, seq, live, held, target>>

\* Mutant: a connection that finds the engine open is not counted.
ShareUncounted(c) ==
  LET d == db[c] IN
  /\ pc[c] = "opening"
  /\ d \in open
  /\ seq < MaxSeq
  /\ seq'  = seq + 1
  /\ used' = [used EXCEPT ![d] = seq + 1]
  /\ pc'   = [pc EXCEPT ![c] = "in"]
  /\ held' = [held EXCEPT ![c] = eng[d]]
  /\ UNCHANGED <<files, open, eng, refs, live, db, target>>

\* The entry is there: one more reference, and it is the last used.
EngineShare(c) ==
  LET d == db[c] IN
  /\ pc[c] = "opening"
  /\ d \in open
  /\ seq < MaxSeq
  /\ seq'  = seq + 1
  /\ refs' = [refs EXCEPT ![d] = @ + 1]
  /\ used' = [used EXCEPT ![d] = seq + 1]
  /\ pc'   = [pc EXCEPT ![c] = "in"]
  /\ held' = [held EXCEPT ![c] = eng[d]]
  /\ UNCHANGED <<files, open, eng, live, db, target>>

\* It is not: open the file (SQLite makes one if there is none) and enter it.
EngineOpen(c) ==
  LET d == db[c] IN
  /\ pc[c] = "opening"
  /\ d \notin open
  /\ Enter(d, 1)
  /\ pc'   = [pc EXCEPT ![c] = "in"]
  /\ held' = [held EXCEPT ![c] = NewEngine]
  /\ UNCHANGED <<db, target>>

\* Open fails; SQLite may have made the file by then.
EngineFails(c) ==
  /\ pc[c] = "opening"
  /\ db[c] \notin open
  /\ files' \in {files, files \cup {db[c]}}
  /\ pc' = [pc EXCEPT ![c] = "out"]
  /\ db' = [db EXCEPT ![c] = NoName]
  /\ UNCHANGED <<table, seq, live, held, target>>

\* Mutant: Release does not check that the count is positive.
ReleaseUnchecked(c) ==
  LET d == db[c] IN
  /\ pc[c] = "in"
  /\ pc'   = [pc EXCEPT ![c] = "out"]
  /\ db'   = [db EXCEPT ![c] = NoName]
  /\ held' = [held EXCEPT ![c] = NoEngine]
  /\ evictLocked(open, eng,
                 [refs EXCEPT ![d] = IF d \in open THEN @ - 1 ELSE @],
                 used, live)
  /\ UNCHANGED <<files, seq, target>>

\* Mutant: the connection's reference is never returned.
ReleaseForgotten(c) ==
  LET d == db[c] IN
  /\ pc[c] = "in"
  /\ pc'   = [pc EXCEPT ![c] = "out"]
  /\ db'   = [db EXCEPT ![c] = NoName]
  /\ held' = [held EXCEPT ![c] = NoEngine]
  /\ evictLocked(open, eng, refs, used, live)
  /\ UNCHANGED <<files, seq, target>>

\* Mutant: Release leaves the eviction to the next open.
ReleaseEvictsNothing(c) ==
  LET d == db[c] IN
  /\ pc[c] = "in"
  /\ pc'   = [pc EXCEPT ![c] = "out"]
  /\ db'   = [db EXCEPT ![c] = NoName]
  /\ held' = [held EXCEPT ![c] = NoEngine]
  /\ refs' = [refs EXCEPT ![d] = IF d \in open /\ @ > 0 THEN @ - 1 ELSE @]
  /\ UNCHANGED <<files, open, eng, used, live, seq, target>>

\* Release, deferred by Serve: it runs however the connection ends, and finds
\* the entry by name.
Release(c) ==
  LET d == db[c]
      counted == d \in open /\ refs[d] > 0 IN
  /\ pc[c] = "in"
  /\ pc'   = [pc EXCEPT ![c] = "out"]
  /\ db'   = [db EXCEPT ![c] = NoName]
  /\ held' = [held EXCEPT ![c] = NoEngine]
  /\ evictLocked(open, eng,
                 [refs EXCEPT ![d] = IF counted THEN @ - 1 ELSE @],
                 used, live)
  /\ UNCHANGED <<files, seq, target>>

-----------------------------------------------------------------------------
\* CREATE or DROP DATABASE returns, with or without an error.
Answered(c) ==
  /\ pc' = [pc EXCEPT ![c] = "in"]
  /\ target' = [target EXCEPT ![c] = NoName]

(* CREATE DATABASE. *)

CreateCheck(c, d) ==
  /\ pc[c] = "in"
  /\ d \notin files
  /\ pc'     = [pc EXCEPT ![c] = "creating"]
  /\ target' = [target EXCEPT ![c] = d]
  /\ UNCHANGED <<files, table, seq, live, db, held>>

\* The locked section enters a fresh engine under the name, whatever is there.
CreateLocked(c) ==
  /\ pc[c] = "creating"
  /\ Enter(target[c], 0)
  /\ Answered(c)
  /\ UNCHANGED <<db, held>>

CreateFails(c) ==
  /\ pc[c] = "creating"
  /\ files' \in {files, files \cup {target[c]}}
  /\ Answered(c)
  /\ UNCHANGED <<table, seq, live, db, held>>

-----------------------------------------------------------------------------
(* DROP DATABASE. *)

\* tryDatabaseDDL refuses the session's own database, DropDatabase the two
\* that must stay and a name with no file.
DropCheck(c, d) ==
  /\ pc[c] = "in"
  /\ d \notin {db[c], Entry, Maintenance}
  /\ d \in files
  /\ pc'     = [pc EXCEPT ![c] = "dropping"]
  /\ target' = [target EXCEPT ![c] = d]
  /\ UNCHANGED <<files, table, seq, live, db, held>>

Busy(d) == d \in open /\ refs[d] > 0

\* lockIdle finds holders: it lets go of the mutex and sleeps, 20ms at a time.
DropBusy(c) ==
  /\ pc[c] = "dropping"
  /\ Busy(target[c])
  /\ pc' = [pc EXCEPT ![c] = "waiting"]
  /\ UNCHANGED <<files, table, seq, live, db, held, target>>

\* Mutant: lockIdle has no deadline.
DropTriesAgain(c) ==
  /\ pc[c] = "waiting"
  /\ Busy(target[c])
  /\ pc' = [pc EXCEPT ![c] = "dropping"]
  /\ UNCHANGED <<files, table, seq, live, db, held, target>>

\* The deadline has passed, or the context is done.
DropGiveUp(c) ==
  /\ pc[c] = "waiting"
  /\ Answered(c)
  /\ UNCHANGED <<files, table, seq, live, db, held>>

\* Mutant: the entry of the dropped database stays in the table.
DropKeepsEntry(c) ==
  LET d == target[c] IN
  /\ pc[c] \in {"dropping", "waiting"}
  /\ ~ Busy(d)
  /\ live' = live \ {eng[d]}
  /\ files' = files \ {d}
  /\ Answered(c)
  /\ UNCHANGED <<table, seq, db, held>>

\* Nobody is counted on it, and the mutex is held: close it and remove the
\* files.  A name with no file left is removed all the same (IsNotExist is not
\* an error); any other failure of os.Remove is, after the engine is closed.
DropLocked(c) ==
  LET d == target[c] IN
  /\ pc[c] \in {"dropping", "waiting"}
  /\ ~ Busy(d)
  /\ open' = open \ {d}
  /\ eng'  = [eng  EXCEPT ![d] = NoEngine]
  /\ refs' = [refs EXCEPT ![d] = 0]
  /\ used' = [used EXCEPT ![d] = 0]
  /\ live' = live \ {eng[d]}
  /\ files' \in {files, files \ {d}}
  /\ Answered(c)
  /\ UNCHANGED <<seq, db, held>>

-----------------------------------------------------------------------------
(***************************************************************************)
(* The process stops (a crash, or run returning after a signal: Dir.Close  *)
(* closes every engine with the connections still on them) and is started  *)
(* again on the same directory.  An Open in progress may have made its     *)
(* file.                                                                   *)
(***************************************************************************)
InProgress ==
  {db[c] : c \in {x \in Clients : pc[x] = "opening"}} \cup
  {target[c] : c \in {x \in Clients : pc[x] = "creating"}}

Restart ==
  /\ \E made \in SUBSET InProgress :
       OpenCluster(files \cup made, files', open', eng', used', seq', live')
  /\ refs' = [d \in Names |-> 0]
  /\ pc' = [c \in Clients |-> "out"]
  /\ db' = [c \in Clients |-> NoName]
  /\ held' = [c \in Clients |-> NoEngine]
  /\ target' = [c \in Clients |-> NoName]

ConnectionStep(c) ==
  \/ \E d \in Names : EngineCheck(c, d) \/ CreateCheck(c, d) \/ DropCheck(c, d)
  \/ EngineShare(c) \/ EngineOpen(c) \/ EngineFails(c) \/ Release(c)
  \/ CreateLocked(c) \/ CreateFails(c)
  \/ DropBusy(c) \/ DropGiveUp(c) \/ DropLocked(c)

Next == Restart \/ \E c \in Clients : ConnectionStep(c)

Spec == Init /\ [][Next]_vars

(***************************************************************************)
(* A goroutine inside DROP DATABASE keeps running, and the clock reaches   *)
(* lockIdle's deadline.  Nothing is assumed of the clients.                *)
(***************************************************************************)
DropFairness ==
  \A c \in Clients : /\ WF_vars(DropBusy(c) \/ DropLocked(c))
                     /\ WF_vars(DropGiveUp(c))

FairSpec == Spec /\ DropFairness

-----------------------------------------------------------------------------
(* Properties. *)

\* The range of every variable (Dir's table, the files, the goroutines).
TypeOK ==
  /\ files \in SUBSET Names
  /\ open \in SUBSET Names
  /\ eng \in [Names -> Nat]
  /\ refs \in [Names -> Nat]
  /\ used \in [Names -> Nat]
  /\ seq \in Nat
  /\ live \in SUBSET Nat
  /\ pc \in [Clients -> States]
  /\ db \in [Clients -> Names]
  /\ held \in [Clients -> Nat]
  /\ target \in [Clients -> Names]

\* A database that is open has its file in the directory: Open makes it,
\* and DropDatabase removes the entry before the file, in one section.
OpenHasFile == open \subseteq files

\* No reference is ever leaked: every count is covered by connections that are
\* really on the database, however opens, releases, creates and drops race.  A
\* leaked one would keep the engine open and every DROP refused for good.
RefsAreHeld == \A d \in open : refs[d] <= Cardinality(Holders(d))

\* More than MaxOpen engines are open only while every one of them is in use:
\* each method that enters or frees an engine runs evictLocked.
OverCapOnlyInUse == Cardinality(open) > MaxOpen => \A d \in open : refs[d] > 0

\* As long as no engine has been lost, i.e. CREATE DATABASE never replaced a
\* live entry, the counts are exact and every connection's engine is the one
\* in the table, still open.  It says that the replacement is the only way the
\* counting of cluster.go can go wrong.
ExactUnlessLeaked ==
  Leaked = {} =>
    /\ \A d \in open : refs[d] = Cardinality(Holders(d))
    /\ \A c \in Clients :
         Connected(c) => /\ db[c] \in open
                         /\ held[c] = eng[db[c]]
                         /\ held[c] \in live

\* Eviction is least recently used first: an engine that evictLocked closes was
\* used before every idle engine it spares.  (A DROP closes what it names.)
EvictsOldestFirst ==
  [][(\E c \in Clients : EngineOpen(c) \/ CreateLocked(c) \/ Release(c)) =>
       \A v \in open \ open', d \in open' :
         refs'[d] = 0 => used[v] < used'[d]]_vars

\* DROP DATABASE always gets an answer: it does not wait for the database's
\* clients beyond lockIdle's deadline, though they may never leave.
DropAnswered ==
  \A c \in Clients : (pc[c] \in {"dropping", "waiting"}) ~> (pc[c] \in {"in", "out"})

\* core/cluster.go on DropDatabase: "It fails while clients are on it."  The
\* code breaks it: CREATE DATABASE may replace the entry that counts them.
DropFailsInUse ==
  [][\A c \in Clients : DropLocked(c) => Holders(target[c]) = {}]_vars
=============================================================================
