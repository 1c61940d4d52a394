# overlite, specified

overlite speaks the PostgreSQL wire protocol and stores everything in SQLite
files, one file per database. It is one Go process with one goroutine per client
connection. This directory holds TLA+ modules for the parts where the order of
events matters, TLC configurations that check them on small instances, and
proofs, checked by TLAPS, of theorems about them for every instance.

## 1. Inventory

| Component | State | Operations | Interacts with |
|---|---|---|---|
| Cluster (`engine/cluster.go`) | table of open engines: engine, `refs`, `used`; `seq`; the files of the directory | `Engine`, `Release`, `CreateDatabase`, `DropDatabase`, `Close`, eviction | called by every connection; shares the directory with SQLite |
| Advisory locks (`protocol/postgres/advisory.go`) | registry key -> exclusive holder, count, shared holders; the `released` channel; each session's list of transaction locks | take, try, wait, unlock, unlock all, release at the end of a transaction or connection | sessions (transactions, close), cancellation |
| Session, simple protocol (`postgres.go`, `multistatement.go`, `utility.go`, `prepare.go`) | `tx`, `txFailed`, the statements of the current Query | one Query = several statements in an implicit transaction; transaction control; savepoints; utility statements | SQLite connection, cluster (CREATE DATABASE) |
| Session, extended protocol (`extended.go`) | prepared statements, portals with a buffered result, `failed` | Parse, Bind, Describe, Execute, Close, Sync | as above |
| COPY (`copy.go`) | the data of the current COPY | CopyData, CopyDone, CopyFail | session, SQLite connection |
| SQLite transactions (`engine/sqlite.go`) | the connection's transaction and savepoints; the file | begin, commit, rollback, execute | below every session |
| Server and connection lifecycle (`server/`, `cmd/overlite`, `Protocol.Serve`) | listener, set of connections, pool of at most 100 SQLite connections | accept, serve, close; startup, authentication, handshake | cluster, sessions |
| LISTEN/NOTIFY, cancellation (`notify.go`, `cancel.go`) | global registry channel -> sessions; per session a pending queue and an idle flag; map of backend keys to cancel functions | LISTEN, UNLISTEN, NOTIFY, deliver; arm, disarm, cancel | goroutines of other sessions |
| Sequences (`sequences.go`, `defaults.go`) | rows of `_overlite_sequences`; per session `seqCurr`, `seqLast` | CREATE, ALTER, DROP, `nextval`, `currval`, `lastval`, `setval` | run as statements before the client's own |
| Schemas, table rebuilds (`engine/schema.go`, `alter.go`, search paths) | rows of `_overlite_schemas`, prefixed tables, a list of schemas per database shared by its connections | CREATE, DROP, RENAME SCHEMA; rebuild a table inside a savepoint | every connection of that database |
| Roles, privileges, RLS (`roles.go`, `grants.go`, `privileges.go`, `rls.go`) | rows for roles, memberships, grants, policies; per session the current role and a cached bypass | role DDL, GRANT, REVOKE, policy DDL, checks | each statement |
| Authentication (`hba/`, `scram.go`, `tls.go`) | the rule list; the exchange in progress | match a rule; password exchanges | handshake |
| Dialect, types, catalog, SQL functions | none, or a cache | rewriting of one statement, conversion of one value, views | session, SQLite |

What makes these hard: every method of the cluster looks at the directory before
it takes the mutex; a release may fall between a lock attempt and the sleep that
follows it; the session and SQLite each have an idea of "the transaction" and can
disagree; statements are dispatched by a chain of handlers, some of which come
before the check for an aborted transaction; portals and queues outlive what
filled them; several internal operations are several SQL statements.

What makes each part correct:

* cluster: the counts are exact, an engine in use is not closed, the cap holds
  whenever it can, a DROP ends, and a table entry has a file;
* advisory locks: exclusion, no lost wakeup, transaction locks last exactly as
  long as the transaction, nothing survives its connection;
* session: a batch is atomic, nothing takes effect before COMMIT or after a
  failure, the session notices when SQLite has lost its transaction, a failed
  cycle is skipped to Sync, paging delivers each row once;
* connections: what a connection takes (a reference, a connection of the pool, a
  key, channels) is given back however it ends, and the pool serves who waits;
* NOTIFY: once to each listener, in the sender's order, nothing written while the
  session itself writes, and no wait while the session is idle; a cancel reaches
  the statement it was meant for and no other;
* sequences: no value twice, bounds respected, nothing of another session's
  overwritten;
* schemas: a table's schema is registered, the list in memory is the registry, a
  rebuild keeps every row and every acknowledged change;
* roles: the cached bypass is what the tables say, records name what exists; no
  row is read, changed or added past a policy;
* authentication: in is who the first matching rule trusts or who answered with
  the password that counts, in this exchange;
* texts and values: a statement is cut and rewritten to what was meant, the tables
  it names are found, what is written is read back, numbers, ranges and dates are
  computed as defined.

## 2. Modules

| Module | Models | State correspondence |
|---|---|---|
| `Cluster` | `engine/cluster.go`, and what `Serve` and `run` do with it | `open`, `eng`, `refs`, `used` are `Dir.open`; `files` is the directory; `live` is a history of engines opened and not closed; `pc`, `db`, `held`, `target` are the goroutines |
| `AdvisoryLocks` | `protocol/postgres/advisory.go` | `excl`, `exclCount`, `shared` are the registry; `chan` is the `released` channel each waiter captured; `txHolds` is `session.txAdvisory` |
| `AdvisoryContract` | what the locks promise | a set of grants `<<session, key, shared>>` |
| `SqliteTx` | one SQLite connection under `engine/sqlite.go` | `levels` is the open transaction and its savepoints, `durable` the file |
| `Session` | one connection's loop: `extended.go`, `postgres.go`, `multistatement.go`, `utility.go`, `copy.go` | `tx` joins `session.tx` and `txFailed`; `failed`, `prepared`, `portals` as in the code; `rest`, `implicit` are locals of `handleQuery`; `before`, `got` are history |
| `Connections` | the constants the next four and `Versions` share | a session is a connection, used once |
| `Notify` | `notify.go` | `listens`, `pending`, `idle`, `nmu` are the session's fields; `registry` is `notifyRegistry`; `targets`, `note` are locals of `publishNotify`; `received`, `addressed` are history |
| `Cancel` | `cancel.go`, `armCancel` and `exec` of `extended.go` | `backends` is the map of keys; `armed` the canceler's function, `stmt` the statements executed; `req` the locals of a CancelRequest's connection |
| `Server` | `server.go`, `Protocol.Serve`, `SQLite.Session`, with `Notify` and `Cancel` | `conns` is the server's set; `slots` the connections of the pool that are in use, `worn` those used before; `refs` the engine's reference count by holder; `phase` is where `Serve` is |
| `Versions` | the database file as several sessions see it | `db` is what is committed, `work` the version of the session `writer` that is in a transaction |
| `SequenceCounters` | `sequences.go`, `defaults.go` | rows of `_overlite_sequences` and `_overlite_defaults` are the version; `seqCurr`, `seqLast` the session's; `got` what nextval has read |
| `Access` | `roles.go`, `grants.go`, `privileges.go`, `session_user.go` | rows of the internal tables are the version; `sessionUser`, `currentRole`, `bypassCache` the session's; `task` is what a handler has left to do |
| `Schemas` | `engine/schema.go`, `searchpath.go`, `dbstate.go`, `alter.go` | the registry and the tables are the version; `schemaList` is `dbState.schemas`; `task` as in `Access`; `saved` is the savepoint of a rebuild |
| `RowSecurity` | the checks of `rls.go` | flags, policies, the role's standing and the rows are the version; `stmt` holds the locals of a statement's handler |
| `Authentication` | `hba/`, `authenticate` of `postgres.go`, `scram.go` | `rules` is `Protocol.hba`; `at`, `method`, `cred`, `nonce`, `answer` are locals of the exchange |
| `Decimals` | `engine/decimal.go` | `agg` is `decAgg` |
| `Ranges`, `Dates`, `TypeModifiers` | `engine/ranges.go`, `datefuncs.go`, `typemod.go` | functions |
| `Values` | `Decimals` and these functions, one at a time | `question` is what a function is asked |
| `Statements`, `Dialect` | `multistatement.go`, `blank.go`; `dialect.go`, `offset.go` | functions on texts |
| `References` | the scanners of `privileges.go`, `rls.go`, `schemaqualify.go` | functions on texts |
| `Codecs` | `copy.go`, `array.go`, `hstore.go` | functions on texts |
| `Parts` | `Authentication`, `RowSecurity`, `Values` and the functions on texts, one at a time | |
| `ClusterProofs`, `AdvisoryLocksProofs`, `SessionProofs`, `ServerProofs`, `SequencesProofs`, `AccessProofs`, `SchemasProofs`, `PartsProofs` | theorems | |
| `MCCluster`, `MCAdvisoryLocks`, `MCSession`, `MCServer`, `MCSequences`, `MCAccess`, `MCSchemas`, `MCParts` | instances for TLC | |

### Cluster

The mutex makes the locked part of each method one action. `Engine`,
`CreateDatabase` and `DropDatabase` test for the file first, without it, so each
is two actions and every interleaving between the two is explored. `evictLocked`
is part of each action that calls it; its loop is given as the set of engines it
closes. `lockIdle`'s poll is `DropBusy` (sleep) and, from "waiting",
`DropLocked` or `DropGiveUp`. `Restart` is a crash or a stop and a new start on
the same directory, which may contain files of an interrupted open. Closing an
engine on a SIGTERM while connections still use it is the same step: nothing of
them is observed any more. An engine is identified by the `seq` it was entered
with. `os.Remove` may fail: then the file stays, and the engine is closed all
the same. When it fails on the `-wal` file only, the database file is already
gone, which is the other outcome.

### AdvisoryLocks and AdvisoryContract

Each section under `advisoryLocks.mu` is an action. `waitAdvisory` is `Capture`
(read the channel), `Acquire` or `Block` (`tryAdvisory`), `Wake` or `Cancel`
(the `select`). A call of a `_xact_` function is "granted" until `holdForTx` has
recorded it. `releaseTxAdvisoryLocks` walks its list one lock at a time, and a
closing connection releases first and rolls back later, as `loop`'s deferred
function does. The abstract lock table knows only compatible grants and returns;
`KeepsContract` is the refinement, with a grant for each session that has at
least one hold.

### Session over SqliteTx

A statement is reduced to the handler it reaches, because those differ in three
ways that matter: whether they come before or behind the aborted-transaction
guard, whether their error marks the transaction, and whether they are one SQL
statement or several. What a statement writes is a fresh number, so that a
property can ask where the effect went. `SqliteTx` may drop a transaction on any
failing write, which is what SQLite does when a write is interrupted, a disk is
full or I/O fails, and it may refuse a COMMIT and stay in the transaction (or
lose it) while `database/sql` and the session consider it over. CREATE and DROP
DATABASE act on the cluster, outside every transaction, and are counted in
`dbs`.

### Server, with Notify and Cancel

A connection's goroutine goes through the phases of `Serve`: accepted, reading its
start-up, waiting for a connection of the pool, authenticating, in the loop, and
back through the deferred calls, last first. `database/sql` is external: a
connection that is put back goes straight to a client in line (`PutConn`), and
only with nobody in line is it closed. A client's three seconds may end at any
moment, also after a connection was handed to it. In the loop, a session is idle
between a ReadyForQuery and the next message; `nmu` is held across writes, which
may block, so taking it is a guard. `publishNotify` copies the listeners and
enqueues to them one by one, in any order, as Go ranges over a map. A statement
runs under a context of its own; a CancelRequest finds the key, reads the function
and calls it, in three steps of a connection of its own.

### SequenceCounters, Access, Schemas and RowSecurity over Versions

All four are rows of internal tables that handlers read and write with
statements of their own. Outside a transaction each statement commits by itself
and other sessions run in between; inside one the session works on a version of
its own and nobody else writes. `nextval` is a read and a write; a role's or
schema's statement is the list of its queries and writes (`task`), of which each
is a step that may answer with an error and end the rest. What was written before
an error stays, unless a transaction is rolled back. `bypassCache` and the shared
list of schemas live in memory, outside all of this.

A rebuild in `Schemas` reads the definition, then the indexes and triggers (`ReadAux`:
a query whose error is taken for "none", alter.go:285), and only then opens its
savepoint: create, copy, drop, rename, make the indexes and triggers again, RELEASE.
Outside a transaction that RELEASE is the commit. It may be refused, by a deferred
foreign key or a full disk; its error is dropped (alter.go:335), so the client is
answered as if it had succeeded while SQLite's transaction stays open without the
session's knowledge (`ReleaseRefused`, `unaware`): the session's COMMIT and ROLLBACK
then do nothing, and what follows goes into that transaction until the connection ends
(`Closes`) and takes it all back. `due` is what clients were told a table has, whether
it was done or not; of that, `undone` is what they were told and was not made: an ADD
CONSTRAINT whose rebuild failed (alter.go:51-61) and an ALTER whose RELEASE was
refused. (`Session` has its own transactions only: a RELEASE of a rebuild that is
refused is not among the ways `ForgottenByCommitAlone` knows.)

`RowSecurity` has the queries of the check one by one: the flags, superuser, BYPASSRLS,
owner, the policies, the count of the rows that an INSERT brings, the count of those
that pass, and the statement. A policy's expression is the set of rows it is true of.
Each of the queries may fail (`QueryFails`), and the handler then goes on: a role whose
flags or superuser attribute cannot be read is not subject (rls.go:191, 206), a count or
a savepoint that fails is done without (rls.go:514), and policies that cannot be read let
nothing pass. An upsert (`RunUpsert`) adds the rows whose keys are free and rewrites those
whose keys are taken, whoever may see them; the rows it leaves are then checked inside a
savepoint.

### Authentication

A rule's database, user and address are sets of patterns. A hash is the tuple of
what was hashed, so an answer fits only if its password, salt and nonce do; the
client may answer with any password, for this or for an earlier nonce, or with a
message of another type. ALTER ROLE and DROP ROLE by another session come between
any two steps.

### Values and texts

A number is an integer of tenths or thousandths; a bound of a range is a number
with a spelling, since `makeRange` compares texts; a date is its fields. A text is
a sequence of tokens or of marked characters: just those the scanners tell apart.
The loops of the scanners are folds or recursive functions of the same order, and
`Dialect!rewrite` applies the rules in the order of `rewrite`. The references are
written the other way round: a phrase is built together with what it means (its
text to the client and its text to SQLite), so the check compares what the code
makes of a text with what it was built to mean.

## 3. Runs

| Run | Instance | Shows |
|---|---|---|
| `cluster` | 3 connections, 3 databases, cap 2, 4 opens | 7 properties hold, `DropAnswered` under fairness |
| `cluster_race` | 3 connections, 2 databases | DROP DATABASE removes a database in use |
| `advisory` | 3 sessions (one using `_xact_` calls only), 1 key, 2 holds each | 8 properties hold, among them the refinement and `FreeLockIsTaken` under fairness |
| `advisory_tx` | 2 sessions | a transaction-level lock does not last for the transaction |
| `server` | 3 connections, a pool of 2 clients, 2 notifications, 2 statements | 6 invariants, and `DeliveredWhenIdle`, `CancelIsHeard` under fairness |
| `sequences` | 2 sessions, 1 sequence of the integers -4..3 | `HandedOutOnce`, `NoOverwriteInTx`, `WithinBounds` |
| `access` | 2 sessions, 3 roles, 1 table, 3 statements | `CacheAgrees`, `RecordsAgree` |
| `schemas` | 2 sessions, 2 schemas and public, 1 table, 4 statements | `SchemasAgree`, `RebuildKept` |
| `parts` | one part at a time, all small inputs | `AdmittedAsRuled`, `RowsPermitted`, `AnswersRight`, `TextsKept` |
| `session` | 1 connection, 20 Query messages, 7 prepared kinds, 1 portal on 2 rows, 2 writes, 1 savepoint | 6 properties hold |
| `session_aborted` | as above | CREATE SCHEMA runs in an aborted transaction |
| `session_error` | as above | a failing EXECUTE does not abort the transaction |

Bounds. *Cluster*: three databases are the entry, the maintenance database and
one that can be dropped; a cap of two makes eviction choose between idle
engines; three connections let one create, one drop and one connect to the same
name at once. `MaxSeq` bounds opens, so behaviours end and deadlock is not
checked; four opens suffice to lose an entry, drop it and open it again. The
replacement needs one CREATE racing one other open. *Advisory*: an exclusive
holder, a sharer and a waiter are three sessions; keys do not interact, since
each step touches one key, except for the release of everything, which treats
every key alike. A hold taken twice exercises the counts. *Session*: a
connection's state is its own, so one connection is enough; two writes tell a
half-done batch from a whole one; two rows and pages of 0, 1 or 2 cover a page
inside, at and past the end. The batches are those that mix a failing or
unguarded statement with a write.
 *Server*: three
connections are a publisher, a listener and one that waits, cancels or listens
too; the pool has room for two of them. `Asks` bounds what each does; two
notifications of one sender show their order, two statements a cancel that comes
late. *Sequences*: eight integers are enough for the sum to wrap, and two sessions
for a counter to be set back. *Access*: one session runs the DDL that changes names
and the other works with them; three statements are a name that is created, used and
dropped or renamed while the other session is half way. *Schemas*: one session runs the schema
DDL, the other makes, fills, indexes and rebuilds tables, whose names it resolves with a
search path that it sets once; four statements are a table that is made, indexed and
rebuilt while the other session moves it.
*Parts*: five rule files, two users, two databases and one change of the role; two
rows, two policies at a time, one change by a superuser; windows over four rows;
all texts up to the lengths named in `MCParts`, which nest every construct in
every other once or twice. The points a range is compared at are the numbers of its
ends and one between, below and above any of them (`Dense`), which tell ranges apart
as well as all numbers would. `Grid` is 1024: the float that `round` goes through has
200 bits, so it tells 2^200 / n parts of 1 apart for a number near n, and 1024 is what
is left of that for the largest numbers that are still rounded right (`Grid > Unit`).
`MaxDigits` is 4, where the code prints up to 20 digits: fractions with three, four and
five of them are on both sides of it. The literals of the expressions hold whole
parentheses and every operator and clause word the scanners look for, and no quotes.

Fairness. `Server`: goroutines run, SQLite stops a statement whose context is
cancelled, and clients that notifications are written to read them (a client that
does not read holds up its notifier: the code writes under the mutex). Nothing
makes a client send or a statement end by itself. `Cluster`: a goroutine inside DROP DATABASE keeps running and its
clock reaches the deadline (`WF` of the three steps of `lockIdle`); clients owe
nothing, so a database may stay in use for ever. `AdvisoryLocks`: a goroutine
that can run does (`WF` of its own steps); no client is assumed to unlock, end
its transaction or leave. The mutexes are held for bounded work only. Neither
justifies strong fairness: a waiter may lose every race for a lock that others
take in turn, so what is claimed is that it does not sleep on a lock that stays
free to it.

### Disagreements between the code and what it says

* `DropFailsInUse` (`core/cluster.go:24`): the check for an existing file in
  `CreateDatabase` is made before the mutex is taken, and the entry is then
  overwritten, with its count.
* `XactLockLastsForTx` (`advisory.go:23`): the registry has one count for both
  kinds of locks.
* `AbortedRejects` (`extended.go:36`): `trySchemaDDL` and, in the extended
  protocol, `tryDatabaseDDL` come before the guard.
* `FailureAborts` (`tx_wire_test.go:44`): four handlers send their error without
  setting `txFailed`.

More were met in the modules of runs `server` to `parts`. They are not runs of
their own; the properties are stated next to them, and the modules behave as the
code does:

* *Pool* (`sqlite.go:53-55`, "never reused"): a connection handed to a waiting
  client is one that another session has used (`FreshUnlessWaited`).
* *Notify*: NOTIFY takes effect at once, inside a transaction too. *Cancel*: a
  request that arrives between two statements of one command is lost.
* *Sequences*: outside a transaction two sessions may get one value, or set the
  counter back; the sum wraps at 2^63 before it is compared; records of column
  defaults are never deleted, and made although CREATE TABLE failed; ALTER always
  sets CYCLE anew; `nextval` is undone by ROLLBACK.
* *Access*: the cached bypass outlives another session's ALTER ROLE and a rollback
  of the own; RENAME leaves memberships, grants and owners under the old name;
  DROP TABLE leaves its policies and flags; CREATE TABLE IF NOT EXISTS changes the
  owner of a table that was there; a dropped role that is somebody's current one
  becomes unmanaged.
* *Schemas*: schema DDL runs in an aborted transaction, and its errors do not
  abort one (`schema.go:403`, "Fully transactional"); DROP SCHEMA CASCADE and
  RENAME outside a transaction go statement by statement; the shared list tells of
  schemas that were rolled back; ADD CONSTRAINT whose rebuild fails is answered as
  a success (`alter.go:51-61`; `alter.go:582-585` and `POSTGRES_ROADMAP.md:295-297` say
  otherwise), and so is an ALTER whose RELEASE is refused (`alter.go:335`). `RebuildKept`
  excepts both as `undone`.
* *Row security*: an INSERT that leaves out a column a policy names makes the
  count fail and then runs unchecked (`rls.go:401-405`); the new rows of an UPDATE
  are not checked. An upsert may rewrite a row that the role cannot see: only the rows
  it leaves are checked, and against the policies for UPDATE alone (`rls.go:420-424,
  490-530`), also those it inserts, for which `rls_wire_test.go:184-185` has WITH CHECK.
  A query that fails leaves the role free (`rls.go:191, 206, 514`). `RowsPermitted` says
  what holds next to these: it speaks of the rows an upsert leaves, and of statements
  none of whose queries failed.
* *Authentication*: one bad line, and none of the file's rules is in force; md5
  cannot succeed for a role with a verifier.
* *References*: tables after a comma are not among those asked for privileges;
  `TABLE t`, a table behind a parenthesis that opens a join, and one after a comma
  that follows ON or a derived table's WHERE are read without their policies; a
  CTE's name and the word after `extract(... from` are taken for tables; `s.t.c`
  in a schema is stranded when its table gets an alias.
* *Dialect*: casts run after intervals, so the cast operand of an interval sum is
  rewritten wrongly; of `a + b - interval` only `b` is taken. The scanners for an
  operand look into string literals: a doubled quote in front of `::` splits the literal,
  and a parenthesis in one is counted (`dialect.go:371-381, 409-414, 904-923`; "a quoted
  string", `dialect.go:227-230`), so `RewriteRight` is about literals with whole
  parentheses and no quotes. A comment hides a clause word from OFFSET's scanner and
  TRIGGER from the splitter's; an `E''` string in a trigger's body is read as a plain
  one (`multistatement.go:133-134`, though 76-81 tell them apart in a statement).
* *Codecs*: COPY TO escapes the null marker (`copy.go:257, 268-289`), so that COPY FROM
  reads the text `\N` where NULL was (`copy_wire_test.go:18`, "`\N` for NULL", and 69-70,
  "reproduces the data"); blank rows at the end are lost; an array literal is split at every comma, quoted
  or not. `CopyRight` excepts the NULLs and the blank rows of what COPY TO wrote; a row
  that a client wrote with `\N` is read as NULL.
* *Values*: `numrange(NULL, NULL)` is empty; date ranges are never comparable.
  `age` prints its sign with the hours, so that of a time of less than an hour is lost
  and both orders of its arguments print the same (`datefuncs.go:438`; "a - b as
  Postgres formats it", 350-351); it borrows from the month before the later date and
  may answer a negative day (`datefuncs.go:407-411`; 377-378). `AgeRight` names both.
  `round` goes through a float of 200 bits before it adds a half (`decimal.go:242`;
  "half-up", 237), so a number so large that this float cannot hold its
  thousandths is rounded elsewhere: what is claimed is for `Grid > Unit`. A number that
  ends after more than 20 digits is printed with 20 (`decimal.go:154-157`; "prints
  exactly", 153). A sum over a frame whose rows all left is right in `sum`, which counts, and
  0 in `dec_sum`, which does not.

The passing properties are stated so that they describe what the code does
guarantee next to these, and their comments name the exceptions and the lines:
`ExactUnlessLeaked` says that the replacement is the
only way the counts go wrong, `XactLocksExact` is about clients that do not mix
the two kinds of calls, `LossIsNoticed` names its three exceptions.

## 4. Theorems

Every theorem holds for any number of clients, names, sessions, keys, messages
and rows, and any value of the bounds, under the named assumptions on the
constants (`ClusterAssumption`, `AdvisoryAssumption`, `SessionAssumption`,
`WorkAssumption`, `ConnectionsAssumption`, `NotifyAssumption`, `CancelAssumption`,
`ServerAssumption`, `AuthenticationAssumption`, `LoadAssumption`,
`CountersAssumption`, `AccessAssumption`, `SchemasAssumption`,
`RowSecurityAssumption`, `DecimalsAssumption`, `ValuesAssumption`), which TLC evaluates in the runs. They say of which sort the
constants are, and that names of different sorts differ; what they say beyond that is
that the database of `Schemas` starts with finitely many tables, since the code lists
them, that a table of `RowSecurity` has finitely many rows, since it counts them, that a
date `Values` asks about is one of the calendar, that a scale has its sixteen bits, and
that ranges are compared at points enough.

| Theorem | Property |
|---|---|
| `ClusterProofs!TypeCorrect` | `TypeOK`: in particular a count is never negative |
| `ClusterProofs!FilesAreThere`, `NoReferenceLeaks`, `CapHolds`, `CountsExact` | `OpenHasFile`, `RefsAreHeld`, `OverCapOnlyInUse`, `ExactUnlessLeaked` |
| `ClusterProofs!EvictsOldest` | `EvictsOldestFirst` |
| `ClusterProofs!DropFailsInUseUnlessLeaked` | `DropFailsInUse`, which run `cluster_race` refutes, for as long as no engine is lost |
| `AdvisoryLocksProofs!TypeCorrect`, `ExclusionHolds`, `WakeupsAreNotLost`, `ClosedHoldNothing` | `TypeOK`, `MutualExclusion`, `NoLostWakeup`, `NothingAfterClose` |
| `AdvisoryLocksProofs!ImplementsContract` | `KeepsContract`: the refinement of `AdvisoryContract` |
| `AdvisoryLocksProofs!XactLocksAreExact` | `XactLocksExact` |
| `AdvisoryLocksProofs!DeadlockStands` | `OnlyCancelEndsDeadlock` |
| `AdvisoryLocksProofs!ContractExcludes`, `GrantsExclude` | conflicting grants are never held together: in the contract, and so in the code |
| `SessionProofs!TypeCorrect`, `BatchIsAtomic`, `EffectsWaitForCommit`, `LossesAreNoticed`, `OnlyCommitForgets`, `FailedCycleIsSkipped`, `FetchesAreComplete` | `TypeOK`, and the six properties of run `session` |
| `ServerProofs!WritesAreSerial`, `CancelsAreExact`, `HeldAlwaysInOrder`, `FreshConnections` | `OneWriter`, `OnlyTheStatementAsked`, `HeldInOrder`, `FreshUnlessWaited` |
| `ServerProofs!NotifiedExactlyOnce`, `NotifiedInOrder` | `ExactlyOnce`, `SenderOrder` |
| `ServerProofs!NothingLeftBehind`, `RegistryIsRight` | `PendingIsTaken` and `RegistryAgrees` of `Notify`, proved and not among the properties of the runs |
| `SequencesProofs!SequencesInvariant`, `ValuesAreHandedOutOnce`, `NothingOverwrittenInTx`, `CountersStayWithinBounds` | the invariant with its types; `HandedOutOnce`, `NoOverwriteInTx`, `WithinBounds` |
| `AccessProofs!AccessInvariant`, `AccessTypes`, `CachesAgree`, `RecordsDoAgree` | the invariant; `TypeOK`, `CacheAgrees`, `RecordsAgree` |
| `SchemasProofs!SchemasInvariant`, `SchemasDoAgree`, `RebuildsKeep` | the invariant with its types; `SchemasAgree`, `RebuildKept` |
| `PartsProofs!ExchangeInvariant`, `AdmissionIsRuled` | the invariant of `Authentication`; `AdmittedAsRuled` |
| `PartsProofs!RowSecurityInvariant`, `StatementsStayPermitted` | the invariant of `RowSecurity`; `RowsPermitted` |
| `PartsProofs!AnswersAreRight`, with `AgeIsRight`, `WindowIsRight` | `AnswersRight`; the two of its parts that took most |

*Cluster*. The properties do not prove each other: that a connection's engine
is the one in the table needs `EnginesKnown` (entries' engines are live, no two
share one, engines and `used` are numbered up to `seq`), without which closing
one entry's engine could close another's. `RefsAreHeld` is an inequality
because `Release` finds the entry by name: an overwritten entry leaves a count
below its holders, never above. The step is proved per action; `evictLocked`
and `Enter` have lemmas of their own, because four actions contain them. That
the cap is met again (`EvictReachesCap`) is arithmetic on cardinalities of
finite sets. The theorem on DROP follows from `ExactUnlessLeaked`: a database
with refs 0 has no holder.

*AdvisoryLocks*. The count of an exclusive lock is decremented without a test,
so typing needs exclusion: the invariant joins the two. `NoLostWakeup` is kept
because every step that could let a sleeper in also closes its channel
(`wakeAdvisoryWaiters`); `NothingAfterClose` because a closed session is named by
no step of another. The refinement maps the registry to a set of grants and
shows that `take`, `unlockAdvisory` and `releaseAdvisoryLocks` are `Grant`,
`Return` and `ReturnAll`, or stutter. `XactLocksExact` compares the registry's
counts with the session's list: the invariant says, per key and mode, how many
places of the list hold the lock, plus one for a call that has been granted and not
yet recorded. Taking the last entry off the list removes one place, so the proof is
about cardinalities of sets of places and needs no induction over the list.
`OnlyCancelEndsDeadlock` needs `MutualExclusion` and which step a session can take where
it is: those who wait for one another run only `waitAdvisory`'s loop, which changes no
lock they have, and those outside the circle give up only their own.

*Session*. The invariant `IInv` adds to the types that a running implicit
transaction is in SQLite's transaction, has done nothing for good and has
nothing left in its Query that could commit (`ImplicitOK`), that no cycle is
being skipped inside a Query, and where a portal and its client are in a result
(`PagesAgree`): without the last, even the range of `got` is not inductive.
`Handled` summarises what one statement may do in either protocol; it is proved
once per handler and used for `QueryStep`, `Finish` and `Execute`.

*Server*. A step of the server is one of `Notify` or leaves its variables alone,
and likewise for `Cancel`, so each property has an invariant over few variables.
`OneWriter` needs that whoever holds a mutex holds no other and is at its write
(`HoldersWrite`), and that a session which works is not idle (`WorkersAreBusy`):
a notifying session cannot then find its own connection idle.
`OnlyTheStatementAsked` needs what a request is about to call to be what it found
(`FoundWhenRead`); what was cancelled then has a request that found it, and what a
request has found never changes. For `HeldInOrder` everything held is a function
of the phase (`HeldByPhase`, `KeysByPhase`, `LoopsByPhase`), and the limit
(`PoolInv`) is arithmetic on the cardinality of `slots`: a connection handed over
leaves it as it is. `ExactlyOnce` counts a notification where it can be: still to
be enqueued, in `pending`, or written to the client. What a session has been sent
and what waits for it are one sequence (`History`), in which a notification stands at
most once and those of one sender stand in the order of their numbers (`SentTo`), and
a session publishes the last it has entered (`PublishesLast`); writing what is pending
leaves the sequence as it is, so only enqueueing has to be looked at.

*SequenceCounters*. `HandedOutOnce` needs that in the writer's version the last value
given out is the one in the row (`Counted`), `NoOverwriteInTx` that between the read
and the write of a `nextval` in a transaction no other session writes. That a
sequence stays within its bounds is about what `Created` and `Altered` do with the
options, and about integers that wrap: `WrappedSum` says that a sum is what it seems
whenever it is within the width.

*Access*. Everything a handler does is queued when its statement starts, so the
invariant speaks of what is left of a handler (`Handler`): which calls come last, and
which call follows a write that leaves the records apart. Records that disagree are
then about to be put right by the next call of some session (`Mended`), the committed
ones by a session other than the one in a transaction, or somebody's commit came in
between (`disturbed`). A cache agrees with what its session would read except between a
write and its own `clearPrivCache`, and after somebody else's commit or a rollback
(`stale`). That the roles of a new edge exist needs `Vouches`: the handler asks
for them, or makes them, before. One lemma per query and per write.

*Schemas*. The two properties speak of what is committed; the invariant speaks of what
every session sees, since each write goes from there. `Sound` gives the forms that what is
left of a handler has, and what each relies on: that a schema it puts a table into is
registered (`Known`), that the tables it drops or moves are all there are in a schema
(`AllListed`), that a new definition is the old one and the change (`Defines`). Another
session's write leaves that as it is, or disturbs the schema: so `Effect` says of a write
what it does for its own handler and that it leaves the names it is not about the `Same`,
each write is proved to have such an effect (`ChangeKeeps`), and one lemma (`Rewritten`)
carries the invariant over. Tables in a schema that is not registered are there only
while a RENAME is about to register it (`Mended`), and the shared list differs from the
version it tells of only while somebody is about to read it again (`ListRight`). `Under`
says what a rebuild that has begun has made of the version it began with; that version,
which the savepoint keeps, stands for the one worked on until the rebuild is over
(`Settled`), so its steps change nothing the invariant speaks of until the last, and a
failure goes back to it. What a client is told that was not made goes into `due` and
`undone` of every version at once (`Told`), so it disturbs no comparison. After a RELEASE
that was refused the transaction is the session's without its knowledge; the committed
tables are then what they were, less what was told.

*RowSecurity*. `RlsSpec` is the behaviour this module has within `Parts`. The invariant
says, for each place in a statement's handler, what the answers so far tell about
the state of the security (`HasAsked`, `Expressed`): some state the handler has seen is as
they say, and every answer agrees with the state if it saw only one. An expression is
then within what was permitted at some moment, and is exactly that if nothing changed
(`Fit`). What another session commits only adds to `seen`, so `Sound` carries over; an
`INSERT ... SELECT` counts rows and then adds them, so there a commit in between
excuses it (`disturbed`). The counts decide as the rows do because the rows that pass
are among those there are, and finite sets of the same size, one in the other, are
equal. Once a query has failed (`lost`), nothing is claimed of the statement, and of an
upsert the theorem is about the rows it leaves, not about those it took the place of.

*Authentication*. `AdmittedAsRuled` speaks of the end only; the invariant says
what is known on the way: that the method is the one wanted (`Resolved`), that the
credential is the password that was due when it was looked up (`CredIsDue`),
whatever has become of the role since, and that an answer was computed from what
the client was sent (`AnswerFits`). `FirstRuleDecides` ties the code's loop to the
rules as they are meant: it needs that a set of natural numbers has a least
element, which follows from the well-foundedness of `<`. The three exchanges are
one lemma, `VerdictIsRight`, with a different test each.

*Values*. `ValuesSpec` is the behaviour this module has within `Parts`. A function's
answer is one step, so what is proved is the function, for every argument. *Ranges*: a
point that tells two ranges apart is an end of one of them or next to one, and `Dense`
has it (`ContainsRange`, `Overlaps`). *Dates*: the day numbers go up by one from each
day to the next, over months, years, leap years and centuries (`YearsFollow`,
`MonthsFollow`, `DaysFollow`), and a second later the fields are those of the next
second (`SecondsFollow`); truncation and the parts follow by what begins then. *Age*:
the order of instants is that of the fields (`InstantsOrdered`), so the later time has
the larger ones up to a borrow, and each borrow is what the unit below is worth in the
larger one (`Borrowed`, `ElapsedIs`). The theorem claims the opposite sign of what is
printed, hence not for less than an hour, and days that are not negative unless the month
before is too short. *Rounding*: the float is off by half a part of `Grid` at most, and
the middle between two answers is a part of it, so a number that is not in the middle is
at least a thousandth from it, which is more than the float may be off (`Grid > Unit`).
*Decimals*: the code keeps a sum and a count and
never looks at the frame again; the invariant (`WindowIs`) says that they are those of
the rows between the one that left last and the one that entered last, and that the
flags remember every row that entered. A row that enters or leaves is one element more
or less of a set whose sum is a fold: that a sum does not depend on the order in which
the fold picks (`SumSplits`) is shown by the set of least size for which it would, since
the library's induction cannot be used.

Model-checked only: `DropAnswered`, `FreeLockIsTaken`, `DeliveredWhenIdle` and
`CancelIsHeard`, since liveness under fairness and ENABLED are outside what the proof
system does; `TextsKept` of run `parts`, since what a recursive function makes of every
text would need induction over its input, and since `Dialect`, like the code, recurses
by operators, which the provers do not read. The four
disagreements are shown by counterexamples.

## 5. What is not modelled

Simplifications in what is modelled:

* one savepoint name in `SqliteTx`: the commands find the innermost one;
* `CREATE SCHEMA` and `COPY` through the extended protocol are not among the
  prepared statements, and Describe is only a message that may fail;
* `SET`, `SHOW` and other statements that change neither data nor the
  transaction are left out, and so is everything a statement's text decides
  beyond the kind of handler it reaches;
* one connection in `Session`: what several do to one file at a time is SQLite's
  own locking, of which the session sees a failed BEGIN or a failed write; in
  `Versions` the file has one writer, and a statement that cannot write fails;
* the calls in one statement's text are single steps in `AdvisoryLocks`;
* a session in `Server` is used once, and what it executes besides LISTEN, UNLISTEN
  and NOTIFY is a statement that may be cancelled;
* role and schema DDL come as their queries and writes, not as texts; memberships
  do not change in `RowSecurity`, and its RELEASE after an upsert (`rls.go:531`), whose
  error nobody looks at either, succeeds;
* a literal that holds a closing parenthesis only, inside a group, may take
  `operandBefore` off the front of the text: such literals are not among `Dialect`'s;
* of `Dialect`, the rewrites that must find an operand; those by regular
  expression (`ilike.go`, `rowlock.go`, `srf.go`, `aliases.go`, ...) look at none;
* CSV in COPY, JSON and regular expressions are Go's libraries.

Not modelled: cryptography (hashes are symbols), TLS, formatting, the text of
errors, binary formats and tables of oids, the catalog's views, `Server.Close`
(tests only), `pgdescribe` (a client), and the interfaces of `core/`, which hold no
state.

Planned:

1. Describe as an operation of its own in `Session`, and COPY through the extended
   protocol.
