-------------------------------- MODULE Parts --------------------------------
(***************************************************************************)
(* The parts that share no state with the others or with each other: how a *)
(* connection is authenticated, row-level security, aggregates over a      *)
(* sliding window, and the functions on values and texts.  A behaviour is  *)
(* one of them at work, the others at rest; a function is asked one        *)
(* question.                                                               *)
(***************************************************************************)
EXTENDS Authentication, RowSecurity, Values

CONSTANTS
  Fractions,    \* numbers that are printed, in lowest terms
  Messages,     \* texts of Query messages
  Expressions,  \* what a client says, and what it means to SQLite
  Intervals,    \* amounts of an interval
  Reads,        \* SELECT statements
  Writes,       \* pairs of a table and the UPDATE or DELETE of it
  Additions,    \* INSERTs: a table, its columns, the source and what follows
  Transfers,    \* rows of COPY, how many columns, and whether a client wrote them
  Arrays,
  Maps          \* hstore values and the order of their keys

S == INSTANCE Statements
D == INSTANCE Dialect
F == INSTANCE References
C == INSTANCE Codecs

vars == <<part, question, authVars, rlsVars, decVars>>

TextFunctions == {"digits", "messages", "expressions", "intervals", "reads", "writes", "additions",
                  "transfers", "arrays", "maps"}

\* At rest.
AuthRests ==
  /\ rules = none /\ setting = none /\ roles = none /\ altered = 0 /\ conn = none
  /\ at = "out" /\ method = none /\ cred = NoCred /\ nonce = none /\ answer = none
  /\ read = [login |-> FALSE, pw |-> none]
RlsRests ==
  /\ VersionsInit(CHOOSE v \in Starts : TRUE)
  /\ stmt = [s \in Session |-> Idle] /\ changes = 0 /\ ran = 0

Init ==
  \/ part = "authentication" /\ question = {} /\ AuthInit /\ RlsRests /\ DecRests
  \/ part = "row security" /\ question = {} /\ RlsInit /\ AuthRests /\ DecRests
  \/ part \in TextFunctions /\ question = {} /\ AuthRests /\ RlsRests /\ DecRests
  \/ ValuesInit /\ AuthRests /\ RlsRests

Authenticate == part = "authentication" /\ AuthNext /\ UNCHANGED <<part, question, rlsVars, decVars>>
Secure == part = "row security" /\ RlsNext /\ UNCHANGED <<part, question, authVars, decVars>>
Compute == ValuesNext /\ UNCHANGED <<authVars, rlsVars>>

AskText ==
  /\ \/ Asked("digits", Fractions) \/ Asked("messages", Messages)
     \/ Asked("expressions", Expressions) \/ Asked("intervals", Intervals)
     \/ Asked("reads", Reads) \/ Asked("writes", Writes) \/ Asked("additions", Additions)
     \/ Asked("transfers", Transfers) \/ Asked("arrays", Arrays) \/ Asked("maps", Maps)
  /\ UNCHANGED <<authVars, rlsVars>>

Next == Authenticate \/ Secure \/ Compute \/ AskText

-----------------------------------------------------------------------------
\* Texts keep their meaning: a number is printed with the digits it needs, a message is
\* cut where it is meant to be, an expression that is rewritten says what was said (if its
\* literals are as RewriteRight has them), the tables named are those the statement reads,
\* and what is written is read back, but for what CopyRight excepts (engine/decimal.go,
\* multistatement.go, dialect.go, offset.go, rls.go, privileges.go,
\* engine/schemaqualify.go, copy.go, array.go, engine/hstore.go).
TextsKept ==
  \A q \in question :
    /\ part = "digits" => DigitsRight(q[1], q[2])
    /\ part = "messages" => S!SplitRight(q)
    /\ part = "expressions" => D!RewriteRight(q)
    /\ part = "intervals" => D!IntervalRight(q)
    /\ part = "reads" => F!AskedRight(q) /\ F!FilteredRight(q) /\ F!QualifiedRight(q)
    /\ part = "writes" => F!InjectedRight(q[2], q[1])
    /\ part = "additions" => F!InsertRight(q[1], q[2], q[3], q[4])
    /\ part = "transfers" => C!CopyRight(q[1], q[2], q[3])
    /\ part = "arrays" => C!ArrayRight(q)
    /\ part = "maps" => C!HstoreRight(q[1], q[2])
=============================================================================
