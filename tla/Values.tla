------------------------------- MODULE Values -------------------------------
(***************************************************************************)
(* The functions on values: ranges, times, decimals and type modifiers,    *)
(* and the aggregates over a sliding window.  A behaviour is one of them   *)
(* at work: a function is asked one question, a window slides over one     *)
(* column.                                                                 *)
(***************************************************************************)
EXTENDS Decimals

CONSTANTS
  Ranges,   \* ranges two of which are compared
  Points,   \* elements they may have
  Bounds,   \* ends a range is made with
  Moments,  \* times whose fields are asked for
  Ages,     \* pairs of times
  Numbers,  \* pairs of a number, in thousandths, and the power of ten of a scale
  Types     \* pairs of a declared type and the numbers in its parentheses

R == INSTANCE Ranges
T == INSTANCE Dates
M == INSTANCE TypeModifiers

RangeEnds == {e \in {a.lo : a \in Ranges} \cup {a.hi : a \in Ranges} : e.kind = "number"}

ASSUME ValuesAssumption ==
  /\ \A a \in Ranges : a \in R!Range
  /\ \A e \in Bounds : e \in R!Bound
  /\ R!Dense(Points, {e.n : e \in RangeEnds})
  /\ \A t \in Moments : t \in T!Times
  /\ \A p \in Ages : p[1] \in T!Times /\ p[2] \in T!Times
  /\ \A n \in Numbers : n[1] \in Int /\ n[2] \in Nat \ {0}
  /\ \A t \in Types : t \in M!Declared

VARIABLES
  part,      \* what is at work
  question   \* what a function is asked, if it has been

valueVars == <<part, question, decVars>>

ValueFunctions == {"ranges", "made", "moments", "ages", "order", "rounding", "types"}

\* Without a column.
DecRests == column = <<>> /\ entered = 0 /\ left = 0 /\ agg = NewAgg

ValuesInit ==
  /\ question = {}
  /\ \/ part = "aggregates" /\ DecInit
     \/ part \in ValueFunctions /\ DecRests

Slide == part = "aggregates" /\ (Enter \/ Exit) /\ UNCHANGED <<part, question>>

Asked(what, questions) ==
  /\ part = what /\ question = {}
  /\ \E q \in questions : question' = {q}
  /\ UNCHANGED <<part, decVars>>

AskValue ==
  \/ Asked("ranges", Ranges \X Ranges)
  \/ Asked("made", Bounds \X Bounds \X BOOLEAN \X BOOLEAN)
  \/ Asked("moments", Moments) \/ Asked("ages", Ages)
  \/ Asked("order", Cells \X Cells \X Cells)
  \/ Asked("rounding", Numbers) \/ Asked("types", Types)

ValuesNext == Slide \/ AskValue

ValuesSpec == ValuesInit /\ [][ValuesNext]_valueVars

-----------------------------------------------------------------------------

\* The functions on values answer what they stand for: ranges as sets of points, times
\* as instants, ages as differences (but for what AgeRight excepts), decimals as exact
\* numbers, those that are rounded as long as the float tells their digits apart, and the
\* window's sum and average at every row (engine/ranges.go, engine/datefuncs.go,
\* engine/decimal.go, engine/typemod.go).
AnswersRight ==
  /\ part = "aggregates" => WindowRight
  /\ \A q \in question :
       /\ part = "ranges" => R!RangesRight(q[1], q[2], Points)
       /\ part = "made" => R!MadeRight(q[1], q[2], q[3], q[4], Points)
       /\ part = "moments" => T!TruncRight(q) /\ T!PartRight(q) /\ T!JulianRight(q)
       /\ part = "ages" => T!AgeRight(q[1], q[2])
       /\ part = "order" => OrderRight(q[1], q[2], q[3])
       /\ part = "rounding" /\ Grid > Unit => RoundRight(q[1], q[2])
       /\ part = "types" => M!TypmodRight(q[1], q[2])
=============================================================================
