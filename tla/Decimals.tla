------------------------------ MODULE Decimals ------------------------------
(***************************************************************************)
(* Exact numbers (engine/decimal.go): sum and avg as aggregates and over a *)
(* sliding window, rounding, comparing, and the digits a number is printed *)
(* with.  A number is counted in tenths.  SQLite calls Step for a row that *)
(* enters the frame, WindowInverse for one that leaves it, and asks for    *)
(* the value in between.                                                   *)
(***************************************************************************)
EXTENDS Integers, FiniteSets, FiniteSetsExt, Sequences

CONSTANTS Cells,     \* what the rows of a column may hold
          MaxRows,   \* bound: rows of a partition
          Int64,     \* the sums that fit an integer, in tenths
          Grid,      \* the parts of 1 that a float of 200 bits tells apart at the size of
                     \* the numbers that are rounded: 2^200 over that size
          MaxDigits  \* the most digits a number is printed with, 20 in the code

\* A cell: NULL, an integer, a float, the text of a number, another text.
Cell(kind, n) == [kind |-> kind, n |-> n]
Numeric == {"int", "float", "text"}

ASSUME DecimalsAssumption ==
  /\ \A c \in Cells : c.kind \in Numeric \cup {"null", "word"} /\ c.n \in Int
  /\ \A c \in Cells : c.kind = "int" => c.n % 10 = 0
  /\ MaxRows \in Nat /\ Int64 \subseteq Int
  /\ Grid \in Nat \ {0} /\ Grid % 2 = 0 /\ MaxDigits \in Nat

VARIABLES
  column,   \* the rows of the partition
  entered,  \* how many have entered the frame
  left,     \* how many have left it
  agg       \* decAgg, without "avg"

decVars == <<column, entered, left, agg>>

NewAgg == [any |-> FALSE, acc |-> 0, n |-> 0, sawStr |-> FALSE, sawFloat |-> FALSE]

DecInit ==
  /\ column \in UNION {[1..k -> Cells] : k \in 1..MaxRows}
  /\ entered = 0 /\ left = 0
  /\ agg = NewAgg

parseDec(c) == c.kind \in Numeric

Added(a, c) == [a EXCEPT !.any = TRUE, !.acc = @ + c.n, !.n = @ + 1]

Step(c) ==
  LET a == [agg EXCEPT !.sawStr = @ \/ c.kind \in {"text", "word"},
                       !.sawFloat = @ \/ c.kind = "float"]
  IN agg' = IF parseDec(c) THEN Added(a, c) ELSE a

\* Mutant: a row that leaves is not taken off the count.
WindowInverseSum(c) ==
  agg' = IF parseDec(c) /\ agg.any THEN [agg EXCEPT !.acc = @ - c.n] ELSE agg

WindowInverse(c) ==
  agg' = IF parseDec(c) /\ agg.any THEN [agg EXCEPT !.acc = @ - c.n, !.n = @ - 1] ELSE agg

Enter ==
  /\ entered < Len(column)
  /\ entered' = entered + 1
  /\ Step(column[entered + 1])
  /\ UNCHANGED <<column, left>>

Exit ==
  /\ left < entered
  /\ left' = left + 1
  /\ WindowInverse(column[left + 1])
  /\ UNCHANGED <<column, entered>>

\* decAgg.value: the number is acc / den tenths.
Null == [kind |-> "null", acc |-> 0, den |-> 1]

value(avg) ==
  IF agg.n = 0 \/ ~agg.any THEN Null
  ELSE [kind |-> IF agg.sawStr THEN "text"
                 ELSE IF avg \/ agg.sawFloat THEN "float"
                 ELSE IF agg.acc \in Int64 /\ agg.acc % 10 = 0 THEN "int"
                 ELSE "text",
        acc |-> agg.acc, den |-> IF avg THEN agg.n ELSE 1]

-----------------------------------------------------------------------------
(* Single numbers.                                                         *)

\* Texts that are no numbers come first, in their own order.
decCmp(a, b) ==
  LET sign(i) == IF i < 0 THEN -1 ELSE IF i = 0 THEN 0 ELSE 1
  IN IF ~parseDec(a) /\ ~parseDec(b) THEN sign(a.n - b.n)
     ELSE IF ~parseDec(a) THEN -1
     ELSE IF ~parseDec(b) THEN 1
     ELSE sign(a.n - b.n)

\* Go's integer part of p / q.
Truncated(p, q) == IF p < 0 THEN -((-p) \div q) ELSE p \div q

\* The float nearest to p / q, in parts of Grid, the even one of two.
SetRat(p, q) ==
  LET low == (p * Grid) \div q
      rest == (p * Grid) % q
  IN IF 2 * rest < q \/ (2 * rest = q /\ low % 2 = 0) THEN low ELSE low + 1

\* round(r, scale), r in thousandths; shift is 10^scale, the answer in units of 1 / shift.
Unit == 1000
decRound(r, shift) ==
  LET f == SetRat(r * shift, Unit)
      half == IF f < 0 THEN -(Grid \div 2) ELSE Grid \div 2
  IN Truncated(f + half, Grid)

\* Of numbers below 2^11.
factorCount(den, p) == Max({c \in 0..10 : den % p^c = 0})

\* -1 if the number does not end.
decimalDigits(den) ==
  LET c2 == factorCount(den, 2)
      c5 == factorCount(den, 5)
  IN IF den # 2^c2 * 5^c5 THEN -1 ELSE IF c2 > c5 THEN c2 ELSE c5

\* Go's FloatString: n / den in units of 1 / 10^p, away from zero from the middle.
FloatString(n, den, p) == Truncated(2 * n * 10^p + (IF n < 0 THEN -den ELSE den), 2 * den)

\* n / den in lowest terms, as printed: a number and how many of its digits follow the point.
decString(n, den) ==
  LET digits == decimalDigits(den)
      prec == IF digits < 0 \/ digits > MaxDigits THEN MaxDigits ELSE digits
      m == FloatString(n, den, prec)
      zeros == Max({k \in 0..prec : m % 10^k = 0})
  IN IF den = 1 THEN <<n, 0>> ELSE <<Truncated(m, 10^zeros), prec - zeros>>

-----------------------------------------------------------------------------
(* What they mean.                                                         *)

\* The cells of the frame that count.
Frame == {i \in left + 1..entered : parseDec(column[i])}

Total == MapThenSumSet(LAMBDA i : column[i].n, Frame)

Kinds == {column[i].kind : i \in 1..Len(column)} \ {"null"}

\* At every row: the sum and the average are those of the frame's rows, NULL for
\* none; and those of a column of one kind are of that kind, but a sum of
\* integers that no integer holds is a text (decimal.go:61-109).
WindowRight ==
  \A avg \in BOOLEAN :
    LET v == value(avg)
        fits == Total \in Int64
    IN /\ v = Null <=> Frame = {}
       /\ v # Null => v.acc = Total /\ v.den = IF avg THEN Cardinality(Frame) ELSE 1
       /\ v # Null /\ Cardinality(Kinds) = 1 =>
            v.kind \in IF Kinds = {"int"} /\ ~avg THEN {IF fits THEN "int" ELSE "text"}
                       ELSE IF Kinds = {"int"} THEN {"float"} ELSE Kinds

\* The collation orders all cells (decimal.go:210-225).
OrderRight(a, b, c) ==
  /\ decCmp(a, b) = -decCmp(b, a)
  /\ decCmp(a, b) <= 0 /\ decCmp(b, c) <= 0 => decCmp(a, c) <= 0
  /\ decCmp(a, b) = 0 /\ decCmp(b, c) = 0 => decCmp(a, c) = 0

\* Rounding goes to the nearest, and away from zero from the middle (decimal.go:237-251).
RoundRight(r, shift) ==
  LET away == decRound(r, shift) * Unit - r * shift
  IN /\ 2 * away <= Unit /\ -2 * away <= Unit
     /\ 2 * away \in {Unit, -Unit} => (away > 0 <=> r > 0)

\* A number is printed exactly if the most digits are enough, otherwise as the nearest
\* that has so many; and the last digit is no zero (decimal.go:149-197).
DigitsRight(n, den) ==
  LET m == decString(n, den)[1]
      p == decString(n, den)[2]
      off == m * den - n * 10^p
  IN /\ p <= MaxDigits /\ (p > 0 => m % 10 # 0)
     /\ 10^MaxDigits % den = 0 => off = 0
     /\ 2 * off * 10^(MaxDigits - p) \in -den..den
=============================================================================
