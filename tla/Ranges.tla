------------------------------- MODULE Ranges -------------------------------
(***************************************************************************)
(* Range values (engine/ranges.go).  A range is a text, "[1,10)" or        *)
(* "empty".  A bound is the text of a number, the text of something else   *)
(* (a date), or nothing.  The text of a number is the number and a         *)
(* spelling: 1 and 1.0 are one number and two texts.                       *)
(***************************************************************************)
EXTENDS Integers

NoBound == [kind |-> "none", n |-> 0, as |-> ""]
NumberText(n, as) == [kind |-> "number", n |-> n, as |-> as]
OtherText(n) == [kind |-> "other", n |-> n, as |-> ""]

RangeText(lo, hi, loInc, hiInc) ==
  [empty |-> FALSE, lo |-> lo, hi |-> hi, loInc |-> loInc, hiInc |-> hiInc]
EmptyText == [empty |-> TRUE, lo |-> NoBound, hi |-> NoBound, loInc |-> FALSE, hiInc |-> FALSE]

Bound == {NoBound} \cup [kind : {"number", "other"}, n : Int, as : STRING]
Range == [empty : BOOLEAN, lo : Bound, hi : Bound, loInc : BOOLEAN, hiInc : BOOLEAN]

\* ratPair: both are numbers.
ratPair(a, b) == a.kind = "number" /\ b.kind = "number"

\* numrange(lo, hi, bounds) and the like.
makeRange(lo, hi, loInc, hiInc) ==
  IF \/ lo = hi /\ ~(loInc /\ hiInc)
     \/ ratPair(lo, hi) /\ lo.n > hi.n
  THEN EmptyText
  ELSE RangeText(lo, hi, loInc, hiInc)

\* range @> element
rangeContains(a, x) ==
  /\ ~a.empty
  /\ x.kind = "number"
  /\ a.lo # NoBound => /\ a.lo.kind = "number"
                       /\ a.lo.n < x.n \/ (a.lo.n = x.n /\ a.loInc)
  /\ a.hi # NoBound => /\ a.hi.kind = "number"
                       /\ x.n < a.hi.n \/ (x.n = a.hi.n /\ a.hiInc)

lowerCovers(a, b) ==
  \/ a.lo = NoBound
  \/ /\ ratPair(a.lo, b.lo)
     /\ a.lo.n < b.lo.n \/ (a.lo.n = b.lo.n /\ (a.loInc \/ ~b.loInc))

\* Mutant: a bound that is left out covers one that is in.
upperCoversAll(a, b) ==
  \/ a.hi = NoBound
  \/ ratPair(a.hi, b.hi) /\ a.hi.n >= b.hi.n

upperCovers(a, b) ==
  \/ a.hi = NoBound
  \/ /\ ratPair(a.hi, b.hi)
     /\ a.hi.n > b.hi.n \/ (a.hi.n = b.hi.n /\ (a.hiInc \/ ~b.hiInc))

\* range @> range
rangeContainsRange(a, b) ==
  b.empty \/ (~a.empty /\ lowerCovers(a, b) /\ upperCovers(a, b))

startsBeforeEnd(x, y) ==
  \/ x.lo = NoBound \/ y.hi = NoBound
  \/ /\ ratPair(x.lo, y.hi)
     /\ x.lo.n < y.hi.n \/ (x.lo.n = y.hi.n /\ x.loInc /\ y.hiInc)

\* range && range
rangeOverlaps(a, b) ==
  ~a.empty /\ ~b.empty /\ startsBeforeEnd(a, b) /\ startsBeforeEnd(b, a)

-----------------------------------------------------------------------------
(* What a range means: the points between its bounds.                      *)

IsPoint(lo, hi, loInc, hiInc, p) ==
  /\ lo = NoBound \/ lo.n < p \/ (loInc /\ lo.n = p)
  /\ hi = NoBound \/ p < hi.n \/ (hiInc /\ hi.n = p)

Within(a, p) == ~a.empty /\ IsPoint(a.lo, a.hi, a.loInc, a.hiInc, p)

\* Bounds the functions can compare.
Comparable(a) == a.lo.kind # "other" /\ a.hi.kind # "other"

\* The text of a range with no point says so.  One a client wrote ("[5,1)") and
\* one with a number spelled in two ways ("[1,1.0)") may not.
SaysEmpty(a, Points) == a.empty \/ \E p \in Points : Within(a, p)

\* Points enough to tell ranges apart whose bounds are these numbers: the numbers, and
\* one below, above and between any of them.
Dense(Points, numbers) ==
  /\ numbers \subseteq Points /\ Points \subseteq Int
  /\ \A n \in numbers : (\E p \in Points : p < n) /\ (\E p \in Points : n < p)
  /\ \A n, m \in numbers : n < m => \E p \in Points : n < p /\ p < m

\* A range that is made has the points between its bounds, except when neither
\* bound is given: it is empty then (ranges.go:23-36).
MadeRight(lo, hi, loInc, hiInc, Points) ==
  LET made == makeRange(lo, hi, loInc, hiInc)
  IN (lo # NoBound \/ hi # NoBound \/ (loInc /\ hiInc)) =>
       \A p \in Points : Within(made, p) <=> IsPoint(lo, hi, loInc, hiInc, p)

\* The operators tell of the points (ranges.go:77-203).
RangesRight(a, b, Points) ==
  Comparable(a) /\ Comparable(b) /\ SaysEmpty(a, Points) /\ SaysEmpty(b, Points) =>
    /\ \A p \in Points : rangeContains(a, NumberText(p, "")) <=> Within(a, p)
    /\ rangeContainsRange(a, b) <=> \A p \in Points : Within(b, p) => Within(a, p)
    /\ rangeOverlaps(a, b) <=> \E p \in Points : Within(a, p) /\ Within(b, p)
=============================================================================
