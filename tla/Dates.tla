-------------------------------- MODULE Dates --------------------------------
(***************************************************************************)
(* Dates and times (engine/datefuncs.go): date_trunc, date_part, age and   *)
(* the computed fields of to_char.  A time is a record of its fields,      *)
(* without fractions of a second, in UTC.                                  *)
(***************************************************************************)
EXTENDS Integers, FiniteSets

Time(y, m, d, h, mi, s) == [y |-> y, m |-> m, d |-> d, h |-> h, mi |-> mi, s |-> s]
Date(y, m, d) == Time(y, m, d, 0, 0, 0)

-----------------------------------------------------------------------------
(* Go's calendar: months and days past the end are carried over.           *)

Leap(y) == y % 4 = 0 /\ (y % 100 # 0 \/ y % 400 = 0)

MonthDays(y, m) ==
  CASE m = 2 -> IF Leap(y) THEN 29 ELSE 28
    [] m \in {4, 6, 9, 11} -> 30
    [] OTHER -> 31

\* The times there are, from the year 0 on.
Times ==
  {t \in [y : Nat, m : 1..12, d : 1..31, h : 0..23, mi : 0..59, s : 0..59] : t.d <= MonthDays(t.y, t.m)}

\* The days of the year before a month, in a year that is no leap year.
Before == <<0, 31, 59, 90, 120, 151, 181, 212, 243, 273, 304, 334>>

\* The day's number, 0 for 1 January 2000, of any year, month and day.
DayNumber(y, m, d) ==
  LET yy == y + (m - 1) \div 12
      mm == ((m - 1) % 12) + 1
      p == yy - 1
  IN 365 * p + p \div 4 - p \div 100 + p \div 400 + Before[mm]
     + (IF mm > 2 /\ Leap(yy) THEN 1 ELSE 0) + d - 730120

DayOf(t) == DayNumber(t.y, t.m, t.d)

\* Seconds since 2000 began.
Instant(t) == DayOf(t) * 86400 + t.h * 3600 + t.mi * 60 + t.s

\* Sunday is 0.
Weekday(day) == (day + 6) % 7

daysInMonth(y, m) == MonthDays(y + (m - 1) \div 12, ((m - 1) % 12) + 1)

-----------------------------------------------------------------------------
Units == {"year", "quarter", "month", "week", "day", "hour", "minute", "second"}

\* An instant.  A unit it does not know is a second.
dateTrunc(unit, t) ==
  CASE unit = "year" -> Instant(Date(t.y, 1, 1))
    [] unit = "quarter" -> Instant(Date(t.y, ((t.m - 1) \div 3) * 3 + 1, 1))
    [] unit = "month" -> Instant(Date(t.y, t.m, 1))
    [] unit = "week" -> (DayOf(t) - ((Weekday(DayOf(t)) + 6) % 7)) * 86400
    [] unit = "day" -> Instant(Date(t.y, t.m, t.d))
    [] unit = "hour" -> Instant(Time(t.y, t.m, t.d, t.h, 0, 0))
    [] unit = "minute" -> Instant(Time(t.y, t.m, t.d, t.h, t.mi, 0))
    [] OTHER -> Instant(t)

julianDay(t) ==
  LET a == (14 - t.m) \div 12
      yy == t.y + 4800 - a
      mm == t.m + 12 * a - 3
  IN t.d + (153 * mm + 2) \div 5 + 365 * yy + yy \div 4 - yy \div 100 + yy \div 400 - 32045

tc12(t) == IF t.h % 12 = 0 THEN 12 ELSE t.h % 12
tcMeridiem(t) == IF t.h >= 12 THEN "pm" ELSE "am"
tcISODow(t) == IF Weekday(DayOf(t)) = 0 THEN 7 ELSE Weekday(DayOf(t))

\* A field it does not know is 0, among them decade and millennium; isoyear is
\* the calendar year.
datePart(field, t) ==
  CASE field = "century" -> (t.y + 99) \div 100
    [] field \in {"year", "isoyear"} -> t.y
    [] field = "quarter" -> (t.m - 1) \div 3 + 1
    [] field = "month" -> t.m
    [] field = "day" -> t.d
    [] field = "hour" -> t.h
    [] field = "minute" -> t.mi
    [] field = "second" -> t.s
    [] field = "dow" -> Weekday(DayOf(t))
    [] field = "isodow" -> tcISODow(t)
    [] field = "doy" -> DayOf(t) - DayNumber(t.y, 1, 1) + 1
    [] OTHER -> 0

\* The years, months, days and time of day from one time to a later one, as printed: the
\* sign is that of the first four fields, and a zero hour is printed without one.
elapsed(later, earlier, sign) ==
  LET sec == later.s - earlier.s
      min == later.mi - earlier.mi - (IF sec < 0 THEN 1 ELSE 0)
      hour == later.h - earlier.h - (IF min < 0 THEN 1 ELSE 0)
      day == later.d - earlier.d - (IF hour < 0 THEN 1 ELSE 0)
      month == later.m - earlier.m - (IF day < 0 THEN 1 ELSE 0)
      year == later.y - earlier.y - (IF month < 0 THEN 1 ELSE 0)
  IN [year |-> sign * year,
      month |-> sign * (IF month < 0 THEN month + 12 ELSE month),
      day |-> sign * (IF day < 0 THEN day + daysInMonth(later.y, later.m - 1) ELSE day),
      hour |-> sign * (IF hour < 0 THEN hour + 24 ELSE hour),
      min |-> IF min < 0 THEN min + 60 ELSE min,
      sec |-> IF sec < 0 THEN sec + 60 ELSE sec]

ageInterval(a, b) == IF Instant(a) < Instant(b) THEN elapsed(b, a, -1) ELSE elapsed(a, b, 1)

-----------------------------------------------------------------------------
(* What they mean.                                                         *)

NextDay(t) ==
  IF t.d < MonthDays(t.y, t.m) THEN Date(t.y, t.m, t.d + 1)
  ELSE IF t.m < 12 THEN Date(t.y, t.m + 1, 1) ELSE Date(t.y + 1, 1, 1)

NextSecond(t) ==
  IF t.s < 59 THEN [t EXCEPT !.s = @ + 1]
  ELSE IF t.mi < 59 THEN [t EXCEPT !.mi = @ + 1, !.s = 0]
  ELSE IF t.h < 23 THEN [t EXCEPT !.h = @ + 1, !.mi = 0, !.s = 0]
  ELSE NextDay(t)

\* The units that begin at t.
Begins(t) ==
  LET midnight == t.h = 0 /\ t.mi = 0 /\ t.s = 0
  IN {u \in Units :
        CASE u = "year" -> midnight /\ t.d = 1 /\ t.m = 1
          [] u = "quarter" -> midnight /\ t.d = 1 /\ t.m % 3 = 1
          [] u = "month" -> midnight /\ t.d = 1
          [] u = "week" -> midnight /\ Weekday(DayOf(t)) = 1
          [] u = "day" -> midnight
          [] u = "hour" -> t.mi = 0 /\ t.s = 0
          [] u = "minute" -> t.s = 0
          [] OTHER -> TRUE}

\* A second later, the truncation stays what it was or is that second, if the
\* unit begins there (datefuncs.go:68-94).
TruncRight(t) ==
  LET next == NextSecond(t)
  IN \A u \in Units :
       dateTrunc(u, next) = IF u \in Begins(next) THEN Instant(next) ELSE dateTrunc(u, t)

\* The fields count the units since a larger one began, weeks since Monday or
\* Sunday; and the hour can be told from the clock's twelve (datefuncs.go:96-132,
\* 277-303).
PartRight(t) ==
  /\ datePart("doy", t) = (dateTrunc("day", t) - dateTrunc("year", t)) \div 86400 + 1
  /\ datePart("isodow", t) = (dateTrunc("day", t) - dateTrunc("week", t)) \div 86400 + 1
  /\ datePart("dow", t) = datePart("isodow", t) % 7
  /\ dateTrunc("quarter", t) = Instant(Date(t.y, 3 * datePart("quarter", t) - 2, 1))
  /\ LET c == datePart("century", t) IN 100 * (c - 1) < t.y /\ t.y <= 100 * c
  /\ t.h = (tc12(t) % 12) + IF tcMeridiem(t) = "pm" THEN 12 ELSE 0

\* Julian days follow one another through the centuries (datefuncs.go:306-313).
JulianRight(t) == julianDay(NextDay(t)) = julianDay(t) + 1 /\ julianDay(t) = DayOf(t) + 2451545

\* What a printed age says: hh:mm:ss has the sign printed before its hour.
Said(e) ==
  [year |-> e.year, month |-> e.month, day |-> e.day,
   clock |-> e.hour * 3600 + (IF e.hour < 0 THEN -(e.min * 60 + e.sec) ELSE e.min * 60 + e.sec)]

Opposite(v) == [year |-> -v.year, month |-> -v.month, day |-> -v.day, clock |-> -v.clock]

\* Adding the age of a since b to b gives a, carrying days over as SQLite does, and no
\* field is negative but the days, where the month before a's is too short for b's day.
\* Swapped, the age says the opposite, but for a time of less than an hour, whose sign is
\* not printed (datefuncs.go:377-444).
AgeRight(a, b) ==
  LET v == ageInterval(a, b)
      said == Said(v)
      w == Said(ageInterval(b, a))
      Short == said.clock > -3600 /\ said.clock < 3600
  IN /\ Instant(a) >= Instant(b) =>
          /\ DayNumber(b.y + v.year, b.m + v.month, b.d + v.day) * 86400
             + (b.h + v.hour) * 3600 + (b.mi + v.min) * 60 + b.s + v.sec = Instant(a)
          /\ v.year >= 0 /\ v.month \in 0..11 /\ v.hour \in 0..23 /\ v.min \in 0..59 /\ v.sec \in 0..59
          /\ v.day < 0 => b.d > daysInMonth(a.y, a.m - 1)
     /\ w = IF Short THEN [Opposite(said) EXCEPT !.clock = said.clock] ELSE Opposite(said)
=============================================================================
