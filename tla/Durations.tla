------------------------------ MODULE Durations ------------------------------
(***************************************************************************)
(* The arithmetic of Duration.  The units are constants, so that a small   *)
(* instance has all the carries; in the code a second has 1000 ms, a year  *)
(* 12 months.  Signed overflow is left out: there are bounds on durations. *)
(***************************************************************************)
EXTENDS Integers, Sequences

CONSTANTS MicrosOfMilli, MillisOfSecond, SecondsOfMinute, MinutesOfHour, HoursOfDay, MonthsOfYear,
          Amounts,    \* what is added to a duration in one call
          Longest,    \* bound on the microseconds of a duration
          MostMonths  \* bound on its months

ASSUME DurationAssumption ==
    /\ {MicrosOfMilli, MillisOfSecond, SecondsOfMinute, MinutesOfHour, HoursOfDay, MonthsOfYear}
           \subseteq Nat \ {0}
    /\ Amounts \subseteq Int

VARIABLES duration,   \* a Duration
          added       \* what was added to it: [months, micros], exact

durationVars == <<duration, added>>

MicrosOfSecond == MicrosOfMilli * MillisOfSecond
SecondsOfHour == SecondsOfMinute * MinutesOfHour
SecondsOfDay == SecondsOfHour * HoursOfDay

\* / and % of C++ round towards zero.
Quotient(a, b) == IF a >= 0 THEN a \div b ELSE -((-a) \div b)
Remainder(a, b) == a - b * Quotient(a, b)

-----------------------------------------------------------------------------
NoDuration == [months |-> 0, seconds |-> 0, microseconds |-> 0]

Years(d) == Quotient(d.months, MonthsOfYear)
MonthsInYear(d) == Remainder(d.months, MonthsOfYear)
Days(d) == Quotient(d.seconds, SecondsOfDay)
Hours(d) == Quotient(Remainder(d.seconds, SecondsOfDay), SecondsOfHour)
Minutes(d) == Quotient(Remainder(d.seconds, SecondsOfHour), SecondsOfMinute)
SecondsInMinute(d) == Remainder(d.seconds, SecondsOfMinute)
MicrosecondsInSecond(d) == d.microseconds

Negated(d) == [months |-> -d.months, seconds |-> -d.seconds, microseconds |-> -d.microseconds]
Plus(d, e) ==
    [months |-> d.months + e.months, seconds |-> d.seconds + e.seconds,
     microseconds |-> d.microseconds + e.microseconds]
Minus(d, e) == Plus(d, Negated(e))

AddYears(d, n) == [d EXCEPT !.months = @ + n * MonthsOfYear]
AddQuarters(d, n) == [d EXCEPT !.months = @ + n * 3]
AddMonths(d, n) == [d EXCEPT !.months = @ + n]
AddWeeks(d, n) == [d EXCEPT !.seconds = @ + n * 7 * SecondsOfDay]
AddDays(d, n) == [d EXCEPT !.seconds = @ + n * SecondsOfDay]
AddHours(d, n) == [d EXCEPT !.seconds = @ + n * SecondsOfHour]
AddMinutes(d, n) == [d EXCEPT !.seconds = @ + n * SecondsOfMinute]
AddSeconds(d, n) == [d EXCEPT !.seconds = @ + n]

\* Mutant of AddMilliseconds: the seconds are rounded down, the rest towards zero.
AddMillisecondsDown(d, n) ==
    [d EXCEPT !.seconds = @ + n \div MillisOfSecond,
              !.microseconds = @ + Remainder(n, MillisOfSecond) * MicrosOfMilli]

AddMilliseconds(d, n) ==
    [d EXCEPT !.seconds = @ + Quotient(n, MillisOfSecond),
              !.microseconds = @ + Remainder(n, MillisOfSecond) * MicrosOfMilli]

AddMicroseconds(d, n) == [d EXCEPT !.microseconds = @ + n]

-----------------------------------------------------------------------------
DurationInit ==
    /\ duration = NoDuration
    /\ added = [months |-> 0, micros |-> 0]

Apply(d, months, micros) ==
    /\ {micros, d.microseconds} \subseteq -Longest .. Longest
    /\ months \in -MostMonths .. MostMonths
    /\ duration' = d
    /\ added' = [months |-> months, micros |-> micros]

Add(n) ==
    LET d == duration
        m == added.months
        u == added.micros
    IN  \/ Apply(AddYears(d, n), m + n * MonthsOfYear, u)
        \/ Apply(AddQuarters(d, n), m + 3 * n, u)
        \/ Apply(AddMonths(d, n), m + n, u)
        \/ Apply(AddWeeks(d, n), m, u + 7 * n * SecondsOfDay * MicrosOfSecond)
        \/ Apply(AddDays(d, n), m, u + n * SecondsOfDay * MicrosOfSecond)
        \/ Apply(AddHours(d, n), m, u + n * SecondsOfHour * MicrosOfSecond)
        \/ Apply(AddMinutes(d, n), m, u + n * SecondsOfMinute * MicrosOfSecond)
        \/ Apply(AddSeconds(d, n), m, u + n * MicrosOfSecond)
        \/ Apply(AddMilliseconds(d, n), m, u + n * MicrosOfMilli)
        \/ Apply(AddMicroseconds(d, n), m, u + n)
        \/ Apply(Minus(d, AddMilliseconds(NoDuration, n)), m, u - n * MicrosOfMilli)

Negate == Apply(Negated(duration), -added.months, -added.micros)

DurationNext == (\E n \in Amounts : Add(n)) \/ Negate

DurationSpec == DurationInit /\ [][DurationNext]_durationVars

-----------------------------------------------------------------------------
\* A part of a whole amount: less than one unit of the next larger part, and of the sign of the whole.
PartOf(n, whole, unit) ==
    /\ whole >= 0 => n \in 0 .. unit - 1
    /\ whole <= 0 => n \in -(unit - 1) .. 0

\* A duration is what was added to it, of whatever sign and in whatever units, and the parts that the
\* getters split it into add up to that: nothing is lost or counted twice by the rounding of
\* negative numbers.  No part reaches a unit of the next one and none has another sign than the
\* whole (Duration.h:32-58, :107-118).  microsecondsInSecond is all of the microseconds, which no
\* operation carries into the seconds, so it has neither bound.
DurationExact ==
    LET d == duration
    IN  /\ Years(d) * MonthsOfYear + MonthsInYear(d) = added.months
        /\ (Days(d) * SecondsOfDay + Hours(d) * SecondsOfHour + Minutes(d) * SecondsOfMinute
               + SecondsInMinute(d)) * MicrosOfSecond + MicrosecondsInSecond(d) = added.micros
        /\ PartOf(MonthsInYear(d), d.months, MonthsOfYear)
        /\ PartOf(Hours(d), d.seconds, HoursOfDay)
        /\ PartOf(Minutes(d), d.seconds, MinutesOfHour)
        /\ PartOf(SecondsInMinute(d), d.seconds, SecondsOfMinute)
=============================================================================
