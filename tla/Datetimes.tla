------------------------------ MODULE Datetimes ------------------------------
(***************************************************************************)
(* The packed fields of LocalDatetime and ZonedDatetime, with the          *)
(* conversions from microseconds since the epoch and from and to Date and  *)
(* LocalTime.  A datetime is a pair of a date and a time.                  *)
(***************************************************************************)
EXTENDS Durations

CONSTANTS DaysOfMonth,   \* a calendar of equal months stands for that of the C library
          EpochYear,
          MicroBits,     \* width of the field microsec
          Offset(_),     \* seconds from UTC to local time, at a second of UTC
          Stamps         \* microseconds since the epoch that are converted

\* (That a power of two is a positive number is stated for the provers.)
ASSUME DatetimeAssumption ==
    /\ DaysOfMonth \in Nat \ {0}
    /\ 2 ^ MicroBits \in Nat \ {0} /\ 2 * MicrosOfSecond <= 2 ^ MicroBits
    /\ EpochYear \in Int
    /\ \A micros \in Stamps : micros \in Int /\ Offset(Quotient(micros, MicrosOfSecond)) \in Int

VARIABLE moments         \* two datetimes, each with the clock it shows: second and micro

-----------------------------------------------------------------------------
Date(y, m, d) == [year |-> y, month |-> m, day |-> d]
LocalTime(h, min, s, us) == [hour |-> h, minute |-> min, sec |-> s, microsec |-> us]

\* The fields of a datetime.  microsec is unsigned: a negative number wraps.
Packed(date, time) == <<date, [time EXCEPT !.microsec = @ % 2 ^ MicroBits]>>

LocalDatetimeOf(date, time) == Packed(date, time)
ZonedDatetimeOf(date, time) == Packed(date, time)
DateOf(dt) == dt[1]
TimeOf(dt) == dt[2]
StartOfDay(date) == Packed(date, LocalTime(0, 0, 0, 0))
ClearedDatetime == StartOfDay(Date(0, 1, 1))

\* localtime and gmtime: the date and the time of a second since the epoch.
Calendar(seconds) ==
    LET days == seconds \div SecondsOfDay
        ofDay == seconds % SecondsOfDay
        months == days \div DaysOfMonth
    IN  [date |-> Date(EpochYear + (months \div MonthsOfYear), 1 + (months % MonthsOfYear),
                       1 + (days % DaysOfMonth)),
         time |-> LocalTime(ofDay \div SecondsOfHour, (ofDay % SecondsOfHour) \div SecondsOfMinute,
                            ofDay % SecondsOfMinute, 0)]

\* The second on the local clock, which daylight saving sets forward and back.
LocalSecond(micros) ==
    LET second == Quotient(micros, MicrosOfSecond) IN second + Offset(second)

\* microsToDateTime: whole seconds towards zero, and the remainder as it is.
MicrosToDateTime(micros) ==
    LET tm == Calendar(LocalSecond(micros))
    IN  LocalDatetimeOf(tm.date, [tm.time EXCEPT !.microsec = Remainder(micros, MicrosOfSecond)])

MicrosToZonedDatetime(micros) ==
    LET tm == Calendar(Quotient(micros, MicrosOfSecond))
    IN  ZonedDatetimeOf(tm.date, [tm.time EXCEPT !.microsec = Remainder(micros, MicrosOfSecond)])

LessBy(keys, a, b) ==
    \E i \in DOMAIN keys :
        /\ a[keys[i]] < b[keys[i]]
        /\ \A j \in 1 .. i - 1 : a[keys[j]] = b[keys[j]]

\* Mutant of DateLess: the month decides before the year.
DateLessByMonth(a, b) == LessBy(<<"month", "year", "day">>, a, b)

DateLess(a, b) == LessBy(<<"year", "month", "day">>, a, b)
TimeLess(a, b) == LessBy(<<"hour", "minute", "sec", "microsec">>, a, b)
DatetimeLess(a, b) ==
    DateLess(DateOf(a), DateOf(b)) \/ (DateOf(a) = DateOf(b) /\ TimeLess(TimeOf(a), TimeOf(b)))

-----------------------------------------------------------------------------
SlotsOfMoments == 1 .. 2

\* A datetime, the second its clock shows, since the epoch of that clock, and the microseconds that
\* were packed with it: negative for an instant before the epoch that is no whole second.
Moment(dt, second, micro) == [dt |-> dt, second |-> second, micro |-> micro]

\* 1 January of the year 0.
Cleared ==
    Moment(ClearedDatetime, SecondsOfDay * (DaysOfMonth * (MonthsOfYear * (-EpochYear))), 0)

DatetimeInit == moments = [i \in SlotsOfMoments |-> Cleared]

Set(i, dt, second, micro) == moments' = [moments EXCEPT ![i] = Moment(dt, second, micro)]

Convert(i, micros) ==
    \/ Set(i, MicrosToDateTime(micros), LocalSecond(micros), Remainder(micros, MicrosOfSecond))
    \/ Set(i, MicrosToZonedDatetime(micros), Quotient(micros, MicrosOfSecond),
           Remainder(micros, MicrosOfSecond))

\* The first second of the day of a second.
Midnight(second) == SecondsOfDay * (second \div SecondsOfDay)

\* The datetime with the date of one and the time of another.
Recombine(i, j) ==
    Set(i, LocalDatetimeOf(DateOf(moments[i].dt), TimeOf(moments[j].dt)),
        Midnight(moments[i].second) + (moments[j].second % SecondsOfDay), moments[j].micro)

\* The datetime of a date.
Truncate(i) == Set(i, StartOfDay(DateOf(moments[i].dt)), Midnight(moments[i].second), 0)

Clear(i) == moments' = [moments EXCEPT ![i] = Cleared]

DatetimeNext ==
    \E i \in SlotsOfMoments :
        \/ \E m \in Stamps : Convert(i, m)
        \/ \E j \in SlotsOfMoments : Recombine(i, j)
        \/ Truncate(i)
        \/ Clear(i)

DatetimeSpec == DatetimeInit /\ [][DatetimeNext]_moments

-----------------------------------------------------------------------------
\* Datetimes are ordered and equal as the clocks they show, also after their dates and times were
\* taken apart and put together, or cleared.  The second decides, of whatever sign the fraction is;
\* within a second, fractions of one sign are ordered as they are, and the wrap of the negative
\* ones in the unsigned field (Datetime.h:33, :86) makes no two of them equal.  Nothing is said of the
\* order of a negative and of a positive fraction of one second, which the rounding towards zero
\* brings together: the wrapped one comes last, though it is earlier.  The clock is that of the
\* zone: in an hour that daylight saving repeats, its order is not that of the instants (Datetime.h:50-88,
\* :109-132, Date.h:58-70, Time.h:33-47).
MomentsOrdered ==
    \A i, j \in SlotsOfMoments :
        LET a == moments[i]
            b == moments[j]
        IN  /\ a.second < b.second => DatetimeLess(a.dt, b.dt) /\ ~DatetimeLess(b.dt, a.dt)
            /\ (a.second = b.second /\ (a.micro < 0 <=> b.micro < 0)) =>
                   (DatetimeLess(a.dt, b.dt) <=> a.micro < b.micro)
            /\ a.dt = b.dt <=> a.second = b.second /\ a.micro = b.micro
=============================================================================
