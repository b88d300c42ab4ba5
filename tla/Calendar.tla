------------------------------ MODULE Calendar ------------------------------
(***************************************************************************)
(* base/Date.cpp, timezone.cpp and the conversions of timestamp.h: days as *)
(* Julian day numbers, seconds and microseconds since 1970.  A walk over   *)
(* the days of the Gregorian calendar, each one the day after the last, is *)
(* what they are compared with.                                            *)
(***************************************************************************)
EXTENDS Integers

CONSTANTS Years,            \* the years walked through
          SecondsOfDay      \* the seconds of a day that are converted

ASSUME CalendarAssumption ==
    /\ \A y \in Years : y \in Nat /\ 1 <= y /\ y <= 9999
    /\ \A s \in SecondsOfDay : s \in Nat /\ s < 86400

VARIABLES today,    \* year, month and day
          jdn       \* its Julian day number

calendarVars == <<today, jdn>>

getJulianDayNumber(year, month, day) ==
    LET a == (14 - month) \div 12
        y == year + 4800 - a
        m == month + 12 * a - 3
    IN  day + (153 * m + 2) \div 5 + y * 365 + y \div 4 - y \div 100 + y \div 400 - 32045

getYearMonthDay(julianDayNumber) ==
    LET a == julianDayNumber + 32044
        b == (4 * a + 3) \div 146097
        c == a - (b * 146097) \div 4
        d == (4 * c + 3) \div 1461
        e == c - (1461 * d) \div 4
        m == (5 * e + 2) \div 153
    IN  [day |-> e - (153 * m + 2) \div 5 + 1,
         month |-> m + 3 - 12 * (m \div 10),
         year |-> b * 100 + d - 4800 + m \div 10]

kJulianDayOf1970_01_01 == getJulianDayNumber(1970, 1, 1)
kSecondsPerDay == 24 * 60 * 60

weekDay(julianDayNumber) == (julianDayNumber + 1) % 7

----------------------------------------------------------------------------
(* C++ division rounds towards zero.                                       *)
Quot(a, b) == IF a >= 0 THEN a \div b ELSE -((-a) \div b)
Rem(a, b) == a - b * Quot(a, b)

fillHMS(seconds) ==
    [second |-> seconds % 60, minute |-> (seconds \div 60) % 60,
     hour |-> (seconds \div 60) \div 60]

(* Faulty variant (mutation runs only): takes the quotient as it is.       *)
Towards0(t) == [days |-> Quot(t, kSecondsPerDay),
                seconds |-> Rem(t, kSecondsPerDay)]

(* Whole days and the seconds of the day, of a time before 1970 too.       *)
DaysAndSeconds(t) ==
    LET seconds == Rem(t, kSecondsPerDay)
        days == Quot(t, kSecondsPerDay)
    IN  IF seconds < 0 THEN [days |-> days - 1, seconds |-> seconds + kSecondsPerDay]
        ELSE [days |-> days, seconds |-> seconds]

BreakTime(t) ==
    LET s == DaysAndSeconds(t)
    IN  [date |-> getYearMonthDay(s.days + kJulianDayOf1970_01_01),
         time |-> fillHMS(s.seconds)]

toUtcTime(secondsSinceEpoch) == BreakTime(secondsSinceEpoch)

fromUtcTime(dt) ==
    (getJulianDayNumber(dt.date.year, dt.date.month, dt.date.day) - kJulianDayOf1970_01_01)
        * kSecondsPerDay
    + dt.time.hour * 3600 + dt.time.minute * 60 + dt.time.second

----------------------------------------------------------------------------
(* Not the code: the Gregorian calendar.                                   *)
LeapYear(y) == (y % 4 = 0 /\ y % 100 # 0) \/ y % 400 = 0

DaysIn(y, m) == CASE m = 2 -> IF LeapYear(y) THEN 29 ELSE 28
                  [] m \in {4, 6, 9, 11} -> 30
                  [] OTHER -> 31

DayAfter(d) ==
    IF d.day < DaysIn(d.year, d.month) THEN [d EXCEPT !.day = @ + 1]
    ELSE IF d.month < 12 THEN [d EXCEPT !.day = 1, !.month = @ + 1]
    ELSE [day |-> 1, month |-> 1, year |-> d.year + 1]

CalendarInit == /\ today \in [day : {1}, month : {1}, year : Years]
                /\ jdn = getJulianDayNumber(today.year, 1, 1)

(* To the first day of the next year, whose number must then be the one    *)
(* that follows.                                                           *)
CalendarNext == /\ today.year \in Years
                /\ today' = DayAfter(today)
                /\ jdn' = jdn + 1

(* Seconds since 1970 that fit in 32 bits, as the tool's integers do.      *)
Near1970 == jdn - kJulianDayOf1970_01_01 \in -24000 .. 24000

(* Consecutive days have consecutive numbers, a number gives back its day  *)
(* in leap years, century years and at their ends, the weekdays of the day *)
(* the epoch began on and after it follow each other, and a time before or *)
(* after 1970 is broken into the fields of its day and put together again  *)
(* (Date.cpp:3-22, date.h:51-53, timezone.cpp:6-45).                       *)
DatesRight ==
    /\ getJulianDayNumber(today.year, today.month, today.day) = jdn
    /\ getYearMonthDay(jdn) = today
    /\ weekDay(jdn) = (weekDay(jdn - 1) + 1) % 7 /\ weekDay(kJulianDayOf1970_01_01) = 4
    /\ Near1970 =>
        \A s \in SecondsOfDay :
            LET t == (jdn - kJulianDayOf1970_01_01) * kSecondsPerDay + s
            IN  /\ toUtcTime(t).date = today
                /\ toUtcTime(t).time \in [hour : 0 .. 23, minute : 0 .. 59, second : 0 .. 59]
                /\ fromUtcTime(toUtcTime(t)) = t
=============================================================================
