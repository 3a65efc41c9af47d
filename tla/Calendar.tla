------------------------------ MODULE Calendar ------------------------------
(***************************************************************************)
(* The conversions between dates and seconds of kernel/time.c and          *)
(* lib/stdlib.c.  Years of struct tm count from 1900, or are the last two  *)
(* digits of a year; months count from 1.                                  *)
(***************************************************************************)
EXTENDS Integers, FiniteSets

CONSTANTS
    SecPerMin, MinPerHour, HourPerDay,     \* 60, 60 and 24 in the code
    TimeHalf       \* 2^31: half the values of an int, and of a time_t

MINUTE == SecPerMin
HOUR == MinPerHour * MINUTE
DAY == HourPerDay * HOUR
YEAR == 365 * DAY

\* A time_t has room for the hundred years from 1970 on.
ASSUME CalendarAssumption ==
    /\ {SecPerMin, MinPerHour, HourPerDay} \subseteq Nat \ {0}
    /\ TimeHalf \in Nat \ {0} /\ 36525 * DAY <= 2 * TimeHalf

\* An int that takes an integer, and a time_t that does: an int that overflows
\* starts over at the lowest, as the instructions for it do.
int(n) == ((n + TimeHalf) % (2 * TimeHalf)) - TimeHalf
time_t(n) == n % (2 * TimeHalf)

\* Days before each month of a leap year.
month == <<0, 31, 31 + 29, 31 + 29 + 31, 31 + 29 + 31 + 30, 31 + 29 + 31 + 30 + 31,
           31 + 29 + 31 + 30 + 31 + 30, 31 + 29 + 31 + 30 + 31 + 30 + 31,
           31 + 29 + 31 + 30 + 31 + 30 + 31 + 31,
           31 + 29 + 31 + 30 + 31 + 30 + 31 + 31 + 30,
           31 + 29 + 31 + 30 + 31 + 30 + 31 + 31 + 30 + 31,
           31 + 29 + 31 + 30 + 31 + 30 + 31 + 31 + 30 + 31 + 30>>

bcd_to_bin(value) == ((value % 16) + (value \div 16) * 10) % 256
bin_to_bcd(value) == ((value \div 10) * 16 + (value % 10)) % 256

\* Years since 1970.
SinceEpoch(tm) == IF tm.year >= 70 THEN tm.year - 70 ELSE tm.year - 70 + 100

(***************************************************************************)
(* mktime takes every fourth year for a leap year, and the table counts    *)
(* 29 days for every February.  The product with the years is one of ints. *)
(***************************************************************************)

\* Mutant: the day of this year's February is taken back in February too.
mktime_February(tm) ==
    LET year == SinceEpoch(tm)
    IN  time_t(int(YEAR * year)
            + DAY * ((year + 1) \div 4)
            + month[tm.mon] * DAY
            - (IF tm.mon >= 2 /\ (year + 2) % 4 # 0 THEN DAY ELSE 0)
            + DAY * (tm.mday - 1)
            + HOUR * tm.hour + MINUTE * tm.min + tm.sec)

mktime(tm) ==
    LET year == SinceEpoch(tm)
    IN  time_t(int(YEAR * year)
            + DAY * ((year + 1) \div 4)
            + month[tm.mon] * DAY
            - (IF tm.mon > 2 /\ (year + 2) % 4 # 0 THEN DAY ELSE 0)
            + DAY * (tm.mday - 1)
            + HOUR * tm.hour + MINUTE * tm.min + tm.sec)

(***************************************************************************)
(* localtime: years have 365 days, and the day of the year is what is left *)
(* of all days since 1970 without the days of past leap years.             *)
(***************************************************************************)

is_leap_year(year) ==
    (year % 4 = 0 /\ year % 100 # 0) \/ (year + 1900) % 400 = 0

elapsed_leap_years(year) ==
    (year - 1) \div 4 - (year - 1) \div 100 + (year + 299) \div 400 - (1970 - 1900) \div 4

\* Mutant: all years have the months of a leap year.
localtime_Leap(stamp) ==
    LET days == stamp \div DAY
        years == days \div 365 + 70
        yday == (days - elapsed_leap_years(years)) % 366
        mon == Cardinality({m \in 1 .. 12 : month[m] <= yday})
    IN  [sec |-> stamp % SecPerMin, min |-> (stamp \div MINUTE) % MinPerHour,
         hour |-> (stamp \div HOUR) % HourPerDay,
         mday |-> yday - month[mon] + 1, mon |-> mon, year |-> years]

localtime(stamp) ==
    LET days == stamp \div DAY
        years == days \div 365 + 70
        offset == IF is_leap_year(years) THEN 0 ELSE 1
        yday == (days - elapsed_leap_years(years)) % (366 - offset)
        mon == Cardinality({m \in 1 .. 12 : month[m] - offset <= yday})
    IN  [sec |-> stamp % SecPerMin, min |-> (stamp \div MINUTE) % MinPerHour,
         hour |-> (stamp \div HOUR) % HourPerDay,
         mday |-> yday - month[mon] + offset + 1, mon |-> mon, year |-> years]

(***************************************************************************)
(* The calendar itself.  A year of two digits is one of 1970 to 2069.      *)
(***************************************************************************)

FullYear(year) == IF year >= 70 THEN 1900 + year ELSE 2000 + year

Leap(year) == (year % 4 = 0 /\ year % 100 # 0) \/ year % 400 = 0

MonthDays(mon, year) ==
    CASE mon = 2 -> IF Leap(year) THEN 29 ELSE 28
      [] mon \in {4, 6, 9, 11} -> 30
      [] OTHER -> 31

\* Days of this year before a date, by adding up its months.
DaysInYear(date) ==
    LET Before[m \in 1 .. 12] ==
            IF m = 1 THEN 0 ELSE Before[m - 1] + MonthDays(m - 1, FullYear(date.year))
    IN  Before[date.mon] + date.mday - 1

\* Days since the first of January of 1970.
DayNumber(date) ==
    LET past == 1970 .. FullYear(date.year) - 1
    IN  365 * Cardinality(past) + Cardinality({y \in past : Leap(y)}) + DaysInYear(date)

SecondNumber(tm) == DayNumber(tm) * DAY + tm.hour * HOUR + tm.min * MINUTE + tm.sec

NextDay(date) ==
    CASE date.mday < MonthDays(date.mon, FullYear(date.year)) ->
             [date EXCEPT !.mday = @ + 1]
      [] date.mday = MonthDays(date.mon, FullYear(date.year)) /\ date.mon < 12 ->
             [date EXCEPT !.mday = 1, !.mon = @ + 1]
      [] OTHER -> [date EXCEPT !.mday = 1, !.mon = 1, !.year = (@ + 1) % 100]

\* The dates that localtime gets right: of years without a leap day, those
\* from March on, except as many days at the end as there have been leap days
\* since 1970.
Converted(date) ==
    /\ ~Leap(FullYear(date.year))
    /\ date.mon > 2
    /\ DaysInYear(date)
           < 365 - Cardinality({y \in 1970 .. FullYear(date.year) - 1 : Leap(y)})
=============================================================================
