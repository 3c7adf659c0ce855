------------------------------- MODULE CivilDate -------------------------------
(***************************************************************************)
(* format_unix_seconds and civil_from_days of booth-pi: the timestamps the *)
(* booth gives its status updates, computed from the seconds since 1970    *)
(* without a calendar library.  The reference is the calendar itself, a    *)
(* walk from one midnight to the next.                                     *)
(***************************************************************************)
EXTENDS Integers

CONSTANT LastDay   \* bound: how far the walk goes, in days since 1970-01-01

ASSUME LastDayAssumption == LastDay \in Nat

VARIABLES
    days,   \* whole days since 1970-01-01
    date    \* the calendar's date of that day: [year, month, day]

dateVars == <<days, date>>

Date(y, m, d) == [year |-> y, month |-> m, day |-> d]

-----------------------------------------------------------------------------
(* The code: years of the algorithm begin in March, in eras of 400.        *)

DaysOfEra == 146097

\* The era's days before 1970-01-01, counted from 0000-03-01.
EpochDay == 719468

\* The day's number in its era.
doe(z) == z - (z \div DaysOfEra) * DaysOfEra

\* Mutated yoe: the centuries are leap years.
yoe_julian(e) == (e - e \div 1460) \div 365

\* The year's number in the era.
yoe(e) == (e - e \div 1460 + e \div 36524 - e \div 146096) \div 365

\* The day's number in that year.
doy(e) == e - (365 * yoe(e) + yoe(e) \div 4 - yoe(e) \div 100)

\* The month's number in that year, and the date of a day of the era.
mp(e) == (5 * doy(e) + 2) \div 153
month_of(e) == IF mp(e) < 10 THEN mp(e) + 3 ELSE mp(e) - 9
day_of(e) == doy(e) - (153 * mp(e) + 2) \div 5 + 1
year_of(e) == yoe(e) + IF month_of(e) <= 2 THEN 1 ELSE 0

civil_from_days(n) ==
    LET z == n + EpochDay
        e == doe(z)
    IN  Date(year_of(e) + (z \div DaysOfEra) * 400, month_of(e), day_of(e))

\* The time of day, of a number of seconds since 1970.
seconds_of_day(s) == s % 86400
hour(s) == seconds_of_day(s) \div 3600
minute(s) == (seconds_of_day(s) % 3600) \div 60
second(s) == seconds_of_day(s) % 60

format_unix_seconds(s) ==
    [date |-> civil_from_days(s \div 86400),
     time |-> <<hour(s), minute(s), second(s)>>]

-----------------------------------------------------------------------------
(* The calendar.                                                           *)

IsLeap(y) == y % 4 = 0 /\ (y % 100 = 0 => y % 400 = 0)

DaysIn(m, y) ==
    IF m = 2 THEN IF IsLeap(y) THEN 29 ELSE 28
    ELSE IF m \in {4, 6, 9, 11} THEN 30 ELSE 31

Tomorrow(d) ==
    IF d.day < DaysIn(d.month, d.year) THEN Date(d.year, d.month, d.day + 1)
    ELSE IF d.month < 12 THEN Date(d.year, d.month + 1, 1) ELSE Date(d.year + 1, 1, 1)

DateInit == days = 0 /\ date = Date(1970, 1, 1)

Midnight ==
    /\ days < LastDay
    /\ days' = days + 1
    /\ date' = Tomorrow(date)

DateNext == Midnight

DateSpec == DateInit /\ [][DateNext]_dateVars

-----------------------------------------------------------------------------
\* The date that is computed is the calendar's, at the ends of February, of a
\* century, and of an era as well.
DateIsCalendars == civil_from_days(days) = date
=============================================================================
