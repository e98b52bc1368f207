------------------------------- MODULE UkTime -------------------------------
(***************************************************************************)
(* net/ntp.py: when the United Kingdom is on summer time.  A day is its    *)
(* number since 1 January 2000, a Saturday, and an hour its number since   *)
(* the beginning of that day, UTC.  Right until 2099.                      *)
(***************************************************************************)
EXTENDS Integers, FiniteSetsExt

DaysBeforeYear(year) == 365 * (year - 2000) + ((year - 2000 + 3) \div 4)
DaysBeforeMonth(year, month) ==
  <<0, 31, 59, 90, 120, 151, 181, 212, 243, 273, 304, 334>>[month]
    + (IF year % 4 = 0 /\ month > 2 THEN 1 ELSE 0)

\* time.mktime, and what time.gmtime gives back
DayNumber(year, month, mday) ==
  DaysBeforeYear(year) + DaysBeforeMonth(year, month) + mday - 1
Year(day) == 2000 + ((4 * day) \div 1461)
YearDay(day) == day - DaysBeforeYear(Year(day)) + 1
Month(day) ==
  Max({m \in 1..12 : DaysBeforeMonth(Year(day), m) < YearDay(day)})
MonthDay(day) == YearDay(day) - DaysBeforeMonth(Year(day), Month(day))
Weekday(day) == (day + 5) % 7   \* 0 is Monday

\* _last_sunday
LastSunday(year, month) ==
  Max({mday \in 1..31 : Weekday(DayNumber(year, month, mday)) = 6})

\* Slip: summer time begins and ends two hours into the day.
AtTwo == 2
\* The hour of the change, UTC.
ChangeHour == 1

\* _uk_dst_offset, in hours
UkDstOffset(hours) ==
  LET day == hours \div 24
      mday == MonthDay(day)
      last == LastSunday(Year(day), Month(day))
      in_bst ==
        \/ Month(day) \in 4..9
        \/ /\ Month(day) = 3
           /\ \/ mday > last
              \/ mday = last /\ hours % 24 >= ChangeHour
        \/ /\ Month(day) = 10
           /\ \/ mday < last
              \/ mday = last /\ hours % 24 < ChangeHour
  IN  IF in_bst THEN 1 ELSE 0

-----------------------------------------------------------------------------
\* The legal rule, by the usual formula for the last Sundays of March and
\* October: summer time lasts from the one at 01:00 UTC to the other.
SummerBegins(year) ==
  24 * DayNumber(year, 3, 31 - ((((5 * year) \div 4) + 4) % 7)) + 1
SummerEnds(year) ==
  24 * DayNumber(year, 10, 31 - ((((5 * year) \div 4) + 1) % 7)) + 1
LegalOffset(hours) ==
  LET year == Year(hours \div 24)
  IN  IF SummerBegins(year) <= hours /\ hours < SummerEnds(year) THEN 1 ELSE 0
=============================================================================
