---------------------------- MODULE UkTime_proofs ----------------------------
(***************************************************************************)
(* The rule of net/ntp.py for summer time is the legal one, at every hour  *)
(* from 1 January 2000 on, as long as every fourth year is a leap year.    *)
(***************************************************************************)
EXTENDS UkTime, TLAPS

\* What Max finds is what is the largest.
LEMMA MaxIs ==
  ASSUME NEW S \in SUBSET Int, NEW x \in S, \A y \in S : y <= x
  PROVE  Max(S) = x
<1>1. Max(S) \in S /\ \A y \in S : Max(S) >= y
  BY DEF Max
<1>2. Max(S) >= x /\ Max(S) <= x /\ Max(S) \in Int
  BY <1>1
<1> QED
  BY <1>2

LEMMA MaxOfMonths ==
  ASSUME NEW S \in SUBSET (1..12), 1 \in S
  PROVE  Max(S) \in S /\ \A m \in S : m <= Max(S)
<1>1. \E x \in S : \A y \in S : x >= y
  <2>1. SUFFICES ASSUME \A x \in S : \E y \in S : y > x PROVE FALSE
    OBVIOUS
  <2> QED
    BY <2>1
<1>2. \A y \in S : Max(S) >= y
  BY <1>1 DEF Max
<1>3. Max(S) \in S
  BY <1>1 DEF Max
<1> QED
  BY <1>2, <1>3

-----------------------------------------------------------------------------
(* The calendar.                                                            *)

\* time.localtime() gives a day of the year from 1 to 366, in every year.
LEMMA YearDayRange ==
  ASSUME NEW day \in Nat
  PROVE  YearDay(day) \in 1..366
<1> DEFINE years == (4 * day) \div 1461
<1>1. years \in Nat /\ 1461 * years <= 4 * day /\ 4 * day < 1461 * years + 1461
  OBVIOUS
<1>2. YearDay(day) = day - (365 * years + ((years + 3) \div 4)) + 1
  <2>1. Year(day) = 2000 + years
    BY DEF Year
  <2>2. DaysBeforeYear(2000 + years) = 365 * years + ((years + 3) \div 4)
    BY <1>1 DEF DaysBeforeYear
  <2> QED
    BY <2>1, <2>2 DEF YearDay
<1> HIDE DEF years
<1> DEFINE leaps == (years + 3) \div 4
<1>3. leaps \in Nat /\ 4 * leaps <= years + 3 /\ years + 3 < 4 * leaps + 4
  BY <1>1
<1>4. YearDay(day) = day - (365 * years + leaps) + 1
  BY <1>2
<1> HIDE DEF leaps
<1> QED
  BY <1>1, <1>3, <1>4

LeapDay(year) == IF year % 4 = 0 THEN 1 ELSE 0

\* The months of a year, and of a leap year.
LEMMA Months ==
  ASSUME NEW year \in Nat
  PROVE  /\ DaysBeforeMonth(year, 1) = 0
         /\ DaysBeforeMonth(year, 2) = 31
         /\ DaysBeforeMonth(year, 3) = 59 + LeapDay(year)
         /\ DaysBeforeMonth(year, 4) = 90 + LeapDay(year)
         /\ DaysBeforeMonth(year, 5) = 120 + LeapDay(year)
         /\ DaysBeforeMonth(year, 6) = 151 + LeapDay(year)
         /\ DaysBeforeMonth(year, 7) = 181 + LeapDay(year)
         /\ DaysBeforeMonth(year, 8) = 212 + LeapDay(year)
         /\ DaysBeforeMonth(year, 9) = 243 + LeapDay(year)
         /\ DaysBeforeMonth(year, 10) = 273 + LeapDay(year)
         /\ DaysBeforeMonth(year, 11) = 304 + LeapDay(year)
         /\ DaysBeforeMonth(year, 12) = 334 + LeapDay(year)
BY DEF DaysBeforeMonth, LeapDay

\* Where in the year a day is tells its month, as far as the rule asks.
LEMMA MonthOfDay ==
  ASSUME NEW day \in Nat, NEW year \in Nat, year = Year(day)
  PROVE  LET yday == YearDay(day)
             leap == LeapDay(year)
         IN  /\ Month(day) \in 1..12
             /\ Month(day) < 3 <=> yday <= 59 + leap
             /\ Month(day) < 4 <=> yday <= 90 + leap
             /\ Month(day) < 10 <=> yday <= 273 + leap
             /\ Month(day) < 11 <=> yday <= 304 + leap
<1> DEFINE S == {m \in 1..12 : DaysBeforeMonth(year, m) < YearDay(day)}
<1>1. YearDay(day) \in 1..366
  BY YearDayRange
<1>2. LeapDay(year) \in 0..1
  BY DEF LeapDay
<1>3. S \in SUBSET (1..12) /\ 1 \in S
  BY <1>1, Months
<1>4. Month(day) = Max(S)
  BY DEF Month
<1>5. Month(day) \in S /\ \A m \in S : m <= Month(day)
  BY <1>3, <1>4, MaxOfMonths
<1>6. \A m \in 1..12 : DaysBeforeMonth(year, m) < YearDay(day) <=> m \in S
  OBVIOUS
<1> HIDE DEF S
<1> DEFINE month == Month(day)
           yday == YearDay(day)
           leap == LeapDay(year)
<1>7. month \in 1..12 /\ DaysBeforeMonth(year, month) < yday
  BY <1>3, <1>5, <1>6
<1>8. \A m \in 1..12 : DaysBeforeMonth(year, m) < yday => m <= month
  BY <1>5, <1>6
<1> HIDE DEF month, yday, leap
<1>9. yday \in Int /\ leap \in 0..1
  BY <1>1, <1>2 DEF yday, leap
<1>10. /\ 59 + leap < yday => 3 <= month
       /\ 90 + leap < yday => 4 <= month
       /\ 273 + leap < yday => 10 <= month
       /\ 304 + leap < yday => 11 <= month
  BY <1>8, Months DEF leap
<1>11. /\ 3 <= month => 59 + leap < yday
       /\ 4 <= month => 90 + leap < yday
       /\ 10 <= month => 273 + leap < yday
       /\ 11 <= month => 304 + leap < yday
  BY <1>7, <1>9, Months DEF leap
<1> QED
  BY <1>7, <1>9, <1>10, <1>11 DEF month, yday, leap
-----------------------------------------------------------------------------
(* The last Sundays.                                                        *)

\* The days before a month in a year that is not a leap year.
DaysBefore(month) == IF month = 3 THEN 59 ELSE 273
\* The weekday, but for the day of the month.
Shift(year, month) == year + (year \div 4) + DaysBefore(month)
OfWeek(day) == day % 7

\* The weekday of a date in March or October.
LEMMA WeekdayIs ==
  ASSUME NEW year \in Nat, year >= 2000, NEW month \in {3, 10},
         NEW mday \in 1..31
  PROVE  Weekday(DayNumber(year, month, mday))
           = OfWeek(Shift(year, month) + mday + 4)
<1> DEFINE y == year - 2000
           fours == year \div 4
           days == DaysBefore(month)
<1>1. /\ y \in Nat
      /\ fours \in Nat
      /\ 4 * fours <= year
      /\ year < 4 * fours + 4
      /\ days \in Nat
  BY DEF DaysBefore
<1>2. ((y + 3) \div 4) + LeapDay(year) = fours - 499
  BY DEF LeapDay
<1>3. DaysBeforeMonth(year, month) = days + LeapDay(year)
  BY Months DEF DaysBefore
<1> HIDE DEF days
<1>4. DayNumber(year, month, mday)
        = 365 * y + (fours - 499) + days + mday - 1
  BY <1>1, <1>2, <1>3 DEF DayNumber, DaysBeforeYear, LeapDay
<1> HIDE DEF fours
<1>5. 365 * y + (fours - 499) + days + mday - 1 + 5
        = (year + fours + days + mday + 4) + 7 * (52 * y - 357)
  BY <1>1
<1> QED
  BY <1>1, <1>4, <1>5 DEF Weekday, OfWeek, Shift, fours, days

\* The last Sunday is the day in the last week that is a Sunday.
LEMMA LastSundayIs ==
  ASSUME NEW year \in Nat, year >= 2000, NEW month \in {3, 10}
  PROVE  LastSunday(year, month)
           = 31 - ((Shift(year, month) + 1) % 7)
<1> DEFINE total == Shift(year, month)
           sunday == 31 - ((total + 1) % 7)
           Days == 1..31
           S == {mday \in Days : Weekday(DayNumber(year, month, mday)) = 6}
<1>1. total \in Nat
  BY DEF Shift, DaysBefore
<1>2. \A mday \in Days : Weekday(DayNumber(year, month, mday))
                          = OfWeek(total + mday + 4)
  BY WeekdayIs
<1> HIDE DEF total
<1>3. sunday \in 25..31 /\ OfWeek(total + sunday + 4) = 6
  BY <1>1 DEF OfWeek
<1>4. \A mday \in Days : OfWeek(total + mday + 4) = 6 => mday <= sunday
  BY <1>1 DEF OfWeek
<1>5. sunday \in Days
  BY <1>3
<1> HIDE DEF sunday, Days
<1>6. \A mday \in S : mday \in Days /\ mday <= sunday
  BY <1>2, <1>4
<1>7. sunday \in S
  BY <1>2, <1>3, <1>5
<1>8. LastSunday(year, month) = Max(S)
  BY DEF LastSunday, Days
<1> HIDE DEF S
<1>9. S \in SUBSET Int
  BY <1>6 DEF Days
<1>10. Max(S) = sunday
  BY <1>6, <1>7, <1>9, MaxIs
<1> QED
  BY <1>8, <1>10 DEF sunday, total

-----------------------------------------------------------------------------
(* The rule.                                                                *)

\* At every hour _uk_dst_offset gives what the law says: summer time from the
\* last Sunday in March to the last Sunday in October, 01:00 UTC.
THEOREM OffsetLegal ==
  ASSUME NEW hours \in Nat
  PROVE  UkDstOffset(hours) = LegalOffset(hours)
<1> DEFINE day == hours \div 24
           hour == hours % 24
           year == Year(day)
           yday == YearDay(day)
           leap == LeapDay(year)
           month == Month(day)
           before == DaysBeforeYear(year)
           march == 31 - ((((5 * year) \div 4) + 4) % 7)
           october == 31 - ((((5 * year) \div 4) + 1) % 7)
<1>1. day \in Nat /\ hour \in 0..23 /\ hours = 24 * day + hour
  OBVIOUS
<1>2. year \in Nat /\ year >= 2000
  BY <1>1 DEF Year
<1>3. yday \in 1..366 /\ day = before + yday - 1 /\ before \in Int
  BY <1>1, <1>2, YearDayRange DEF YearDay, DaysBeforeYear
<1>4. leap \in 0..1
  BY DEF LeapDay
<1>5. /\ month \in 1..12
      /\ month < 3 <=> yday <= 59 + leap
      /\ month < 4 <=> yday <= 90 + leap
      /\ month < 10 <=> yday <= 273 + leap
      /\ month < 11 <=> yday <= 304 + leap
  BY <1>1, <1>2, MonthOfDay
<1>6. march \in 25..31 /\ october \in 25..31
  BY <1>2
<1>7. LastSunday(year, 3) = march
  <2>1. LastSunday(year, 3) = 31 - ((year + (year \div 4) + 59 + 1) % 7)
    BY <1>2, LastSundayIs DEF Shift, DaysBefore
  <2>2. ((year + (year \div 4) + 59 + 1) % 7) = (((5 * year) \div 4) + 4) % 7
    BY <1>2
  <2> QED
    BY <2>1, <2>2
<1>8. LastSunday(year, 10) = october
  <2>1. LastSunday(year, 10) = 31 - ((year + (year \div 4) + 273 + 1) % 7)
    BY <1>2, LastSundayIs DEF Shift, DaysBefore
  <2>2. ((year + (year \div 4) + 273 + 1) % 7) = (((5 * year) \div 4) + 1) % 7
    BY <1>2
  <2> QED
    BY <2>1, <2>2
<1>9. month = 3 => MonthDay(day) = yday - (59 + leap)
  BY <1>2, Months DEF MonthDay
<1>10. month = 10 => MonthDay(day) = yday - (273 + leap)
  BY <1>2, Months DEF MonthDay
<1>11. LegalOffset(hours)
         = IF SummerBegins(year) <= hours /\ hours < SummerEnds(year) THEN 1 ELSE 0
  BY DEF LegalOffset
<1>12. /\ month \in 4..9 => UkDstOffset(hours) = 1
       /\ month \notin 3..10 => UkDstOffset(hours) = 0
  BY <1>5 DEF UkDstOffset
<1>13. month = 3 =>
         UkDstOffset(hours) = IF \/ MonthDay(day) > march
                                 \/ MonthDay(day) = march /\ hour >= 1
                              THEN 1 ELSE 0
  BY <1>7 DEF UkDstOffset, ChangeHour
<1>14. month = 10 =>
         UkDstOffset(hours) = IF \/ MonthDay(day) < october
                                 \/ MonthDay(day) = october /\ hour < 1
                              THEN 1 ELSE 0
  BY <1>8 DEF UkDstOffset, ChangeHour
<1> HIDE DEF day, hour, year, yday, leap, month, before, march, october
<1>15. SummerBegins(year) = 24 * (before + 59 + leap + march - 1) + 1
  <2>1. DaysBeforeMonth(year, 3) = 59 + leap
    BY <1>2, Months DEF leap
  <2>2. DayNumber(year, 3, march) = before + 59 + leap + march - 1
    BY <2>1, <1>3, <1>4, <1>6 DEF DayNumber, before
  <2> QED
    BY <2>2, Zenon DEF SummerBegins, march
<1>16. SummerEnds(year) = 24 * (before + 273 + leap + october - 1) + 1
  <2>1. DaysBeforeMonth(year, 10) = 273 + leap
    BY <1>2, Months DEF leap
  <2>2. DayNumber(year, 10, october) = before + 273 + leap + october - 1
    BY <2>1, <1>3, <1>4, <1>6 DEF DayNumber, before
  <2> QED
    BY <2>2, Zenon DEF SummerEnds, october
<1>17. SummerBegins(year) <= hours <=>
         \/ yday - (59 + leap) > march
         \/ yday - (59 + leap) = march /\ hour >= 1
  BY <1>1, <1>3, <1>4, <1>6, <1>15
<1>18. hours < SummerEnds(year) <=>
         \/ yday - (273 + leap) < october
         \/ yday - (273 + leap) = october /\ hour < 1
  BY <1>1, <1>3, <1>4, <1>6, <1>16
<1>19. CASE month \in 4..9
  BY <1>1, <1>3, <1>4, <1>5, <1>6, <1>11, <1>12, <1>17, <1>18, <1>19
<1>20. CASE month = 3
  BY <1>1, <1>3, <1>4, <1>5, <1>6, <1>9, <1>11, <1>13, <1>17, <1>18, <1>20
<1>21. CASE month = 10
  BY <1>1, <1>3, <1>4, <1>5, <1>6, <1>10, <1>11, <1>14, <1>17, <1>18, <1>21
<1>22. CASE month \notin 3..10
  BY <1>1, <1>3, <1>4, <1>5, <1>6, <1>11, <1>12, <1>17, <1>18, <1>22
<1> QED
  BY <1>5, <1>19, <1>20, <1>21, <1>22

-----------------------------------------------------------------------------
(* From one day, and one hour, to the next.                                 *)

LEMMA YearLength ==
  ASSUME NEW year \in Nat, year >= 2000
  PROVE  DaysBeforeYear(year + 1) = DaysBeforeYear(year) + 365 + LeapDay(year)
<1> DEFINE y == year - 2000
<1>1. y \in Nat /\ year = y + 2000
  OBVIOUS
<1>2. ((y + 1 + 3) \div 4) = ((y + 3) \div 4) + LeapDay(year)
  BY <1>1 DEF LeapDay
<1>3. /\ DaysBeforeYear(year) = 365 * y + ((y + 3) \div 4)
      /\ DaysBeforeYear(year + 1) = 365 * (y + 1) + ((y + 1 + 3) \div 4)
  BY <1>1 DEF DaysBeforeYear
<1>4. ((y + 3) \div 4) \in Int /\ LeapDay(year) \in Int
  BY <1>1 DEF LeapDay
<1> HIDE DEF y
<1> QED
  BY <1>1, <1>2, <1>3, <1>4

\* What a day leaves to the next one: its year, or the next year.
LEMMA NextDay ==
  ASSUME NEW day \in Nat
  PROVE  LET year == Year(day) IN
         /\ year \in Nat /\ year >= 2000
         /\ \/ /\ Year(day + 1) = year
               /\ YearDay(day + 1) = YearDay(day) + 1
            \/ /\ Year(day + 1) = year + 1
               /\ YearDay(day + 1) = YearDay(day) + 1 - (365 + LeapDay(year))
<1> DEFINE year == Year(day)
           next == Year(day + 1)
<1>1. year \in Nat /\ year >= 2000 /\ next \in {year, year + 1}
  BY DEF Year
<1>2. YearDay(day) = day - DaysBeforeYear(year) + 1
  BY Zenon DEF YearDay
<1>3. YearDay(day + 1) = day + 1 - DaysBeforeYear(next) + 1
  <2>1. PICK later \in Nat : later = day + 1
    OBVIOUS
  <2>2. YearDay(later) = later - DaysBeforeYear(Year(later)) + 1
    BY DEF YearDay
  <2>3. DaysBeforeYear(Year(later)) \in Int
    BY DEF DaysBeforeYear, Year
  <2>4. next = Year(later)
    BY <2>1
  <2> HIDE DEF next
  <2> QED
    BY <2>1, <2>2, <2>3, <2>4
<1>4. DaysBeforeYear(year) \in Int /\ LeapDay(year) \in Int
  BY <1>1 DEF DaysBeforeYear, LeapDay
<1>5. DaysBeforeYear(year + 1) = DaysBeforeYear(year) + 365 + LeapDay(year)
  BY <1>1, YearLength
<1> HIDE DEF year, next
<1>6. CASE next = year
  <2>1. YearDay(day + 1) = YearDay(day) + 1
    BY <1>2, <1>3, <1>4, <1>6
  <2> QED
    BY <1>1, <1>6, <2>1 DEF year, next
<1>7. CASE next = year + 1
  <2>1. YearDay(day + 1) = YearDay(day) + 1 - (365 + LeapDay(year))
    BY <1>2, <1>3, <1>4, <1>5, <1>7
  <2> QED
    BY <1>1, <1>7, <2>1 DEF year, next
<1> QED
  BY <1>1, <1>6, <1>7

\* Two successive days never have the same number in their years.
LEMMA DaysDiffer ==
  ASSUME NEW day \in Nat
  PROVE  YearDay(day + 1) # YearDay(day)
<1>1. YearDay(day) \in Int /\ LeapDay(Year(day)) \in 0..1
  BY YearDayRange DEF LeapDay
<1> QED
  BY <1>1, NextDay

\* The hours of the clock changes, counted from the beginning of the year.
LEMMA SummerIs ==
  ASSUME NEW year \in Nat, year >= 2000
  PROVE  \E march \in 25..31, october \in 25..31 :
           LET before == DaysBeforeYear(year) + LeapDay(year) IN
           /\ SummerBegins(year) = 24 * (before + 59 + march - 1) + 1
           /\ SummerEnds(year) = 24 * (before + 273 + october - 1) + 1
<1> DEFINE before == DaysBeforeYear(year)
           leap == LeapDay(year)
           march == 31 - ((((5 * year) \div 4) + 4) % 7)
           october == 31 - ((((5 * year) \div 4) + 1) % 7)
<1>1. march \in 25..31 /\ october \in 25..31
  OBVIOUS
<1>2. before \in Int /\ leap \in Int
  BY DEF DaysBeforeYear, LeapDay
<1> HIDE DEF before, leap, march, october
<1>3. SummerBegins(year) = 24 * (before + leap + 59 + march - 1) + 1
  <2>1. DaysBeforeMonth(year, 3) = 59 + leap
    BY Months DEF leap
  <2>2. DayNumber(year, 3, march) = before + leap + 59 + march - 1
    BY <2>1, <1>1, <1>2 DEF DayNumber, before
  <2>3. SummerBegins(year) = 24 * DayNumber(year, 3, march) + 1
    BY DEF SummerBegins, march
  <2> QED
    BY <2>2, <2>3
<1>4. SummerEnds(year) = 24 * (before + leap + 273 + october - 1) + 1
  <2>1. DaysBeforeMonth(year, 10) = 273 + leap
    BY Months DEF leap
  <2>2. DayNumber(year, 10, october) = before + leap + 273 + october - 1
    BY <2>1, <1>1, <1>2 DEF DayNumber, before
  <2>3. SummerEnds(year) = 24 * DayNumber(year, 10, october) + 1
    BY DEF SummerEnds, october
  <2> QED
    BY <2>2, <2>3
<1> USE <1>1
<1>5. WITNESS march \in 25..31, october \in 25..31
<1> QED
  BY <1>3, <1>4 DEF before, leap

\* The law only changes the offset at one o'clock, UTC.
LEMMA ChangesAtOne ==
  ASSUME NEW hours \in Nat, LegalOffset(hours + 1) # LegalOffset(hours)
  PROVE  (hours + 1) % 24 = 1
<1> DEFINE day == hours \div 24
           hour == hours % 24
           later == (hours + 1) \div 24
           year == Year(day)
           next == Year(later)
<1>1. /\ day \in Nat /\ hour \in 0..23 /\ hours = 24 * day + hour
      /\ hour < 23 => later = day /\ (hours + 1) % 24 = hour + 1
      /\ hour = 23 => later = day + 1 /\ (hours + 1) % 24 = 0
  OBVIOUS
<1>2. year \in Nat /\ year >= 2000
  BY <1>1, NextDay
<1>3. /\ LegalOffset(hours)
           = IF SummerBegins(year) <= hours /\ hours < SummerEnds(year)
             THEN 1 ELSE 0
      /\ LegalOffset(hours + 1)
           = IF SummerBegins(next) <= hours + 1 /\ hours + 1 < SummerEnds(next)
             THEN 1 ELSE 0
  BY Zenon DEF LegalOffset
<1> HIDE DEF day, hour, later, year, next
<1>4. PICK march \in 25..31, october \in 25..31 :
        LET before == DaysBeforeYear(year) + LeapDay(year) IN
        /\ SummerBegins(year) = 24 * (before + 59 + march - 1) + 1
        /\ SummerEnds(year) = 24 * (before + 273 + october - 1) + 1
  BY <1>2, SummerIs
<1>5. DaysBeforeYear(year) \in Int /\ LeapDay(year) \in 0..1
  BY <1>2 DEF DaysBeforeYear, LeapDay
<1> DEFINE before == DaysBeforeYear(year) + LeapDay(year)
<1>6. before \in Int
  BY <1>5
<1>7. /\ SummerBegins(year) = 24 * (before + 59 + march - 1) + 1
      /\ SummerEnds(year) = 24 * (before + 273 + october - 1) + 1
  BY <1>4
<1> HIDE DEF before
<1>8. CASE next = year
  <2>1. \/ SummerBegins(year) = hours + 1
        \/ SummerEnds(year) = hours + 1
    BY <1>1, <1>3, <1>6, <1>7, <1>8
  <2> QED
    BY <1>1, <1>6, <1>7, <2>1
<1>9. CASE next # year
  <2>1. later = day + 1 /\ hour = 23
    BY <1>1, <1>9 DEF year, next
  <2>2. /\ next = year + 1
        /\ YearDay(later) = YearDay(day) + 1 - (365 + LeapDay(year))
    BY <1>1, <1>9, <2>1, NextDay DEF year, next
  <2>3. YearDay(day) \in 1..366 /\ YearDay(later) \in 1..366
    BY <1>1, <2>1, YearDayRange
  <2>4. YearDay(day) = day - DaysBeforeYear(year) + 1
    BY Zenon DEF YearDay, year
  <2>5. YearDay(later) = later - DaysBeforeYear(next) + 1
    BY Zenon DEF YearDay, next
  <2>6. YearDay(day) >= 365 /\ YearDay(later) <= 2
    <3> DEFINE last == YearDay(day)
               first == YearDay(later)
               leap == LeapDay(year)
    <3>1. leap \in 0..1 /\ last \in 1..366 /\ first \in 1..366
      BY <1>5, <2>3
    <3>2. first = last + 1 - (365 + leap)
      BY <2>2
    <3> HIDE DEF last, first, leap
    <3>3. last >= 365 /\ first <= 2
      BY <3>1, <3>2
    <3> QED
      BY <3>3 DEF last, first
  <2>7. ~(hours < SummerEnds(year))
    BY <1>1, <1>5, <1>7, <2>1, <2>3, <2>4, <2>6 DEF before
  <2>8. next \in Nat /\ next >= 2000
    BY <1>2, <2>2
  <2>9. DaysBeforeYear(next) \in Int /\ LeapDay(next) \in 0..1
    BY <2>8 DEF DaysBeforeYear, LeapDay
  <2>10. PICK spring \in 25..31, autumn \in 25..31 :
           LET since == DaysBeforeYear(next) + LeapDay(next) IN
           /\ SummerBegins(next) = 24 * (since + 59 + spring - 1) + 1
           /\ SummerEnds(next) = 24 * (since + 273 + autumn - 1) + 1
    BY <2>8, SummerIs
  <2>11. ~(SummerBegins(next) <= hours + 1)
    BY <1>1, <2>1, <2>3, <2>5, <2>6, <2>9, <2>10
  <2>12. LegalOffset(hours) = 0 /\ LegalOffset(hours + 1) = 0
    BY <1>3, <2>7, <2>11
  <2> QED
    BY <2>12
<1> QED
  BY <1>8, <1>9
=============================================================================
