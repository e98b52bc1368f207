----------------------------- MODULE MCMainLoop -----------------------------
(* Instance of MainLoop for TLC, in half hours.  The power comes on in the   *)
(* evening of several days around the clock changes of seven years, which    *)
(* fall on nearly every day they can fall on.  Some behaviours only follow   *)
(* the clock, for days; in the others everything happens, in the night of a  *)
(* clock change.                                                             *)
EXTENDS MainLoop, TLC

CONSTANTS Years, Days, NightYears, Followed, Night

Evenings ==
  {HourLen * (24 * DayNumber(year, month, mday) + 18) :
     year \in Years, month \in {3, 10}, mday \in Days}

VARIABLES
  only_clock,   \* nothing but the clock is followed
  ends          \* how long

Eve(time) ==
  LET day == time \div (24 * HourLen)
  IN  /\ Year(day) \in NightYears
      /\ MonthDay(day) + 1 = LastSunday(Year(day), Month(day))

MCInit ==
  /\ Init
  /\ only_clock \in BOOLEAN
  /\ IF only_clock THEN wet ELSE Eve(utc)
  /\ ends = utc + IF only_clock THEN Followed ELSE Night

MCNext ==
  /\ UNCHANGED <<only_clock, ends>>
  /\ \/ utc < ends /\ Boot
     \/ utc < ends /\ Pass /\ (only_clock => UNCHANGED raised_at)
     \/ utc < ends /\ ~only_clock /\ RequestRun
     \/ utc = ends /\ only_clock /\ UNCHANGED vars
     \/ ~only_clock /\ WaterMoves

MCSpec == MCInit /\ [][MCNext]_<<vars, only_clock, ends>>

\* main.py:91: SENSOR_READ_INTERVAL, "seconds between sensor reads".
ReadAtInterval == utc - read_at < SensorReadInterval

Age(t, cap) ==
  IF t = Never THEN t ELSE IF utc - t < cap THEN utc - t ELSE cap

RaisedSince(t) == t # Never /\ raised_at # Never /\ raised_at >= t
SinceRead == utc + ahead - last_sensor_read

AgesView ==
  <<only_clock, utc, ends, ahead, time_synced, last_ntp_day, boots,
    wet, water_level_ok, pump_on, run,
    IF SinceRead < SensorReadInterval THEN SinceRead ELSE SensorReadInterval,
    utc - read_at,
    Age(wrong_since, 2 * HourLen + LongestPass + 1),
    IF wrong_since = Never THEN <<>>
    ELSE <<Age(failed_at, 24 * HourLen + LongestPass + 1),
           failed_at = Never \/ failed_at < wrong_since>>,
    Age(resynced_at, 22 * HourLen), Age(dry_since, HourLen + SensorReadInterval),
    run_since, raised_at = utc, RaisedSince(run_since)>>
=============================================================================
