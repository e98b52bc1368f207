------------------------------ MODULE MainLoop ------------------------------
(***************************************************************************)
(* main.py's loop and the clock it goes by.  The Pico's RTC starts at 1    *)
(* January 2021; sync_time sets it to UK time at boot and daily at 03:00   *)
(* by its own reading, so that it jumps by years and, twice a year, by an  *)
(* hour.  time.time() paces the sensor reads and ends an extended run.     *)
(*                                                                         *)
(* Of the controller only the extended run is here, the one thing that     *)
(* runs the pump at night, with its stop for dry pipes.  The water level   *)
(* is what the filter of WaterLevel lets through.                          *)
(***************************************************************************)
EXTENDS UkTime

CONSTANTS
  HourLen,              \* units of time in an hour
  SensorReadInterval,   \* SENSOR_READ_INTERVAL
  PassGaps,             \* possible times between two passes of the loop
  LongestPass,          \* none of which is longer
  RunRequests,          \* requested durations of extended runs
  PowerUps,             \* moments, UTC, at which the power may come on
  MaxBoots,
  Never                 \* no time, or no day

ASSUME UnitsAssumption ==
  /\ HourLen \in Nat \ {0}
  /\ SensorReadInterval \in Nat \ {0}
  /\ LongestPass \in Nat
  /\ PassGaps \subseteq 0..LongestPass
  /\ RunRequests \subseteq Nat \ {0}
  /\ PowerUps \subseteq Nat
  /\ MaxBoots \in Nat \ {0}
  /\ Never \notin Int

VARIABLES
  utc,                \* the time, in units since 1 January 2000
  ahead,              \* how far the RTC is ahead of it
  time_synced,        \* state["time_synced"]
  last_sensor_read,   \* _last_sensor_read
  last_ntp_day,       \* _last_ntp_day
  wet, water_level_ok,
  pump_on, extended_run, extended_run_start, extended_run_duration,
  boots,
  \* history, in UTC: when sensors were last read, when the RTC became wrong,
  \* when setting it last failed and when the daily resync last succeeded,
  \* since when the pipes are dry, since when the run lasts, and when the
  \* controller last raised
  read_at, wrong_since, failed_at, resynced_at, dry_since, run_since, raised_at

clock == <<ahead, time_synced, last_ntp_day, boots>>
run == <<extended_run, extended_run_start, extended_run_duration>>
clockHistory == <<wrong_since, failed_at, resynced_at>>
runHistory == <<dry_since, run_since, raised_at>>
vars == <<utc, clock, last_sensor_read, wet, water_level_ok, pump_on, run,
          read_at, clockHistory, runHistory>>

Times == Nat \cup {Never}

ClockType ==
  /\ {utc, last_sensor_read, read_at} \subseteq Nat
  /\ ahead \in Int
  /\ time_synced \in BOOLEAN
  /\ last_ntp_day \in 1..366 \cup {Never}
  /\ boots \in 1..MaxBoots
  /\ {wrong_since, failed_at, resynced_at} \subseteq Times

PumpType ==
  /\ {wet, water_level_ok, pump_on, extended_run} \subseteq BOOLEAN
  /\ {extended_run_start, dry_since, run_since, raised_at} \subseteq Times
  /\ extended_run_duration \in RunRequests \cup {0}

TypeOK == ClockType /\ PumpType

\* time.time() and time.localtime(), for an RTC that shows a time
HourOf(rtc) == (rtc \div HourLen) % 24
\* Slip: the field before, the day of the week.
WeekdayOf(rtc) == Weekday(rtc \div (24 * HourLen))
YearDayOf(rtc) == YearDay(rtc \div (24 * HourLen))

\* Slip: the offset is applied twice.
OffsetTwice(time) == 2 * HourLen * UkDstOffset(time \div HourLen)
\* What sync_time adds to UTC.
UkOffset(time) == HourLen * UkDstOffset(time \div HourLen)
UkRight(time, offset) == offset = HourLen * LegalOffset(time \div HourLen)

PowerOnDate == 24 * HourLen * DayNumber(2021, 1, 1)

\* Nothing runs before it was built.
ASSUME PowerUpsAssumption == \A time \in PowerUps : time >= PowerOnDate

Noted ==
  wrong_since' = CASE UkRight(utc', ahead') -> Never
                   [] ~UkRight(utc', ahead') /\ wrong_since = Never -> utc'
                   [] OTHER -> wrong_since

-----------------------------------------------------------------------------
\* Up to the main loop: the RTC has kept its time or lost it, and is set or
\* not.
Init ==
  /\ utc \in PowerUps
  /\ time_synced \in BOOLEAN
  /\ ahead = IF time_synced THEN UkOffset(utc) ELSE PowerOnDate - utc
  /\ last_sensor_read = 0
  /\ last_ntp_day = Never
  /\ wet \in BOOLEAN
  /\ water_level_ok = wet
  /\ pump_on = FALSE
  /\ extended_run = FALSE
  /\ extended_run_start = Never
  /\ extended_run_duration = 0
  /\ boots = 1
  /\ read_at = utc
  /\ wrong_since = IF time_synced THEN Never ELSE utc
  /\ failed_at = IF time_synced THEN Never ELSE utc
  /\ resynced_at = Never
  /\ dry_since = IF wet THEN Never ELSE utc
  /\ run_since = Never
  /\ raised_at = Never

Boot ==
  /\ boots < MaxBoots
  /\ boots' = boots + 1
  /\ UNCHANGED <<utc, wet, dry_since, raised_at>>
  /\ \/ /\ ahead' = UkOffset(utc)
        /\ time_synced' = TRUE
        /\ UNCHANGED failed_at
     \/ /\ ahead' \in {ahead, PowerOnDate - utc}
        /\ time_synced' = FALSE
        /\ failed_at' = utc
  /\ last_sensor_read' = 0
  /\ last_ntp_day' = Never
  /\ water_level_ok' = wet
  /\ pump_on' = FALSE
  /\ extended_run' = FALSE
  /\ extended_run_start' = Never
  /\ extended_run_duration' = 0
  /\ read_at' = utc
  /\ resynced_at' = Never
  /\ run_since' = Never
  /\ Noted

WaterMoves ==
  /\ wet' = ~wet
  /\ dry_since' = IF wet THEN utc ELSE Never
  /\ UNCHANGED <<utc, clock, last_sensor_read, water_level_ok, pump_on, run,
                 read_at, clockHistory, run_since, raised_at>>

-----------------------------------------------------------------------------
(* A pass of the main loop; rtc is its now.                                 *)

ReadSensors(rtc) ==
  IF rtc - last_sensor_read >= SensorReadInterval
  THEN /\ water_level_ok' = wet
       /\ last_sensor_read' = rtc
       /\ read_at' = utc'
  ELSE UNCHANGED <<water_level_ok, last_sensor_read, read_at>>

\* Slip: an hour earlier, before the clocks have changed.
SyncAtOne == 1
NtpSyncHour == 3

\* Slip: as often as the hour comes.
AnyDay(rtc) == TRUE
NotToday(rtc) == last_ntp_day # YearDayOf(rtc)
ResyncDue(rtc) == HourOf(rtc) = NtpSyncHour /\ NotToday(rtc)

ResyncSucceeds(rtc) ==
  /\ ResyncDue(rtc)
  /\ ahead' = UkOffset(utc')
  /\ time_synced' = TRUE
  /\ last_ntp_day' = YearDayOf(rtc)
  /\ resynced_at' = IF time_synced THEN utc' ELSE Never
  /\ UNCHANGED failed_at

ResyncFails(rtc) ==
  /\ ResyncDue(rtc)
  /\ failed_at' = utc'
  /\ UNCHANGED <<ahead, time_synced, last_ntp_day, resynced_at>>

NoResync(rtc) ==
  /\ ~ResyncDue(rtc)
  /\ UNCHANGED <<ahead, time_synced, last_ntp_day, failed_at, resynced_at>>

\* A command "3:N", which network.loop() hands to the controller.
RequestRun ==
  /\ extended_run_duration' \in RunRequests
  /\ extended_run' = TRUE
  /\ extended_run_start' = Never
  /\ run_since' = Never
  /\ UNCHANGED <<utc, clock, last_sensor_read, wet, water_level_ok, pump_on,
                 read_at, clockHistory, dry_since, raised_at>>

CancelRun ==
  /\ extended_run' = FALSE
  /\ extended_run_start' = Never
  /\ run_since' = Never
  /\ UNCHANGED extended_run_duration

\* Slip: during a run the water level is not looked at.
OnlyIdle == ~water_level_ok' /\ ~extended_run
\* The first of the safety chain.
Dry == ~water_level_ok'

RunLive(rtc) ==
  /\ extended_run
  /\ extended_run_start # Never =>
       rtc - extended_run_start < extended_run_duration

StopDry ==
  /\ Dry
  /\ pump_on' = FALSE
  /\ CancelRun

RunExtended(rtc) ==
  /\ ~Dry
  /\ RunLive(rtc)
  /\ pump_on' = TRUE
  /\ IF extended_run_start = Never
     THEN extended_run_start' = rtc /\ run_since' = utc'
     ELSE UNCHANGED <<extended_run_start, run_since>>
  /\ UNCHANGED <<extended_run, extended_run_duration>>

Rest(rtc) ==
  /\ ~Dry
  /\ ~RunLive(rtc)
  /\ pump_on' = FALSE
  /\ CancelRun

Control(rtc) ==
  /\ StopDry \/ RunExtended(rtc) \/ Rest(rtc)
  /\ UNCHANGED raised_at

\* The controller raises: before it has done anything, while it publishes that
\* it has stopped the pump for dry pipes, which leaves the run as it is, or
\* after all of this.  main.py goes on.
ControlRaises(rtc) ==
  /\ raised_at' = utc'
  /\ \/ UNCHANGED <<pump_on, run, run_since>>
     \/ Dry /\ pump_on' = FALSE /\ UNCHANGED <<run, run_since>>
     \/ RunExtended(rtc)
     \/ Rest(rtc)

Pass ==
  /\ \E gap \in PassGaps : utc' = utc + gap
  /\ LET rtc == utc' + ahead IN
       /\ ReadSensors(rtc)
       /\ ResyncSucceeds(rtc) \/ ResyncFails(rtc) \/ NoResync(rtc)
  /\ Noted
  /\ Control(utc' + ahead') \/ ControlRaises(utc' + ahead')
  /\ UNCHANGED <<wet, dry_since, boots>>

Next == Boot \/ WaterMoves \/ RequestRun \/ Pass

Spec == Init /\ [][Next]_vars

-----------------------------------------------------------------------------
(* Properties.                                                              *)

\* At every hour sync_time would add what the law says: neither end of summer
\* time is off by an hour or by a week, whatever the year.
SummerTimeRight ==
  UkDstOffset(utc \div HourLen) = LegalOffset(utc \div HourLen)

\* The day of this moment, as the RTC shows it, has the number of the one last
\* synchronised, which was a year ago, or shown by an RTC without time: it is
\* taken for done.
TakenForDone(time) == last_ntp_day = YearDayOf(time + ahead)
DayLost(time) == IF TakenForDone(time) THEN 24 * HourLen ELSE 0

\* The clock changes at 01:00 UTC, and a resync at 03:00 of the old time puts
\* that right within two hours; and what a failing attempt has left wrong is
\* tried again within a day, also when the RTC has lost its time.  Either takes
\* a day longer when that day is taken for done.
ClockRight ==
  wrong_since # Never =>
    IF failed_at = Never \/ failed_at < wrong_since
    THEN utc - wrong_since < 2 * HourLen + DayLost(wrong_since)
    ELSE utc - failed_at < 24 * HourLen + DayLost(failed_at + 24 * HourLen)

\* The daily resync is done once a day, also in the night when its hour comes
\* twice.
ResyncOnce ==
  [][resynced_at' # resynced_at /\ resynced_at # Never /\ resynced_at' # Never =>
       resynced_at' - resynced_at >= 22 * HourLen]_vars

\* The sensors are read at their interval, except that setting the clock back
\* stops the reading, for an hour and no longer.
ReadGapBounded == utc - read_at < HourLen + SensorReadInterval

\* No pass leaves the pump running when the pipes have been dry for longer
\* than such a gap, unless the controller has raised in that very pass.
DryStops ==
  /\ pump_on
  /\ dry_since # Never
  /\ utc - dry_since >= HourLen + SensorReadInterval
  => raised_at = utc

RunEnds == run_since # Never /\ run_since' = Never /\ ~Dry /\ pump_on /\ ~pump_on'
Undisturbed == raised_at' = Never \/ raised_at' < run_since

\* A run that nothing disturbs lasts as long as asked, give or take the hour of
\* the clock change; only one that began before the clock was set, which then
\* jumps by years, is over at once.
RunLength ==
  [][RunEnds /\ Pass /\ time_synced /\ Undisturbed =>
       LET length == utc' - run_since IN
         /\ length >= extended_run_duration - HourLen
         /\ length <= extended_run_duration + HourLen + LongestPass]_vars
=============================================================================
