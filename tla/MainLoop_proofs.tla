--------------------------- MODULE MainLoop_proofs ---------------------------
(***************************************************************************)
(* Theorems about MainLoop, for any units of time, any moments of          *)
(* power-up, any passes and any number of restarts.                        *)
(***************************************************************************)
EXTENDS MainLoop, UkTime_proofs, TLAPS

\* The RTC never shows a time before it began, and is never more than an hour
\* ahead: it is late by years, or on summer time, or right.
ClockInv ==
  /\ {utc} \subseteq Nat
  /\ {ahead} \subseteq Int
  /\ utc >= PowerOnDate
  /\ utc + ahead >= 0
  /\ ahead <= HourLen

\* _last_sensor_read is a reading of the RTC as it was at read_at: the RTC may
\* have gone back since, by no more than an hour.
ReadInv ==
  /\ {last_sensor_read, read_at} \subseteq Int
  /\ last_sensor_read - read_at <= HourLen
  /\ last_sensor_read - read_at - ahead <= HourLen
  /\ read_at <= utc
  /\ utc - read_at < HourLen + SensorReadInterval

\* A level that is believed was read before the pipes fell dry, and a pump
\* that runs on a level known as low has just been left so by an exception.
DryInv ==
  /\ wet \in BOOLEAN
  /\ dry_since \in Times
  /\ wet <=> dry_since = Never
  /\ dry_since # Never => dry_since <= utc
  /\ water_level_ok /\ dry_since # Never => dry_since >= read_at
  /\ pump_on => water_level_ok \/ raised_at = utc

Inv == ClockInv /\ ReadInv /\ DryInv

-----------------------------------------------------------------------------
(* The clock.                                                               *)

\* The date of a Pico without time.
LEMMA PowerOnDateNat == PowerOnDate \in Nat
<1>1. DaysBeforeYear(2021) = 7671
  BY DEF DaysBeforeYear
<1>2. DaysBeforeMonth(2021, 1) = 0
  BY DEF DaysBeforeMonth
<1>3. DayNumber(2021, 1, 1) = 7671
  BY <1>1, <1>2 DEF DayNumber
<1> QED
  BY <1>3, UnitsAssumption DEF PowerOnDate

\* The offset is an hour or nothing.
LEMMA OffsetOfHour ==
  ASSUME NEW time \in Int
  PROVE  UkOffset(time) \in {0, HourLen}
<1>1. UkDstOffset(time \div HourLen) \in {0, 1}
  BY DEF UkDstOffset
<1> QED
  BY <1>1, UnitsAssumption DEF UkOffset

-----------------------------------------------------------------------------
(* The invariant.                                                           *)

LEMMA InitInv == Init => Inv
<1> SUFFICES ASSUME Init PROVE Inv
  OBVIOUS
<1> USE UnitsAssumption, PowerOnDateNat
<1>1. utc \in Nat /\ utc >= PowerOnDate
  BY PowerUpsAssumption DEF Init
<1>2. ClockInv
  BY <1>1, OffsetOfHour DEF Init, ClockInv
<1>3. ReadInv
  BY <1>1, <1>2 DEF Init, ReadInv, ClockInv
<1>4. DryInv
  BY <1>1 DEF Init, DryInv, Times
<1> QED
  BY <1>2, <1>3, <1>4 DEF Inv

LEMMA BootInv == Inv /\ Boot => Inv'
<1> SUFFICES ASSUME Inv, Boot PROVE Inv'
  OBVIOUS
<1> USE UnitsAssumption, PowerOnDateNat
<1>1. ClockInv'
  BY OffsetOfHour DEF Inv, ClockInv, Boot
<1>2. ReadInv'
  <2>1. last_sensor_read' = 0 /\ read_at' = utc /\ utc' = utc
    BY DEF Boot
  <2>2. {utc} \subseteq Nat /\ {ahead'} \subseteq Int /\ utc + ahead' >= 0
    BY <1>1, <2>1 DEF Inv, ClockInv
  <2> QED
    BY <2>1, <2>2 DEF ReadInv
<1>3. DryInv'
  BY DEF Inv, DryInv, ClockInv, Boot, Times
<1> QED
  BY <1>1, <1>2, <1>3 DEF Inv

\* A pass, up to the controller: the clock and the sensors.
LEMMA PassTimes ==
  ASSUME Inv, Pass
  PROVE  ClockInv' /\ ReadInv'
<1> USE UnitsAssumption, PowerOnDateNat
<1>1. {utc, utc'} \subseteq Nat /\ utc' >= utc
  BY DEF Inv, ClockInv, Pass
<1> DEFINE rtc == utc' + ahead
<1>2. utc' >= PowerOnDate /\ rtc >= 0 /\ {ahead} \subseteq Int /\ ahead <= HourLen
  BY <1>1 DEF Inv, ClockInv
<1>3. ahead' = ahead \/ ahead' \in {0, HourLen}
  <2>1. ResyncSucceeds(rtc) \/ ResyncFails(rtc) \/ NoResync(rtc)
    BY DEF Pass
  <2> QED
    BY <2>1, <1>1, OffsetOfHour DEF ResyncSucceeds, ResyncFails, NoResync
<1>4. ClockInv'
  BY <1>1, <1>2, <1>3 DEF Inv, ClockInv
<1>5. ReadSensors(rtc)
  BY DEF Pass
<1>6. CASE rtc - last_sensor_read >= SensorReadInterval
  <2>1. last_sensor_read' = rtc /\ read_at' = utc'
    BY <1>5, <1>6 DEF ReadSensors
  <2>2. {rtc, utc'} \subseteq Int /\ rtc - utc' <= HourLen
    BY <1>1, <1>2
  <2>3. rtc - utc' - ahead' <= HourLen
    BY <1>1, <1>2, <1>3
  <2>4. utc' <= utc' /\ utc' - utc' < HourLen + SensorReadInterval
    BY <1>1
  <2> HIDE DEF rtc
  <2> QED
    BY <2>1, <2>2, <2>3, <2>4, <1>4 DEF ReadInv
<1>7. CASE ~(rtc - last_sensor_read >= SensorReadInterval)
  <2>1. last_sensor_read' = last_sensor_read /\ read_at' = read_at
    BY <1>5, <1>7 DEF ReadSensors
  <2>2. /\ {last_sensor_read, read_at} \subseteq Int
        /\ last_sensor_read - read_at <= HourLen
        /\ last_sensor_read - read_at - ahead <= HourLen
        /\ read_at <= utc
    BY DEF Inv, ReadInv
  <2>3. last_sensor_read - read_at - ahead' <= HourLen
    BY <2>2, <1>2, <1>3
  <2>4. read_at <= utc' /\ utc' - read_at < HourLen + SensorReadInterval
    BY <2>2, <1>1, <1>2, <1>7
  <2> QED
    BY <2>1, <2>2, <2>3, <2>4, <1>4 DEF ReadInv
<1> QED
  BY <1>4, <1>6, <1>7

\* A pass, from the sensors to the pump.
LEMMA PassDry ==
  ASSUME Inv, Pass
  PROVE  DryInv'
<1> USE UnitsAssumption
<1>1. {utc, utc'} \subseteq Nat /\ utc' >= utc
  BY DEF Inv, ClockInv, Pass
<1> DEFINE rtc == utc' + ahead
<1>2. UNCHANGED <<wet, dry_since>> /\ ReadSensors(rtc)
  BY DEF Pass
<1>3. water_level_ok' /\ dry_since' # Never => dry_since' >= read_at'
  BY <1>1, <1>2 DEF Inv, DryInv, ReadSensors
<1>4. pump_on' => water_level_ok' \/ raised_at' = utc'
  <2>1. Control(utc' + ahead') \/ ControlRaises(utc' + ahead')
    BY DEF Pass
  <2>2. Control(utc' + ahead') => water_level_ok' \/ ~pump_on'
    BY DEF Control, StopDry, RunExtended, Rest, Dry
  <2>3. ControlRaises(utc' + ahead') => raised_at' = utc'
    BY DEF ControlRaises
  <2> QED
    BY <2>1, <2>2, <2>3
<1>5. dry_since' # Never => dry_since' <= utc'
  BY <1>1, <1>2 DEF Inv, DryInv, Times
<1> QED
  BY <1>2, <1>3, <1>4, <1>5 DEF Inv, DryInv

LEMMA NextInv == Inv /\ [Next]_vars => Inv'
<1> SUFFICES ASSUME Inv, [Next]_vars PROVE Inv'
  OBVIOUS
<1>1. CASE Boot
  BY <1>1, BootInv
<1>2. CASE WaterMoves
  <2>1. ClockInv' /\ ReadInv'
    BY <1>2, Zenon DEF WaterMoves, Inv, ClockInv, ReadInv, clock
  <2>2. DryInv'
    <3>1. /\ wet' = ~wet
          /\ dry_since' = IF wet THEN utc ELSE Never
          /\ UNCHANGED <<utc, read_at, water_level_ok, pump_on, raised_at>>
      BY <1>2 DEF WaterMoves
    <3>2. utc \in Nat /\ utc # Never /\ utc <= utc /\ read_at <= utc
      BY UnitsAssumption DEF Inv, ClockInv, ReadInv
    <3> QED
      BY <3>1, <3>2, Zenon DEF Inv, DryInv, Times
  <2> QED
    BY <2>1, <2>2 DEF Inv
<1>3. CASE RequestRun
  BY <1>3 DEF RequestRun, Inv, ClockInv, ReadInv, DryInv, clock
<1>4. CASE Pass
  BY <1>4, PassTimes, PassDry DEF Inv
<1>5. CASE UNCHANGED vars
  BY <1>5
  DEF vars, clock, run, clockHistory, runHistory, Inv, ClockInv, ReadInv, DryInv
<1> QED
  BY <1>1, <1>2, <1>3, <1>4, <1>5 DEF Next

\* The types, step by step: only the pass computes new times.
LEMMA InitType == Init => TypeOK
<1> SUFFICES ASSUME Init PROVE TypeOK
  OBVIOUS
<1>1. {utc, last_sensor_read, read_at} \subseteq Nat /\ utc \in Times
  BY UnitsAssumption DEF Init, Times
<1>2. ahead \in Int
  BY InitInv DEF Inv, ClockInv
<1>3. ClockType
  BY <1>1, <1>2, UnitsAssumption DEF Init, ClockType, Times
<1>4. PumpType
  BY <1>1, Zenon DEF Init, PumpType, Times
<1> QED
  BY <1>3, <1>4 DEF TypeOK

LEMMA PassType ==
  ASSUME TypeOK, Inv, Pass
  PROVE  TypeOK'
<1>1. utc' \in Nat /\ utc' \in Times /\ ahead' \in Int
  BY PassTimes DEF ClockInv, Times
<1> DEFINE rtc == utc' + ahead
<1>2. rtc \in Nat
  BY UnitsAssumption, <1>1 DEF Pass, Inv, ClockInv
<1>3. YearDayOf(rtc) \in 1..366
  <2>1. (rtc \div (24 * HourLen)) \in Nat
    BY <1>2, UnitsAssumption
  <2> QED
    BY <2>1, YearDayRange DEF YearDayOf
<1>4. /\ ReadSensors(rtc)
      /\ ResyncSucceeds(rtc) \/ ResyncFails(rtc) \/ NoResync(rtc)
      /\ Noted
      /\ Control(utc' + ahead') \/ ControlRaises(utc' + ahead')
      /\ UNCHANGED <<wet, dry_since, boots>>
  BY DEF Pass
<1> HIDE DEF rtc
<1>5. ClockType'
  <2>1. {last_sensor_read', read_at'} \subseteq Nat /\ water_level_ok' \in BOOLEAN
    BY <1>1, <1>2, <1>4, Zenon DEF ReadSensors, TypeOK, ClockType, PumpType
  <2>2. /\ time_synced' \in BOOLEAN
        /\ last_ntp_day' \in 1..366 \cup {Never}
        /\ {failed_at', resynced_at'} \subseteq Times
    <3>1. CASE ResyncSucceeds(rtc)
      <4>1. resynced_at' \in {utc', Never} /\ UNCHANGED failed_at
        BY <3>1, Zenon DEF ResyncSucceeds
      <4> QED
        BY <1>1, <1>3, <3>1, <4>1, Zenon
        DEF ResyncSucceeds, TypeOK, ClockType, Times
    <3>2. CASE ResyncFails(rtc) \/ NoResync(rtc)
      BY <1>1, <3>2, Zenon DEF ResyncFails, NoResync, TypeOK, ClockType, Times
    <3> QED
      BY <1>4, <3>1, <3>2
  <2>3. wrong_since' \in Times
    BY <1>1, <1>4, Zenon DEF Noted, TypeOK, ClockType, Times
  <2> QED
    BY <2>1, <2>2, <2>3, <1>1, <1>4, Zenon DEF TypeOK, ClockType
<1>6. PumpType'
  <2>1. water_level_ok' \in BOOLEAN
    BY <1>4, Zenon DEF ReadSensors, TypeOK, PumpType
  <2>2. utc' + ahead' \in Times
    BY PassTimes DEF ClockInv, Times
  <2> DEFINE shown == utc' + ahead'
  <2> HIDE DEF shown
  <2>3. /\ {pump_on', extended_run'} \subseteq BOOLEAN
        /\ {extended_run_start', run_since', raised_at'} \subseteq Times
        /\ extended_run_duration' \in RunRequests \cup {0}
    <3>1. Control(shown) \/ ControlRaises(shown)
      BY <1>4 DEF shown
    <3>2. shown \in Times
      BY <2>2 DEF shown
    <3> QED
      BY <3>1, <3>2, <1>1, Zenon
      DEF Control, ControlRaises, StopDry, RunExtended, Rest, CancelRun, run,
          TypeOK, PumpType, Times
  <2> QED
    BY <1>4, <2>1, <2>3, Zenon DEF TypeOK, PumpType
<1> QED
  BY <1>5, <1>6 DEF TypeOK

LEMMA InvHolds == Spec => []Inv
<1> QED
  BY InitInv, NextInv, PTL DEF Spec

-----------------------------------------------------------------------------

\* Every variable keeps its type, among them the day of the last resync.
THEOREM TypeCorrect == Spec => []TypeOK
<1>1. TypeOK /\ Inv /\ [Next]_vars => TypeOK'
  <2> SUFFICES ASSUME TypeOK, Inv, [Next]_vars PROVE TypeOK'
    OBVIOUS
  <2>1. utc \in Times /\ Never \in Times /\ 0 \in Nat
    BY DEF Inv, ClockInv, Times
  <2>2. CASE Boot
    <3>1. boots' \in 1..MaxBoots
      BY <2>2, UnitsAssumption DEF Boot, TypeOK, ClockType
    <3>2. ahead' \in Int
      BY <2>2, BootInv DEF Inv, ClockInv
    <3>3. wrong_since' \in Times /\ failed_at' \in Times
      BY <2>1, <2>2, Zenon DEF Boot, Noted, TypeOK, ClockType
    <3>4. time_synced' \in BOOLEAN
      BY <2>2, Zenon DEF Boot
    <3> QED
      BY <2>1, <2>2, <3>1, <3>2, <3>3, <3>4, Zenon
      DEF Boot, TypeOK, ClockType, PumpType
  <2>3. CASE WaterMoves
    <3>1. dry_since' \in {utc, Never} /\ wet' \in BOOLEAN
      BY <2>3, Zenon DEF WaterMoves
    <3> QED
      BY <2>1, <2>3, <3>1, Zenon
      DEF WaterMoves, clock, run, clockHistory, TypeOK, ClockType, PumpType
  <2>4. CASE RequestRun
    BY <2>1, <2>4, Zenon
    DEF RequestRun, clock, clockHistory, TypeOK, ClockType, PumpType
  <2>5. CASE Pass
    BY <2>5, PassType
  <2>6. CASE UNCHANGED vars
    BY <2>6, Zenon
    DEF vars, clock, run, clockHistory, runHistory, TypeOK, ClockType, PumpType
  <2> QED
    BY <2>2, <2>3, <2>4, <2>5, <2>6 DEF Next
<1> QED
  BY <1>1, InitType, InvHolds, PTL DEF Spec

\* What sync_time would add is right in every year.
THEOREM SummerTimeHolds == Spec => []SummerTimeRight
<1>1. Inv => SummerTimeRight
  <2> SUFFICES ASSUME Inv PROVE SummerTimeRight
    OBVIOUS
  <2>1. (utc \div HourLen) \in Nat
    BY UnitsAssumption DEF Inv, ClockInv
  <2> QED
    BY <2>1, OffsetLegal DEF SummerTimeRight
<1> QED
  BY <1>1, InvHolds, PTL

\* Whatever the clock does, the sensors are read again within an hour and the
\* interval.
THEOREM ReadGapHolds == Spec => []ReadGapBounded
<1>1. Inv => ReadGapBounded
  BY DEF Inv, ReadInv, ReadGapBounded
<1> QED
  BY <1>1, InvHolds, PTL

\* The pump never runs on in dry pipes for longer than that without an
\* exception in that very pass.
THEOREM DryStopsHolds == Spec => []DryStops
<1>1. Inv => DryStops
  <2> SUFFICES ASSUME Inv, pump_on, dry_since # Never,
                      utc - dry_since >= HourLen + SensorReadInterval,
                      raised_at # utc
               PROVE  FALSE
    BY DEF DryStops
  <2>1. dry_since >= read_at /\ dry_since \in Nat
    BY DEF Inv, DryInv, Times
  <2> QED
    BY <2>1, UnitsAssumption DEF Inv, ReadInv, ClockInv
<1> QED
  BY <1>1, InvHolds, PTL

-----------------------------------------------------------------------------
(* An extended run.                                                         *)

\* What a pass does about the time and the clock.
LEMMA PassClock ==
  ASSUME Inv, Pass
  PROVE  /\ {utc, utc', ahead, ahead'} \subseteq Int
         /\ utc <= utc' /\ utc' <= utc + LongestPass
         /\ \/ ahead' \in {0, HourLen} /\ time_synced'
            \/ ahead' = ahead /\ time_synced' = time_synced
<1> DEFINE t == utc'
<1>1. PICK gap \in PassGaps : t = utc + gap
  BY DEF Pass
<1>2. gap \in Int /\ 0 <= gap /\ gap <= LongestPass /\ utc \in Int /\ ahead \in Int
  BY UnitsAssumption DEF Inv, ClockInv
<1>3. t \in Int /\ utc <= t /\ t <= utc + LongestPass
  BY <1>1, <1>2, UnitsAssumption
<1>4. CASE ResyncSucceeds(t + ahead)
  <2>1. ahead' = UkOffset(t) /\ time_synced' = TRUE
    BY <1>4, Zenon DEF ResyncSucceeds
  <2>2. ahead' \in {0, HourLen}
    BY <1>3, <2>1, OffsetOfHour
  <2>3. {utc, t, ahead, ahead'} \subseteq Int
    BY <1>2, <1>3, <2>2, UnitsAssumption
  <2>4. ahead' \in {0, HourLen} /\ time_synced'
    BY <2>1, <2>2, Zenon
  <2> QED
    BY <1>3, <2>3, <2>4, Zenon
<1>5. CASE ResyncFails(t + ahead) \/ NoResync(t + ahead)
  <2>1. ahead' = ahead /\ time_synced' = time_synced
    BY <1>5, Zenon DEF ResyncFails, NoResync
  <2> QED
    BY <1>2, <1>3, <2>1
<1> QED
  BY <1>4, <1>5 DEF Pass

\* What the RTC shows is right, or right but for an hour, as soon as it has
\* been set.
SyncedInv == time_synced => ahead \in {0, HourLen}

LEMMA SyncedHolds == Spec => []SyncedInv
<1>1. Init => SyncedInv
  <2> SUFFICES ASSUME Init PROVE SyncedInv
    OBVIOUS
  <2>1. utc \in Int
    BY InitInv DEF Inv, ClockInv
  <2>2. UkOffset(utc) \in {0, HourLen}
    BY <2>1, OffsetOfHour
  <2> QED
    BY <2>2, Zenon DEF Init, SyncedInv
<1>2. SyncedInv /\ Inv /\ [Next]_vars => SyncedInv'
  <2> SUFFICES ASSUME SyncedInv, Inv, [Next]_vars PROVE SyncedInv'
    OBVIOUS
  <2>1. CASE Boot
    <3>1. utc \in Int
      BY DEF Inv, ClockInv
    <3>2. UkOffset(utc) \in {0, HourLen}
      BY <3>1, OffsetOfHour
    <3> QED
      BY <2>1, <3>2, Zenon DEF Boot, SyncedInv
  <2>2. CASE Pass
    BY <2>2, PassClock, Zenon DEF SyncedInv
  <2>3. CASE WaterMoves \/ RequestRun \/ UNCHANGED vars
    <3>1. UNCHANGED clock
      BY <2>3, Zenon DEF WaterMoves, RequestRun, vars
    <3> QED
      BY <3>1 DEF clock, SyncedInv
  <2> QED
    BY <2>1, <2>2, <2>3 DEF Next
<1> QED
  BY <1>1, <1>2, InvHolds, PTL DEF Spec

\* The date that a Pico without time starts from is longer ago than any
\* requested run lasts.
LongAgo ==
  \A length \in RunRequests, time \in PowerUps : PowerOnDate + length <= time

\* An RTC without time is behind by more than any run lasts.
BehindInv ==
  /\ \A length \in RunRequests : PowerOnDate + length <= utc
  /\ \/ ahead \in {0, HourLen}
     \/ ~time_synced /\ \A length \in RunRequests : ahead + length <= 0

Quiet == raised_at = Never \/ raised_at < run_since

\* A run that is on began, by the RTC, an hour ahead of UTC, or right, or with
\* the RTC that still has no time; and it is not over yet.
RunInv ==
  /\ run_since = Never <=> extended_run_start = Never
  /\ extended_run => extended_run_duration \in RunRequests
  /\ run_since # Never =>
       /\ extended_run
       /\ {run_since, extended_run_start} \subseteq Int
       /\ run_since <= utc
       /\ Quiet =>
            /\ utc + ahead - extended_run_start < extended_run_duration
            /\ \/ extended_run_start - run_since \in {0, HourLen}
               \/ ~time_synced /\ extended_run_start - run_since = ahead

LEMMA BehindHolds ==
  ASSUME LongAgo
  PROVE  Spec => []BehindInv
<1> USE UnitsAssumption, PowerOnDateNat
<1>1. Init => BehindInv
  <2> SUFFICES ASSUME Init PROVE BehindInv
    OBVIOUS
  <2>1. utc \in Int /\ utc \in PowerUps
    BY InitInv DEF Inv, ClockInv, Init
  <2>2. \A length \in RunRequests : PowerOnDate + length <= utc
    BY <2>1 DEF LongAgo
  <2>3. CASE time_synced
    <3>1. ahead \in {0, HourLen}
      BY <2>1, <2>3, OffsetOfHour DEF Init
    <3> QED
      BY <2>2, <3>1 DEF BehindInv
  <2>4. CASE ~time_synced
    <3>1. ahead = PowerOnDate - utc
      BY <2>4 DEF Init
    <3>2. \A length \in RunRequests : ahead + length <= 0
      BY <2>1, <2>2, <3>1
    <3> QED
      BY <2>2, <2>4, <3>2 DEF BehindInv
  <2> QED
    BY <2>3, <2>4
<1>2. BehindInv /\ Inv /\ [Next]_vars => BehindInv'
  <2> SUFFICES ASSUME BehindInv, Inv, [Next]_vars PROVE BehindInv'
    OBVIOUS
  <2>1. /\ utc \in Int
        /\ \A length \in RunRequests : PowerOnDate + length <= utc
    BY DEF Inv, ClockInv, BehindInv
  <2>2. CASE Boot
    <3>1. UNCHANGED utc
      BY <2>2 DEF Boot
    <3>2. \/ ahead' = UkOffset(utc)
          \/ ahead' \in {ahead, PowerOnDate - utc} /\ ~time_synced'
      BY <2>2, Zenon DEF Boot
    <3>3. CASE ahead' = UkOffset(utc)
      <4>1. ahead' \in {0, HourLen}
        BY <2>1, <3>3, OffsetOfHour
      <4> QED
        BY <2>1, <3>1, <4>1, Zenon DEF BehindInv
    <3>4. CASE ahead' = ahead /\ ~time_synced'
      BY <3>1, <3>4, Zenon DEF BehindInv
    <3>5. CASE ahead' = PowerOnDate - utc /\ ~time_synced'
      <4>1. \A length \in RunRequests : ahead' + length <= 0
        BY <2>1, <3>5
      <4> QED
        BY <2>1, <3>1, <3>5, <4>1, Zenon DEF BehindInv
    <3> QED
      BY <3>2, <3>3, <3>4, <3>5
  <2>3. CASE Pass
    <3> DEFINE t == utc'
    <3>1. t \in Int /\ utc <= t
      BY <2>3, PassClock
    <3>2. \A length \in RunRequests : PowerOnDate + length <= t
      <4> HIDE DEF t
      <4> QED
        BY <2>1, <3>1
    <3>3. \/ ahead' \in {0, HourLen}
          \/ ahead' = ahead /\ time_synced' = time_synced
      BY <2>3, PassClock, Zenon
    <3> HIDE DEF t
    <3> QED
      BY <3>2, <3>3 DEF BehindInv, t
  <2>4. CASE WaterMoves \/ RequestRun \/ UNCHANGED vars
    <3>1. UNCHANGED utc /\ UNCHANGED clock
      BY <2>4, Zenon DEF WaterMoves, RequestRun, vars
    <3> QED
      BY <3>1, Zenon DEF clock, BehindInv
  <2> QED
    BY <2>2, <2>3, <2>4 DEF Next
<1> QED
  BY <1>1, <1>2, InvHolds, PTL DEF Spec

LEMMA RunPass ==
  ASSUME Inv, BehindInv, BehindInv', RunInv, Pass
  PROVE  RunInv'
<1> DEFINE t == utc'
           a == ahead'
           shown == t + a
<1> USE UnitsAssumption
<1>1. /\ {utc, ahead, t, a} \subseteq Int
      /\ utc <= t
      /\ \/ a \in {0, HourLen} /\ time_synced'
         \/ a = ahead /\ time_synced' = time_synced
  BY PassClock
<1>2. shown \in Int
  BY <1>1
<1>3. Control(shown) \/ ControlRaises(shown)
  BY Zenon DEF Pass
<1>4. t # Never /\ shown # Never
  BY <1>1, <1>2
<1>5. /\ \/ StopDry
         \/ RunExtended(shown)
         \/ Rest(shown)
         \/ UNCHANGED <<extended_run, extended_run_start, extended_run_duration, run_since>>
      /\ raised_at' \in {raised_at, t}
      /\ raised_at' # t => RunExtended(shown) \/ CancelRun
  BY <1>3, Zenon DEF Control, ControlRaises, run, StopDry, Rest
<1>6. CASE CancelRun
  <2>1. run_since' = Never /\ extended_run_start' = Never /\ ~extended_run'
    BY <1>6 DEF CancelRun
  <2> QED
    BY <2>1, Zenon DEF RunInv
<1>7. CASE RunExtended(shown)
  <2>1. /\ RunLive(shown) /\ extended_run' = extended_run
        /\ extended_run /\ extended_run_duration' = extended_run_duration
        /\ IF extended_run_start = Never
           THEN extended_run_start' = shown /\ run_since' = t
           ELSE extended_run_start' = extended_run_start /\ run_since' = run_since
    BY <1>7, Zenon DEF RunExtended, RunLive
  <2>2. extended_run_duration \in RunRequests
    BY <2>1, Zenon DEF RunInv
  <2>3. CASE extended_run_start = Never
    <3>1. extended_run_start' = shown /\ run_since' = t
      BY <2>1, <2>3, Zenon
    <3>2. {run_since', extended_run_start'} \subseteq Int /\ run_since' <= t
      BY <1>1, <1>2, <3>1
    <3>3. t + a - extended_run_start' < extended_run_duration
      <4>1. extended_run_duration \in Nat \ {0}
        BY <2>2
      <4> HIDE DEF t, a
      <4> QED
        BY <1>1, <3>1, <4>1
    <3>4. \/ extended_run_start' - run_since' \in {0, HourLen}
          \/ ~time_synced' /\ extended_run_start' - run_since' = a
      <4>1. extended_run_start' - run_since' = a
        <5> HIDE DEF t, a
        <5> QED
          BY <1>1, <3>1
      <4> QED
        BY <4>1, Zenon DEF BehindInv
    <3>5. run_since' # Never /\ extended_run_start' # Never
      BY <1>4, <3>1, Zenon
    <3> QED
      BY <2>1, <2>2, <3>2, <3>3, <3>4, <3>5, Zenon DEF RunInv
  <2>4. CASE extended_run_start # Never
    <3> DEFINE s == extended_run_start
               r == run_since
               d == extended_run_duration
    <3>1. extended_run_start' = s /\ run_since' = r
      BY <2>1, <2>4, Zenon
    <3>2. {r, s} \subseteq Int /\ r <= utc /\ r # Never
      BY <2>4, Zenon DEF RunInv
    <3>3. r <= t /\ d \in Nat \ {0}
      <4>1. d \in Nat \ {0}
        BY <2>2
      <4> HIDE DEF t
      <4> QED
        BY <1>1, <3>2, <4>1
    <3>4. t + a - s < d
      <4>1. shown - s < d
        BY <2>1, <2>4, Zenon DEF RunLive
      <4> HIDE DEF t, a
      <4> QED
        BY <1>1, <3>2, <3>3, <4>1
    <3>5. ASSUME Quiet'
          PROVE  s - r \in {0, HourLen} \/ (~time_synced' /\ s - r = a)
      <4>1. raised_at' # t
        <5> HIDE DEF t
        <5>1. ~(t < r) /\ t # Never
          BY <1>1, <1>4, <3>2, <3>3
        <5> QED
          BY <3>1, <3>5, <5>1, Zenon DEF Quiet, t
      <4>2. Quiet
        BY <1>5, <3>1, <3>5, <4>1, Zenon DEF Quiet
      <4>3. s - r \in {0, HourLen} \/ (~time_synced /\ s - r = ahead)
        BY <3>2, <4>2, Zenon DEF RunInv
      <4>4. CASE s - r \in {0, HourLen}
        BY <4>4
      <4>5. CASE ~time_synced /\ s - r = ahead /\ a = ahead
                   /\ time_synced' = time_synced
        BY <4>5, Zenon
      <4>6. CASE ~time_synced /\ s - r = ahead /\ a \in {0, HourLen}
        <5>1. CASE ahead \in {0, HourLen}
          BY <4>6, <5>1, Zenon
        <5>2. CASE ahead + d <= 0
          <6>1. a >= 0
            BY <4>6
          <6> HIDE DEF t, a
          <6>2. FALSE
            BY <1>1, <3>2, <3>3, <3>4, <4>6, <5>2, <6>1
          <6> QED
            BY <6>2
        <5> QED
          BY <2>2, <5>1, <5>2, Zenon DEF BehindInv
      <4> QED
        BY <1>1, <4>3, <4>4, <4>5, <4>6, Zenon
    <3>6. s # Never
      BY <2>4
    <3> QED
      BY <2>1, <2>2, <3>1, <3>2, <3>3, <3>4, <3>5, <3>6, Zenon DEF RunInv
  <2> QED
    BY <2>3, <2>4
<1>8. CASE /\ UNCHANGED <<extended_run, extended_run_start, extended_run_duration, run_since>>
           /\ raised_at' = t
  <2>1. /\ extended_run' = extended_run
        /\ extended_run_start' = extended_run_start
        /\ extended_run_duration' = extended_run_duration
        /\ run_since' = run_since
    BY <1>8
  <2>2. run_since # Never => run_since <= t /\ ~Quiet'
    <3> SUFFICES ASSUME run_since # Never
                 PROVE  run_since <= t /\ ~Quiet'
      OBVIOUS
    <3>1. {run_since} \subseteq Int /\ run_since <= utc
      BY Zenon DEF RunInv
    <3>2. run_since <= t /\ ~(t < run_since)
      <4> HIDE DEF t
      <4> QED
        BY <1>1, <3>1
    <3> QED
      BY <1>4, <1>8, <2>1, <3>2, Zenon DEF Quiet
  <2> QED
    BY <2>1, <2>2, Zenon DEF RunInv
<1> QED
  BY <1>5, <1>6, <1>7, <1>8, Zenon DEF StopDry, Rest

LEMMA RunHolds ==
  ASSUME LongAgo
  PROVE  Spec => []RunInv
<1>1. Init => RunInv
  BY Zenon DEF Init, RunInv
<1>2. Inv /\ BehindInv /\ BehindInv' /\ RunInv /\ [Next]_vars => RunInv'
  <2> SUFFICES ASSUME Inv, BehindInv, BehindInv', RunInv, [Next]_vars
               PROVE  RunInv'
    OBVIOUS
  <2>1. CASE Boot
    BY <2>1, Zenon DEF Boot, RunInv
  <2>2. CASE RequestRun
    BY <2>2, Zenon DEF RequestRun, RunInv
  <2>3. CASE Pass
    BY <2>3, RunPass
  <2>4. CASE WaterMoves \/ UNCHANGED vars
    <3>1. /\ UNCHANGED utc /\ UNCHANGED clock /\ UNCHANGED run
          /\ UNCHANGED run_since /\ UNCHANGED raised_at
      BY <2>4, Zenon DEF WaterMoves, vars, runHistory
    <3> QED
      BY <3>1, Zenon DEF clock, run, RunInv, Quiet
  <2> QED
    BY <2>1, <2>2, <2>3, <2>4 DEF Next
<1> QED
  BY <1>1, <1>2, InvHolds, BehindHolds, PTL DEF Spec

\* A run that nothing disturbs lasts as long as asked, give or take the hour of
\* a clock change, however the clock was set meanwhile.
THEOREM RunLengthHolds ==
  ASSUME LongAgo
  PROVE  Spec => RunLength
<1>1. Inv /\ SyncedInv /\ RunInv =>
        (RunEnds /\ Pass /\ time_synced /\ Undisturbed =>
           /\ utc' - run_since >= extended_run_duration - HourLen
           /\ utc' - run_since <= extended_run_duration + HourLen + LongestPass)
  <2> SUFFICES ASSUME Inv, SyncedInv, RunInv, RunEnds, Pass, time_synced,
                      Undisturbed
               PROVE  /\ utc' - run_since >= extended_run_duration - HourLen
                      /\ utc' - run_since <= extended_run_duration + HourLen + LongestPass
    OBVIOUS
  <2> USE UnitsAssumption
  <2> DEFINE t == utc'
             a == ahead'
             s == extended_run_start
             r == run_since
             d == extended_run_duration
  <2>1. /\ {utc, ahead, t, a} \subseteq Int
        /\ utc <= t /\ t <= utc + LongestPass
        /\ a \in {0, HourLen}
        /\ ahead \in {0, HourLen}
    BY PassClock, Zenon DEF SyncedInv
  <2>2. /\ r # Never /\ s # Never
        /\ {r, s} \subseteq Int /\ r <= utc
        /\ extended_run /\ d \in RunRequests
    BY Zenon DEF RunInv, RunEnds
  <2>3. raised_at' # t
    <3>1. t # Never /\ ~(t < r)
      <4> HIDE DEF t
      <4> QED
        BY <2>1, <2>2
    <3> QED
      BY <3>1, Zenon DEF Undisturbed
  <2>4. Control(t + a)
    BY <2>3, Zenon DEF Pass, ControlRaises
  <2>5. UNCHANGED raised_at /\ Rest(t + a)
    BY <2>4, Zenon DEF Control, StopDry, RunExtended, RunEnds
  <2> DEFINE shown == t + a
  <2>6. ~(t + a - s < d)
    <3>1. ~(shown - s < d)
      BY <2>2, <2>5, Zenon DEF Rest, RunLive
    <3>2. d \in Nat
      BY <2>2
    <3> HIDE DEF t, a
    <3> QED
      BY <2>1, <2>2, <3>1, <3>2
  <2>7. Quiet
    BY <2>5, Zenon DEF Undisturbed, Quiet
  <2>8. utc + ahead - s < d /\ s - r \in {0, HourLen}
    BY <2>2, <2>7, Zenon DEF RunInv
  <2>9. d \in Nat
    BY <2>2
  <2>10. t - r >= d - HourLen /\ t - r <= d + HourLen + LongestPass
    <3> HIDE DEF t, a
    <3> QED
      BY <2>1, <2>2, <2>6, <2>8, <2>9
  <2> QED
    BY <2>10
<1> QED
  BY <1>1, InvHolds, SyncedHolds, RunHolds, PTL DEF Spec, RunLength

-----------------------------------------------------------------------------
(* Days and hours of the RTC.                                               *)

\* When the RTC shows that hour of that day.
Moment(day, hour) == HourLen * (24 * day + hour)

LEMMA DivUnique ==
  ASSUME NEW p \in Int, p > 0, NEW r \in Int, NEW k \in Int, NEW m \in Int,
         p * k <= r, r < p * k + p, p * m <= r, r < p * m + p
  PROVE  k = m
<1>1. CASE k < m
  <2>1. p * m >= p * k + p
    <3>1. m - k >= 1 /\ p * m = p * k + p * (m - k)
      BY <1>1, Z3
    <3>2. p * (m - k) >= p
      BY <3>1, Z3
    <3> QED
      BY <3>1, <3>2, Z3
  <2> QED
    BY <2>1, Z3
<1>2. CASE m < k
  <2>1. p * k >= p * m + p
    <3>1. k - m >= 1 /\ p * k = p * m + p * (k - m)
      BY <1>2, Z3
    <3>2. p * (k - m) >= p
      BY <3>1, Z3
    <3> QED
      BY <3>1, <3>2, Z3
  <2> QED
    BY <2>1, Z3
<1> QED
  BY <1>1, <1>2

LEMMA DivBounds ==
  ASSUME NEW p \in Int, p > 0, NEW r \in Int
  PROVE  /\ r \div p \in Int
         /\ p * (r \div p) <= r
         /\ r < p * (r \div p) + p
  BY Z3

LEMMA DivIs ==
  ASSUME NEW p \in Int, p > 0, NEW r \in Int, NEW k \in Int,
         p * k <= r, r < p * k + p
  PROVE  r \div p = k
<1> DEFINE q == r \div p
<1>1. q \in Int /\ p * q <= r /\ r < p * q + p
  BY DivBounds
<1> HIDE DEF q
<1>2. q = k
  BY <1>1, DivUnique
<1> QED
  BY <1>2 DEF q

\* The hours of a day follow each other, and the next day them.
LEMMA Moments ==
  ASSUME NEW day \in Int, NEW hour \in Int
  PROVE  /\ Moment(day, hour) \in Int
         /\ Moment(day, hour) = Moment(day, 0) + HourLen * hour
         /\ Moment(day + 1, 0) = Moment(day, 0) + 24 * HourLen
<1> DEFINE h == HourLen
<1>1. h \in Int
  BY UnitsAssumption
<1> HIDE DEF h
<1>2. h * (24 * day + hour) \in Int
  BY <1>1, Z3
<1>3. h * (24 * day + hour) = h * (24 * day + 0) + h * hour
  BY <1>1, Z3
<1>4. h * (24 * (day + 1) + 0) = h * (24 * day + 0) + 24 * h
  BY <1>1, Z3
<1> QED
  BY <1>2, <1>3, <1>4 DEF Moment, h

\* The hour and the day that a time shows are those it lies in.
LEMMA ShownBy ==
  ASSUME NEW rtc \in Int
  PROVE  LET day == rtc \div (24 * HourLen)
             hour == HourOf(rtc)
         IN  /\ day \in Int
             /\ hour \in 0..23
             /\ Moment(day, hour) <= rtc
             /\ rtc < Moment(day, hour) + HourLen
<1> DEFINE h == HourLen
           q == rtc \div h
           d == q \div 24
           hour == q % 24
<1>1. h \in Int /\ h > 0
  BY UnitsAssumption
<1>2. q \in Int /\ h * q <= rtc /\ rtc < h * q + h
  BY <1>1, DivBounds
<1>3. HourOf(rtc) = hour
  BY DEF HourOf
<1> HIDE DEF h, q
<1>4. d \in Int /\ hour \in 0..23 /\ q = 24 * d + hour
  BY <1>2
<1> HIDE DEF d, hour
<1>5. h * (24 * d + hour) <= rtc /\ rtc < h * (24 * d + hour) + h
  BY <1>2, <1>4
<1>6. /\ 24 * h \in Int /\ 24 * h > 0
      /\ (24 * h) * d <= rtc
      /\ rtc < (24 * h) * d + 24 * h
  <2>1. h * (24 * d + hour) = (24 * h) * d + h * hour
    BY <1>1, <1>4, Z3
  <2>2. 0 <= h * hour /\ h * hour <= 23 * h
    BY <1>1, <1>4, Z3
  <2>3. (24 * h) * d \in Int /\ h * hour \in Int
    BY <1>1, <1>4, Z3
  <2> QED
    BY <1>1, <1>2, <1>4, <1>5, <2>1, <2>2, <2>3, Z3
<1>7. rtc \div (24 * h) = d
  BY <1>4, <1>6, DivIs
<1> QED
  BY <1>3, <1>4, <1>5, <1>7 DEF Moment, h

\* And a time that lies in them shows them.
LEMMA LiesIn ==
  ASSUME NEW rtc \in Int, NEW day \in Int, NEW hour \in 0..23,
         Moment(day, hour) <= rtc, rtc < Moment(day, hour) + HourLen
  PROVE  HourOf(rtc) = hour /\ rtc \div (24 * HourLen) = day
<1> DEFINE h == HourLen
           d == rtc \div (24 * h)
           shown == HourOf(rtc)
<1>1. h \in Int /\ h > 0
  BY UnitsAssumption
<1>2. /\ d \in Int /\ shown \in 0..23
      /\ Moment(d, shown) <= rtc /\ rtc < Moment(d, shown) + h
  BY ShownBy
<1> HIDE DEF h, d, shown
<1>3. 24 * d + shown \in Int /\ 24 * day + hour \in Int
  BY <1>2
<1>4. /\ h * (24 * d + shown) <= rtc
      /\ rtc < h * (24 * d + shown) + h
      /\ h * (24 * day + hour) <= rtc
      /\ rtc < h * (24 * day + hour) + h
  BY <1>2 DEF Moment, h
<1>5. 24 * d + shown = 24 * day + hour
  BY <1>1, <1>3, <1>4, DivUnique
<1>6. d = day /\ shown = hour
  BY <1>2, <1>5
<1> QED
  BY <1>6 DEF d, shown, h

LEMMA LaterDay ==
  ASSUME NEW day \in Int, NEW later \in Int, day < later
  PROVE  Moment(later, 0) >= Moment(day, 0) + 24 * HourLen
<1> DEFINE h == HourLen
<1>1. h \in Int /\ h > 0
  BY UnitsAssumption
<1> HIDE DEF h
<1>2. h * (24 * later + 0) = h * (24 * day + 0) + 24 * (h * (later - day))
  BY <1>1, Z3
<1>3. h * (later - day) >= h
  BY <1>1, Z3
<1> QED
  BY <1>1, <1>2, <1>3, Z3 DEF Moment, h

-----------------------------------------------------------------------------
(* The daily resync.                                                        *)

\* The number kept is that of a day in whose fourth hour, by an RTC that was
\* right but for an hour, the last resync was.
ResyncInv ==
  resynced_at # Never =>
    /\ time_synced
    /\ {resynced_at} \subseteq Int
    /\ resynced_at <= utc
    /\ \E day \in Int : /\ last_ntp_day = YearDay(day)
                        /\ Moment(day, 3) <= resynced_at + HourLen
                        /\ resynced_at < Moment(day, 3) + HourLen

\* What a resync with the RTC set before means.
LEMMA ResyncDay ==
  ASSUME Inv, SyncedInv, Pass, time_synced, ResyncSucceeds(utc' + ahead)
  PROVE  \E day \in Int : /\ last_ntp_day' = YearDay(day)
                          /\ last_ntp_day # YearDay(day)
                          /\ Moment(day, 3) <= utc' + HourLen
                          /\ utc' < Moment(day, 3) + HourLen
<1> DEFINE t == utc'
           rtc == t + ahead
           day == rtc \div (24 * HourLen)
<1>1. t \in Int /\ ahead \in {0, HourLen}
  BY PassClock DEF SyncedInv
<1>2. rtc \in Int
  BY <1>1, UnitsAssumption
<1>3. HourOf(rtc) = 3
  BY Zenon DEF ResyncSucceeds, ResyncDue, NtpSyncHour
<1>4. last_ntp_day' = YearDay(day) /\ last_ntp_day # YearDay(day)
  BY Zenon DEF ResyncSucceeds, ResyncDue, NotToday, YearDayOf
<1> HIDE DEF rtc
<1>5. day \in Int /\ Moment(day, 3) <= rtc /\ rtc < Moment(day, 3) + HourLen
  BY <1>2, <1>3, ShownBy
<1> HIDE DEF t, day
<1>6. Moment(day, 3) <= t + HourLen /\ t < Moment(day, 3) + HourLen
  <2>1. Moment(day, 3) \in Int
    BY <1>5, Moments
  <2> QED
    BY <1>1, <1>5, <2>1, UnitsAssumption DEF rtc
<1> QED
  BY <1>4, <1>5, <1>6, Zenon DEF t

LEMMA ResyncHolds == Spec => []ResyncInv
<1>1. Init => ResyncInv
  BY Zenon DEF Init, ResyncInv
<1>2. Inv /\ SyncedInv /\ ResyncInv /\ [Next]_vars => ResyncInv'
  <2> SUFFICES ASSUME Inv, SyncedInv, ResyncInv, [Next]_vars
               PROVE  ResyncInv'
    OBVIOUS
  <2>1. CASE Boot
    BY <2>1, Zenon DEF Boot, ResyncInv
  <2>2. CASE Pass
    <3> DEFINE t == utc'
    <3>1. {utc, t} \subseteq Int /\ utc <= t /\ t <= t
      BY <2>2, PassClock
    <3>2. CASE ResyncSucceeds(t + ahead) /\ time_synced
      <4>1. resynced_at' = t /\ time_synced'
        BY <3>2, Zenon DEF ResyncSucceeds
      <4>2. {resynced_at'} \subseteq Int /\ resynced_at' <= t
        BY <3>1, <4>1
      <4>3. PICK day \in Int : /\ last_ntp_day' = YearDay(day)
                               /\ Moment(day, 3) <= t + HourLen
                               /\ t < Moment(day, 3) + HourLen
        BY <2>2, <3>2, ResyncDay
      <4>4. /\ last_ntp_day' = YearDay(day)
            /\ Moment(day, 3) <= resynced_at' + HourLen
            /\ resynced_at' < Moment(day, 3) + HourLen
        BY <4>1, <4>3, Zenon
      <4> QED
        BY <4>1, <4>2, <4>4 DEF ResyncInv
    <3>3. CASE ResyncSucceeds(t + ahead) /\ ~time_synced
      <4>1. resynced_at' = Never
        BY <3>3, Zenon DEF ResyncSucceeds
      <4> QED
        BY <4>1, Zenon DEF ResyncInv
    <3>4. CASE ResyncFails(t + ahead) \/ NoResync(t + ahead)
      <4>1. /\ resynced_at' = resynced_at
            /\ last_ntp_day' = last_ntp_day
            /\ time_synced' = time_synced
        BY <3>4, Zenon DEF ResyncFails, NoResync
      <4>2. resynced_at # Never => resynced_at <= t
        <5> SUFFICES ASSUME resynced_at # Never PROVE resynced_at <= t
          OBVIOUS
        <5>1. {resynced_at} \subseteq Int /\ resynced_at <= utc
          BY Zenon DEF ResyncInv
        <5> HIDE DEF t
        <5> QED
          BY <3>1, <5>1
      <4> QED
        BY <4>1, <4>2 DEF ResyncInv
    <3> QED
      BY <2>2, <3>2, <3>3, <3>4, Zenon DEF Pass
  <2>3. CASE WaterMoves \/ RequestRun \/ UNCHANGED vars
    <3>1. UNCHANGED utc /\ UNCHANGED clock /\ UNCHANGED clockHistory
      BY <2>3, Zenon DEF WaterMoves, RequestRun, vars
    <3> QED
      BY <3>1 DEF clock, clockHistory, ResyncInv
  <2> QED
    BY <2>1, <2>2, <2>3 DEF Next
<1> QED
  BY <1>1, <1>2, InvHolds, SyncedHolds, PTL DEF Spec

\* Two resyncs are nearly a day apart, also when the hour of the resync comes
\* twice and when the clock has just been set back or on.
THEOREM ResyncOnceHolds == Spec => ResyncOnce
<1>1. Inv /\ SyncedInv /\ ResyncInv /\ [Next]_vars =>
        (resynced_at' # resynced_at /\ resynced_at # Never /\ resynced_at' # Never =>
           resynced_at' - resynced_at >= 22 * HourLen)
  <2> SUFFICES ASSUME Inv, SyncedInv, ResyncInv, [Next]_vars,
                      resynced_at' # resynced_at, resynced_at # Never,
                      resynced_at' # Never
               PROVE  resynced_at' - resynced_at >= 22 * HourLen
    OBVIOUS
  <2> DEFINE t == utc'
             r == resynced_at
  <2>1. Pass /\ ResyncSucceeds(t + ahead)
    BY Zenon DEF Next, Boot, WaterMoves, RequestRun, Pass, ResyncFails, NoResync,
       vars, clockHistory
  <2>2. time_synced /\ {r} \subseteq Int /\ r <= utc
    BY Zenon DEF ResyncInv
  <2>3. PICK day \in Int : /\ last_ntp_day = YearDay(day)
                           /\ Moment(day, 3) <= r + HourLen
                           /\ r < Moment(day, 3) + HourLen
    BY Zenon DEF ResyncInv
  <2>4. PICK today \in Int : /\ last_ntp_day # YearDay(today)
                             /\ Moment(today, 3) <= t + HourLen
                             /\ t < Moment(today, 3) + HourLen
    BY <2>1, <2>2, ResyncDay
  <2>5. today # day
    BY <2>3, <2>4
  <2>6. {utc, t} \subseteq Int /\ utc <= t
    BY <2>1, PassClock
  <2>7. resynced_at' = t
    BY <2>1, <2>2, Zenon DEF ResyncSucceeds
  <2>8. /\ {Moment(day, 0), Moment(today, 0)} \subseteq Int
        /\ Moment(day, 3) = Moment(day, 0) + HourLen * 3
        /\ Moment(today, 3) = Moment(today, 0) + HourLen * 3
    BY Moments
  <2>9. t - r >= 22 * HourLen
    <3> HIDE DEF t
    <3>1. CASE day < today
      <4>1. Moment(today, 0) >= Moment(day, 0) + 24 * HourLen
        BY <3>1, LaterDay
      <4> QED
        BY <2>2, <2>3, <2>4, <2>6, <2>8, <4>1, UnitsAssumption
    <3>2. CASE today < day
      <4>1. Moment(day, 0) >= Moment(today, 0) + 24 * HourLen
        BY <3>2, LaterDay
      <4> QED
        BY <2>2, <2>3, <2>4, <2>6, <2>8, <4>1, UnitsAssumption
    <3> QED
      BY <2>5, <3>1, <3>2
  <2> QED
    BY <2>7, <2>9
<1> QED
  BY <1>1, InvHolds, SyncedHolds, ResyncHolds, PTL DEF Spec, ResyncOnce

-----------------------------------------------------------------------------
(* A clock that is wrong.                                                   *)

\* No pass takes an hour, so that none passes over the hour of the resync.
ShortPasses == LongestPass <= HourLen

\* The resync of that day is still to come, or is left out since its day is
\* taken for done, and that of the next day is to come.
Awaited(day) ==
  \/ utc + ahead < Moment(day, 3)
  \/ last_ntp_day = YearDay(day) /\ utc + ahead < Moment(day + 1, 3)

Calm == failed_at = Never \/ failed_at < wrong_since

\* It became wrong in the hours before the resync of a day that is awaited.
WrongByLaw ==
  \E day \in Nat :
    /\ Moment(day, 1) <= wrong_since + ahead
    /\ wrong_since + ahead < Moment(day, 3)
    /\ Awaited(day)

\* It was left wrong by an attempt, at boot or in the hour of the resync, of
\* the day before the one that is awaited.
WrongByFailure ==
  \E day \in Nat :
    /\ Moment(day, 3) <= failed_at + ahead + 24 * HourLen
    /\ failed_at + ahead < Moment(day, 3)
    /\ \/ last_ntp_day = Never
       \/ failed_at + ahead + 24 * HourLen < Moment(day, 3) + HourLen
    /\ Awaited(day)

WrongInv ==
  /\ wrong_since = Never => UkRight(utc, ahead)
  /\ wrong_since # Never => {wrong_since} \subseteq Int /\ wrong_since <= utc
  /\ failed_at # Never => {failed_at} \subseteq Int /\ failed_at <= utc
  /\ wrong_since # Never /\ Calm => WrongByLaw
  /\ wrong_since # Never /\ ~Calm => WrongByFailure

\* What sync_time adds is right.
LEMMA OffsetRight ==
  ASSUME NEW time \in Nat
  PROVE  UkRight(time, UkOffset(time))
<1>1. (time \div HourLen) \in Nat
  BY UnitsAssumption
<1>2. UkDstOffset(time \div HourLen) = LegalOffset(time \div HourLen)
  BY <1>1, OffsetLegal
<1> QED
  BY <1>2, Zenon DEF UkRight, UkOffset

\* The day of an awaited resync, after a failure at that time of the RTC.
LEMMA NextAttempt ==
  ASSUME NEW rtc \in Nat
  PROVE  \E day \in Nat : /\ Moment(day, 3) <= rtc + 24 * HourLen
                          /\ rtc < Moment(day, 3)
<1> DEFINE h == HourLen
           later == rtc + 21 * h
           day == later \div (24 * h)
<1>1. h \in Int /\ h > 0
  BY UnitsAssumption
<1>2. later \in Int /\ later >= 0
  BY <1>1
<1>3. day \in Int /\ Moment(day, HourOf(later)) <= later
        /\ later < Moment(day, HourOf(later)) + h
        /\ HourOf(later) \in 0..23
  BY <1>2, ShownBy
<1> DEFINE hour == HourOf(later)
<1>4. /\ Moment(day, hour) = Moment(day, 0) + h * hour
      /\ Moment(day, 3) = Moment(day, 0) + h * 3
      /\ Moment(day, 0) \in Int
  <2>1. day \in Int /\ hour \in Int
    BY <1>3
  <2> HIDE DEF day, hour
  <2> QED
    BY <2>1, Moments DEF h
<1>5. 0 <= h * hour /\ h * hour <= 23 * h /\ h * hour \in Int
  <2>1. hour \in 0..23
    BY <1>3
  <2> HIDE DEF h, hour
  <2> QED
    BY <1>1, <2>1, Z3
<1>6. day >= 0
  <2>1. 24 * h \in Int /\ 24 * h > 0
    BY <1>1
  <2>2. later \div (24 * h) >= 0
    <3> HIDE DEF later
    <3> DEFINE p == 24 * h
    <3> HIDE DEF p
    <3>1. p > 0 /\ p \in Int
      BY <2>1 DEF p
    <3>2. later \div p >= 0
      BY <1>2, <3>1, Z3
    <3> QED
      BY <3>2 DEF p
  <2> QED
    BY <2>2
<1> DEFINE m == Moment(day, 0)
           k == h * hour
           f == Moment(day, 3)
<1>7. m + k <= later /\ later < m + k + h /\ f = m + h * 3
  BY <1>3, <1>4
<1>8. m \in Int /\ k \in Int /\ 0 <= k /\ k <= 23 * h
  BY <1>4, <1>5
<1> HIDE DEF m, k, f, day, hour
<1>9. later = rtc + 21 * h
  OBVIOUS
<1> HIDE DEF later, h
<1>10. f <= rtc + 24 * h /\ rtc < f
  BY <1>1, <1>7, <1>8, <1>9
<1>11. day \in Nat
  BY <1>3, <1>6
<1> QED
  BY <1>10, <1>11 DEF f, h

\* The law has just changed the offset of an RTC that was right: it is before
\* three o'clock by the RTC.
LEMMA LawChanges ==
  ASSUME Inv, ShortPasses, Pass, ahead' = ahead,
         UkRight(utc, ahead), ~UkRight(utc', ahead)
  PROVE  /\ utc < utc'
         /\ \E day \in Nat : /\ Moment(day, 1) <= utc' + ahead
                             /\ utc' + ahead < Moment(day, 3)
<1> DEFINE t == utc'
           h == HourLen
           hours == utc \div h
           later == t \div h
<1>1. h \in Int /\ h > 0
  BY UnitsAssumption
<1>2. {utc, t} \subseteq Int /\ utc <= t /\ t <= utc + h /\ utc >= 0
  <2>1. {utc, t} \subseteq Int /\ utc <= t /\ t <= utc + LongestPass
    BY PassClock
  <2>2. LongestPass \in Int /\ LongestPass <= h /\ utc >= 0
    BY UnitsAssumption DEF ShortPasses, Inv, ClockInv
  <2> HIDE DEF t, h
  <2> QED
    BY <1>1, <2>1, <2>2
<1>3. /\ hours \in Int /\ h * hours <= utc /\ utc < h * hours + h
      /\ later \in Int /\ h * later <= t /\ t < h * later + h
  <2> HIDE DEF t, h
  <2> QED
    BY <1>1, <1>2, DivBounds
<1>4. /\ ahead = h * LegalOffset(hours)
      /\ ahead # h * LegalOffset(later)
  BY Zenon DEF UkRight
<1>5. LegalOffset(later) # LegalOffset(hours)
  BY <1>4
<1>6. LegalOffset(hours) \in {0, 1}
  BY Zenon DEF LegalOffset
<1>7. ahead \in {0, h}
  BY <1>1, <1>4, <1>6
<1> HIDE DEF t, hours, later, h
<1>8. hours >= 0 /\ hours <= later /\ later <= hours + 1
  <2>1. hours >= 0
    BY <1>1, <1>2, <1>3, Z3
  <2>2. hours <= later
    <3>1. CASE later < hours
      <4>1. h * later <= h * (hours - 1)
        BY <1>1, <1>3, <3>1, Z3
      <4>2. h * (hours - 1) = h * hours - h
        BY <1>1, <1>3, Z3
      <4>3. h * later \in Int /\ h * hours \in Int
        BY <1>1, <1>3, Z3
      <4>4. h * later + h <= h * hours
        BY <1>1, <4>1, <4>2, <4>3
      <4> QED
        BY <1>1, <1>2, <1>3, <4>3, <4>4
    <3> QED
      BY <1>3, <3>1
  <2>3. later <= hours + 1
    <3>1. CASE hours + 1 < later
      <4>1. h * (hours + 2) <= h * later
        BY <1>1, <1>3, <3>1, Z3
      <4>2. h * (hours + 2) = h * hours + 2 * h
        BY <1>1, <1>3, Z3
      <4>3. h * later \in Int /\ h * hours \in Int
        BY <1>1, <1>3, Z3
      <4>4. h * hours + 2 * h <= h * later
        BY <4>1, <4>2
      <4> QED
        BY <1>1, <1>2, <1>3, <4>3, <4>4
    <3> QED
      BY <1>3, <3>1
  <2> QED
    BY <2>1, <2>2, <2>3
<1>9. later = hours + 1
  BY <1>3, <1>5, <1>8
<1>10. (hours + 1) % 24 = 1
  BY <1>3, <1>5, <1>8, <1>9, ChangesAtOne
<1> DEFINE day == later \div 24
<1>11. day \in Nat /\ later = 24 * day + 1
  BY <1>3, <1>8, <1>9, <1>10
<1> HIDE DEF day
<1>12. h * (24 * day + 1) <= t /\ t < h * (24 * day + 1) + h
  BY <1>3, <1>11
<1>13. Moment(day, 1) <= t /\ t < Moment(day, 1) + h
  BY <1>12 DEF Moment, h
<1>14. /\ Moment(day, 1) = Moment(day, 0) + h * 1
       /\ Moment(day, 3) = Moment(day, 0) + h * 3
       /\ {Moment(day, 0), Moment(day, 1), Moment(day, 3)} \subseteq Int
  BY <1>11, Moments DEF h
<1>15. Moment(day, 1) <= t + ahead /\ t + ahead < Moment(day, 3)
  BY <1>1, <1>2, <1>7, <1>13, <1>14
<1>16. utc < t
  <2>1. CASE utc = t
    BY <1>9, <1>3, <2>1 DEF hours, later
  <2> QED
    BY <1>2, <2>1
<1> QED
  BY <1>11, <1>15, <1>16 DEF t

\* A pass without a resync is before the one awaited.
LEMMA StillAwaited ==
  ASSUME Inv, ShortPasses, Pass, NoResync(utc' + ahead),
         NEW day \in Nat, Awaited(day)
  PROVE  \/ utc' + ahead < Moment(day, 3)
         \/ last_ntp_day = YearDay(day) /\ utc' + ahead < Moment(day + 1, 3)
<1> DEFINE t == utc'
           rtc == t + ahead
           h == HourLen
           first == Moment(day, 3)
           second == Moment(day + 1, 3)
<1>1. h \in Int /\ h > 0
  BY UnitsAssumption
<1>2. {utc, t, ahead} \subseteq Int /\ utc <= t /\ t <= utc + h
  <2>1. {utc, t, ahead} \subseteq Int /\ utc <= t /\ t <= utc + LongestPass
    BY PassClock
  <2>2. LongestPass \in Int /\ LongestPass <= h
    BY UnitsAssumption DEF ShortPasses
  <2> HIDE DEF t, h
  <2> QED
    BY <1>1, <2>1, <2>2
<1>3. rtc \in Int /\ {first, second} \subseteq Int
  <2>1. first \in Int /\ second \in Int
    BY Moments
  <2> HIDE DEF t, first, second
  <2> QED
    BY <1>2, <2>1
<1>4. HourOf(rtc) = 3 => last_ntp_day = YearDay(rtc \div (24 * h))
  BY Zenon DEF NoResync, ResyncDue, NtpSyncHour, NotToday, YearDayOf
<1>5. first <= rtc /\ rtc < first + h => last_ntp_day = YearDay(day)
  <2> HIDE DEF rtc
  <2> QED
    BY <1>3, <1>4, LiesIn
<1>6. ~(second <= rtc /\ rtc < second + h /\ last_ntp_day = YearDay(day))
  <2>1. second <= rtc /\ rtc < second + h => last_ntp_day = YearDay(day + 1)
    <3> HIDE DEF rtc
    <3> QED
      BY <1>3, <1>4, LiesIn
  <2> QED
    BY <2>1, DaysDiffer
<1>7. first + h <= second
  <2>1. /\ first = Moment(day, 0) + h * 3
        /\ second = Moment(day + 1, 0) + h * 3
        /\ Moment(day + 1, 0) = Moment(day, 0) + 24 * h
        /\ Moment(day, 0) \in Int
    BY Moments
  <2> HIDE DEF first, second, h
  <2> QED
    BY <1>1, <2>1
<1>8. CASE utc + ahead < first
  <2>1. rtc < first + h
    <3> HIDE DEF t, h, first
    <3> QED
      BY <1>1, <1>2, <1>3, <1>8
  <2>2. CASE rtc < first
    BY <2>2
  <2>3. CASE first <= rtc
    <3>1. last_ntp_day = YearDay(day)
      BY <1>5, <2>1, <2>3, Zenon
    <3>2. rtc < second
      <4> HIDE DEF rtc, first, second, h
      <4> QED
        BY <1>1, <1>3, <1>7, <2>1
    <3> QED
      BY <3>1, <3>2, Zenon
  <2>4. rtc < first \/ first <= rtc
    <3> HIDE DEF rtc, first
    <3> QED
      BY <1>3
  <2> QED
    BY <2>2, <2>3, <2>4, Zenon
<1>9. CASE last_ntp_day = YearDay(day) /\ utc + ahead < second
  <2>1. rtc < second + h
    <3> HIDE DEF t, h, second
    <3> QED
      BY <1>1, <1>2, <1>3, <1>9
  <2>2. ~(second <= rtc)
    BY <1>6, <1>9, <2>1, Zenon
  <2>3. rtc < second
    <3> HIDE DEF rtc, second
    <3> QED
      BY <1>3, <2>2
  <2> QED
    BY <1>9, <2>3, Zenon
<1> QED
  BY <1>8, <1>9, Zenon DEF Awaited

LEMMA WrongPass ==
  ASSUME Inv, Inv', ShortPasses, WrongInv, Pass
  PROVE  WrongInv'
<1> DEFINE t == utc'
           rtc == t + ahead
<1> USE UnitsAssumption
<1>1. {utc, t, ahead} \subseteq Int /\ utc <= t /\ t >= 0 /\ t \in Nat
  BY PassClock DEF Inv, ClockInv
<1>2. rtc \in Nat
  <2>1. utc + ahead >= 0
    BY DEF Inv, ClockInv
  <2> HIDE DEF t
  <2> QED
    BY <1>1, <2>1
<1>3. /\ UkRight(t, ahead') => wrong_since' = Never
      /\ ~UkRight(t, ahead') => wrong_since' = IF wrong_since = Never THEN t ELSE wrong_since
  BY Zenon DEF Pass, Noted
<1>4. t # Never /\ utc # Never
  BY <1>1
<1>5. wrong_since' # Never => {wrong_since'} \subseteq Int /\ wrong_since' <= t
  <2>1. wrong_since # Never => {wrong_since} \subseteq Int /\ wrong_since <= t
    <3> SUFFICES ASSUME wrong_since # Never
                 PROVE  {wrong_since} \subseteq Int /\ wrong_since <= t
      OBVIOUS
    <3>1. {wrong_since} \subseteq Int /\ wrong_since <= utc
      BY Zenon DEF WrongInv
    <3> HIDE DEF t
    <3> QED
      BY <1>1, <3>1
  <2>2. {t} \subseteq Int /\ t <= t
    BY <1>1
  <2> QED
    BY <1>3, <2>1, <2>2, Zenon
<1>6. failed_at # Never => {failed_at} \subseteq Int /\ failed_at <= t
  <2> SUFFICES ASSUME failed_at # Never
               PROVE  {failed_at} \subseteq Int /\ failed_at <= t
    OBVIOUS
  <2>1. {failed_at} \subseteq Int /\ failed_at <= utc
    BY Zenon DEF WrongInv
  <2> HIDE DEF t
  <2> QED
    BY <1>1, <2>1
<1>7. wrong_since' = Never => UkRight(utc', ahead')
  BY <1>3, <1>4, Zenon
<1>8. CASE ResyncSucceeds(rtc)
  <2>1. ahead' = UkOffset(t) /\ failed_at' = failed_at
    BY <1>8, Zenon DEF ResyncSucceeds
  <2>2. UkRight(t, ahead')
    BY <1>1, <2>1, OffsetRight
  <2>3. wrong_since' = Never
    BY <1>3, <2>2
  <2> QED
    BY <1>6, <2>1, <2>2, <2>3, Zenon DEF WrongInv, UkRight
<1>9. CASE ResyncFails(rtc)
  <2>1. /\ failed_at' = t /\ ahead' = ahead /\ last_ntp_day' = last_ntp_day
        /\ HourOf(rtc) = 3
    BY <1>9, Zenon DEF ResyncFails, ResyncDue, NtpSyncHour
  <2>2. {failed_at'} \subseteq Int /\ failed_at' <= t
    BY <1>1, <2>1
  <2>3. wrong_since' # Never => ~Calm'
    <3> SUFFICES ASSUME wrong_since' # Never PROVE ~Calm'
      OBVIOUS
    <3>1. ~(t < wrong_since')
      <4>1. {wrong_since'} \subseteq Int /\ wrong_since' <= t
        BY <1>5
      <4>2. PICK w \in Int : w = wrong_since'
        BY <4>1
      <4> HIDE DEF t
      <4> QED
        BY <1>1, <4>1, <4>2
    <3> QED
      BY <1>4, <2>1, <3>1, Zenon DEF Calm
  <2> DEFINE today == rtc \div (24 * HourLen)
             day == today + 1
  <2>4. day \in Nat /\ Moment(day, 3) <= rtc + 24 * HourLen
          /\ rtc < Moment(day, 3)
          /\ rtc + 24 * HourLen < Moment(day, 3) + HourLen
    <3> HIDE DEF rtc
    <3>1. today \in Int /\ Moment(today, 3) <= rtc
            /\ rtc < Moment(today, 3) + HourLen
      BY <1>2, <2>1, ShownBy
    <3>2. today >= 0
      <4> DEFINE p == 24 * HourLen
      <4>1. p \in Int /\ p > 0
        OBVIOUS
      <4> HIDE DEF p
      <4>2. rtc \div p >= 0
        BY <1>2, <4>1, Z3
      <4> QED
        BY <4>2 DEF p
    <3> HIDE DEF today
    <3>3. /\ Moment(day, 3) = Moment(today, 3) + 24 * HourLen
          /\ Moment(today, 3) \in Int
      <4>1. /\ Moment(today, 3) = Moment(today, 0) + HourLen * 3
            /\ {Moment(today, 0), Moment(today, 3)} \subseteq Int
        BY <3>1, Moments
      <4>2. Moment(day, 3) = Moment(day, 0) + HourLen * 3
        BY <3>1, Moments DEF day
      <4>3. Moment(day, 0) = Moment(today, 0) + 24 * HourLen
        BY <3>1, Moments DEF day
      <4> HIDE DEF day
      <4> QED
        BY <4>1, <4>2, <4>3
    <3>4. day \in Nat
      BY <3>1, <3>2
    <3> HIDE DEF day
    <3> QED
      BY <1>2, <3>1, <3>3, <3>4
  <2>5. PICK next \in Nat : next = day
    BY <2>4
  <2>6. /\ Moment(next, 3) <= failed_at' + ahead' + 24 * HourLen
        /\ failed_at' + ahead' < Moment(next, 3)
        /\ failed_at' + ahead' + 24 * HourLen < Moment(next, 3) + HourLen
        /\ utc' + ahead' < Moment(next, 3)
    BY <2>1, <2>4, <2>5, Zenon
  <2>7. WrongByFailure'
    BY <2>6 DEF WrongByFailure, Awaited
  <2> QED
    BY <1>5, <1>7, <2>2, <2>3, <2>7, Zenon DEF WrongInv
<1>10. CASE NoResync(rtc)
  <2>1. /\ failed_at' = failed_at /\ ahead' = ahead
        /\ last_ntp_day' = last_ntp_day
    BY <1>10, Zenon DEF NoResync
  <2>2. CASE wrong_since' = Never
    BY <1>6, <1>7, <2>1, <2>2, Zenon DEF WrongInv
  <2>3. CASE wrong_since' # Never /\ wrong_since = Never
    <3>1. UkRight(utc, ahead) /\ ~UkRight(t, ahead) /\ wrong_since' = t
      BY <1>3, <2>1, <2>3, Zenon DEF WrongInv
    <3>2. utc < t
      BY <2>1, <3>1, LawChanges
    <3>3. PICK day \in Nat : Moment(day, 1) <= t + ahead /\ t + ahead < Moment(day, 3)
      BY <2>1, <3>1, LawChanges
    <3>4. Calm'
      <4>1. failed_at # Never => failed_at < t
        <5> SUFFICES ASSUME failed_at # Never PROVE failed_at < t
          OBVIOUS
        <5>1. {failed_at} \subseteq Int /\ failed_at <= utc
          BY Zenon DEF WrongInv
        <5> HIDE DEF t
        <5> QED
          BY <1>1, <3>2, <5>1
      <4> QED
        BY <2>1, <3>1, <4>1, Zenon DEF Calm
    <3>5. WrongByLaw'
      <4>1. /\ Moment(day, 1) <= wrong_since' + ahead'
            /\ wrong_since' + ahead' < Moment(day, 3)
            /\ utc' + ahead' < Moment(day, 3)
        BY <2>1, <3>1, <3>3, Zenon
      <4> QED
        BY <4>1 DEF WrongByLaw, Awaited
    <3> QED
      BY <1>5, <1>6, <1>7, <2>1, <3>4, <3>5, Zenon DEF WrongInv
  <2>4. CASE wrong_since' # Never /\ wrong_since # Never
    <3>1. wrong_since' = wrong_since
      BY <1>3, <2>4, Zenon
    <3>2. Calm' <=> Calm
      BY <2>1, <3>1, Zenon DEF Calm
    <3>3. Calm => WrongByLaw'
      <4> SUFFICES ASSUME Calm PROVE WrongByLaw'
        OBVIOUS
      <4>1. PICK day \in Nat : /\ Moment(day, 1) <= wrong_since + ahead
                               /\ wrong_since + ahead < Moment(day, 3)
                               /\ Awaited(day)
        BY <2>4, Zenon DEF WrongInv, WrongByLaw
      <4>2. \/ t + ahead < Moment(day, 3)
            \/ last_ntp_day = YearDay(day) /\ t + ahead < Moment(day + 1, 3)
        BY <1>10, <4>1, StillAwaited
      <4>3. /\ Moment(day, 1) <= wrong_since' + ahead'
            /\ wrong_since' + ahead' < Moment(day, 3)
            /\ \/ utc' + ahead' < Moment(day, 3)
               \/ last_ntp_day' = YearDay(day) /\ utc' + ahead' < Moment(day + 1, 3)
        BY <2>1, <3>1, <4>1, <4>2, Zenon
      <4> QED
        BY <4>3 DEF WrongByLaw, Awaited
    <3>4. ~Calm => WrongByFailure'
      <4> SUFFICES ASSUME ~Calm PROVE WrongByFailure'
        OBVIOUS
      <4>1. PICK day \in Nat :
              /\ Moment(day, 3) <= failed_at + ahead + 24 * HourLen
              /\ failed_at + ahead < Moment(day, 3)
              /\ \/ last_ntp_day = Never
                 \/ failed_at + ahead + 24 * HourLen < Moment(day, 3) + HourLen
              /\ Awaited(day)
        BY <2>4, Zenon DEF WrongInv, WrongByFailure
      <4>2. \/ t + ahead < Moment(day, 3)
            \/ last_ntp_day = YearDay(day) /\ t + ahead < Moment(day + 1, 3)
        BY <1>10, <4>1, StillAwaited
      <4>3. /\ Moment(day, 3) <= failed_at' + ahead' + 24 * HourLen
            /\ failed_at' + ahead' < Moment(day, 3)
            /\ \/ last_ntp_day' = Never
               \/ failed_at' + ahead' + 24 * HourLen < Moment(day, 3) + HourLen
            /\ \/ utc' + ahead' < Moment(day, 3)
               \/ last_ntp_day' = YearDay(day) /\ utc' + ahead' < Moment(day + 1, 3)
        BY <2>1, <4>1, <4>2, Zenon
      <4> QED
        BY <4>3 DEF WrongByFailure, Awaited
    <3> QED
      BY <1>5, <1>6, <1>7, <2>1, <3>2, <3>3, <3>4, Zenon DEF WrongInv
  <2> QED
    BY <2>2, <2>3, <2>4
<1> QED
  BY <1>8, <1>9, <1>10, Zenon DEF Pass

\* A failure leaves the RTC, as it then is, to the next resync.
LEMMA WrongFrom ==
  ASSUME NEW time \in Nat, NEW offset \in Int, time + offset >= 0
  PROVE  \E day \in Nat : /\ Moment(day, 3) <= time + offset + 24 * HourLen
                          /\ time + offset < Moment(day, 3)
<1>1. PICK rtc \in Nat : rtc = time + offset
  OBVIOUS
<1>2. PICK day \in Nat : /\ Moment(day, 3) <= rtc + 24 * HourLen
                         /\ rtc < Moment(day, 3)
  BY NextAttempt
<1> QED
  BY <1>1, <1>2

LEMMA WrongHolds ==
  ASSUME ShortPasses
  PROVE  Spec => []WrongInv
<1> USE UnitsAssumption
<1>1. Init => WrongInv
  <2> SUFFICES ASSUME Init PROVE WrongInv
    OBVIOUS
  <2>1. utc \in Nat /\ {ahead} \subseteq Int /\ utc + ahead >= 0
    BY InitInv DEF Inv, ClockInv
  <2>2. utc # Never /\ {utc} \subseteq Int /\ utc <= utc
    BY <2>1
  <2>3. CASE time_synced
    <3>1. wrong_since = Never /\ failed_at = Never /\ ahead = UkOffset(utc)
      BY <2>3, Zenon DEF Init
    <3>2. UkRight(utc, ahead)
      BY <2>1, <3>1, OffsetRight
    <3> QED
      BY <3>1, <3>2, Zenon DEF WrongInv
  <2>4. CASE ~time_synced
    <3>1. wrong_since = utc /\ failed_at = utc /\ last_ntp_day = Never
      BY <2>4, Zenon DEF Init
    <3>2. ~Calm
      BY <2>1, <2>2, <3>1 DEF Calm
    <3>3. \E day \in Nat : /\ Moment(day, 3) <= utc + ahead + 24 * HourLen
                           /\ utc + ahead < Moment(day, 3)
      BY <2>1, WrongFrom
    <3>4. WrongByFailure
      BY <3>1, <3>3, Zenon DEF WrongByFailure, Awaited
    <3> QED
      BY <2>2, <3>1, <3>2, <3>4, Zenon DEF WrongInv
  <2> QED
    BY <2>3, <2>4
<1>2. WrongInv /\ Inv /\ Inv' /\ [Next]_vars => WrongInv'
  <2> SUFFICES ASSUME WrongInv, Inv, Inv', [Next]_vars PROVE WrongInv'
    OBVIOUS
  <2>1. CASE Boot
    <3> DEFINE offset == ahead'
    <3>1. /\ utc' = utc /\ last_ntp_day' = Never
          /\ \/ offset = UkOffset(utc) /\ failed_at' = failed_at
             \/ failed_at' = utc
          /\ UkRight(utc', offset) => wrong_since' = Never
          /\ ~UkRight(utc', offset) =>
               wrong_since' = IF wrong_since = Never THEN utc' ELSE wrong_since
      BY <2>1, Zenon DEF Boot, Noted
    <3>2. utc \in Nat /\ utc' \in Nat /\ {offset} \subseteq Int
            /\ utc' + offset >= 0
      BY <3>1 DEF Inv, ClockInv
    <3>3. utc # Never /\ {utc} \subseteq Int /\ utc <= utc
      BY <3>2
    <3>4. wrong_since' = Never => UkRight(utc', ahead')
      BY <3>1, <3>3, Zenon
    <3>5. wrong_since' # Never => {wrong_since'} \subseteq Int /\ wrong_since' <= utc
      BY <3>1, <3>3, Zenon DEF WrongInv
    <3>6. CASE offset = UkOffset(utc) /\ failed_at' = failed_at
      <4>1. UkRight(utc, offset)
        BY <3>2, <3>6, OffsetRight
      <4>2. wrong_since' = Never
        BY <3>1, <4>1, Zenon
      <4> QED
        BY <3>1, <3>4, <3>6, <4>2, Zenon DEF WrongInv
    <3>7. CASE failed_at' = utc
      <4>1. wrong_since' # Never => ~Calm'
        <5> SUFFICES ASSUME wrong_since' # Never PROVE ~Calm'
          OBVIOUS
        <5>1. PICK w \in Int : w = wrong_since' /\ w <= utc
          BY <3>5
        <5>2. ~(utc < wrong_since')
          BY <3>2, <5>1
        <5> QED
          BY <3>3, <3>7, <5>2, Zenon DEF Calm
      <4>2. PICK day \in Nat : /\ Moment(day, 3) <= utc + offset + 24 * HourLen
                               /\ utc + offset < Moment(day, 3)
        <5>1. PICK a \in Int : a = offset
          BY <3>2
        <5>2. utc + a >= 0
          BY <3>1, <3>2, <5>1
        <5>3. PICK day \in Nat : /\ Moment(day, 3) <= utc + a + 24 * HourLen
                                 /\ utc + a < Moment(day, 3)
          BY <3>2, <5>2, WrongFrom
        <5> QED
          BY <5>1, <5>3
      <4>3. /\ Moment(day, 3) <= failed_at' + ahead' + 24 * HourLen
            /\ failed_at' + ahead' < Moment(day, 3)
            /\ utc' + ahead' < Moment(day, 3)
            /\ last_ntp_day' = Never
        BY <3>1, <3>7, <4>2, Zenon
      <4>4. WrongByFailure'
        BY <4>3 DEF WrongByFailure, Awaited
      <4> QED
        BY <3>1, <3>3, <3>4, <3>5, <3>7, <4>1, <4>4, Zenon DEF WrongInv
    <3> QED
      BY <3>1, <3>6, <3>7
  <2>2. CASE Pass
    BY <2>2, WrongPass
  <2>3. CASE WaterMoves \/ RequestRun \/ UNCHANGED vars
    <3>1. /\ utc' = utc /\ UNCHANGED clock /\ UNCHANGED clockHistory
      BY <2>3, Zenon DEF WaterMoves, RequestRun, vars
    <3>2. /\ utc' = utc /\ ahead' = ahead /\ last_ntp_day' = last_ntp_day
          /\ wrong_since' = wrong_since /\ failed_at' = failed_at
      BY <3>1 DEF clock, clockHistory
    <3>3. /\ Calm' = Calm /\ WrongByLaw' = WrongByLaw
          /\ WrongByFailure' = WrongByFailure
      BY <3>2 DEF Calm, WrongByLaw, WrongByFailure, Awaited
    <3> QED
      BY <3>2, <3>3, Zenon DEF WrongInv
  <2> QED
    BY <2>1, <2>2, <2>3 DEF Next
<1> QED
  BY <1>1, <1>2, InvHolds, PTL DEF Spec

\* The day a moment lies in.
LEMMA DayIs ==
  ASSUME NEW rtc \in Int, NEW day \in Int,
         Moment(day, 0) <= rtc, rtc < Moment(day, 0) + 24 * HourLen
  PROVE  rtc \div (24 * HourLen) = day
<1> DEFINE h == HourLen
           p == 24 * h
<1>1. h \in Int /\ h > 0
  BY UnitsAssumption
<1>2. Moment(day, 0) = p * day
  <2>1. h * (24 * day + 0) = p * day
    BY <1>1, Z3
  <2> QED
    BY <2>1 DEF Moment
<1>3. p \in Int /\ p > 0
  BY <1>1
<1>4. p * day <= rtc /\ rtc < p * day + p
  BY <1>2
<1> HIDE DEF p
<1>5. rtc \div p = day
  BY <1>3, <1>4, DivIs
<1> QED
  BY <1>5 DEF p

\* An RTC that is wrong is put right at the resync of a day that its last
\* attempt or the change of the clocks leaves to come, or at the one after it
\* when the number of that day is the one last synchronised.
THEOREM ClockRightHolds ==
  ASSUME ShortPasses
  PROVE  Spec => []ClockRight
<1>1. Inv /\ WrongInv => ClockRight
  <2> SUFFICES ASSUME Inv, WrongInv, wrong_since # Never
               PROVE  IF Calm
                      THEN utc - wrong_since
                             < 2 * HourLen + DayLost(wrong_since)
                      ELSE utc - failed_at
                             < 24 * HourLen + DayLost(failed_at + 24 * HourLen)
    BY Zenon DEF ClockRight, Calm
  <2> DEFINE h == HourLen
  <2>1. {utc, ahead, wrong_since, h} \subseteq Int /\ h > 0
    BY UnitsAssumption DEF Inv, ClockInv, WrongInv
  <2>2. ASSUME Calm
        PROVE  utc - wrong_since < 2 * HourLen + DayLost(wrong_since)
    <3>1. PICK day \in Nat : /\ Moment(day, 1) <= wrong_since + ahead
                             /\ wrong_since + ahead < Moment(day, 3)
                             /\ Awaited(day)
      BY <2>2, Zenon DEF WrongInv, WrongByLaw
    <3>2. /\ Moment(day, 1) = Moment(day, 0) + h * 1
          /\ Moment(day, 3) = Moment(day, 0) + h * 3
          /\ Moment(day, 0) \in Int
      BY Moments
    <3>3. /\ Moment(day + 1, 3) = Moment(day + 1, 0) + h * 3
          /\ Moment(day + 1, 0) = Moment(day, 0) + 24 * h
      BY Moments
    <3> HIDE DEF h
    <3>4. PICK rtc \in Int : rtc = wrong_since + ahead
      BY <2>1
    <3>5. Moment(day, 0) <= rtc /\ rtc < Moment(day, 0) + 24 * h
      BY <2>1, <3>1, <3>2, <3>4
    <3>6. rtc \div (24 * HourLen) = day
      BY <3>5, DayIs DEF h
    <3>7. TakenForDone(wrong_since) <=> last_ntp_day = YearDay(day)
      BY <3>4, <3>6, Zenon DEF TakenForDone, YearDayOf
    <3>8. CASE utc + ahead < Moment(day, 3)
      <4>1. utc - wrong_since < 2 * h
        BY <2>1, <3>1, <3>2, <3>8
      <4>2. DayLost(wrong_since) \in {0, 24 * h}
        BY DEF DayLost, h
      <4> QED
        BY <2>1, <4>1, <4>2 DEF h
    <3>9. CASE last_ntp_day = YearDay(day) /\ utc + ahead < Moment(day + 1, 3)
      <4>1. DayLost(wrong_since) = 24 * h
        BY <3>7, <3>9 DEF DayLost, h
      <4>2. utc - wrong_since < 2 * h + 24 * h
        BY <2>1, <3>1, <3>2, <3>3, <3>9
      <4> QED
        BY <4>1, <4>2 DEF h
    <3> QED
      BY <3>1, <3>8, <3>9, Zenon DEF Awaited
  <2>3. ASSUME ~Calm
        PROVE  utc - failed_at
                 < 24 * HourLen + DayLost(failed_at + 24 * HourLen)
    <3>1. PICK day \in Nat :
            /\ Moment(day, 3) <= failed_at + ahead + 24 * HourLen
            /\ failed_at + ahead < Moment(day, 3)
            /\ \/ last_ntp_day = Never
               \/ failed_at + ahead + 24 * HourLen < Moment(day, 3) + HourLen
            /\ Awaited(day)
      BY <2>3, Zenon DEF WrongInv, WrongByFailure
    <3>2. {failed_at} \subseteq Int
      BY <2>3, Zenon DEF WrongInv, Calm
    <3>3. /\ Moment(day, 3) = Moment(day, 0) + h * 3
          /\ Moment(day + 1, 3) = Moment(day + 1, 0) + h * 3
          /\ Moment(day + 1, 0) = Moment(day, 0) + 24 * h
          /\ Moment(day, 0) \in Int
      BY Moments
    <3> DEFINE next == failed_at + 24 * h
    <3>4. PICK time \in Int : time = next
      BY <2>1, <3>2
    <3>5. DayLost(time) \in {0, 24 * h}
      BY DEF DayLost, h
    <3>6. CASE utc + ahead < Moment(day, 3)
      <4>1. utc - failed_at < 24 * h
        <5>1. Moment(day, 3) <= failed_at + ahead + 24 * h
          BY <3>1 DEF h
        <5> HIDE DEF h
        <5> QED
          BY <2>1, <3>2, <3>3, <3>6, <5>1
      <4>2. utc - failed_at < 24 * h + DayLost(time)
        <5> HIDE DEF h
        <5> QED
          BY <2>1, <3>2, <3>5, <4>1
      <4> QED
        BY <3>4, <4>2
    <3>7. CASE last_ntp_day = YearDay(day) /\ utc + ahead < Moment(day + 1, 3)
      <4>1. last_ntp_day # Never
        BY <3>7, YearDayRange, UnitsAssumption
      <4>2. PICK rtc \in Int : rtc = time + ahead
        BY <2>1
      <4>3. Moment(day, 3) <= rtc /\ rtc < Moment(day, 3) + HourLen
        <5>1. /\ Moment(day, 3) <= failed_at + ahead + 24 * HourLen
              /\ failed_at + ahead + 24 * HourLen < Moment(day, 3) + HourLen
          BY <3>1, <4>1
        <5>2. rtc = failed_at + ahead + 24 * HourLen
          BY <2>1, <3>2, <3>4, <4>2
        <5> QED
          BY <5>1, <5>2
      <4>4. rtc \div (24 * HourLen) = day
        BY <4>3, LiesIn
      <4>5. TakenForDone(time)
        BY <3>7, <4>2, <4>4, Zenon DEF TakenForDone, YearDayOf
      <4>6. DayLost(time) = 24 * h
        BY <4>5 DEF DayLost, h
      <4>7. utc - failed_at < 24 * h + 24 * h
        <5>1. Moment(day, 3) <= failed_at + ahead + 24 * h
          BY <3>1 DEF h
        <5> HIDE DEF h
        <5> QED
          BY <2>1, <3>2, <3>3, <3>7, <5>1
      <4> QED
        BY <3>4, <4>6, <4>7
    <3> QED
      BY <3>1, <3>6, <3>7, Zenon DEF Awaited
  <2> QED
    BY <2>2, <2>3
<1> QED
  BY <1>1, InvHolds, WrongHolds, PTL
=============================================================================
