------------------------ MODULE PumpController_proofs ------------------------
(***************************************************************************)
(* Theorems about PumpController for all durations, cycle gaps and         *)
(* requests.                                                               *)
(***************************************************************************)
EXTENDS PumpController, TLAPS

LEMMA TimesFacts == NoTime \in Times /\ \A t \in Int : t \in Times
  BY DEF Times

LEMMA ReasonFacts ==
  /\ "boot" \in Reasons
  /\ "command" \in Reasons
  /\ "OTA_pending" \in Reasons
  /\ "OTA_update_starting" \in Reasons
  /\ "dry_run_protect" \in Reasons
  /\ "enclosure_sensor_missing" \in Reasons
  /\ "enclosure_overtemp" \in Reasons
  /\ "flow_return_sensor_missing" \in Reasons
  /\ "extended_run" \in Reasons
  /\ "manual_boost" \in Reasons
  /\ "holiday_mode" \in Reasons
  /\ "sleep" \in Reasons
  /\ "test_skipped" \in Reasons
  /\ "periodic_test" \in Reasons
  BY DEF Reasons

LEMMA AutoReasonType == AutoReason \in Reasons
  BY DEF AutoReason, Reasons

LEMMA ClampedType ==
  ASSUME NEW duration \in RunRequests, duration > 0
  PROVE  Clamped(duration) \in Nat
  BY DurationsAssumption, InputsAssumption DEF Clamped

\* What _set_pump leaves behind has the right types.
LEMMA SetPumpType ==
  ASSUME NEW on \in BOOLEAN, NEW reason \in Reasons, SetPump(on, reason)
  PROVE  pump_on' \in BOOLEAN /\ pump_reason' \in Reasons
  BY DEF SetPump

\* _reset_test_timer, taken or not.
LEMMA TestTimerType ==
  ASSUME TestType, now' \in Int, NEW reset, TestTimer(reset)
  PROVE  last_test' \in Int /\ skip_logged' \in BOOLEAN
  BY Zenon DEF TestType, TestTimer

\* Falling past an extended run or a boost keeps their types.
LEMMA ExtendedDoneType ==
  ASSUME ModesType, ExtendedDone
  PROVE  /\ extended_run' \in BOOLEAN
         /\ extended_run_start' \in Times
         /\ extended_run_duration' \in Nat
  BY TimesFacts, Zenon DEF ModesType, ExtendedDone, CancelExtendedRun, extended

LEMMA BoostDoneType ==
  ASSUME ModesType, NEW pressed, BoostDone(pressed)
  PROVE  ModesType'
<1>1. /\ extended_run' \in BOOLEAN
      /\ extended_run_start' \in Times
      /\ extended_run_duration' \in Nat
  BY ExtendedDoneType DEF BoostDone
<1>2. manual_override' \in BOOLEAN /\ manual_override_start' \in Times
  BY TimesFacts, Zenon DEF BoostDone, CancelBoost, ModesType, boost
<1>3. manual_disabled' \in BOOLEAN
  BY Zenon DEF BoostDone, ModesType
<1> QED
  BY <1>1, <1>2, <1>3 DEF ModesType

\* A command changes modes and timers within their types.
LEMMA CommandType ==
  ASSUME TypeOK, Command
  PROVE  TypeOK'
<1> USE TimesFacts
<1> USE DEF ModesType, TestType, CancelBoost, CancelExtendedRun, boost, extended,
            testing
<1>1. ReadingsType' /\ PumpType'
  <2>1. Commanded \/ OtaTrigger
    BY DEF Command, CommandExtendedRun, CommandBoost, CommandHoliday,
       CommandAuto, CommandUnknown
  <2>2. CASE Commanded
    BY <2>2, ReasonFacts, Zenon
    DEF TypeOK, ReadingsType, PumpType, Commanded, readings
  <2>3. CASE OtaTrigger
    BY <2>3, ReasonFacts, Zenon
    DEF TypeOK, ReadingsType, PumpType, OtaTrigger, readings
  <2> QED
    BY <2>1, <2>2, <2>3
<1>2. ModesType'
  <2>1. ASSUME NEW duration \in RunRequests, CommandExtendedRun(duration)
        PROVE  ModesType'
    BY <2>1, ClampedType, Zenon DEF TypeOK, CommandExtendedRun
  <2>2. CASE CommandBoost
    BY <2>2, Zenon DEF TypeOK, CommandBoost
  <2>3. CASE CommandHoliday
    BY <2>3, Zenon DEF TypeOK, CommandHoliday
  <2>4. CASE CommandAuto
    BY <2>4, Zenon DEF TypeOK, CommandAuto
  <2>5. CASE CommandUnknown \/ OtaTrigger
    BY <2>5, Zenon DEF TypeOK, CommandUnknown, OtaTrigger
  <2> QED
    BY <2>1, <2>2, <2>3, <2>4, <2>5 DEF Command
<1>3. TestType'
  BY Zenon DEF TypeOK, ReadingsType, Command, CommandExtendedRun, CommandBoost,
     CommandHoliday, CommandAuto, CommandUnknown, OtaTrigger
<1> QED
  BY <1>1, <1>2, <1>3 DEF TypeOK

\* One cycle of the control loop, path by path.
LEMMA CycleType ==
  ASSUME TypeOK, Cycle
  PROVE  TypeOK'
<1>1. PICK gap \in LoopGaps, pressed \in BOOLEAN : CycleWith(gap, pressed)
  BY DEF Cycle
<1>2. now' \in Int
  BY <1>1, InputsAssumption DEF CycleWith, TypeOK, ReadingsType
<1>3. ReadingsType'
  BY <1>1, <1>2, Zenon DEF CycleWith, TypeOK, ReadingsType, readings
<1>4. ModesType' /\ TestType' /\ PumpType'
  <2> USE TimesFacts, ReasonFacts, <1>2
  <2> DEFINE Driven == \E on \in BOOLEAN, reason \in Reasons : SetPump(on, reason)
  <2>1. ASSUME Driven, safety_flags' \in SUBSET Flags
        PROVE  PumpType'
    BY <2>1, SetPumpType DEF TypeOK, PumpType
  <2>2. AutoWantsPump \in BOOLEAN
    BY DEF AutoWantsPump
  <2>3. ASSUME NEW reason \in Reasons, SafetyStop(pressed, reason)
        PROVE  ModesType' /\ TestType' /\ Driven
    BY <2>3, Zenon DEF SafetyStop, CancelBoost, CancelExtendedRun, Holiday,
       TypeOK, ModesType, TestType, testing
  <2>4. CASE DryRunStop(pressed) \/ EnclosureMissingStop(pressed)
             \/ OvertempStop(pressed)
    <3>1. /\ ModesType' /\ TestType' /\ Driven
          /\ safety_flags' \in SUBSET Flags
      BY <2>3, <2>4
      DEF DryRunStop, EnclosureMissingStop, OvertempStop, Flags
    <3> QED
      BY <2>1, <3>1
  <2>5. CASE SensorMissingStop(pressed)
    <3>1. Driven /\ safety_flags' \in SUBSET Flags
      BY <2>5 DEF SensorMissingStop, ClearFlags
    <3>2. ModesType' /\ TestType'
      BY <2>5, Zenon DEF SensorMissingStop, Override, OverrideStart, Holiday,
         Boosted, TypeOK, ModesType, TestType, extended, testing
    <3> QED
      BY <2>1, <3>1, <3>2
  <2>6. CASE ControlLogic(pressed)
    <3>1. safety_flags' \in SUBSET Flags
      BY <2>6 DEF ControlLogic, ClearFlags
    <3>2. CASE RunExtended
      <4>1. Driven
        BY <3>2 DEF RunExtended
      <4>2. ModesType' /\ TestType'
        BY <3>2, TestTimerType, Zenon DEF RunExtended, Held, TypeOK, ModesType,
           TestType, boost
      <4> QED
        BY <2>1, <3>1, <4>1, <4>2
    <3>3. CASE RunBoost(pressed)
      <4>1. Driven
        BY <3>3 DEF RunBoost
      <4>2. TestType'
        BY <3>3, TestTimerType, Zenon DEF RunBoost, TypeOK, TestType
      <4>3. extended_run' \in BOOLEAN /\ extended_run_start' \in Times
            /\ extended_run_duration' \in Nat
        BY <3>3, ExtendedDoneType DEF RunBoost, TypeOK
      <4>4. ModesType'
        BY <3>3, <4>3, Zenon DEF RunBoost, Holiday, TypeOK, ModesType
      <4> QED
        BY <2>1, <3>1, <4>1, <4>2, <4>4
    <3>4. CASE Shutdown(pressed)
      <4>1. Driven
        BY <3>4 DEF Shutdown
      <4>2. ModesType'
        BY <3>4, BoostDoneType DEF Shutdown, TypeOK
      <4>3. TestType'
        BY <3>4, TestTimerType, Zenon DEF Shutdown, TypeOK, TestType
      <4> QED
        BY <2>1, <3>1, <4>1, <4>2, <4>3
    <3>5. CASE Automatic(pressed)
      <4>1. Driven
        BY <3>5, <2>2, AutoReasonType
        DEF Automatic, StartTest, SkipTest, ContinueTest, FinishTest, FollowSolar
      <4>2. ModesType'
        BY <3>5, BoostDoneType DEF Automatic, TypeOK
      <4>3. CASE StartTest \/ SkipTest
        <5>1. GateOpen \in BOOLEAN
          BY DEF GateOpen
        <5>2. TestType'
          BY <4>3, <5>1, Zenon DEF StartTest, SkipTest, TypeOK, TestType
        <5> QED
          BY <2>1, <3>1, <4>1, <4>2, <5>2
      <4>4. CASE ContinueTest \/ FinishTest \/ FollowSolar
        <5>1. TestType'
          BY <4>4, TestTimerType, Zenon
          DEF ContinueTest, FinishTest, FollowSolar, TypeOK, TestType
        <5> QED
          BY <2>1, <3>1, <4>1, <4>2, <5>1
      <4> QED
        BY <3>5, <4>3, <4>4 DEF Automatic
    <3> QED
      BY <2>1, <2>6, <3>1, <3>2, <3>3, <3>4, <3>5 DEF ControlLogic
  <2> QED
    BY <1>1, <2>4, <2>5, <2>6 DEF CycleWith
<1> QED
  BY <1>3, <1>4 DEF TypeOK

\* Type correctness: every variable keeps the kind of value its Python
\* counterpart holds, in every reachable state.
THEOREM TypeCorrect == Spec => []TypeOK
<1> USE TimesFacts, ReasonFacts DEF TypeOK
<1>1. Init => TypeOK
  <2> SUFFICES ASSUME Init PROVE TypeOK
    OBVIOUS
  <2>1. 0 \in Int /\ 0 \in Nat /\ now \in Int
    BY InputsAssumption DEF Init
  <2>2. ReadingsType
    BY <2>1, Zenon DEF Init, ReadingsType
  <2>3. PumpType
    BY <2>1, Zenon DEF Init, PumpType
  <2>4. ModesType
    BY <2>1, Zenon DEF Init, ModesType
  <2>5. TestType
    BY <2>1, Zenon DEF Init, TestType
  <2> QED
    BY <2>2, <2>3, <2>4, <2>5
<1>2. TypeOK /\ [Next]_vars => TypeOK'
  <2> SUFFICES ASSUME TypeOK, [Next]_vars PROVE TypeOK'
    OBVIOUS
  <2>1. CASE SenseTemps \/ SenseWater \/ HourChange
    <3>1. ReadingsType'
      BY <2>1, Zenon DEF SenseTemps, SenseWater, HourChange, ReadingsType
    <3>2. PumpType' /\ ModesType' /\ TestType'
      BY <2>1, Zenon DEF SenseTemps, SenseWater, HourChange, PumpType, ModesType,
         TestType, pump, boost, extended, testing
    <3> QED
      BY <3>1, <3>2
  <2>2. CASE Command
    BY <2>2, CommandType
  <2>3. CASE OtaCheck
    <3>1. ReadingsType' /\ ModesType' /\ TestType'
      BY <2>3, Zenon DEF OtaCheck, ReadingsType, ModesType, TestType, readings,
         boost, extended, testing
    <3>2. PumpType'
      BY <2>3, SetPumpType DEF OtaCheck, PumpType
    <3> QED
      BY <3>1, <3>2
  <2>4. CASE OtaAborted
    <3>1. ReadingsType' /\ PumpType'
      BY <2>4, Zenon DEF OtaAborted, ReadingsType, PumpType, readings, pump
    <3>2. ModesType' /\ TestType'
      BY <2>4, Zenon DEF OtaAborted, ModesType, TestType, boost, extended, testing
    <3> QED
      BY <3>1, <3>2
  <2>5. CASE Cycle
    BY <2>5, CycleType
  <2>6. CASE Reboot
    <3>1. 0 \in Int /\ 0 \in Nat /\ now \in Int
      BY DEF ReadingsType
    <3>2. ReadingsType' /\ PumpType'
      BY <2>6, <3>1, Zenon DEF Reboot, ReadingsType, PumpType
    <3>3. ModesType' /\ TestType'
      BY <2>6, <3>1, Zenon DEF Reboot, ModesType, TestType
    <3> QED
      BY <3>2, <3>3
  <2>7. CASE UNCHANGED vars
    <3>1. ReadingsType' /\ PumpType'
      BY <2>7, Zenon DEF ReadingsType, PumpType, vars, readings, pump
    <3>2. ModesType' /\ TestType'
      BY <2>7, Zenon DEF ModesType, TestType, vars, boost, extended, testing
    <3> QED
      BY <3>1, <3>2
  <2> QED
    BY <2>1, <2>2, <2>3, <2>4, <2>5, <2>6, <2>7 DEF Next
<1> QED
  BY <1>1, <1>2, PTL DEF Spec

-----------------------------------------------------------------------------
(* Operating modes.  ModesExclusive is not inductive alone: that no request *)
(* finds an old timer, and that loop() has a start to measure a test from,  *)
(* rest on TimersMatchModes, which is proved with it.                       *)

ModesInv == TypeOK /\ ModesExclusive /\ TimersMatchModes

LEMMA ModesUnchanged ==
  ASSUME ModesExclusive, TimersMatchModes,
         UNCHANGED <<manual_disabled, boost, extended, testing>>
  PROVE  ModesExclusive' /\ TimersMatchModes'
<1>1. /\ UNCHANGED manual_disabled
      /\ UNCHANGED <<manual_override, manual_override_start>>
      /\ UNCHANGED <<extended_run, extended_run_start>>
      /\ UNCHANGED <<test_running, test_start_time>>
  BY Zenon DEF boost, extended, testing
<1>2. ModesExclusive'
  BY <1>1, SMT DEF ModesExclusive
<1>3. TimersMatchModes'
  BY <1>1, Zenon DEF TimersMatchModes
<1> QED
  BY <1>2, <1>3

LEMMA ModesCommand ==
  ASSUME ModesInv, Command
  PROVE  ModesExclusive' /\ TimersMatchModes'
<1> USE TimesFacts
    DEF ModesInv, ModesExclusive, TimersMatchModes, boost, extended, testing,
        CancelBoost, CancelExtendedRun
<1>1. ASSUME NEW duration \in RunRequests, CommandExtendedRun(duration)
      PROVE  ModesExclusive' /\ TimersMatchModes'
  BY <1>1, Zenon DEF CommandExtendedRun
<1>2. CASE CommandBoost
  BY <1>2, Zenon DEF CommandBoost, Boostable
<1>3. CASE CommandHoliday
  BY <1>3, Zenon DEF CommandHoliday
<1>4. CASE CommandAuto
  BY <1>4, Zenon DEF CommandAuto
<1>5. CASE CommandUnknown \/ OtaTrigger
  BY <1>5, ModesUnchanged DEF CommandUnknown, OtaTrigger
<1> QED
  BY <1>1, <1>2, <1>3, <1>4, <1>5 DEF Command

LEMMA ModesCycle ==
  ASSUME ModesInv, Cycle
  PROVE  ModesExclusive' /\ TimersMatchModes'
<1> USE TimesFacts, NoTimeAssumption
    DEF ModesInv, ModesExclusive, TimersMatchModes, boost, extended, testing,
        CancelBoost, CancelExtendedRun
<1>1. PICK gap \in LoopGaps, pressed \in BOOLEAN : CycleWith(gap, pressed)
  BY DEF Cycle
<1>2. now' # NoTime
  BY <1>1, InputsAssumption DEF CycleWith, TypeOK, ReadingsType
<1>3. ASSUME NEW reason, SafetyStop(pressed, reason)
      PROVE  ModesExclusive' /\ TimersMatchModes'
  BY <1>3, Zenon DEF SafetyStop, Holiday, Boosted
<1>4. CASE SensorMissingStop(pressed)
  BY <1>4, Zenon DEF SensorMissingStop, Override, OverrideStart, Holiday,
     Boosted, Boostable
<1>5. CASE RunExtended
  BY <1>5, Zenon DEF RunExtended, ExtendedLive
<1>6. CASE RunBoost(pressed)
  BY <1>6, Zenon DEF RunBoost, ExtendedDone, ExtendedOver, BoostLive, Override,
     OverrideStart, Holiday, Boosted, Boostable
<1>7. ASSUME BoostDone(pressed)
      PROVE  /\ ModesExclusive'
             /\ manual_override_start' # NoTime => manual_override'
             /\ extended_run_start' # NoTime => extended_run'
  BY <1>7, Zenon DEF BoostDone, ExtendedDone, ExtendedOver
<1>8. CASE Shutdown(pressed)
  BY <1>7, <1>8, Zenon DEF Shutdown
<1>9. CASE Automatic(pressed)
  <2>1. test_running' => test_start_time' # NoTime
    BY <1>2, <1>9, Zenon DEF Automatic, StartTest, SkipTest, ContinueTest,
       FinishTest, FollowSolar
  <2>2. extended_run_start' = NoTime
    BY <1>9, Zenon DEF Automatic, BoostDone, ExtendedDone, ExtendedOver
  <2> QED
    BY <1>7, <1>9, <2>1, <2>2, Zenon DEF Automatic
<1> QED
  BY <1>1, <1>3, <1>4, <1>5, <1>6, <1>8, <1>9, ReasonFacts
  DEF CycleWith, DryRunStop, EnclosureMissingStop, OvertempStop, ControlLogic

\* However commands, presses, stops and timeouts follow each other, at most
\* one operating mode is in force and no timer outlives its mode.
THEOREM ModesCorrect == Spec => [](ModesExclusive /\ TimersMatchModes)
<1>1. Init => ModesExclusive /\ TimersMatchModes
  BY Zenon DEF Init, ModesExclusive, TimersMatchModes
<1>2. TypeOK /\ ModesExclusive /\ TimersMatchModes /\ [Next]_vars
        => ModesExclusive' /\ TimersMatchModes'
  <2> SUFFICES ASSUME ModesInv, [Next]_vars
               PROVE  ModesExclusive' /\ TimersMatchModes'
    BY DEF ModesInv
  <2>1. CASE Command
    BY <2>1, ModesCommand
  <2>2. CASE Cycle
    BY <2>2, ModesCycle
  <2>3. CASE Reboot
    BY <2>3, Zenon DEF Reboot, ModesExclusive, TimersMatchModes
  <2>4. CASE SenseTemps \/ SenseWater \/ HourChange \/ OtaCheck \/ OtaAborted
             \/ UNCHANGED vars
    <3>1. UNCHANGED <<manual_disabled, boost, extended, testing>>
      BY <2>4, Zenon DEF SenseTemps, SenseWater, HourChange, OtaCheck,
         OtaAborted, vars
    <3> QED
      BY <3>1, ModesUnchanged DEF ModesInv
  <2> QED
    BY <2>1, <2>2, <2>3, <2>4 DEF Next
<1> QED
  BY <1>1, <1>2, TypeCorrect, PTL DEF Spec

-----------------------------------------------------------------------------
(* The pump and what the controller says of it.                             *)

\* No safety flag ever stands over a running pump.
THEOREM FlagsCorrect == Spec => []FlagsMeanStopped
<1>1. Init => FlagsMeanStopped
  BY Zenon DEF Init, FlagsMeanStopped
<1>2. FlagsMeanStopped /\ [Next]_vars => FlagsMeanStopped'
  <2> SUFFICES ASSUME FlagsMeanStopped, [Next]_vars PROVE FlagsMeanStopped'
    OBVIOUS
  <2>1. CASE Command
    <3>1. UNCHANGED <<pump_on, safety_flags>>
      BY <2>1, Zenon DEF Command, CommandExtendedRun, CommandBoost,
         CommandHoliday, CommandAuto, CommandUnknown, Commanded, OtaTrigger
    <3> QED
      BY <3>1, Zenon DEF FlagsMeanStopped
  <2>2. CASE Cycle
    <3>1. PICK gap \in LoopGaps, pressed \in BOOLEAN : CycleWith(gap, pressed)
      BY <2>2 DEF Cycle
    <3>2. CASE SensorMissingStop(pressed) \/ ControlLogic(pressed)
      BY <3>2, Zenon DEF SensorMissingStop, ControlLogic, ClearFlags,
         FlagsMeanStopped
    <3>3. CASE DryRunStop(pressed) \/ EnclosureMissingStop(pressed)
               \/ OvertempStop(pressed)
      BY <3>3, Zenon DEF DryRunStop, EnclosureMissingStop, OvertempStop,
         SafetyStop, SetPump, FlagsMeanStopped
    <3> QED
      BY <3>1, <3>2, <3>3 DEF CycleWith
  <2>3. CASE OtaCheck \/ Reboot
    BY <2>3, Zenon DEF OtaCheck, SetPump, Reboot, FlagsMeanStopped
  <2>4. CASE SenseTemps \/ SenseWater \/ HourChange \/ OtaAborted
             \/ UNCHANGED vars
    <3>1. UNCHANGED <<pump_on, safety_flags>>
      BY <2>4, Zenon DEF SenseTemps, SenseWater, HourChange, OtaAborted, vars,
         pump
    <3> QED
      BY <3>1, Zenon DEF FlagsMeanStopped
  <2> QED
    BY <2>1, <2>2, <2>3, <2>4 DEF Next
<1> QED
  BY <1>1, <1>2, PTL DEF Spec

\* AutoReason never says of the pump what AutoWantsPump does not decide.
LEMMA AutoReasonTells ==
  /\ AutoReason \in {"solar_heating"} => AutoWantsPump
  /\ AutoReason \in {"flow_return_sensor_missing", "insufficient_gain",
                     "waiting_for_solar_gain"} => ~AutoWantsPump
  /\ AutoReason \in {"solar_heating", "flow_return_sensor_missing",
                     "insufficient_gain", "waiting_for_solar_gain"}
<1>1. CASE AutoWantsPump
  <2>1. AutoReason = "solar_heating"
    BY <1>1 DEF AutoReason, AutoWantsPump
  <2> QED
    BY <1>1, <2>1
<1>2. CASE ~AutoWantsPump
  <2>1. AutoReason \in {"flow_return_sensor_missing", "insufficient_gain",
                        "waiting_for_solar_gain"}
    BY <1>2 DEF AutoReason
  <2> QED
    BY <1>2, <2>1
<1> QED
  BY <1>1, <1>2

Starts == {"extended_run", "manual_boost", "solar_heating", "periodic_test"}
Rests == {"boot", "OTA_update_starting", "dry_run_protect",
          "enclosure_sensor_missing", "enclosure_overtemp",
          "flow_return_sensor_missing", "holiday_mode", "sleep",
          "insufficient_gain", "waiting_for_solar_gain"}
Tells(on, reason) == (reason \in Starts => on) /\ (reason \in Rests => ~on)

\* Every path of loop() pairs the pump with a reason that fits it.
LEMMA CycleTells ==
  ASSUME Cycle
  PROVE  \E on, reason : SetPump(on, reason) /\ Tells(on, reason)
<1>1. PICK gap \in LoopGaps, pressed \in BOOLEAN : CycleWith(gap, pressed)
  BY DEF Cycle
<1>2. Tells(AutoWantsPump, AutoReason) /\ Tells(AutoWantsPump, "test_skipped")
  BY AutoReasonTells DEF Tells, Starts, Rests
<1>3. /\ Tells(TRUE, "extended_run")
      /\ Tells(TRUE, "manual_boost")
      /\ Tells(TRUE, "periodic_test")
      /\ Tells(FALSE, "holiday_mode")
      /\ Tells(FALSE, "sleep")
      /\ Tells(FALSE, "dry_run_protect")
      /\ Tells(FALSE, "enclosure_sensor_missing")
      /\ Tells(FALSE, "enclosure_overtemp")
      /\ Tells(FALSE, "flow_return_sensor_missing")
  BY DEF Tells, Starts, Rests
<1>4. CASE DryRunStop(pressed) \/ EnclosureMissingStop(pressed)
           \/ OvertempStop(pressed) \/ SensorMissingStop(pressed)
  BY <1>3, <1>4, Zenon DEF DryRunStop, EnclosureMissingStop, OvertempStop,
     SafetyStop, SensorMissingStop
<1>5. CASE RunExtended \/ RunBoost(pressed)
  BY <1>3, <1>5, Zenon DEF RunExtended, RunBoost
<1>6. CASE Shutdown(pressed)
  BY <1>3, <1>6, Zenon DEF Shutdown
<1>7. CASE Automatic(pressed)
  <2>1. CASE StartTest \/ ContinueTest
    BY <1>3, <2>1, Zenon DEF StartTest, ContinueTest
  <2>2. CASE SkipTest
    BY <1>2, <2>2, Zenon DEF SkipTest
  <2>3. CASE FinishTest \/ FollowSolar
    BY <1>2, <2>3, Zenon DEF FinishTest, FollowSolar
  <2> QED
    BY <1>7, <2>1, <2>2, <2>3 DEF Automatic
<1> QED
  BY <1>1, <1>4, <1>5, <1>6, <1>7 DEF CycleWith, ControlLogic

\* Whatever pump_reason tells the dashboard of the pump is true of it: every
\* path sets the two together, and none sets one alone.
THEOREM ReasonCorrect == Spec => []ReasonTellsPump
<1>1. ReasonTellsPump <=> Tells(pump_on, pump_reason)
  BY DEF ReasonTellsPump, Tells, Starts, Rests
<1>2. ReasonTellsPump' <=> Tells(pump_on', pump_reason')
  BY DEF ReasonTellsPump, Tells, Starts, Rests
<1>3. Init => ReasonTellsPump
  BY DEF Init, ReasonTellsPump
<1>4. ReasonTellsPump /\ [Next]_vars => ReasonTellsPump'
  <2> SUFFICES ASSUME ReasonTellsPump, [Next]_vars PROVE ReasonTellsPump'
    OBVIOUS
  <2>1. CASE Command
    <3>1. pump_reason' \in {"command", "OTA_pending"}
      BY <2>1, Zenon DEF Command, CommandExtendedRun, CommandBoost,
         CommandHoliday, CommandAuto, CommandUnknown, Commanded, OtaTrigger
    <3> QED
      BY <1>2, <3>1 DEF Tells, Starts, Rests
  <2>2. CASE Cycle
    <3>1. PICK on, reason : SetPump(on, reason) /\ Tells(on, reason)
      BY <2>2, CycleTells
    <3>2. pump_on' = on /\ pump_reason' = reason
      BY <3>1, Zenon DEF SetPump
    <3> QED
      BY <1>2, <3>1, <3>2
  <2>3. CASE OtaCheck \/ Reboot
    <3>1. pump_on' = FALSE /\ pump_reason' \in {"OTA_update_starting", "boot"}
      BY <2>3, Zenon DEF OtaCheck, SetPump, Reboot
    <3> QED
      BY <1>2, <3>1 DEF Tells, Starts, Rests
  <2>4. CASE SenseTemps \/ SenseWater \/ HourChange \/ OtaAborted
             \/ UNCHANGED vars
    <3>1. UNCHANGED <<pump_on, pump_reason>>
      BY <2>4, Zenon DEF SenseTemps, SenseWater, HourChange, OtaAborted, vars,
         pump
    <3> QED
      BY <1>1, <1>2, <3>1
  <2> QED
    BY <2>1, <2>2, <2>3, <2>4 DEF Next
<1> QED
  BY <1>3, <1>4, PTL DEF Spec

\* Without flow and return readings only an extended run gets past the safety
\* chain, and when that run has expired nothing else turns the pump on: no
\* boost waits behind it, and its end has reset the test timer.
LEMMA NoReadingsNoPump ==
  ASSUME ModesInv, NEW pressed, now' \in Int,
         ~SensorsMissing, delta_t_flow_return = "none",
         RunExtended \/ RunBoost(pressed) \/ Shutdown(pressed)
           \/ Automatic(pressed),
         pump_on'
  PROVE  extended_run'
<1>1. extended_run /\ ~manual_override
  BY Zenon DEF SensorsMissing, ModesInv, ModesExclusive
<1>2. CASE RunExtended
  BY <1>1, <1>2, Zenon DEF RunExtended
<1>3. ~RunBoost(pressed)
  BY <1>1, Zenon DEF RunBoost, BoostLive, Override, Boosted, Boostable
<1>4. ~Shutdown(pressed)
  BY Zenon DEF Shutdown, SetPump
<1>5. CASE Automatic(pressed)
  <2>1. ExtendedOver /\ extended_run_start # NoTime
    BY <1>1, <1>5, Zenon DEF Automatic, BoostDone, ExtendedDone, ExtendedOver,
       ExtendedLive
  <2>2. ~test_running
    BY <2>1, Zenon DEF ModesInv, TimersMatchModes
  <2>3. ~TestDue
    <3>1. SinceTest = 0
      BY <2>1, Zenon DEF SinceTest, TimerReset
    <3> QED
      BY <3>1, DurationsAssumption, SMT DEF TestDue
  <2>4. ~AutoWantsPump
    BY DEF AutoWantsPump
  <2> QED
    BY <1>5, <2>2, <2>3, <2>4, Zenon DEF Automatic, StartTest, SkipTest,
       ContinueTest, FinishTest, FollowSolar, SetPump
<1> QED
  BY <1>2, <1>3, <1>4, <1>5

\* No cycle leaves the pump running on unsafe water or enclosure readings, or
\* without flow and return readings but for an extended run.
THEOREM InterlockHolds == Spec => Interlock
<1>1. ModesInv /\ [Next]_vars =>
        [Cycle /\ pump_on' => /\ water_level_ok
                              /\ tEnclosure = "ok"
                              /\ delta_t_flow_return # "none" \/ extended_run']_vars
  <2> SUFFICES ASSUME ModesInv, Cycle, pump_on'
               PROVE  /\ water_level_ok
                      /\ tEnclosure = "ok"
                      /\ delta_t_flow_return # "none" \/ extended_run'
    OBVIOUS
  <2>1. PICK gap \in LoopGaps, pressed \in BOOLEAN : CycleWith(gap, pressed)
    BY DEF Cycle
  <2>2. now' \in Int
    BY <2>1, InputsAssumption DEF CycleWith, ModesInv, TypeOK, ReadingsType
  <2>3. ControlLogic(pressed)
    BY <2>1, Zenon DEF CycleWith, DryRunStop, EnclosureMissingStop,
       OvertempStop, SafetyStop, SensorMissingStop, SetPump
  <2>4. water_level_ok /\ tEnclosure = "ok"
    BY <2>3, Zenon DEF ControlLogic, Unsafe
  <2>5. delta_t_flow_return = "none" => extended_run'
    BY <2>2, <2>3, NoReadingsNoPump DEF ControlLogic
  <2> QED
    BY <2>4, <2>5
<1> QED
  BY <1>1, TypeCorrect, ModesCorrect, PTL DEF Spec, Interlock, ModesInv

\* After a cycle the pump runs only for a request in force, a test, or gain.
THEOREM JustifiedHolds == Spec => PumpJustified
<1>1. Cycle /\ pump_on' =>
        \/ extended_run'
        \/ manual_override'
        \/ /\ core_hours /\ ~manual_disabled'
           /\ test_running' \/ delta_t_flow_return \in {"band", "high"}
  <2> SUFFICES ASSUME Cycle, pump_on'
               PROVE  \/ extended_run'
                      \/ manual_override'
                      \/ /\ core_hours /\ ~manual_disabled'
                         /\ \/ test_running'
                            \/ delta_t_flow_return \in {"band", "high"}
    OBVIOUS
  <2>1. PICK gap \in LoopGaps, pressed \in BOOLEAN : CycleWith(gap, pressed)
    BY DEF Cycle
  <2>2. ControlLogic(pressed)
    BY <2>1, Zenon DEF CycleWith, DryRunStop, EnclosureMissingStop,
       OvertempStop, SafetyStop, SensorMissingStop, SetPump
  <2>3. CASE RunExtended
    BY <2>3, Zenon DEF RunExtended, ExtendedLive
  <2>4. CASE RunBoost(pressed)
    BY <2>4, Zenon DEF RunBoost
  <2>5. ~Shutdown(pressed)
    BY Zenon DEF Shutdown, SetPump
  <2>6. CASE Automatic(pressed)
    <3>1. core_hours /\ ~manual_disabled'
      BY <2>6, Zenon DEF Automatic, AutoAllowed, BoostDone
    <3>2. test_running' \/ AutoWantsPump
      <4>1. CASE StartTest
        BY <4>1, Zenon DEF StartTest
      <4>2. CASE ContinueTest
        BY <4>2, SMT DEF ContinueTest
      <4>3. CASE SkipTest \/ FinishTest \/ FollowSolar
        BY <4>3, Zenon DEF SkipTest, FinishTest, FollowSolar, SetPump
      <4> QED
        BY <2>6, <4>1, <4>2, <4>3 DEF Automatic
    <3> QED
      BY <3>1, <3>2 DEF AutoWantsPump
  <2> QED
    BY <2>2, <2>3, <2>4, <2>5, <2>6 DEF ControlLogic
<1> QED
  BY <1>1, PTL DEF Spec, PumpJustified

-----------------------------------------------------------------------------
(* Refinement of PumpPolicy.                                                *)

\* The mode the flags encode, when at most one of them is set.
LEMMA ModeValues ==
  /\ extended_run => Mode = "extended"
  /\ ~extended_run /\ manual_override => Mode = "boost"
  /\ ~extended_run /\ ~manual_override /\ manual_disabled => Mode = "holiday"
  /\ ~extended_run /\ ~manual_override /\ ~manual_disabled => Mode = "auto"
  BY DEF Mode

LEMMA ModeValuesNext ==
  /\ extended_run' => Mode' = "extended"
  /\ ~extended_run' /\ manual_override' => Mode' = "boost"
  /\ ~extended_run' /\ ~manual_override' /\ manual_disabled' => Mode' = "holiday"
  /\ ~extended_run' /\ ~manual_override' /\ ~manual_disabled' => Mode' = "auto"
  BY DEF Mode

\* A command is a Request of the policy, or changes nothing it can see.
LEMMA CommandRefines ==
  ASSUME ModesInv, Command
  PROVE  [Policy!Next]_<<Mode, pump_on>>
<1> USE ModeValues, ModeValuesNext DEF Policy!Next, Policy!Request
<1>1. UNCHANGED pump_on
  BY Zenon DEF Command, CommandExtendedRun, CommandBoost, CommandHoliday,
     CommandAuto, CommandUnknown, Commanded, OtaTrigger
<1>2. ASSUME NEW duration \in RunRequests, CommandExtendedRun(duration)
      PROVE  [Policy!Next]_<<Mode, pump_on>>
  BY <1>1, <1>2, Zenon DEF CommandExtendedRun
<1>3. CASE CommandBoost
  <2>1. CASE Boostable
    BY <1>1, <1>3, <2>1 DEF CommandBoost, Boostable, extended
  <2>2. CASE ~Boostable
    BY <1>1, <1>3, <2>2 DEF CommandBoost, extended, boost, Mode
  <2> QED
    BY <2>1, <2>2
<1>4. CASE CommandHoliday
  BY <1>1, <1>4, Zenon DEF CommandHoliday, CancelBoost, CancelExtendedRun
<1>5. CASE CommandAuto
  <2>1. CASE extended_run
    BY <1>1, <1>5, <2>1 DEF CommandAuto, CancelExtendedRun, boost,
       ModesInv, ModesExclusive
  <2>2. CASE ~extended_run
    BY <1>1, <1>5, <2>2 DEF CommandAuto, boost, extended, ModesInv,
       ModesExclusive
  <2> QED
    BY <2>1, <2>2
<1>6. CASE CommandUnknown \/ OtaTrigger
  BY <1>1, <1>6 DEF CommandUnknown, OtaTrigger, boost, extended, Mode
<1> QED
  BY <1>2, <1>3, <1>4, <1>5, <1>6 DEF Command

\* Falling past an expired request is an Expire, past none a Serve.
LEMMA DoneRefines ==
  ASSUME ModesInv, NEW pressed, BoostDone(pressed),
         pump_on' \in BOOLEAN, manual_disabled => ~pump_on'
  PROVE  Policy!Expire \/ Policy!Serve
<1> USE ModeValues, ModeValuesNext
    DEF ModesInv, ModesExclusive, BoostDone, ExtendedDone, CancelBoost,
        CancelExtendedRun
<1>1. CASE extended_run
  <2>1. ExtendedOver
    BY <1>1, Zenon DEF ExtendedOver
  <2>2. Mode' = "auto"
    BY <1>1, <2>1, SMT DEF boost
  <2> QED
    BY <1>1, <2>2 DEF Policy!Expire
<1>2. CASE ~extended_run /\ manual_override
  <2>1. Mode' = "auto"
    BY <1>2, SMT DEF ExtendedOver, extended
  <2> QED
    BY <1>2, <2>1 DEF Policy!Expire
<1>3. CASE ~extended_run /\ ~manual_override
  <2>1. Mode' = Mode /\ Mode # "extended"
    BY <1>3, SMT DEF ExtendedOver, extended, boost
  <2>2. Mode = "holiday" => manual_disabled
    BY <1>3
  <2> QED
    BY <2>1, <2>2 DEF Policy!Serve
<1> QED
  BY <1>1, <1>2, <1>3

\* A cycle is a Press, a Serve, an Expire or a Stop of the policy.
LEMMA CycleRefines ==
  ASSUME TypeOK', ModesInv, Cycle
  PROVE  Policy!Next
<1> USE ModeValues, ModeValuesNext DEF ModesInv, ModesExclusive, Policy!Next
<1>1. PICK gap \in LoopGaps, pressed \in BOOLEAN : CycleWith(gap, pressed)
  BY DEF Cycle
<1>2. pump_on' \in BOOLEAN
  BY DEF TypeOK, PumpType
<1>3. ASSUME NEW reason, SafetyStop(pressed, reason)
      PROVE  Policy!Next
  <2>1. /\ ~extended_run' /\ ~manual_override' /\ pump_on' = FALSE
        /\ manual_disabled' => manual_disabled
    BY <1>3 DEF SafetyStop, SetPump, CancelBoost, CancelExtendedRun, Holiday
  <2>2. Mode' \in {Mode, "auto"}
    BY <2>1
  <2> QED
    BY <2>1, <2>2 DEF Policy!Stop
<1>4. CASE SensorMissingStop(pressed)
  <2>1. ~pump_on' /\ ~extended_run /\ ~extended_run'
    BY <1>4, SMT DEF SensorMissingStop, SensorsMissing, SetPump, extended, ControlLogic
  <2>2. CASE Boosted(pressed)
    <3>1. Mode \in {"auto", "holiday"}
      BY <2>1, <2>2 DEF Boosted, Boostable
    <3>2. Mode' = "boost"
      BY <1>4, <2>1, <2>2 DEF SensorMissingStop, Override
    <3> QED
      BY <1>2, <3>1, <3>2 DEF Policy!Press
  <2>3. CASE ~Boosted(pressed)
    <3>1. UNCHANGED <<manual_override, manual_disabled>>
      BY <1>4, <2>3 DEF SensorMissingStop, Override, Holiday, TypeOK, ModesType
    <3>2. Mode' = Mode /\ Mode # "extended"
      BY <2>1, <3>1, SMT
    <3> QED
      BY <1>2, <2>1, <3>2 DEF Policy!Serve
  <2> QED
    BY <2>2, <2>3
<1>5. CASE RunExtended
  <2>1. Mode = "extended" /\ Mode' = "extended"
    BY <1>5 DEF RunExtended, ExtendedLive
  <2>2. pump_on'
    BY <1>5 DEF RunExtended, SetPump
  <2> QED
    BY <1>2, <2>1, <2>2 DEF Policy!Serve
<1>6. CASE RunBoost(pressed)
  <2>1. ~extended_run
    BY <1>6 DEF RunBoost, BoostLive, Override, Boosted, Boostable
  <2>2. Mode' = "boost"
    BY <1>6, <2>1 DEF RunBoost, ExtendedDone, ExtendedOver, extended
  <2>3. CASE Boosted(pressed)
    BY <1>2, <2>2, <2>3 DEF Boosted, Boostable, Policy!Press
  <2>4. CASE ~Boosted(pressed)
    <3>1. Mode = "boost"
      BY <1>6, <2>1, <2>4 DEF RunBoost, BoostLive, Override
    <3> QED
      BY <1>2, <2>2, <3>1 DEF Policy!Serve
  <2> QED
    BY <2>3, <2>4
<1>7. CASE Shutdown(pressed)
  BY <1>2, <1>7, DoneRefines DEF Shutdown, SetPump
<1>8. CASE Automatic(pressed)
  BY <1>2, <1>8, DoneRefines DEF Automatic, AutoAllowed
<1> QED
  BY <1>1, <1>3, <1>4, <1>5, <1>6, <1>7, <1>8
  DEF CycleWith, DryRunStop, EnclosureMissingStop, OvertempStop, ControlLogic

\* The controller implements the policy it promises its operators.
THEOREM PolicyImplemented == Spec => ImplementsPolicy
<1>1. Init => Policy!Init
  BY ModeValues, Zenon DEF Init, Policy!Init
<1>2. TypeOK' /\ ModesInv /\ [Next]_vars => [Policy!Next]_<<Mode, pump_on>>
  <2> SUFFICES ASSUME TypeOK', ModesInv, [Next]_vars
               PROVE  [Policy!Next]_<<Mode, pump_on>>
    OBVIOUS
  <2>1. CASE Command
    BY <2>1, CommandRefines
  <2>2. CASE Cycle
    BY <2>2, CycleRefines
  <2>3. CASE OtaCheck
    <3>1. Mode' = Mode /\ pump_on' = FALSE
      BY <2>3 DEF OtaCheck, SetPump, Mode, boost, extended
    <3> QED
      BY <3>1 DEF Policy!Next, Policy!Stop
  <2>4. CASE Reboot
    <3>1. Mode' = "auto" /\ pump_on' = FALSE
      BY <2>4, ModeValuesNext, Zenon DEF Reboot
    <3> QED
      BY <3>1 DEF Policy!Next, Policy!Stop
  <2>5. CASE SenseTemps \/ SenseWater \/ HourChange \/ OtaAborted
             \/ UNCHANGED vars
    <3>1. UNCHANGED <<pump_on, manual_disabled, boost, extended>>
      BY <2>5, Zenon DEF SenseTemps, SenseWater, HourChange, OtaAborted, vars,
         pump
    <3> QED
      BY <3>1 DEF Mode, boost, extended
  <2> QED
    BY <2>1, <2>2, <2>3, <2>4, <2>5 DEF Next
<1> QED
  BY <1>1, <1>2, TypeCorrect, ModesCorrect, PTL
  DEF Spec, ModesInv, ImplementsPolicy, Policy!Spec
=============================================================================
