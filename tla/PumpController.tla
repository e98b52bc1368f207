--------------------------- MODULE PumpController ---------------------------
(***************************************************************************)
(* The pump controller of controller/controller.py, with the state it      *)
(* shares through state.py and the steps of main.py that reach into it.    *)
(*                                                                         *)
(* A step is one call: one cycle of Controller.loop, one MQTT message      *)
(* given to Controller.handle_mqtt_message, one sensor refresh, one OTA    *)
(* request served by main.py, or a reboot.  main.py calls them in a fixed  *)
(* order; here they interleave freely, which contains that order.          *)
(*                                                                         *)
(* Readings are abstracted to what the code compares them with:            *)
(*   tEnclosure           missing, ok, or hot (above max_enclosure_temp)   *)
(*   delta_t_flow_return  none (tFlow or tReturn missing), low (below the  *)
(*                        lower threshold), band, high (at or above the    *)
(*                        upper threshold)                                 *)
(*   plate_pool_delta     none, closed (below gate_threshold), open        *)
(* Times are whole seconds of the one clock the controller uses.           *)
(***************************************************************************)
EXTENDS Integers

CONSTANTS
  PumpTestInterval,         \* config["pump_test_interval"]
  PumpTestDuration,         \* config["pump_test_duration"]
  ManualOverrideDuration,   \* config["manual_override_duration"]
  RunRequests,              \* durations operators ask for, the default included
  ExtendedRunMax,           \* config["extended_run_max_hours"], in seconds
  GateEnabled,              \* config["gate_enabled"]
  GateFallback,             \* config["gate_fallback_interval"]
  LoopGaps,                 \* possible clock advances between two cycles
  BootTime,                 \* what the clock shows at the first boot
  NoTime                    \* None, where the code stores a timestamp

ASSUME DurationsAssumption ==
  /\ PumpTestInterval \in Nat \ {0}
  /\ PumpTestDuration \in Nat \ {0}
  /\ ManualOverrideDuration \in Nat
  /\ ExtendedRunMax \in Nat \ {0}
  /\ GateFallback \in Nat
ASSUME InputsAssumption ==
  /\ RunRequests \subseteq Int
  /\ LoopGaps \subseteq Int
  /\ BootTime \in Int
  /\ GateEnabled \in BOOLEAN
ASSUME NoTimeAssumption == NoTime \notin Int

VARIABLES
  now,                     \* Controller._now
  \* readings, written by the sensors and the clock
  water_level_ok, tEnclosure, delta_t_flow_return, plate_pool_delta, core_hours,
  \* the pump and what the controller says about it
  pump_on, pump_reason, safety_flags,
  \* operating modes and their timers
  manual_disabled, manual_override, manual_override_start,
  extended_run, extended_run_start, extended_run_duration,
  \* the periodic test
  test_running, test_start_time, last_test, skip_logged, test_gate_open,
  \* a pending update
  ota_pending

readings == <<water_level_ok, tEnclosure, delta_t_flow_return,
              plate_pool_delta, core_hours>>
pump == <<pump_on, pump_reason, safety_flags>>
boost == <<manual_override, manual_override_start>>
extended == <<extended_run, extended_run_start, extended_run_duration>>
testing == <<test_running, test_start_time, last_test, skip_logged,
             test_gate_open>>
vars == <<now, readings, pump, manual_disabled, boost, extended, testing,
          ota_pending>>

Times == Int \cup {NoTime}
Reasons == {"boot", "command", "OTA_pending", "OTA_update_starting",
            "dry_run_protect", "enclosure_sensor_missing",
            "enclosure_overtemp", "flow_return_sensor_missing",
            "extended_run", "manual_boost", "holiday_mode", "sleep",
            "solar_heating", "insufficient_gain", "waiting_for_solar_gain",
            "test_skipped", "periodic_test"}
Flags == {"dry_run_protect", "enclosure_sensor_missing", "overtemp_shutdown"}

ReadingsType ==
  /\ now \in Int
  /\ water_level_ok \in BOOLEAN
  /\ tEnclosure \in {"missing", "ok", "hot"}
  /\ delta_t_flow_return \in {"none", "low", "band", "high"}
  /\ plate_pool_delta \in {"none", "closed", "open"}
  /\ core_hours \in BOOLEAN
  /\ ota_pending \in BOOLEAN
PumpType ==
  /\ pump_on \in BOOLEAN
  /\ pump_reason \in Reasons
  /\ safety_flags \in SUBSET Flags
ModesType ==
  /\ manual_disabled \in BOOLEAN
  /\ manual_override \in BOOLEAN
  /\ manual_override_start \in Times
  /\ extended_run \in BOOLEAN
  /\ extended_run_start \in Times
  /\ extended_run_duration \in Nat
TestType ==
  /\ test_running \in BOOLEAN
  /\ test_start_time \in Times
  /\ last_test \in Int
  /\ skip_logged \in BOOLEAN
  /\ test_gate_open \in BOOLEAN

\* Every variable holds a value of the kind its Python counterpart holds.
TypeOK == ReadingsType /\ PumpType /\ ModesType /\ TestType

-----------------------------------------------------------------------------
(* Boot: state.py's defaults, Controller.__init__, and the first reads of   *)
(* main.py.  The first temperature read only starts a conversion, so no     *)
(* temperature is known yet; the water level is.                            *)

Init ==
  /\ now = BootTime
  /\ water_level_ok \in BOOLEAN
  /\ tEnclosure = "missing"
  /\ delta_t_flow_return = "none"
  /\ plate_pool_delta = "none"
  /\ core_hours \in BOOLEAN
  /\ pump_on = FALSE
  /\ pump_reason = "boot"
  /\ safety_flags = {}
  /\ manual_disabled = FALSE
  /\ manual_override = FALSE
  /\ manual_override_start = NoTime
  /\ extended_run = FALSE
  /\ extended_run_start = NoTime
  /\ extended_run_duration = 0
  /\ test_running = FALSE
  /\ test_start_time = NoTime
  /\ last_test = now
  /\ skip_logged = FALSE
  /\ test_gate_open = TRUE
  /\ ota_pending = FALSE

\* A watchdog restart, a power cut or an applied update: everything above is
\* lost.  The clock, set again from the network, is taken to go on.
Reboot ==
  /\ now' = now
  /\ water_level_ok' \in BOOLEAN
  /\ tEnclosure' = "missing"
  /\ delta_t_flow_return' = "none"
  /\ plate_pool_delta' = "none"
  /\ core_hours' \in BOOLEAN
  /\ pump_on' = FALSE
  /\ pump_reason' = "boot"
  /\ safety_flags' = {}
  /\ manual_disabled' = FALSE
  /\ manual_override' = FALSE
  /\ manual_override_start' = NoTime
  /\ extended_run' = FALSE
  /\ extended_run_start' = NoTime
  /\ extended_run_duration' = 0
  /\ test_running' = FALSE
  /\ test_start_time' = NoTime
  /\ last_test' = now
  /\ skip_logged' = FALSE
  /\ test_gate_open' = TRUE
  /\ ota_pending' = FALSE

-----------------------------------------------------------------------------
(* Readings change between cycles.                                          *)

\* One class at a time: a read that changes several is a sequence of these
\* with no cycle in between.
SenseTemps ==
  /\ \/ /\ tEnclosure' \in {"missing", "ok", "hot"}
        /\ UNCHANGED <<delta_t_flow_return, plate_pool_delta>>
     \/ /\ delta_t_flow_return' \in {"none", "low", "band", "high"}
        /\ UNCHANGED <<tEnclosure, plate_pool_delta>>
     \/ /\ plate_pool_delta' \in {"none", "closed", "open"}
        /\ UNCHANGED <<tEnclosure, delta_t_flow_return>>
  /\ UNCHANGED <<now, water_level_ok, core_hours, pump, manual_disabled,
                 boost, extended, testing, ota_pending>>

SenseWater ==
  /\ water_level_ok' \in BOOLEAN
  /\ UNCHANGED <<now, tEnclosure, delta_t_flow_return, plate_pool_delta,
                 core_hours, pump, manual_disabled, boost, extended, testing, ota_pending>>

\* The hour moves into or out of [core_start_hour, core_end_hour).
HourChange ==
  /\ core_hours' = ~core_hours
  /\ UNCHANGED <<now, water_level_ok, tEnclosure, delta_t_flow_return,
                 plate_pool_delta, pump, manual_disabled, boost, extended,
                 testing, ota_pending>>

-----------------------------------------------------------------------------
(* handle_mqtt_message: operator commands.  An unreadable payload changes   *)
(* nothing and is left out.                                                 *)

\* Slips of the next operator: each forgets one of its two checks.
BoostableInRun == ~manual_override
BoostableAgain == ~extended_run
\* Shared by the button and mode 1: no boost behind a boost or a longer run.
Boostable == ~manual_override /\ ~extended_run

\* Slip: the limit is not applied.
Unclamped(duration) == duration
Clamped(duration) ==
  IF duration < ExtendedRunMax THEN duration ELSE ExtendedRunMax

\* Slip: the duration is set to None along with the start.
CancelToNone ==
  /\ extended_run' = FALSE
  /\ extended_run_start' = NoTime
  /\ extended_run_duration' = NoTime
CancelExtendedRun ==
  /\ extended_run' = FALSE
  /\ extended_run_start' = NoTime
  /\ UNCHANGED extended_run_duration

\* Slip: the start is left behind.
CancelBoostFlag ==
  /\ manual_override' = FALSE
  /\ UNCHANGED manual_override_start
CancelBoost ==
  /\ manual_override' = FALSE
  /\ manual_override_start' = NoTime

\* Any integer is accepted as a mode and named in pump_reason.
Commanded ==
  /\ pump_reason' = "command"
  /\ UNCHANGED <<now, readings, pump_on, safety_flags, ota_pending>>

\* "3" or "3:N"
CommandExtendedRun(duration) ==
  /\ duration > 0
  /\ extended_run' = TRUE
  /\ extended_run_duration' = Clamped(duration)
  /\ extended_run_start' = NoTime
  /\ manual_disabled' = FALSE
  /\ CancelBoost
  /\ Commanded
  /\ UNCHANGED testing

\* "1"; ignored (but still named in pump_reason) when not Boostable
CommandBoost ==
  /\ IF Boostable
     THEN /\ manual_override' = TRUE
          /\ manual_override_start' = NoTime
          /\ manual_disabled' = FALSE
     ELSE UNCHANGED <<boost, manual_disabled>>
  /\ Commanded
  /\ UNCHANGED <<extended, testing>>

\* "2"
CommandHoliday ==
  /\ manual_disabled' = TRUE
  /\ CancelBoost
  /\ CancelExtendedRun
  /\ Commanded
  /\ UNCHANGED testing

\* "0": a boost is left to its own timer
CommandAuto ==
  /\ manual_disabled' = FALSE
  /\ IF extended_run
     THEN /\ CancelExtendedRun
          /\ last_test' = now
          /\ skip_logged' = FALSE
          /\ UNCHANGED <<test_running, test_start_time, test_gate_open>>
     ELSE UNCHANGED <<extended, testing>>
  /\ Commanded
  /\ UNCHANGED boost

\* any other integer
CommandUnknown ==
  /\ Commanded
  /\ UNCHANGED <<manual_disabled, boost, extended, testing>>

OtaTrigger ==
  /\ ota_pending' = TRUE
  /\ pump_reason' = "OTA_pending"
  /\ UNCHANGED <<now, readings, pump_on, safety_flags, manual_disabled, boost,
                 extended, testing>>

-----------------------------------------------------------------------------
(* _set_pump.  What it and _check_publish send is in Telemetry.             *)

SetPump(on, reason) == pump_on' = on /\ pump_reason' = reason

-----------------------------------------------------------------------------
(* main.py serves a requested update: the pump is stopped, and the check    *)
(* either returns or ends in Reboot.  An exception before the stop leaves   *)
(* the pump as it is.                                                       *)

OtaCheck ==
  /\ ota_pending
  /\ ota_pending' = FALSE
  /\ UNCHANGED now
  /\ SetPump(FALSE, "OTA_update_starting")
  /\ UNCHANGED <<readings, safety_flags, manual_disabled, boost, extended,
                 testing>>

OtaAborted ==
  /\ ota_pending
  /\ ota_pending' = FALSE
  /\ UNCHANGED <<now, readings, pump, manual_disabled, boost, extended,
                 testing>>

-----------------------------------------------------------------------------
(* loop(): one cycle.  pressed is the debounced button, read first; the     *)
(* operators below take the state a press leaves.                           *)

Boosted(pressed) == pressed /\ Boostable

Override(pressed) == manual_override \/ Boosted(pressed)
OverrideStart(pressed) ==
  IF Boosted(pressed) THEN NoTime ELSE manual_override_start
\* Slip: the button leaves the holiday standing behind its boost.
HolidayKept(pressed) == manual_disabled
Holiday(pressed) == manual_disabled /\ ~Boosted(pressed)

\* Slip: the enclosure checks are skipped.
UnsafeWater == ~water_level_ok
\* _run_safety_chain: each stop names the cause it found first.
Unsafe == ~water_level_ok \/ tEnclosure # "ok"
SensorsMissing == delta_t_flow_return = "none" /\ ~extended_run

\* Slip: passing the checks does not clear the overtemperature flag.
ClearSomeFlags == safety_flags' = safety_flags \ {"dry_run_protect"}
\* Each check that passes clears its flag.
ClearFlags == safety_flags' = {}

\* The stops of priority 1 and 2 also end whatever the operator asked for.
SafetyStop(pressed, reason) ==
  /\ SetPump(FALSE, reason)
  /\ CancelBoost
  /\ CancelExtendedRun
  /\ manual_disabled' = Holiday(pressed)
  /\ UNCHANGED testing

DryRunStop(pressed) ==
  /\ ~water_level_ok
  /\ SafetyStop(pressed, "dry_run_protect")
  /\ safety_flags' = {"dry_run_protect"}

EnclosureMissingStop(pressed) ==
  /\ water_level_ok
  /\ tEnclosure = "missing"
  /\ SafetyStop(pressed, "enclosure_sensor_missing")
  /\ safety_flags' = {"enclosure_sensor_missing"}

OvertempStop(pressed) ==
  /\ water_level_ok
  /\ tEnclosure = "hot"
  /\ SafetyStop(pressed, "enclosure_overtemp")
  /\ safety_flags' = {"overtemp_shutdown"}

\* Priority 3 stops the pump and leaves a waiting boost waiting.
SensorMissingStop(pressed) ==
  /\ ~Unsafe
  /\ SensorsMissing
  /\ SetPump(FALSE, "flow_return_sensor_missing")
  /\ ClearFlags
  /\ manual_override' = Override(pressed)
  /\ manual_override_start' = OverrideStart(pressed)
  /\ manual_disabled' = Holiday(pressed)
  /\ UNCHANGED <<extended, testing>>

-----------------------------------------------------------------------------
(* _run_control_logic, past the safety chain.                               *)

ExtendedLive ==
  /\ extended_run
  /\ extended_run_start # NoTime =>
       now' - extended_run_start < extended_run_duration
ExtendedOver == extended_run /\ ~ExtendedLive

BoostLive(pressed) ==
  /\ Override(pressed)
  /\ OverrideStart(pressed) # NoTime =>
       now' - OverrideStart(pressed) <= ManualOverrideDuration

\* Slip: the timer is held during the test instead of outside it.
HeldInTest == pump_on /\ test_running
\* While the pump runs for any reason but a test, the test timer is held.
Held == pump_on /\ ~test_running

\* _reset_test_timer, when the condition holds
TestTimer(reset) ==
  /\ last_test' = IF reset THEN now' ELSE last_test
  /\ skip_logged' = (skip_logged /\ ~reset)

RunExtended ==
  /\ ExtendedLive
  /\ extended_run_start' =
       IF extended_run_start = NoTime THEN now' ELSE extended_run_start
  /\ test_running' = (test_running /\ extended_run_start # NoTime)
  /\ TestTimer(Held \/ extended_run_start = NoTime)
  /\ SetPump(TRUE, "extended_run")
  /\ UNCHANGED <<extended_run, extended_run_duration, boost, manual_disabled,
                 test_start_time, test_gate_open>>

\* Past an extended run, which is cancelled if it has run out.
ExtendedDone ==
  /\ ~ExtendedLive
  /\ IF ExtendedOver THEN CancelExtendedRun ELSE UNCHANGED extended

RunBoost(pressed) ==
  /\ ExtendedDone
  /\ BoostLive(pressed)
  /\ manual_override' = TRUE
  /\ manual_override_start' =
       IF OverrideStart(pressed) = NoTime THEN now' ELSE manual_override_start
  /\ manual_disabled' = Holiday(pressed)
  /\ TestTimer(Held \/ ExtendedOver \/ OverrideStart(pressed) = NoTime)
  /\ SetPump(TRUE, "manual_boost")
  /\ UNCHANGED <<test_running, test_start_time, test_gate_open>>

\* Past a boost too, which is cleared if it has run out.  Nothing below
\* changes manual_disabled: a press would have made BoostLive.
BoostDone(pressed) ==
  /\ ExtendedDone
  /\ ~BoostLive(pressed)
  /\ IF manual_override THEN CancelBoost ELSE UNCHANGED boost
  /\ UNCHANGED manual_disabled

\* Slip: the holiday is forgotten.
AutoInHoliday == core_hours
AutoAllowed == core_hours /\ ~manual_disabled

\* Night or holiday: the test timer waits at now for the next core hours.
Shutdown(pressed) ==
  /\ BoostDone(pressed)
  /\ ~AutoAllowed
  /\ test_running' = FALSE
  /\ TestTimer(TRUE)
  /\ SetPump(FALSE, IF manual_disabled THEN "holiday_mode" ELSE "sleep")
  /\ UNCHANGED <<test_start_time, test_gate_open>>

\* Hysteresis: a running pump is kept on in the band, an idle one off.
AutoWantsPump ==
  \/ delta_t_flow_return = "high"
  \/ delta_t_flow_return = "band" /\ pump_on

\* Slip: the hysteresis band is called heating whether or not the pump runs.
AutoReasonByBand ==
  CASE delta_t_flow_return = "none" -> "flow_return_sensor_missing"
    [] delta_t_flow_return \in {"band", "high"} -> "solar_heating"
    [] delta_t_flow_return = "low" /\ pump_on -> "insufficient_gain"
    [] OTHER -> "waiting_for_solar_gain"
AutoReason ==
  CASE delta_t_flow_return = "none" -> "flow_return_sensor_missing"
    [] AutoWantsPump -> "solar_heating"
    [] delta_t_flow_return = "low" /\ pump_on -> "insufficient_gain"
    [] OTHER -> "waiting_for_solar_gain"

\* The periodic test.  Its timer as this cycle sees it:
TimerReset == Held \/ ExtendedOver
SinceTest == IF TimerReset THEN 0 ELSE now' - last_test
TestDue == ~test_running /\ SinceTest >= PumpTestInterval
\* _test_gate_open: a missing reading, or a disabled gate, is an open gate.
GateOpen == ~GateEnabled \/ plate_pool_delta # "closed"
\* Slip: off by one at the boundary.
TestForcedLate == SinceTest > GateFallback
TestForced == SinceTest >= GateFallback

StartTest ==
  /\ TestDue
  /\ GateOpen \/ TestForced
  /\ test_gate_open' = GateOpen
  /\ test_running' = TRUE
  /\ test_start_time' = now'
  /\ last_test' = IF TimerReset THEN now' ELSE last_test
  /\ skip_logged' = FALSE
  /\ SetPump(TRUE, "periodic_test")

\* A gated slot is named in pump_reason once per stagnation period.
SkipTest ==
  /\ TestDue
  /\ ~GateOpen
  /\ ~TestForced
  /\ test_gate_open' = FALSE
  /\ last_test' = IF TimerReset THEN now' ELSE last_test
  /\ skip_logged' = TRUE
  /\ SetPump(AutoWantsPump,
           IF skip_logged /\ ~TimerReset THEN AutoReason ELSE "test_skipped")
  /\ UNCHANGED <<test_running, test_start_time>>

TestOver == now' - test_start_time >= PumpTestDuration

ContinueTest ==
  /\ test_running
  /\ ~TestOver
  /\ TestTimer(TimerReset)
  /\ SetPump(TRUE, "periodic_test")
  /\ UNCHANGED <<test_running, test_start_time, test_gate_open>>

FinishTest ==
  /\ test_running
  /\ TestOver
  /\ test_running' = FALSE
  /\ TestTimer(TRUE)
  /\ SetPump(AutoWantsPump, AutoReason)
  /\ UNCHANGED <<test_start_time, test_gate_open>>

FollowSolar ==
  /\ ~test_running
  /\ ~TestDue
  /\ TestTimer(TimerReset)
  /\ SetPump(AutoWantsPump, AutoReason)
  /\ UNCHANGED <<test_running, test_start_time, test_gate_open>>

Automatic(pressed) ==
  /\ BoostDone(pressed)
  /\ AutoAllowed
  /\ StartTest \/ SkipTest \/ ContinueTest \/ FinishTest \/ FollowSolar

ControlLogic(pressed) ==
  /\ ~Unsafe
  /\ ~SensorsMissing
  /\ ClearFlags
  /\ \/ RunExtended
     \/ RunBoost(pressed)
     \/ Shutdown(pressed)
     \/ Automatic(pressed)

CycleWith(gap, pressed) ==
  /\ now' = now + gap
  /\ UNCHANGED <<readings, ota_pending>>
  /\ \/ DryRunStop(pressed)
     \/ EnclosureMissingStop(pressed)
     \/ OvertempStop(pressed)
     \/ SensorMissingStop(pressed)
     \/ ControlLogic(pressed)

Cycle == \E gap \in LoopGaps, pressed \in BOOLEAN : CycleWith(gap, pressed)

-----------------------------------------------------------------------------
Command ==
  \/ \E duration \in RunRequests : CommandExtendedRun(duration)
  \/ CommandBoost
  \/ CommandHoliday
  \/ CommandAuto
  \/ CommandUnknown
  \/ OtaTrigger

Next ==
  \/ SenseTemps
  \/ SenseWater
  \/ HourChange
  \/ Command
  \/ OtaCheck
  \/ OtaAborted
  \/ Cycle
  \/ Reboot

Spec == Init /\ [][Next]_vars

-----------------------------------------------------------------------------
(* Properties.                                                              *)

\* At most one operating mode is in force, however commands, button presses
\* and safety stops follow each other: the precedence chain of loop() never
\* has two requests to choose between.
ModesExclusive ==
  /\ ~(extended_run /\ manual_override)
  /\ ~(extended_run /\ manual_disabled)
  /\ ~(manual_override /\ manual_disabled)

\* A timer is only ever running for a mode that is in force, so that a later
\* request never inherits an old start; a test in progress has a start to
\* measure from (loop() would raise on None), and an extended run that has
\* begun has ended it.
TimersMatchModes ==
  /\ manual_override_start # NoTime => manual_override
  /\ extended_run_start # NoTime => extended_run
  /\ test_running => test_start_time # NoTime /\ extended_run_start = NoTime

\* While a safety flag stands the pump is off: no command, update or cycle
\* turns it on without a cycle that found every condition clear.
FlagsMeanStopped == safety_flags # {} => ~pump_on

\* What pump_reason says of the pump is true of it.  ("test_skipped" may go
\* with a pump that starts in the same cycle; a command leaves the pump as
\* it was until the next cycle.)
ReasonTellsPump ==
  /\ pump_reason \in {"extended_run", "manual_boost", "solar_heating",
                      "periodic_test"} => pump_on
  /\ pump_reason \in {"boot", "OTA_update_starting", "dry_run_protect",
                      "enclosure_sensor_missing", "enclosure_overtemp",
                      "flow_return_sensor_missing", "holiday_mode", "sleep",
                      "insufficient_gain", "waiting_for_solar_gain"}
       => ~pump_on

\* No cycle leaves the pump running over dry pipes, or with electronics that
\* are too hot or unmeasured; without flow and return readings it runs for
\* nothing but an extended run.
Interlock ==
  [][Cycle /\ pump_on' =>
       /\ water_level_ok
       /\ tEnclosure = "ok"
       /\ delta_t_flow_return # "none" \/ extended_run']_vars

\* After a cycle the pump runs only for a request still in force, for a test,
\* or for solar gain within core hours and outside holidays.
PumpJustified ==
  [][Cycle /\ pump_on' =>
       \/ extended_run'
       \/ manual_override'
       \/ /\ core_hours /\ ~manual_disabled'
          /\ test_running' \/ delta_t_flow_return \in {"band", "high"}]_vars

-----------------------------------------------------------------------------
(* The abstract specification.                                              *)

\* The mode the flags encode, in the order in which loop() looks at them.
Mode == CASE extended_run -> "extended"
          [] ~extended_run /\ manual_override -> "boost"
          [] ~extended_run /\ ~manual_override /\ manual_disabled -> "holiday"
          [] OTHER -> "auto"

Policy == INSTANCE PumpPolicy WITH mode <- Mode, pump <- pump_on

\* The controller implements the policy: every step of it changes the mode
\* and the pump as some step of the policy does, or leaves both alone.
ImplementsPolicy == Policy!Spec
=============================================================================
