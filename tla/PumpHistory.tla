----------------------------- MODULE PumpHistory -----------------------------
(***************************************************************************)
(* PumpController with history variables, for the properties that span     *)
(* many cycles.  They are driven by what happens to the controller (the    *)
(* requests it gets, the readings it meets, the pump it drives), never by  *)
(* its own mode flags and timers, and constrain nothing.                   *)
(***************************************************************************)
EXTENDS PumpController

VARIABLES
  run_asked,    \* length of the extended run in force, 0 without one
  run_until,    \* when it ends, once a cycle has served it
  boost_asked,  \* a boost is in force
  boost_until,  \* when it ends, once a cycle has served it
  fresh_at,     \* last cycle that kept the circuit fresh or rested for the night
  idle_since    \* since when the pump has rested in undisturbed auto

history == <<run_asked, run_until, boost_asked, boost_until,
             fresh_at, idle_since>>
allVars == <<vars, history>>

NothingAsked ==
  /\ run_asked = 0
  /\ run_until = NoTime
  /\ boost_asked = FALSE
  /\ boost_until = NoTime

HistoryInit == Init /\ NothingAsked /\ fresh_at = now /\ idle_since = now

Ask(run, boosting) ==
  /\ run_asked' = run
  /\ run_until' = NoTime
  /\ boost_asked' = boosting
  /\ boost_until' = NoTime

\* What each command asks for, and that it disturbs the idle pump.
HistoryCommand ==
  /\ idle_since' = now
  /\ UNCHANGED fresh_at
  /\ \/ \E duration \in RunRequests :
          /\ CommandExtendedRun(duration)
          /\ Ask(IF duration > ExtendedRunMax THEN ExtendedRunMax ELSE duration,
                 FALSE)
     \/ /\ CommandBoost
        /\ IF run_asked > 0 \/ boost_asked
           THEN UNCHANGED <<run_asked, run_until, boost_asked, boost_until>>
           ELSE Ask(0, TRUE)
     \/ CommandHoliday /\ Ask(0, FALSE)
     \/ /\ CommandAuto
        /\ run_asked' = 0
        /\ run_until' = NoTime
        /\ UNCHANGED <<boost_asked, boost_until>>
     \/ /\ CommandUnknown \/ OtaTrigger
        /\ UNCHANGED <<run_asked, run_until, boost_asked, boost_until>>

RunOwed == run_asked > 0 /\ (run_until # NoTime => now' < run_until)
BoostAsked(pressed) == boost_asked \/ (pressed /\ run_asked = 0)
BoostOver == boost_until # NoTime /\ now' > boost_until

\* A cycle serves what is asked, drops what has run out, and drops everything
\* when it finds the water or the enclosure unsafe.  A boost, unlike an
\* extended run, waits for the flow and return readings.
CycleAsked(pressed) ==
  IF Unsafe THEN Ask(0, FALSE)
  ELSE
  /\ run_asked' = IF RunOwed THEN run_asked ELSE 0
  /\ run_until' = CASE RunOwed /\ run_until = NoTime -> now' + run_asked
                    [] RunOwed /\ run_until # NoTime -> run_until
                    [] OTHER -> NoTime
  /\ IF BoostAsked(pressed) /\ delta_t_flow_return # "none"
     THEN /\ boost_asked' = ~BoostOver
          /\ boost_until' = CASE BoostOver -> NoTime
                              [] boost_until = NoTime ->
                                   now' + ManualOverrideDuration
                              [] OTHER -> boost_until
     ELSE /\ boost_asked' = BoostAsked(pressed)
          /\ UNCHANGED boost_until

\* The cycle reached the control logic.
Served == ~Unsafe /\ ~SensorsMissing

HistoryCycle ==
  \E gap \in LoopGaps, pressed \in BOOLEAN :
    /\ CycleWith(gap, pressed)
    /\ CycleAsked(pressed)
    /\ fresh_at' =
         IF Served /\ (IF pump_on' THEN pump_on
                       ELSE ~core_hours \/ manual_disabled')
         THEN now' ELSE fresh_at
    /\ idle_since' =
         IF /\ Served
            /\ core_hours /\ ~manual_disabled'
            /\ ~(pump_on \/ pump_on' \/ test_running \/ extended_run)
         THEN idle_since ELSE now'

HistoryNext ==
  \/ HistoryCommand
  \/ HistoryCycle
  \/ /\ Reboot
     /\ Ask(0, FALSE)
     /\ fresh_at' = now
     /\ idle_since' = now
  \/ /\ SenseTemps \/ SenseWater \/ HourChange \/ OtaCheck \/ OtaAborted
     /\ UNCHANGED history

HistorySpec == HistoryInit /\ [][HistoryNext]_allVars

-----------------------------------------------------------------------------
(* Properties.                                                              *)

\* README, extended run: the pump is on at every cycle from the request to
\* the asked time, clamped to the maximum, whatever the sun, the hour, the
\* flow and return readings or a boost request say; a safety stop, mode 0,
\* mode 2 or a restart ends it for good; it never lasts longer.
RunHonoured ==
  [][Cycle => /\ extended_run' <=> run_asked' > 0
              /\ run_asked' > 0 => pump_on']_allVars

\* A boost lasts its duration from the cycle that first serves it: requests
\* meanwhile do not stretch it, the hour does not shorten it, and after a
\* safety stop it does not come back.
BoostHonoured ==
  [][Cycle => /\ manual_override' <=> boost_asked'
              /\ boost_asked' /\ delta_t_flow_return # "none" => pump_on']_allVars

\* A periodic test starts no sooner than a test interval after the circuit
\* last circulated or automatic control last rested for the night, and with a
\* closed gate no sooner than the fallback interval.
TestNotEarly ==
  [][Cycle /\ test_running' /\ ~test_running =>
       /\ now' - fresh_at >= PumpTestInterval
       /\ GateEnabled /\ plate_pool_delta = "closed" =>
            now' - fresh_at >= GateFallback]_allVars

\* The gate only ever delays a test: undisturbed in auto, the pump rests less
\* than the longer of the two intervals.
StagnationBounded ==
  \/ now - idle_since < PumpTestInterval
  \/ now - idle_since < GateFallback
  \/ now = idle_since
=============================================================================
