----------------------------- MODULE MCSensors -----------------------------
(* Instance of Sensors for TLC, in seconds: a tick counter of 16 instead of *)
(* 2^20 seconds, an unbounded time seen through the ages of its timestamps. *)
(* The parts share nothing but the time and the LED, so that one kind of    *)
(* input at a time is disturbed.                                            *)
EXTENDS Sensors, TLC

CONSTANTS enclosure, flow, spare, MaxRewirings

StepTimes == [name \in Patterns |-> IF name = "ok" THEN <<1, 2>> ELSE <<1, 1>>]

VARIABLES
  disturbed,   \* the kind of input that changes in this behaviour
  rewirings    \* changes of the wiring so far

MCInit ==
  /\ Init
  /\ disturbed \in {"water", "button", "wires", "broker"}
  /\ disturbed # "water" => wet
  /\ disturbed # "button" => ~down
  /\ disturbed # "wires" => wired = Labels
  /\ disturbed # "broker" => mqtt_connected
  /\ rewirings = 0

MCNext ==
  /\ UNCHANGED disturbed
  /\ \/ /\ \/ disturbed = "water" /\ WaterMoves
           \/ disturbed = "button" /\ ButtonMoves
           \/ disturbed = "broker" /\ BrokerMoves
           \/ Pass /\ (disturbed = "broker" \/ ~critical_error')
        /\ UNCHANGED rewirings
     \/ /\ disturbed = "wires" /\ rewirings < MaxRewirings
        /\ WiringChanges
        /\ rewirings' = rewirings + 1

MCSpec == MCInit /\ [][MCNext]_<<vars, disturbed, rewirings>>

Age(t, cap) == IF t \notin Nat THEN t
               ELSE IF now - t < cap THEN now - t ELSE cap

\* README.md:20: "Enclosure sensor - pump off if the electronics temperature
\* sensor is missing".  When it has been missing for longer than FreshBound
\* its reading is None, by which the safety chain stops the pump.
EnclosureLossNoticed ==
  /\ unwired_since[Enclosure] # NoTime
  /\ now - unwired_since[Enclosure] > FreshBound
  => temps[Enclosure] = NoTime

LevelView ==
  <<wet, level_raw, level_stable, water_level_ok,
    IF level_raw # level_stable THEN level_edge ELSE 0,
    IF level_stable # water_level_ok THEN stable_since ELSE 0>>

LevelAges ==
  IF disturbed # "water" THEN <<>>
  ELSE <<Age(wet_since, DryBound + 1), NoWrap(settled_at, now),
         NoWrap(settled_at, wet_since + DryBound),
         Age(same_since, DryDelay), agreed, Age(agreed_at, DryDelay)>>

ButtonView ==
  IF disturbed # "button" THEN <<down, button_raw, reported>>
  ELSE <<down, button_raw, button_edge, reported, pressed,
         reported_at > down_since, sampled_since >= reported_at,
         down_since > 0, Age(down_since, 2 * LongestPass + ButtonDebounce + 1),
         sampled_since > 0, Age(sampled_since, ButtonDebounce)>>

\* Nothing but the properties looks at how old a reading is.
WiresView ==
  LET Seen(t) == IF disturbed = "wires" THEN Age(t, FreshBound + 1)
                 ELSE IF t \in Nat THEN TRUE ELSE t
  IN  <<rewirings, wired, roms, conversion_started, disconnected_sensors,
        sensors_ok,
        [r \in wired |-> IF conversion_started = NoTime THEN 0
                         ELSE Seen(converted[r])],
        [l \in Labels |-> Seen(temps[l])],
        [r \in roms |-> Seen(unwired_since[r])], lost>>

LedView ==
  IF disturbed # "broker" THEN <<flags, pattern>>
  ELSE <<flags, led, Age(step_since, Length(pattern, lit) + LongestPass)>>

AgesView ==
  <<disturbed, Ticks, Age(last_sensor_read, SensorReadInterval), LevelView,
    LevelAges, ButtonView, WiresView, LedView>>
=============================================================================
