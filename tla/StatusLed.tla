----------------------------- MODULE StatusLed -----------------------------
(***************************************************************************)
(* status_led.py: the pattern that tells the worst of several conditions,  *)
(* and the steps it blinks in.                                             *)
(***************************************************************************)
EXTENDS Ticks

CONSTANT StepTime   \* PATTERNS: how long each pattern stays on, and off

Patterns == {"critical", "sensor_missing", "mqtt_offline", "ok"}

ASSUME StepTimeAssumption == StepTime \in [Patterns -> [1..2 -> Nat]]

VARIABLES
  \* the keys of state it reads, the sensors' own aside
  critical_error, enclosure_sensor_missing, mqtt_connected,
  pattern,     \* pattern_name
  lit,         \* the step with index 0
  next_step    \* next_ms

flags == <<critical_error, enclosure_sensor_missing, mqtt_connected>>
led == <<pattern, lit, next_step>>

LedType ==
  /\ critical_error \in BOOLEAN
  /\ enclosure_sensor_missing \in BOOLEAN
  /\ mqtt_connected \in BOOLEAN
  /\ pattern \in Patterns
  /\ lit \in BOOLEAN
  /\ next_step \in 0..(TicksPeriod - 1)

Length(name, on) == StepTime[name][IF on THEN 1 ELSE 2]

LedInit ==
  /\ critical_error = FALSE
  /\ enclosure_sensor_missing = FALSE
  /\ mqtt_connected \in BOOLEAN
  /\ pattern = "ok"
  /\ lit = TRUE
  /\ next_step = TicksAdd(Ticks, Length("ok", TRUE))

\* _choose_pattern_name, from the state this pass leaves
ChosenPattern(fault) ==
  CASE critical_error' -> "critical"
    [] ~critical_error' /\ (fault \/ enclosure_sensor_missing') ->
         "sensor_missing"
    [] ~critical_error' /\ ~fault /\ ~enclosure_sensor_missing' /\
       ~mqtt_connected' -> "mqtt_offline"
    [] OTHER -> "ok"

SetPattern(name) ==
  /\ pattern' = name
  /\ lit' = TRUE
  /\ next_step' = TicksAdd(Ticks', Length(name, TRUE))

\* Slip: ticks are compared as numbers.
StepOverPlain == Ticks' >= next_step
StepOver == TicksDiff(Ticks', next_step) >= 0

Blink ==
  /\ lit' = ~lit
  /\ next_step' = TicksAdd(Ticks', Length(pattern, lit'))
  /\ UNCHANGED pattern

\* update(); fault tells whether a sensor is missing
UpdateLed(fault) ==
  IF ChosenPattern(fault) # pattern THEN SetPattern(ChosenPattern(fault))
  ELSE IF StepOver THEN Blink
  ELSE UNCHANGED led
=============================================================================
