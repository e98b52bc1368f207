------------------------------ MODULE Sensors ------------------------------
(***************************************************************************)
(* The sensors and the status LED as main.py drives them.  A pass of its   *)
(* loop reads temperatures and water level when SensorReadInterval has     *)
(* gone by, lets the controller look at the button and at the readings,    *)
(* and updates the LED.  Water, button and wiring change between passes.   *)
(*                                                                         *)
(* The interval is measured by time.time(), whole seconds of a clock that  *)
(* here goes on evenly (MainLoop has one that does not), so that a read    *)
(* may come up to one unit early.                                          *)
(***************************************************************************)
EXTENDS WaterLevel, Button, Temperature, StatusLed

CONSTANTS
  Enclosure,            \* the label tEnclosure
  SensorReadInterval,
  PassGaps,             \* possible times between two passes of the loop
  LongestPass           \* none of which is longer

ASSUME PassAssumption ==
  /\ Enclosure \in Labels
  /\ SensorReadInterval \in Nat \ {0}
  /\ LongestPass \in Nat
  /\ PassGaps \subseteq 0..LongestPass

VARIABLES
  last_sensor_read,   \* _last_sensor_read
  \* history, which constrains nothing:
  wet_since,          \* since when the water level is what it is
  same_since,         \* since when the samples of it have agreed
  agreed, agreed_at,  \* the level two successive samples agreed on, since when
  settled_at,         \* when the samples last agreed with what is reported
  down_since,         \* when the button went down, after a pass saw it up
  sampled_since,      \* since when its samples have agreed
  reported_at,        \* when a press was reported last
  unwired_since,      \* since when each sensor does not answer, or NoTime
  lost,               \* no conversion could be started since the last fetch
  step_since          \* since when the LED shows its step

levelHistory == <<wet_since, same_since, agreed, agreed_at, settled_at>>
buttonHistory == <<down_since, sampled_since, reported_at>>
wiringHistory == <<unwired_since, lost>>
history == <<levelHistory, buttonHistory, wiringHistory, step_since>>
vars == <<now, wet, level, down, button, bus, roms, temperature, flags, led,
          last_sensor_read, history>>

TypeOK ==
  /\ now \in Nat
  /\ LevelType
  /\ ButtonType
  /\ TemperatureType
  /\ LedType
  /\ last_sensor_read \in Int
  /\ {wet_since, same_since, agreed_at, settled_at, down_since, sampled_since,
      reported_at, step_since} \subseteq Nat
  /\ agreed \in BOOLEAN
  /\ unwired_since \in [Roms -> MaybeTimes]
  /\ lost \in BOOLEAN

\* Boot, up to the main loop, which reads at once.
Init ==
  /\ now = 1
  /\ LevelInit
  /\ ButtonInit
  /\ TemperatureInit
  /\ LedInit
  /\ last_sensor_read = now - SensorReadInterval
  /\ wet_since = now
  /\ same_since = now
  /\ agreed = wet
  /\ agreed_at = now
  /\ settled_at = now
  /\ down_since = 0
  /\ sampled_since = 0
  /\ reported_at = 0
  /\ unwired_since = [r \in Roms |-> IF r \in wired THEN NoTime ELSE now]
  /\ lost = (wired = {})
  /\ step_since = now

-----------------------------------------------------------------------------
(* The world.                                                               *)

WaterMoves ==
  /\ wet' = ~wet
  /\ wet_since' = now
  /\ UNCHANGED <<now, level, down, button, bus, roms, temperature, flags, led,
                 last_sensor_read, same_since, agreed, agreed_at, settled_at,
                 buttonHistory, wiringHistory, step_since>>

ButtonMoves ==
  /\ down' = ~down
  /\ down_since' = IF down' /\ ~button_raw THEN now ELSE down_since
  /\ UNCHANGED <<now, wet, level, button, bus, roms, temperature, flags, led,
                 last_sensor_read, levelHistory, sampled_since, reported_at,
                 wiringHistory, step_since>>

\* A sensor, or the cable they share, comes loose or is put back.
WiringChanges ==
  /\ wired' \in {wired \cup {r} : r \in Roms} \cup {wired \ {r} : r \in Roms}
                  \cup {{}, Roms}
  /\ wired' # wired
  /\ unwired_since' = [r \in Roms |-> CASE r \in wired' -> NoTime
                                        [] r \in wired \ wired' -> now
                                        [] OTHER -> unwired_since[r]]
  /\ converted' = [r \in Roms |-> IF r \in wired' \ wired THEN PowerOn
                                  ELSE converted[r]]
  /\ UNCHANGED <<now, wet, level, down, button, roms, temperature, flags, led,
                 last_sensor_read, levelHistory, buttonHistory, lost,
                 step_since>>

BrokerMoves ==
  /\ mqtt_connected' = ~mqtt_connected
  /\ UNCHANGED <<now, wet, level, down, button, bus, roms, temperature,
                 critical_error, enclosure_sensor_missing, led,
                 last_sensor_read, history>>

-----------------------------------------------------------------------------
(* A pass of the main loop.                                                 *)

SinceRead == now' - last_sensor_read

\* What the samples of the water level have shown, whatever the code made of
\* them.
SampleLevel ==
  /\ same_since' = IF wet = level_raw THEN same_since ELSE now'
  /\ IF wet = level_raw /\ wet # agreed
     THEN agreed' = wet /\ agreed_at' = now'
     ELSE UNCHANGED <<agreed, agreed_at>>
  /\ settled_at' = IF wet = level_raw /\ wet = level_stable' /\ wet = water_level_ok'
                   THEN now' ELSE settled_at
  /\ UNCHANGED wet_since

ReadSensors ==
  /\ SinceRead >= SensorReadInterval - 1
  /\ ReadTemperatures
  /\ ReadLevel
  /\ last_sensor_read' = now'
  /\ SampleLevel
  /\ lost' = CASE conversion_started = NoTime -> lost \/ wired = {}
               [] conversion_started # NoTime /\ ~Converting -> FALSE
               [] OTHER -> lost
  /\ UNCHANGED unwired_since

SkipSensors ==
  /\ SinceRead < SensorReadInterval
  /\ UNCHANGED <<wet, level, bus, roms, temperature, last_sensor_read,
                 levelHistory, wiringHistory>>

CheckButton ==
  /\ IsPressed
  /\ sampled_since' = IF down = button_raw THEN sampled_since ELSE now'
  /\ reported_at' = IF pressed' THEN now' ELSE reported_at
  /\ UNCHANGED down_since

EnclosureMissing == water_level_ok' /\ temps'[Enclosure] = NoTime

\* The safety chain notes a missing enclosure reading, unless dry pipes have
\* stopped it first.  The controller may raise before or after that, which is
\* remembered for good.
Control ==
  /\ UNCHANGED mqtt_connected
  /\ \/ /\ enclosure_sensor_missing' = EnclosureMissing
        /\ UNCHANGED critical_error
     \/ /\ critical_error' = TRUE
        /\ enclosure_sensor_missing' \in
             {enclosure_sensor_missing, EnclosureMissing}

Pass ==
  /\ \E gap \in PassGaps : now' = now + gap
  /\ ReadSensors \/ SkipSensors
  /\ CheckButton
  /\ Control
  /\ UpdateLed(~sensors_ok' \/ disconnected_sensors' # {})
  /\ step_since' = IF led' = led THEN step_since ELSE now'

Next ==
  \/ WaterMoves
  \/ ButtonMoves
  \/ WiringChanges
  \/ BrokerMoves
  \/ Pass

Spec == Init /\ [][Next]_vars

-----------------------------------------------------------------------------
(* Properties.                                                              *)

\* No two reads are further apart than this.
ReadGap == SensorReadInterval - 1 + LongestPass

\* Two samples until a dry level is stable, its delay, and one more to see
\* that the delay is over.
DryBound == 3 * ReadGap + DryDelay - 1

\* The tick counter did not wrap around between two moments.
NoWrap(from, to) == from \div TicksPeriod = to \div TicksPeriod

\* Dry pipes are noticed within DryBound, whatever the level did before,
\* unless the tick counter has wrapped around since the filter was last at
\* rest: the delays are plain differences of ticks (water_level.py:79, 86).
DryNoticed ==
  /\ ~wet
  /\ now - wet_since > DryBound
  /\ NoWrap(settled_at, wet_since + DryBound)
  => ~water_level_ok

\* A level is only believed some time after two successive samples agreed on
\* it, and while no two have agreed on the other one since: no single sample,
\* and no bouncing of the switch, decides (with the same proviso).
OnlyAgreedLevels ==
  [][water_level_ok' # water_level_ok /\ NoWrap(settled_at, now') =>
       /\ water_level_ok' = agreed'
       /\ now' - agreed_at' >= IF agreed' THEN WetDelay ELSE DryDelay]_vars

\* A button held down for longer than two passes and the debounce time has
\* been reported, at any time of the tick counter.
PressNoticed ==
  down /\ down_since > 0 /\ now - down_since > 2 * LongestPass + ButtonDebounce
    => reported_at > down_since

\* What is reported is a press: the samples say so for the debounce time, and
\* have said otherwise since the press reported before.
OnlyRealPresses ==
  [][pressed' /\ Pass => /\ down
                         /\ now' - sampled_since' >= ButtonDebounce
                         /\ sampled_since' > 0
                         /\ sampled_since' >= reported_at]_vars

\* The LED never stops blinking: no step outlasts its time by more than a
\* pass, at any time of the tick counter.
LedBlinks == now - step_since < Length(pattern, lit) + LongestPass

\* A conversion is started by one read, fetched by another, and the next pair
\* ends the life of a reading.
FreshBound == 3 * ReadGap + ConversionTime

\* While conversions can be started no reading is older than FreshBound: the
\* two phases never leave an old one standing beside new ones.
TempsFresh ==
  ~lost => \A l \in Labels : temps[l] \in Nat => now - temps[l] <= FreshBound

\* A sensor that was there at boot and does not answer any more is noticed
\* while others answer: its reading is gone, it is listed, and the LED shows
\* it.
LossNoticed ==
  ~lost => \A r \in roms :
    unwired_since[r] # NoTime /\ now - unwired_since[r] > FreshBound =>
      /\ r \in Labels => temps[r] = NoTime
      /\ r \in disconnected_sensors
      /\ pattern \in {"critical", "sensor_missing"}
=============================================================================
