---------------------------- MODULE Temperature ----------------------------
(***************************************************************************)
(* sensors/temperature.py: DS18x20 sensors on one bus, read in two phases. *)
(* A sensor is named by its ROM, or by the label config.py gives that ROM. *)
(* A reading is abstracted to the time at which it was measured.           *)
(***************************************************************************)
EXTENDS Ticks

CONSTANTS
  Roms,             \* the sensors there may be
  Labels,           \* those that rom_to_label names
  ConversionTime,   \* CONVERSION_MS
  NoTime,           \* None
  PowerOn           \* what a sensor gives that has not measured since it got
                    \* its power, 85 degrees

ASSUME RomsAssumption == Labels \subseteq Roms
ASSUME ConversionAssumption ==
  ConversionTime \in Nat /\ NoTime \notin Int /\ PowerOn \notin Int

VARIABLES
  wired,                  \* sensors that answer on the bus
  converted,              \* when each sensor last measured
  roms,                   \* those the scan at boot has found
  conversion_started,     \* _conversion_started_ms
  temps,                  \* state["temps"]: when each reading was measured
  disconnected_sensors,   \* state["disconnected_sensors"]
  sensors_ok              \* state["sensors_ok"]

bus == <<wired, converted>>
temperature == <<conversion_started, temps, disconnected_sensors, sensors_ok>>

MaybeTimes == Nat \cup {NoTime}
Readings == MaybeTimes \cup {PowerOn}
TemperatureType ==
  /\ wired \subseteq Roms
  /\ converted \in [Roms -> Nat \cup {PowerOn}]
  /\ roms \subseteq Roms
  /\ conversion_started \in 0..(TicksPeriod - 1) \cup {NoTime}
  /\ temps \in [Labels -> Readings]
  /\ disconnected_sensors \subseteq roms
  /\ sensors_ok \in BOOLEAN

\* convert_temp: every sensor that answers measures.
Measured(time) == [r \in Roms |-> IF r \in wired THEN time ELSE converted[r]]

\* The scan and the first read() of main.py, which starts a conversion.
TemperatureInit ==
  /\ wired \in SUBSET Roms
  /\ converted = [r \in Roms |-> IF r \in wired THEN now ELSE PowerOn]
  /\ roms = wired
  /\ conversion_started = IF wired = {} THEN NoTime ELSE Ticks
  /\ temps = [l \in Labels |-> NoTime]
  /\ disconnected_sensors = {}
  /\ sensors_ok = FALSE

\* start_conversion; without any sensor on the bus it raises, which leaves
\* everything as it is.
StartConversion ==
  /\ conversion_started = NoTime
  /\ IF wired = {} THEN UNCHANGED <<conversion_started, converted>>
     ELSE /\ conversion_started' = Ticks'
          /\ converted' = Measured(now')
  /\ UNCHANGED <<temps, disconnected_sensors, sensors_ok>>

Converting == TicksDiff(Ticks', conversion_started) < ConversionTime

AwaitConversion ==
  /\ conversion_started # NoTime
  /\ Converting
  /\ UNCHANGED <<converted, temperature>>

\* Slip: an unreadable sensor keeps its last reading.
ReadKept(l) == IF l \in roms \cap wired THEN converted[l] ELSE temps[l]
\* read_temp: the reading of a sensor that does not answer is None; one that
\* the scan has not found has none to replace.
Read(l) == CASE l \notin roms -> temps[l]
             [] l \in roms \cap wired -> converted[l]
             [] OTHER -> NoTime

\* Slip: a finished conversion is read over and over.
KeepConversion == UNCHANGED conversion_started
EndConversion == conversion_started' = NoTime

FetchReadings ==
  /\ conversion_started # NoTime
  /\ ~Converting
  /\ EndConversion
  /\ temps' = [l \in Labels |-> Read(l)]
  /\ disconnected_sensors' = (roms \ wired) \cup (roms \ Labels)
  /\ sensors_ok' = (disconnected_sensors' = {})
  /\ UNCHANGED converted

ReadTemperatures ==
  /\ StartConversion \/ AwaitConversion \/ FetchReadings
  /\ UNCHANGED <<wired, roms>>
=============================================================================
