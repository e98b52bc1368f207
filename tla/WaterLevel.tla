----------------------------- MODULE WaterLevel -----------------------------
(***************************************************************************)
(* sensors/water_level.py: the float or capacitive switch, debounced, and  *)
(* confirmed over a delay.  It is sampled only when main.py reads it.      *)
(***************************************************************************)
EXTENDS Ticks

CONSTANTS DebounceTime, WetDelay, DryDelay

ASSUME DelaysAssumption ==
  DebounceTime \in Nat /\ WetDelay \in Nat /\ DryDelay \in Nat

VARIABLES
  wet,             \* whether there is water at the sensor
  level_raw,       \* _last_raw
  level_stable,    \* _stable
  level_edge,      \* _edge_time
  stable_since,    \* _stable_since
  water_level_ok   \* stable_state, which main.py copies into state

level == <<level_raw, level_stable, level_edge, stable_since, water_level_ok>>

TickValues == 0..(TicksPeriod - 1)
LevelType ==
  /\ wet \in BOOLEAN
  /\ level_raw \in BOOLEAN
  /\ level_stable \in BOOLEAN
  /\ level_edge \in TickValues
  /\ stable_since \in TickValues
  /\ water_level_ok \in BOOLEAN

\* __init__ takes the level as it finds it.
LevelInit ==
  /\ wet \in BOOLEAN
  /\ level_raw = wet
  /\ level_stable = wet
  /\ level_edge = Ticks
  /\ stable_since = Ticks
  /\ water_level_ok = wet

\* Slip: one sample is enough.
EdgeAtOnce == TRUE
\* The second of two equal samples, if the debounce time lies between them.
EdgeHeld == wet = level_raw /\ Ticks' - level_edge >= DebounceTime

\* Slip: a level that is stable already is taken for a new one.
AlwaysDiffers == TRUE
Differs == wet # level_stable

\* read(), first stage: a level becomes stable.
Debounce ==
  /\ level_raw' = wet
  /\ level_edge' = IF wet # level_raw THEN Ticks' ELSE level_edge
  /\ IF Differs /\ EdgeHeld
     THEN level_stable' = wet /\ stable_since' = Ticks'
     ELSE UNCHANGED <<level_stable, stable_since>>

\* Slip: what is stable is believed.
NoDelay == 0
\* The confirmation that the stable level still needs.
Delay == IF level_stable' THEN WetDelay ELSE DryDelay

\* read(), second stage: a stable level is believed after its delay, by a
\* plain difference of ticks.
Confirm ==
  water_level_ok' = IF Ticks' - stable_since' >= Delay THEN level_stable'
                                                       ELSE water_level_ok

ReadLevel == Debounce /\ Confirm /\ UNCHANGED wet
=============================================================================
