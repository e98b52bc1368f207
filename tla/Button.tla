------------------------------- MODULE Button -------------------------------
(***************************************************************************)
(* sensors/button.py: a debounced push button, sampled in every pass.      *)
(***************************************************************************)
EXTENDS Ticks

CONSTANT ButtonDebounce

ASSUME ButtonAssumption == ButtonDebounce \in Nat

VARIABLES
  down,          \* the button is held down
  button_raw,    \* _last_raw: down at the last sample
  button_edge,   \* _edge_time
  reported,      \* _reported
  pressed        \* what is_pressed() answered last

button == <<button_raw, button_edge, reported, pressed>>

ButtonType ==
  /\ down \in BOOLEAN
  /\ button_raw \in BOOLEAN
  /\ button_edge \in 0..(TicksPeriod - 1)
  /\ reported \in BOOLEAN
  /\ pressed \in BOOLEAN

\* A button held down at power-up is not a press.
ButtonInit ==
  /\ down \in BOOLEAN
  /\ button_raw = down
  /\ button_edge = Ticks
  /\ reported = TRUE
  /\ pressed = FALSE

\* Slip: a press is never marked as reported.
AnyPress == down
\* Slip: the debounce time is measured on wrapping ticks.
SettledPlain == Ticks' - button_edge >= ButtonDebounce
\* An edge counts from the pass that sees it.
Settled ==
  TicksDiff(Ticks', IF down # button_raw THEN Ticks' ELSE button_edge)
    >= ButtonDebounce
\* Not reported since the last edge.
Unreported == down # button_raw \/ ~reported
Press == down /\ Unreported

IsPressed ==
  /\ button_raw' = down
  /\ button_edge' = IF down # button_raw THEN Ticks' ELSE button_edge
  /\ pressed' = (Settled /\ Press)
  /\ reported' = (~Unreported \/ pressed')
  /\ UNCHANGED down
=============================================================================
