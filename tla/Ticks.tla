------------------------------- MODULE Ticks -------------------------------
(***************************************************************************)
(* time.ticks_ms and its helpers, as sensors/*.py and status_led.py use    *)
(* them: a counter that wraps around, and a difference that knows it.      *)
(***************************************************************************)
EXTENDS Integers

CONSTANT TicksPeriod   \* 2^30 ms on the Pico

ASSUME TicksAssumption == TicksPeriod \in Nat \ {0}

VARIABLE now   \* time since power-up

Ticks == now % TicksPeriod

\* ticks_diff: between minus and plus half a period.
TicksDiff(a, b) ==
  LET half == TicksPeriod \div 2
  IN  ((a - b + half) % TicksPeriod) - half

\* Slip: the sum is not wrapped.
AddPlain(t, delta) == t + delta
\* ticks_add
TicksAdd(t, delta) == (t + delta) % TicksPeriod
=============================================================================
