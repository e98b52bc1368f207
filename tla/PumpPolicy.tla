----------------------------- MODULE PumpPolicy -----------------------------
(***************************************************************************)
(* What the controller promises its operators, without timers, readings or *)
(* flags: one mode at a time, who may change it, and what each mode allows *)
(* the pump.  PumpController implements it with four flags and a chain of  *)
(* early returns.                                                          *)
(***************************************************************************)

VARIABLES mode, pump

TypeOK == mode \in {"auto", "holiday", "boost", "extended"} /\ pump \in BOOLEAN

Init == mode = "auto" /\ pump = FALSE

\* A command changes the mode, never the pump.  A boost starts from auto or
\* holiday only, and only its timer ends it short of holiday or a longer run.
Request ==
  /\ \/ mode' \in {"extended", "holiday"}
     \/ mode' = "boost" /\ mode \in {"auto", "holiday"}
     \/ mode' = "auto" /\ mode # "boost"
  /\ UNCHANGED pump

\* The button starts a boost within the cycle that serves it; a missing
\* flow or return reading makes the boost wait.
Press ==
  /\ mode \in {"auto", "holiday"}
  /\ mode' = "boost"
  /\ pump' \in BOOLEAN

\* Holiday rests the pump; an extended run keeps it on; a boost keeps it on
\* or waits; in auto it follows the sun.
Serve ==
  /\ mode' = mode
  /\ mode = "holiday" => ~pump'
  /\ mode = "extended" => pump'
  /\ pump' \in BOOLEAN

\* A timer runs out: back to auto.
Expire ==
  /\ mode \in {"boost", "extended"}
  /\ mode' = "auto"
  /\ pump' \in BOOLEAN

\* The pump can be stopped in any mode.  A safety stop ends boosts and
\* extended runs for good, a restart ends every mode, an update check none.
Stop == pump' = FALSE /\ mode' \in {mode, "auto"}

Next == Request \/ Press \/ Serve \/ Expire \/ Stop

Spec == Init /\ [][Next]_<<mode, pump>>
=============================================================================
