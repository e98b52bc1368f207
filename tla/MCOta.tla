-------------------------------- MODULE MCOta --------------------------------
(* Instance of Ota for TLC: main.py, ota.py, one more critical file, one    *)
(* that is only imported and one that nothing imports.                      *)
EXTENDS Ota, TLC

CONSTANTS main_py, ota_py, controller_py, mqtt_py, utils_py

ReleasesMade == {{controller_py, utils_py}, {main_py, ota_py}, {mqtt_py}}

\* main.py: the check comes before the other imports, "so that if a bad
\* update was applied, we restore and reboot before anything broken gets
\* imported".  An update, wherever it is interrupted, leaves a Pico that can
\* start.
AlwaysStarts == pc # "dead"

\* README: the Pico "atomically swaps them in", or rolls back: a firmware whose
\* files are all there and whole is one of the bundles published, never parts of
\* two.
WholeFirmware ==
  pc = "running" /\ (\A f \in Files : Whole(cur[f])) =>
    \E bundle \in {bundles[n] : n \in 1..Len(bundles)} :
      \A f \in Files : cur[f].ver = bundle[f]
=============================================================================
