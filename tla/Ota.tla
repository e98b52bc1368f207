-------------------------------- MODULE Ota --------------------------------
(***************************************************************************)
(* The over-the-air updater of ota.py, with the boot of main.py that calls *)
(* it and with power cuts between any two changes to the flash.            *)
(*                                                                         *)
(* Each file of the firmware has up to three copies on the flash: itself,  *)
(* <path>.new and <path>.bak.  A copy is abstracted to its __version__ and *)
(* to whether it is whole, a part of a file that happens to compile (cut   *)
(* between two statements) or does not compile.  bundles is what the       *)
(* project has published: the n-th entry gives every file's version in the *)
(* n-th manifest, the last entry is what the server holds now.             *)
(*                                                                         *)
(* Faults (a failing download, a spurious read error, a failing rename or  *)
(* remove, a power cut) are drawn from a budget of MaxFaults.              *)
(***************************************************************************)
EXTENDS Integers, Sequences

CONSTANTS
  Files,        \* the files the manifest lists
  Critical,     \* CRITICAL_FILES
  Needed,       \* files without which main.py's imports fail
  Main, Self,   \* main.py and ota.py
  Absent,       \* no such file on the flash
  Releases,     \* the sets of files that a release may change
  MaxBundles,   \* bound on the bundles published
  MaxFaults     \* bound on the faults

ASSUME FilesAssumption ==
  /\ Critical \subseteq Needed
  /\ Needed \subseteq Files
  /\ Main \in Critical
  /\ Self \in Critical
  /\ Releases \subseteq SUBSET Files
ASSUME BoundsAssumption == MaxBundles \in Nat /\ MaxFaults \in Nat

\* What _read_version makes of a file with no __version__ in it.
NoVersion == -1
Contents == [ver : Nat \cup {NoVersion}, kind : {"whole", "part", "broken"}]
ASSUME AbsentAssumption == Absent \notin Contents /\ Absent \notin Files

VARIABLES
  bundles,        \* published so far
  cur, new, bak,  \* the flash: path, path.new and path.bak of each file
  fw,             \* bundle manifest.json tells of, 0 when it is unreadable
  pc,             \* where the program is
  todo,           \* files the current loop has yet to handle
  hand, step,     \* the one it is handling, and how far it got with it
  fetched,        \* files this check has downloaded
  target,         \* bundle whose manifest this check has fetched
  intact,         \* history: the last update was complete, nothing undid it
  faults          \* faults so far

flash == <<cur, new, bak, fw>>
handling == <<hand, step>>
check == <<fetched, target>>
vars == <<bundles, flash, pc, todo, handling, check, intact, faults>>

Phases == {"boot", "restoring", "cleaning", "running", "downloading",
           "applying", "recording", "dead"}

\* Every copy on the flash is a non-empty file; loops handle known files.
Copies == [Files -> Contents \cup {Absent}]
FlashType == cur \in Copies /\ new \in Copies /\ bak \in Copies
LoopType ==
  /\ pc \in Phases
  /\ todo \subseteq Files
  /\ hand \in Files \cup {Absent}
  /\ step \in 0..1
  /\ fetched \subseteq Files
BundlesType ==
  /\ bundles \in Seq([Files -> Nat])
  /\ target \in 1..Len(bundles)
  /\ fw \in 0..Len(bundles)
  /\ intact \in BOOLEAN
  /\ faults \in Nat
TypeOK == FlashType /\ LoopType /\ BundlesType

Served == bundles[Len(bundles)]
Whole(copy) == copy # Absent /\ copy.kind = "whole"
\* It is there, and it compiles.
Good(copy) == copy # Absent /\ copy.kind # "broken"

\* The first deployment, by hand.
Init ==
  /\ bundles = <<[f \in Files |-> 0]>>
  /\ cur = [f \in Files |-> [ver |-> 0, kind |-> "whole"]]
  /\ new = [f \in Files |-> Absent]
  /\ bak = [f \in Files |-> Absent]
  /\ fw = 1
  /\ pc = "boot"
  /\ todo = {}
  /\ hand = Absent
  /\ step = 0
  /\ fetched = {}
  /\ target = 1
  /\ intact = TRUE
  /\ faults = 0

\* The project publishes a bundle that changes some files.
Publish ==
  /\ Len(bundles) < MaxBundles
  /\ \E changed \in Releases :
       bundles' = Append(bundles,
                         [f \in Files |-> IF f \in changed THEN Len(bundles)
                                                           ELSE Served[f]])
  /\ UNCHANGED <<flash, pc, todo, handling, check, intact, faults>>

Fault == faults < MaxFaults /\ faults' = faults + 1
NoFault == UNCHANGED faults

-----------------------------------------------------------------------------
(* Boot: verify_or_rollback, then the imports of main.py.  Code that was    *)
(* cut short may lack what they need, even though it compiles.              *)

\* Slip: only what has something to replace is restored.
ReplacingBackups == {f \in Files : bak[f] # Absent /\ cur[f] # Absent}
\* _find_bak_files
Backups == {f \in Files : bak[f] # Absent}

\* Slip: a missing file is not a failed one.
Uncompilable == {f \in Critical : cur[f] # Absent /\ ~Good(cur[f])}
\* Files whose verification fails, a spurious failure to read one aside.
Failed == {f \in Critical : ~Good(cur[f])}

\* main.py is there and can import ota.py, so that anything is verified.
Starts == Good(cur[Main]) /\ Good(cur[Self])

BootDies ==
  /\ pc = "boot"
  /\ ~(Whole(cur[Main]) /\ Whole(cur[Self]))
  /\ pc' = "dead"
  /\ NoFault
  /\ UNCHANGED <<bundles, flash, todo, handling, check, intact>>

BootFails ==
  /\ pc = "boot"
  /\ Starts
  /\ \/ Failed # {} /\ NoFault
     \/ Failed = {} /\ Fault
  /\ pc' = "restoring"
  /\ todo' = Backups
  /\ intact' = FALSE
  /\ UNCHANGED <<bundles, flash, handling, check>>

BootPasses ==
  /\ pc = "boot"
  /\ Starts
  /\ Failed = {}
  /\ pc' = "cleaning"
  /\ todo' = Backups
  /\ NoFault
  /\ UNCHANGED <<bundles, flash, handling, check, intact>>

\* Takes up the next file of the current loop.
Take(f) ==
  /\ hand = Absent
  /\ f \in todo
  /\ hand' = f
  /\ todo' = todo \ {f}

\* Done with the file in hand, one way or the other.
PutDown == hand' = Absent /\ step' = 0

\* _restore_backups, file by file: remove the original, if there is one ...
RestoreRemove ==
  /\ pc = "restoring"
  /\ \E f \in Files :
       /\ Take(f)
       /\ cur' = [cur EXCEPT ![f] = Absent]
  /\ NoFault
  /\ UNCHANGED <<bundles, new, bak, fw, pc, step, check, intact>>

\* ... and give the backup its name.
RestoreRename ==
  /\ pc = "restoring"
  /\ hand # Absent
  /\ cur' = [cur EXCEPT ![hand] = bak[hand]]
  /\ bak' = [bak EXCEPT ![hand] = Absent]
  /\ PutDown
  /\ NoFault
  /\ UNCHANGED <<bundles, new, fw, pc, todo, check, intact>>

\* Either step raises: the next file is tried.
RestoreFails ==
  /\ pc = "restoring"
  /\ \/ hand # Absent /\ UNCHANGED todo
     \/ hand = Absent /\ \E f \in todo : todo' = todo \ {f}
  /\ PutDown
  /\ Fault
  /\ UNCHANGED <<bundles, flash, pc, check, intact>>

Restored ==
  /\ pc = "restoring"
  /\ todo = {} /\ hand = Absent
  /\ pc' = "boot"
  /\ NoFault
  /\ UNCHANGED <<bundles, flash, todo, handling, check, intact>>

\* _delete_backups; a remove that raises leaves its backup behind.
CleanUp ==
  /\ pc = "cleaning"
  /\ \E f \in todo :
       /\ todo' = todo \ {f}
       /\ \/ bak' = [bak EXCEPT ![f] = Absent] /\ NoFault
          \/ UNCHANGED bak /\ Fault
  /\ UNCHANGED <<bundles, cur, new, fw, pc, handling, check, intact>>

\* The imports that follow succeed, or main.py ends here.
Imports ==
  /\ pc = "cleaning"
  /\ todo = {}
  /\ \/ pc' = "running" /\ \A f \in Needed : Good(cur[f])
     \/ pc' = "dead" /\ \E f \in Needed : ~Whole(cur[f])
  /\ NoFault
  /\ UNCHANGED <<bundles, flash, todo, handling, check, intact>>

-----------------------------------------------------------------------------
(* check_for_update, up to the first rename.                                *)

\* Slip: a file that is missing has no version to be behind.
OutdatedPresent(bundle) ==
  {f \in Files : cur[f] # Absent /\ cur[f].ver # bundle[f]}
\* _read_version against the manifest; a missing file has version None.
Outdated(bundle) == {f \in Files : cur[f] = Absent \/ cur[f].ver # bundle[f]}

\* A manifest that cannot be fetched or names nothing new changes nothing; a
\* version that cannot be read counts as an old one.
CheckForUpdate ==
  /\ pc = "running"
  /\ \/ todo' = Outdated(Served) /\ NoFault
     \/ \E f \in Files : todo' = Outdated(Served) \cup {f} /\ Fault
  /\ todo' # {}
  /\ pc' = "downloading"
  /\ fetched' = {}
  /\ target' = Len(bundles)
  /\ UNCHANGED <<bundles, flash, handling, intact>>

\* What the server sends now, not when the manifest was fetched.
Downloaded(f) == [ver |-> Served[f], kind |-> "whole"]

\* Slip: an empty response is not refused.
PartialsOrNothing(f) == {[ver |-> NoVersion, kind |-> k] : k \in {"part", "empty"}}
\* What may come of an answer that is cut short.  Where the cut falls decides
\* whether the rest compiles and whether it has the version's line.
Partials(f) ==
  {[ver |-> NoVersion, kind |-> "broken"]} \cup
  [ver : {Served[f], NoVersion}, kind : {"part"}]

Download ==
  /\ pc = "downloading"
  /\ \E f \in todo :
       /\ \/ new' = [new EXCEPT ![f] = Downloaded(f)] /\ NoFault
          \/ \E part \in Partials(f) : new' = [new EXCEPT ![f] = part] /\ Fault
       /\ todo' = todo \ {f}
       /\ fetched' = fetched \cup {f}
  /\ UNCHANGED <<bundles, cur, bak, fw, pc, handling, target, intact>>

\* _cleanup_new_files
Cleaned == [f \in Files |-> IF f \in fetched THEN Absent ELSE new[f]]

\* One failure aborts the update.  A partial file is removed after an
\* exception, and an old one stays after a refused response.
DownloadFails ==
  /\ pc = "downloading"
  /\ \E f \in todo :
       new' \in {Cleaned, [Cleaned EXCEPT ![f] = Absent]}
  /\ pc' = "running"
  /\ todo' = {}
  /\ Fault
  /\ UNCHANGED <<bundles, cur, bak, fw, handling, check, intact>>

\* Slip: the downloads are not compiled before they are installed.
Unchecked == TRUE
\* _verify_file on each download
Verified == \A f \in fetched : Good(new[f])

VerifyPasses ==
  /\ pc = "downloading"
  /\ todo = {}
  /\ Verified
  /\ pc' = "applying"
  /\ todo' = fetched
  /\ NoFault
  /\ UNCHANGED <<bundles, flash, handling, check, intact>>

VerifyFails ==
  /\ pc = "downloading"
  /\ todo = {}
  /\ \/ ~Verified /\ NoFault
     \/ Verified /\ Fault
  /\ new' = Cleaned
  /\ pc' = "running"
  /\ UNCHANGED <<bundles, cur, bak, fw, todo, handling, check, intact>>

-----------------------------------------------------------------------------
(* _apply_one for each download, ota.py last.                               *)

\* Remove an old backup, if there is one.
ApplyClear ==
  /\ pc = "applying"
  /\ \E f \in Files :
       /\ Take(f)
       /\ f = Self => todo = {Self}
       /\ bak' = [bak EXCEPT ![f] = Absent]
  /\ NoFault
  /\ UNCHANGED <<bundles, cur, new, fw, pc, step, check, intact>>

\* Slip: the current file is removed to make room, not kept.
BackUpNothing(f) == bak
BackedUp(f) == [bak EXCEPT ![f] = cur[f]]

\* Back up the current file, if there is one.
ApplyBackUp ==
  /\ pc = "applying"
  /\ hand # Absent /\ step = 0
  /\ bak' = BackedUp(hand)
  /\ cur' = [cur EXCEPT ![hand] = Absent]
  /\ step' = 1
  /\ NoFault
  /\ UNCHANGED <<bundles, new, fw, pc, todo, hand, check, intact>>

\* Activate the new one.
ApplyActivate ==
  /\ pc = "applying"
  /\ hand # Absent /\ step = 1
  /\ cur' = [cur EXCEPT ![hand] = new[hand]]
  /\ new' = [new EXCEPT ![hand] = Absent]
  /\ PutDown
  /\ NoFault
  /\ UNCHANGED <<bundles, bak, fw, pc, todo, check, intact>>

\* Any of the three raises: the next file is applied, and the update goes on.
ApplyFails ==
  /\ pc = "applying"
  /\ \/ hand # Absent /\ UNCHANGED todo
     \/ hand = Absent /\ \E f \in todo :
          /\ f = Self => todo = {Self}
          /\ todo' = todo \ {f}
  /\ PutDown
  /\ intact' = FALSE
  /\ Fault
  /\ UNCHANGED <<bundles, flash, pc, check>>

Applied ==
  /\ pc = "applying"
  /\ todo = {} /\ hand = Absent
  /\ pc' = "recording"
  /\ NoFault
  /\ UNCHANGED <<bundles, flash, todo, handling, check, intact>>

\* Slip: the manifest that is written is what the server holds by now.
LatestManifest == Len(bundles)
\* The manifest that the check began with.
Manifest == target

\* manifest.json is written, or its writing raises; then the Pico resets.
Record ==
  /\ pc = "recording"
  /\ \/ fw' = Manifest /\ NoFault
     \/ fw' \in {0, fw} /\ Fault
  /\ pc' = "boot"
  /\ intact' = \A f \in fetched : new[f] = Absent
  /\ UNCHANGED <<bundles, cur, new, bak, todo, handling, check>>

-----------------------------------------------------------------------------
\* The power goes, anywhere; of a file being written a part is left.
PowerCut ==
  /\ pc # "dead"
  /\ Fault
  /\ \/ UNCHANGED new
     \/ /\ pc = "downloading"
        /\ \E f \in todo : \E part \in Partials(f) :
             new' = [new EXCEPT ![f] = part]
  /\ fw' \in {fw} \cup (IF pc = "recording" THEN {0} ELSE {})
  /\ pc' = "boot"
  /\ todo' = {}
  /\ PutDown
  /\ fetched' = {}
  /\ intact' = (intact /\ step = 0)
  /\ UNCHANGED <<bundles, cur, bak, target>>

Boot == BootDies \/ BootFails \/ BootPasses
Restore == RestoreRemove \/ RestoreRename \/ RestoreFails \/ Restored
Fetch == Download \/ DownloadFails \/ VerifyPasses \/ VerifyFails
Apply == ApplyClear \/ ApplyBackUp \/ ApplyActivate \/ ApplyFails \/ Applied
\* What the program does by itself, once an update is asked for.
Program == Boot \/ Restore \/ CleanUp \/ Imports \/ Fetch \/ Apply \/ Record

Next == Publish \/ CheckForUpdate \/ Program \/ PowerCut

Spec == Init /\ [][Next]_vars

\* The program runs, and the operator keeps asking for updates.
FairSpec == Spec /\ WF_vars(Program) /\ WF_vars(CheckForUpdate)

-----------------------------------------------------------------------------
(* Properties.                                                              *)

\* Wherever the power goes, and whatever renames fail, each critical file is
\* on the flash in a copy that compiles, under its own name or as a backup:
\* nothing the updater does makes a rollback impossible.
CriticalRecoverable ==
  \A f \in Critical : Good(cur[f]) \/ Good(bak[f])

\* Only downloads that compile are ever installed, and only such files kept
\* as backups, however responses are cut short.
InstalledCompiles ==
  \A f \in Files : /\ cur[f] # Absent => Good(cur[f])
                   /\ bak[f] # Absent => Good(bak[f])

\* The bundle that manifest.json tells of, and main.py reports, is never ahead of
\* the files, whatever is released while an update goes on: after a complete
\* update that nothing has undone, each file is the one of that bundle or of a
\* later one, or was cut short before its version.
ManifestNotAhead ==
  pc = "running" /\ intact /\ fw # 0 =>
    \A f \in Files :
      /\ cur[f] # Absent
      /\ \/ cur[f].ver = NoVersion
         \/ \E n \in fw..Len(bundles) : cur[f].ver = bundles[n][f]

\* Every boot comes to an end, in the main loop or at main.py's own failure:
\* rolling back does not go on for ever.
BootSettles == pc = "boot" ~> pc \in {"running", "dead"}

UpToDate == \A f \in Files : Whole(cur[f]) /\ cur[f].ver = Served[f]
\* A part of a file that no check will replace: it bears the published version,
\* or is of the code that would check.
Unnoticed ==
  \E f \in Files : /\ cur[f] # Absent /\ cur[f].kind = "part"
                   /\ cur[f].ver = Served[f] \/ f \in {Main, Self}
\* While it can boot at all, the device ends up with what the project has
\* published, whole, however its updates were interrupted: a mixed firmware is
\* recognised as outdated.  Excepted is what the code cannot see, a download
\* cut short that compiles all the same.
Converges == []<>(pc = "dead" \/ Unnoticed \/ (pc = "running" /\ UpToDate))
=============================================================================
