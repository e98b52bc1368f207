----------------------------- MODULE Ota_proofs -----------------------------
(***************************************************************************)
(* Theorems about Ota for any files, any published bundles, any number of  *)
(* faults.                                                                 *)
(***************************************************************************)
EXTENDS Ota, TLAPS

\* A loop holds one file at a time, out of those it has yet to handle; one
\* that restores holds files with backups only.
HandInv ==
  /\ hand \notin todo
  /\ pc \notin {"restoring", "applying"} => hand = Absent
  /\ hand = Absent => step = 0
  /\ pc = "restoring" =>
       /\ hand # Absent => bak[hand] # Absent
       /\ \A f \in todo : bak[f] # Absent

\* What is about to be installed has been downloaded, and compiles.
DownloadInv ==
  /\ pc = "downloading" =>
       \A f \in fetched : f \notin todo /\ new[f] # Absent
  /\ pc = "applying" =>
       \A f \in Files : f \in todo \/ f = hand => Good(new[f])

\* Where each critical file is.
PresentInv ==
  /\ \A f \in Critical : cur[f] # Absent \/ bak[f] # Absent
  /\ pc \in {"cleaning", "running", "downloading"} =>
       \A f \in Critical : cur[f] # Absent
  /\ pc = "applying" =>
       \A f \in Critical :
         f \in todo \/ (f = hand /\ step = 0) => cur[f] # Absent

Safe == InstalledCompiles /\ HandInv /\ DownloadInv /\ PresentInv
Inv == TypeOK /\ Safe

\* A copy that is there is not the absent one, and is good if it compiles.
LEMMA CopyFacts ==
  ASSUME NEW v \in Nat \cup {NoVersion}, NEW k \in {"whole", "part", "broken"}
  PROVE  /\ [ver |-> v, kind |-> k] \in Contents
         /\ [ver |-> v, kind |-> k] # Absent
         /\ k # "broken" => Good([ver |-> v, kind |-> k])
<1>1. [ver |-> v, kind |-> k] \in Contents
  BY Zenon DEF Contents
<1>2. [ver |-> v, kind |-> k] # Absent
  BY <1>1, AbsentAssumption, Zenon
<1>3. [ver |-> v, kind |-> k].kind = k
  OBVIOUS
<1> QED
  BY <1>1, <1>2, <1>3, Zenon DEF Good

LEMMA InitInv == Init => Inv
<1> SUFFICES ASSUME Init PROVE Inv
  OBVIOUS
<1>1. TypeOK
  BY FilesAssumption, AbsentAssumption
  DEF Init, TypeOK, FlashType, LoopType, BundlesType, Copies, Contents, Phases
<1>2. InstalledCompiles /\ PresentInv
  <2>1. \A f \in Files : bak[f] = Absent /\ Good(cur[f])
    BY CopyFacts DEF Init
  <2> QED
    BY <2>1, FilesAssumption DEF InstalledCompiles, PresentInv, Good
<1>3. HandInv /\ DownloadInv
  BY AbsentAssumption DEF Init, HandInv, DownloadInv
<1> QED
  BY <1>1, <1>2, <1>3 DEF Inv, Safe

-----------------------------------------------------------------------------
\* What comes of a download, and what is left of one that was cut short.
Answers(f) == {Downloaded(f)} \cup Partials(f)

LEMMA DownloadedFacts ==
  ASSUME BundlesType, NEW f \in Files
  PROVE  /\ Answers(f) \subseteq Contents
         /\ Good(Downloaded(f)) /\ Downloaded(f).ver = Served[f]
         /\ \A copy \in Answers(f) : copy.ver \in {Served[f], NoVersion}
<1>1. Served[f] \in Nat
  BY DEF BundlesType, Served
<1>2. [ver |-> NoVersion, kind |-> "broken"] \in Contents
  BY CopyFacts
<1>3. [ver : {Served[f], NoVersion}, kind : {"part"}] \subseteq Contents
  BY <1>1 DEF Contents
<1>4. Downloaded(f) \in Contents /\ Good(Downloaded(f))
  BY <1>1, CopyFacts DEF Downloaded
<1>5. Downloaded(f).ver = Served[f]
  BY DEF Downloaded
<1>6. \A copy \in Partials(f) : copy.ver \in {Served[f], NoVersion}
  BY DEF Partials
<1> QED
  BY <1>2, <1>3, <1>4, <1>5, <1>6 DEF Answers, Partials

\* A download writes one file's .new copy; what is left of it need not be whole.
LEMMA DownloadWrites ==
  ASSUME Download
  PROVE  \E f \in todo : \E copy \in Answers(f) :
           /\ new' = [new EXCEPT ![f] = copy]
           /\ todo' = todo \ {f}
           /\ fetched' = fetched \cup {f}
<1>1. PICK f \in todo :
        /\ \/ new' = [new EXCEPT ![f] = Downloaded(f)]
           \/ \E part \in Partials(f) : new' = [new EXCEPT ![f] = part]
        /\ todo' = todo \ {f}
        /\ fetched' = fetched \cup {f}
  BY Zenon DEF Download
<1>2. \E copy \in Answers(f) : new' = [new EXCEPT ![f] = copy]
  BY <1>1, Zenon DEF Answers
<1> QED
  BY <1>1, <1>2, Zenon

\* A power cut leaves at most a part of one file behind.
LEMMA CutWrites ==
  ASSUME PowerCut
  PROVE  \/ UNCHANGED new
         \/ \E f \in todo : \E copy \in Answers(f) :
              new' = [new EXCEPT ![f] = copy]
  BY Zenon DEF PowerCut, Answers

LEMMA FlashStep ==
  ASSUME TypeOK, [Next]_vars
  PROVE  FlashType'
<1> USE DEF FlashType, TypeOK, flash
<1>1. CASE UNCHANGED <<cur, new, bak>>
  BY <1>1
<1>2. CASE RestoreRemove
  BY <1>2 DEF RestoreRemove, Copies
<1>3. CASE RestoreRename
  BY <1>3 DEF RestoreRename, Copies, LoopType
<1>4. CASE CleanUp
  BY <1>4 DEF CleanUp, Copies
<1>5. CASE Download
  <2>1. PICK f \in todo : \E copy \in Answers(f) : new' = [new EXCEPT ![f] = copy]
    BY <1>5, DownloadWrites, Zenon
  <2>2. UNCHANGED <<cur, bak>> /\ f \in Files
    BY <1>5 DEF Download, LoopType
  <2>3. Answers(f) \subseteq Contents
    BY <2>2, DownloadedFacts
  <2>4. new' \in Copies
    BY <2>1, <2>2, <2>3 DEF Copies
  <2> QED
    BY <2>2, <2>4
<1>6. CASE DownloadFails \/ VerifyFails
  <2>1. Cleaned \in Copies
    BY DEF Cleaned, Copies
  <2>2. \A f \in Files : [Cleaned EXCEPT ![f] = Absent] \in Copies
    BY <2>1 DEF Copies
  <2>3. todo \subseteq Files
    BY DEF LoopType
  <2>4. \/ new' = Cleaned
        \/ \E f \in todo : new' \in {Cleaned, [Cleaned EXCEPT ![f] = Absent]}
    BY <1>6, Zenon DEF DownloadFails, VerifyFails
  <2>5. new' \in Copies
    BY <2>1, <2>2, <2>3, <2>4
  <2>6. UNCHANGED <<cur, bak>>
    BY <1>6 DEF DownloadFails, VerifyFails
  <2> QED
    BY <2>5, <2>6
<1>7. CASE ApplyClear
  BY <1>7 DEF ApplyClear, Copies
<1>8. CASE ApplyBackUp
  BY <1>8 DEF ApplyBackUp, BackedUp, Copies, LoopType
<1>9. CASE ApplyActivate
  BY <1>9 DEF ApplyActivate, Copies, LoopType
<1>10. CASE PowerCut
  <2>1. UNCHANGED <<cur, bak>> /\ todo \subseteq Files
    BY <1>10 DEF PowerCut, LoopType
  <2>2. CASE UNCHANGED new
    BY <2>1, <2>2
  <2>3. ASSUME NEW f \in todo, NEW copy \in Answers(f),
               new' = [new EXCEPT ![f] = copy]
        PROVE  new' \in Copies
    <3>1. copy \in Contents
      BY <2>1, DownloadedFacts
    <3> QED
      BY <2>3, <3>1 DEF Copies
  <2> QED
    BY <1>10, <2>1, <2>2, <2>3, CutWrites
<1>11. CASE Publish \/ CheckForUpdate \/ Boot \/ Imports \/ Record
  BY <1>1, <1>11 DEF Publish, CheckForUpdate, Boot, BootDies, BootFails,
     BootPasses, Imports, Record
<1>12. CASE RestoreFails \/ Restored \/ VerifyPasses \/ ApplyFails \/ Applied
  BY <1>1, <1>12 DEF RestoreFails, Restored, VerifyPasses, ApplyFails, Applied
<1>13. CASE UNCHANGED vars
  BY <1>1, <1>13 DEF vars
<1> QED
  BY <1>2, <1>3, <1>4, <1>5, <1>6, <1>7, <1>8, <1>9, <1>10, <1>11, <1>12,
     <1>13 DEF Next, Program, Restore, Fetch, Apply

LEMMA LoopStep ==
  ASSUME TypeOK, [Next]_vars
  PROVE  LoopType'
<1> USE DEF TypeOK, LoopType, Phases, PutDown, handling, check
<1>1. CASE Publish \/ UNCHANGED vars
  BY <1>1 DEF Publish, vars
<1>2. CASE CheckForUpdate
  BY <1>2 DEF CheckForUpdate, Outdated
<1>3. CASE Boot
  BY <1>3 DEF Boot, BootDies, BootFails, BootPasses, Backups
<1>4. CASE Restore
  BY <1>4 DEF Restore, RestoreRemove, RestoreRename, RestoreFails, Restored,
     Take
<1>5. CASE CleanUp \/ Imports
  BY <1>5 DEF CleanUp, Imports
<1>6. CASE Fetch
  BY <1>6 DEF Fetch, Download, DownloadFails, VerifyPasses, VerifyFails
<1>7. CASE Apply
  BY <1>7 DEF Apply, ApplyClear, ApplyBackUp, ApplyActivate, ApplyFails,
     Applied, Take
<1>8. CASE Record
  BY <1>8 DEF Record
<1>9. CASE PowerCut
  <2>1. /\ pc' = "boot"
        /\ todo' = {}
        /\ hand' = Absent
        /\ step' = 0
        /\ fetched' = {}
    BY <1>9, Zenon DEF PowerCut
  <2> QED
    BY <2>1
<1> QED
  BY <1>1, <1>2, <1>3, <1>4, <1>5, <1>6, <1>7, <1>8, <1>9 DEF Next, Program

\* A release adds one bundle to those published.
LEMMA ReleaseAppends ==
  ASSUME BundlesType, Publish
  PROVE  /\ bundles' \in Seq([Files -> Nat])
         /\ Len(bundles') = Len(bundles) + 1
         /\ \A n \in 1..Len(bundles) : bundles'[n] = bundles[n]
<1>1. PICK changed \in Releases :
        bundles' = Append(bundles,
                          [f \in Files |-> IF f \in changed THEN Len(bundles)
                                                            ELSE Served[f]])
  BY Zenon DEF Publish
<1>2. /\ bundles \in Seq([Files -> Nat])
      /\ Len(bundles) \in Nat /\ Served \in [Files -> Nat]
  BY DEF BundlesType, Served
<1>3. [f \in Files |-> IF f \in changed THEN Len(bundles) ELSE Served[f]]
        \in [Files -> Nat]
  BY <1>2
<1> QED
  BY <1>1, <1>2, <1>3

LEMMA BundlesStep ==
  ASSUME TypeOK, [Next]_vars
  PROVE  BundlesType'
<1> USE DEF TypeOK, BundlesType, flash, check
<1>1. CASE Publish
  <2>1. UNCHANGED <<target, fw, intact, faults>>
    BY <1>1 DEF Publish
  <2> QED
    BY <1>1, <2>1, ReleaseAppends
<1>2. CASE CheckForUpdate
  BY <1>2 DEF CheckForUpdate, Fault, NoFault
<1>3. CASE Record
  BY <1>3 DEF Record, Manifest, Fault, NoFault
<1>4. CASE PowerCut
  <2>1. UNCHANGED <<bundles, target>> /\ fw' \in {0, fw} /\ Fault
    BY <1>4 DEF PowerCut
  <2>2. intact' \in BOOLEAN
    BY <1>4, Zenon DEF PowerCut
  <2> QED
    BY <2>1, <2>2 DEF Fault
<1>5. CASE /\ UNCHANGED <<bundles, fw, target>> /\ (Fault \/ NoFault)
           /\ intact' = intact \/ intact' = FALSE
  <2>1. intact' \in BOOLEAN
    BY <1>5, Zenon
  <2>2. faults' \in Nat
    BY <1>5 DEF Fault, NoFault
  <2> QED
    BY <1>5, <2>1, <2>2
<1>6. CASE Boot \/ Restore \/ CleanUp \/ Imports
  BY <1>5, <1>6, Zenon
  DEF Boot, BootDies, BootFails, BootPasses, Restore, RestoreRemove,
      RestoreRename, RestoreFails, Restored, CleanUp, Imports
<1>7. CASE Fetch \/ Apply
  BY <1>5, <1>7, Zenon
  DEF Fetch, Download, DownloadFails, VerifyPasses, VerifyFails, Apply,
      ApplyClear, ApplyBackUp, ApplyActivate, ApplyFails, Applied
<1>8. CASE UNCHANGED vars
  BY <1>5, <1>8, Zenon DEF vars, NoFault
<1> QED
  BY <1>1, <1>2, <1>3, <1>4, <1>6, <1>7, <1>8, Zenon DEF Next, Program

LEMMA SafeStep ==
  ASSUME Inv, [Next]_vars
  PROVE  Safe'
<1> USE FilesAssumption, AbsentAssumption DEF Inv, PutDown, handling, check, flash
<1> USE DEF InstalledCompiles, HandInv, DownloadInv, PresentInv, Safe
<1>t. FlashType /\ LoopType
  BY DEF TypeOK
<1>1. CASE Publish \/ UNCHANGED vars
  BY <1>1 DEF Publish, vars
<1>2. CASE BootDies
  BY <1>2 DEF BootDies
<1>3. CASE BootFails
  BY <1>3 DEF BootFails, Backups
<1>4. CASE BootPasses
  BY <1>4, <1>t DEF BootPasses, Backups, Failed, Good
<1>5. CASE RestoreRemove
  BY <1>5, <1>t DEF RestoreRemove, Take, FlashType, Copies, LoopType
<1>6. CASE RestoreRename
  BY <1>6, <1>t DEF RestoreRename, FlashType, Copies, LoopType
<1>7. CASE RestoreFails
  BY <1>7, <1>t DEF RestoreFails, LoopType
<1>8. CASE Restored
  BY <1>8 DEF Restored
<1>9. CASE CleanUp
  BY <1>9, <1>t DEF CleanUp, FlashType, Copies, LoopType
<1>10. CASE Imports
  BY <1>10 DEF Imports
<1>11. CASE CheckForUpdate
  BY <1>11, <1>t DEF CheckForUpdate, Outdated, LoopType
<1>12. CASE Download
  <2>1. PICK f \in todo : \E copy \in Answers(f) :
          /\ new' = [new EXCEPT ![f] = copy]
          /\ todo' = todo \ {f}
          /\ fetched' = fetched \cup {f}
    BY <1>12, DownloadWrites, Zenon
  <2>2. pc = "downloading" /\ UNCHANGED <<cur, bak, pc, hand, step>>
    BY <1>12 DEF Download
  <2>3. \A copy \in Answers(f) : copy # Absent
    BY <1>t, <2>1, DownloadedFacts DEF TypeOK, LoopType
  <2>4. \A g \in fetched' : g \notin todo' /\ new'[g] # Absent
    BY <1>t, <2>1, <2>2, <2>3 DEF FlashType, Copies, LoopType
  <2> QED
    BY <1>t, <2>1, <2>2, <2>4 DEF LoopType
<1>13. CASE DownloadFails
  BY <1>13, <1>t DEF DownloadFails
<1>14. CASE VerifyPasses
  BY <1>14, <1>t DEF VerifyPasses, Verified, LoopType
<1>15. CASE VerifyFails
  BY <1>15, <1>t DEF VerifyFails
<1>16. CASE ApplyClear
  BY <1>16, <1>t DEF ApplyClear, Take, FlashType, Copies, LoopType
<1>17. CASE ApplyBackUp
  BY <1>17, <1>t DEF ApplyBackUp, BackedUp, FlashType, Copies, LoopType
<1>18. CASE ApplyActivate
  <2>1. /\ hand \in Files /\ hand' = Absent /\ Good(new[hand])
        /\ cur' = [cur EXCEPT ![hand] = new[hand]]
        /\ new' = [new EXCEPT ![hand] = Absent]
        /\ pc = "applying" /\ UNCHANGED <<bak, pc, todo>>
    BY <1>18, <1>t DEF ApplyActivate, LoopType
  <2>2. \A f \in Files : cur'[f] = IF f = hand THEN new[hand] ELSE cur[f]
    BY <2>1, <1>t DEF FlashType, Copies
  <2>3. \A f \in Files : f \in todo => f # hand /\ new'[f] = new[f]
    BY <2>1, <1>t DEF FlashType, Copies
  <2>4. InstalledCompiles'
    BY <2>1, <2>2 DEF Good
  <2>5. HandInv' /\ DownloadInv'
    <3>1. step' = 0
      BY <1>18 DEF ApplyActivate
    <3> QED
      BY <2>1, <2>3, <3>1, <1>t DEF LoopType, Good
  <2>6. PresentInv'
    BY <2>1, <2>2, <2>3, <1>t DEF LoopType, Good
  <2> QED
    BY <2>4, <2>5, <2>6
<1>19. CASE ApplyFails
  BY <1>19, <1>t DEF ApplyFails, LoopType
<1>20. CASE Applied
  BY <1>20 DEF Applied
<1>21. CASE Record
  BY <1>21 DEF Record
<1>22. CASE PowerCut
  <2>1. /\ pc' = "boot" /\ hand' = Absent /\ step' = 0 /\ todo' = {}
        /\ UNCHANGED <<cur, bak>>
    BY <1>22 DEF PowerCut
  <2> QED
    BY <2>1
<1> QED
  BY <1>1, <1>2, <1>3, <1>4, <1>5, <1>6, <1>7, <1>8, <1>9, <1>10, <1>11, <1>12,
     <1>13, <1>14, <1>15, <1>16, <1>17, <1>18, <1>19, <1>20, <1>21, <1>22
  DEF Next, Program, Boot, Restore, Fetch, Apply

-----------------------------------------------------------------------------
(* What bundle each file comes from.                                        *)

\* The copy is f's of the n-th bundle or of a later one, or a part of such a
\* copy without its version.
From(published, n, f, copy) ==
  /\ copy # Absent
  /\ \/ copy.ver = NoVersion
     \/ \E m \in n..Len(published) : copy.ver = published[m][f]

\* While updates are complete, only the file between its two renames is not of
\* the recorded bundle or a later one; and what an update finds and fetches is
\* of the bundle whose manifest it has, or of a later one.
InstalledFrom ==
  intact /\ fw # 0 =>
    \A f \in Files :
      (pc = "applying" /\ f = hand /\ step = 1) \/ From(bundles, fw, f, cur[f])
FetchedFrom ==
  pc = "downloading" =>
    \A f \in Files :
      /\ f \notin todo /\ f \notin fetched => From(bundles, target, f, cur[f])
      /\ f \in fetched => From(bundles, target, f, new[f])
AppliedFrom ==
  pc = "applying" =>
    \A f \in Files :
      /\ f \in todo \/ f = hand =>
           f \in fetched /\ From(bundles, target, f, new[f])
      /\ f \notin fetched => From(bundles, target, f, cur[f])
      /\ f \in fetched /\ f \notin todo /\ f # hand /\ new[f] = Absent =>
           From(bundles, target, f, cur[f])
RecordedFrom ==
  pc = "recording" =>
    \A f \in Files : f \notin fetched \/ new[f] = Absent =>
                     From(bundles, target, f, cur[f])
AheadInv ==
  /\ fw <= target
  /\ pc = "restoring" => ~intact
  /\ InstalledFrom /\ FetchedFrom /\ AppliedFrom /\ RecordedFrom

LEMMA FromEarlier ==
  ASSUME NEW b \in Seq([Files -> Nat]), NEW n \in Nat, NEW k \in Nat, k <= n,
         NEW f, NEW copy, From(b, n, f, copy)
  PROVE  From(b, k, f, copy)
BY DEF From

LEMMA FromReleased ==
  ASSUME BundlesType, Publish, NEW n \in Nat \ {0}, NEW f, NEW copy,
         From(bundles, n, f, copy)
  PROVE  From(bundles', n, f, copy)
<1>1. /\ Len(bundles) \in Nat /\ Len(bundles') = Len(bundles) + 1
      /\ \A m \in 1..Len(bundles) : bundles'[m] = bundles[m]
  BY ReleaseAppends DEF BundlesType
<1>2. \A m \in n..Len(bundles) :
        m \in 1..Len(bundles) /\ m \in n..Len(bundles')
  BY <1>1
<1> QED
  BY <1>1, <1>2 DEF From

\* What the server holds now is of any bundle so far or a later one.
LEMMA ServedFrom ==
  ASSUME BundlesType, NEW f, NEW copy, copy # Absent,
         copy.ver \in {Served[f], NoVersion}
  PROVE  From(bundles, target, f, copy)
<1>1. Len(bundles) \in target..Len(bundles)
  BY DEF BundlesType
<1> QED
  BY <1>1 DEF From, Served

LEMMA InitAhead == Init => AheadInv
<1> SUFFICES ASSUME Init PROVE AheadInv
  OBVIOUS
<1>1. /\ pc = "boot" /\ fw = 1 /\ target = 1 /\ Len(bundles) = 1
      /\ bundles[1] = [f \in Files |-> 0]
      /\ cur = [f \in Files |-> [ver |-> 0, kind |-> "whole"]]
  BY DEF Init
<1>2. \A f \in Files : cur[f] # Absent /\ cur[f].ver = bundles[1][f]
  BY <1>1, CopyFacts
<1>3. \A f \in Files : From(bundles, fw, f, cur[f])
  <2>1. 1 \in fw..Len(bundles)
    BY <1>1
  <2> QED
    BY <1>2, <2>1, Zenon DEF From
<1> QED
  BY <1>1, <1>3
  DEF AheadInv, InstalledFrom, FetchedFrom, AppliedFrom, RecordedFrom

LEMMA AheadRelease ==
  ASSUME Inv, AheadInv, Publish
  PROVE  AheadInv'
<1>1. /\ fw \in Nat /\ target \in Nat \ {0} /\ fw <= target
      /\ UNCHANGED <<cur, new, fw, pc, todo, hand, step, fetched, target, intact>>
  BY DEF Publish, flash, handling, check, Inv, TypeOK, BundlesType, AheadInv
<1>2. \A f, copy : From(bundles, target, f, copy) => From(bundles', target, f, copy)
  BY <1>1, FromReleased DEF Inv, TypeOK
<1>3. fw # 0 =>
        \A f, copy : From(bundles, fw, f, copy) => From(bundles', fw, f, copy)
  BY <1>1, FromReleased DEF Inv, TypeOK
<1>4. InstalledFrom'
  BY <1>1, <1>3 DEF AheadInv, InstalledFrom
<1>5. FetchedFrom' /\ AppliedFrom' /\ RecordedFrom'
  BY <1>1, <1>2 DEF AheadInv, FetchedFrom, AppliedFrom, RecordedFrom
<1> QED
  BY <1>1, <1>4, <1>5 DEF AheadInv

LEMMA AheadFetch ==
  ASSUME Inv, AheadInv, CheckForUpdate \/ Fetch
  PROVE  AheadInv'
<1>t. FlashType /\ LoopType /\ BundlesType
  BY DEF Inv, TypeOK
<1>h. hand = Absent /\ hand \notin Files
  BY AbsentAssumption DEF CheckForUpdate, Fetch, Download, DownloadFails,
     VerifyPasses, VerifyFails, Inv, Safe, HandInv
<1>1. UNCHANGED <<bundles, cur, fw, hand, step, intact>>
  BY DEF CheckForUpdate, Fetch, Download, DownloadFails, VerifyPasses,
     VerifyFails, flash, handling
<1>2. pc' \in {"downloading", "applying", "running"}
  BY DEF CheckForUpdate, Fetch, Download, DownloadFails, VerifyPasses, VerifyFails
<1>3. InstalledFrom' /\ RecordedFrom' /\ (pc' = "restoring" => ~intact')
  BY <1>1, <1>2, <1>h DEF AheadInv, InstalledFrom, RecordedFrom
<1>4. CASE CheckForUpdate
  <2>1. /\ pc' = "downloading" /\ fetched' = {} /\ target' = Len(bundles)
        /\ Outdated(Served) \subseteq todo'
    BY <1>4 DEF CheckForUpdate
  <2>2. ASSUME NEW f \in Files, f \notin todo'
        PROVE  From(bundles', target', f, cur'[f])
    <3>1. cur[f] # Absent /\ cur[f].ver = bundles[Len(bundles)][f]
      BY <2>1, <2>2 DEF Outdated, Served
    <3>2. Len(bundles) \in Len(bundles)..Len(bundles)
      BY <1>t DEF BundlesType
    <3> QED
      BY <1>1, <2>1, <3>1, <3>2 DEF From
  <2>3. FetchedFrom' /\ AppliedFrom'
    BY <2>1, <2>2 DEF FetchedFrom, AppliedFrom
  <2>4. fw' <= target'
    BY <1>1, <1>t, <2>1 DEF BundlesType
  <2> QED
    BY <1>3, <2>3, <2>4 DEF AheadInv
<1>5. CASE Fetch
  <2>1. target' = target /\ pc = "downloading"
    BY <1>5 DEF Fetch, Download, DownloadFails, VerifyPasses, VerifyFails, check
  <2>2. fw' <= target'
    BY <1>1, <2>1 DEF AheadInv
  <2>3. CASE Download
    <3>1. PICK f \in todo : \E copy \in Answers(f) :
            /\ new' = [new EXCEPT ![f] = copy]
            /\ todo' = todo \ {f}
            /\ fetched' = fetched \cup {f}
      BY <2>3, DownloadWrites, Zenon
    <3>2. f \in Files /\ pc' = "downloading"
      BY <1>t, <2>3, <3>1 DEF LoopType, Download
    <3>3. \A copy \in Answers(f) : From(bundles, target, f, copy)
      <4>1. ASSUME NEW copy \in Answers(f) PROVE From(bundles, target, f, copy)
        <5>1. copy # Absent /\ copy.ver \in {Served[f], NoVersion}
          BY <1>t, <3>2, DownloadedFacts, AbsentAssumption
        <5> QED
          BY <1>t, <5>1, ServedFrom
      <4> QED
        BY <4>1
    <3>4. From(bundles, target, f, new'[f])
      BY <1>t, <3>1, <3>2, <3>3 DEF FlashType, Copies
    <3>5. \A g \in Files : g # f => new'[g] = new[g]
      BY <1>t, <3>1 DEF FlashType, Copies
    <3>6. FetchedFrom'
      BY <1>1, <2>1, <3>1, <3>4, <3>5 DEF AheadInv, FetchedFrom
    <3> QED
      BY <1>3, <2>2, <3>2, <3>6 DEF AheadInv, AppliedFrom
  <2>4. CASE VerifyPasses
    <3>1. todo = {} /\ todo' = fetched /\ UNCHANGED <<new, fetched>>
          /\ pc' = "applying"
      BY <2>4 DEF VerifyPasses, flash, check
    <3>2. AppliedFrom'
      BY <1>1, <1>h, <2>1, <3>1 DEF AheadInv, FetchedFrom, AppliedFrom
    <3> QED
      BY <1>3, <2>2, <3>1, <3>2 DEF AheadInv, FetchedFrom
  <2>5. CASE DownloadFails \/ VerifyFails
    <3>1. pc' = "running"
      BY <2>5 DEF DownloadFails, VerifyFails
    <3> QED
      BY <1>3, <2>2, <3>1 DEF AheadInv, FetchedFrom, AppliedFrom
  <2> QED
    BY <1>5, <2>3, <2>4, <2>5 DEF Fetch
<1> QED
  BY <1>4, <1>5

LEMMA AheadApply ==
  ASSUME Inv, AheadInv, Apply
  PROVE  AheadInv'
<1>t. FlashType /\ LoopType
  BY DEF Inv, TypeOK
<1>a. Absent \notin Files /\ hand \notin todo
  BY AbsentAssumption DEF Inv, Safe, HandInv
<1>1. pc = "applying" /\ UNCHANGED <<bundles, fw, fetched, target>>
  BY DEF Apply, ApplyClear, ApplyBackUp, ApplyActivate, ApplyFails, Applied,
         flash, check
<1>2. fw' <= target' /\ InstalledFrom /\ AppliedFrom
  BY <1>1 DEF AheadInv
<1>3. fw \in Nat /\ target \in Nat /\ bundles \in Seq([Files -> Nat])
  BY DEF Inv, TypeOK, BundlesType
<1>4. \A f, copy : From(bundles, target, f, copy) => From(bundles, fw, f, copy)
  BY <1>3, FromEarlier DEF AheadInv
<1>5. CASE ApplyClear
  <2>1. PICK f \in Files : Take(f)
    BY <1>5 DEF ApplyClear
  <2>2. UNCHANGED <<cur, new, pc, step, intact>>
    BY <1>5 DEF ApplyClear
  <2>3. hand = Absent /\ f \in todo /\ hand' = f /\ todo' = todo \ {f}
    BY <2>1 DEF Take
  <2>4. step = 0
    BY <1>1, <2>3 DEF Inv, Safe, HandInv
  <2>5. InstalledFrom'
    BY <1>1, <1>2, <2>2, <2>4 DEF InstalledFrom
  <2>6. AppliedFrom'
    BY <1>1, <1>2, <1>a, <2>2, <2>3 DEF AppliedFrom
  <2> QED
    BY <1>1, <1>2, <2>2, <2>5, <2>6 DEF AheadInv, FetchedFrom, RecordedFrom
<1>6. CASE ApplyBackUp
  <2>1. /\ hand \in Files /\ step' = 1
        /\ cur' = [cur EXCEPT ![hand] = Absent]
        /\ UNCHANGED <<new, pc, todo, hand, intact>>
    BY <1>6, <1>t DEF ApplyBackUp, LoopType
  <2>2. \A f \in Files : f # hand => cur'[f] = cur[f]
    BY <1>t, <2>1 DEF FlashType, Copies
  <2>3. InstalledFrom'
    BY <1>1, <1>2, <2>1, <2>2 DEF InstalledFrom
  <2>4. AppliedFrom'
    BY <1>1, <1>2, <2>1, <2>2 DEF AppliedFrom
  <2> QED
    BY <1>1, <1>2, <2>1, <2>3, <2>4 DEF AheadInv, FetchedFrom, RecordedFrom
<1>7. CASE ApplyActivate
  <2>1. /\ hand \in Files /\ hand' = Absent
        /\ cur' = [cur EXCEPT ![hand] = new[hand]]
        /\ new' = [new EXCEPT ![hand] = Absent]
        /\ UNCHANGED <<pc, todo, intact>>
    BY <1>7, <1>t DEF ApplyActivate, PutDown, LoopType
  <2>2. \A f \in Files : /\ cur'[f] = IF f = hand THEN new[f] ELSE cur[f]
                         /\ f # hand => new'[f] = new[f]
    BY <1>t, <2>1 DEF FlashType, Copies
  <2>3. From(bundles, target, hand, new[hand])
    BY <1>1, <1>2, <2>1 DEF AppliedFrom
  <2>4. From(bundles, fw, hand, new[hand])
    BY <1>4, <2>3
  <2>5. InstalledFrom'
    BY <1>1, <1>2, <2>1, <2>2, <2>4 DEF InstalledFrom
  <2>6. AppliedFrom'
    BY <1>1, <1>2, <1>a, <2>1, <2>2, <2>3 DEF AppliedFrom
  <2> QED
    BY <1>1, <1>2, <2>1, <2>5, <2>6 DEF AheadInv, FetchedFrom, RecordedFrom
<1>8. CASE ApplyFails
  <2>1. /\ intact' = FALSE /\ hand' = Absent /\ UNCHANGED <<cur, new, pc>>
        /\ todo' \subseteq todo
    BY <1>8 DEF ApplyFails, PutDown, flash
  <2>2. \A f \in Files : From(bundles, target, f, new[f]) => new[f] # Absent
    BY DEF From
  <2>3. AppliedFrom'
    BY <1>1, <1>2, <1>a, <2>1, <2>2 DEF AppliedFrom
  <2> QED
    BY <1>1, <1>2, <2>1, <2>3
    DEF AheadInv, InstalledFrom, FetchedFrom, RecordedFrom
<1>9. CASE Applied
  <2>1. /\ todo = {} /\ hand = Absent /\ pc' = "recording"
        /\ UNCHANGED <<cur, new, todo, hand, step, intact>>
    BY <1>9 DEF Applied, flash, handling
  <2>2. RecordedFrom'
    BY <1>1, <1>2, <1>a, <2>1 DEF AppliedFrom, RecordedFrom
  <2>3. InstalledFrom'
    BY <1>1, <1>2, <1>a, <2>1 DEF InstalledFrom
  <2> QED
    BY <1>1, <1>2, <2>1, <2>2, <2>3 DEF AheadInv, FetchedFrom, AppliedFrom
<1> QED
  BY <1>5, <1>6, <1>7, <1>8, <1>9 DEF Apply

LEMMA AheadRecord ==
  ASSUME Inv, AheadInv, Record
  PROVE  AheadInv'
<1>1. /\ pc = "recording" /\ pc' = "boot" /\ fw' \in {target, 0, fw}
      /\ UNCHANGED <<bundles, cur, target>>
      /\ intact' = \A f \in fetched : new[f] = Absent
  BY DEF Record, Manifest, check
<1>2. /\ fw \in Nat /\ target \in Nat /\ bundles \in Seq([Files -> Nat])
      /\ fw <= target
  BY DEF Inv, TypeOK, BundlesType, AheadInv
<1>3. fw' \in Nat /\ fw' <= target'
  BY <1>1, <1>2
<1>4. \A f, copy : From(bundles, target, f, copy) => From(bundles, fw', f, copy)
  BY <1>1, <1>2, <1>3, FromEarlier
<1>5. intact' => \A f \in Files : From(bundles, target, f, cur[f])
  <2>1. \A f \in Files : f \notin fetched \/ new[f] = Absent =>
                         From(bundles, target, f, cur[f])
    BY <1>1 DEF AheadInv, RecordedFrom
  <2> QED
    BY <1>1, <2>1, Zenon
<1>6. InstalledFrom'
  BY <1>1, <1>4, <1>5 DEF InstalledFrom
<1> QED
  BY <1>1, <1>3, <1>6 DEF AheadInv, FetchedFrom, AppliedFrom, RecordedFrom

LEMMA AheadCut ==
  ASSUME Inv, AheadInv, PowerCut
  PROVE  AheadInv'
<1>1. /\ pc' = "boot" /\ fw' \in {fw, 0}
      /\ UNCHANGED <<bundles, cur, target>>
      /\ intact' => intact /\ step = 0
  BY DEF PowerCut
<1>2. fw \in Nat /\ target \in Nat /\ fw <= target
  BY DEF Inv, TypeOK, BundlesType, AheadInv
<1>3. fw' <= target'
  BY <1>1, <1>2
<1>4. InstalledFrom'
  BY <1>1 DEF AheadInv, InstalledFrom
<1> QED
  BY <1>1, <1>3, <1>4 DEF AheadInv, FetchedFrom, AppliedFrom, RecordedFrom

\* What goes on in a boot and a rollback: a rollback undoes an update, so that
\* nothing is claimed of it.
LEMMA AheadBoot ==
  ASSUME Inv, AheadInv, Boot \/ Restore \/ CleanUp \/ Imports \/ UNCHANGED vars
  PROVE  AheadInv'
<1>h. pc # "applying" /\ pc # "restoring" => hand = Absent
  BY DEF Inv, Safe, HandInv
<1>a. Absent \notin Files
  BY AbsentAssumption
<1>1. CASE BootFails
  <2>1. pc' = "restoring" /\ intact' = FALSE /\ UNCHANGED <<fw, target>>
    BY <1>1 DEF BootFails, flash, check
  <2> QED
    BY <2>1 DEF AheadInv, InstalledFrom, FetchedFrom, AppliedFrom, RecordedFrom
<1>2. CASE Restore
  <2>1. /\ pc = "restoring" /\ pc' \in {"restoring", "boot"}
        /\ UNCHANGED <<fw, target, intact>>
    BY <1>2 DEF Restore, RestoreRemove, RestoreRename, RestoreFails, Restored,
       flash, check
  <2>2. ~intact /\ ~intact'
    BY <2>1 DEF AheadInv
  <2> QED
    BY <2>1, <2>2
    DEF AheadInv, InstalledFrom, FetchedFrom, AppliedFrom, RecordedFrom
<1>3. CASE BootDies \/ BootPasses \/ CleanUp \/ Imports
  <2>1. /\ pc \in {"boot", "cleaning"}
        /\ pc' \in {"dead", "cleaning", "running"}
        /\ UNCHANGED <<bundles, cur, fw, target, intact>>
    BY <1>3 DEF BootDies, BootPasses, CleanUp, Imports, flash, check
  <2>2. InstalledFrom'
    BY <1>h, <1>a, <2>1 DEF AheadInv, InstalledFrom
  <2> QED
    BY <2>1, <2>2 DEF AheadInv, FetchedFrom, AppliedFrom, RecordedFrom
<1>4. CASE UNCHANGED vars
  BY <1>4
  DEF vars, flash, handling, check, AheadInv, InstalledFrom, FetchedFrom,
      AppliedFrom, RecordedFrom
<1> QED
  BY <1>1, <1>2, <1>3, <1>4 DEF Boot

LEMMA InvAlways == Spec => []Inv
<1>1. Inv /\ [Next]_vars => Inv'
  BY FlashStep, LoopStep, BundlesStep, SafeStep DEF Inv, TypeOK
<1> QED
  BY InitInv, <1>1, PTL DEF Spec

\* The flash holds non-empty files only, and the loops of the updater handle
\* files of the manifest only.
THEOREM TypeCorrect == Spec => []TypeOK
<1>1. Inv => TypeOK
  BY DEF Inv
<1> QED
  BY InvAlways, <1>1, PTL

\* Wherever the power goes and whatever fails, for any set of files: every
\* critical file can be run or rolled back to.
THEOREM CriticalRecoverableHolds == Spec => []CriticalRecoverable
<1>1. Inv => CriticalRecoverable
  BY FilesAssumption
  DEF Inv, Safe, PresentInv, InstalledCompiles, CriticalRecoverable
<1> QED
  BY InvAlways, <1>1, PTL

\* For any files and any releases, however they fall between the manifest and the
\* downloads: manifest.json never tells of a bundle newer than the files.
THEOREM ManifestNotAheadHolds == Spec => []ManifestNotAhead
<1>1. Inv /\ AheadInv /\ [Next]_vars => AheadInv'
  BY AheadRelease, AheadFetch, AheadApply, AheadRecord, AheadCut, AheadBoot
  DEF Next, Program
<1>2. Inv /\ AheadInv => ManifestNotAhead
  <2> SUFFICES ASSUME Inv, AheadInv, pc = "running", intact, fw # 0, NEW f \in Files
               PROVE  /\ cur[f] # Absent
                      /\ \/ cur[f].ver = NoVersion
                         \/ \E n \in fw..Len(bundles) : cur[f].ver = bundles[n][f]
    BY DEF ManifestNotAhead
  <2>1. From(bundles, fw, f, cur[f])
    BY DEF AheadInv, InstalledFrom
  <2> QED
    BY <2>1 DEF From
<1> QED
  BY InvAlways, InitAhead, <1>1, <1>2, PTL DEF Spec

\* Nothing that does not compile is ever installed or kept as a backup.
THEOREM InstalledCompilesHolds == Spec => []InstalledCompiles
<1>1. Inv => InstalledCompiles
  BY DEF Inv, Safe
<1> QED
  BY InvAlways, <1>1, PTL

-----------------------------------------------------------------------------
(* Where the updater is going: what becomes of each file when no fault and  *)
(* no release interferes any more.                                          *)

\* The files the current loop has not finished with.
Pending == todo \cup {hand}
\* The downloads will be refused.
Doomed == pc = "downloading" /\ ~Verified

\* The copy under f's own name when the current loop has ended ...
Coming(f) ==
  IF pc = "restoring" /\ f \in Pending THEN bak[f]
  ELSE IF pc = "downloading" /\ ~Doomed /\ f \in todo THEN Downloaded(f)
  ELSE IF pc = "downloading" /\ ~Doomed /\ f \in fetched THEN new[f]
  ELSE IF pc = "applying" /\ f \in Pending THEN new[f]
  ELSE cur[f]
\* ... and its backup then.
Kept(f) ==
  IF pc = "restoring" /\ f \in Pending THEN Absent
  ELSE IF pc = "applying" /\ (f \in todo \/ (f = hand /\ step = 0)) THEN cur[f]
  ELSE bak[f]

\* The boot that follows rolls back if a critical file is not good.
RollBack == \E f \in Critical : ~Good(Coming(f))
Settled(f) == IF RollBack /\ Kept(f) # Absent THEN Kept(f) ELSE Coming(f)
\* The files the check after that boot will find outdated.
Stale == {f \in Files : Settled(f) = Absent \/ Settled(f).ver # Served[f]}

\* How far the program is from the main loop, or from its end.
Stage ==
  CASE pc = "downloading" -> 6
    [] pc = "applying" -> 5
    [] pc = "recording" -> 4
    [] pc \in {"boot", "restoring"} -> 3
    [] pc = "cleaning" -> 2
    [] pc = "running" -> 1
    [] pc = "dead" -> 0
\* The backups that no rollback has yet made use of.
Loose ==
  IF pc = "restoring" THEN Backups \ Pending
  ELSE IF pc = "boot" THEN Backups
  ELSE {}
\* What is left to do for the file in hand.
Busy == IF hand = Absent THEN 0 ELSE 2 - step

Fewer(S, T) == S \subseteq T /\ S # T

\* A step within a stage: the rollback has used backups up, has ended, or is
\* further in its loop, as a clean-up, download or installation is in theirs.
Nearer ==
  \/ Fewer(Loose', Loose)
  \/ Loose' = Loose /\ pc = "restoring" /\ pc' = "boot"
  \/ Loose' = Loose /\ pc' = pc /\ Fewer(todo', todo)
  \/ Loose' = Loose /\ pc' = pc /\ todo' = todo /\ Busy' < Busy

\* A step with no fault and no release: fewer files will be outdated, or the
\* program is at a later stage, or further in this one.
Advances ==
  /\ UNCHANGED <<bundles, faults>>
  /\ \/ Fewer(Stale', Stale)
     \/ Stale' = Stale /\ Stage' < Stage
     \/ Stale' = Stale /\ Stage' = Stage /\ Nearer

Closer ==
  \/ Len(bundles) < Len(bundles') /\ Len(bundles') <= MaxBundles
  \/ bundles' = bundles /\ faults < faults' /\ faults' <= MaxFaults
  \/ Advances

LEMMA ReleaseCloser == TypeOK /\ Publish => Closer
<1> SUFFICES ASSUME TypeOK, Publish PROVE Closer
  OBVIOUS
<1>1. PICK bundle : bundles' = Append(bundles, bundle)
  BY Zenon DEF Publish
<1>2. bundles \in Seq([Files -> Nat]) /\ Len(bundles) < MaxBundles
  BY DEF TypeOK, BundlesType, Publish
<1>3. Len(bundles') = Len(bundles) + 1 /\ Len(bundles) \in Nat
  BY <1>1, <1>2
<1> QED
  BY <1>2, <1>3, BoundsAssumption DEF Closer

LEMMA FaultCloser == TypeOK /\ Fault /\ bundles' = bundles => Closer
  BY BoundsAssumption DEF TypeOK, BundlesType, Fault, Closer

\* What is coming decides which files are outdated in the end.
LEMMA StaleSame ==
  ASSUME bundles' = bundles,
         \A f \in Files : Coming(f)' = Coming(f) /\ Kept(f)' = Kept(f)
  PROVE  Stale' = Stale
<1>1. RollBack' <=> RollBack
  BY FilesAssumption DEF RollBack, Good
<1>2. \A f \in Files : Settled(f)' = Settled(f)
  BY <1>1 DEF Settled
<1>3. Served' = Served
  BY DEF Served
<1> QED
  BY <1>2, <1>3 DEF Stale

\* With the critical files in place, the same when nothing is rolled back.
LEMMA StaleSameForward ==
  ASSUME bundles' = bundles, ~RollBack, ~RollBack',
         \A f \in Files : Coming(f)' = Coming(f)
  PROVE  Stale' = Stale
<1>1. \A f \in Files : Settled(f)' = Settled(f)
  BY DEF Settled
<1>2. Served' = Served
  BY DEF Served
<1> QED
  BY <1>1, <1>2 DEF Stale

\* While the critical files are in place, the next boot rolls nothing back.
LEMMA InPlace ==
  ASSUME Inv, pc \in {"cleaning", "running", "downloading"}
  PROVE  ~RollBack
<1> SUFFICES ASSUME NEW f \in Critical PROVE Good(Coming(f))
  BY DEF RollBack
<1>1. f \in Files /\ Good(cur[f])
  BY FilesAssumption DEF Inv, Safe, InstalledCompiles, PresentInv
<1>2. Good(Downloaded(f))
  BY <1>1, DownloadedFacts DEF Inv, TypeOK
<1>3. ~Doomed /\ pc = "downloading" /\ f \in fetched => Good(new[f])
  BY DEF Doomed, Verified
<1> QED
  BY <1>1, <1>2, <1>3 DEF Coming

LEMMA BootAdvances ==
  ASSUME Inv, Boot, NoFault
  PROVE  Advances
<1>1. UNCHANGED <<bundles, faults, cur, new, bak, hand, step, fetched>> /\ pc = "boot"
  BY DEF Boot, BootDies, BootFails, BootPasses, NoFault, flash, handling, check
<1>2. Stage = 3 /\ Loose = Backups
  BY <1>1 DEF Stage, Loose
<1>3. \A f \in Files : Coming(f) = cur[f] /\ Kept(f) = bak[f]
  BY <1>1 DEF Coming, Kept
<1>4. CASE BootDies
  <2>1. pc' = "dead"
    BY <1>4 DEF BootDies
  <2>2. \A f \in Files : Coming(f)' = cur[f] /\ Kept(f)' = bak[f]
    BY <1>1, <2>1 DEF Coming, Kept
  <2>3. Stale' = Stale
    BY <1>1, <1>3, <2>2, StaleSame
  <2>4. Stage' = 0
    BY <2>1 DEF Stage
  <2> QED
    BY <1>1, <1>2, <2>3, <2>4 DEF Advances
<1>5. CASE BootPasses
  <2>1. pc' = "cleaning"
    BY <1>5 DEF BootPasses
  <2>2. \A f \in Files : Coming(f)' = cur[f] /\ Kept(f)' = bak[f]
    BY <1>1, <2>1 DEF Coming, Kept
  <2>3. Stale' = Stale
    BY <1>1, <1>3, <2>2, StaleSame
  <2>4. Stage' = 2
    BY <2>1 DEF Stage
  <2> QED
    BY <1>1, <1>2, <2>3, <2>4 DEF Advances
<1>6. CASE BootFails
  <2>1. pc' = "restoring" /\ todo' = Backups /\ Failed # {}
    BY <1>6, <1>1 DEF BootFails, Fault, NoFault, Inv, TypeOK, BundlesType
  <2>2. hand = Absent /\ Backups \subseteq Files
    BY <1>1 DEF Inv, Safe, HandInv, Backups
  <2>3. \A f \in Files : Coming(f)' = IF bak[f] # Absent THEN bak[f] ELSE cur[f]
    BY <1>1, <2>1, <2>2, AbsentAssumption DEF Coming, Pending, Backups
  <2>4. RollBack
    BY <1>3, <2>1, FilesAssumption DEF RollBack, Failed
  <2>5. ~RollBack'
    BY <2>3, FilesAssumption
    DEF RollBack, Inv, Safe, InstalledCompiles, PresentInv, Good
  <2>6. \A f \in Files : Settled(f)' = Settled(f)
    BY <1>3, <2>3, <2>4, <2>5 DEF Settled
  <2>7. Stale' = Stale
    BY <1>1, <2>6 DEF Stale, Served
  <2>8. Stage' = 3
    BY <2>1 DEF Stage
  <2>9. Loose' = {}
    BY <1>1, <2>1 DEF Loose, Pending, Backups
  <2>10. Backups # {}
    BY <2>1, FilesAssumption
    DEF Failed, Backups, Inv, Safe, InstalledCompiles, PresentInv, Good
  <2>11. Nearer
    BY <1>2, <2>9, <2>10 DEF Nearer, Fewer
  <2> QED
    BY <1>1, <1>2, <2>7, <2>8, <2>11 DEF Advances
<1> QED
  BY <1>4, <1>5, <1>6 DEF Boot

LEMMA RestoreAdvances ==
  ASSUME Inv, Restore, NoFault
  PROVE  Advances
<1>t. FlashType /\ LoopType
  BY DEF Inv, TypeOK
<1>a. Absent \notin Files
  BY AbsentAssumption
<1>1. pc = "restoring" /\ UNCHANGED <<bundles, faults, new>>
  BY DEF Restore, RestoreRemove, RestoreRename, RestoreFails, Restored,
         NoFault, flash
<1>2. Stage = 3 /\ Loose = Backups \ Pending
  BY <1>1 DEF Stage, Loose
<1>3. CASE RestoreRemove
  <2>1. PICK f \in Files : Take(f) /\ cur' = [cur EXCEPT ![f] = Absent]
    BY <1>3 DEF RestoreRemove
  <2>2. UNCHANGED <<bak, pc, step, fetched>>
    BY <1>3 DEF RestoreRemove, check
  <2>3. hand = Absent /\ f \in todo /\ hand' = f /\ todo' = todo \ {f}
    BY <2>1 DEF Take
  <2>4. \A g \in Files : g \in Pending' <=> g \in Pending
    BY <1>a, <2>3 DEF Pending
  <2>5. \A g \in Files : g \notin Pending => cur'[g] = cur[g]
    BY <1>t, <2>1, <2>3 DEF Pending, FlashType, Copies
  <2>6. \A g \in Files : Coming(g)' = Coming(g) /\ Kept(g)' = Kept(g)
    BY <1>1, <2>2, <2>4, <2>5 DEF Coming, Kept
  <2>7. Stale' = Stale
    BY <1>1, <2>6, StaleSame
  <2>8. Stage' = 3 /\ Loose' = Loose
    BY <1>1, <1>2, <2>2, <2>4 DEF Stage, Loose, Backups
  <2>9. Fewer(todo', todo)
    BY <2>3 DEF Fewer
  <2> QED
    BY <1>1, <1>2, <2>2, <2>7, <2>8, <2>9 DEF Advances, Nearer
<1>4. CASE RestoreRename
  <2>1. /\ hand \in Files
        /\ cur' = [cur EXCEPT ![hand] = bak[hand]]
        /\ bak' = [bak EXCEPT ![hand] = Absent]
        /\ hand' = Absent /\ UNCHANGED <<pc, todo, fetched>>
    BY <1>4, <1>t DEF RestoreRename, PutDown, LoopType, check
  <2>2. hand \notin todo /\ step \in 0..1
    BY <1>t DEF Inv, Safe, HandInv, LoopType
  <2>3. \A g \in Files : g \in Pending' <=> g \in Pending /\ g # hand
    BY <1>a, <2>1, <2>2 DEF Pending
  <2>4. \A g \in Files : /\ cur'[g] = IF g = hand THEN bak[g] ELSE cur[g]
                         /\ bak'[g] = IF g = hand THEN Absent ELSE bak[g]
    BY <1>t, <2>1 DEF FlashType, Copies
  <2>5. hand \in Pending
    BY DEF Pending
  <2>6. \A g \in Files : Coming(g)' = Coming(g) /\ Kept(g)' = Kept(g)
    BY <1>1, <2>1, <2>3, <2>4, <2>5 DEF Coming, Kept
  <2>7. Stale' = Stale
    BY <1>1, <2>6, StaleSame
  <2>8. Stage' = 3 /\ Loose' = Loose
    BY <1>1, <1>2, <2>1, <2>3, <2>4, <2>5 DEF Stage, Loose, Backups
  <2>9. Busy' < Busy
    BY <1>a, <2>1, <2>2 DEF Busy
  <2> QED
    BY <1>1, <1>2, <2>1, <2>7, <2>8, <2>9 DEF Advances, Nearer
<1>5. CASE Restored
  <2>1. /\ todo = {} /\ hand = Absent /\ pc' = "boot"
        /\ UNCHANGED <<cur, bak, todo, hand, step, fetched>>
    BY <1>5 DEF Restored, flash, handling, check
  <2>2. \A g \in Files : g \notin Pending
    BY <1>a, <2>1 DEF Pending
  <2>3. \A g \in Files : Coming(g)' = Coming(g) /\ Kept(g)' = Kept(g)
    BY <1>1, <2>1, <2>2 DEF Coming, Kept
  <2>4. Stale' = Stale
    BY <1>1, <2>3, StaleSame
  <2>5. Stage' = 3 /\ Loose' = Loose
    BY <1>2, <2>1, <2>2 DEF Stage, Loose, Backups
  <2> QED
    BY <1>1, <1>2, <2>1, <2>4, <2>5 DEF Advances, Nearer
<1>6. CASE RestoreFails
  BY <1>6 DEF RestoreFails, Fault, NoFault, Inv, TypeOK, BundlesType
<1> QED
  BY <1>3, <1>4, <1>5, <1>6 DEF Restore

LEMMA CleanAdvances ==
  ASSUME Inv, CleanUp \/ Imports, NoFault
  PROVE  Advances
<1>1. pc = "cleaning" /\ UNCHANGED <<bundles, faults, cur, hand, step, fetched>>
  BY DEF CleanUp, Imports, NoFault, flash, handling, check
<1>2. Stage = 2 /\ Loose = {} /\ ~RollBack
  BY <1>1, InPlace DEF Stage, Loose
<1>3. pc' # "dead" => pc' \in {"cleaning", "running"}
  BY <1>1 DEF CleanUp, Imports
<1>4. \A f \in Files : Coming(f) = cur[f] /\ Coming(f)' = cur[f]
  BY <1>1, <1>3 DEF Coming
<1>5. ~RollBack'
  BY <1>2, <1>4, FilesAssumption DEF RollBack
<1>6. Stale' = Stale
  BY <1>1, <1>2, <1>4, <1>5, StaleSameForward
<1>7. CASE CleanUp
  <2>1. pc' = "cleaning" /\ Fewer(todo', todo)
    BY <1>1, <1>7 DEF CleanUp, Fewer
  <2>2. Stage' = 2 /\ Loose' = {}
    BY <2>1 DEF Stage, Loose
  <2> QED
    BY <1>1, <1>2, <1>6, <2>1, <2>2 DEF Advances, Nearer
<1>8. CASE Imports
  <2>1. pc' \in {"running", "dead"}
    BY <1>8 DEF Imports
  <2>2. Stage' \in {0, 1}
    BY <2>1 DEF Stage
  <2> QED
    BY <1>1, <1>2, <1>6, <2>2 DEF Advances
<1> QED
  BY <1>7, <1>8

\* A check finds something outdated, and sets out to replace all of it.
LEMMA CheckAdvances ==
  ASSUME Inv, CheckForUpdate, NoFault
  PROVE  Advances
<1>0. ~Fault
  BY DEF Fault, NoFault, Inv, TypeOK, BundlesType
<1>1. /\ pc = "running" /\ pc' = "downloading" /\ fetched' = {}
      /\ todo' = Outdated(Served) /\ Outdated(Served) # {}
      /\ UNCHANGED <<bundles, faults, cur, new, bak, hand, step>>
  BY <1>0 DEF CheckForUpdate, NoFault, flash, handling
<1>2. ~RollBack
  BY <1>1, InPlace
<1>3. \A f \in Files : Coming(f) = cur[f]
  BY <1>1 DEF Coming
<1>4. Stale = Outdated(Served)
  BY <1>2, <1>3 DEF Stale, Settled, Outdated
<1>5. ~Doomed'
  BY <1>1 DEF Doomed, Verified
<1>6. Served' = Served /\ Served \in [Files -> Nat]
  BY <1>1 DEF Served, Inv, TypeOK, BundlesType
<1>7. \A f \in Files : Coming(f)' = IF f \in todo' THEN Downloaded(f)
                                                 ELSE cur[f]
  BY <1>1, <1>5, <1>6 DEF Coming, Downloaded
<1>8. \A f \in Critical : f \in Files /\ Good(cur[f])
  BY <1>1, FilesAssumption DEF Inv, Safe, InstalledCompiles, PresentInv
<1>9. \A f \in Files : /\ Good(Downloaded(f))
                      /\ Downloaded(f).ver = Served[f]
  BY DownloadedFacts DEF Inv, TypeOK
<1>10. ~RollBack'
  BY <1>7, <1>8, <1>9 DEF RollBack
<1>11. \A f \in Files : f \notin Stale'
  <2> SUFFICES ASSUME NEW f \in Files PROVE f \notin Stale'
    OBVIOUS
  <2>1. Settled(f)' = Coming(f)'
    BY <1>10 DEF Settled
  <2>2. CASE f \in todo'
    BY <1>6, <1>7, <1>9, <2>1, <2>2 DEF Stale, Good
  <2>3. CASE f \notin todo'
    BY <1>1, <1>6, <1>7, <2>1, <2>3 DEF Stale, Outdated
  <2> QED
    BY <2>2, <2>3
<1>12. Stale' = {}
  BY <1>11 DEF Stale
<1> QED
  BY <1>1, <1>4, <1>12 DEF Advances, Fewer

LEMMA FetchAdvances ==
  ASSUME Inv, Fetch, NoFault
  PROVE  Advances
<1>t. FlashType /\ LoopType /\ BundlesType
  BY DEF Inv, TypeOK
<1>1. /\ pc = "downloading" /\ hand = Absent
      /\ UNCHANGED <<bundles, faults, cur, bak, hand, step>>
  BY DEF Fetch, Download, DownloadFails, VerifyPasses, VerifyFails, NoFault,
         Fault, flash, handling, check, Inv, Safe, HandInv, TypeOK, BundlesType
<1>2. Stage = 6 /\ Loose = {} /\ ~RollBack
  BY <1>1, InPlace DEF Stage, Loose
<1>3. \A f \in Critical : f \in Files /\ Good(cur[f])
  BY <1>1, FilesAssumption DEF Inv, Safe, InstalledCompiles, PresentInv
<1>4. CASE Download
  <2>1. PICK f \in todo :
          /\ new' = [new EXCEPT ![f] = Downloaded(f)]
          /\ todo' = todo \ {f} /\ fetched' = fetched \cup {f}
    <3>1. ~Fault
      BY <1>t DEF Fault, NoFault, BundlesType
    <3> QED
      BY <1>4, <3>1 DEF Download
  <2>2. pc' = "downloading" /\ f \in Files /\ f \notin fetched
    BY <1>1, <1>4, <1>t, <2>1 DEF Download, LoopType, Inv, Safe, DownloadInv
  <2>3. \A g \in Files : new'[g] = IF g = f THEN Downloaded(f) ELSE new[g]
    BY <1>t, <2>1 DEF FlashType, Copies
  <2>4. Good(Downloaded(f))
    BY <1>t, <2>2, DownloadedFacts
  <2>5. Doomed' <=> Doomed
    BY <1>1, <1>t, <2>1, <2>2, <2>3, <2>4 DEF Doomed, Verified, LoopType
  <2>6. \A g \in Files : Downloaded(g)' = Downloaded(g)
    BY <1>1 DEF Downloaded, Served
  <2>7. \A g \in Files : Coming(g)' = Coming(g)
    BY <1>1, <2>1, <2>2, <2>3, <2>5, <2>6 DEF Coming
  <2>8. ~RollBack'
    BY <1>2, <2>7, FilesAssumption DEF RollBack
  <2>9. Stale' = Stale
    BY <1>1, <1>2, <2>7, <2>8, StaleSameForward
  <2>10. Stage' = 6 /\ Loose' = {} /\ Fewer(todo', todo)
    BY <2>1, <2>2 DEF Stage, Loose, Fewer
  <2> QED
    BY <1>1, <1>2, <2>2, <2>9, <2>10 DEF Advances, Nearer
<1>5. CASE VerifyPasses
  <2>1. /\ todo = {} /\ ~Doomed /\ pc' = "applying" /\ todo' = fetched
        /\ new' = new
    BY <1>5 DEF VerifyPasses, Doomed, flash
  <2>2. \A f \in Files : f \in Pending' <=> f \in fetched
    BY <1>1, <2>1, AbsentAssumption DEF Pending
  <2>3. \A f \in Files : Coming(f)' = Coming(f)
    BY <1>1, <2>1, <2>2 DEF Coming
  <2>4. ~RollBack'
    BY <1>2, <2>3, FilesAssumption DEF RollBack
  <2>5. Stale' = Stale
    BY <1>1, <1>2, <2>3, <2>4, StaleSameForward
  <2>6. Stage' = 5
    BY <2>1 DEF Stage
  <2> QED
    BY <1>1, <1>2, <2>5, <2>6 DEF Advances
<1>6. CASE VerifyFails
  <2>1. pc' = "running" /\ Doomed
    BY <1>1, <1>6, <1>t DEF VerifyFails, Doomed, Fault, NoFault, BundlesType
  <2>2. \A f \in Files : Coming(f) = cur[f] /\ Coming(f)' = cur[f]
    BY <1>1, <2>1 DEF Coming
  <2>3. ~RollBack'
    BY <1>2, <2>2, FilesAssumption DEF RollBack
  <2>4. Stale' = Stale
    BY <1>1, <1>2, <2>2, <2>3, StaleSameForward
  <2>5. Stage' = 1
    BY <2>1 DEF Stage
  <2> QED
    BY <1>1, <1>2, <2>4, <2>5 DEF Advances
<1>7. CASE DownloadFails
  BY <1>7, <1>t DEF DownloadFails, Fault, NoFault, BundlesType
<1> QED
  BY <1>4, <1>5, <1>6, <1>7 DEF Fetch

LEMMA ApplyAdvances ==
  ASSUME Inv, Apply, NoFault
  PROVE  Advances
<1>t. FlashType /\ LoopType
  BY DEF Inv, TypeOK
<1>a. Absent \notin Files
  BY AbsentAssumption
<1>1. pc = "applying" /\ UNCHANGED <<bundles, faults>>
  BY DEF Apply, ApplyClear, ApplyBackUp, ApplyActivate, ApplyFails, Applied,
         NoFault, Fault, Inv, TypeOK, BundlesType
<1>2. Stage = 5 /\ Loose = {} /\ hand \notin todo
  BY <1>1 DEF Stage, Loose, Inv, Safe, HandInv
<1>3. pc' = "applying" => Stage' = 5 /\ Loose' = {}
  BY DEF Stage, Loose
<1>4. CASE ApplyClear
  <2>1. PICK f \in Files : Take(f) /\ bak' = [bak EXCEPT ![f] = Absent]
    BY <1>4 DEF ApplyClear
  <2>2. UNCHANGED <<cur, new, pc, step, fetched>>
    BY <1>4 DEF ApplyClear, check
  <2>3. hand = Absent /\ f \in todo /\ hand' = f /\ todo' = todo \ {f}
    BY <2>1 DEF Take
  <2>4. step = 0
    BY <1>1, <2>3 DEF Inv, Safe, HandInv
  <2>5. \A g \in Files : g \in Pending' <=> g \in Pending
    BY <1>a, <2>3 DEF Pending
  <2>6. \A g \in Files : g # f => bak'[g] = bak[g]
    BY <1>t, <2>1 DEF FlashType, Copies
  <2>7. \A g \in Files : Coming(g)' = Coming(g)
    BY <1>1, <2>2, <2>5 DEF Coming
  <2>8. \A g \in Files : Kept(g)' = Kept(g)
    BY <1>1, <1>a, <2>2, <2>3, <2>4, <2>6 DEF Kept
  <2>9. Stale' = Stale
    BY <1>1, <2>7, <2>8, StaleSame
  <2>10. Fewer(todo', todo)
    BY <2>3 DEF Fewer
  <2> QED
    BY <1>1, <1>2, <1>3, <2>2, <2>9, <2>10 DEF Advances, Nearer
<1>5. CASE ApplyBackUp
  <2>1. /\ hand \in Files /\ step = 0 /\ step' = 1
        /\ bak' = [bak EXCEPT ![hand] = cur[hand]]
        /\ cur' = [cur EXCEPT ![hand] = Absent]
        /\ UNCHANGED <<new, pc, todo, hand, fetched>>
    BY <1>5, <1>t DEF ApplyBackUp, BackedUp, LoopType, check
  <2>2. \A g \in Files : /\ g # hand => cur'[g] = cur[g] /\ bak'[g] = bak[g]
                         /\ g = hand => bak'[g] = cur[g]
    BY <1>t, <2>1 DEF FlashType, Copies
  <2>3. \A g \in Files : g \in Pending' <=> g \in Pending
    BY <2>1 DEF Pending
  <2>4. hand \in Pending
    BY DEF Pending
  <2>5. \A g \in Files : Coming(g)' = Coming(g)
    BY <1>1, <2>1, <2>2, <2>3, <2>4 DEF Coming
  <2>6. \A g \in Files : Kept(g)' = Kept(g)
    BY <1>1, <1>2, <2>1, <2>2 DEF Kept
  <2>7. Stale' = Stale
    BY <1>1, <2>5, <2>6, StaleSame
  <2>8. Busy' < Busy
    BY <1>a, <2>1 DEF Busy
  <2> QED
    BY <1>1, <1>2, <1>3, <2>1, <2>7, <2>8 DEF Advances, Nearer
<1>6. CASE ApplyActivate
  <2>1. /\ hand \in Files /\ step = 1 /\ hand' = Absent
        /\ cur' = [cur EXCEPT ![hand] = new[hand]]
        /\ new' = [new EXCEPT ![hand] = Absent]
        /\ UNCHANGED <<bak, pc, todo, fetched>>
    BY <1>6, <1>t DEF ApplyActivate, PutDown, LoopType, check
  <2>2. \A g \in Files : /\ cur'[g] = IF g = hand THEN new[g] ELSE cur[g]
                         /\ g # hand => new'[g] = new[g]
    BY <1>t, <2>1 DEF FlashType, Copies
  <2>3. \A g \in Files : g \in Pending' <=> g \in Pending /\ g # hand
    BY <1>a, <1>2, <2>1 DEF Pending
  <2>4. hand \in Pending
    BY DEF Pending
  <2>5. \A g \in Files : Coming(g)' = Coming(g)
    BY <1>1, <2>1, <2>2, <2>3, <2>4 DEF Coming
  <2>6. \A g \in Files : Kept(g)' = Kept(g)
    BY <1>1, <1>2, <1>a, <2>1, <2>2 DEF Kept
  <2>7. Stale' = Stale
    BY <1>1, <2>5, <2>6, StaleSame
  <2>8. Busy' < Busy
    BY <1>a, <2>1 DEF Busy
  <2> QED
    BY <1>1, <1>2, <1>3, <2>1, <2>7, <2>8 DEF Advances, Nearer
<1>7. CASE Applied
  <2>1. /\ todo = {} /\ hand = Absent /\ pc' = "recording"
        /\ UNCHANGED <<cur, new, bak>>
    BY <1>7 DEF Applied, flash
  <2>2. \A g \in Files : g \notin Pending /\ g # hand
    BY <1>a, <2>1 DEF Pending
  <2>3. \A g \in Files : Coming(g)' = Coming(g) /\ Kept(g)' = Kept(g)
    BY <1>1, <2>1, <2>2 DEF Coming, Kept
  <2>4. Stale' = Stale
    BY <1>1, <2>3, StaleSame
  <2>5. Stage' = 4
    BY <2>1 DEF Stage
  <2> QED
    BY <1>1, <1>2, <2>4, <2>5 DEF Advances
<1>8. CASE ApplyFails
  BY <1>8 DEF ApplyFails, Fault, NoFault, Inv, TypeOK, BundlesType
<1> QED
  BY <1>4, <1>5, <1>6, <1>7, <1>8 DEF Apply

LEMMA RecordAdvances ==
  ASSUME Inv, Record, NoFault
  PROVE  Advances
<1>1. /\ pc = "recording" /\ pc' = "boot"
      /\ UNCHANGED <<bundles, faults, cur, new, bak>>
  BY DEF Record, NoFault
<1>2. \A f \in Files : Coming(f)' = Coming(f) /\ Kept(f)' = Kept(f)
  BY <1>1 DEF Coming, Kept
<1>3. Stale' = Stale
  BY <1>1, <1>2, StaleSame
<1>4. Stage = 4 /\ Stage' = 3
  BY <1>1 DEF Stage
<1> QED
  BY <1>1, <1>3, <1>4 DEF Advances

LEMMA ProgramFaults ==
  ASSUME Program
  PROVE  bundles' = bundles /\ (Fault \/ NoFault)
<1>1. CASE Boot
  BY <1>1, Zenon DEF Boot, BootDies, BootFails, BootPasses
<1>2. CASE Restore
  BY <1>2, Zenon DEF Restore, RestoreRemove, RestoreRename, RestoreFails, Restored
<1>3. CASE CleanUp \/ Imports
  BY <1>3, Zenon DEF CleanUp, Imports
<1>4. CASE Fetch
  BY <1>4, Zenon DEF Fetch, Download, DownloadFails, VerifyPasses, VerifyFails
<1>5. CASE Apply
  BY <1>5, Zenon DEF Apply, ApplyClear, ApplyBackUp, ApplyActivate, ApplyFails,
     Applied
<1>6. CASE Record
  BY <1>6, Zenon DEF Record
<1> QED
  BY <1>1, <1>2, <1>3, <1>4, <1>5, <1>6, Zenon DEF Program

\* Rollbacks and updates come to an end: whatever is released and whatever
\* fails, in whatever order, every step of the updater, of a boot and of a
\* power cut lowers one and the same measure, made of counters with bounds and
\* of sets of files.  So no rollback repeats for ever, and no device keeps on
\* installing the bundle it has.
THEOREM EveryStepCloser == Spec => [][Closer]_vars
<1>1. ASSUME Inv, Next PROVE Closer
  <2>1. CASE Publish
    BY <1>1, <2>1, ReleaseCloser DEF Inv
  <2>2. CASE CheckForUpdate
    <3>1. bundles' = bundles /\ (Fault \/ NoFault)
      BY <2>2, Zenon DEF CheckForUpdate
    <3>2. CASE Fault
      BY <1>1, <3>1, <3>2, FaultCloser DEF Inv
    <3>3. CASE NoFault
      BY <1>1, <2>2, <3>3, CheckAdvances DEF Closer
    <3> QED
      BY <3>1, <3>2, <3>3
  <2>3. CASE PowerCut
    BY <1>1, <2>3, FaultCloser DEF PowerCut, Inv
  <2>4. CASE Program
    <3>1. CASE Fault
      BY <1>1, <2>4, <3>1, ProgramFaults, FaultCloser DEF Inv
    <3>2. CASE NoFault
      BY <1>1, <2>4, <3>2, BootAdvances, RestoreAdvances, CleanAdvances,
         FetchAdvances, ApplyAdvances, RecordAdvances DEF Program, Closer
    <3> QED
      BY <2>4, <3>1, <3>2, ProgramFaults
  <2> QED
    BY <1>1, <2>1, <2>2, <2>3, <2>4 DEF Next
<1>2. Inv /\ [Next]_vars => [Closer]_vars
  BY <1>1
<1> QED
  BY InvAlways, <1>2, PTL DEF Spec
=============================================================================
