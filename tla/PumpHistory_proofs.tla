-------------------------- MODULE PumpHistory_proofs --------------------------
(***************************************************************************)
(* The properties of PumpHistory that span many cycles, for all durations, *)
(* cycle gaps and requests.  Each rests on an invariant that ties the      *)
(* history, kept from what happens to the controller, to the controller's  *)
(* own flags and timers.                                                   *)
(***************************************************************************)
EXTENDS PumpHistory, PumpController_proofs

\* The history constrains nothing: what it accompanies is the controller.
LEMMA HistoryIsController == HistorySpec => Spec
<1>1. HistoryInit => Init
  BY DEF HistoryInit
<1>2. [HistoryNext]_allVars => [Next]_vars
  <2>1. HistoryCommand => Command
    BY Zenon DEF HistoryCommand, Command
  <2>2. HistoryCycle => Cycle
    BY Zenon DEF HistoryCycle, Cycle
  <2>3. UNCHANGED allVars => UNCHANGED vars
    BY Zenon DEF allVars
  <2> QED
    BY <2>1, <2>2, <2>3, Zenon DEF HistoryNext, Next
<1> QED
  BY <1>1, <1>2, PTL DEF HistorySpec, Spec

LEMMA ModesHold == HistorySpec => []ModesInv
  BY HistoryIsController, TypeCorrect, ModesCorrect, PTL DEF ModesInv

-----------------------------------------------------------------------------
(* What a cycle makes of an extended run and of a boost, over all its paths. *)

\* A cycle that finds the water or the enclosure unsafe ends both.
LEMMA UnsafeEndsBoth ==
  ASSUME NEW gap, NEW pressed, CycleWith(gap, pressed), Unsafe
  PROVE  /\ ~extended_run' /\ extended_run_start' = NoTime
         /\ ~manual_override' /\ manual_override_start' = NoTime
<1>1. ~SensorMissingStop(pressed) /\ ~ControlLogic(pressed)
  BY Zenon DEF SensorMissingStop, ControlLogic
<1> QED
  BY <1>1, Zenon DEF CycleWith, DryRunStop, EnclosureMissingStop, OvertempStop,
     SafetyStop, CancelBoost, CancelExtendedRun

ExtendedKept ==
  IF ExtendedLive
  THEN /\ extended_run' = TRUE
       /\ extended_run_duration' = extended_run_duration
       /\ extended_run_start' =
            IF extended_run_start = NoTime THEN now' ELSE extended_run_start
       /\ pump_on' = TRUE
  ELSE extended_run' = FALSE /\ extended_run_start' = NoTime

BoostKept(pressed) ==
  IF Override(pressed) /\ delta_t_flow_return # "none"
  THEN IF BoostLive(pressed)
       THEN /\ manual_override' = TRUE
            /\ manual_override_start' =
                 IF OverrideStart(pressed) = NoTime THEN now'
                 ELSE OverrideStart(pressed)
            /\ pump_on' = TRUE
       ELSE manual_override' = FALSE /\ manual_override_start' = NoTime
  ELSE /\ manual_override' = Override(pressed)
       /\ manual_override_start' = OverrideStart(pressed)

\* Otherwise each lives as long as its own timer says, and a boost waits for
\* the flow and return readings.
LEMMA SafeKeeps ==
  ASSUME ModesInv, NEW gap, NEW pressed \in BOOLEAN, CycleWith(gap, pressed),
         ~Unsafe
  PROVE  ExtendedKept /\ BoostKept(pressed)
<1> USE DEF ModesInv, ModesExclusive, TimersMatchModes
<1>1. ~DryRunStop(pressed) /\ ~EnclosureMissingStop(pressed)
        /\ ~OvertempStop(pressed)
  BY DEF DryRunStop, EnclosureMissingStop, OvertempStop, Unsafe
<1>2. manual_override \in BOOLEAN /\ extended_run \in BOOLEAN
  BY DEF TypeOK, ModesType
<1>3. Override(pressed) => ~extended_run
  BY Zenon DEF Override, Boosted, Boostable
<1>4. CASE SensorMissingStop(pressed)
  <2>1. ExtendedKept
    BY <1>2, <1>4, Zenon DEF SensorMissingStop, SensorsMissing, extended,
       ExtendedKept, ExtendedLive
  <2>2. BoostKept(pressed)
    BY <1>4, Zenon DEF SensorMissingStop, SensorsMissing, BoostKept
  <2> QED
    BY <2>1, <2>2
<1>5. ASSUME ExtendedDone
      PROVE  ExtendedKept
  BY <1>2, <1>5, Zenon DEF ExtendedDone, ExtendedOver, CancelExtendedRun,
     extended, ExtendedKept
<1>6. CASE ControlLogic(pressed)
  <2>1. Override(pressed) => delta_t_flow_return # "none"
    BY <1>3, <1>6, Zenon DEF ControlLogic, SensorsMissing
  <2>2. CASE RunExtended
    <3>1. ~Override(pressed) /\ ~Boosted(pressed)
      BY <1>3, <2>2, Zenon DEF RunExtended, ExtendedLive, Override
    <3>2. BoostKept(pressed)
      BY <1>2, <2>2, <3>1, Zenon DEF RunExtended, boost, BoostKept, Override,
         OverrideStart
    <3>3. ExtendedKept
      BY <2>2, Zenon DEF RunExtended, ExtendedKept, ExtendedLive, SetPump
    <3> QED
      BY <3>2, <3>3
  <2>3. CASE RunBoost(pressed)
    <3>1. OverrideStart(pressed) # NoTime
            => OverrideStart(pressed) = manual_override_start
      BY Zenon DEF OverrideStart
    <3>2. Override(pressed)
      BY <2>3, Zenon DEF RunBoost, BoostLive
    <3> QED
      BY <1>5, <2>1, <2>3, <3>1, <3>2, Zenon DEF RunBoost, BoostKept, SetPump
  <2>4. ASSUME BoostDone(pressed)
        PROVE  ExtendedKept /\ BoostKept(pressed)
    <3>1. CASE Override(pressed)
      <4>1. manual_override
        BY <2>4, <3>1, Zenon DEF BoostDone, BoostLive, OverrideStart, Override
      <4> QED
        BY <1>5, <2>1, <2>4, <3>1, <4>1, Zenon DEF BoostDone, CancelBoost,
           BoostKept
    <3>2. CASE ~Override(pressed)
      BY <1>2, <1>5, <2>4, <3>2, Zenon DEF BoostDone, boost, BoostKept,
         Override, OverrideStart
    <3> QED
      BY <3>1, <3>2
  <2> QED
    BY <1>6, <2>2, <2>3, <2>4, Zenon DEF ControlLogic, Shutdown, Automatic
<1> QED
  BY <1>1, <1>4, <1>6 DEF CycleWith

-----------------------------------------------------------------------------
(* Extended runs.                                                           *)

\* What was asked is what the controller remembers, and when it ends is what
\* its timer will say.
RunInv ==
  /\ run_asked \in Nat
  /\ extended_run <=> run_asked > 0
  /\ extended_run => extended_run_duration = run_asked
  /\ extended_run_start = NoTime => run_until = NoTime
  /\ extended_run_start # NoTime =>
       run_until = extended_run_start + extended_run_duration

LEMMA RunUnasked ==
  ASSUME run_asked' = 0, run_until' = NoTime,
         ~extended_run', extended_run_start' = NoTime
  PROVE  RunInv'
  BY DEF RunInv

LEMMA RunCommand ==
  ASSUME ModesInv, RunInv, HistoryCommand
  PROVE  RunInv'
<1>1. ASSUME UNCHANGED <<extended, run_asked, run_until>>
      PROVE  RunInv'
  <2>1. /\ UNCHANGED extended_run
        /\ UNCHANGED extended_run_start
        /\ UNCHANGED extended_run_duration
        /\ UNCHANGED run_asked
        /\ UNCHANGED run_until
    BY <1>1, Zenon DEF extended
  <2> QED
    BY <2>1 DEF RunInv
<1>2. ASSUME NEW duration \in RunRequests, CommandExtendedRun(duration),
             Ask(IF duration > ExtendedRunMax THEN ExtendedRunMax ELSE duration,
                 FALSE)
      PROVE  RunInv'
  <2> DEFINE length == Clamped(duration)
  <2>1. length \in Nat /\ length > 0
        /\ length = IF duration > ExtendedRunMax THEN ExtendedRunMax
                    ELSE duration
    BY <1>2, DurationsAssumption, InputsAssumption
    DEF CommandExtendedRun, Clamped
  <2>2. /\ extended_run' = TRUE
        /\ extended_run_duration' = length
        /\ extended_run_start' = NoTime
        /\ run_asked' = length
        /\ run_until' = NoTime
    BY <1>2, <2>1, Zenon DEF CommandExtendedRun, Ask
  <2> HIDE DEF length
  <2> QED
    BY <2>1, <2>2 DEF RunInv
<1>3. CASE CommandBoost /\ IF run_asked > 0 \/ boost_asked
           THEN UNCHANGED <<run_asked, run_until, boost_asked, boost_until>>
           ELSE Ask(0, TRUE)
  <2>1. CASE run_asked > 0 \/ boost_asked
    BY <1>1, <1>3, <2>1, Zenon DEF CommandBoost
  <2>2. CASE ~(run_asked > 0 \/ boost_asked)
    <3>1. /\ ~extended_run
          /\ extended_run_start = NoTime
          /\ UNCHANGED <<extended_run, extended_run_start>>
      BY <1>3, <2>2, Zenon DEF CommandBoost, extended, RunInv, ModesInv,
         TimersMatchModes
    <3> QED
      BY <1>3, <2>2, <3>1, RunUnasked, Zenon DEF Ask
  <2> QED
    BY <2>1, <2>2
<1>4. CASE CommandHoliday /\ Ask(0, FALSE)
  BY <1>4, RunUnasked, Zenon DEF CommandHoliday, CancelExtendedRun, Ask
<1>5. CASE CommandAuto /\ run_asked' = 0 /\ run_until' = NoTime
  <2>1. ~extended_run' /\ extended_run_start' = NoTime
    BY <1>5, Zenon DEF CommandAuto, CancelExtendedRun, extended, ModesInv,
       TimersMatchModes
  <2> QED
    BY <1>5, <2>1, RunUnasked
<1>6. CASE /\ CommandUnknown \/ OtaTrigger
           /\ UNCHANGED <<run_asked, run_until, boost_asked, boost_until>>
  BY <1>1, <1>6, Zenon DEF CommandUnknown, OtaTrigger
<1> QED
  BY <1>2, <1>3, <1>4, <1>5, <1>6, Zenon DEF HistoryCommand

LEMMA RunCycle ==
  ASSUME ModesInv, RunInv, NEW gap \in LoopGaps, NEW pressed \in BOOLEAN,
         CycleWith(gap, pressed), CycleAsked(pressed)
  PROVE  RunInv'
<1>1. now \in Int /\ now' \in Int
  BY InputsAssumption DEF CycleWith, ModesInv, TypeOK, ReadingsType
<1>2. CASE Unsafe
  BY <1>2, UnsafeEndsBoth, RunUnasked, Zenon DEF CycleAsked, Ask
<1>3. CASE ~Unsafe
  <2>1. ExtendedKept
    BY <1>3, SafeKeeps
  <2>2. /\ run_asked' = IF RunOwed THEN run_asked ELSE 0
        /\ run_until' = CASE RunOwed /\ run_until = NoTime -> now' + run_asked
                          [] RunOwed /\ run_until # NoTime -> run_until
                          [] OTHER -> NoTime
    BY <1>3, Zenon DEF CycleAsked
  <2>3. extended_run_start \in Int \/ extended_run_start = NoTime
    BY DEF ModesInv, TypeOK, ModesType, Times
  <2>4. ExtendedLive <=> RunOwed
    BY <1>1, <2>3, NoTimeAssumption DEF RunInv, ExtendedLive, RunOwed
  <2>5. CASE RunOwed
    <3>1. /\ extended_run' = TRUE
          /\ extended_run_duration' = extended_run_duration
          /\ run_asked' = run_asked
          /\ run_asked > 0
          /\ extended_run
      BY <2>1, <2>2, <2>4, <2>5, Zenon DEF ExtendedKept, RunOwed, RunInv
    <3>2. CASE extended_run_start = NoTime
      <4>1. extended_run_start' = now' /\ run_until' = now' + run_asked
        BY <2>1, <2>2, <2>4, <2>5, <3>2, SMT DEF ExtendedKept, RunInv
      <4> QED
        BY <1>1, <3>1, <4>1, NoTimeAssumption DEF RunInv
    <3>3. CASE extended_run_start # NoTime
      <4>1. run_until # NoTime
        <5>1. extended_run_start + run_asked \in Int
          BY <2>3, <3>3 DEF RunInv
        <5> QED
          BY <3>1, <3>3, <5>1, NoTimeAssumption, Zenon DEF RunInv
      <4>2. extended_run_start' = extended_run_start /\ run_until' = run_until
        BY <2>1, <2>2, <2>4, <2>5, <3>3, <4>1, SMT DEF ExtendedKept
      <4> QED
        BY <3>1, <3>3, <4>2 DEF RunInv
    <3> QED
      BY <3>2, <3>3
  <2>6. CASE ~RunOwed
    <3>1. run_asked' = 0 /\ run_until' = NoTime
      BY <2>2, <2>6, SMT
    <3>2. ~extended_run' /\ extended_run_start' = NoTime
      BY <2>1, <2>4, <2>6, Zenon DEF ExtendedKept
    <3> QED
      BY <3>1, <3>2, RunUnasked
  <2> QED
    BY <2>5, <2>6
<1> QED
  BY <1>2, <1>3

\* Between commands, cycles and restarts nothing touches what was asked.
LEMMA RunInvariant == HistorySpec => []RunInv
<1>1. HistoryInit => RunInv
  BY SMT DEF HistoryInit, Init, NothingAsked, RunInv
<1>2. ModesInv /\ RunInv /\ [HistoryNext]_allVars => RunInv'
  <2> SUFFICES ASSUME ModesInv, RunInv, [HistoryNext]_allVars
               PROVE  RunInv'
    OBVIOUS
  <2>1. CASE HistoryCommand
    BY <2>1, RunCommand
  <2>2. CASE HistoryCycle
    <3>1. PICK gap \in LoopGaps, pressed \in BOOLEAN :
            CycleWith(gap, pressed) /\ CycleAsked(pressed)
      BY <2>2, Zenon DEF HistoryCycle
    <3> QED
      BY <3>1, RunCycle
  <2>3. CASE Reboot /\ Ask(0, FALSE)
    BY <2>3, RunUnasked, Zenon DEF Reboot, Ask
  <2>4. CASE \/ /\ SenseTemps \/ SenseWater \/ HourChange \/ OtaCheck
                    \/ OtaAborted
                /\ UNCHANGED history
             \/ UNCHANGED allVars
    <3>1. UNCHANGED extended /\ UNCHANGED history
      BY <2>4, Zenon DEF SenseTemps, SenseWater, HourChange, OtaCheck,
         OtaAborted, allVars, vars
    <3>2. /\ UNCHANGED extended_run
          /\ UNCHANGED extended_run_start
          /\ UNCHANGED extended_run_duration
          /\ UNCHANGED run_asked
          /\ UNCHANGED run_until
      BY <3>1, Zenon DEF extended, history
    <3> QED
      BY <3>2 DEF RunInv
  <2> QED
    BY <2>1, <2>2, <2>3, <2>4, Zenon DEF HistoryNext
<1> QED
  BY <1>1, <1>2, ModesHold, PTL DEF HistorySpec

\* An extended run is in force at a cycle exactly while it is owed, and the
\* pump is then on, whatever else operators, the sun and the hour want.
THEOREM RunHonouredHolds == HistorySpec => RunHonoured
<1>1. ModesInv /\ RunInv' /\ Cycle =>
        /\ extended_run' <=> run_asked' > 0
        /\ run_asked' > 0 => pump_on'
  <2> SUFFICES ASSUME ModesInv, RunInv', Cycle
               PROVE  /\ extended_run' <=> run_asked' > 0
                      /\ extended_run' => pump_on'
    BY DEF RunInv
  <2>1. PICK gap \in LoopGaps, pressed \in BOOLEAN : CycleWith(gap, pressed)
    BY DEF Cycle
  <2>2. extended_run' => pump_on'
    <3>1. CASE Unsafe
      BY <2>1, <3>1, UnsafeEndsBoth
    <3>2. CASE ~Unsafe
      BY <2>1, <3>2, SafeKeeps, Zenon DEF ExtendedKept
    <3> QED
      BY <3>1, <3>2
  <2> QED
    BY <2>2 DEF RunInv
<1> QED
  BY <1>1, RunInvariant, ModesHold, PTL DEF HistorySpec, RunHonoured

-----------------------------------------------------------------------------
(* Boosts.                                                                  *)

BoostInv ==
  /\ manual_override <=> boost_asked
  /\ manual_override_start = NoTime => boost_until = NoTime
  /\ manual_override_start # NoTime =>
       boost_until = manual_override_start + ManualOverrideDuration

LEMMA BoostUnasked ==
  ASSUME ~boost_asked', boost_until' = NoTime,
         ~manual_override', manual_override_start' = NoTime
  PROVE  BoostInv'
  BY DEF BoostInv

LEMMA BoostUnchanged ==
  ASSUME BoostInv, UNCHANGED boost, UNCHANGED <<boost_asked, boost_until>>
  PROVE  BoostInv'
<1>1. /\ UNCHANGED manual_override
      /\ UNCHANGED manual_override_start
      /\ UNCHANGED boost_asked
      /\ UNCHANGED boost_until
  BY Zenon DEF boost
<1> QED
  BY <1>1 DEF BoostInv

LEMMA BoostCommand ==
  ASSUME ModesInv, RunInv, BoostInv, HistoryCommand
  PROVE  BoostInv'
<1>1. ASSUME NEW duration \in RunRequests, CommandExtendedRun(duration),
             NEW length, Ask(length, FALSE)
      PROVE  BoostInv'
  BY <1>1, BoostUnasked, Zenon DEF CommandExtendedRun, CancelBoost, Ask
<1>2. CASE CommandBoost /\ IF run_asked > 0 \/ boost_asked
           THEN UNCHANGED <<run_asked, run_until, boost_asked, boost_until>>
           ELSE Ask(0, TRUE)
  <2>1. Boostable <=> ~(run_asked > 0 \/ boost_asked)
    BY Zenon DEF Boostable, RunInv, BoostInv
  <2>2. CASE Boostable
    <3>1. /\ manual_override' = TRUE
          /\ manual_override_start' = NoTime
          /\ boost_asked' = TRUE
          /\ boost_until' = NoTime
      BY <1>2, <2>1, <2>2, Zenon DEF CommandBoost, Ask
    <3> QED
      BY <3>1 DEF BoostInv
  <2>3. CASE ~Boostable
    BY <1>2, <2>1, <2>3, BoostUnchanged, Zenon DEF CommandBoost
  <2> QED
    BY <2>2, <2>3
<1>3. CASE CommandHoliday /\ Ask(0, FALSE)
  BY <1>3, BoostUnasked, Zenon DEF CommandHoliday, CancelBoost, Ask
<1>4. CASE CommandAuto /\ UNCHANGED <<boost_asked, boost_until>>
  BY <1>4, BoostUnchanged, Zenon DEF CommandAuto
<1>5. CASE /\ CommandUnknown \/ OtaTrigger
           /\ UNCHANGED <<run_asked, run_until, boost_asked, boost_until>>
  BY <1>5, BoostUnchanged, Zenon DEF CommandUnknown, OtaTrigger
<1> QED
  BY <1>1, <1>2, <1>3, <1>4, <1>5, Zenon DEF HistoryCommand

LEMMA BoostCycle ==
  ASSUME ModesInv, RunInv, BoostInv, NEW gap \in LoopGaps,
         NEW pressed \in BOOLEAN,
         CycleWith(gap, pressed), CycleAsked(pressed)
  PROVE  BoostInv'
<1>1. now' \in Int
  BY InputsAssumption DEF CycleWith, ModesInv, TypeOK, ReadingsType
<1>2. CASE Unsafe
  BY <1>2, UnsafeEndsBoth, BoostUnasked, Zenon DEF CycleAsked, Ask
<1>3. CASE ~Unsafe
  <2>1. BoostKept(pressed)
    BY <1>3, SafeKeeps
  <2>2. Override(pressed) <=> BoostAsked(pressed)
    <3>1. run_asked = 0 <=> ~extended_run
      BY DEF RunInv
    <3> QED
      BY <3>1, Zenon DEF Override, Boosted, Boostable, BoostAsked, BoostInv
  <2>3. /\ OverrideStart(pressed) = NoTime => boost_until = NoTime
        /\ OverrideStart(pressed) # NoTime =>
             boost_until = OverrideStart(pressed) + ManualOverrideDuration
    <3>1. Boosted(pressed) => manual_override_start = NoTime
      BY Zenon DEF Boosted, Boostable, ModesInv, TimersMatchModes
    <3> QED
      BY <3>1 DEF OverrideStart, BoostInv
  <2>4. CASE Override(pressed) /\ delta_t_flow_return # "none"
    <3> DEFINE start == OverrideStart(pressed)
    <3>1. start \in Int \/ start = NoTime
      BY DEF OverrideStart, ModesInv, TypeOK, ModesType, Times
    <3>2. start # NoTime => start + ManualOverrideDuration \in Int
      BY <3>1, DurationsAssumption
    <3>3. start # NoTime <=> boost_until # NoTime
      BY <2>3, <3>2, NoTimeAssumption, Zenon
    <3>4. BoostLive(pressed) <=> ~BoostOver
      <4>1. CASE start = NoTime
        BY <2>4, <3>3, <4>1, Zenon DEF BoostLive, BoostOver
      <4>2. CASE start # NoTime
        <5>1. now' - start <= ManualOverrideDuration
                <=> ~(now' > start + ManualOverrideDuration)
          <6> HIDE DEF start
          <6> QED
            BY <1>1, <3>1, <4>2, DurationsAssumption, SMT
        <5> QED
          BY <2>3, <2>4, <3>3, <4>2, <5>1, Zenon DEF BoostLive, BoostOver
      <4> QED
        BY <4>1, <4>2
    <3>5. /\ boost_asked' = ~BoostOver
          /\ boost_until' = CASE BoostOver -> NoTime
                              [] boost_until = NoTime ->
                                   now' + ManualOverrideDuration
                              [] OTHER -> boost_until
      BY <1>3, <2>2, <2>4, Zenon DEF CycleAsked
    <3>6. CASE BoostOver
      <4>1. boost_until' = NoTime
        BY <3>5, <3>6, SMT DEF BoostOver
      <4> QED
        BY <2>1, <2>4, <3>4, <3>5, <3>6, <4>1, BoostUnasked, Zenon
        DEF BoostKept
    <3>7. CASE ~BoostOver
      <4>1. /\ manual_override' = TRUE
            /\ boost_asked' = TRUE
            /\ manual_override_start' = IF start = NoTime THEN now' ELSE start
        BY <2>1, <2>4, <3>4, <3>5, <3>7, Zenon DEF BoostKept
      <4>2. boost_until' = IF boost_until = NoTime
                           THEN now' + ManualOverrideDuration ELSE boost_until
        BY <3>5, <3>7, SMT DEF BoostOver
      <4>3. now' # NoTime
        BY <1>1, NoTimeAssumption
      <4> HIDE DEF start
      <4>4. CASE start = NoTime
        BY <3>3, <4>1, <4>2, <4>3, <4>4, Zenon DEF BoostInv
      <4>5. CASE start # NoTime
        <5>1. manual_override_start' = start /\ boost_until' = boost_until
          BY <3>3, <4>1, <4>2, <4>5, Zenon
        <5>2. boost_until = start + ManualOverrideDuration
          BY <2>3, <4>5, Zenon DEF start
        <5> QED
          BY <4>1, <4>5, <5>1, <5>2, Zenon DEF BoostInv
      <4> QED
        BY <4>4, <4>5
    <3> QED
      BY <3>6, <3>7
  <2>5. CASE ~(Override(pressed) /\ delta_t_flow_return # "none")
    <3>1. /\ manual_override' = Override(pressed)
          /\ manual_override_start' = OverrideStart(pressed)
      BY <2>1, <2>5, Zenon DEF BoostKept
    <3>2. boost_asked' = BoostAsked(pressed) /\ boost_until' = boost_until
      BY <1>3, <2>2, <2>5, Zenon DEF CycleAsked
    <3> QED
      BY <2>2, <2>3, <3>1, <3>2, Zenon DEF BoostInv
  <2> QED
    BY <2>4, <2>5
<1> QED
  BY <1>2, <1>3

LEMMA BoostInvariant == HistorySpec => []BoostInv
<1>1. HistoryInit => BoostInv
  BY Zenon DEF HistoryInit, Init, NothingAsked, BoostInv
<1>2. ModesInv /\ RunInv /\ BoostInv /\ [HistoryNext]_allVars => BoostInv'
  <2> SUFFICES ASSUME ModesInv, RunInv, BoostInv, [HistoryNext]_allVars
               PROVE  BoostInv'
    OBVIOUS
  <2>1. CASE HistoryCommand
    BY <2>1, BoostCommand
  <2>2. CASE HistoryCycle
    <3>1. PICK gap \in LoopGaps, pressed \in BOOLEAN :
            CycleWith(gap, pressed) /\ CycleAsked(pressed)
      BY <2>2, Zenon DEF HistoryCycle
    <3> QED
      BY <3>1, BoostCycle
  <2>3. CASE Reboot /\ Ask(0, FALSE)
    BY <2>3, BoostUnasked, Zenon DEF Reboot, Ask
  <2>4. CASE \/ /\ SenseTemps \/ SenseWater \/ HourChange \/ OtaCheck
                    \/ OtaAborted
                /\ UNCHANGED history
             \/ UNCHANGED allVars
    <3>1. UNCHANGED boost /\ UNCHANGED history
      BY <2>4, Zenon DEF SenseTemps, SenseWater, HourChange, OtaCheck,
         OtaAborted, allVars, vars
    <3> QED
      BY <3>1, BoostUnchanged, Zenon DEF history
  <2> QED
    BY <2>1, <2>2, <2>3, <2>4, Zenon DEF HistoryNext
<1> QED
  BY <1>1, <1>2, RunInvariant, ModesHold, PTL DEF HistorySpec

\* A boost is in force at a cycle exactly while it is owed, and the pump is
\* then on as soon as flow and return are measured.
THEOREM BoostHonouredHolds == HistorySpec => BoostHonoured
<1>1. ModesInv /\ BoostInv' /\ Cycle =>
        /\ manual_override' <=> boost_asked'
        /\ boost_asked' /\ delta_t_flow_return # "none" => pump_on'
  <2> SUFFICES ASSUME ModesInv, BoostInv', Cycle,
                      manual_override', delta_t_flow_return # "none"
               PROVE  pump_on'
    BY DEF BoostInv
  <2>1. PICK gap \in LoopGaps, pressed \in BOOLEAN : CycleWith(gap, pressed)
    BY DEF Cycle
  <2>2. ~Unsafe
    BY <2>1, UnsafeEndsBoth
  <2> QED
    BY <2>1, <2>2, SafeKeeps, Zenon DEF BoostKept
<1> QED
  BY <1>1, BoostInvariant, ModesHold, PTL DEF HistorySpec, BoostHonoured

-----------------------------------------------------------------------------
(* The periodic test, while the clock is not set back.                      *)

\* Outside a test its timer starts no sooner than the circuit was last fresh,
\* and no later than the pump came to rest.
TestInv ==
  /\ {last_test, fresh_at, idle_since} \subseteq Int
  /\ fresh_at <= now
  /\ last_test <= idle_since
  /\ idle_since <= now
  /\ ~test_running => fresh_at <= last_test

LEMMA TestCommand ==
  ASSUME ModesInv, TestInv, StagnationBounded, HistoryCommand
  PROVE  TestInv' /\ StagnationBounded'
<1>1. now \in Int /\ last_test \in Int /\ idle_since \in Int /\ fresh_at \in Int
  BY DEF ModesInv, TypeOK, ReadingsType, TestInv
<1>2. idle_since' = now /\ fresh_at' = fresh_at
  BY Zenon DEF HistoryCommand
<1>3. now' = now /\ test_running' = test_running
        /\ last_test' \in {last_test, now}
  BY Zenon DEF HistoryCommand, CommandExtendedRun, CommandBoost,
     CommandHoliday, CommandAuto, CommandUnknown, Commanded, OtaTrigger, testing
<1> QED
  BY <1>1, <1>2, <1>3 DEF TestInv, StagnationBounded

\* What a cycle makes of the test timer, path by path.
TimerKept ==
  /\ last_test' \in {now', last_test}
  /\ test_running /\ ~test_running' => last_test' = now'
  /\ Served /\ ~pump_on' /\ (~core_hours \/ manual_disabled')
       => last_test' = now'
  /\ Served /\ pump_on /\ pump_on' => last_test' = now' \/ test_running'
  /\ /\ Served
     /\ core_hours /\ ~manual_disabled'
     /\ ~(pump_on \/ pump_on' \/ test_running \/ extended_run)
     => /\ last_test' = last_test
        /\ \/ now' - last_test < PumpTestInterval
           \/ now' - last_test < GateFallback

LEMMA AutomaticTimer ==
  ASSUME ModesInv, now' \in Int, NEW pressed \in BOOLEAN, Automatic(pressed)
  PROVE  TimerKept
<1>1. core_hours /\ ~manual_disabled'
  BY Zenon DEF Automatic, AutoAllowed, BoostDone
<1>2. {now', last_test} \subseteq Int /\ test_running \in BOOLEAN
  BY DEF ModesInv, TypeOK, TestType
<1>3. pump_on /\ ~test_running => TimerReset
  BY Zenon DEF TimerReset, Held
<1>4. ~pump_on /\ ~extended_run => SinceTest = now' - last_test
  BY Zenon DEF TimerReset, Held, ExtendedOver, SinceTest
<1>5. CASE StartTest
  BY <1>1, <1>5, Zenon DEF StartTest, SetPump, TimerKept
<1>6. CASE SkipTest
  <2>1. ~test_running /\ ~test_running'
    BY <1>2, <1>6, Zenon DEF SkipTest, TestDue
  <2>2. last_test' = IF TimerReset THEN now' ELSE last_test
    BY <1>6, Zenon DEF SkipTest
  <2>3. ~pump_on /\ ~extended_run => now' - last_test < GateFallback
    <3>1. ~(SinceTest >= GateFallback)
      BY <1>6, Zenon DEF SkipTest, TestForced
    <3> QED
      BY <1>2, <1>4, <3>1, DurationsAssumption, SMT
  <2>4. ~pump_on /\ ~extended_run => ~TimerReset
    BY Zenon DEF TimerReset, Held, ExtendedOver
  <2> QED
    BY <1>1, <1>3, <2>1, <2>2, <2>3, <2>4, Zenon DEF TimerKept
<1>7. CASE ContinueTest
  BY <1>1, <1>7, Zenon DEF ContinueTest, TestTimer, TimerKept
<1>8. CASE FinishTest
  BY <1>1, <1>8, Zenon DEF FinishTest, TestTimer, TimerKept
<1>9. CASE FollowSolar
  <2>1. ~test_running /\ ~test_running'
    BY <1>2, <1>9, Zenon DEF FollowSolar
  <2>2. last_test' = IF TimerReset THEN now' ELSE last_test
    BY <1>9, Zenon DEF FollowSolar, TestTimer
  <2>3. ~pump_on /\ ~extended_run => now' - last_test < PumpTestInterval
    <3>1. ~(SinceTest >= PumpTestInterval)
      BY <1>9, Zenon DEF FollowSolar, TestDue
    <3> QED
      BY <1>2, <1>4, <3>1, DurationsAssumption, SMT
  <2>4. ~pump_on /\ ~extended_run => ~TimerReset
    BY Zenon DEF TimerReset, Held, ExtendedOver
  <2> QED
    BY <1>1, <1>3, <2>1, <2>2, <2>3, <2>4, Zenon DEF TimerKept
<1> QED
  BY <1>5, <1>6, <1>7, <1>8, <1>9 DEF Automatic

LEMMA CycleTimer ==
  ASSUME ModesInv, now' \in Int, NEW gap, NEW pressed \in BOOLEAN,
         CycleWith(gap, pressed)
  PROVE  TimerKept
<1>1. ASSUME UNCHANGED testing, ~Served
      PROVE  TimerKept
  BY <1>1, Zenon DEF testing, TimerKept
<1>2. CASE DryRunStop(pressed) \/ EnclosureMissingStop(pressed)
           \/ OvertempStop(pressed)
  <2>1. ~Served
    BY <1>2 DEF Served, Unsafe, DryRunStop, EnclosureMissingStop, OvertempStop
  <2> QED
    BY <1>1, <1>2, <2>1, Zenon DEF DryRunStop, EnclosureMissingStop,
       OvertempStop, SafetyStop
<1>3. CASE SensorMissingStop(pressed)
  BY <1>1, <1>3, Zenon DEF SensorMissingStop, Served
<1>4. CASE RunExtended
  <2>1. last_test' =
          IF Held \/ extended_run_start = NoTime THEN now' ELSE last_test
    BY <1>4, Zenon DEF RunExtended, TestTimer
  <2>2. pump_on' /\ test_running' = (test_running /\ extended_run_start # NoTime)
    BY <1>4, Zenon DEF RunExtended, SetPump
  <2>3. test_running => extended_run_start = NoTime
    BY Zenon DEF ModesInv, TimersMatchModes
  <2> QED
    BY <2>1, <2>2, <2>3, Zenon DEF Held, TimerKept
<1>5. CASE RunBoost(pressed)
  <2>1. last_test' \in {now', last_test} /\ (Held => last_test' = now')
    BY <1>5, Zenon DEF RunBoost, TestTimer
  <2>2. pump_on' /\ test_running' = test_running
    BY <1>5, Zenon DEF RunBoost, SetPump
  <2> QED
    BY <2>1, <2>2, Zenon DEF Held, TimerKept
<1>6. CASE Shutdown(pressed)
  BY <1>6, Zenon DEF Shutdown, TestTimer, AutoAllowed, BoostDone, TimerKept
<1>7. CASE Automatic(pressed)
  BY <1>7, AutomaticTimer
<1> QED
  BY <1>2, <1>3, <1>4, <1>5, <1>6, <1>7 DEF CycleWith, ControlLogic

LEMMA TestCycle ==
  ASSUME ModesInv, TestInv, StagnationBounded, LoopGaps \subseteq Nat,
         HistoryCycle
  PROVE  TestInv' /\ StagnationBounded'
<1>1. PICK gap \in LoopGaps, pressed \in BOOLEAN :
        /\ CycleWith(gap, pressed)
        /\ fresh_at' =
             IF Served /\ (IF pump_on' THEN pump_on
                           ELSE ~core_hours \/ manual_disabled')
             THEN now' ELSE fresh_at
        /\ idle_since' =
             IF /\ Served
                /\ core_hours /\ ~manual_disabled'
                /\ ~(pump_on \/ pump_on' \/ test_running \/ extended_run)
             THEN idle_since ELSE now'
  BY Zenon DEF HistoryCycle
<1>2. now \in Int /\ now' \in Int /\ now <= now'
  BY <1>1 DEF CycleWith, ModesInv, TypeOK, ReadingsType
<1>3. TimerKept
  BY <1>1, <1>2, CycleTimer
<1>4. fresh_at \in Int /\ last_test \in Int /\ idle_since \in Int
  BY DEF TestInv
<1>5. /\ last_test' \in {now', last_test}
      /\ fresh_at' \in {now', fresh_at}
      /\ idle_since' \in {now', idle_since}
  BY <1>1, <1>3, Zenon DEF TimerKept
<1>6. ~test_running' => \/ last_test' = now'
                        \/ /\ last_test' = last_test
                           /\ fresh_at' = fresh_at
                           /\ ~test_running
  BY <1>1, <1>3, Zenon DEF TimerKept
<1>7. idle_since' = idle_since =>
        \/ idle_since' = now'
        \/ /\ last_test' = last_test
           /\ \/ now' - last_test < PumpTestInterval
              \/ now' - last_test < GateFallback
  BY <1>1, <1>3, Zenon DEF TimerKept
<1>8. TestInv'
  <2>1. fresh_at' <= now' /\ idle_since' <= now' /\ last_test' <= now'
    BY <1>2, <1>4, <1>5, SMT DEF TestInv
  <2>2. last_test' <= idle_since'
    BY <1>2, <1>4, <1>5, <1>7, <2>1, SMT DEF TestInv
  <2>3. ~test_running' => fresh_at' <= last_test'
    BY <1>2, <1>4, <1>6, <2>1, SMT DEF TestInv
  <2>4. {last_test', fresh_at', idle_since'} \subseteq Int
    BY <1>2, <1>4, <1>5, Zenon
  <2> QED
    BY <2>1, <2>2, <2>3, <2>4 DEF TestInv
<1>9. StagnationBounded'
  <2>1. {now', last_test, idle_since'} \subseteq Int
    BY <1>2, <1>4, <1>5, Zenon
  <2>2. CASE idle_since' = now'
    BY <2>2 DEF StagnationBounded
  <2>3. CASE idle_since' # now'
    <3>1. /\ last_test <= idle_since'
          /\ \/ now' - last_test < PumpTestInterval
             \/ now' - last_test < GateFallback
      BY <1>5, <1>7, <2>3, Zenon DEF TestInv
    <3> QED
      BY <2>1, <3>1, DurationsAssumption, SMT DEF StagnationBounded
  <2> QED
    BY <2>2, <2>3
<1> QED
  BY <1>8, <1>9

LEMMA TestInvariant ==
  ASSUME LoopGaps \subseteq Nat
  PROVE  HistorySpec => [](TestInv /\ StagnationBounded)
<1>1. HistoryInit => TestInv /\ StagnationBounded
  BY InputsAssumption, SMT DEF HistoryInit, Init, TestInv, StagnationBounded
<1>2. ModesInv /\ TestInv /\ StagnationBounded /\ [HistoryNext]_allVars
        => TestInv' /\ StagnationBounded'
  <2> SUFFICES ASSUME ModesInv, TestInv, StagnationBounded,
                      [HistoryNext]_allVars
               PROVE  TestInv' /\ StagnationBounded'
    OBVIOUS
  <2>1. CASE HistoryCommand
    BY <2>1, TestCommand
  <2>2. CASE HistoryCycle
    BY <2>2, TestCycle
  <2>3. CASE Reboot /\ fresh_at' = now /\ idle_since' = now
    <3>1. now \in Int
      BY DEF ModesInv, TypeOK, ReadingsType
    <3>2. now' = now /\ last_test' = now /\ test_running' = FALSE
      BY <2>3, Zenon DEF Reboot
    <3> QED
      BY <2>3, <3>1, <3>2 DEF TestInv, StagnationBounded
  <2>4. CASE \/ /\ SenseTemps \/ SenseWater \/ HourChange \/ OtaCheck
                    \/ OtaAborted
                /\ UNCHANGED history
             \/ UNCHANGED allVars
    <3>1. UNCHANGED now /\ UNCHANGED testing /\ UNCHANGED history
      BY <2>4, Zenon DEF SenseTemps, SenseWater, HourChange, OtaCheck,
         OtaAborted, allVars, vars
    <3>2. /\ now' = now
          /\ last_test' = last_test
          /\ test_running' = test_running
          /\ fresh_at' = fresh_at
          /\ idle_since' = idle_since
      BY <3>1, Zenon DEF testing, history
    <3> QED
      BY <3>2, Zenon DEF TestInv, StagnationBounded
  <2> QED
    BY <2>1, <2>2, <2>3, <2>4, Zenon DEF HistoryNext
<1> QED
  BY <1>1, <1>2, ModesHold, PTL DEF HistorySpec

\* The gate only ever delays a test: undisturbed in auto, the pump rests less
\* than the longer of the two intervals.
THEOREM StagnationHolds ==
  ASSUME LoopGaps \subseteq Nat
  PROVE  HistorySpec => []StagnationBounded
  BY TestInvariant, PTL

\* No test starts while the circuit is still fresh from the last circulation
\* or from the night, and none behind a closed gate before the fallback.
THEOREM TestNotEarlyHolds ==
  ASSUME LoopGaps \subseteq Nat
  PROVE  HistorySpec => TestNotEarly
<1>1. ModesInv /\ TestInv /\ TestInv' =>
        (Cycle /\ test_running' /\ ~test_running =>
           /\ now' - fresh_at >= PumpTestInterval
           /\ GateEnabled /\ plate_pool_delta = "closed" =>
                now' - fresh_at >= GateFallback)
  <2> SUFFICES ASSUME ModesInv, TestInv, Cycle, test_running', ~test_running
               PROVE  /\ now' - fresh_at >= PumpTestInterval
                      /\ GateEnabled /\ plate_pool_delta = "closed" =>
                           now' - fresh_at >= GateFallback
    OBVIOUS
  <2>1. PICK gap \in LoopGaps, pressed \in BOOLEAN : CycleWith(gap, pressed)
    BY DEF Cycle
  <2>2. {now', last_test, fresh_at} \subseteq Int
    <3>1. now' \in Int
      BY <2>1, InputsAssumption DEF CycleWith, ModesInv, TypeOK, ReadingsType
    <3> QED
      BY <3>1, Zenon DEF TestInv
  <2>3. StartTest
    BY <2>1, Zenon DEF CycleWith, DryRunStop, EnclosureMissingStop,
       OvertempStop, SafetyStop, SensorMissingStop, testing, ControlLogic,
       RunExtended, RunBoost, Shutdown, Automatic, SkipTest, ContinueTest,
       FinishTest, FollowSolar
  <2>4. SinceTest >= PumpTestInterval /\ (GateOpen \/ SinceTest >= GateFallback)
    BY <2>3, Zenon DEF StartTest, TestDue, TestForced
  <2>5. SinceTest = now' - last_test
    BY <2>2, <2>4, DurationsAssumption, SMT DEF SinceTest
  <2>6. fresh_at <= last_test
    BY DEF TestInv
  <2>7. GateEnabled /\ plate_pool_delta = "closed" => ~GateOpen
    BY DEF GateOpen
  <2> QED
    BY <2>2, <2>4, <2>5, <2>6, <2>7, DurationsAssumption, SMT
<1> QED
  BY <1>1, TestInvariant, ModesHold, PTL DEF HistorySpec, TestNotEarly
=============================================================================
