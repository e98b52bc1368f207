# The pool controller, specified

TLA+ modules, TLC runs and TLAPS proofs for the solar pool controller: a
MicroPython program on a Raspberry Pi Pico that switches a pool pump by
temperature readings, water level, operator commands over MQTT and a push
button, reports to a dashboard, and updates itself over the air.

Line numbers below are those of the source files; `PROJECT.json` maps every
definition to the lines it models.

## 1. The system

The program is one thread. `main.py` boots (verify the firmware, import the
rest, read sensors, connect, set the clock) and then loops for ever: sensors,
clock, network, a requested update, controller, LED. What is concurrent is the
world: water, sun, operators, WiFi, broker, the release server, the power, and
two clocks that the program does not own: the RTC, which is set now and then,
and the tick counter, which wraps around.

| Component | Keeps | Operations | Talks to |
|---|---|---|---|
| Controller (`controller/controller.py`) | modes and their timers, test timer, last publish | `loop`, `handle_mqtt_message`, `_set_pump`, `publish_state` | reads and writes `state`; publishes through MQTTManager; called by `main.py` and by MQTTManager's callback; stopped by `main.py` for an update and by Network before a restart |
| State, configuration (`state.py`, `config.py`) | one dictionary shared by everything; the constants | none | all |
| Main loop (`main.py`) | time of the last sensor read, day of the last resync | boot, one pass | everything |
| MQTTManager (`net/mqtt.py`) | `connected`, queue, rate-limit stamps, `last_ping`, last reconnect | `connect`, `publish`, `flush_queue`, `loop`, `watchdog` | WiFiManager (is it up), Controller (messages), Network (restart) |
| WiFiManager (`net/wifi.py`) | last attempt | `connect`, `loop` | the radio |
| Network (`net/__init__.py`) | the two managers | `connect`, `loop`, `restart_system` | Controller through `pre_restart_hook` |
| NTP and UK time (`net/ntp.py`) | the RTC | `sync_time`, the offset rule | every timestamp of the program |
| OTA updater (`ota.py`) | the files on the flash, with `.new` and `.bak` | `verify_or_rollback`, `check_for_update` | `main.py` at boot and on request; the release server |
| Temperature sensors (`sensors/temperature.py`) | the sensors found at boot, the conversion in flight, the cached readings | `start_conversion`, `read` | `state` |
| Water level (`sensors/water_level.py`) | last sample, stable level, the ticks of both | `read` | `state` |
| Button (`sensors/button.py`) | last sample, its tick, whether the press is reported | `is_pressed` | Controller |
| Status LED (`status_led.py`) | pattern, step, tick of the next step | `update` | reads `state` |
| Log buffer, extraction tool (`utils.py`, `tools/`) | a list; none | not part of the running program | none |

What is hard, and what makes each part correct:

- **Controller.** Eight priorities in a chain of early returns share five
  flags and five timestamps that are also written by commands, the button and
  the update check. At most one mode must be in force; a timer must not
  outlive its mode; no path may leave the pump running over dry pipes or hot
  electronics; runs, boosts and tests must last what was asked, over any
  sequence of commands, stops and restarts.
- **Network and publishing.** A dead session is noticed late; publishes fail
  halfway through a batch; a rate limit and an offline return drop messages; a
  queue is bounded and does not keep its order when a flush fails; a watchdog
  restarts the system. The dashboard must nevertheless end up with the pump's
  state, no feed may get an older value after a newer one, the queue must not
  overflow, and every outage must end.
- **Updater.** Each change to the flash can be the last before a power cut, or
  fail, downloads are cut short, and releases fall between a manifest and its
  files. No critical file may be lost, nothing that does not compile may be
  installed, the firmware must not be older than the manifest beside it, the
  boot must end, and the device must get back to what was published.
- **Clock.** Intervals are measured with a clock that the program itself sets:
  by years at boot, by an hour, in either direction, twice a year, at an hour
  that in October comes twice. The RTC must be right again soon after a
  change; nothing may be stopped by it for long; above all not the reading of
  the sensors that keep the pump safe.
- **Sensors.** Two stages of filtering, a conversion in two phases and a
  debounce are only looked at when the main loop comes round, and timed on
  ticks that wrap around every 12.4 days. Dry pipes, a press and a lost sensor
  must be noticed in time, at any time of the counter; a bounce must not count,
  a press must count once, and no old reading may stand beside new ones.
- **LED.** It shows the worst of several conditions and must never stop
  blinking, which is how a user knows that the program is alive.

The hazards are listed one by one, each at its line, in `PROJECT.json`.

## 2. The modules

| Module | Models |
|---|---|
| `PumpController` | the controller with its shared state, the commands, readings, update check and restart |
| `PumpPolicy` | what it promises its operators: four modes and the pump, an abstract specification |
| `PumpHistory` | `PumpController` with history variables for properties over many cycles |
| `Ota` | the updater, the boot, releases, faults |
| `Telemetry` | main loop, WiFi, MQTT, publishing, broker |
| `Ticks` | the tick counter that wraps around, its difference and sum |
| `WaterLevel`, `Button`, `Temperature`, `StatusLed` | the three sensors and the LED, each as one operation per call |
| `Sensors` | these four driven by the passes of the main loop, with the part of the controller that the LED shows |
| `UkTime` | the rule of summer time, and the legal one beside it |
| `MainLoop` | the main loop under the clock: sensor reads, daily resync, extended run, exceptions of the controller |
| `PumpController_proofs`, `PumpHistory_proofs`, `Ota_proofs`, `Telemetry_proofs`, `Sensors_proofs`, `Readings_proofs`, `UkTime_proofs`, `MainLoop_proofs` | theorems |
| `MCPumpHistory`, `MCOta`, `MCTelemetry`, `MCSensors`, `MCMainLoop` | instances for TLC: views, bounds, claims the code does not keep |

Definitions whose comment begins with *Slip* are plausible mistakes, one next
to the definition it would replace; the specification does not use them. They
show that a property notices: with the slip in place TLC finds it violated.

### PumpController

A step is one call. `Cycle` is `Controller.loop`: the clock advances, the
button is pressed or not, and one of the paths through the safety chain and the
control logic is taken. There is an action for each path (`DryRunStop`,
`EnclosureMissingStop`, `OvertempStop`, `SensorMissingStop`, `RunExtended`,
`RunBoost`, `Shutdown`, `StartTest`, `SkipTest`, `ContinueTest`, `FinishTest`,
`FollowSolar`), and each contains everything its path does to flags, timers and
the pump. What `_set_pump` publishes, and what of it is dropped, is `Telemetry`'s
(`SetPump` there). `Command...` are the branches of `handle_mqtt_message`,
`OtaCheck`/`OtaAborted` what `main.py` does with an update request.

Abstractions:

- Readings are classes: what the code compares them with. `SenseTemps` changes
  one class at a time; several at once are several such steps with no cycle in
  between.
- Calls interleave freely. `main.py` has a fixed order, which is one of the
  interleavings, so that everything shown here holds for it.
- The clock is unbounded; views replace timestamps by ages, up to the age past
  which no guard can tell. It goes on over a restart, and evenly in the
  instances; most theorems let it jump (section 5), and `MainLoop` has the jumps
  there are.
- `pump_reason` is its constant part.
- Values that are only displayed are left out, and so are exceptions inside a
  cycle, which are `MainLoop`'s.

`PumpPolicy` knows a mode and a pump and nothing else. `ImplementsPolicy`
says that the controller's flags, read in the order of the code's chain,
always change as that specification allows: which request may replace which,
what a safety stop or a restart ends, and what each mode lets the pump do.

### PumpHistory

Adds when a run or boost was asked for and until when it is owed, when the
circuit last circulated, and since when the idle pump has not been disturbed.
These variables are driven by what happens to the controller, never by its own
flags and timers, so that the properties compare the code's bookkeeping with an
independent one.

### Ota

The flash is three functions from files to copies: `cur`, `new` (`.new`) and
`bak` (`.bak`). A copy is a version and a kind: `whole`, `broken` (it does not
compile) or `part`. A download that is cut short becomes either of the last two
(`Partials`): cut between two statements a file still compiles, passes
`_verify_file`, bears its version if the cut comes after the second line, and
may lack what the imports need (`BootDies`, `Imports`). Every change the
program makes to the flash is a step (`RestoreRemove`, `RestoreRename`,
`CleanUp`, `Download`, `ApplyClear`, `ApplyBackUp`, `ApplyActivate`, `Record`),
so that `PowerCut` falls between any two of them. Renames, removes, downloads
and reads can fail as the code expects them to; all faults together are drawn
from a budget, `MaxFaults`. `Publish` is a release, at any time: a download gets
what the server has by then, while the manifest stays the one the check began
with. `BootDies` is a boot that never gets to the verification because `main.py`
or `ota.py` is missing or cut short. `fw` follows `manifest.json`. `intact` is
history: the last update replaced every file it fetched, and neither a rollback
nor a power cut between two renames has undone any of it since.

Left out: directories, memory, files the manifest drops, and versions that do
not change with their file.

### Telemetry

`turn` says which call of the main loop is next: `WifiLoop`, `CheckMsg` or
`Receive`, `Flush`, a reconnect, the watchdog, an update request, the
controller. `WorldChanges`, `WifiJoins`, `SessionLost` and `HourChange` happen
between any two of them. `connected` is what MQTTManager believes and `session`
whether the broker still listens. A batch of publishes is one step that fails
at any of its messages (`PublishAll`); the messages past the failure are queued
as the code does. `shown` is the last pump state the broker got. Time passes at
the beginning of `Network.loop` and where a reconnect blocks; what the update
check takes counts with the next of these.

The controller is reduced to what it asks of the network: in each cycle the
pump goes on or off or stays, with a new reason or not, urgently or not. The
readings of a full publish are `Readings` messages without values. It is the
Pico's backend; the blocking `connect` is one step that takes time.

`calm_since` and `down_since` are history: when anything last changed or went
wrong, and when the connection was last given up.

### Sensors

A step of `Pass` is a pass of the main loop: some time after the last one,
temperatures and water level are read if the interval is over (`ReadSensors`)
or not (`SkipSensors`), the controller looks at the button (`CheckButton`) and
at the readings (`Control`), and the LED is updated. Between two passes the
water moves, the button is pushed or let go, cables come off and on, the
connection comes and goes.

- `now` is the time since power-up, and `Ticks` what the counter shows of it.
  Differences are taken as the code takes them: with `ticks_diff` for button,
  LED and conversion, as plain numbers in the water level's filter.
- A temperature is the time at which it was measured, which is all that a
  cached value can be wrong about. `PowerOn` is the value of a sensor that has
  lost its power since.
- The bus raises when no sensor answers, which `start_conversion` reports and
  `read` passes over.
- `Control` is what the LED can see of the controller: a missing enclosure
  reading, and `critical_error`, which an exception sets and nothing clears.
- The read interval is measured in whole seconds of `time.time()`, so that a
  read may come up to a unit early; the clock is even here.
- History: since when the water level, the samples of it and the agreement of
  two samples are what they are, when the button went down and was reported,
  when each sensor was lost, since when the LED shows its step.

### UkTime and MainLoop

`UkTime` has MicroPython's calendar as day numbers, `_last_sunday` and
`_uk_dst_offset` as the code computes them, and the legal rule by the usual
formula as a reference that shares nothing with them but the calendar.

In `MainLoop`, `utc` is the time and `ahead` how far the RTC is off; every
timestamp of the program is a reading of the RTC. `Boot` keeps the RTC's time
or loses it, and `sync_time` succeeds or fails; `Pass` is one pass with the
paced sensor read, the resync that succeeds, fails or is not due, and the
controller, which does its work or raises (`ControlRaises`): before it has
done anything, between stopping the pump for dry pipes and clearing the run,
or after all of it. `main.py` goes on in any case.

Of the controller `MainLoop` has the extended run with its timer, which is what
runs the pump at night, when the clock changes, and the stop for dry pipes.
The water level is what the filter lets through, at once: its delays are
`Sensors`' subject. History is kept in `utc`: since when the RTC is wrong,
when setting it failed, when the sensors were read, since when the pipes are
dry and the run lasts.

## 3. The runs

| Run | Bounds | Shows |
|---|---|---|
| `controller` | test interval, test and longest run 2 s, boost 1 s, fallback 3 s, cycles 1 or 2 s apart, runs of 1 s, 5 s (clamped to 2) or refused | type correctness, `ModesExclusive`, `TimersMatchModes`, `FlagsMeanStopped`, `ReasonTellsPump`, `Interlock`, `PumpJustified`, `ImplementsPolicy`, `RunHonoured`, `BoostHonoured`, `TestNotEarly`, `StagnationBounded` |
| `ota` | 5 files (`main.py`, `ota.py`, another critical one, one only imported, one unused), 3 bundles (releases of two pairs of files and of a single one), 3 faults | type correctness, `CriticalRecoverable`, `InstalledCompiles`, `ManifestNotAhead`, `BootSettles`, `Converges` |
| `telemetry` | intervals 1, 1, 2, 3, 4, 5 in the order of the real 10, 10, 15, 30, 180, 300 s; passes 0 or 1 s apart; one reading; queue of 6 | type correctness, `FeedsInOrder`, `QueueBounded`, `DashboardCatchesUp`, `OutageBounded` |
| `sensors` | seconds; ticks of period 16; passes 0 to 2 s apart, reads every 2 s, delays of 1 and 3 s; three sensors, one without a label; two rewirings; one kind of input disturbed in a behaviour | type correctness, `DryNoticed`, `OnlyAgreedLevels`, `PressNoticed`, `OnlyRealPresses`, `TempsFresh`, `LossNoticed`, `LedBlinks` |
| `main_loop` | half hours; the power comes on in the evening of four days in March and in October of seven years (2024 to 2030), and once more at any time; the clock alone for two days, everything together through the night of a change | type correctness, `SummerTimeRight`, `ClockRight`, `ResyncOnce`, `ReadGapBounded`, `DryStops`, `RunLength` |

Why the bounds are enough. The controller compares ages with durations, and
only their order matters: the instance has cycles that fall before, on and past
every duration, requests below and above the maximum, and a test interval
shorter than the fallback, as in `config.py`. All state is finite in the view,
so runs of any length are covered. For the updater, five files have one of each
kind the code treats differently, with `ota.py` last. Three bundles are the one
deployed, the one whose manifest an update has fetched, and a release that falls
between that manifest and the downloads, or comes after a rollback; what a
release may change (`ReleasesMade`) is a critical file with one that is not,
`main.py` with `ota.py`, and a needed file alone. Three faults are a fault, one
during the recovery from it, and one more. The theorems hold for any of these
numbers and sets. The two refuted claims about updates use two bundles and one
fault, which is all they take. For
telemetry the order of the intervals is the real one, which matters (the
off-hours publish is rarer than the watchdog's threshold), and the queue has
room for more than the bound that `QueueBounded` claims.

For the sensors, a period of 16 is more than twice any delay, as the real one
is, and the view keeps only ages, so that runs of any length, with any number
of wraps, are covered, and every delay begins at every tick. Passes may take
no time or longer than a delay, so that steps are missed and fall on their
bound. The parts share nothing but the time and the LED, which is why one kind
of input at a time is disturbed; two rewirings lose a sensor and put it back,
or lose two after another. For the main loop, the seven years have the last
Sunday of March or October on every day from the 25th to the 31st, leap years
among them; units of
half an hour put a pass on the change, before and after it and on both sides
of the hour of the resync; two days are enough for a wrong clock to be set by
a resync, and for one that fails to be tried again. They are not enough for a
day of the year to come round: that branch of `ClockRight` (`DayLost`) is
covered by the theorem alone, whose proof found that it is needed.

Deadlock is checked except in `ota`, where the device can really end: see
`AlwaysStarts` below.

Seven runs state what a comment or the documentation says, and TLC refutes it:

| Run | Claim | What the code does |
|---|---|---|
| `holiday` | in holiday mode the system stays off until mode 0 is received (`README.md:32`, `controller.py:516`) | a press of the button ends the holiday for good (`controller.py:121`), in the run even in a cycle that cancels the boost at once for dry pipes |
| `ota_starts` | files are replaced atomically and a bad update is rolled back (`ota.py:376`, `README.md:39`) | a power cut between the two renames of `main.py` or `ota.py` leaves nothing that could roll back |
| `ota_whole` | the files are swapped in atomically (`README.md:39`) | a power cut between two files leaves a mixed firmware, every file present and whole; the boot passes and deletes the backups |
| `urgent_offline` | urgent messages are never dropped and are queued offline (`mqtt.py:241`) | offline, `publish_state` returns before anything is queued |
| `watchdog_blip` | a restart only after a sustained outage (`mqtt.py:79`) | the outage is measured from the last publish: at night any failed connection may restart the system at once |
| `sensors_lost` | the pump is off while the enclosure sensor is missing (`README.md:20`) | when no sensor answers as a conversion is to be started, `read` returns the cached readings and reports nothing (`temperature.py:96-98`) |
| `sensor_reads` | two seconds between sensor reads (`main.py:91`) | the interval is measured by the RTC; when the resync sets it back an hour, nothing is read for an hour (`main.py:98`, `101`) |

What else was seen on the way, by the runs or in reading:

- Holiday mode also ends with a boost or an extended run (`controller.py:549`,
  `537`), for which `test_extended_run.py:65` has a test. `HolidayLasts` lets
  any command end it; `PumpPolicy` states it as the code has it, so that
  `ImplementsPolicy` says nothing about what the documentation promises.
- A flush that fails puts its message at the end of the queue
  (`mqtt.py:289`), not back in order (`mqtt.py:276-277`). `FeedsInOrder` shows
  why it does no harm: no two queued messages are ever for one feed. (The other
  readings of a full publish are one topic in the model, of different feeds in
  the code.)
- Every connect flushes and every failure disconnects, so that the flush in
  `_loop_pico` (`mqtt.py:329`) never finds anything; the queue holds at most one
  full publish and one answer to an update request, so a size of 20 never drops
  a message.
- A download that is cut short between two statements passes every check of the
  updater. If it bears its version nothing ever replaces it before the next
  release of that file; if it is `ota.py` or `main.py` the next update may never
  come, or the next boot fail. `Converges` excepts what cannot be noticed
  (`Unnoticed`), `InstalledCompiles` and `CriticalRecoverable` say no more than
  that what is installed compiles.
- `fw_version` may fall behind the files for good: an update that replaced files
  and lost the power before the manifest was written finds nothing outdated
  later. `ManifestNotAhead` is the other direction, which holds as long as
  nothing was rolled back or left out: "this always reflects the last-applied
  bundle version" (`main.py:34-35`).
- `Converges` shows that a mixed firmware is at least recognised as outdated at
  the next update request.
- The water level's filter subtracts ticks as numbers (`water_level.py:78`,
  `86`). A delay that spans the wrap is negative, so that dry pipes can go
  unnoticed until the counter comes round again: `DryNoticed` and
  `OnlyAgreedLevels` have the proviso `NoWrap`. Once a level is stable nothing
  but the delay is asked for, so that a sample that contradicts it does not
  stop it from being believed.
- A wet level takes one second to be believed and a dry one three
  (`water_level.py:87`), the comment (`water_level.py:36-37`) has it the other
  way round.
- The daily resync is remembered by the number of its day in the year alone
  (`main.py:121`, `main.py:126`). A day that has the number of the one last
  synchronised, a year ago or by the date an RTC without time showed, is taken
  for done and its resync is left out: `ClockRight` then allows a day more.
- An update request that is answered puts a second `Network.loop` before the
  controller's turn (`main.py:142-143`). Where these take long it matters: the
  bound of `DashboardCatchesUp` has two of them. With one TLC finds it exceeded
  when the rounds of the instance take one or four units.
- A sensor that does not answer at the boot scan is never listed as
  disconnected, and the LED shows ok (`temperature.py:56`): `LossNoticed` is
  about sensors that were there at boot. `critical_error` is never cleared.
- A release of the button that falls between two passes is not seen, and a
  bounce seen by two of them makes one push two presses; `OnlyRealPresses` is
  about what the samples show.
- A failing resync is tried again in every pass of the hour, not every minute
  (`main.py:128`), and a run that spans the clock change lasts an hour more or
  less than asked, as `RunLength` allows.

## 4. Fairness

Only `Ota` has liveness properties. Its `FairSpec` assumes that the program
runs (`WF_vars(Program)`: it is one thread without waiting) and that an update
is requested again and again when one is available
(`WF_vars(CheckForUpdate)`: an operator sends the request; without it nothing
promises an update). No fairness is assumed of releases, power cuts or faults.
`Converges` excepts devices that cannot start at all, and files cut short in a
way that the code cannot notice (`Unnoticed`).

`StagnationBounded`, `DashboardCatchesUp`, `OutageBounded`, `ClockRight`,
`ReadGapBounded`, `DryStops`, `DryNoticed`, `PressNoticed`, `TempsFresh`,
`LossNoticed` and `LedBlinks` are bounded-time properties, stated as invariants
over the clock: what must happen has happened when its time is up. They need no
fairness, only that no pass of the loop takes longer than its named bound.

## 5. The proofs

**Controller.** For all durations and request lengths that satisfy the named
assumptions of `PumpController`, and for a clock that may jump in either
direction between two cycles (`LoopGaps` is any set of integers):

- `TypeCorrect`, `FlagsCorrect`: `TypeOK` and `FlagsMeanStopped` of every
  reachable state.
- `ModesCorrect`: `ModesExclusive` and `TimersMatchModes`. Neither is inductive
  without the other and the types: a boost is only kept from standing next to
  an extended run by the guard that reads both flags, and a run that starts
  must know that no test or start stamp is left behind. The invariant is
  `ModesInv == TypeOK /\ ModesExclusive /\ TimersMatchModes`, with one lemma
  per kind of step.
- `ReasonCorrect`: `ReasonTellsPump`. An automatic reason says what its path
  does (`AutoReasonTells`); every other reason is set together with the pump.
- `InterlockHolds`, `JustifiedHolds`: the action properties, from the same
  invariant.
- `PolicyImplemented`: every step of the controller is a step of `PumpPolicy`
  or leaves its two variables alone.

**History.** `PumpHistory` refines `PumpController` by construction
(`HistoryIsController`), so that the theorems above hold of it. On top of them:

- `RunHonouredHolds` and `BoostHonouredHolds`, for any clock. `RunInv` and
  `BoostInv` say that the controller's flag, duration and start stamp are what
  the history says was asked and until when it is owed. Both need `ModesInv`,
  and `BoostInv` needs `RunInv`, since a run comes before a boost.
- `TestNotEarlyHolds` and `StagnationHolds`, assuming that the clock is not set
  back (`LoopGaps \subseteq Nat`), without which neither is true. `TestInv`
  orders the stamps: the test timer starts no later than the pump came to
  rest and, outside a test, no sooner than the circuit was last fresh.

**Updater.** For any set of files, any number of bundles and of faults, from the
assumptions of `Ota` (critical files are needed files, `main.py` and `ota.py`
are critical, no file's contents are `Absent`):

- `TypeCorrect`, `CriticalRecoverableHolds`, `InstalledCompilesHolds`. The
  invariant adds to the properties what
  holds between two steps: `HandInv` (a loop holds one file, no longer among
  those it has yet to handle, and while restoring only files that have a
  backup), `DownloadInv` (what is about to be installed has been downloaded
  and compiles) and `PresentInv` (at which stage each critical file is where).
- `ManifestNotAheadHolds`. `AheadInv` follows a bundle through an update, by
  `From`: a copy of the n-th bundle or of a later one. What the check leaves
  alone and what it fetches is from its manifest's bundle on (`FetchedFrom`);
  while files are replaced, those still to come have such a copy waiting and
  those done have it in place, unless the download is still there
  (`AppliedFrom`), by which `Record` knows whether the update was complete; and
  no manifest on the flash is ahead of the last one fetched.
- `EveryStepCloser`, the part of `BootSettles` and `Converges` that is not
  about fairness: every step lowers one measure, so that no interplay of
  releases, faults and power cuts makes rollbacks or updates repeat for ever.
  The measure compares, in this order: releases and faults still possible; the
  files that will be outdated once the current loop, and the rollback it may
  lead to, are through (`Stale`); the stage; within a boot, the backups no
  rollback has used yet (`Loose`); what the current loop has left. The argument
  is in `Settled`, which looks ahead to the file under each name after the next
  boot: a check that finds something outdated leaves nothing so
  (`CheckAdvances`), and no later step without a fault makes it outdated again,
  because a rollback happens only where a fault was (`InPlace`). A rollback that
  begins without a fault has backups to use, by what `CriticalRecoverable`
  rests on. The measure is well-founded since `Files` is finite, which is not
  part of the theorem. TLC was run on `[][Closer]_vars` with the instance of
  `ota` before it was proved. That the program does not stop before it is up to
  date (or dead) is about `ENABLED`, and stays with TLC.

**Telemetry.** For all intervals, pass lengths, queue sizes and numbers of
readings that satisfy its assumptions (above all that the queue has room for a
full publish and two more, as `config.py` and `state.py` give it):

- `TypeCorrect`, `FeedsInOrderHolds`, `QueueHolds`, `OutageHolds`. `FeedsInv`
  adds that an update request still to be answered finds its feed free in the
  queue; lemmas carry it through every failing batch and flush. `QueueBounded` is
  not inductive: a queue at its bound must know that nothing else can be queued
  before it is flushed. `QueueInv` counts an answer that is still to come
  (`Pending`), and that a connection has an empty queue, since a batch begins
  connected and fails once. `OutageInv` says
  that the last sign of life is no later than the beginning of the outage, so
  that the watchdog, which measures from the one, bounds the other, and that
  the bound holds wherever the watchdog has passed.
- `CatchesUpHolds`: `DashboardCatchesUp`, assuming that passes are bounded
  (`BoundedPasses`) and that the watchdog is no slower than the publishing
  outside core hours (`EarlyWatchdog`; 180 against 300 s in `config.py:41-42`
  and `mqtt.py:85`): without it an outage with no access point in reach could
  outlast the bound. `QuietInv` splits a quiet time by what can be wrong in it.
  `WifiInv`, `OfflineInv`: as long as WiFi or the connection is missing, the
  last attempt is older than the quiet, since an attempt that fails ends it, so
  that the next one is near. `DeafInv`: a dead session is noticed in the next
  pass. `BehindInv`: online and yet behind, nothing has been sent since the
  quiet began, and the last publish, which the rate limit let pass only without
  the pump state, came early in it; the next is due a publish interval later,
  and `Slack` counts the time until the controller has its turn. The only step
  by which time passes in a quiet time is `WifiLoop`; every step that ends it
  starts all bounds again (`JustDisturbed`).

**Sensors.** For any tick period, debounce time, blink pattern and spacing of
the passes:

- `RealPressesHold` (no further assumption) and `PressesHold` (the debounce
  time and a pass fit into half a period: `ShortPress`). `EdgeInv` says that
  the tick the code keeps is that of the sample that began the press, which is
  later than the press reported before; `PressInv` that a press in progress is
  either reported or younger than the debounce time.
- `LedBlinksHolds` (steps fit into half a period, two passes into less:
  `ShortSteps`). `LedInv` says that the tick the code keeps is the one at which
  the step shown is over.
- `TypeCorrect`: `TypeOK`, by the parts of the state: level, button, wires and
  readings, LED.
- `DryNoticedHolds` in `Readings_proofs` (successive reads are the debounce
  time apart and there is a delay: `TimelyReads`; in the code two seconds less
  one against 50 ms, and three seconds). `StageInv` follows the filter from
  the moment the pipes fall dry: not sampled since; one sample; stable, and
  younger than the delay. Each stage lasts a read interval at most, and none
  can be skipped or begun again by what the level did before, because the ticks
  that the filter keeps belong to samples younger than its last rest
  (`ReadInv`), since when the counter has not wrapped around.
- `OnlyAgreedHolds` (reads further apart than the debounce time: `SpacedReads`,
  50 ms against two seconds less one). `AgreedInv`: since the filter's last rest
  the stable level is the one that two samples agreed on last, and as long as
  it is not believed, the tick from which the delay counts is that of their
  agreement.
- `TempsFreshHolds` and `LossNoticedHolds` (a conversion ends before the next
  read is due, and fits with a read gap into half a period of the ticks:
  `QuickConversions`; 750 ms, `temperature.py:20`, against two seconds less
  one). `FreshInv` follows the two phases: how old the readings were at the last
  read, and which losses may not be listed yet, right after a fetch and while
  the next conversion goes on, which the last read has started. With
  conversions longer than the interval the bound would be another.
- Button and LED rest on lemmas about `ticks_diff` and `ticks_add`: the
  difference of two ticks is that of the times as long as they are less than
  half a period apart (`DiffExact`), and never more than it (`DiffBelow`). The
  water level rests on `PlainDiff`: so is the plain difference, without a wrap.

**Clock.** For every hour of `UkTime`'s calendar, `OffsetLegal`: the offset
rule of `ntp.py`, by last Sundays, is the legal one. It follows from the
weekday of the 31st being what the formula says, with the month of a day bounded
first. And for all units, intervals, pass lengths and moments of power-up, from
`Inv == ClockInv /\ ReadInv /\ DryInv` in `MainLoop_proofs`:

- `TypeCorrect`, `SummerTimeHolds`, `ReadGapHolds`, `DryStopsHolds`.
  `ClockInv` bounds how far the RTC can be ahead, which is how far it can be
  set back; `ReadInv` relates the stamp of the last read to when that was by
  UTC, so that a clock that was set back since can delay the next by an hour at
  most; `DryInv` says that a level that is believed was read before the pipes
  fell dry.

- `RunLengthHolds`, assuming that the date a Pico without time starts from is
  longer ago than any run lasts (`LongAgo`; it starts in 2021). `BehindInv`: the
  RTC is right, an hour ahead, or behind by more than any run. `RunInv`: a run
  that is on began by an RTC that was one of these, and is not over yet by the
  one there is.
- `ResyncOnceHolds`, without further assumption. `ResyncInv`: the number kept is
  that of a day in whose fourth hour, by an RTC right but for an hour, the last
  resync was; another in less than 22 hours would be on the same day, or not in
  that hour.
- `ClockRightHolds`, assuming that no pass takes longer than an hour
  (`ShortPasses`), or it could miss the whole hour of the resync. `WrongInv`:
  a clock that is wrong became so by the law, in the hours before a resync that
  is still awaited (`WrongByLaw`), or was left so by an attempt on the day
  before the one awaited (`WrongByFailure`); and what is awaited comes at that
  day's hour, or a day later where its number is taken for done (`Awaited`).
  That the law changes at one, and that neighbouring days have different
  numbers, are lemmas of `UkTime_proofs`.

Every safety property that a passing run checks has its theorem. Model-checked
only is liveness (`BootSettles`, `Converges`), which is out of the prover's
reach: `EveryStepCloser` proves that there are no endless repetitions, TLC that
nothing stops halfway. The seven claims of section 3 are refuted, not proved.

## 6. Not modelled

- The controller as a whole under the jumping clock: `MainLoop` has its
  extended run, and the theorems of `PumpController` that hold for any
  `LoopGaps` cover the rest of the modes. A missing reading overnight, which
  keeps the test timer from being held (`controller.py:188`), has no property.
- The network under the jumping clock: `last_ping` is taken before the clock is
  set (`mqtt.py:121`), so that without MQTT at boot the Pico restarts for as
  long as the broker is away.
- Exceptions inside a cycle are modelled where they matter most, in `MainLoop`;
  `PumpController` has none.
- What an operator means by a command that the broker's echo of a boost's reset
  overtakes. Mode 0 may arrive at any time in `PumpController`, so that what is
  shown holds with the echo too.
- A subscription that fails is a broker that sends nothing, which `Telemetry`
  allows; that commands arrive is not promised by the code. Keepalive pings,
  which nothing sends, are sessions that may be lost at any time.
- What a file that was cut short does when it runs, beyond failing its imports:
  a part of `main.py` or `ota.py` boots or does not.
- An exception of the controller in every cycle, which leaves the pump as it is
  for as long (`main.py:157`): `DryStops` is about the passes that do not raise.
- The water level's filter across the wrap of the ticks, which fails (section
  3): the properties except it, and no run refutes a claim about it.
- The desktop backend of MQTT, the contents of the debug message, keys of the
  state that are only displayed, the log buffer that nothing uses, the desktop
  tool, mocks and tests.

## 7. Plan

Done, most important first: controller with policy and histories; updater;
telemetry; sensors and LED; clock and main loop; proofs of every safety property
that a passing run checks.
Left:

1. `Dashboard`: controller, broker and echo composed; a boost's own reset
   arriving after a later command.
2. The first test of the day after a night with a missing reading; the
   watchdog's restarts under the clock set at boot.
3. Proofs: what the histories of `PumpHistory` say under the clock of
   `MainLoop`, which goes back by an hour.
