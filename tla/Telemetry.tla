------------------------------ MODULE Telemetry ------------------------------
(***************************************************************************)
(* The path from the pump to the dashboard: Network.loop with WiFiManager  *)
(* and MQTTManager (net/), the publishing half of the controller, and the  *)
(* main loop that calls them in turn.                                      *)
(*                                                                         *)
(* The program is one thread: turn says which call comes next, and the     *)
(* network changes behind its back.  connected is what MQTTManager thinks, *)
(* session whether the broker still listens: QoS 0 publishes into a dead   *)
(* session either raise or vanish.  Of the messages, only the pump state   *)
(* has a value; the periodic readings count as one message.                *)
(***************************************************************************)
EXTENDS Integers, Sequences

CONSTANTS
  RateLimit,                \* MQTTManager.RATE_LIMIT_SEC
  QueueMaxsize,             \* MQTTManager.QUEUE_MAXSIZE
  ReconnectInterval,        \* MQTTManager._reconnect_interval
  WatchdogThreshold,        \* watchdog_interval * WATCHDOG_MULTIPLIER
  WifiReconnectInterval,    \* WiFiManager.RECONNECT_INTERVAL
  PublishInterval,          \* config["publish_interval"]
  PublishIntervalOffHours,  \* config["publish_interval_off_hours"]
  LoopGaps,                 \* clock advances from one main loop to the next
  Readings,                 \* how many readings a full publish sends
  BootTime                  \* what the clock shows at first

ASSUME IntervalsAssumption ==
  /\ RateLimit \in Nat /\ ReconnectInterval \in Nat
  /\ WatchdogThreshold \in Nat /\ WifiReconnectInterval \in Nat
  /\ PublishInterval \in Nat /\ RateLimit <= PublishInterval
  /\ PublishIntervalOffHours \in Nat
  /\ PublishInterval <= PublishIntervalOffHours
  /\ PublishInterval > 0
ASSUME QueueAssumption ==
  /\ Readings \in Nat
  /\ QueueMaxsize \in Nat
  /\ QueueMaxsize >= Readings + 3
ASSUME ClockAssumption == LoopGaps \subseteq Nat /\ BootTime \in Nat

VARIABLES
  now, turn,
  \* the world: what can be reached, and whether the session is alive
  reachable, session, core_hours,
  \* WiFiManager
  wifi, wifi_attempt,
  \* MQTTManager
  connected, queue, last_sent, last_ping, reconnect_attempt,
  \* Controller and main.py
  pump_on, last_publish, ota_pending, ota_serving,
  \* the broker: the pump state it shows
  shown,
  \* history: when something last went wrong or changed, and when the
  \* connection was last given up
  calm_since, down_since

world == <<reachable, session, core_hours>>
wlan == <<wifi, wifi_attempt>>
ota == <<ota_pending, ota_serving>>
vars == <<now, turn, world, wlan, connected, queue, last_sent, last_ping,
          reconnect_attempt, pump_on, last_publish, ota, shown, calm_since,
          down_since>>

Topics == {"pump_state", "readings", "debug", "pump_override", "ota_trigger"}
Limited == {"pump_state", "debug"}
Messages == [topic : Topics, value : {"on", "off", "any"}]
Turns == {"boot", "wifi", "inbound", "flush", "reconnect", "watchdog", "ota",
          "ota_stop", "controller"}

\* The queue holds messages with their topics, never more than it may.
TypeOK ==
  /\ now \in Nat
  /\ turn \in Turns
  /\ reachable \in {"nothing", "wifi", "broker"}
  /\ session \in BOOLEAN
  /\ core_hours \in BOOLEAN
  /\ wifi \in BOOLEAN
  /\ wifi_attempt \in Nat
  /\ connected \in BOOLEAN
  /\ queue \in Seq(Messages) /\ Len(queue) <= QueueMaxsize
  /\ last_sent \in [Limited -> Nat]
  /\ last_ping \in Nat
  /\ reconnect_attempt \in Nat
  /\ pump_on \in BOOLEAN
  /\ last_publish \in Nat
  /\ ota_pending \in BOOLEAN
  /\ ota_serving \in BOOLEAN
  /\ shown \in {"on", "off", "any"}
  /\ calm_since \in Nat
  /\ down_since \in Nat

Shown(on) == IF on THEN "on" ELSE "off"
PumpState(on) == [topic |-> "pump_state", value |-> Shown(on)]
Other(topic) == [topic |-> topic, value |-> "any"]

\* Before the first boot.
Init ==
  /\ now = BootTime
  /\ turn = "boot"
  /\ reachable \in {"nothing", "wifi", "broker"}
  /\ session = FALSE
  /\ core_hours \in BOOLEAN
  /\ wifi = FALSE
  /\ wifi_attempt = 0
  /\ connected = FALSE
  /\ queue = <<>>
  /\ last_sent = [topic \in Limited |-> 0]
  /\ last_ping = now
  /\ reconnect_attempt = 0
  /\ pump_on = FALSE
  /\ last_publish = 0
  /\ ota_pending = FALSE
  /\ ota_serving = FALSE
  /\ shown = "any"
  /\ calm_since = now
  /\ down_since = now

-----------------------------------------------------------------------------
(* The world.                                                               *)

\* The access point, the way to the broker or the broker comes or goes.
WorldChanges ==
  /\ reachable' \in {"nothing", "wifi", "broker"} \ {reachable}
  /\ wifi' = (wifi /\ reachable' # "nothing")
  /\ session' = (session /\ reachable' = "broker")
  /\ UNCHANGED now
  /\ calm_since' = now
  /\ UNCHANGED <<turn, core_hours, wifi_attempt, connected, queue, last_sent,
                 last_ping, reconnect_attempt, pump_on, last_publish, ota,
                 shown, down_since>>

\* An association that was still under way after the last attempt completes.
WifiJoins ==
  /\ ~wifi
  /\ reachable # "nothing"
  /\ wifi' = TRUE
  /\ UNCHANGED <<now, turn, world, wifi_attempt, connected, queue, last_sent,
                 last_ping, reconnect_attempt, pump_on, last_publish, ota,
                 shown, calm_since, down_since>>

\* The broker drops a client it has not heard from, or the radio blinks.
SessionLost ==
  /\ session
  /\ session' = FALSE
  /\ wifi' \in {wifi, FALSE}
  /\ UNCHANGED now
  /\ calm_since' = now
  /\ UNCHANGED <<turn, reachable, core_hours, wifi_attempt, connected, queue,
                 last_sent, last_ping, reconnect_attempt, pump_on,
                 last_publish, ota, shown, down_since>>

HourChange ==
  /\ core_hours' = ~core_hours
  /\ UNCHANGED now
  /\ calm_since' = now
  /\ UNCHANGED <<turn, reachable, session, wlan, connected, queue, last_sent,
                 last_ping, reconnect_attempt, pump_on, last_publish, ota,
                 shown, down_since>>

-----------------------------------------------------------------------------
(* MQTTManager: the queue, publish and flush_queue.                         *)

\* Slip: the topic is left out.
WithoutTopic(m) == [value |-> m.value]
\* What _Queue holds for a message.
QueueItem(m) == m

\* _Queue.put, one by one: of all, the newest QueueMaxsize stay.
PutAll(q, ms) ==
  LET all == q \o [i \in 1..Len(ms) |-> QueueItem(ms[i])]
      dropped == IF Len(all) > QueueMaxsize THEN Len(all) - QueueMaxsize ELSE 0
  IN  SubSeq(all, dropped + 1, Len(all))

\* The pump state shown once the first k of these messages have been sent.
ShownAfter(ms, k) ==
  LET Last(i) == /\ ms[i].topic = "pump_state"
                 /\ \A j \in (i + 1)..k : ms[j].topic # "pump_state"
  IN  IF \E i \in 1..k : Last(i) THEN ms[CHOOSE i \in 1..k : Last(i)].value
                                 ELSE shown

GivenUp == down_since' = IF connected /\ ~connected' THEN now' ELSE down_since

\* publish() for each of the messages in turn, past the rate limit: the first
\* that raises and all that follow are queued.
PublishAll(ms) ==
  /\ \/ /\ connected
        /\ \E k \in 0..Len(ms) :
             /\ connected' = (k = Len(ms))
             /\ session' = (session /\ connected')
             /\ queue' = PutAll(queue, SubSeq(ms, k + 1, Len(ms)))
             /\ last_sent' = [topic \in Limited |->
                                IF \E i \in 1..k : ms[i].topic = topic
                                THEN now' ELSE last_sent[topic]]
             /\ last_ping' = IF k > 0 THEN now' ELSE last_ping
             /\ shown' = IF session THEN ShownAfter(ms, k) ELSE shown
     \/ /\ ~connected
        /\ queue' = PutAll(queue, ms)
        /\ UNCHANGED <<connected, session, last_sent, last_ping, shown>>
  /\ GivenUp

\* Slip: the message that raises is looked at, not taken, and queued again.
RequeuedTwice(k) ==
  IF k = Len(queue) THEN <<>>
  ELSE Append(SubSeq(queue, k + 1, Len(queue)), queue[k + 1])
\* flush_queue: the first that raises goes to the end, and the rest stays.
Requeued(k) ==
  IF k = Len(queue) THEN <<>>
  ELSE Append(SubSeq(queue, k + 2, Len(queue)), queue[k + 1])
FlushQueue(heard) ==
  \E k \in 0..Len(queue) :
    /\ connected' = (k = Len(queue))
    /\ queue' = Requeued(k)
    /\ shown' = IF heard THEN ShownAfter(queue, k) ELSE shown

\* Something failed although nothing says so yet, or just now.
Failure == connected /\ (~connected' \/ ~session)
Noted == calm_since' = IF Failure THEN now' ELSE calm_since

-----------------------------------------------------------------------------
(* Network.loop: WiFiManager.loop, MQTTManager.loop, then its watchdog.     *)

WifiLoop ==
  /\ turn = "wifi"
  /\ turn' = "inbound"
  /\ \E gap \in LoopGaps : now' = now + gap
  /\ IF wifi THEN wifi_attempt' = 0 /\ UNCHANGED <<wifi, calm_since>>
     ELSE IF now' - wifi_attempt < WifiReconnectInterval
     THEN UNCHANGED <<wifi, wifi_attempt, calm_since>>
     ELSE /\ wifi_attempt' = now'
          /\ \/ wifi' = (reachable # "nothing") /\ UNCHANGED calm_since
             \/ wifi' = FALSE /\ calm_since' = now'
  /\ UNCHANGED <<world, connected, queue, last_sent, last_ping,
                 reconnect_attempt, pump_on, last_publish, ota, shown,
                 down_since>>

\* check_msg finds nothing, or raises.
CheckMsg ==
  /\ turn = "inbound"
  /\ turn' = "flush"
  /\ UNCHANGED now
  /\ connected' \in {connected, FALSE}
  /\ session' = (session /\ connected')
  /\ Noted
  /\ GivenUp
  /\ UNCHANGED <<reachable, core_hours, wlan, queue, last_sent, last_ping,
                 reconnect_attempt, pump_on, last_publish, ota, shown>>

\* A command arrives.  A boost is echoed to its own feed, unless the rate
\* limit forbids; an update request is remembered.
Receive ==
  /\ turn = "inbound"
  /\ turn' = "flush"
  /\ connected /\ session
  /\ UNCHANGED now
  /\ \/ PublishAll(<<Other("pump_override")>>) /\ UNCHANGED ota_pending
     \/ /\ ota_pending' = TRUE
        /\ UNCHANGED <<connected, session, queue, last_sent, last_ping, shown,
                       down_since>>
  /\ Noted
  /\ UNCHANGED <<reachable, core_hours, wlan, reconnect_attempt, pump_on,
                 last_publish, ota_serving>>

Flush ==
  /\ turn = "flush"
  /\ turn' = "reconnect"
  /\ UNCHANGED now
  /\ IF connected
     THEN FlushQueue(session) /\ session' = (session /\ connected')
     ELSE UNCHANGED <<connected, session, queue, shown>>
  /\ Noted
  /\ GivenUp
  /\ UNCHANGED <<reachable, core_hours, wlan, last_sent, last_ping,
                 reconnect_attempt, pump_on, last_publish, ota>>

ReconnectDue ==
  /\ ~connected
  /\ wifi
  /\ now - reconnect_attempt >= ReconnectInterval

NoReconnect ==
  /\ turn = "reconnect"
  /\ turn' = "watchdog"
  /\ ~ReconnectDue
  /\ UNCHANGED <<now, world, wlan, connected, queue, last_sent, last_ping,
                 reconnect_attempt, pump_on, last_publish, ota, shown,
                 calm_since, down_since>>

\* _connect_pico flushes what was queued, over the fresh session.
FlushedOnConnect == FlushQueue(TRUE)

Reconnects ==
  /\ turn = "reconnect"
  /\ turn' = "watchdog"
  /\ ReconnectDue
  /\ reachable = "broker"
  /\ UNCHANGED now
  /\ reconnect_attempt' = now
  /\ last_ping' = now
  /\ FlushedOnConnect
  /\ session' = connected'
  /\ calm_since' = IF connected' THEN calm_since ELSE now
  /\ down_since' = IF connected' THEN down_since ELSE now
  /\ UNCHANGED <<reachable, core_hours, wlan, last_sent, pump_on, last_publish,
                 ota>>

\* Slip: an attempt counts as a sign of life.
PingOnAttempt == now
PingAfterFailure == last_ping

\* connect() blocks for a while, and fails.
ReconnectFails ==
  /\ turn = "reconnect"
  /\ turn' = "watchdog"
  /\ ReconnectDue
  /\ \E gap \in LoopGaps \cup {0} : now' = now + gap
  /\ reconnect_attempt' = now
  /\ last_ping' = PingAfterFailure
  /\ calm_since' = now'
  /\ UNCHANGED <<world, wlan, connected, queue, last_sent, pump_on,
                 last_publish, ota, shown, down_since>>

Unresponsive == ~connected /\ now - last_ping > WatchdogThreshold

AfterNetwork == CASE ota_serving -> "ota_stop"
                  [] ~ota_serving /\ ota_pending -> "ota"
                  [] OTHER -> "controller"

WatchdogPasses ==
  /\ turn = "watchdog"
  /\ ~Unresponsive
  /\ turn' = AfterNetwork
  /\ UNCHANGED <<now, world, wlan, connected, queue, last_sent, last_ping,
                 reconnect_attempt, pump_on, last_publish, ota, shown,
                 calm_since, down_since>>

\* restart_system: the pump goes off, then the Pico resets.
WatchdogRestarts ==
  /\ turn = "watchdog"
  /\ Unresponsive
  /\ turn' = "boot"
  /\ pump_on' = FALSE
  /\ UNCHANGED <<now, world, wlan, connected, queue, last_sent, last_ping,
                 reconnect_attempt, last_publish, ota, shown, calm_since,
                 down_since>>

\* main.py connects, WiFi first, each once or until it gives up.
Boot ==
  /\ turn = "boot"
  /\ turn' = "wifi"
  /\ \E gap \in LoopGaps : now' = now + gap
  /\ wifi' \in {FALSE, reachable # "nothing"}
  /\ connected' \in {FALSE, wifi' /\ reachable = "broker"}
  /\ session' = connected'
  /\ wifi_attempt' = 0
  /\ queue' = <<>>
  /\ last_sent' = [topic \in Limited |-> 0]
  /\ last_ping' = now'
  /\ reconnect_attempt' = 0
  /\ pump_on' = FALSE
  /\ last_publish' = 0
  /\ ota_pending' = FALSE
  /\ ota_serving' = FALSE
  /\ calm_since' = now'
  /\ down_since' = now'
  /\ UNCHANGED <<reachable, core_hours, shown>>

-----------------------------------------------------------------------------
(* Controller._set_pump, _check_publish and publish_state.                  *)

Due(topic) == now - last_sent[topic] >= RateLimit

\* Slip: the pump state is published on changes only.
ChangesOnly(on, full, urgent) ==
  (IF ~full /\ (urgent \/ Due("pump_state")) THEN <<PumpState(on)>> ELSE <<>>)
    \o (IF full THEN [i \in 1..Readings |-> Other("readings")] ELSE <<>>)
    \o (IF Due("debug") THEN <<Other("debug")>> ELSE <<>>)
\* What publish_state hands over: only the pump state can be urgent.
Batch(on, full, urgent) ==
  (IF urgent \/ Due("pump_state") THEN <<PumpState(on)>> ELSE <<>>)
    \o (IF full THEN [i \in 1..Readings |-> Other("readings")] ELSE <<>>)
    \o (IF Due("debug") THEN <<Other("debug")>> ELSE <<>>)

\* Slip: offline, everything is queued.
Always == TRUE
\* Offline, publish_state returns at once.
Online == connected

PublishState(on, full, urgent) ==
  IF Online THEN PublishAll(Batch(on, full, urgent))
  ELSE UNCHANGED <<connected, session, queue, last_sent, last_ping, shown,
                   down_since>>

PublishDue ==
  now - last_publish >=
    IF core_hours THEN PublishInterval ELSE PublishIntervalOffHours

\* A cycle sets the pump; safety stops are urgent.
SetPump(on, renamed, urgent) ==
  /\ pump_on' = on
  /\ \/ /\ on # pump_on \/ renamed
        /\ PublishState(on, FALSE, urgent)
        /\ last_publish' = now
     \/ /\ on = pump_on /\ ~renamed
        /\ UNCHANGED <<connected, session, queue, last_sent, last_ping, shown,
                       down_since, last_publish>>

ControllerLoop ==
  /\ turn = "controller"
  /\ turn' = "wifi"
  /\ UNCHANGED now
  /\ \E on, renamed, urgent \in BOOLEAN :
       /\ urgent => ~on
       /\ IF on = pump_on /\ ~renamed /\ PublishDue
          THEN /\ PublishState(on, TRUE, FALSE)
               /\ last_publish' = now
               /\ UNCHANGED pump_on
          ELSE SetPump(on, renamed, urgent)
  /\ calm_since' = IF Failure \/ pump_on' # pump_on THEN now ELSE calm_since
  /\ UNCHANGED <<reachable, core_hours, wlan, reconnect_attempt, ota>>

\* main.py serves an update request: the trigger is reset first ...
OtaAnswer ==
  /\ turn = "ota"
  /\ turn' = "wifi"
  /\ UNCHANGED now
  /\ ota_pending' = FALSE
  /\ ota_serving' = TRUE
  /\ PublishAll(<<Other("ota_trigger")>>)
  /\ Noted
  /\ UNCHANGED <<reachable, core_hours, wlan, reconnect_attempt, pump_on,
                 last_publish>>

\* ... and after Network.loop the pump stops for the check, which takes its
\* time and may end in a reset.
OtaStop ==
  /\ turn = "ota_stop"
  /\ turn' \in {"controller", "boot"}
  /\ ota_serving' = FALSE
  /\ UNCHANGED now
  /\ \E renamed \in BOOLEAN : SetPump(FALSE, renamed, TRUE)
  /\ calm_since' = IF Failure \/ pump_on' # pump_on THEN now ELSE calm_since
  /\ UNCHANGED <<reachable, core_hours, wlan, reconnect_attempt, ota_pending>>

Network == WifiLoop \/ CheckMsg \/ Receive \/ Flush \/ NoReconnect
             \/ Reconnects \/ ReconnectFails
Watchdog == WatchdogPasses \/ WatchdogRestarts

Next ==
  \/ WorldChanges
  \/ WifiJoins
  \/ SessionLost
  \/ HourChange
  \/ Boot
  \/ Network
  \/ Watchdog
  \/ OtaAnswer
  \/ OtaStop
  \/ ControllerLoop

Spec == Init /\ [][Next]_vars

-----------------------------------------------------------------------------
(* Properties.                                                              *)

\* No feed gets an older value after a newer one.  flush_queue does not keep
\* the order of its queue, as its comment has it (mqtt.py:276-277): a message
\* that raises goes behind those that waited with it (mqtt.py:289).  But no two
\* of them are for one feed, over any number of failing flushes, and what is
\* published on a connection finds the queue empty.  ("readings" stands for a
\* feed each.)
FeedsInOrder ==
  /\ \A i, j \in DOMAIN queue :
       i # j /\ queue[i].topic = queue[j].topic => queue[i].topic = "readings"
  /\ connected => queue = <<>>

\* The queue never holds more than one full publish and the answer to an update
\* request, so that put() never drops a message (mqtt.py:28), however often the
\* connection fails and comes back.
QueueBounded == Len(queue) <= Readings + 3

Longest(times) == CHOOSE t \in times : \A other \in times : other <= t
LongestGap == Longest(LoopGaps)
LongestRetry == Longest({WifiReconnectInterval, ReconnectInterval, RateLimit})
CalmBound == LongestRetry + PublishIntervalOffHours + 2 * LongestGap

\* The dashboard catches up: once the pump, the hour and the network have
\* been quiet for the longest retry interval, a publish interval and two rounds
\* of Network.loop (an update request puts a second one before the controller's
\* turn), it shows the pump's state, whatever was lost, skipped or queued before.
DashboardCatchesUp ==
  now - calm_since > CalmBound => shown = Shown(pump_on)

\* The watchdog ends every outage: no connection is missing for longer than
\* its threshold, one pass of the main loop aside.
OutageBounded ==
  turn = "controller" /\ ~connected => now - down_since <= WatchdogThreshold
=============================================================================
