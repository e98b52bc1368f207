----------------------------- MODULE MCTelemetry -----------------------------
(* Instance of Telemetry for TLC: intervals in the order of the code's own, *)
(* an unbounded clock seen through the ages of its timestamps.              *)
EXTENDS Telemetry, TLC

Age(t, cap) == IF now - t < cap THEN now - t ELSE cap

AgesView ==
  <<turn, world, wifi, connected, queue, pump_on, ota, shown,
    Age(wifi_attempt, WifiReconnectInterval),
    Age(last_sent["pump_state"], RateLimit), Age(last_sent["debug"], RateLimit),
    Age(last_ping, WatchdogThreshold + 1),
    Age(reconnect_attempt, ReconnectInterval),
    Age(last_publish, PublishIntervalOffHours),
    Age(calm_since, CalmBound + 1),
    IF connected THEN 0 ELSE Age(down_since, WatchdogThreshold + 1)>>

Queued(m) == \E i \in DOMAIN queue' : queue'[i] = m
\* Urgent messages "are never silently dropped"; "when offline, messages are
\* held in a bounded queue" (mqtt.py:241-246): the stop for an update check,
\* which is always urgent (main.py:144), is sent or queued.
UrgentNeverDropped ==
  [][turn = "ota_stop" /\ pump_on /\ ~pump_on' =>
       connected \/ Queued(PumpState(FALSE))]_vars

\* The watchdog restarts the system "only after a sustained outage", which
\* "prevents spurious reboots from brief network blips" (mqtt.py:79-84): never
\* after an outage shorter than even the interval between two reconnects.
RestartsOnlyAfterOutage ==
  [][turn = "watchdog" /\ turn' = "boot" =>
       now - down_since >= ReconnectInterval]_vars
=============================================================================
