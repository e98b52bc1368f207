-------------------------- MODULE Telemetry_proofs --------------------------
(***************************************************************************)
(* Theorems about Telemetry for any intervals, gaps and queue size.        *)
(***************************************************************************)
EXTENDS Telemetry, SequenceTheorems, TLAPS

Values == {"on", "off", "any"}

\* An update request that waits may still put its answer into the queue.
Pending == IF ota_pending THEN 1 ELSE 0
QueueInv ==
  /\ connected => queue = <<>>
  /\ Len(queue) + Pending <= Readings + 3
  /\ turn = "ota" => ota_pending

\* An outage lasts since the last sign of life or longer, and where the
\* watchdog has passed it is short.
PastWatchdog == turn \in {"ota", "ota_stop", "controller"}
OutageInv ==
  /\ last_ping <= now
  /\ down_since <= now
  /\ ~connected => last_ping <= down_since
  /\ PastWatchdog /\ ~connected => now - down_since <= WatchdogThreshold

Inv == TypeOK /\ QueueInv /\ OutageInv

-----------------------------------------------------------------------------
(* The queue and the messages.                                              *)

LEMMA MessageTypes ==
  /\ \A on \in BOOLEAN : PumpState(on) \in Messages
  /\ \A topic \in Topics : Other(topic) \in Messages
  BY DEF PumpState, Other, Shown, Messages, Topics

\* A sequence of at most one message.
LEMMA Single ==
  ASSUME NEW c \in BOOLEAN, NEW m \in Messages
  PROVE  LET s == IF c THEN <<m>> ELSE <<>>
         IN  s \in Seq(Messages) /\ Len(s) <= 1
  OBVIOUS

LEMMA BatchFacts ==
  ASSUME NEW on \in BOOLEAN, NEW full \in BOOLEAN, NEW urgent \in BOOLEAN
  PROVE  /\ Batch(on, full, urgent) \in Seq(Messages)
         /\ Len(Batch(on, full, urgent)) <= Readings + 2
<1> DEFINE p == IF urgent \/ Due("pump_state") THEN <<PumpState(on)>> ELSE <<>>
           r == IF full THEN [i \in 1..Readings |-> Other("readings")] ELSE <<>>
           d == IF Due("debug") THEN <<Other("debug")>> ELSE <<>>
<1>1. p \in Seq(Messages) /\ Len(p) <= 1
  BY MessageTypes
<1>2. r \in Seq(Messages) /\ Len(r) <= Readings
  <2>1. Other("readings") \in Messages
    BY MessageTypes DEF Topics
  <2>2. CASE full
    <3> HIDE DEF Other
    <3>1. Readings \in Nat
      BY QueueAssumption
    <3> QED
      BY <2>1, <2>2, <3>1
  <2> QED
    BY <2>2, QueueAssumption
<1>3. d \in Seq(Messages) /\ Len(d) <= 1
  BY MessageTypes DEF Topics
<1>4. Batch(on, full, urgent) = p \o r \o d
  BY DEF Batch
<1> HIDE DEF p, r, d
<1> QED
  BY <1>1, <1>2, <1>3, <1>4, QueueAssumption

\* put() keeps the queue within its size, and adds no more than it is given.
LEMMA PutAllFacts ==
  ASSUME NEW q \in Seq(Messages), NEW ms \in Seq(Messages)
  PROVE  /\ PutAll(q, ms) \in Seq(Messages)
         /\ Len(PutAll(q, ms)) <= QueueMaxsize
         /\ Len(PutAll(q, ms)) <= Len(q) + Len(ms)
<1> DEFINE new == [i \in 1..Len(ms) |-> QueueItem(ms[i])]
           all == q \o new
           dropped == IF Len(all) > QueueMaxsize THEN Len(all) - QueueMaxsize
                      ELSE 0
<1>1. new \in Seq(Messages) /\ Len(new) = Len(ms)
  BY DEF QueueItem
<1> HIDE DEF new
<1>2. all \in Seq(Messages) /\ Len(all) = Len(q) + Len(ms)
  BY <1>1
<1>3. dropped \in 0..Len(all) /\ Len(all) - dropped <= QueueMaxsize
  BY <1>2, QueueAssumption
<1>4. PutAll(q, ms) = SubSeq(all, dropped + 1, Len(all))
  BY DEF PutAll, new
<1> HIDE DEF all, dropped
<1>5. \A i \in (dropped + 1)..Len(all) : all[i] \in Messages
  BY <1>2, <1>3
<1>6. /\ PutAll(q, ms) \in Seq(Messages)
      /\ Len(PutAll(q, ms)) = Len(all) - dropped
  BY <1>2, <1>3, <1>4, <1>5, SubSeqProperties
<1> QED
  BY <1>2, <1>3, <1>6

LEMMA RequeuedFacts ==
  ASSUME queue \in Seq(Messages), NEW k \in 0..Len(queue)
  PROVE  /\ Requeued(k) \in Seq(Messages)
         /\ Len(Requeued(k)) <= Len(queue)
         /\ k = Len(queue) => Requeued(k) = <<>>
<1>1. CASE k = Len(queue)
  BY <1>1 DEF Requeued
<1>2. CASE k # Len(queue)
  <2> DEFINE rest == SubSeq(queue, k + 2, Len(queue))
  <2>1. \A i \in (k + 2)..Len(queue) : queue[i] \in Messages
    OBVIOUS
  <2>2. rest \in Seq(Messages) /\ Len(rest) <= Len(queue) - 1
    BY <1>2, <2>1, SubSeqProperties
  <2>3. queue[k + 1] \in Messages
    BY <1>2
  <2>4. Requeued(k) = Append(rest, queue[k + 1])
    BY <1>2 DEF Requeued
  <2> HIDE DEF rest
  <2> QED
    BY <1>2, <2>2, <2>3, <2>4
<1> QED
  BY <1>1, <1>2

LEMMA ShownAfterType ==
  ASSUME shown \in Values, NEW ms \in Seq(Messages), NEW k \in 0..Len(ms)
  PROVE  ShownAfter(ms, k) \in Values
<1> DEFINE Last(i) == /\ ms[i].topic = "pump_state"
                      /\ \A j \in (i + 1)..k : ms[j].topic # "pump_state"
<1>1. ShownAfter(ms, k) =
        IF \E i \in 1..k : Last(i) THEN ms[CHOOSE i \in 1..k : Last(i)].value
                                   ELSE shown
  BY DEF ShownAfter
<1> HIDE DEF Last
<1>2. CASE \E i \in 1..k : Last(i)
  <2> DEFINE i0 == CHOOSE i \in 1..k : Last(i)
  <2>1. i0 \in 1..k
    BY <1>2
  <2>2. ms[i0] \in Messages
    <3> HIDE DEF i0
    <3> QED
      BY <2>1
  <2> QED
    BY <1>1, <1>2, <2>2 DEF Messages, Values
<1> QED
  BY <1>1, <1>2

-----------------------------------------------------------------------------
(* What any use of the connection does to it, with n messages handed over.  *)

NetType ==
  /\ {connected', session'} \subseteq BOOLEAN
  /\ queue' \in Seq(Messages)
  /\ Len(queue') <= QueueMaxsize
  /\ last_sent' \in [Limited -> Nat]
  /\ {last_ping', down_since'} \subseteq Nat
  /\ shown' \in Values

NetUse(n) ==
  /\ NetType
  /\ Len(queue') <= Len(queue) + n
  /\ connected' => connected /\ queue' = <<>>
  /\ last_ping' = last_ping \/ (connected /\ last_ping' = now)
  /\ down_since' = IF connected /\ ~connected' THEN now ELSE down_since

\* What NetUse needs to hold before.
Ready == TypeOK /\ (connected => queue = <<>>)

LEMMA NothingSent ==
  ASSUME Ready,
         UNCHANGED <<connected, session, queue, last_sent, last_ping, shown,
                     down_since>>
  PROVE  NetUse(0)
<1>1. /\ queue \in Seq(Messages) /\ Len(queue) <= QueueMaxsize
      /\ connected => queue = <<>>
      /\ {connected, session} \subseteq BOOLEAN
      /\ last_sent \in [Limited -> Nat]
      /\ {last_ping, down_since} \subseteq Nat
      /\ shown \in Values
  BY DEF Ready, TypeOK, Values
<1>2. Len(queue') <= Len(queue) + 0
  <2>1. Len(queue) \in Nat
    BY <1>1
  <2> QED
    BY <2>1
<1>3. NetType
  BY <1>1, Zenon DEF NetType
<1> QED
  BY <1>1, <1>2, <1>3, Zenon DEF NetUse

LEMMA PublishAllUse ==
  ASSUME Ready, now' = now, NEW ms \in Seq(Messages), PublishAll(ms)
  PROVE  NetUse(Len(ms))
<1> USE DEF Ready
<1>0. down_since' = IF connected /\ ~connected' THEN now ELSE down_since
  BY DEF PublishAll, GivenUp
<1>1. CASE ~connected
  <2>1. queue' = PutAll(queue, ms)
    BY <1>1 DEF PublishAll
  <2>2. UNCHANGED <<connected, session, last_sent, last_ping, shown>>
    BY <1>1 DEF PublishAll
  <2>3. queue \in Seq(Messages)
    BY DEF TypeOK
  <2>4. /\ queue' \in Seq(Messages)
        /\ Len(queue') <= QueueMaxsize
        /\ Len(queue') <= Len(queue) + Len(ms)
    BY <2>1, <2>3, PutAllFacts
  <2>5. /\ {connected, session} \subseteq BOOLEAN
        /\ last_sent \in [Limited -> Nat]
        /\ {last_ping, down_since} \subseteq Nat
        /\ shown \in Values
    BY DEF TypeOK, Values
  <2>6. down_since' = down_since
    BY <1>0, <1>1
  <2>7. NetType
    BY <2>2, <2>4, <2>5, <2>6, Zenon DEF NetType
  <2> QED
    BY <1>0, <1>1, <2>2, <2>4, <2>7, Zenon DEF NetUse
<1>2. CASE connected
  <2>1. PICK k \in 0..Len(ms) :
          /\ connected' = (k = Len(ms))
          /\ session' = (session /\ connected')
          /\ queue' = PutAll(queue, SubSeq(ms, k + 1, Len(ms)))
          /\ last_sent' = [topic \in Limited |->
                             IF \E i \in 1..k : ms[i].topic = topic
                             THEN now' ELSE last_sent[topic]]
          /\ last_ping' = IF k > 0 THEN now' ELSE last_ping
          /\ shown' = IF session THEN ShownAfter(ms, k) ELSE shown
    BY <1>2 DEF PublishAll
  <2> DEFINE rest == SubSeq(ms, k + 1, Len(ms))
  <2>2. \A i \in (k + 1)..Len(ms) : ms[i] \in Messages
    OBVIOUS
  <2>3. rest \in Seq(Messages) /\ Len(rest) = Len(ms) - k
    BY <2>2, SubSeqProperties
  <2>4. queue = <<>> /\ queue \in Seq(Messages) /\ Len(queue) = 0
    BY <1>2
  <2>5. queue' = PutAll(queue, rest)
    BY <2>1
  <2> HIDE DEF rest
  <2>6. /\ queue' \in Seq(Messages)
        /\ Len(queue') <= QueueMaxsize
        /\ Len(queue') <= Len(queue) + (Len(ms) - k)
    BY <2>3, <2>4, <2>5, PutAllFacts
  <2>7. connected' => queue' = <<>>
    <3>1. connected' => k = Len(ms)
      BY <2>1, Zenon
    <3>2. k = Len(ms) => Len(queue') = 0
      BY <2>4, <2>6
    <3>3. Len(queue') = 0 => queue' = <<>>
      BY <2>6, EmptySeq
    <3> QED
      BY <3>1, <3>2, <3>3, Zenon
  <2>8. shown' \in Values
    <3>1. shown \in Values
      BY DEF TypeOK, Values
    <3> QED
      BY <2>1, <3>1, ShownAfterType, Zenon
  <2>9. last_sent' \in [Limited -> Nat]
    BY <2>1 DEF TypeOK
  <2>10. last_ping' = last_ping \/ last_ping' = now
    BY <2>1
  <2>11. connected' \in BOOLEAN /\ session' \in BOOLEAN
    BY <2>1 DEF TypeOK
  <2>12. {last_ping', down_since'} \subseteq Nat
    <3>1. {last_ping, down_since, now} \subseteq Nat
      BY DEF TypeOK
    <3> QED
      BY <1>0, <2>10, <3>1, Zenon
  <2>13. Len(queue') <= Len(queue) + Len(ms)
    BY <2>6, <2>4
  <2>14. NetType
    BY <2>6, <2>8, <2>9, <2>11, <2>12, Zenon DEF NetType
  <2> QED
    BY <1>0, <1>2, <2>7, <2>10, <2>13, <2>14, Zenon DEF NetUse
<1> QED
  BY <1>1, <1>2

LEMMA FlushFacts ==
  ASSUME TypeOK, NEW heard \in BOOLEAN, FlushQueue(heard)
  PROVE  /\ connected' \in BOOLEAN
         /\ queue' \in Seq(Messages)
         /\ Len(queue') <= Len(queue)
         /\ Len(queue') <= QueueMaxsize
         /\ connected' => queue' = <<>>
         /\ shown' \in Values
<1>1. PICK k \in 0..Len(queue) :
        /\ connected' = (k = Len(queue))
        /\ queue' = Requeued(k)
        /\ shown' = IF heard THEN ShownAfter(queue, k) ELSE shown
  BY DEF FlushQueue
<1>2. queue \in Seq(Messages) /\ Len(queue) <= QueueMaxsize /\ shown \in Values
  BY DEF TypeOK, Values
<1>3. shown' \in Values
  BY <1>1, <1>2, ShownAfterType
<1>4. /\ queue' \in Seq(Messages)
      /\ Len(queue') <= Len(queue)
      /\ k = Len(queue) => queue' = <<>>
  BY <1>1, <1>2, RequeuedFacts
<1>5. Len(queue') <= QueueMaxsize
  BY <1>2, <1>4, QueueAssumption
<1> QED
  BY <1>1, <1>3, <1>4, <1>5

LEMMA PublishStateUse ==
  ASSUME Ready, now' = now, NEW on \in BOOLEAN, NEW full \in BOOLEAN,
         NEW urgent \in BOOLEAN, PublishState(on, full, urgent)
  PROVE  NetUse(Readings + 2) /\ (~connected => queue' = queue)
<1>1. CASE Online
  <2> DEFINE batch == Batch(on, full, urgent)
  <2>1. batch \in Seq(Messages) /\ Len(batch) <= Readings + 2
    BY BatchFacts
  <2>2. PublishAll(batch)
    BY <1>1 DEF PublishState
  <2> HIDE DEF batch
  <2>3. NetUse(Len(batch))
    BY <2>1, <2>2, PublishAllUse
  <2> QED
    BY <1>1, <2>1, <2>3, QueueAssumption DEF NetUse, NetType, Online, Ready, TypeOK
<1>2. CASE ~Online
  <2>1. NetUse(0)
    BY <1>2, NothingSent DEF PublishState
  <2> QED
    BY <1>2, <2>1, QueueAssumption
    DEF NetUse, NetType, PublishState, Ready, TypeOK
<1> QED
  BY <1>1, <1>2

LEMMA SetPumpUse ==
  ASSUME Ready, now' = now, NEW on \in BOOLEAN, NEW renamed \in BOOLEAN,
         NEW urgent \in BOOLEAN, SetPump(on, renamed, urgent)
  PROVE  /\ NetUse(Readings + 2)
         /\ ~connected => queue' = queue
         /\ pump_on' \in BOOLEAN
         /\ last_publish' \in Nat
<1>1. pump_on' \in BOOLEAN /\ last_publish' \in Nat
  BY DEF SetPump, Ready, TypeOK
<1>2. CASE on # pump_on \/ renamed
  BY <1>1, <1>2, PublishStateUse DEF SetPump
<1>3. CASE ~(on # pump_on \/ renamed)
  <2>1. NetUse(0) /\ queue' = queue
    BY <1>3, NothingSent DEF SetPump
  <2> QED
    BY <1>1, <2>1, QueueAssumption DEF NetUse, NetType, Ready, TypeOK
<1> QED
  BY <1>2, <1>3

-----------------------------------------------------------------------------
(* Type correctness.                                                        *)

LEMMA InitInv == Init => Inv
<1> SUFFICES ASSUME Init PROVE Inv
  OBVIOUS
<1>1. TypeOK
  <2>1. now \in Nat /\ last_ping \in Nat /\ calm_since \in Nat /\ down_since \in Nat
    BY ClockAssumption DEF Init
  <2>2. queue \in Seq(Messages) /\ Len(queue) <= QueueMaxsize
    BY QueueAssumption DEF Init
  <2>3. last_sent \in [Limited -> Nat]
    BY DEF Init
  <2> QED
    BY <2>1, <2>2, <2>3 DEF Init, TypeOK, Turns
<1>2. QueueInv
  BY QueueAssumption DEF Init, QueueInv, Pending
<1>3. OutageInv
  BY ClockAssumption DEF Init, OutageInv, PastWatchdog
<1> QED
  BY <1>1, <1>2, <1>3 DEF Inv

\* The variables that a use of the connection does not touch.
RestType ==
  /\ turn \in Turns
  /\ reachable \in {"nothing", "wifi", "broker"}
  /\ {core_hours, wifi, pump_on, ota_pending, ota_serving} \subseteq BOOLEAN
  /\ {now, wifi_attempt, reconnect_attempt, last_publish, calm_since}
       \subseteq Nat

LEMMA TypeParts ==
  /\ TypeOK => RestType
  /\ TypeOK => /\ {connected, session} \subseteq BOOLEAN
               /\ queue \in Seq(Messages) /\ Len(queue) <= QueueMaxsize
               /\ last_sent \in [Limited -> Nat]
               /\ {last_ping, down_since} \subseteq Nat
               /\ shown \in Values
  BY DEF TypeOK, RestType, Values

LEMMA TypeFromParts ==
  ASSUME NetType, RestType'
  PROVE  TypeOK'
  BY Zenon DEF TypeOK, NetType, RestType, Values

\* Steps that leave the connection alone.
LEMMA NetTypeKept ==
  ASSUME TypeOK, UNCHANGED <<queue, last_sent, shown, last_ping>>,
         {connected', session'} \subseteq BOOLEAN, down_since' \in {down_since, now}
  PROVE  NetType
<1>1. {now, down_since} \subseteq Nat
  BY DEF TypeOK
<1>2. {last_ping', down_since'} \subseteq Nat
  BY <1>1, TypeParts, Zenon
<1>3. queue' = queue /\ last_sent' = last_sent /\ shown' = shown
  OBVIOUS
<1> QED
  BY <1>2, <1>3, TypeParts DEF NetType

LEMMA WorldType ==
  ASSUME TypeOK, WorldChanges \/ WifiJoins \/ SessionLost \/ HourChange
  PROVE  TypeOK'
<1> USE DEF TypeOK, world, wlan, ota
<1>1. CASE WorldChanges
  BY <1>1 DEF WorldChanges
<1>2. CASE WifiJoins
  BY <1>2 DEF WifiJoins
<1>3. CASE SessionLost
  BY <1>3 DEF SessionLost
<1>4. CASE HourChange
  BY <1>4 DEF HourChange
<1> QED
  BY <1>1, <1>2, <1>3, <1>4

LEMMA NetworkType ==
  ASSUME TypeOK, connected => queue = <<>>,
         WifiLoop \/ CheckMsg \/ Receive \/ Flush \/ NoReconnect \/ Reconnects
           \/ ReconnectFails
  PROVE  TypeOK'
<1>1. CASE WifiLoop
  <2>1. now' \in Nat
    BY <1>1, ClockAssumption DEF WifiLoop, TypeOK
  <2>2. {now, now', wifi_attempt, calm_since} \subseteq Nat
    BY <2>1 DEF TypeOK
  <2>3. /\ wifi' \in BOOLEAN
        /\ wifi_attempt' \in {0, wifi_attempt, now'}
        /\ calm_since' \in {calm_since, now'}
    BY <1>1, TypeParts DEF WifiLoop, RestType
  <2>4. UNCHANGED <<reachable, session, core_hours, connected, queue, last_sent,
                    last_ping, reconnect_attempt, pump_on, last_publish,
                    ota_pending, ota_serving, shown, down_since>>
    BY <1>1 DEF WifiLoop, world, ota
  <2>5. {wifi_attempt', calm_since'} \subseteq Nat
    BY <2>2, <2>3
  <2>6. RestType'
    <3>1. turn' \in Turns
      BY <1>1 DEF WifiLoop, Turns
    <3> QED
      BY <2>2, <2>3, <2>4, <2>5, <3>1, TypeParts, Zenon DEF RestType
  <2>7. NetType
    BY <2>4, NetTypeKept, TypeParts
  <2> QED
    BY <2>6, <2>7, TypeFromParts
<1>2. CASE CheckMsg
  BY <1>2 DEF CheckMsg, TypeOK, Noted, GivenUp, world, wlan, ota, Turns
<1>3. CASE Receive
  <2>1. RestType'
    BY <1>3 DEF Receive, TypeOK, RestType, Noted, wlan, ota, Turns
  <2>2. NetType
    <3>1. CASE PublishAll(<<Other("pump_override")>>)
      <4>1. <<Other("pump_override")>> \in Seq(Messages)
        BY MessageTypes DEF Topics
      <4> QED
        BY <1>3, <3>1, <4>1, PublishAllUse DEF Receive, Ready, NetUse
    <3>2. CASE UNCHANGED <<connected, session, queue, last_sent, last_ping,
                           shown, down_since>>
      BY <3>2, NothingSent DEF Ready, NetUse
    <3> QED
      BY <1>3, <3>1, <3>2 DEF Receive
  <2> QED
    BY <2>1, <2>2, TypeFromParts
<1>4. CASE Flush
  <2>1. RestType'
    BY <1>4 DEF Flush, TypeOK, RestType, Noted, wlan, ota, Turns
  <2>2. CASE connected
    <3>1. FlushQueue(session) /\ session' = (session /\ connected')
      BY <1>4, <2>2 DEF Flush
    <3>2. session \in BOOLEAN /\ {now, last_ping, down_since} \subseteq Nat
      BY DEF TypeOK
    <3>3. /\ {connected', session'} \subseteq BOOLEAN
          /\ queue' \in Seq(Messages) /\ Len(queue') <= QueueMaxsize
          /\ shown' \in Values
      BY <3>1, <3>2, FlushFacts
    <3>4. UNCHANGED <<last_sent, last_ping>> /\ down_since' \in {down_since, now}
      BY <1>4, Zenon DEF Flush, GivenUp
    <3>5. {last_ping', down_since'} \subseteq Nat
      BY <3>2, <3>4, Zenon
    <3>6. NetType
      BY <3>3, <3>4, <3>5, TypeParts, Zenon DEF NetType
    <3> QED
      BY <2>1, <3>6, TypeFromParts
  <2>3. CASE ~connected
    <3>1. NetType
      BY <1>4, <2>3, NetTypeKept, TypeParts DEF Flush, GivenUp
    <3> QED
      BY <2>1, <3>1, TypeFromParts
  <2> QED
    BY <2>2, <2>3 DEF TypeOK
<1>5. CASE NoReconnect
  BY <1>5 DEF NoReconnect, TypeOK, world, wlan, ota, Turns
<1>6. CASE Reconnects
  <2>1. RestType'
    BY <1>6 DEF Reconnects, TypeOK, RestType, wlan, ota, Turns
  <2>2. FlushQueue(TRUE) /\ session' = connected'
    BY <1>6 DEF Reconnects, FlushedOnConnect
  <2>3. /\ {connected', session'} \subseteq BOOLEAN
        /\ queue' \in Seq(Messages) /\ Len(queue') <= QueueMaxsize
        /\ shown' \in Values
    BY <2>2, FlushFacts
  <2>4. {now, down_since} \subseteq Nat
    BY DEF TypeOK
  <2>5. {last_ping', down_since'} \subseteq Nat /\ last_sent' = last_sent
    BY <1>6, <2>4, Zenon DEF Reconnects
  <2>6. NetType
    BY <2>3, <2>5, TypeParts, Zenon DEF NetType
  <2> QED
    BY <2>1, <2>6, TypeFromParts
<1>7. CASE ReconnectFails
  <2>1. now' \in Nat
    BY <1>7, ClockAssumption DEF ReconnectFails, TypeOK
  <2>2. {now', now} \subseteq Nat
    BY <2>1 DEF TypeOK
  <2>3. RestType'
    <3>1. UNCHANGED <<reachable, core_hours, wifi, pump_on, ota_pending,
                      ota_serving, wifi_attempt, last_publish>>
      BY <1>7 DEF ReconnectFails, world, wlan, ota
    <3>2. turn' \in Turns
      BY <1>7 DEF ReconnectFails, Turns
    <3>3. reconnect_attempt' = now /\ calm_since' = now'
      BY <1>7 DEF ReconnectFails
    <3> QED
      BY <2>2, <3>1, <3>2, <3>3, TypeParts, Zenon DEF RestType
  <2>4. UNCHANGED <<connected, session, queue, last_sent, last_ping, shown,
                    down_since>>
    BY <1>7 DEF ReconnectFails, PingAfterFailure, world
  <2>5. NetType
    BY <2>4, NetTypeKept, TypeParts
  <2> QED
    BY <2>3, <2>5, TypeFromParts
<1> QED
  BY <1>1, <1>2, <1>3, <1>4, <1>5, <1>6, <1>7

LEMMA BootType ==
  ASSUME TypeOK, Boot
  PROVE  TypeOK'
<1>1. now' \in Nat
  BY ClockAssumption DEF Boot, TypeOK
<1>2. {now', last_ping', calm_since', down_since', wifi_attempt',
       reconnect_attempt', last_publish'} \subseteq Nat
  BY <1>1 DEF Boot
<1>3. {wifi', connected', session', pump_on', ota_pending', ota_serving',
       core_hours'} \subseteq BOOLEAN
  BY DEF Boot, TypeOK
<1>4. queue' \in Seq(Messages) /\ Len(queue') <= QueueMaxsize
  BY QueueAssumption DEF Boot
<1>5. last_sent' \in [Limited -> Nat]
  BY DEF Boot
<1>6. turn' \in Turns /\ UNCHANGED <<reachable, shown>>
  BY DEF Boot, Turns
<1>7. NetType
  BY <1>2, <1>3, <1>4, <1>5, <1>6, TypeParts DEF NetType
<1>8. RestType'
  BY <1>2, <1>3, <1>6, TypeParts DEF RestType
<1> QED
  BY <1>7, <1>8, TypeFromParts

LEMMA WatchdogType ==
  ASSUME TypeOK, Watchdog
  PROVE  TypeOK'
<1>1. CASE WatchdogPasses
  BY <1>1 DEF WatchdogPasses, AfterNetwork, TypeOK, world, wlan, ota, Turns
<1>2. CASE WatchdogRestarts
  BY <1>2 DEF WatchdogRestarts, TypeOK, world, wlan, ota, Turns
<1> QED
  BY <1>1, <1>2 DEF Watchdog

\* The other steps use the connection, after which nothing but the turn and
\* the controller's variables have changed.
LEMMA AnswerUse ==
  ASSUME Ready, OtaAnswer
  PROVE  NetUse(1) /\ RestType'
<1>1. <<Other("ota_trigger")>> \in Seq(Messages)
  BY MessageTypes DEF Topics
<1>2. NetUse(Len(<<Other("ota_trigger")>>))
  BY <1>1, PublishAllUse DEF OtaAnswer
<1>3. Len(<<Other("ota_trigger")>>) = 1
  OBVIOUS
<1>4. RestType'
  BY TypeParts DEF Ready, OtaAnswer, Noted, RestType, wlan, Turns
<1> QED
  BY <1>2, <1>3, <1>4, Zenon

LEMMA ControllerUse ==
  ASSUME Ready, OtaStop \/ ControllerLoop
  PROVE  NetUse(Readings + 2) /\ (~connected => queue' = queue) /\ RestType'
<1>1. CASE OtaStop
  <2>1. PICK renamed \in BOOLEAN : SetPump(FALSE, renamed, TRUE)
    BY <1>1 DEF OtaStop
  <2>2. /\ NetUse(Readings + 2) /\ (~connected => queue' = queue)
        /\ pump_on' \in BOOLEAN /\ last_publish' \in Nat
    BY <1>1, <2>1, SetPumpUse DEF OtaStop
  <2>3. RestType'
    BY <1>1, <2>2, TypeParts DEF Ready, OtaStop, RestType, wlan, Turns
  <2> QED
    BY <2>2, <2>3
<1>2. CASE ControllerLoop
  <2>1. PICK on \in BOOLEAN, renamed \in BOOLEAN, urgent \in BOOLEAN :
          \/ /\ PublishState(on, TRUE, FALSE)
             /\ last_publish' = now
             /\ UNCHANGED pump_on
          \/ SetPump(on, renamed, urgent)
    BY <1>2 DEF ControllerLoop
  <2>2. now' = now /\ now \in Nat /\ pump_on \in BOOLEAN
    BY <1>2 DEF ControllerLoop, Ready, TypeOK
  <2>3. /\ NetUse(Readings + 2) /\ (~connected => queue' = queue)
        /\ pump_on' \in BOOLEAN /\ last_publish' \in Nat
    <3>1. CASE PublishState(on, TRUE, FALSE) /\ last_publish' = now /\ UNCHANGED pump_on
      BY <2>2, <3>1, PublishStateUse
    <3>2. CASE SetPump(on, renamed, urgent)
      BY <2>2, <3>2, SetPumpUse
    <3> QED
      BY <2>1, <3>1, <3>2
  <2>4. RestType'
    BY <1>2, <2>3, TypeParts DEF Ready, ControllerLoop, RestType, wlan, ota, Turns
  <2> QED
    BY <2>3, <2>4
<1> QED
  BY <1>1, <1>2

LEMMA TypeStep ==
  ASSUME TypeOK, connected => queue = <<>>, [Next]_vars
  PROVE  TypeOK'
<1>1. CASE WorldChanges \/ WifiJoins \/ SessionLost \/ HourChange
  BY <1>1, WorldType
<1>2. CASE Boot
  BY <1>2, BootType
<1>3. CASE Network
  BY <1>3, NetworkType DEF Network
<1>4. CASE Watchdog
  BY <1>4, WatchdogType
<1>5. CASE OtaAnswer
  BY <1>5, AnswerUse, TypeFromParts DEF Ready, NetUse
<1>6. CASE OtaStop \/ ControllerLoop
  BY <1>6, ControllerUse, TypeFromParts DEF Ready, NetUse
<1>7. CASE UNCHANGED vars
  BY <1>7 DEF vars, TypeOK, world, wlan, ota
<1> QED
  BY <1>1, <1>2, <1>3, <1>4, <1>5, <1>6, <1>7 DEF Next

-----------------------------------------------------------------------------
(* The queue.                                                               *)

LEMMA QueueStep ==
  ASSUME TypeOK, QueueInv, [Next]_vars
  PROVE  QueueInv'
<1> DEFINE Kept == UNCHANGED <<queue, ota_pending>> /\ (connected' => connected)
                     /\ turn' # "ota"
<1>0. /\ Ready
      /\ Len(queue) \in Nat /\ Readings \in Nat /\ ota_pending \in BOOLEAN
      /\ connected => Len(queue) = 0
  BY QueueAssumption DEF TypeOK, QueueInv, Ready
<1>1. CASE Kept
  BY <1>1 DEF QueueInv, Pending
<1>2. CASE WorldChanges \/ WifiJoins \/ SessionLost \/ HourChange
  <2>1. UNCHANGED <<turn, connected, queue, ota_pending>>
    BY <1>2 DEF WorldChanges, WifiJoins, SessionLost, HourChange, ota
  <2> QED
    BY <2>1 DEF QueueInv, Pending
<1>3. CASE Boot
  BY <1>0, <1>3 DEF Boot, QueueInv, Pending
<1>4. CASE WifiLoop \/ CheckMsg \/ NoReconnect \/ ReconnectFails
                    \/ WatchdogRestarts
  <2>1. UNCHANGED <<queue, ota_pending>> /\ connected' \in {connected, FALSE}
    BY <1>4 DEF WifiLoop, CheckMsg, NoReconnect, ReconnectFails,
                WatchdogRestarts, ota
  <2>2. turn' # "ota"
    BY <1>4 DEF WifiLoop, CheckMsg, NoReconnect, ReconnectFails,
                WatchdogRestarts
  <2>3. connected' => connected
    <3>1. connected' = connected \/ connected' = FALSE
      BY <2>1, Zenon
    <3> QED
      BY <3>1, Zenon
  <2>4. Kept
    BY <2>1, <2>2, <2>3, Zenon
  <2> QED
    BY <1>1, <2>4
<1>5. CASE WatchdogPasses
  BY <1>5 DEF WatchdogPasses, AfterNetwork, QueueInv, Pending, ota
<1>6. CASE Receive
  <2>1. connected /\ turn' = "flush" /\ ota_pending' \in BOOLEAN /\ now' = now
    BY <1>0, <1>6 DEF Receive
  <2>2. queue' \in Seq(Messages) /\ Len(queue') <= 1 /\ (connected' => queue' = <<>>)
    <3>1. CASE PublishAll(<<Other("pump_override")>>)
      <4>1. <<Other("pump_override")>> \in Seq(Messages)
        BY MessageTypes DEF Topics
      <4>2. NetUse(Len(<<Other("pump_override")>>))
        BY <1>0, <2>1, <3>1, <4>1, PublishAllUse
      <4>3. Len(<<Other("pump_override")>>) = 1
        OBVIOUS
      <4> QED
        BY <1>0, <2>1, <4>2, <4>3 DEF NetUse, NetType
    <3>2. CASE UNCHANGED <<connected, session, queue, last_sent, last_ping,
                           shown, down_since>>
      BY <1>0, <2>1, <3>2 DEF QueueInv, TypeOK
    <3> QED
      BY <1>6, <3>1, <3>2 DEF Receive
  <2> QED
    BY <1>0, <2>1, <2>2 DEF QueueInv, Pending
<1>7. CASE Flush
  <2>1. CASE connected
    <3>1. FlushQueue(session) /\ turn' = "reconnect" /\ UNCHANGED ota_pending
      BY <1>7, <2>1 DEF Flush, ota
    <3>2. session \in BOOLEAN
      BY DEF TypeOK
    <3>3. /\ queue' \in Seq(Messages) /\ Len(queue') <= Len(queue)
          /\ connected' => queue' = <<>>
      BY <3>1, <3>2, FlushFacts
    <3> QED
      BY <1>0, <3>1, <3>3 DEF QueueInv, Pending
  <2>2. CASE ~connected
    BY <1>1, <1>7, <2>2 DEF Flush, ota
  <2> QED
    BY <2>1, <2>2 DEF TypeOK
<1>8. CASE Reconnects
  <2>1. FlushQueue(TRUE) /\ turn' = "watchdog" /\ UNCHANGED ota_pending
    BY <1>8 DEF Reconnects, FlushedOnConnect, ota
  <2>2. /\ queue' \in Seq(Messages) /\ Len(queue') <= Len(queue)
        /\ connected' => queue' = <<>>
    BY <2>1, FlushFacts
  <2> QED
    BY <1>0, <2>1, <2>2 DEF QueueInv, Pending
<1>9. CASE OtaAnswer
  <2>1. NetUse(1)
    BY <1>0, <1>9, AnswerUse
  <2>2. ota_pending /\ ota_pending' = FALSE /\ turn' = "wifi"
    BY <1>9 DEF OtaAnswer, QueueInv
  <2> QED
    BY <1>0, <2>1, <2>2 DEF NetUse, NetType, QueueInv, Pending
<1>10. CASE OtaStop \/ ControllerLoop
  <2>1. NetUse(Readings + 2) /\ (~connected => queue' = queue)
    BY <1>0, <1>10, ControllerUse
  <2>2. UNCHANGED ota_pending /\ turn' # "ota"
    BY <1>10 DEF OtaStop, ControllerLoop, ota
  <2> QED
    BY <1>0, <2>1, <2>2 DEF NetUse, NetType, QueueInv, Pending
<1>11. CASE UNCHANGED vars
  BY <1>11 DEF vars, QueueInv, Pending, ota
<1> QED
  BY <1>2, <1>3, <1>4, <1>5, <1>6, <1>7, <1>8, <1>9, <1>10, <1>11
  DEF Next, Network, Watchdog

-----------------------------------------------------------------------------
(* The feeds of queued messages.  A second answer to an update request would *)
(* be a second message of its feed: while a request waits, none is queued.  *)

Free(q, topic) == \A i \in DOMAIN q : q[i].topic # topic
Apart(q) ==
  \A i, j \in DOMAIN q :
    i # j /\ q[i].topic = q[j].topic => q[i].topic = "readings"

FeedsInv == Apart(queue) /\ (ota_pending => Free(queue, "ota_trigger"))

\* What is dropped from either end leaves the rest apart.
LEMMA SubSeqFeeds ==
  ASSUME NEW q \in Seq(Messages), NEW a \in 1..(Len(q) + 1), Apart(q)
  PROVE  LET s == SubSeq(q, a, Len(q))
         IN  Apart(s) /\ (Free(q, "ota_trigger") => Free(s, "ota_trigger"))
<1> DEFINE s == SubSeq(q, a, Len(q))
<1>1. \A i \in a..Len(q) : q[i] \in Messages
  OBVIOUS
<1>2. /\ s \in Seq(Messages) /\ Len(s) = Len(q) - a + 1
      /\ \A i \in 1..Len(s) : s[i] = q[a + i - 1]
  BY <1>1, SubSeqProperties
<1> HIDE DEF s
<1>3. \A i \in DOMAIN s : a + i - 1 \in DOMAIN q /\ s[i] = q[a + i - 1]
  BY <1>2
<1>4. Apart(s)
  <2> SUFFICES ASSUME NEW i \in DOMAIN s, NEW j \in DOMAIN s,
                      i # j, s[i].topic = s[j].topic
               PROVE  s[i].topic = "readings"
    BY DEF Apart
  <2>1. a + i - 1 # a + j - 1
    BY <1>2
  <2> QED
    BY <1>3, <2>1, Zenon DEF Apart
<1>5. Free(q, "ota_trigger") => Free(s, "ota_trigger")
  BY <1>3, Zenon DEF Free
<1> QED
  BY <1>4, <1>5 DEF s

LEMMA PutAllFeeds ==
  ASSUME NEW q \in Seq(Messages), NEW ms \in Seq(Messages), Apart(q \o ms)
  PROVE  /\ Apart(PutAll(q, ms))
         /\ Free(q \o ms, "ota_trigger") => Free(PutAll(q, ms), "ota_trigger")
<1> DEFINE new == [i \in 1..Len(ms) |-> QueueItem(ms[i])]
           all == q \o ms
           dropped == IF Len(all) > QueueMaxsize THEN Len(all) - QueueMaxsize
                      ELSE 0
<1>1. new = ms
  BY DEF QueueItem
<1>2. PutAll(q, ms) = SubSeq(all, dropped + 1, Len(all))
  BY <1>1, Zenon DEF PutAll
<1>3. all \in Seq(Messages)
  OBVIOUS
<1> HIDE DEF all
<1>4. dropped + 1 \in 1..(Len(all) + 1)
  BY <1>3, QueueAssumption
<1> HIDE DEF dropped
<1> QED
  BY <1>2, <1>3, <1>4, SubSeqFeeds DEF all

\* A flush that fails reorders what it leaves, and adds nothing.
LEMMA RequeuedFeeds ==
  ASSUME queue \in Seq(Messages), NEW k \in 0..Len(queue), Apart(queue)
  PROVE  /\ Apart(Requeued(k))
         /\ Free(queue, "ota_trigger") => Free(Requeued(k), "ota_trigger")
<1>1. CASE k = Len(queue)
  BY <1>1 DEF Requeued, Apart, Free
<1>2. CASE k # Len(queue)
  <2> DEFINE rest == SubSeq(queue, k + 2, Len(queue))
             n == Len(queue) - k
             from(i) == IF i = n THEN k + 1 ELSE k + 1 + i
  <2>1. \A i \in (k + 2)..Len(queue) : queue[i] \in Messages
    OBVIOUS
  <2>2. /\ rest \in Seq(Messages) /\ Len(rest) = n - 1
        /\ \A i \in 1..Len(rest) : rest[i] = queue[k + 1 + i]
    BY <1>2, <2>1, SubSeqProperties
  <2>3. queue[k + 1] \in Messages
    BY <1>2
  <2>4. Requeued(k) = Append(rest, queue[k + 1])
    BY <1>2 DEF Requeued
  <2> HIDE DEF rest
  <2>5. DOMAIN Requeued(k) = 1..n
    BY <1>2, <2>2, <2>3, <2>4
  <2>6. \A i \in 1..n : from(i) \in DOMAIN queue /\ Requeued(k)[i] = queue[from(i)]
    <3> SUFFICES ASSUME NEW i \in 1..n
                 PROVE  from(i) \in DOMAIN queue /\ Requeued(k)[i] = queue[from(i)]
      OBVIOUS
    <3>1. CASE i = n
      BY <1>2, <2>2, <2>3, <2>4, <3>1
    <3>2. CASE i # n
      <4>0. i \in 1..Len(rest)
        <5>1. n \in Int
          OBVIOUS
        <5> HIDE DEF n
        <5> QED
          BY <2>2, <3>2, <5>1
      <4>1. Append(rest, queue[k + 1])[i] = rest[i]
        BY <2>2, <2>3, <4>0, AppendProperties
      <4>2. k + 1 + i \in 1..Len(queue)
        <5> DEFINE len == Len(queue)
        <5>1. len \in Nat /\ k \in 0..len /\ i \in 1..(len - k) /\ i # len - k
          BY <3>2
        <5> HIDE DEF len, n, from
        <5>2. k + 1 + i \in 1..len
          BY ONLY <5>1, SMT
        <5> QED
          BY <5>2 DEF len
      <4> QED
        BY <2>2, <2>4, <3>2, <4>0, <4>1, <4>2
    <3> QED
      BY <3>1, <3>2
  <2>7. \A i, j \in 1..n : i # j => from(i) # from(j)
    BY <1>2
  <2> HIDE DEF from, n
  <2>8. Apart(Requeued(k))
    <3> SUFFICES ASSUME NEW i \in 1..n, NEW j \in 1..n, i # j,
                        Requeued(k)[i].topic = Requeued(k)[j].topic
                 PROVE  Requeued(k)[i].topic = "readings"
      BY <2>5, Zenon DEF Apart
    <3>1. /\ from(i) \in DOMAIN queue /\ Requeued(k)[i] = queue[from(i)]
          /\ from(j) \in DOMAIN queue /\ Requeued(k)[j] = queue[from(j)]
      BY <2>6, Zenon
    <3>2. from(i) # from(j)
      BY <2>7, Zenon
    <3> QED
      BY <3>1, <3>2, Zenon DEF Apart
  <2>9. Free(queue, "ota_trigger") => Free(Requeued(k), "ota_trigger")
    BY <2>5, <2>6, Zenon DEF Free
  <2> QED
    BY <2>8, <2>9
<1> QED
  BY <1>1, <1>2

LEMMA FlushFeeds ==
  ASSUME TypeOK, FeedsInv, UNCHANGED ota_pending, NEW heard, FlushQueue(heard)
  PROVE  FeedsInv'
<1>1. PICK k \in 0..Len(queue) : queue' = Requeued(k)
  BY DEF FlushQueue
<1>2. queue \in Seq(Messages)
  BY DEF TypeOK
<1>3. /\ Apart(queue')
      /\ Free(queue, "ota_trigger") => Free(queue', "ota_trigger")
  BY <1>1, <1>2, RequeuedFeeds DEF FeedsInv
<1> QED
  BY <1>3, Zenon DEF FeedsInv, Apart, Free

\* publish_state hands over at most one message for each feed.
LEMMA BatchFeeds ==
  ASSUME NEW on \in BOOLEAN, NEW full \in BOOLEAN, NEW urgent \in BOOLEAN
  PROVE  /\ Apart(Batch(on, full, urgent))
         /\ Free(Batch(on, full, urgent), "ota_trigger")
<1> DEFINE p == IF urgent \/ Due("pump_state") THEN <<PumpState(on)>> ELSE <<>>
           r == IF full THEN [i \in 1..Readings |-> Other("readings")] ELSE <<>>
           d == IF Due("debug") THEN <<Other("debug")>> ELSE <<>>
           b == Batch(on, full, urgent)
<1>1. /\ p \in Seq(Messages) /\ Len(p) <= 1
      /\ \A i \in 1..Len(p) : p[i].topic = "pump_state"
  BY MessageTypes DEF PumpState
<1>2. r \in Seq(Messages) /\ \A i \in 1..Len(r) : r[i].topic = "readings"
  <2>1. Other("readings") \in Messages /\ Other("readings").topic = "readings"
    BY MessageTypes DEF Topics, Other
  <2>2. CASE full
    <3> HIDE DEF Other
    <3>1. Readings \in Nat
      BY QueueAssumption
    <3> QED
      BY <2>1, <2>2, <3>1
  <2>3. CASE ~full
    <3>1. r = <<>>
      BY <2>3, Zenon
    <3> HIDE DEF r
    <3> QED
      BY <3>1
  <2> QED
    BY <2>2, <2>3
<1>3. /\ d \in Seq(Messages) /\ Len(d) <= 1
      /\ \A i \in 1..Len(d) : d[i].topic = "debug"
  BY MessageTypes DEF Topics, Other
<1>4. b = p \o r \o d
  BY DEF Batch
<1> HIDE DEF p, r, d, b
<1>5. /\ DOMAIN b = 1..(Len(p) + Len(r) + Len(d))
      /\ \A i \in DOMAIN b :
           b[i].topic = IF i <= Len(p) THEN "pump_state"
                        ELSE IF i <= Len(p) + Len(r) THEN "readings"
                        ELSE "debug"
  BY <1>1, <1>2, <1>3, <1>4
<1>6. Apart(b)
  <2> SUFFICES ASSUME NEW i \in DOMAIN b, NEW j \in DOMAIN b,
                      i # j, b[i].topic = b[j].topic
               PROVE  b[i].topic = "readings"
    BY DEF Apart
  <2>1. Len(p) \in Nat /\ Len(r) \in Nat /\ Len(d) \in Nat
    BY <1>1, <1>2, <1>3
  <2>2. Len(p) <= 1 /\ Len(d) <= 1
    BY <1>1, <1>3
  <2>3. PICK lp, lr, ld \in Nat : lp = Len(p) /\ lr = Len(r) /\ ld = Len(d)
    BY <2>1, Zenon
  <2>4. /\ i \in 1..(lp + lr + ld) /\ j \in 1..(lp + lr + ld)
        /\ lp <= 1 /\ ld <= 1
    BY <1>5, <2>2, <2>3, Zenon
  <2>5. /\ b[i].topic = IF i <= lp THEN "pump_state"
                        ELSE IF i <= lp + lr THEN "readings" ELSE "debug"
        /\ b[j].topic = IF j <= lp THEN "pump_state"
                        ELSE IF j <= lp + lr THEN "readings" ELSE "debug"
    BY <1>5, <2>3, Zenon
  <2>6. ~(i <= lp /\ j <= lp)
    BY <2>4, SMT
  <2>7. ~(~(i <= lp + lr) /\ ~(j <= lp + lr))
    BY <2>4, SMT
  <2> QED
    BY <2>5, <2>6, <2>7
<1>7. Free(b, "ota_trigger")
  BY <1>5 DEF Free
<1> QED
  BY <1>6, <1>7 DEF b

\* publish() of messages of different feeds, on a flushed connection or, for
\* an answer that is not queued yet, without one.
LEMMA PublishAllFeeds ==
  ASSUME Ready, NEW ms \in Seq(Messages), PublishAll(ms), Apart(ms),
         connected \/ Apart(queue \o ms)
  PROVE  /\ Apart(queue')
         /\ connected /\ Free(ms, "ota_trigger") => Free(queue', "ota_trigger")
<1> USE DEF Ready
<1>1. CASE ~connected
  <2>1. queue' = PutAll(queue, ms) /\ queue \in Seq(Messages)
    BY <1>1 DEF PublishAll, TypeOK
  <2> QED
    BY <1>1, <2>1, PutAllFeeds
<1>2. CASE connected
  <2>1. PICK k \in 0..Len(ms) :
          queue' = PutAll(queue, SubSeq(ms, k + 1, Len(ms)))
    BY <1>2 DEF PublishAll
  <2> DEFINE rest == SubSeq(ms, k + 1, Len(ms))
  <2>2. /\ rest \in Seq(Messages)
        /\ Apart(rest)
        /\ Free(ms, "ota_trigger") => Free(rest, "ota_trigger")
    <3>1. k + 1 \in 1..(Len(ms) + 1)
      OBVIOUS
    <3>2. \A i \in (k + 1)..Len(ms) : ms[i] \in Messages
      OBVIOUS
    <3> QED
      BY <3>1, <3>2, SubSeqFeeds, SubSeqProperties
  <2>3. queue = <<>> /\ queue' = PutAll(queue, rest)
    BY <1>2, <2>1
  <2> HIDE DEF rest
  <2>4. queue \o rest = rest /\ queue \in Seq(Messages)
    BY <2>2, <2>3
  <2> QED
    BY <1>2, <2>2, <2>3, <2>4, PutAllFeeds
<1> QED
  BY <1>1, <1>2

LEMMA OneFeed ==
  ASSUME NEW m \in Messages
  PROVE  /\ <<m>> \in Seq(Messages) /\ Apart(<<m>>)
         /\ m.topic # "ota_trigger" => Free(<<m>>, "ota_trigger")
  BY DEF Apart, Free

LEMMA PublishStateFeeds ==
  ASSUME Ready, FeedsInv, UNCHANGED ota_pending,
         NEW on \in BOOLEAN, NEW full \in BOOLEAN, NEW urgent \in BOOLEAN,
         PublishState(on, full, urgent)
  PROVE  FeedsInv'
<1>1. CASE connected
  <2>1. PublishAll(Batch(on, full, urgent))
    BY <1>1 DEF PublishState, Online
  <2>2. Apart(queue') /\ Free(queue', "ota_trigger")
    BY <1>1, <2>1, BatchFacts, BatchFeeds, PublishAllFeeds
  <2> QED
    BY <2>2, Zenon DEF FeedsInv, Apart, Free
<1>2. CASE ~connected
  <2>1. UNCHANGED queue
    BY <1>2 DEF PublishState, Online
  <2> QED
    BY <2>1, Zenon DEF FeedsInv, Apart, Free
<1> QED
  BY <1>1, <1>2

LEMMA FeedsStep ==
  ASSUME TypeOK, QueueInv, FeedsInv, [Next]_vars
  PROVE  FeedsInv'
<1>0. Ready /\ queue \in Seq(Messages)
  BY DEF TypeOK, QueueInv, Ready
<1>1. ASSUME UNCHANGED <<queue, ota_pending>>
      PROVE  FeedsInv'
  BY <1>1, Zenon DEF FeedsInv, Apart, Free
<1>2. CASE WorldChanges \/ WifiJoins \/ SessionLost \/ HourChange \/ WifiLoop
             \/ CheckMsg \/ NoReconnect \/ ReconnectFails \/ Watchdog
             \/ UNCHANGED vars
  BY <1>1, <1>2, Zenon DEF WorldChanges, WifiJoins, SessionLost, HourChange,
     WifiLoop, CheckMsg, NoReconnect, ReconnectFails, Watchdog, WatchdogPasses,
     WatchdogRestarts, ota, vars
<1>3. CASE Boot
  BY <1>3 DEF Boot, FeedsInv, Apart, Free
<1>4. CASE Receive
  <2>1. connected /\ queue = <<>>
    BY <1>4 DEF Receive, QueueInv
  <2>2. CASE PublishAll(<<Other("pump_override")>>)
    <3>1. /\ Other("pump_override") \in Messages
          /\ Other("pump_override").topic # "ota_trigger"
      BY MessageTypes DEF Topics, Other
    <3>2. Apart(queue') /\ Free(queue', "ota_trigger")
      BY <1>0, <2>1, <2>2, <3>1, OneFeed, PublishAllFeeds
    <3> QED
      BY <3>2, Zenon DEF FeedsInv, Apart, Free
  <2>3. CASE UNCHANGED queue
    BY <2>1, <2>3 DEF FeedsInv, Apart, Free
  <2> QED
    BY <1>4, <2>2, <2>3, Zenon DEF Receive
<1>5. CASE Flush
  BY <1>1, <1>5, FlushFeeds DEF Flush, ota
<1>6. CASE Reconnects
  BY <1>6, FlushFeeds DEF Reconnects, FlushedOnConnect, ota
<1>7. CASE OtaAnswer
  <2> DEFINE answer == Other("ota_trigger")
  <2>1. answer \in Messages /\ answer.topic = "ota_trigger"
    BY MessageTypes DEF Topics, Other
  <2>2. ota_pending /\ ~ota_pending' /\ PublishAll(<<answer>>)
    BY <1>7 DEF OtaAnswer, QueueInv
  <2> HIDE DEF answer
  <2>3. Free(queue, "ota_trigger")
    BY <2>2, Zenon DEF FeedsInv
  <2>4. Apart(queue \o <<answer>>)
    <3> DEFINE all == queue \o <<answer>>
    <3>1. /\ DOMAIN all = 1..(Len(queue) + 1)
          /\ \A i \in 1..Len(queue) : i \in DOMAIN queue /\ all[i] = queue[i]
          /\ all[Len(queue) + 1] = answer
      BY <1>0, <2>1
    <3> HIDE DEF all
    <3> SUFFICES ASSUME NEW i \in DOMAIN all, NEW j \in DOMAIN all,
                        i # j, all[i].topic = all[j].topic
                 PROVE  all[i].topic = "readings"
      BY DEF Apart, all
    <3>2. CASE i \in 1..Len(queue) /\ j \in 1..Len(queue)
      BY <3>1, <3>2, Zenon DEF Apart, FeedsInv
    <3>3. CASE i = Len(queue) + 1 /\ j \in 1..Len(queue)
      BY <2>1, <2>3, <3>1, <3>3, Zenon DEF Free
    <3>4. CASE j = Len(queue) + 1 /\ i \in 1..Len(queue)
      BY <2>1, <2>3, <3>1, <3>4, Zenon DEF Free
    <3> QED
      BY <1>0, <3>1, <3>2, <3>3, <3>4
  <2>5. Apart(queue')
    BY <1>0, <2>1, <2>2, <2>4, OneFeed, PublishAllFeeds
  <2> QED
    BY <2>2, <2>5, Zenon DEF FeedsInv, Apart
<1>8. CASE OtaStop \/ ControllerLoop
  <2>1. UNCHANGED ota_pending
    BY <1>8 DEF OtaStop, ControllerLoop, ota
  <2>2. \/ UNCHANGED queue
        \/ \E on, full, urgent \in BOOLEAN : PublishState(on, full, urgent)
    BY <1>8 DEF OtaStop, ControllerLoop, SetPump
  <2> QED
    BY <1>0, <1>1, <2>1, <2>2, PublishStateFeeds
<1> QED
  BY <1>2, <1>3, <1>4, <1>5, <1>6, <1>7, <1>8, Zenon DEF Next, Network

-----------------------------------------------------------------------------
(* Outages.                                                                 *)

\* A step that uses the connection keeps OutageInv: what it gives up it gives
\* up now.
LEMMA OutageOfUse ==
  ASSUME TypeOK, OutageInv, now' = now, NEW n, NetUse(n),
         PastWatchdog' => PastWatchdog \/ connected
  PROVE  OutageInv'
<1>1. {now, last_ping, down_since, WatchdogThreshold} \subseteq Nat
  BY IntervalsAssumption DEF TypeOK
<1>2. connected \in BOOLEAN
  BY DEF TypeOK
<1>3. CASE connected
  <2>1. last_ping' \in {last_ping, now}
    BY DEF NetUse
  <2>2. down_since' \in {down_since, now} /\ (~connected' => down_since' = now)
    BY <1>3 DEF NetUse
  <2> QED
    BY <1>1, <2>1, <2>2 DEF OutageInv
<1>4. CASE ~connected
  <2>1. last_ping' = last_ping /\ down_since' = down_since /\ ~connected'
    BY <1>4 DEF NetUse
  <2>2. PastWatchdog' => PastWatchdog
    BY <1>4
  <2> QED
    BY <1>1, <1>4, <2>1, <2>2 DEF OutageInv
<1> QED
  BY <1>2, <1>3, <1>4

LEMMA OutageStep ==
  ASSUME TypeOK, QueueInv, OutageInv, [Next]_vars
  PROVE  OutageInv'
<1>0. /\ {now, last_ping, down_since, WatchdogThreshold} \subseteq Nat
      /\ connected \in BOOLEAN
      /\ Ready
  BY IntervalsAssumption DEF TypeOK, Ready, QueueInv
<1>1. CASE UNCHANGED <<now, turn, connected, last_ping, down_since>>
  BY <1>1 DEF OutageInv, PastWatchdog
<1>2. CASE WorldChanges \/ WifiJoins \/ SessionLost \/ HourChange
  <2>1. UNCHANGED <<now, turn, connected, last_ping, down_since>>
    BY <1>2 DEF WorldChanges, WifiJoins, SessionLost, HourChange
  <2> QED
    BY <1>1, <2>1
<1>3. CASE Boot
  <2>1. now' \in Nat /\ last_ping' = now' /\ down_since' = now' /\ ~PastWatchdog'
    BY <1>0, <1>3, ClockAssumption DEF Boot, PastWatchdog
  <2> QED
    BY <2>1 DEF OutageInv
<1>4. CASE WifiLoop \/ NoReconnect \/ ReconnectFails \/ WatchdogRestarts
  <2>1. /\ \E gap \in Nat : now' = now + gap
        /\ UNCHANGED <<connected, last_ping, down_since>>
        /\ ~PastWatchdog'
    <3>1. now = now + 0
      BY <1>0
    <3> QED
      BY <1>4, <3>1, ClockAssumption
      DEF WifiLoop, NoReconnect, ReconnectFails, WatchdogRestarts,
          PastWatchdog, PingAfterFailure
  <2>2. PICK gap \in Nat : now' = now + gap
    BY <2>1
  <2>3. last_ping <= now' /\ down_since <= now'
    BY <1>0, <2>2 DEF OutageInv
  <2> QED
    BY <2>1, <2>3 DEF OutageInv
<1>5. CASE WatchdogPasses
  <2>1. UNCHANGED <<now, connected, last_ping, down_since>> /\ ~Unresponsive
    BY <1>5 DEF WatchdogPasses
  <2>2. ~connected => now - down_since <= WatchdogThreshold
    BY <1>0, <2>1 DEF Unresponsive, OutageInv
  <2> QED
    BY <2>1, <2>2 DEF OutageInv
<1>6. CASE CheckMsg \/ Flush
  <2>1. now' = now /\ last_ping' = last_ping /\ ~PastWatchdog'
    BY <1>6 DEF CheckMsg, Flush, PastWatchdog
  <2>2. down_since' = IF connected /\ ~connected' THEN now ELSE down_since
    BY <1>6, <2>1 DEF CheckMsg, Flush, GivenUp
  <2>3. connected' => connected
    <3>1. CASE CheckMsg
      BY <1>0, <3>1 DEF CheckMsg
    <3>2. CASE Flush
      BY <1>0, <3>2 DEF Flush
    <3> QED
      BY <1>6, <3>1, <3>2
  <2>4. down_since' \in {down_since, now} /\ (~connected' => last_ping <= down_since')
    BY <1>0, <2>2, <2>3 DEF OutageInv
  <2> QED
    BY <1>0, <2>1, <2>4 DEF OutageInv
<1>7. CASE Receive
  <2>1. connected /\ now' = now
    BY <1>7 DEF Receive
  <2>2. \E n \in Nat : NetUse(n)
    <3>1. CASE PublishAll(<<Other("pump_override")>>)
      <4>1. <<Other("pump_override")>> \in Seq(Messages)
        BY MessageTypes DEF Topics
      <4>2. Len(<<Other("pump_override")>>) \in Nat
        OBVIOUS
      <4>3. NetUse(Len(<<Other("pump_override")>>))
        BY <1>0, <2>1, <3>1, <4>1, PublishAllUse
      <4> QED
        BY <4>2, <4>3
    <3>2. CASE UNCHANGED <<connected, session, queue, last_sent, last_ping,
                           shown, down_since>>
      BY <1>0, <3>2, NothingSent
    <3> QED
      BY <1>7, <3>1, <3>2 DEF Receive
  <2> QED
    BY <2>1, <2>2, OutageOfUse
<1>8. CASE Reconnects
  <2>1. /\ now' = now /\ last_ping' = now /\ ~PastWatchdog'
        /\ down_since' \in {down_since, now}
        /\ ~connected' => down_since' = now
    BY <1>8 DEF Reconnects, PastWatchdog
  <2> QED
    BY <1>0, <2>1 DEF OutageInv
<1>9. CASE OtaAnswer
  <2>1. now' = now /\ ~PastWatchdog'
    BY <1>9 DEF OtaAnswer, PastWatchdog
  <2> QED
    BY <1>0, <1>9, <2>1, AnswerUse, OutageOfUse
<1>10. CASE OtaStop \/ ControllerLoop
  <2>1. now' = now /\ PastWatchdog
    BY <1>10 DEF OtaStop, ControllerLoop, PastWatchdog
  <2> QED
    BY <1>0, <1>10, <2>1, ControllerUse, OutageOfUse
<1>11. CASE UNCHANGED vars
  BY <1>1, <1>11 DEF vars
<1> QED
  BY <1>2, <1>3, <1>4, <1>5, <1>6, <1>7, <1>8, <1>9, <1>10, <1>11
  DEF Next, Network, Watchdog

-----------------------------------------------------------------------------
(* Quiet times: how long the dashboard can stay behind the pump.            *)

\* Passes do not get longer and longer.
BoundedPasses == \E gap \in LoopGaps : \A other \in LoopGaps : other <= gap
\* The watchdog fires before the readings of the night are due (config.py: 180
\* against 300 seconds).
EarlyWatchdog == WatchdogThreshold <= PublishIntervalOffHours

PumpSent == last_sent["pump_state"]
Within(time) == now <= calm_since + time
GapIf(c) == IF c THEN LongestGap ELSE 0

PastInv ==
  /\ {wifi_attempt, reconnect_attempt, PumpSent, last_publish, calm_since}
       \subseteq 0..now
  /\ turn = "ota" => ~ota_serving
  /\ turn = "ota_stop" => ota_serving

\* Without WiFi: the last attempt is older than the quiet, as it failed.
WifiInv ==
  ~wifi /\ reachable # "nothing" =>
    wifi_attempt <= calm_since /\ Within(WifiReconnectInterval)

\* The turns between the passing of time and the next attempt to reconnect, and
\* those between the watchdog and the passing of time.
Early == {"inbound", "flush", "reconnect"}
Guarded == {"wifi", "ota", "ota_stop", "controller"}

\* Offline: the last attempt is older too, and so is everything sent.
OfflineInv ==
  ~connected =>
    /\ reconnect_attempt <= calm_since
    /\ down_since <= calm_since
    /\ PumpSent <= calm_since
    /\ Within(WatchdogThreshold + GapIf(turn \notin Guarded))
    /\ reachable # "nothing" =>
         /\ Within(LongestRetry + GapIf(turn \in Early))
         /\ last_publish <= calm_since + LongestRetry

\* Over a dead session: the next pass notices.
DeafInv == connected /\ ~session => Within(GapIf(turn = "inbound"))

\* What may pass until the controller has its turn: an update request puts a
\* second round of Network.loop before it.
Slack == IF turn \in {"controller", "boot"} THEN 2 * LongestGap
         ELSE GapIf(turn # "wifi") + GapIf(ota_serving)

\* Online, yet behind: nothing was sent since, and the last publish, which the
\* rate limit let pass only without the pump state, came early.
BehindInv ==
  connected /\ session /\ shown # Shown(pump_on) =>
    /\ PumpSent <= calm_since
    /\ last_publish <= calm_since + LongestRetry
    /\ Within(LongestRetry + PublishIntervalOffHours + Slack)

QuietInv == WifiInv /\ OfflineInv /\ DeafInv /\ BehindInv

LEMMA LongestIs ==
  ASSUME NEW S, \E t \in S : \A other \in S : other <= t
  PROVE  Longest(S) \in S /\ \A other \in S : other <= Longest(S)
  BY DEF Longest

LEMMA Times ==
  ASSUME BoundedPasses
  PROVE  /\ {LongestGap, LongestRetry, WifiReconnectInterval, ReconnectInterval,
             RateLimit, WatchdogThreshold, PublishInterval,
             PublishIntervalOffHours} \subseteq Nat
         /\ \A gap \in LoopGaps : gap \in Nat /\ gap <= LongestGap
         /\ WifiReconnectInterval <= LongestRetry
         /\ ReconnectInterval <= LongestRetry
         /\ RateLimit <= LongestRetry
         /\ PublishInterval <= PublishIntervalOffHours
<1>1. LongestGap \in LoopGaps /\ \A gap \in LoopGaps : gap <= LongestGap
  BY LongestIs, Zenon DEF BoundedPasses, LongestGap
<1> DEFINE retries == {WifiReconnectInterval, ReconnectInterval, RateLimit}
<1>2. retries \subseteq Nat
  BY IntervalsAssumption
<1>3. \E t \in retries : \A other \in retries : other <= t
  BY IntervalsAssumption
<1>4. LongestRetry \in retries /\ \A t \in retries : t <= LongestRetry
  <2> HIDE DEF retries
  <2>1. LongestRetry = Longest(retries)
    BY Zenon DEF LongestRetry, retries
  <2> QED
    BY <1>3, <2>1, LongestIs, Zenon
<1> QED
  BY <1>1, <1>2, <1>4, ClockAssumption, IntervalsAssumption

LEMMA Ages ==
  ASSUME TypeOK
  PROVE  /\ {now, calm_since, down_since, last_ping, wifi_attempt,
             reconnect_attempt, last_publish, PumpSent} \subseteq Nat
         /\ {connected, session, wifi, pump_on, ota_serving, ota_pending}
              \subseteq BOOLEAN
         /\ LongestGap \in Nat => Slack \in Nat
  BY DEF TypeOK, PumpSent, Limited, Slack, GapIf

\* Where something has just gone wrong or changed, nothing is overdue.
LEMMA JustDisturbed ==
  BoundedPasses /\ TypeOK /\ PastInv /\ down_since <= now /\ calm_since = now
    => QuietInv
<1> SUFFICES ASSUME BoundedPasses, TypeOK, PastInv, down_since <= now,
                    calm_since = now
             PROVE  QuietInv
  OBVIOUS
<1>1. \A time \in Nat : Within(time)
  BY Ages DEF Within
<1>2. \A c \in BOOLEAN : GapIf(c) \in Nat
  BY Times DEF GapIf
<1>3. Slack \in Nat
  BY Ages, Times
<1>4. {wifi_attempt, reconnect_attempt, PumpSent, last_publish} \subseteq 0..now
  BY DEF PastInv
<1>5. WifiInv
  BY <1>1, <1>4, Times DEF WifiInv
<1>6. OfflineInv
  <2>1. last_publish <= calm_since + LongestRetry
    BY <1>4, Ages, Times
  <2>2. \A t \in Nat, c \in BOOLEAN : Within(t + GapIf(c))
    <3> SUFFICES ASSUME NEW t \in Nat, NEW c \in BOOLEAN
                 PROVE  Within(t + GapIf(c))
      OBVIOUS
    <3>1. t + GapIf(c) \in Nat
      BY <1>2
    <3> QED
      BY <1>1, <3>1, Zenon
  <2>3. {WatchdogThreshold, LongestRetry} \subseteq Nat
    BY Times
  <2>4. reconnect_attempt <= calm_since /\ PumpSent <= calm_since
    BY <1>4
  <2>5. /\ Within(WatchdogThreshold + GapIf(turn \notin Guarded))
        /\ Within(LongestRetry + GapIf(turn \in Early))
    <3>1. (turn \notin Guarded) \in BOOLEAN /\ (turn \in Early) \in BOOLEAN
      OBVIOUS
    <3> QED
      BY <2>2, <2>3, <3>1, Zenon
  <2> QED
    BY <2>1, <2>4, <2>5, Zenon DEF OfflineInv
<1>7. DeafInv
  BY <1>1, <1>2 DEF DeafInv
<1>8. BehindInv
  <2>1. last_publish <= calm_since + LongestRetry /\ PumpSent <= calm_since
    BY <1>4, Ages, Times
  <2>2. LongestRetry + PublishIntervalOffHours + Slack \in Nat
    BY <1>3, Times
  <2> QED
    BY <1>1, <2>1, <2>2, Zenon DEF BehindInv
<1> QED
  BY <1>5, <1>6, <1>7, <1>8 DEF QuietInv

LEMMA ShownNone ==
  ASSUME NEW ms, NEW k \in Nat, \A i \in 1..k : ms[i].topic # "pump_state"
  PROVE  ShownAfter(ms, k) = shown
  BY DEF ShownAfter

LEMMA ShownFirst ==
  ASSUME NEW ms, NEW k \in Nat, k > 0, ms[1].topic = "pump_state",
         \A i \in 2..k : ms[i].topic # "pump_state"
  PROVE  ShownAfter(ms, k) = ms[1].value
<1> DEFINE Last(i) == /\ ms[i].topic = "pump_state"
                      /\ \A j \in (i + 1)..k : ms[j].topic # "pump_state"
<1>1. ShownAfter(ms, k) =
        IF \E i \in 1..k : Last(i) THEN ms[CHOOSE i \in 1..k : Last(i)].value
                                   ELSE shown
  BY DEF ShownAfter
<1>2. 1 \in 1..k /\ Last(1)
  OBVIOUS
<1>3. \A i \in 1..k : Last(i) => i = 1
  OBVIOUS
<1> HIDE DEF Last
<1> QED
  BY <1>1, <1>2, <1>3

\* The pump state comes first in what publish_state hands over, where the rate
\* limit lets it pass, and nowhere else.
LEMMA BatchTopics ==
  ASSUME NEW on \in BOOLEAN, NEW full \in BOOLEAN, NEW urgent \in BOOLEAN
  PROVE  LET b == Batch(on, full, urgent)
             passed == urgent \/ Due("pump_state")
         IN  /\ passed => b # <<>> /\ b[1] = PumpState(on)
             /\ \A i \in (IF passed THEN 2 ELSE 1)..Len(b) :
                  b[i].topic # "pump_state"
<1> DEFINE passed == urgent \/ Due("pump_state")
           p == IF passed THEN <<PumpState(on)>> ELSE <<>>
           r == IF full THEN [i \in 1..Readings |-> Other("readings")] ELSE <<>>
           d == IF Due("debug") THEN <<Other("debug")>> ELSE <<>>
           b == Batch(on, full, urgent)
<1>1. p \in Seq(Messages) /\ (passed => Len(p) = 1 /\ p[1] = PumpState(on))
        /\ (~passed => Len(p) = 0)
  BY MessageTypes
<1>2. r \in Seq(Messages) /\ \A i \in 1..Len(r) : r[i].topic # "pump_state"
  <2>1. Other("readings") \in Messages /\ Other("readings").topic = "readings"
    BY MessageTypes DEF Topics, Other
  <2>2. CASE full
    <3> HIDE DEF Other
    <3>1. Readings \in Nat
      BY QueueAssumption
    <3> QED
      BY <2>1, <2>2, <3>1
  <2>3. CASE ~full
    <3>1. r = <<>>
      BY <2>3, Zenon
    <3> HIDE DEF r
    <3> QED
      BY <3>1
  <2> QED
    BY <2>2, <2>3
<1>3. d \in Seq(Messages) /\ \A i \in 1..Len(d) : d[i].topic # "pump_state"
  BY MessageTypes DEF Topics, Other
<1>4. b = p \o r \o d
  BY DEF Batch
<1> HIDE DEF p, r, d, b, passed
<1>5. Len(b) = Len(p) + Len(r) + Len(d) /\ b \in Seq(Messages)
  BY <1>1, <1>2, <1>3, <1>4
<1>6. \A i \in 1..Len(p) : b[i] = p[i]
  BY <1>1, <1>2, <1>3, <1>4
<1>7. \A i \in (Len(p) + 1)..Len(b) : b[i].topic # "pump_state"
  BY <1>1, <1>2, <1>3, <1>4
<1>8. passed => b # <<>> /\ b[1] = PumpState(on)
  <2> SUFFICES ASSUME passed PROVE b # <<>> /\ b[1] = PumpState(on)
    OBVIOUS
  <2>1. Len(p) = 1 /\ p[1] = PumpState(on)
    BY <1>1
  <2>2. b[1] = p[1]
    BY <1>6, <2>1
  <2>3. Len(b) > 0
    BY <1>2, <1>3, <1>5, <2>1
  <2> QED
    BY <2>1, <2>2, <2>3
<1>9. \A i \in (IF passed THEN 2 ELSE 1)..Len(b) : b[i].topic # "pump_state"
  <2>1. CASE passed
    <3>0. Len(p) = 1
      BY <1>1, <2>1, Zenon
    <3>1. Len(p) + 1 = 2
      BY <3>0
    <3>2. \A i \in 2..Len(b) : b[i].topic # "pump_state"
      BY <1>7, <3>1, Zenon
    <3> QED
      BY <2>1, <3>2, Zenon
  <2>2. CASE ~passed
    <3>1. Len(p) + 1 = 1
      BY <1>1, <2>2
    <3> QED
      BY <1>7, <2>2, <3>1
  <2> QED
    BY <2>1, <2>2
<1> QED
  BY <1>8, <1>9 DEF b, passed

\* Where publish() does not raise, every message is delivered.
LEMMA Delivered ==
  ASSUME TypeOK, NEW ms \in Seq(Messages), PublishAll(ms), connected, connected'
  PROVE  /\ session' = session
         /\ session => shown' = ShownAfter(ms, Len(ms))
         /\ PumpSent' = IF \E i \in 1..Len(ms) : ms[i].topic = "pump_state"
                        THEN now' ELSE PumpSent
<1>1. PICK k \in 0..Len(ms) :
        /\ connected' = (k = Len(ms))
        /\ session' = (session /\ connected')
        /\ last_sent' = [topic \in Limited |->
                           IF \E i \in 1..k : ms[i].topic = topic
                           THEN now' ELSE last_sent[topic]]
        /\ shown' = IF session THEN ShownAfter(ms, k) ELSE shown
  BY DEF PublishAll
<1>2. k = Len(ms)
  BY <1>1, Zenon
<1>3. session' = session
  BY <1>1 DEF TypeOK
<1>4. session => shown' = ShownAfter(ms, Len(ms))
  BY <1>1, <1>2, Zenon
<1>5. last_sent'["pump_state"] =
        IF \E i \in 1..Len(ms) : ms[i].topic = "pump_state"
        THEN now' ELSE last_sent["pump_state"]
  BY <1>1, <1>2, Zenon DEF Limited
<1> QED
  BY <1>3, <1>4, <1>5, Zenon DEF PumpSent

LEMMA SentSince ==
  ASSUME TypeOK, NEW ms \in Seq(Messages), PublishAll(ms)
  PROVE  /\ PumpSent' \in {PumpSent, now'}
         /\ ~connected => PumpSent' = PumpSent /\ UNCHANGED <<connected, session>>
<1>1. CASE connected
  <2>1. PICK k \in 0..Len(ms) :
          last_sent' = [topic \in Limited |->
                          IF \E i \in 1..k : ms[i].topic = topic
                          THEN now' ELSE last_sent[topic]]
    BY <1>1 DEF PublishAll
  <2> QED
    BY <1>1, <2>1, Zenon DEF PumpSent, Limited
<1>2. CASE ~connected
  <2>1. UNCHANGED <<connected, session, last_sent>>
    BY <1>2 DEF PublishAll
  <2> QED
    BY <2>1, Zenon DEF PumpSent
<1> QED
  BY <1>1, <1>2

\* What publish_state does to the pump state shown, while nothing fails: it
\* shows it, or the rate limit keeps it.
LEMMA StateSent ==
  ASSUME TypeOK, now' = now, NEW on \in BOOLEAN, NEW full \in BOOLEAN,
         NEW urgent \in BOOLEAN, PublishState(on, full, urgent)
  PROVE  /\ PumpSent' \in {PumpSent, now}
         /\ ~connected => PumpSent' = PumpSent /\ UNCHANGED <<connected, session>>
         /\ connected /\ connected' /\ session =>
              /\ session'
              /\ \/ shown' = Shown(on)
                 \/ /\ shown' = shown /\ PumpSent' = PumpSent
                    /\ ~urgent /\ ~Due("pump_state")
<1>1. CASE ~connected
  BY <1>1, Zenon DEF PublishState, Online, PumpSent
<1>2. CASE connected
  <2> DEFINE b == Batch(on, full, urgent)
             passed == urgent \/ Due("pump_state")
  <2>1. b \in Seq(Messages)
    BY BatchFacts
  <2>2. PublishAll(b)
    BY <1>2 DEF PublishState, Online
  <2>3. /\ passed => b # <<>> /\ b[1] = PumpState(on)
        /\ \A i \in (IF passed THEN 2 ELSE 1)..Len(b) : b[i].topic # "pump_state"
    BY BatchTopics
  <2> HIDE DEF b
  <2>4. PumpSent' \in {PumpSent, now}
    BY <2>1, <2>2, SentSince
  <2>5. ASSUME connected', session
        PROVE  /\ session'
               /\ \/ shown' = Shown(on)
                  \/ /\ shown' = shown /\ PumpSent' = PumpSent
                     /\ ~urgent /\ ~Due("pump_state")
    <3>1. /\ session'
          /\ shown' = ShownAfter(b, Len(b))
          /\ PumpSent' = IF \E i \in 1..Len(b) : b[i].topic = "pump_state"
                         THEN now' ELSE PumpSent
      BY <1>2, <2>1, <2>2, <2>5, Delivered
    <3>2. Len(b) \in Nat
      BY <2>1
    <3>3. CASE passed
      <4>1. Len(b) > 0
        BY <2>1, <2>3, <3>2, <3>3
      <4>2. b[1].topic = "pump_state" /\ b[1].value = Shown(on)
        BY <2>3, <3>3 DEF PumpState
      <4>3. \A i \in 2..Len(b) : b[i].topic # "pump_state"
        BY <2>3, <3>3
      <4> QED
        BY <3>1, <3>2, <4>1, <4>2, <4>3, ShownFirst
    <3>4. CASE ~passed
      <4>1. \A i \in 1..Len(b) : b[i].topic # "pump_state"
        BY <2>3, <3>4
      <4>2. ShownAfter(b, Len(b)) = shown
        BY <3>2, <4>1, ShownNone
      <4> QED
        BY <3>1, <3>4, <4>1, <4>2, Zenon
    <3> QED
      BY <3>3, <3>4
  <2> QED
    BY <1>2, <2>4, <2>5
<1> QED
  BY <1>1, <1>2

LEMMA StampsFrom ==
  ASSUME TypeOK, PastInv, NEW t \in Nat, now <= t,
         wifi_attempt' \in {wifi_attempt, 0, now, t},
         reconnect_attempt' \in {reconnect_attempt, 0, now, t},
         PumpSent' \in {PumpSent, 0, now, t},
         last_publish' \in {last_publish, 0, now, t},
         calm_since' \in {calm_since, 0, now, t}
  PROVE  {wifi_attempt', reconnect_attempt', PumpSent', last_publish',
          calm_since'} \subseteq 0..t
<1>1. {wifi_attempt, reconnect_attempt, PumpSent, last_publish, calm_since, 0,
       now, t} \subseteq 0..t
  BY Ages DEF PastInv
<1> QED
  BY <1>1, Zenon

LEMMA PumpSentKept ==
  /\ last_sent' = last_sent => PumpSent' = PumpSent
  /\ last_sent' = [topic \in Limited |-> 0] => PumpSent' = 0
  BY DEF PumpSent, Limited

LEMMA SetPumpSent ==
  ASSUME TypeOK, now' = now, NEW on \in BOOLEAN, NEW renamed \in BOOLEAN,
         NEW urgent \in BOOLEAN, SetPump(on, renamed, urgent)
  PROVE  /\ PumpSent' \in {PumpSent, now}
         /\ last_publish' \in {last_publish, now}
         /\ ~connected => PumpSent' = PumpSent /\ UNCHANGED <<connected, session>>
<1>1. CASE PublishState(on, FALSE, urgent) /\ last_publish' = now
  BY <1>1, StateSent
<1>2. CASE UNCHANGED <<connected, session, last_sent, last_publish>>
  BY <1>2, PumpSentKept
<1> QED
  BY <1>1, <1>2 DEF SetPump

LEMMA PastStep ==
  ASSUME TypeOK, TypeOK', PastInv, [Next]_vars
  PROVE  PastInv' /\ now <= now'
<1>0. now \in Nat /\ now' \in Nat
  BY DEF TypeOK
<1> DEFINE Stamps == /\ wifi_attempt' \in {wifi_attempt, 0, now, now'}
                     /\ reconnect_attempt' \in {reconnect_attempt, 0, now, now'}
                     /\ PumpSent' \in {PumpSent, 0, now, now'}
                     /\ last_publish' \in {last_publish, 0, now, now'}
                     /\ calm_since' \in {calm_since, 0, now, now'}
           Serving == /\ turn' = "ota" => ~ota_serving'
                      /\ turn' = "ota_stop" => ota_serving'
           Ahead == now' = now \/ \E gap \in Nat : now' = now + gap
<1>1. CASE Stamps /\ Serving /\ Ahead
  <2>1. now <= now'
    BY <1>0, <1>1
  <2>2. {wifi_attempt', reconnect_attempt', PumpSent', last_publish',
         calm_since'} \subseteq 0..now'
    <3>1. PICK t \in Nat : now' = t
      BY <1>0
    <3> QED
      BY <1>1, <2>1, <3>1, StampsFrom
  <2> QED
    BY <1>1, <2>1, <2>2, Zenon DEF PastInv
<1>2. CASE WorldChanges \/ WifiJoins \/ SessionLost \/ HourChange
  <2>1. /\ UNCHANGED <<now, turn, wifi_attempt, reconnect_attempt, last_sent,
                       last_publish, ota_serving>>
        /\ calm_since' \in {calm_since, now}
    <3>1. CASE WorldChanges
      BY <3>1, Zenon DEF WorldChanges, ota
    <3>2. CASE WifiJoins
      BY <3>2, Zenon DEF WifiJoins, ota
    <3>3. CASE SessionLost
      BY <3>3, Zenon DEF SessionLost, ota
    <3>4. CASE HourChange
      BY <3>4, Zenon DEF HourChange, wlan, ota
    <3> QED
      BY <1>2, <3>1, <3>2, <3>3, <3>4
  <2> QED
    BY <1>1, <2>1, PumpSentKept DEF PastInv
<1>3. CASE Boot
  <2>1. /\ wifi_attempt' = 0 /\ reconnect_attempt' = 0 /\ last_publish' = 0
        /\ last_sent' = [topic \in Limited |-> 0]
        /\ calm_since' = now' /\ turn' = "wifi"
    BY <1>3 DEF Boot
  <2>2. Ahead
    BY <1>3, ClockAssumption DEF Boot
  <2>3. Stamps /\ Serving
    BY <2>1, PumpSentKept
  <2> QED
    BY <1>1, <2>2, <2>3
<1>4. CASE WifiLoop \/ ReconnectFails
  <2>1. /\ UNCHANGED <<last_sent, last_publish>>
        /\ wifi_attempt' \in {wifi_attempt, 0, now'}
        /\ reconnect_attempt' \in {reconnect_attempt, now}
        /\ calm_since' \in {calm_since, now'}
        /\ turn' \notin {"ota", "ota_stop"}
    BY <1>4 DEF WifiLoop, ReconnectFails, wlan
  <2>2. Ahead
    BY <1>4, ClockAssumption DEF WifiLoop, ReconnectFails
  <2>3. Stamps /\ Serving
    BY <2>1, PumpSentKept
  <2> QED
    BY <1>1, <2>2, <2>3
<1>5. CASE CheckMsg \/ Flush \/ NoReconnect \/ Reconnects \/ WatchdogRestarts
  <2>1. /\ UNCHANGED <<now, wifi_attempt, last_sent, last_publish>>
        /\ reconnect_attempt' \in {reconnect_attempt, now}
        /\ turn' \notin {"ota", "ota_stop"}
        /\ calm_since' \in {calm_since, now}
    <3>1. CASE CheckMsg
      BY <3>1 DEF CheckMsg, Noted, wlan
    <3>2. CASE Flush
      BY <3>2 DEF Flush, Noted, wlan
    <3>3. CASE NoReconnect
      BY <3>3 DEF NoReconnect, wlan
    <3>4. CASE Reconnects
      BY <3>4 DEF Reconnects, wlan
    <3>5. CASE WatchdogRestarts
      BY <3>5 DEF WatchdogRestarts, wlan
    <3> QED
      BY <1>5, <3>1, <3>2, <3>3, <3>4, <3>5
  <2> QED
    BY <1>1, <2>1, PumpSentKept
<1>6. CASE WatchdogPasses
  <2>1. UNCHANGED <<now, wifi_attempt, reconnect_attempt, last_sent,
                    last_publish, calm_since>>
    BY <1>6 DEF WatchdogPasses, wlan
  <2>2. Serving
    BY <1>6 DEF WatchdogPasses, AfterNetwork, ota
  <2> QED
    BY <1>1, <2>1, <2>2, PumpSentKept
<1>7. CASE Receive \/ OtaAnswer
  <2>1. /\ UNCHANGED <<now, wifi_attempt, reconnect_attempt, last_publish>>
        /\ turn' \notin {"ota", "ota_stop"}
    BY <1>7 DEF Receive, OtaAnswer, wlan
  <2>2. calm_since' \in {calm_since, now}
    BY <1>7 DEF Receive, OtaAnswer, Noted
  <2>3. PumpSent' \in {PumpSent, now'}
    <3>1. <<Other("pump_override")>> \in Seq(Messages)
            /\ <<Other("ota_trigger")>> \in Seq(Messages)
      BY MessageTypes DEF Topics
    <3>2. \/ PublishAll(<<Other("pump_override")>>)
          \/ PublishAll(<<Other("ota_trigger")>>)
          \/ last_sent' = last_sent
      BY <1>7 DEF Receive, OtaAnswer
    <3> QED
      BY <3>1, <3>2, SentSince, PumpSentKept, Zenon
  <2> QED
    BY <1>1, <2>1, <2>2, <2>3
<1>8. CASE OtaStop \/ ControllerLoop
  <2>1. /\ UNCHANGED <<now, wifi_attempt, reconnect_attempt>>
        /\ turn' \notin {"ota", "ota_stop"}
        /\ calm_since' \in {calm_since, now}
    BY <1>8 DEF OtaStop, ControllerLoop, wlan
  <2>2. PumpSent' \in {PumpSent, now} /\ last_publish' \in {last_publish, now}
    <3>1. PICK on \in BOOLEAN, renamed \in BOOLEAN, urgent \in BOOLEAN :
            \/ PublishState(on, TRUE, FALSE) /\ last_publish' = now
            \/ SetPump(on, renamed, urgent)
      BY <1>8 DEF OtaStop, ControllerLoop
    <3>2. CASE PublishState(on, TRUE, FALSE) /\ last_publish' = now
      BY <2>1, <3>2, StateSent
    <3>3. CASE SetPump(on, renamed, urgent)
      BY <2>1, <3>3, SetPumpSent
    <3> QED
      BY <3>1, <3>2, <3>3
  <2> QED
    BY <1>1, <2>1, <2>2
<1>9. CASE UNCHANGED vars
  <2>1. UNCHANGED <<now, turn, wifi_attempt, reconnect_attempt, last_sent,
                    last_publish, calm_since, ota_serving>>
    BY <1>9 DEF vars, wlan, ota
  <2> QED
    BY <1>1, <2>1, PumpSentKept DEF PastInv
<1> QED
  BY <1>2, <1>3, <1>4, <1>5, <1>6, <1>7, <1>8, <1>9
  DEF Next, Network, Watchdog

\* Steps within a pass that leave the WiFi alone.
LEMMA WifiKept ==
  ASSUME WifiInv,
         UNCHANGED <<now, calm_since, reachable, wifi, wifi_attempt>>
  PROVE  WifiInv'
  BY DEF WifiInv, Within

\* A step within a pass that stays online and changes no pump state.
LEMMA StayedOnline ==
  ASSUME BoundedPasses, TypeOK, TypeOK', BehindInv, connected, connected',
         session, session',
         UNCHANGED <<now, calm_since, last_publish, pump_on, shown>>,
         PumpSent' = PumpSent, Slack <= Slack'
  PROVE  OfflineInv' /\ DeafInv' /\ BehindInv'
<1>1. OfflineInv' /\ DeafInv'
  BY DEF OfflineInv, DeafInv
<1>2. CASE shown = Shown(pump_on)
  BY <1>1, <1>2, Zenon DEF BehindInv, Shown
<1>3. CASE shown # Shown(pump_on)
  <2>1. /\ PumpSent <= calm_since
        /\ last_publish <= calm_since + LongestRetry
        /\ Within(LongestRetry + PublishIntervalOffHours + Slack)
    BY <1>3 DEF BehindInv
  <2>2. Slack \in Nat
    BY Ages, Times
  <2>3. PICK s \in Nat : s = Slack'
    <3>1. Slack' \in Nat
      BY Times DEF Slack, GapIf
    <3> QED
      BY <3>1
  <2>4. now <= calm_since + (LongestRetry + PublishIntervalOffHours + s)
    <3>1. {now, calm_since, LongestRetry, PublishIntervalOffHours} \subseteq Nat
      BY Ages, Times
    <3> HIDE DEF Slack
    <3> QED
      BY <2>1, <2>2, <2>3, <3>1 DEF Within
  <2>5. Within(LongestRetry + PublishIntervalOffHours + Slack)'
    BY <2>3, <2>4 DEF Within
  <2>6. (PumpSent <= calm_since /\ last_publish <= calm_since + LongestRetry)'
    BY <2>1
  <2> QED
    BY <1>1, <2>5, <2>6, Zenon DEF BehindInv
<1> QED
  BY <1>2, <1>3

\* A step within a pass that stays offline.
LEMMA StayedOffline ==
  ASSUME BoundedPasses, TypeOK, OfflineInv, ~connected, ~connected',
         UNCHANGED <<now, calm_since, reachable, reconnect_attempt, down_since>>,
         PumpSent' = PumpSent,
         turn' \in Guarded => turn \in Guarded \/ Within(WatchdogThreshold),
         turn \in Early /\ reachable # "nothing" =>
           turn' \in Early \/ Within(LongestRetry),
         \/ last_publish' = last_publish
         \/ last_publish' = now /\ turn \notin Early
  PROVE  OfflineInv' /\ DeafInv' /\ BehindInv'
<1>0. /\ {now, calm_since, last_publish} \subseteq Nat
      /\ {WatchdogThreshold, LongestRetry, LongestGap} \subseteq Nat
  BY Ages, Times
<1>1. DeafInv' /\ BehindInv'
  BY DEF DeafInv, BehindInv
<1>2. reconnect_attempt' <= calm_since' /\ down_since' <= calm_since'
        /\ PumpSent' <= calm_since'
  BY DEF OfflineInv
<1>3. Within(WatchdogThreshold + GapIf(turn' \notin Guarded))
  BY <1>0 DEF OfflineInv, Within, GapIf
<1>4. ASSUME reachable # "nothing"
      PROVE  /\ Within(LongestRetry + GapIf(turn' \in Early))
             /\ last_publish' <= calm_since + LongestRetry
  <2>1. /\ Within(LongestRetry + GapIf(turn \in Early))
        /\ last_publish <= calm_since + LongestRetry
    BY <1>4 DEF OfflineInv
  <2>2. Within(LongestRetry + GapIf(turn' \in Early))
    BY <1>0, <1>4, <2>1 DEF Within, GapIf
  <2>3. turn \notin Early => now <= calm_since + LongestRetry
    BY <1>0, <2>1 DEF Within, GapIf
  <2>4. last_publish' <= calm_since + LongestRetry
    BY <2>1, <2>3
  <2> QED
    BY <2>2, <2>4
<1>5. OfflineInv'
  BY <1>2, <1>3, <1>4, Zenon DEF OfflineInv, Within, GapIf
<1> QED
  BY <1>1, <1>5

LEMMA StayedDeaf ==
  ASSUME DeafInv, connected, ~session, connected', ~session',
         UNCHANGED <<now, calm_since>>, turn # "inbound", turn' # "inbound"
  PROVE  OfflineInv' /\ DeafInv' /\ BehindInv'
<1>1. Within(GapIf(turn = "inbound"))
  BY DEF DeafInv
<1>2. Within(GapIf(turn = "inbound"))'
  BY <1>1 DEF Within, GapIf
<1> QED
  BY <1>2, Zenon DEF OfflineInv, DeafInv, BehindInv

LEMMA StayedShown ==
  ASSUME connected', session', shown' = Shown(pump_on')
  PROVE  OfflineInv' /\ DeafInv' /\ BehindInv'
  BY Zenon DEF OfflineInv, DeafInv, BehindInv, Shown

LEMMA Untouched ==
  ASSUME OfflineInv, DeafInv, BehindInv,
         UNCHANGED <<now, turn, calm_since, reachable, connected, session, shown,
                     last_sent, reconnect_attempt, last_publish, pump_on,
                     ota_serving, down_since>>
  PROVE  OfflineInv' /\ DeafInv' /\ BehindInv'
<1>1. PumpSent' = PumpSent
  BY PumpSentKept
<1>2. Slack' = Slack
  BY DEF Slack, GapIf
<1> QED
  BY <1>1, <1>2 DEF OfflineInv, DeafInv, BehindInv, Within, GapIf, Shown

LEMMA SlackSame ==
  ASSUME BoundedPasses, TypeOK, ota_serving' = ota_serving,
         {turn, turn'} \subseteq Early \cup {"watchdog"}
  PROVE  Slack <= Slack'
<1>1. LongestGap \in Nat /\ ota_serving \in BOOLEAN
  BY Times, Ages
<1>2. Slack = LongestGap + GapIf(ota_serving) /\ Slack' = Slack
  BY DEF Slack, GapIf, Early
<1>3. Slack \in Nat
  BY Ages, Times
<1> QED
  BY <1>2, <1>3

\* Whatever is handed to publish() that is not the pump state leaves what is
\* shown alone.
LEMMA AnswerSent ==
  ASSUME TypeOK, NEW topic \in Topics \ {"pump_state"}, connected, connected',
         session, PublishAll(<<Other(topic)>>)
  PROVE  session' /\ shown' = shown /\ PumpSent' = PumpSent
<1> DEFINE ms == <<Other(topic)>>
<1>1. ms \in Seq(Messages) /\ Len(ms) = 1
  BY MessageTypes
<1>2. \A i \in 1..Len(ms) : ms[i].topic # "pump_state"
  <2>1. ms[1].topic = topic
    BY DEF Other
  <2> QED
    BY <1>1, <2>1
<1> HIDE DEF ms
<1>3. ShownAfter(ms, Len(ms)) = shown
  <2>1. Len(ms) \in Nat
    BY <1>1
  <2> QED
    BY <1>2, <2>1, ShownNone
<1>4. PublishAll(ms)
  BY DEF ms
<1>5. /\ session' = session
      /\ shown' = ShownAfter(ms, Len(ms))
      /\ PumpSent' = IF \E i \in 1..Len(ms) : ms[i].topic = "pump_state"
                     THEN now' ELSE PumpSent
  BY <1>1, <1>4, Delivered
<1> QED
  BY <1>2, <1>3, <1>5, Zenon

LEMMA CheckMsgQuiet ==
  ASSUME BoundedPasses, TypeOK, TypeOK', QuietInv, calm_since' # now', CheckMsg
  PROVE  QuietInv'
<1>1. /\ UNCHANGED <<now, calm_since, reachable, wifi, wifi_attempt, shown,
                     reconnect_attempt, last_publish, pump_on, ota_serving>>
      /\ PumpSent' = PumpSent
      /\ turn = "inbound" /\ turn' = "flush"
      /\ ~Failure
  BY PumpSentKept DEF CheckMsg, Noted, wlan, ota
<1>2. WifiInv'
  BY <1>1, WifiKept DEF QuietInv
<1>3. CASE connected
  <2>1. connected' /\ session /\ session'
    <3>1. connected' /\ session
      BY <1>1, <1>3, Zenon DEF Failure
    <3>2. session' = (session /\ connected')
      BY <1>3, Zenon DEF CheckMsg
    <3> QED
      BY <3>1, <3>2, Zenon
  <2>2. Slack <= Slack'
    BY <1>1, SlackSame DEF Early
  <2> QED
    BY <1>1, <1>2, <1>3, <2>1, <2>2, StayedOnline DEF QuietInv
<1>4. CASE ~connected
  <2>1. ~connected' /\ down_since' = down_since
    <3>1. connected = FALSE /\ connected' \in {connected, FALSE}
      BY <1>4, Ages DEF CheckMsg
    <3>2. connected' = FALSE
      BY <3>1, Zenon
    <3> QED
      BY <3>1, <3>2 DEF CheckMsg, GivenUp
  <2> QED
    BY <1>1, <1>2, <1>4, <2>1, StayedOffline DEF QuietInv, Early, Guarded
<1> QED
  BY <1>3, <1>4

LEMMA ReceiveQuiet ==
  ASSUME BoundedPasses, TypeOK, TypeOK', QuietInv, calm_since' # now', Receive
  PROVE  QuietInv'
<1>1. /\ UNCHANGED <<now, calm_since, reachable, wifi, wifi_attempt,
                     last_publish, pump_on, ota_serving>>
      /\ turn = "inbound" /\ turn' = "flush"
      /\ connected /\ session /\ connected'
  BY DEF Receive, Noted, Failure, wlan
<1>2. session' /\ shown' = shown /\ PumpSent' = PumpSent
  <2>1. CASE PublishAll(<<Other("pump_override")>>)
    BY <1>1, <2>1, AnswerSent DEF Topics
  <2>2. CASE UNCHANGED <<session, last_sent, shown>>
    BY <1>1, <2>2, PumpSentKept
  <2> QED
    BY <2>1, <2>2 DEF Receive
<1>3. WifiInv'
  BY <1>1, WifiKept DEF QuietInv
<1>4. Slack <= Slack'
  BY <1>1, SlackSame DEF Early
<1> QED
  BY <1>1, <1>2, <1>3, <1>4, StayedOnline DEF QuietInv

LEMMA FlushQuiet ==
  ASSUME BoundedPasses, TypeOK, TypeOK', QueueInv, QuietInv,
         calm_since' # now', Flush
  PROVE  QuietInv'
<1>1. /\ UNCHANGED <<now, calm_since, reachable, wifi, wifi_attempt,
                     reconnect_attempt, last_publish, pump_on, ota_serving>>
      /\ PumpSent' = PumpSent
      /\ turn = "flush" /\ turn' = "reconnect"
      /\ ~Failure
  BY PumpSentKept DEF Flush, Noted, wlan, ota
<1>2. WifiInv'
  BY <1>1, WifiKept DEF QuietInv
<1>3. CASE connected
  <2>1. connected' /\ session /\ session'
    <3>1. connected' /\ session
      BY <1>1, <1>3, Zenon DEF Failure
    <3>2. session' = (session /\ connected')
      BY <1>3, Zenon DEF Flush
    <3> QED
      BY <3>1, <3>2, Zenon
  <2>2. shown' = shown
    <3>1. PICK k \in 0..Len(queue) :
            shown' = IF session THEN ShownAfter(queue, k) ELSE shown
      BY <1>3 DEF Flush, FlushQueue
    <3>2. Len(queue) = 0
      BY <1>3 DEF QueueInv
    <3>3. k = 0
      BY <3>1, <3>2
    <3>4. ShownAfter(queue, 0) = shown
      BY ShownNone
    <3> QED
      BY <3>1, <3>3, <3>4
  <2>3. Slack <= Slack'
    BY <1>1, SlackSame DEF Early
  <2> QED
    BY <1>1, <1>2, <1>3, <2>1, <2>2, <2>3, StayedOnline DEF QuietInv
<1>4. CASE ~connected
  <2>1. ~connected' /\ down_since' = down_since
    BY <1>4 DEF Flush, GivenUp
  <2> QED
    BY <1>1, <1>2, <1>4, <2>1, StayedOffline DEF QuietInv, Early, Guarded
<1> QED
  BY <1>3, <1>4

\* No attempt is due: then WiFi is missing, and not for long, or the last
\* attempt is recent.
LEMMA NoReconnectQuiet ==
  ASSUME BoundedPasses, TypeOK, TypeOK', PastInv, QuietInv, NoReconnect
  PROVE  QuietInv'
<1>1. /\ UNCHANGED <<now, calm_since, reachable, wifi, wifi_attempt, connected,
                     session, shown, reconnect_attempt, last_publish, pump_on,
                     ota_serving, down_since>>
      /\ PumpSent' = PumpSent
      /\ turn = "reconnect" /\ turn' = "watchdog"
      /\ ~ReconnectDue
  BY PumpSentKept DEF NoReconnect, world, wlan, ota
<1>2. WifiInv'
  BY <1>1, WifiKept DEF QuietInv
<1>3. CASE connected /\ session
  <2>1. Slack <= Slack'
    BY <1>1, SlackSame DEF Early
  <2> QED
    BY <1>1, <1>2, <1>3, <2>1, StayedOnline DEF QuietInv
<1>4. CASE ~connected
  <2>1. /\ {now, calm_since, reconnect_attempt} \subseteq Nat
        /\ {WifiReconnectInterval, ReconnectInterval, LongestRetry} \subseteq Nat
        /\ WifiReconnectInterval <= LongestRetry
        /\ ReconnectInterval <= LongestRetry
    BY Ages, Times
  <2>2. reachable # "nothing" => Within(LongestRetry)
    <3>1. CASE wifi
      <4>1. now - reconnect_attempt < ReconnectInterval
        BY <1>1, <1>4, <2>1, <3>1 DEF ReconnectDue
      <4>2. reconnect_attempt <= calm_since
        BY <1>4 DEF QuietInv, OfflineInv
      <4> QED
        BY <2>1, <4>1, <4>2 DEF Within
    <3>2. CASE ~wifi
      BY <2>1, <3>2 DEF QuietInv, WifiInv, Within
    <3> QED
      BY <3>1, <3>2
  <2> QED
    BY <1>1, <1>2, <1>4, <2>2, StayedOffline DEF QuietInv, Early, Guarded
<1>5. CASE connected /\ ~session
  BY <1>1, <1>2, <1>5, StayedDeaf DEF QuietInv
<1> QED
  BY <1>3, <1>4, <1>5

LEMMA ReconnectsQuiet ==
  ASSUME BoundedPasses, TypeOK, TypeOK', QuietInv, calm_since' # now', Reconnects
  PROVE  QuietInv'
<1>1. /\ UNCHANGED <<now, calm_since, wifi, last_publish>>
      /\ PumpSent' = PumpSent
      /\ turn = "reconnect" /\ turn' = "watchdog" /\ reachable = "broker"
      /\ ~connected /\ wifi /\ connected' /\ session'
  BY PumpSentKept DEF Reconnects, ReconnectDue, wlan
<1>2. WifiInv' /\ OfflineInv' /\ DeafInv'
  BY <1>1 DEF WifiInv, OfflineInv, DeafInv
<1>3. BehindInv'
  <2>1. /\ PumpSent <= calm_since
        /\ last_publish <= calm_since + LongestRetry
        /\ Within(LongestRetry + GapIf(turn \in Early))
    BY <1>1 DEF QuietInv, OfflineInv
  <2>2. PICK s \in Nat : s = Slack' /\ LongestGap <= s
    <3>1. Slack' \in Nat /\ LongestGap <= Slack'
      BY <1>1, Times DEF Slack, GapIf
    <3> QED
      BY <3>1
  <2>3. now <= calm_since + (LongestRetry + PublishIntervalOffHours + s)
    <3>1. {now, calm_since, LongestRetry, PublishIntervalOffHours, LongestGap}
            \subseteq Nat
      BY Ages, Times
    <3>2. Within(LongestRetry + LongestGap)
      BY <1>1, <2>1 DEF GapIf, Early
    <3> HIDE DEF Slack
    <3> QED
      BY <2>2, <3>1, <3>2 DEF Within
  <2>4. Within(LongestRetry + PublishIntervalOffHours + Slack)'
    BY <1>1, <2>2, <2>3 DEF Within
  <2>5. (PumpSent <= calm_since /\ last_publish <= calm_since + LongestRetry)'
    BY <1>1, <2>1
  <2> QED
    BY <2>4, <2>5, Zenon DEF BehindInv
<1> QED
  BY <1>2, <1>3 DEF QuietInv

\* The watchdog passes an outage only while it is short.
LEMMA WatchdogQuiet ==
  ASSUME BoundedPasses, TypeOK, TypeOK', OutageInv, QuietInv, Watchdog
  PROVE  QuietInv'
<1>1. /\ UNCHANGED <<now, calm_since, reachable, wifi, wifi_attempt, connected,
                     session, shown, reconnect_attempt, last_publish,
                     down_since, ota_serving>>
      /\ PumpSent' = PumpSent
      /\ turn = "watchdog" /\ turn' # "inbound"
  BY PumpSentKept
  DEF Watchdog, WatchdogPasses, WatchdogRestarts, AfterNetwork, world, wlan, ota
<1>2. WifiInv'
  BY <1>1, WifiKept DEF QuietInv
<1>3. CASE ~connected
  <2>1. turn' \in Guarded => Within(WatchdogThreshold)
    <3>1. CASE WatchdogPasses
      <4>1. now - last_ping <= WatchdogThreshold
        BY <1>3, <3>1, Ages, Times DEF WatchdogPasses, Unresponsive
      <4>2. last_ping <= down_since /\ down_since <= calm_since
        BY <1>3 DEF OutageInv, QuietInv, OfflineInv
      <4>3. {now, last_ping, down_since, calm_since, WatchdogThreshold}
              \subseteq Nat
        BY Ages, IntervalsAssumption
      <4> QED
        BY <4>1, <4>2, <4>3 DEF Within
    <3>2. CASE WatchdogRestarts
      BY <3>2 DEF WatchdogRestarts, Guarded
    <3> QED
      BY <3>1, <3>2 DEF Watchdog
  <2> QED
    BY <1>1, <1>2, <1>3, <2>1, StayedOffline DEF QuietInv, Early
<1>4. CASE connected
  <2>1. WatchdogPasses
    BY <1>4 DEF Watchdog, WatchdogRestarts, Unresponsive
  <2>2. Slack <= Slack' /\ pump_on' = pump_on
    <3>1. LongestGap \in Nat /\ {ota_serving, ota_pending} \subseteq BOOLEAN
      BY Times, Ages
    <3>2. turn' \in {"ota", "ota_stop", "controller"}
      BY <2>1 DEF WatchdogPasses, AfterNetwork
    <3>3. pump_on' = pump_on
      BY <2>1 DEF WatchdogPasses
    <3> QED
      BY <1>1, <3>1, <3>2, <3>3 DEF Slack, GapIf
  <2>3. CASE session
    BY <1>1, <1>2, <1>4, <2>2, <2>3, StayedOnline DEF QuietInv
  <2>4. CASE ~session
    BY <1>1, <1>2, <1>4, <2>4, StayedDeaf DEF QuietInv
  <2> QED
    BY <2>3, <2>4
<1> QED
  BY <1>3, <1>4

\* The only step by which time passes while nothing goes wrong.
LEMMA WifiLoopQuiet ==
  ASSUME BoundedPasses, TypeOK, TypeOK', PastInv, QuietInv, calm_since' # now',
         WifiLoop
  PROVE  QuietInv'
<1>1. /\ UNCHANGED <<reachable, connected, session, shown, reconnect_attempt,
                     last_publish, pump_on, ota_serving, down_since>>
      /\ PumpSent' = PumpSent
      /\ turn = "wifi" /\ turn' = "inbound"
      /\ calm_since' = calm_since
  BY PumpSentKept DEF WifiLoop, world, ota
<1>2. PICK gap \in LoopGaps : now' = now + gap
  BY DEF WifiLoop
<1> DEFINE t == now + gap
<1>3. /\ gap <= LongestGap /\ t = now + gap /\ now' = t
      /\ {t, now, gap, calm_since, wifi_attempt, last_publish, LongestGap,
          LongestRetry, WifiReconnectInterval, WatchdogThreshold,
          PublishIntervalOffHours} \subseteq Nat
  BY <1>2, Ages, Times
<1> HIDE DEF t
<1>4. \A time \in Nat : Within(time) => t <= calm_since + (time + LongestGap)
  BY <1>3 DEF Within
<1>5. WifiInv'
  <2> SUFFICES ASSUME ~wifi', reachable # "nothing"
               PROVE  wifi_attempt' <= calm_since
                        /\ t <= calm_since + WifiReconnectInterval
    BY <1>1, <1>3, Zenon DEF WifiInv, Within
  <2>1. ~wifi /\ wifi_attempt' = wifi_attempt
          /\ t - wifi_attempt < WifiReconnectInterval
    BY <1>1, <1>3 DEF WifiLoop
  <2>2. wifi_attempt <= calm_since
    BY <2>1 DEF QuietInv, WifiInv
  <2> QED
    BY <1>3, <2>1, <2>2
<1>6. OfflineInv'
  <2> SUFFICES ASSUME ~connected
               PROVE  /\ reconnect_attempt <= calm_since
                      /\ down_since <= calm_since
                      /\ PumpSent <= calm_since
                      /\ t <= calm_since + (WatchdogThreshold + LongestGap)
                      /\ reachable # "nothing" =>
                           /\ t <= calm_since + (LongestRetry + LongestGap)
                           /\ last_publish <= calm_since + LongestRetry
    BY <1>1, <1>3, Zenon DEF OfflineInv, Within, GapIf, Early, Guarded
  <2>1. /\ Within(WatchdogThreshold + 0)
        /\ reachable # "nothing" => Within(LongestRetry + 0)
    BY <1>1 DEF QuietInv, OfflineInv, GapIf, Early, Guarded
  <2>2. WatchdogThreshold + 0 = WatchdogThreshold /\ LongestRetry + 0 = LongestRetry
    BY <1>3
  <2> QED
    BY <1>3, <1>4, <2>1, <2>2, Zenon DEF QuietInv, OfflineInv
<1>7. DeafInv'
  <2> SUFFICES ASSUME connected, ~session
               PROVE  t <= calm_since + LongestGap
    BY <1>1, <1>3, Zenon DEF DeafInv, Within, GapIf
  <2>1. Within(0)
    BY <1>1 DEF QuietInv, DeafInv, GapIf
  <2> QED
    BY <1>3, <2>1 DEF Within
<1>8. BehindInv'
  <2> SUFFICES ASSUME connected, session, shown # Shown(pump_on)
               PROVE  /\ PumpSent <= calm_since
                      /\ last_publish <= calm_since + LongestRetry
                      /\ t <= calm_since + (LongestRetry
                                + PublishIntervalOffHours + Slack')
    BY <1>1, <1>3, Zenon DEF BehindInv, Within, Shown
  <2>1. /\ PumpSent <= calm_since
        /\ last_publish <= calm_since + LongestRetry
        /\ Within(LongestRetry + PublishIntervalOffHours + Slack)
    BY DEF QuietInv, BehindInv
  <2>2. Slack \in Nat
    BY Ages, Times
  <2>3. Slack' = Slack + LongestGap
    BY <1>1, <1>3, Ages DEF Slack, GapIf
  <2>4. LongestRetry + PublishIntervalOffHours + (Slack + LongestGap)
          = (LongestRetry + PublishIntervalOffHours + Slack) + LongestGap
        /\ LongestRetry + PublishIntervalOffHours + Slack \in Nat
    BY <1>3, <2>2
  <2> QED
    BY <1>4, <2>1, <2>3, <2>4, Zenon
<1> QED
  BY <1>5, <1>6, <1>7, <1>8 DEF QuietInv

LEMMA AnswerQuiet ==
  ASSUME BoundedPasses, TypeOK, TypeOK', PastInv, QuietInv, calm_since' # now',
         OtaAnswer
  PROVE  QuietInv'
<1>1. /\ UNCHANGED <<now, calm_since, reachable, wifi, wifi_attempt,
                     reconnect_attempt, last_publish, pump_on>>
      /\ turn = "ota" /\ turn' = "wifi" /\ ota_serving'
      /\ PublishAll(<<Other("ota_trigger")>>)
      /\ ~Failure
  BY DEF OtaAnswer, Noted, wlan
<1>2. WifiInv'
  BY <1>1, WifiKept DEF QuietInv
<1>3. CASE connected
  <2>1. connected' /\ session
    BY <1>1, <1>3, Zenon DEF Failure
  <2>2. session' /\ shown' = shown /\ PumpSent' = PumpSent
    BY <1>1, <1>3, <2>1, AnswerSent DEF Topics
  <2>3. Slack <= Slack'
    BY <1>1, Times DEF Slack, GapIf, PastInv
  <2> QED
    BY <1>1, <1>2, <1>3, <2>1, <2>2, <2>3, StayedOnline DEF QuietInv
<1>4. CASE ~connected
  <2>1. <<Other("ota_trigger")>> \in Seq(Messages)
    BY MessageTypes DEF Topics
  <2>2. PumpSent' = PumpSent /\ ~connected'
    BY <1>1, <1>4, <2>1, SentSince
  <2>3. down_since' = down_since
    BY <1>1, <1>4 DEF PublishAll, GivenUp
  <2> QED
    BY <1>1, <1>2, <1>4, <2>2, <2>3, StayedOffline DEF QuietInv, Early, Guarded
<1> QED
  BY <1>3, <1>4

\* A cycle offline only notes when it would have published.
LEMMA CycleOffline ==
  ASSUME BoundedPasses, TypeOK, TypeOK', QuietInv, calm_since' # now',
         OtaStop \/ ControllerLoop, ~connected
  PROVE  QuietInv'
<1>1. /\ UNCHANGED <<now, calm_since, reachable, wifi, wifi_attempt,
                     reconnect_attempt>>
      /\ {turn, turn'} \subseteq Guarded \cup {"boot"} /\ turn \in Guarded
  BY DEF OtaStop, ControllerLoop, wlan, Guarded
<1>2. /\ UNCHANGED <<connected, down_since>> /\ PumpSent' = PumpSent
      /\ last_publish' \in {last_publish, now}
  BY PumpSentKept
  DEF OtaStop, ControllerLoop, SetPump, PublishState, Online
<1>3. WifiInv'
  BY <1>1, WifiKept DEF QuietInv
<1> QED
  BY <1>1, <1>2, <1>3, StayedOffline DEF QuietInv, Early, Guarded

\* A cycle that publishes shows the pump's state, or the rate limit keeps it:
\* then it was sent early in the quiet, if not at its beginning.
LEMMA CyclePublishes ==
  ASSUME BoundedPasses, TypeOK, TypeOK', BehindInv, connected, connected',
         session, UNCHANGED <<now, calm_since, pump_on>>, last_publish' = now,
         NEW full \in BOOLEAN, NEW urgent \in BOOLEAN,
         PublishState(pump_on, full, urgent)
  PROVE  OfflineInv' /\ DeafInv' /\ BehindInv'
<1>1. /\ session'
      /\ \/ shown' = Shown(pump_on)
         \/ shown' = shown /\ PumpSent' = PumpSent /\ ~Due("pump_state")
  <2>1. pump_on \in BOOLEAN
    BY Ages
  <2> QED
    BY <2>1, StateSent
<1>2. CASE shown' = Shown(pump_on)
  BY <1>1, <1>2, StayedShown DEF Shown
<1>3. CASE shown' # Shown(pump_on)
  <2>1. shown # Shown(pump_on) /\ PumpSent' = PumpSent /\ ~Due("pump_state")
    BY <1>1, <1>3
  <2>2. PumpSent <= calm_since
    BY <2>1 DEF BehindInv
  <2>3. {now, calm_since, PumpSent, RateLimit, LongestRetry,
         PublishIntervalOffHours} \subseteq Nat /\ RateLimit <= LongestRetry
    BY Ages, Times
  <2>4. now - PumpSent < RateLimit
    BY <2>1, <2>3 DEF Due, PumpSent
  <2>5. now <= calm_since + LongestRetry
    BY <2>2, <2>3, <2>4
  <2>6. PICK s \in Nat : s = Slack'
    <3>1. Slack' \in Nat
      BY Ages, Times DEF Slack, GapIf
    <3> QED
      BY <3>1
  <2>7. now <= calm_since + (LongestRetry + PublishIntervalOffHours + s)
    <3> HIDE DEF Slack
    <3> QED
      BY <2>3, <2>5, <2>6
  <2>8. Within(LongestRetry + PublishIntervalOffHours + Slack)'
    BY <2>6, <2>7 DEF Within
  <2>9. (PumpSent <= calm_since /\ last_publish <= calm_since + LongestRetry)'
    BY <2>1, <2>2, <2>5
  <2> QED
    BY <1>1, <2>8, <2>9, Zenon DEF OfflineInv, DeafInv, BehindInv
<1> QED
  BY <1>2, <1>3

\* A cycle with nothing to publish comes before the next publish is due.
LEMMA CycleRests ==
  ASSUME BoundedPasses, TypeOK, TypeOK', BehindInv, connected, connected',
         session, session',
         UNCHANGED <<now, calm_since, pump_on, shown, last_publish>>,
         PumpSent' = PumpSent, ~PublishDue
  PROVE  OfflineInv' /\ DeafInv' /\ BehindInv'
<1>1. CASE shown = Shown(pump_on)
  BY <1>1, StayedShown DEF Shown
<1>2. CASE shown # Shown(pump_on)
  <2>1. PumpSent <= calm_since /\ last_publish <= calm_since + LongestRetry
    BY <1>2 DEF BehindInv
  <2>2. {now, calm_since, last_publish, LongestRetry, PublishInterval,
         PublishIntervalOffHours} \subseteq Nat
          /\ PublishInterval <= PublishIntervalOffHours
    BY Ages, Times
  <2>3. now - last_publish < PublishIntervalOffHours
    BY <2>2 DEF PublishDue
  <2>4. PICK s \in Nat : s = Slack'
    <3>1. Slack' \in Nat
      BY Ages, Times DEF Slack, GapIf
    <3> QED
      BY <3>1
  <2>5. now <= calm_since + (LongestRetry + PublishIntervalOffHours + s)
    <3> HIDE DEF Slack
    <3> QED
      BY <2>1, <2>2, <2>3, <2>4
  <2>6. Within(LongestRetry + PublishIntervalOffHours + Slack)'
    BY <2>4, <2>5 DEF Within
  <2>7. (PumpSent <= calm_since /\ last_publish <= calm_since + LongestRetry)'
    BY <2>1
  <2> QED
    BY <2>6, <2>7, Zenon DEF OfflineInv, DeafInv, BehindInv
<1> QED
  BY <1>1, <1>2

LEMMA CycleOnline ==
  ASSUME BoundedPasses, TypeOK, TypeOK', PastInv, QuietInv, calm_since' # now',
         OtaStop \/ ControllerLoop, connected
  PROVE  QuietInv'
<1>1. /\ UNCHANGED <<now, calm_since, reachable, wifi, wifi_attempt, pump_on>>
      /\ connected' /\ session
  BY DEF OtaStop, ControllerLoop, wlan, Failure
<1>2. WifiInv'
  BY <1>1, WifiKept DEF QuietInv
<1>3. ASSUME NEW full \in BOOLEAN, NEW urgent \in BOOLEAN,
             PublishState(pump_on, full, urgent), last_publish' = now
      PROVE  QuietInv'
  BY <1>1, <1>2, <1>3, CyclePublishes DEF QuietInv
<1>4. CASE OtaStop
  <2>1. PICK renamed \in BOOLEAN : SetPump(FALSE, renamed, TRUE)
    BY <1>4 DEF OtaStop
  <2>2. pump_on = FALSE
    BY <1>1, <2>1 DEF SetPump
  <2>3. CASE PublishState(FALSE, FALSE, TRUE) /\ last_publish' = now
    BY <1>3, <2>2, <2>3
  <2>4. CASE UNCHANGED <<session, last_sent, shown, last_publish>>
    <3>1. Slack <= Slack'
      <4>1. turn = "ota_stop" /\ ota_serving /\ turn' \in {"controller", "boot"}
        BY <1>4 DEF OtaStop, PastInv
      <4>2. LongestGap \in Nat
        BY Times
      <4> QED
        BY <4>1, <4>2 DEF Slack, GapIf
    <3> QED
      BY <1>1, <1>2, <2>4, <3>1, StayedOnline, PumpSentKept DEF QuietInv
  <2> QED
    BY <2>1, <2>3, <2>4 DEF SetPump
<1>5. CASE ControllerLoop
  <2>1. PICK on \in BOOLEAN, renamed \in BOOLEAN, urgent \in BOOLEAN :
          IF on = pump_on /\ ~renamed /\ PublishDue
          THEN /\ PublishState(on, TRUE, FALSE)
               /\ last_publish' = now
               /\ UNCHANGED pump_on
          ELSE SetPump(on, renamed, urgent)
    BY <1>5 DEF ControllerLoop
  <2>2. on = pump_on
    BY <1>1, <2>1, Zenon DEF SetPump
  <2>3. CASE PublishState(on, TRUE, FALSE) /\ last_publish' = now
    BY <1>3, <2>2, <2>3
  <2>4. CASE PublishState(on, FALSE, urgent) /\ last_publish' = now
    BY <1>3, <2>2, <2>4
  <2>5. CASE ~PublishDue /\ UNCHANGED <<session, last_sent, shown, last_publish>>
    BY <1>1, <1>2, <2>5, CycleRests, PumpSentKept DEF QuietInv
  <2> QED
    BY <2>1, <2>2, <2>3, <2>4, <2>5 DEF SetPump
<1> QED
  BY <1>4, <1>5

LEMMA QuietStep ==
  ASSUME BoundedPasses, TypeOK, TypeOK', QueueInv, OutageInv, OutageInv', PastInv,
         PastInv', QuietInv, [Next]_vars
  PROVE  QuietInv'
<1>1. CASE calm_since' = now'
  <2>1. (BoundedPasses /\ TypeOK /\ PastInv /\ down_since <= now
           /\ calm_since = now => QuietInv)'
    BY JustDisturbed, PTL
  <2>2. down_since' <= now'
    BY DEF OutageInv
  <2> QED
    BY <1>1, <2>1, <2>2, Zenon DEF BoundedPasses
<1>2. CASE calm_since' # now'
  <2>1. CASE WifiJoins
    <3>1. /\ wifi'
          /\ UNCHANGED <<now, turn, calm_since, reachable, connected, session,
                         shown, last_sent, reconnect_attempt, last_publish,
                         pump_on, ota_serving, down_since>>
      BY <2>1 DEF WifiJoins, world, ota
    <3> QED
      BY <3>1, Untouched DEF QuietInv, WifiInv
  <2>2. CASE UNCHANGED vars
    <3>1. UNCHANGED <<now, turn, calm_since, reachable, connected, session,
                      shown, last_sent, reconnect_attempt, last_publish,
                      pump_on, ota_serving, down_since, wifi, wifi_attempt>>
      BY <2>2 DEF vars, world, wlan, ota
    <3> QED
      BY <3>1, Untouched, WifiKept DEF QuietInv
  <2>3. ~(WorldChanges \/ SessionLost \/ HourChange \/ Boot \/ ReconnectFails)
    BY <1>2 DEF WorldChanges, SessionLost, HourChange, Boot, ReconnectFails
  <2>4. CASE CheckMsg \/ Receive \/ Flush \/ NoReconnect \/ Reconnects
    BY <1>2, <2>4, CheckMsgQuiet, ReceiveQuiet, FlushQuiet, NoReconnectQuiet,
       ReconnectsQuiet
  <2>5. CASE WifiLoop \/ Watchdog \/ OtaAnswer
    BY <1>2, <2>5, WifiLoopQuiet, WatchdogQuiet, AnswerQuiet
  <2>6. CASE OtaStop \/ ControllerLoop
    BY <1>2, <2>6, CycleOffline, CycleOnline
  <2> QED
    BY <2>1, <2>2, <2>3, <2>4, <2>5, <2>6 DEF Next, Network
<1> QED
  BY <1>1, <1>2

-----------------------------------------------------------------------------
(* The theorems.                                                            *)

LEMMA Invariant == Spec => []Inv
<1>1. Inv /\ [Next]_vars => Inv'
  BY TypeStep, QueueStep, OutageStep DEF Inv, QueueInv
<1> QED
  BY InitInv, <1>1, PTL DEF Spec

\* Type correctness, for all intervals, gaps and queue sizes.
THEOREM TypeCorrect == Spec => []TypeOK
<1>1. Inv => TypeOK
  BY DEF Inv
<1> QED
  BY Invariant, <1>1, PTL

\* Over any number of failing batches, flushes and reconnects no feed gets an
\* older value after a newer one: the queue holds one message for each feed and
\* is empty whenever something is published on a connection.
THEOREM FeedsInOrderHolds == Spec => []FeedsInOrder
<1>1. Init => Inv /\ FeedsInv
  BY InitInv DEF Init, FeedsInv, Apart, Free
<1>2. Inv /\ FeedsInv /\ [Next]_vars => FeedsInv'
  BY FeedsStep DEF Inv
<1>3. Inv /\ FeedsInv => FeedsInOrder
  BY DEF Inv, QueueInv, FeedsInv, Apart, FeedsInOrder
<1> QED
  BY Invariant, <1>1, <1>2, <1>3, PTL DEF Spec

\* One full publish and the answer to an update request are the most that is
\* ever queued, over any number of failures.
THEOREM QueueHolds == Spec => []QueueBounded
<1>1. Inv => QueueBounded
  <2> SUFFICES ASSUME Inv PROVE QueueBounded
    OBVIOUS
  <2>1. Len(queue) \in Nat
    BY DEF Inv, TypeOK
  <2> QED
    BY <2>1, QueueAssumption DEF Inv, QueueInv, Pending, QueueBounded
<1> QED
  BY Invariant, <1>1, PTL

\* The controller never runs behind an outage longer than the threshold.
THEOREM OutageHolds == Spec => []OutageBounded
<1>1. Inv => OutageBounded
  BY DEF Inv, OutageInv, PastWatchdog, OutageBounded
<1> QED
  BY Invariant, <1>1, PTL

\* However often the connection fails, whatever the rate limit skipped or a dead
\* session swallowed, and whatever an old queue said: as long as the watchdog
\* fires before the readings of the night are due and passes are bounded, the
\* dashboard is right again after the longest retry, a publish interval and
\* two rounds of Network.loop.
THEOREM CatchesUpHolds ==
  ASSUME BoundedPasses, EarlyWatchdog
  PROVE  Spec => []DashboardCatchesUp
<1> DEFINE All == Inv /\ PastInv /\ QuietInv
<1>1. Init => All
  <2> SUFFICES ASSUME Init PROVE All
    OBVIOUS
  <2>1. Inv
    BY InitInv
  <2>2. PastInv
    BY ClockAssumption DEF Init, PastInv, PumpSent, Limited
  <2>3. down_since <= now /\ calm_since = now
    BY ClockAssumption DEF Init
  <2> QED
    BY <2>1, <2>2, <2>3, JustDisturbed DEF Inv
<1>2. All /\ [Next]_vars => All'
  <2> SUFFICES ASSUME All, [Next]_vars PROVE All'
    OBVIOUS
  <2>1. TypeOK' /\ QueueInv' /\ OutageInv'
    BY TypeStep, QueueStep, OutageStep DEF Inv, QueueInv
  <2>2. PastInv'
    BY <2>1, PastStep DEF Inv
  <2> QED
    BY <2>1, <2>2, QuietStep DEF Inv
<1>3. All => DashboardCatchesUp
  <2> SUFFICES ASSUME All, shown # Shown(pump_on)
               PROVE  now - calm_since <= CalmBound
    BY Ages, Times DEF Inv, DashboardCatchesUp, CalmBound
  <2>1. /\ {now, calm_since, LongestGap, LongestRetry, WatchdogThreshold,
             PublishIntervalOffHours, CalmBound} \subseteq Nat
        /\ CalmBound = LongestRetry + PublishIntervalOffHours + 2 * LongestGap
        /\ WatchdogThreshold <= PublishIntervalOffHours
    BY Ages, Times DEF Inv, EarlyWatchdog, CalmBound
  <2>2. CASE ~connected
    BY <2>1, <2>2 DEF QuietInv, OfflineInv, Within, GapIf
  <2>3. CASE connected /\ ~session
    BY <2>1, <2>3 DEF QuietInv, DeafInv, Within, GapIf
  <2>4. CASE connected /\ session
    <3>1. Within(LongestRetry + PublishIntervalOffHours + Slack)
      BY <2>4 DEF QuietInv, BehindInv
    <3>2. Slack \in Nat /\ Slack <= 2 * LongestGap
      BY <2>1 DEF Slack, GapIf
    <3> HIDE DEF Slack
    <3> QED
      BY <2>1, <3>1, <3>2 DEF Within
  <2> QED
    BY <2>2, <2>3, <2>4
<1> QED
  BY <1>1, <1>2, <1>3, PTL DEF Spec
=============================================================================
