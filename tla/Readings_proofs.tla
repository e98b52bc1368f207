----------------------------- MODULE Readings_proofs -----------------------------
(***************************************************************************)
(* Theorems about what main.py reads, as Sensors has it: dry pipes are     *)
(* noticed in time, no level is believed too soon, no temperature outlives *)
(* its sensor or a few reads; for any delays, read interval, spacing of    *)
(* the passes and set of sensors.                                          *)
(***************************************************************************)
EXTENDS Sensors_proofs

\* Successive reads are the debounce time apart, and there is a delay.
TimelyReads == DebounceTime <= SensorReadInterval - 1 /\ 0 < DryDelay

\* The last read of the level; boot reads it, too.
LastRead == IF last_sensor_read < 1 THEN 1 ELSE last_sensor_read

\* Reads come in time, and the ticks that the filter keeps are those of the
\* last sample that differed, which is younger than the filter's last rest.
ReadInv ==
  /\ {now, last_sensor_read, wet_since, same_since, settled_at} \subseteq Int
  /\ {wet, level_raw, level_stable, water_level_ok} \subseteq BOOLEAN
  /\ 1 <= wet_since /\ wet_since <= now
  /\ same_since <= LastRead
  /\ settled_at <= LastRead
  /\ LastRead <= now
  /\ now - LastRead < SensorReadInterval
  /\ \/ last_sensor_read >= 1
     \/ /\ last_sensor_read = 1 - SensorReadInterval
        /\ level_raw = level_stable
  /\ level_edge = same_since % TicksPeriod
  /\ level_raw # level_stable => settled_at <= same_since

\* The pipes are dry, and the ticks do not wrap around until it is noticed.
Owed == ~wet /\ NoWrap(settled_at, wet_since + DryBound)

\* Stable since s: a level that is not believed yet is younger than the last
\* rest, and a dry one is not older than its delay.
StableFrom(s) ==
  /\ stable_since = s % TicksPeriod
  /\ s <= LastRead
  /\ level_stable # water_level_ok => settled_at <= s
  /\ Owed /\ ~level_stable /\ water_level_ok =>
       /\ s <= wet_since + 2 * ReadGap
       /\ LastRead <= wet_since \/ LastRead - s < DryDelay

\* How far the filter is: no sample since the pipes fell dry, one, or more.
StageInv ==
  /\ Owed /\ level_raw => LastRead <= wet_since
  /\ Owed /\ ~level_raw /\ level_stable =>
       \/ LastRead <= wet_since
       \/ LastRead = same_since /\ same_since <= wet_since + ReadGap
  /\ \E s \in Int : StableFrom(s)

-----------------------------------------------------------------------------
(* Times and ticks.                                                         *)

LEMMA Intervals ==
  /\ SensorReadInterval \in Int /\ SensorReadInterval >= 1
  /\ LongestPass \in Int /\ LongestPass >= 0
  /\ DebounceTime \in Int /\ DebounceTime >= 0
  /\ DryDelay \in Int /\ DryDelay >= 0
  /\ TicksPeriod \in Int /\ TicksPeriod > 0
  /\ ReadGap = SensorReadInterval - 1 + LongestPass
  /\ ReadGap \in Int /\ ReadGap >= 0
  /\ DryBound = 3 * ReadGap + DryDelay - 1
  /\ DryBound \in Int
  BY PassAssumption, DelaysAssumption, TicksAssumption DEF ReadGap, DryBound

\* Between two times without a wrap the ticks differ as the times do.
LEMMA Unwrapped ==
  ASSUME NEW a \in Int, NEW x \in Int, NEW c \in Int, NEW p \in Int, p > 0,
         a <= x, x <= c, a \div p = c \div p
  PROVE  x % p = x - p * (a \div p)
<1> DEFINE q == a \div p
           ra == a % p
           rc == c % p
<1>1. q \in Int /\ ra \in Int /\ 0 <= ra /\ ra < p /\ rc \in Int /\ 0 <= rc /\ rc < p
  BY RemainderBounds, QuotientType
<1>2. p * q + ra = a /\ p * q + rc = c
  BY QuotientRemainder
<1> HIDE DEF q, ra, rc
<1> DEFINE r == x - p * q
<1>3. r \in Int /\ 0 <= r /\ r < p
  BY <1>1, <1>2, Z3
<1>4. p * q + r = x
  BY <1>1, Z3
<1> HIDE DEF r
<1>5. (p * q + r) % p = r
  BY <1>1, <1>3, RemainderUnique
<1> QED
  BY <1>4, <1>5 DEF q, r

LEMMA PlainDiff ==
  ASSUME NEW a \in Int, NEW x \in Int, NEW y \in Int, NEW c \in Int,
         a <= x, x <= y, y <= c, NoWrap(a, c)
  PROVE  (y % TicksPeriod) - (x % TicksPeriod) = y - x
<1> DEFINE p == TicksPeriod
           m == p * (a \div p)
<1>1. p \in Int /\ p > 0 /\ a \div p = c \div p
  BY Intervals DEF NoWrap
<1>2. a <= y /\ x <= c
  OBVIOUS
<1>3. x % p = x - m /\ y % p = y - m
  BY <1>1, <1>2, Unwrapped
<1>4. m \in Int
  BY <1>1, QuotientType
<1> HIDE DEF p, m
<1>5. (y - m) - (x - m) = y - x
  BY <1>4
<1> QED
  BY <1>3, <1>5 DEF p

\* What a read makes of the level and of its history.
LEMMA ReadFacts ==
  ASSUME Pass, ReadSensors
  PROVE  LET accepted == Differs /\ EdgeHeld IN
         /\ wet' = wet /\ wet_since' = wet_since
         /\ last_sensor_read' = now'
         /\ SinceRead >= SensorReadInterval - 1
         /\ level_raw' = wet
         /\ level_edge' = IF wet # level_raw THEN Ticks' ELSE level_edge
         /\ same_since' = IF wet = level_raw THEN same_since ELSE now'
         /\ level_stable' = IF accepted THEN wet ELSE level_stable
         /\ stable_since' = IF accepted THEN Ticks' ELSE stable_since
         /\ water_level_ok' = IF Ticks' - stable_since' >= Delay
                              THEN level_stable' ELSE water_level_ok
         /\ settled_at' = IF wet = level_raw /\ wet = level_stable'
                               /\ wet = water_level_ok'
                          THEN now' ELSE settled_at
  BY Zenon DEF ReadSensors, ReadLevel, Debounce, Confirm, SampleLevel

LEMMA SkipFacts ==
  ASSUME Pass, SkipSensors
  PROVE  /\ UNCHANGED wet /\ UNCHANGED wet_since /\ UNCHANGED same_since
         /\ UNCHANGED settled_at /\ UNCHANGED last_sensor_read
         /\ UNCHANGED level_raw /\ UNCHANGED level_stable
         /\ UNCHANGED level_edge /\ UNCHANGED stable_since
         /\ UNCHANGED water_level_ok
         /\ now' - last_sensor_read < SensorReadInterval
<1>1. UNCHANGED level /\ UNCHANGED levelHistory
  BY Zenon DEF SkipSensors
<1> QED
  BY <1>1, Zenon DEF SkipSensors, SinceRead, level, levelHistory

\* All but passes and the water itself.
LEMMA OtherFacts ==
  ASSUME ButtonMoves \/ WiringChanges \/ BrokerMoves \/ UNCHANGED vars
  PROVE  /\ UNCHANGED now
         /\ UNCHANGED wet /\ UNCHANGED wet_since /\ UNCHANGED same_since
         /\ UNCHANGED settled_at /\ UNCHANGED last_sensor_read
         /\ UNCHANGED level_raw /\ UNCHANGED level_stable
         /\ UNCHANGED level_edge /\ UNCHANGED stable_since
         /\ UNCHANGED water_level_ok
<1>1. /\ UNCHANGED now /\ UNCHANGED wet /\ UNCHANGED last_sensor_read
      /\ UNCHANGED level /\ UNCHANGED levelHistory
  BY Zenon DEF ButtonMoves, WiringChanges, BrokerMoves, vars, history
<1> QED
  BY <1>1, Zenon DEF level, levelHistory

LEMMA WaterFacts ==
  ASSUME WaterMoves
  PROVE  /\ wet' = ~wet /\ wet_since' = now
         /\ UNCHANGED now /\ UNCHANGED same_since
         /\ UNCHANGED settled_at /\ UNCHANGED last_sensor_read
         /\ UNCHANGED level_raw /\ UNCHANGED level_stable
         /\ UNCHANGED level_edge /\ UNCHANGED stable_since
         /\ UNCHANGED water_level_ok
<1>1. UNCHANGED level
  BY Zenon DEF WaterMoves
<1> QED
  BY <1>1, Zenon DEF WaterMoves, level

\* A read follows the one before within ReadGap, and no sooner than a unit
\* before the interval.
LEMMA ReadTimes ==
  ASSUME ReadInv, Pass, ReadSensors
  PROVE  /\ {now', LastRead, LastRead'} \subseteq Int
         /\ LastRead' = now'
         /\ LastRead <= now'
         /\ now' <= LastRead + ReadGap
         /\ last_sensor_read >= 1 => now' - LastRead >= SensorReadInterval - 1
<1> DEFINE t == now'
           l == LastRead
<1>1. {now, last_sensor_read, t, l} \subseteq Int /\ now <= t /\ t <= now + LongestPass
  BY PassTime DEF ReadInv, LastRead
<1>2. 1 <= now /\ l <= now /\ now - l < SensorReadInterval
  BY DEF ReadInv
<1>3. t - last_sensor_read >= SensorReadInterval - 1
  BY ReadFacts, Zenon DEF SinceRead
<1>4. last_sensor_read >= 1 => l = last_sensor_read
  BY <1>1 DEF LastRead
<1>5. LastRead' = IF t < 1 THEN 1 ELSE t
  BY ReadFacts, Zenon DEF LastRead
<1> HIDE DEF t, l
<1>6. LastRead' = t
  BY <1>1, <1>2, <1>5
<1>7. l <= t /\ t <= l + ReadGap
  BY <1>1, <1>2, Intervals
<1>8. last_sensor_read >= 1 => t - l >= SensorReadInterval - 1
  BY <1>3, <1>4
<1> QED
  BY <1>1, <1>6, <1>7, <1>8 DEF t, l

-----------------------------------------------------------------------------
(* Reads and their ticks.                                                   *)

LEMMA ReadInvRead ==
  ASSUME ReadInv, Pass, ReadSensors
  PROVE  ReadInv'
<1> DEFINE t == now'
           l == LastRead
           accepted == Differs /\ EdgeHeld
<1>1. {t, l, wet_since, same_since, settled_at} \subseteq Int
  BY ReadTimes DEF ReadInv
<1>2. LastRead' = t /\ l <= t
  BY ReadTimes
<1>3. same_since <= l /\ settled_at <= l
  BY DEF ReadInv
<1>4. same_since' \in {same_since, t} /\ settled_at' \in {settled_at, t}
  BY ReadFacts, Zenon
<1>5. /\ {same_since', settled_at'} \subseteq Int
      /\ same_since' <= t /\ settled_at' <= t
  BY <1>1, <1>2, <1>3, <1>4
<1>6. wet_since' = wet_since /\ last_sensor_read' = t
  BY ReadFacts, Zenon
<1>7. {wet, level_raw, level_stable, water_level_ok} \subseteq BOOLEAN
  BY DEF ReadInv
<1>8. {wet', level_raw', level_stable', water_level_ok'} \subseteq BOOLEAN
  BY <1>7, ReadFacts
<1>9. 1 <= wet_since /\ wet_since <= now /\ now <= t
  BY PassTime DEF ReadInv
<1>10. last_sensor_read' >= 1
  BY <1>1, <1>6, <1>9 DEF ReadInv
<1>11. level_edge' = same_since' % TicksPeriod
  <2>1. CASE wet = level_raw
    BY <2>1, ReadFacts, Zenon DEF ReadInv
  <2>2. CASE wet # level_raw
    BY <2>2, ReadFacts, Zenon DEF Ticks
  <2> QED
    BY <2>1, <2>2
<1>12. level_raw' # level_stable' => settled_at' <= same_since'
  <2> SUFFICES ASSUME level_raw' # level_stable'
               PROVE  settled_at' <= same_since'
    OBVIOUS
  <2>1. wet # level_stable' /\ ~accepted
    BY ReadFacts, Zenon
  <2>2. settled_at' = settled_at /\ level_stable' = level_stable
    BY <2>1, ReadFacts, Zenon
  <2>3. CASE wet = level_raw
    BY <2>1, <2>2, <2>3, ReadFacts, Zenon DEF ReadInv
  <2>4. CASE wet # level_raw
    <3>1. same_since' = t
      BY <2>4, ReadFacts, Zenon
    <3> QED
      BY <1>1, <1>2, <1>3, <2>2, <3>1
  <2> QED
    BY <2>3, <2>4
<1>13. {t, last_sensor_read'} \subseteq Int
  BY <1>1, <1>6
<1>14. LastRead' <= t /\ t - LastRead' < SensorReadInterval
  <2>1. t <= t /\ t - t < SensorReadInterval
    <3> HIDE DEF t
    <3> QED
      BY <1>1, Intervals
  <2> QED
    BY <1>2, <2>1
<1>15. {wet_since'} \subseteq Int /\ 1 <= wet_since' /\ wet_since' <= t
  <2>1. wet_since <= t
    <3> HIDE DEF t
    <3> QED
      BY <1>1, <1>9 DEF ReadInv
  <2> QED
    BY <1>1, <1>6, <1>9, <2>1
<1> QED
  BY <1>2, <1>5, <1>8, <1>10, <1>11, <1>12, <1>13, <1>14, <1>15 DEF ReadInv

LEMMA ReadInvSkip ==
  ASSUME ReadInv, Pass, SkipSensors
  PROVE  ReadInv'
<1> DEFINE t == now'
<1>1. /\ t - last_sensor_read < SensorReadInterval
      /\ LastRead' = LastRead
  BY SkipFacts, Zenon DEF LastRead
<1>2. {t} \subseteq Int /\ now <= t
  BY PassTime DEF ReadInv
<1>3. t - LastRead < SensorReadInterval /\ LastRead <= t /\ wet_since <= t
  <2>1. t \in Int
    BY <1>2
  <2> HIDE DEF t
  <2> QED
    BY <1>1, <1>2, <2>1, Intervals DEF ReadInv, LastRead
<1>4. {t} \subseteq Int /\ wet_since' <= t /\ LastRead' <= t
        /\ t - LastRead' < SensorReadInterval
  BY <1>1, <1>2, <1>3, SkipFacts, Zenon
<1> HIDE DEF t
<1> QED
  BY <1>1, <1>4, SkipFacts DEF ReadInv, t

LEMMA InitLevel == Init => ReadInv
<1> SUFFICES ASSUME Init PROVE ReadInv
  OBVIOUS
<1>1. /\ now = 1 /\ wet \in BOOLEAN
      /\ level_raw = wet /\ level_stable = wet /\ water_level_ok = wet
      /\ level_edge = 1 % TicksPeriod
      /\ last_sensor_read = 1 - SensorReadInterval
      /\ wet_since = 1 /\ same_since = 1 /\ settled_at = 1
  BY DEF Init, LevelInit, Ticks
<1>2. LastRead = 1
  BY <1>1, Intervals DEF LastRead
<1> QED
  BY <1>1, <1>2, Intervals DEF ReadInv

LEMMA ReadInvStep ==
  ASSUME ReadInv, [Next]_vars
  PROVE  ReadInv'
<1>1. CASE Pass
  <2>1. CASE ReadSensors
    BY <1>1, <2>1, ReadInvRead
  <2>2. CASE SkipSensors
    BY <1>1, <2>2, ReadInvSkip
  <2> QED
    BY <1>1, <2>1, <2>2, Zenon DEF Pass
<1>2. CASE WaterMoves
  <2>1. wet' \in BOOLEAN
    BY <1>2, WaterFacts
  <2>2. LastRead' = LastRead
    BY <1>2, WaterFacts, Zenon DEF LastRead
  <2>3. {now'} \subseteq Int /\ {wet_since'} \subseteq Int
          /\ 1 <= wet_since' /\ wet_since' <= now'
    BY <1>2, WaterFacts DEF ReadInv
  <2> QED
    BY <1>2, <2>1, <2>2, <2>3, WaterFacts DEF ReadInv
<1>3. CASE ButtonMoves \/ WiringChanges \/ BrokerMoves \/ UNCHANGED vars
  BY <1>3, OtherFacts, Zenon DEF ReadInv, LastRead
<1> QED
  BY <1>1, <1>2, <1>3 DEF Next

-----------------------------------------------------------------------------
(* The filter.                                                              *)

\* A read that sees the pipes dry, while nothing has settled yet.
LEMMA DryRead ==
  ASSUME TimelyReads, ReadInv, StageInv, Pass, ReadSensors, Owed,
         NEW s \in Int, StableFrom(s)
  PROVE  LET accepted == Differs /\ EdgeHeld
             since == IF accepted THEN now' ELSE s
         IN  /\ level_stable' =>
                  /\ LastRead' = same_since'
                  /\ same_since' <= wet_since + ReadGap
             /\ ~level_stable' /\ water_level_ok' =>
                  /\ since <= wet_since + 2 * ReadGap
                  /\ now' - since < DryDelay
<1> DEFINE t == now'
           l == LastRead
           accepted == Differs /\ EdgeHeld
           since == IF accepted THEN t ELSE s
           end == wet_since + DryBound
<1>1. /\ {t, l, s, wet_since, same_since, settled_at, end} \subseteq Int
      /\ l <= t /\ t <= l + ReadGap
  BY ReadTimes, Intervals DEF ReadInv
<1>2. LastRead' = t
  BY ReadTimes
<1>3. ~wet /\ NoWrap(settled_at, end)
  BY Zenon DEF Owed
<1>4. {wet, level_raw, level_stable, water_level_ok} \subseteq BOOLEAN
  BY DEF ReadInv
<1>5. DebounceTime <= SensorReadInterval - 1 /\ 0 < DryDelay
  BY DEF TimelyReads
<1>6. ASSUME level_stable'
      PROVE  /\ LastRead' = same_since'
             /\ same_since' <= wet_since + ReadGap
  <2>1. ~accepted /\ level_stable
    BY <1>3, <1>6, ReadFacts, Zenon
  <2>2. CASE level_raw
    <3>1. l <= wet_since
      BY <2>2, Zenon DEF StageInv
    <3>2. same_since' = t
      BY <1>3, <2>2, ReadFacts, Zenon
    <3>3. t <= wet_since + ReadGap
      <4> HIDE DEF t, l
      <4> QED
        BY <1>1, <3>1, Intervals
    <3> QED
      BY <1>2, <3>2, <3>3
  <2>3. CASE ~level_raw
    <3>1. /\ wet = level_raw
          /\ wet # level_stable
      BY <1>3, <1>4, <2>1, <2>3
    <3>2. ~(Ticks' - level_edge >= DebounceTime)
      BY <2>1, <3>1, Zenon DEF Differs, EdgeHeld
    <3>3. l <= wet_since \/ (l = same_since /\ same_since <= wet_since + ReadGap)
      BY <2>1, <2>3, Zenon DEF StageInv
    <3>4. settled_at <= same_since /\ same_since <= l
      BY <2>1, <2>3 DEF ReadInv
    <3>5. last_sensor_read >= 1
      BY <2>1, <2>3, Zenon DEF ReadInv
    <3>6. t - l >= SensorReadInterval - 1
      BY <3>5, ReadTimes
    <3>7. same_since <= t /\ t <= end
      <4> HIDE DEF t, l
      <4> QED
        BY <1>1, <1>5, <3>3, <3>4, Intervals DEF end
    <3>8. Ticks' = t % TicksPeriod
      BY Zenon DEF Ticks
    <3>9. level_edge = same_since % TicksPeriod
      BY Zenon DEF ReadInv
    <3>10. (t % TicksPeriod) - (same_since % TicksPeriod) = t - same_since
      <4> HIDE DEF t, l, end
      <4> QED
        BY <1>1, <1>3, <3>4, <3>7, PlainDiff
    <3>11. ~(t - same_since >= DebounceTime)
      BY <3>2, <3>8, <3>9, <3>10
    <3> HIDE DEF t, l
    <3> QED
      BY <1>1, <1>5, <3>4, <3>6, <3>11, Intervals
  <2> QED
    BY <1>4, <2>2, <2>3
<1>7. ASSUME ~level_stable', water_level_ok'
      PROVE  since <= wet_since + 2 * ReadGap /\ t - since < DryDelay
  <2>1. Delay = DryDelay
    BY <1>7 DEF Delay
  <2>2. ~(Ticks' - stable_since' >= DryDelay) /\ water_level_ok
    BY <1>7, <2>1, ReadFacts, Zenon
  <2>3. CASE accepted
    <3>1. level_stable /\ ~level_raw
      BY <1>3, <1>4, <2>3 DEF Differs, EdgeHeld
    <3>2. l <= wet_since \/ (l = same_since /\ same_since <= wet_since + ReadGap)
      BY <3>1, Zenon DEF StageInv
    <3>3. t <= wet_since + 2 * ReadGap /\ t - t < DryDelay
      <4> HIDE DEF t, l
      <4> QED
        BY <1>1, <1>5, <3>2, Intervals
    <3> QED
      BY <2>3, <3>3
  <2>4. CASE ~accepted
    <3>1. level_stable' = level_stable /\ stable_since' = stable_since
      BY <2>4, ReadFacts, Zenon
    <3>2. ~level_stable
      BY <1>7, <3>1
    <3>3. /\ s <= wet_since + 2 * ReadGap
          /\ l <= wet_since \/ l - s < DryDelay
          /\ settled_at <= s
          /\ s <= l
          /\ stable_since = s % TicksPeriod
      BY <2>2, <3>2, Zenon DEF StableFrom
    <3>4. s <= t /\ t <= end
      <4> HIDE DEF t, l
      <4> QED
        BY <1>1, <1>5, <3>3, Intervals DEF end
    <3>5. Ticks' = t % TicksPeriod
      BY Zenon DEF Ticks
    <3>6. (t % TicksPeriod) - (s % TicksPeriod) = t - s
      <4> HIDE DEF t, l, end
      <4> QED
        BY <1>1, <1>3, <3>3, <3>4, PlainDiff
    <3>7. ~(t - s >= DryDelay)
      BY <2>2, <3>1, <3>3, <3>5, <3>6
    <3>8. t - s < DryDelay
      <4> HIDE DEF t, l
      <4> QED
        BY <1>1, <3>7, Intervals
    <3> QED
      BY <2>4, <3>3, <3>8
  <2> QED
    BY <2>3, <2>4
<1> QED
  BY <1>6, <1>7, Zenon

LEMMA StageRead ==
  ASSUME TimelyReads, ReadInv, ReadInv', StageInv, Pass, ReadSensors
  PROVE  StageInv'
<1> DEFINE t == now'
           accepted == Differs /\ EdgeHeld
<1>1. PICK s \in Int : StableFrom(s)
  BY DEF StageInv
<1> DEFINE since == IF accepted THEN t ELSE s
<1>2. {t, LastRead, settled_at} \subseteq Int /\ LastRead' = t /\ LastRead <= t
  BY ReadTimes DEF ReadInv
<1>3. /\ since \in Int
      /\ stable_since' = since % TicksPeriod
      /\ since <= t
  <2>1. CASE accepted
    <3>1. since = t /\ t \in Int
      BY <1>2, <2>1
    <3>2. stable_since' = t % TicksPeriod
      BY <2>1, ReadFacts, Zenon DEF Ticks
    <3>3. t <= t
      BY <1>2
    <3> QED
      BY <3>1, <3>2, <3>3
  <2>2. CASE ~accepted
    <3>1. since = s
      BY <2>2
    <3>2. stable_since' = s % TicksPeriod
      BY <1>1, <2>2, ReadFacts, Zenon DEF StableFrom
    <3>3. s <= t
      <4>1. s <= LastRead
        BY <1>1, Zenon DEF StableFrom
      <4> HIDE DEF t
      <4> QED
        BY <1>2, <4>1
    <3> QED
      BY <3>1, <3>2, <3>3
  <2> QED
    BY <2>1, <2>2
<1>4. level_stable' # water_level_ok' => settled_at' <= since
  <2> SUFFICES ASSUME level_stable' # water_level_ok'
               PROVE  settled_at' <= since
    OBVIOUS
  <2>1. settled_at' = settled_at
    BY ReadFacts, Zenon
  <2>2. CASE accepted
    <3>1. settled_at <= t
      <4>1. settled_at <= LastRead
        BY DEF ReadInv
      <4> HIDE DEF t
      <4> QED
        BY <1>2, <4>1
    <3> QED
      BY <2>1, <2>2, <3>1
  <2>3. CASE ~accepted
    <3>1. level_stable' = level_stable /\ water_level_ok' = water_level_ok
      BY <2>3, ReadFacts, Zenon
    <3>2. settled_at <= s
      BY <1>1, <3>1, Zenon DEF StableFrom
    <3> QED
      BY <2>1, <2>3, <3>2
  <2> QED
    BY <2>2, <2>3
<1>5. /\ wet' = wet /\ wet_since' = wet_since
      /\ level_raw' = wet
  BY ReadFacts, Zenon
<1>6. Owed' /\ ~Owed => ~level_stable' /\ ~water_level_ok'
  <2> SUFFICES ASSUME Owed', ~Owed
               PROVE  ~level_stable' /\ ~water_level_ok'
    OBVIOUS
  <2>1. ~wet /\ settled_at' # settled_at
    BY <1>5, Zenon DEF Owed, DryBound, ReadGap, NoWrap
  <2>2. wet = level_stable' /\ wet = water_level_ok'
    BY <2>1, ReadFacts, Zenon
  <2> QED
    BY <2>1, <2>2
<1>7. ASSUME Owed', level_stable' \/ water_level_ok'
      PROVE  /\ level_stable' =>
                  /\ LastRead' = same_since'
                  /\ same_since' <= wet_since' + ReadGap
             /\ ~level_stable' /\ water_level_ok' =>
                  /\ since <= wet_since' + 2 * ReadGap
                  /\ t - since < DryDelay
  <2>1. Owed
    BY <1>6, <1>7
  <2> QED
    BY <1>1, <1>5, <2>1, DryRead, Zenon
<1>8. Owed' => ~level_raw'
  BY <1>5, Zenon DEF Owed
<1>9. PICK u \in Int : u = since
  BY <1>3
<1>10. StableFrom(u)'
  <2> HIDE DEF since
  <2> QED
    BY <1>2, <1>3, <1>4, <1>7, <1>9, Zenon DEF StableFrom, ReadGap
<1>11. \E v \in Int : StableFrom(v)'
  BY <1>10
<1> QED
  BY <1>7, <1>8, <1>11, Zenon DEF StageInv, ReadGap

LEMMA StageSame ==
  ASSUME StageInv,
         UNCHANGED wet, UNCHANGED wet_since, UNCHANGED same_since,
         UNCHANGED settled_at, UNCHANGED last_sensor_read,
         UNCHANGED level_raw, UNCHANGED level_stable,
         UNCHANGED stable_since, UNCHANGED water_level_ok
  PROVE  StageInv'
  BY Zenon DEF StageInv, StableFrom, Owed, LastRead, NoWrap, DryBound, ReadGap

LEMMA StageStep ==
  ASSUME TimelyReads, ReadInv, ReadInv', StageInv, [Next]_vars
  PROVE  StageInv'
<1>1. CASE Pass
  <2>1. CASE ReadSensors
    BY <1>1, <2>1, StageRead
  <2>2. CASE SkipSensors
    BY <1>1, <2>2, SkipFacts, StageSame
  <2> QED
    BY <1>1, <2>1, <2>2, Zenon DEF Pass
<1>2. CASE WaterMoves
  <2>1. PICK s \in Int : StableFrom(s)
    BY DEF StageInv
  <2>2. LastRead' = LastRead
    BY <1>2, WaterFacts, Zenon DEF LastRead
  <2>3. {now, LastRead} \subseteq Int /\ LastRead <= now
    BY DEF ReadInv, LastRead
  <2>4. LastRead' <= wet_since'
    BY <1>2, <2>2, <2>3, WaterFacts
  <2>5. s <= LastRead /\ s <= wet_since' + 2 * ReadGap
    <3>1. s <= LastRead
      BY <2>1, Zenon DEF StableFrom
    <3>2. s <= now + 2 * ReadGap
      BY <2>3, <3>1, Intervals
    <3> QED
      BY <1>2, <3>1, <3>2, WaterFacts
  <2>6. StableFrom(s)'
    BY <1>2, <2>1, <2>2, <2>4, <2>5, WaterFacts, Zenon DEF StableFrom, ReadGap
  <2>7. \E u \in Int : StableFrom(u)'
    BY <2>6
  <2> QED
    BY <2>4, <2>7, Zenon DEF StageInv
<1>3. CASE ButtonMoves \/ WiringChanges \/ BrokerMoves \/ UNCHANGED vars
  BY <1>3, OtherFacts, StageSame
<1> QED
  BY <1>1, <1>2, <1>3 DEF Next

\* README, dry-run protection: dry pipes are noticed within three reads and
\* the delay, whatever the level did before, as long as the ticks do not wrap
\* around meanwhile.
THEOREM DryNoticedHolds ==
  ASSUME TimelyReads
  PROVE  Spec => []DryNoticed
<1>1. Init => ReadInv /\ StageInv
  <2> SUFFICES ASSUME Init
               PROVE  ReadInv /\ StageInv
    OBVIOUS
  <2>1. /\ wet \in BOOLEAN
        /\ level_raw = wet /\ level_stable = wet /\ water_level_ok = wet
        /\ stable_since = 1 % TicksPeriod
        /\ settled_at = 1
    BY DEF Init, LevelInit, Ticks
  <2>2. LastRead = 1
    BY Intervals DEF Init, LastRead
  <2>3. ReadInv
    BY InitLevel
  <2>4. StableFrom(1)
    <3>1. level_stable = water_level_ok
      BY <2>1
    <3>2. 1 <= LastRead
      BY <2>2
    <3>3. ~(~level_stable /\ water_level_ok)
      BY <3>1
    <3> QED
      BY <2>1, <3>1, <3>2, <3>3, Zenon DEF StableFrom
  <2>5. StageInv
    <3>1. Owed => ~wet
      BY DEF Owed
    <3> QED
      BY <2>1, <2>4, <3>1 DEF StageInv
  <2> QED
    BY <2>3, <2>5
<1>2. ReadInv /\ [Next]_vars => ReadInv'
  BY ReadInvStep
<1>3. ReadInv /\ ReadInv' /\ StageInv /\ [Next]_vars => StageInv'
  BY StageStep
<1>4. ReadInv /\ StageInv => DryNoticed
  <2> SUFFICES ASSUME ReadInv, StageInv, ~wet, now - wet_since > DryBound,
                      NoWrap(settled_at, wet_since + DryBound),
                      water_level_ok
               PROVE  FALSE
    BY Zenon DEF DryNoticed
  <2>1. PICK s \in Int : StableFrom(s)
    BY DEF StageInv
  <2>2. Owed
    BY Zenon DEF Owed
  <2>3. /\ {now, LastRead, wet_since, same_since} \subseteq Int
        /\ now - LastRead < SensorReadInterval
        /\ {level_raw, level_stable} \subseteq BOOLEAN
    BY DEF ReadInv, LastRead
  <2>4. 0 < DryDelay
    BY DEF TimelyReads
  <2>5. CASE level_raw
    <3>1. LastRead <= wet_since
      BY <2>2, <2>5, Zenon DEF StageInv
    <3> QED
      BY <2>3, <2>4, <3>1, Intervals
  <2>6. CASE ~level_raw /\ level_stable
    <3>1. \/ LastRead <= wet_since
          \/ LastRead = same_since /\ same_since <= wet_since + ReadGap
      BY <2>2, <2>6, Zenon DEF StageInv
    <3> QED
      BY <2>3, <2>4, <3>1, Intervals
  <2>7. CASE ~level_stable
    <3>1. /\ s <= wet_since + 2 * ReadGap
          /\ LastRead <= wet_since \/ LastRead - s < DryDelay
      BY <2>1, <2>2, <2>7, Zenon DEF StableFrom
    <3> QED
      BY <2>1, <2>3, <2>4, <3>1, Intervals
  <2> QED
    BY <2>3, <2>5, <2>6, <2>7
<1> QED
  BY <1>1, <1>2, <1>3, <1>4, PTL DEF Spec

-----------------------------------------------------------------------------
(* What is believed.                                                        *)

\* Successive reads are the debounce time apart.
SpacedReads == DebounceTime <= SensorReadInterval - 1

\* Since the filter's last rest the stable level is the one that two samples
\* agreed on last; and when it is not believed yet, since then.
AgreedInv ==
  /\ {agreed} \subseteq BOOLEAN
  /\ {agreed_at} \subseteq Int
  /\ NoWrap(settled_at, now) =>
       /\ agreed = level_stable
       /\ level_stable # water_level_ok =>
            /\ settled_at <= agreed_at
            /\ agreed_at <= LastRead
            /\ stable_since = agreed_at % TicksPeriod

\* The ticks did not wrap around up to a moment before.
LEMMA NoWrapBefore ==
  ASSUME NEW a \in Int, NEW b \in Int, NEW c \in Int, a <= b, b <= c,
         NoWrap(a, c)
  PROVE  NoWrap(a, b)
<1> DEFINE p == TicksPeriod
           qa == a \div p
           qb == b \div p
           rb == b % p
<1>1. p \in Int /\ p > 0 /\ qa = c \div p
  BY Intervals DEF NoWrap
<1>2. qa \in Int /\ qb \in Int /\ rb \in Int
  BY <1>1, QuotientType, RemainderBounds
<1>3. rb = b - p * qa
  BY <1>1, Unwrapped
<1>4. p * qb + rb = b
  BY <1>1, QuotientRemainder
<1> HIDE DEF p, qa, qb, rb
<1>5. p * qb = p * qa
  BY <1>1, <1>2, <1>3, <1>4, Z3
<1>6. qb = qa
  BY <1>1, <1>2, <1>5, Z3
<1> QED
  BY <1>6 DEF NoWrap, qa, qb, p

\* The second of two samples that agree on a new level is accepted.
LEMMA Accepted ==
  ASSUME SpacedReads, ReadInv, Pass, ReadSensors,
         wet = level_raw, wet # level_stable, NoWrap(settled_at, now')
  PROVE  EdgeHeld
<1> DEFINE t == now'
           l == LastRead
<1>1. {t, l, same_since, settled_at} \subseteq Int /\ l <= t
  BY ReadTimes DEF ReadInv
<1>2. settled_at <= same_since /\ same_since <= l
  BY DEF ReadInv
<1>3. last_sensor_read >= 1
  BY Zenon DEF ReadInv
<1>4. t - l >= SensorReadInterval - 1
  BY <1>3, ReadTimes
<1>5. DebounceTime <= SensorReadInterval - 1
  BY DEF SpacedReads
<1>6. same_since <= t /\ t - same_since >= DebounceTime
  <2> HIDE DEF t, l
  <2> QED
    BY <1>1, <1>2, <1>4, <1>5, Intervals
<1>7. (t % TicksPeriod) - (same_since % TicksPeriod) = t - same_since
  <2>1. t <= t /\ NoWrap(settled_at, t)
    BY <1>1
  <2> HIDE DEF t, l
  <2> QED
    BY <1>1, <1>2, <1>6, <2>1, PlainDiff
<1>8. Ticks' - level_edge = t - same_since
  BY <1>7, Zenon DEF ReadInv, Ticks
<1> QED
  BY <1>6, <1>8, Zenon DEF EdgeHeld

\* A read accepts a level when two samples agree on it.
LEMMA AgreedRead ==
  ASSUME SpacedReads, ReadInv, AgreedInv, Pass, ReadSensors,
         NoWrap(settled_at, now')
  PROVE  LET accepted == Differs /\ EdgeHeld IN
         /\ agreed = level_stable
         /\ agreed' = level_stable'
         /\ agreed_at' = IF accepted THEN now' ELSE agreed_at
         /\ accepted => level_stable' = wet /\ wet # level_stable
         /\ ~accepted => level_stable' = level_stable
         /\ level_stable # water_level_ok =>
              /\ settled_at <= agreed_at
              /\ agreed_at <= LastRead
              /\ stable_since = agreed_at % TicksPeriod
<1> DEFINE t == now'
           accepted == Differs /\ EdgeHeld
<1>1. {now, t, settled_at} \subseteq Int /\ now <= t /\ settled_at <= now
  <2>1. {now, t} \subseteq Int /\ now <= t
    BY PassTime DEF ReadInv
  <2>2. {settled_at, LastRead} \subseteq Int /\ settled_at <= LastRead /\ LastRead <= now
    BY DEF ReadInv, LastRead
  <2> HIDE DEF t
  <2> QED
    BY <2>1, <2>2
<1>2. NoWrap(settled_at, now)
  <2>1. NoWrap(settled_at, t)
    OBVIOUS
  <2> HIDE DEF t
  <2> QED
    BY <1>1, <2>1, NoWrapBefore
<1>3. /\ agreed = level_stable
      /\ level_stable # water_level_ok =>
           /\ settled_at <= agreed_at
           /\ agreed_at <= LastRead
           /\ stable_since = agreed_at % TicksPeriod
  BY <1>2, Zenon DEF AgreedInv
<1>4. accepted <=> wet = level_raw /\ wet # agreed
  BY <1>3, Accepted, Zenon DEF Differs, EdgeHeld
<1>5. IF wet = level_raw /\ wet # agreed
      THEN agreed' = wet /\ agreed_at' = t
      ELSE UNCHANGED agreed /\ UNCHANGED agreed_at
  BY Zenon DEF ReadSensors, SampleLevel
<1>6. level_stable' = IF accepted THEN wet ELSE level_stable
  BY ReadFacts, Zenon
<1>7. CASE accepted
  BY <1>3, <1>4, <1>5, <1>6, <1>7, Zenon
<1>8. CASE ~accepted
  BY <1>3, <1>4, <1>5, <1>6, <1>8, Zenon
<1> QED
  BY <1>7, <1>8

LEMMA AgreedInvRead ==
  ASSUME SpacedReads, ReadInv, ReadInv', AgreedInv, Pass, ReadSensors
  PROVE  AgreedInv'
<1> DEFINE t == now'
           accepted == Differs /\ EdgeHeld
<1>1. {t, LastRead, settled_at} \subseteq Int /\ LastRead' = t /\ LastRead <= t
        /\ settled_at <= LastRead /\ settled_at <= t
  <2>1. {t, LastRead, settled_at} \subseteq Int /\ LastRead' = t /\ LastRead <= t
    BY ReadTimes DEF ReadInv
  <2>2. settled_at <= LastRead
    BY DEF ReadInv
  <2>3. settled_at <= t
    <3> HIDE DEF t
    <3> QED
      BY <2>1, <2>2
  <2> QED
    BY <2>1, <2>2, <2>3
<1>2. IF wet = level_raw /\ wet # agreed
      THEN agreed' = wet /\ agreed_at' = t
      ELSE UNCHANGED agreed /\ UNCHANGED agreed_at
  BY Zenon DEF ReadSensors, SampleLevel
<1>3. {agreed'} \subseteq BOOLEAN /\ {agreed_at'} \subseteq Int
  BY <1>1, <1>2 DEF AgreedInv, ReadInv
<1>4. ASSUME settled_at' # settled_at, NoWrap(settled_at', now')
      PROVE  agreed' = level_stable' /\ level_stable' = water_level_ok'
  <2>1. wet = level_raw /\ wet = level_stable' /\ wet = water_level_ok'
    BY <1>4, ReadFacts, Zenon
  <2> QED
    BY <1>2, <2>1, Zenon
<1>5. ASSUME settled_at' = settled_at, NoWrap(settled_at', now')
      PROVE  /\ agreed' = level_stable'
             /\ level_stable' # water_level_ok' =>
                  /\ settled_at' <= agreed_at'
                  /\ agreed_at' <= LastRead'
                  /\ stable_since' = agreed_at' % TicksPeriod
  <2>1. NoWrap(settled_at, now')
    BY <1>5, Zenon
  <2>2. /\ agreed' = level_stable'
        /\ agreed_at' = IF accepted THEN t ELSE agreed_at
        /\ ~accepted => level_stable' = level_stable
        /\ level_stable # water_level_ok =>
             /\ settled_at <= agreed_at
             /\ agreed_at <= LastRead
             /\ stable_since = agreed_at % TicksPeriod
    BY <2>1, AgreedRead
  <2>3. CASE accepted
    <3>1. agreed_at' = t /\ stable_since' = t % TicksPeriod
      BY <2>2, <2>3, ReadFacts, Zenon DEF Ticks
    <3>2. t <= t
      BY <1>1
    <3> QED
      BY <1>1, <1>5, <2>2, <3>1, <3>2, Zenon
  <2>4. CASE ~accepted
    <3>1. /\ agreed_at' = agreed_at /\ stable_since' = stable_since
          /\ level_stable' = level_stable
          /\ water_level_ok' \in {level_stable', water_level_ok}
      BY <2>2, <2>4, ReadFacts, Zenon
    <3>2. agreed_at <= LastRead => agreed_at <= t
      <4>1. agreed_at \in Int
        BY DEF AgreedInv
      <4> HIDE DEF t
      <4> QED
        BY <1>1, <4>1
    <3> QED
      BY <1>1, <1>5, <2>2, <3>1, <3>2, Zenon
  <2> QED
    BY <2>3, <2>4
<1> QED
  BY <1>3, <1>4, <1>5, Zenon DEF AgreedInv

LEMMA AgreedStep ==
  ASSUME SpacedReads, ReadInv, ReadInv', AgreedInv, [Next]_vars
  PROVE  AgreedInv'
<1>1. CASE Pass /\ ReadSensors
  BY <1>1, AgreedInvRead
<1>2. CASE \/ Pass /\ SkipSensors
           \/ WaterMoves \/ ButtonMoves \/ WiringChanges \/ BrokerMoves
           \/ UNCHANGED vars
  <2>1. UNCHANGED agreed /\ UNCHANGED agreed_at
    BY <1>2, Zenon DEF SkipSensors, WaterMoves, ButtonMoves, WiringChanges,
       BrokerMoves, vars, history, levelHistory
  <2>2. /\ UNCHANGED settled_at /\ UNCHANGED last_sensor_read
        /\ UNCHANGED level_stable /\ UNCHANGED stable_since
        /\ UNCHANGED water_level_ok
    BY <1>2, SkipFacts, WaterFacts, OtherFacts, Zenon
  <2>3. LastRead' = LastRead
    BY <2>2, Zenon DEF LastRead
  <2>4. NoWrap(settled_at', now') => NoWrap(settled_at, now)
    <3> DEFINE t == now'
    <3>1. {now, t, settled_at} \subseteq Int /\ settled_at <= now
      BY DEF ReadInv, LastRead
    <3>2. now <= t
      <4>1. CASE Pass
        BY <4>1, PassTime DEF ReadInv
      <4>2. CASE ~Pass
        <5>1. t = now
          BY <1>2, <4>2, WaterFacts, OtherFacts, Zenon
        <5> QED
          BY <3>1, <5>1
      <4> QED
        BY <4>1, <4>2
    <3>3. SUFFICES ASSUME NoWrap(settled_at, t) PROVE NoWrap(settled_at, now)
      BY <2>2
    <3> HIDE DEF t
    <3> QED
      BY <3>1, <3>2, <3>3, NoWrapBefore
  <2> QED
    BY <2>1, <2>2, <2>3, <2>4, Zenon DEF AgreedInv
<1> QED
  BY <1>1, <1>2, Zenon DEF Next, Pass

\* A level is believed only after its delay since two samples agreed on it.
THEOREM OnlyAgreedHolds ==
  ASSUME SpacedReads
  PROVE  Spec => OnlyAgreedLevels
<1>1. Init => ReadInv /\ AgreedInv
  <2> SUFFICES ASSUME Init PROVE ReadInv /\ AgreedInv
    OBVIOUS
  <2>1. ReadInv
    BY InitLevel
  <2>2. /\ agreed = wet /\ level_stable = wet /\ water_level_ok = wet
        /\ wet \in BOOLEAN /\ agreed_at = 1
    BY DEF Init, LevelInit
  <2> QED
    BY <2>1, <2>2 DEF AgreedInv
<1>2. ReadInv /\ [Next]_vars => ReadInv'
  BY ReadInvStep
<1>3. ReadInv /\ ReadInv' /\ AgreedInv /\ [Next]_vars => AgreedInv'
  BY AgreedStep
<1>4. ReadInv /\ AgreedInv /\ [Next]_vars =>
        (water_level_ok' # water_level_ok /\ NoWrap(settled_at, now') =>
           /\ water_level_ok' = agreed'
           /\ now' - agreed_at' >= IF agreed' THEN WetDelay ELSE DryDelay)
  <2> SUFFICES ASSUME ReadInv, AgreedInv, [Next]_vars,
                      water_level_ok' # water_level_ok,
                      NoWrap(settled_at, now')
               PROVE  /\ water_level_ok' = agreed'
                      /\ now' - agreed_at' >= IF agreed' THEN WetDelay ELSE DryDelay
    OBVIOUS
  <2>1. Pass /\ ReadSensors
    BY SkipFacts, WaterFacts, OtherFacts, Zenon DEF Next, Pass
  <2> DEFINE t == now'
             accepted == Differs /\ EdgeHeld
  <2>2. Ticks' - stable_since' >= Delay /\ water_level_ok' = level_stable'
    BY <2>1, ReadFacts, Zenon
  <2>3. /\ agreed' = level_stable'
        /\ agreed_at' = IF accepted THEN t ELSE agreed_at
        /\ ~accepted => level_stable' = level_stable
        /\ level_stable # water_level_ok =>
             /\ settled_at <= agreed_at
             /\ agreed_at <= LastRead
             /\ stable_since = agreed_at % TicksPeriod
    BY <2>1, AgreedRead
  <2>4. {t, LastRead, settled_at, agreed_at} \subseteq Int /\ LastRead <= t
    BY <2>1, ReadTimes DEF ReadInv, AgreedInv
  <2>5. Ticks' = t % TicksPeriod
    BY Zenon DEF Ticks
  <2>6. t - agreed_at' >= Delay
    <3>1. CASE accepted
      <4>1. agreed_at' = t /\ stable_since' = t % TicksPeriod
        BY <2>1, <2>3, <2>5, <3>1, ReadFacts, Zenon
      <4>2. (t % TicksPeriod) - (t % TicksPeriod) >= Delay
        BY <2>2, <2>5, <4>1, Zenon
      <4>3. (t % TicksPeriod) - (t % TicksPeriod) = t - t
        <5>1. t % TicksPeriod \in Int
          BY <2>4, Intervals
        <5> QED
          BY <2>4, <5>1
      <4> QED
        BY <4>1, <4>2, <4>3, Zenon
    <3>2. CASE ~accepted
      <4>1. /\ level_stable # water_level_ok
            /\ agreed_at' = agreed_at /\ stable_since' = stable_since
        BY <2>1, <2>2, <2>3, <3>2, ReadFacts, Zenon
      <4>2. /\ settled_at <= agreed_at
            /\ agreed_at <= LastRead
            /\ stable_since = agreed_at % TicksPeriod
        BY <2>3, <4>1, Zenon
      <4>3. (t % TicksPeriod) - (agreed_at % TicksPeriod) = t - agreed_at
        <5>1. NoWrap(settled_at, t)
          OBVIOUS
        <5> HIDE DEF t
        <5>2. agreed_at <= t /\ t <= t
          BY <2>4, <4>2
        <5> QED
          BY <2>4, <4>2, <5>1, <5>2, PlainDiff
      <4> QED
        BY <2>2, <2>5, <4>1, <4>2, <4>3, Zenon
    <3> QED
      BY <3>1, <3>2
  <2> QED
    BY <2>2, <2>3, <2>6, Zenon DEF Delay
<1> QED
  BY <1>1, <1>2, <1>3, <1>4, PTL DEF Spec, OnlyAgreedLevels

-----------------------------------------------------------------------------
(* The temperatures.                                                        *)

\* A conversion is over before the next read, long before the ticks would be
\* compared the wrong way round.
QuickConversions ==
  ConversionTime <= SensorReadInterval - 1 /\ ReadGap + ConversionTime < Half

NoneRead == \A l \in Labels : temps[l] = NoTime

\* How old the readings were at the last read.
NoOlder(bound) ==
  \A l \in Labels : temps[l] \in Nat => LastRead - temps[l] <= bound

Listed(r) == (r \in Labels => temps[r] = NoTime) /\ r \in disconnected_sensors

\* Only losses from that moment on are not listed yet.
ListedUpTo(time) ==
  \A r \in roms :
    unwired_since[r] = NoTime \/ Listed(r) \/ time <= unwired_since[r]

\* The conversion that goes on was started at s: by the last read, the one
\* after the readings were fetched; or by boot, before there were any.
Started(s) ==
  /\ conversion_started = s % TicksPeriod
  /\ s <= LastRead
  /\ \A r \in wired : converted[r] \in {s, PowerOn}
  /\ \/ /\ LastRead = s
        /\ last_sensor_read >= 1
        /\ ~lost => /\ NoOlder(2 * ReadGap + ConversionTime)
                    /\ ListedUpTo(LastRead - ReadGap)
     \/ /\ LastRead - s <= ConversionTime
        /\ NoneRead
        /\ ListedUpTo(s)

FreshInv ==
  /\ \A r \in Roms : unwired_since[r] = NoTime <=> r \in wired
  /\ \A l \in Labels : l \in roms \/ temps[l] = NoTime
  /\ conversion_started # NoTime => \E s \in Int : Started(s)
  /\ conversion_started = NoTime /\ ~lost =>
       NoOlder(ReadGap + ConversionTime) /\ ListedUpTo(LastRead)

LEMMA FreshInit == Init => FreshInv
<1> SUFFICES ASSUME Init PROVE FreshInv
  OBVIOUS
<1>1. /\ now = 1 /\ roms = wired
      /\ converted = [r \in Roms |-> IF r \in wired THEN now ELSE PowerOn]
      /\ conversion_started = IF wired = {} THEN NoTime ELSE Ticks
      /\ temps = [l \in Labels |-> NoTime]
      /\ wired \subseteq Roms
  BY DEF Init, TemperatureInit
<1>2. /\ unwired_since = [r \in Roms |-> IF r \in wired THEN NoTime ELSE now]
      /\ lost = (wired = {})
  BY Zenon DEF Init
<1>3. LastRead = 1
  BY Intervals DEF Init, LastRead
<1>4. \A r \in Roms : unwired_since[r] = NoTime <=> r \in wired
  BY <1>1, <1>2, ConversionAssumption
<1>5. \A l \in Labels : temps[l] = NoTime
  BY <1>1
<1>6. conversion_started # NoTime => Started(1)
  <2> SUFFICES ASSUME conversion_started # NoTime PROVE Started(1)
    OBVIOUS
  <2>1. conversion_started = 1 % TicksPeriod
    BY <1>1 DEF Ticks
  <2>2. \A r \in wired : converted[r] \in {1, PowerOn}
    BY <1>1
  <2>3. \A r \in roms : unwired_since[r] = NoTime
    BY <1>1, <1>2
  <2>4. LastRead - 1 <= ConversionTime /\ 1 <= LastRead
    BY <1>3, ConversionAssumption
  <2> QED
    BY <1>5, <2>1, <2>2, <2>3, <2>4, Zenon DEF Started, NoneRead, ListedUpTo
<1>7. conversion_started = NoTime => lost
  <2>1. Ticks \in Int
    BY <1>1, HalfFacts DEF Ticks
  <2> QED
    BY <1>1, <1>2, <2>1, ConversionAssumption
<1> QED
  BY <1>4, <1>5, <1>6, <1>7 DEF FreshInv

\* What reads and the wiring leave alone.
LEMMA FreshSame ==
  ASSUME FreshInv,
         UNCHANGED wired, UNCHANGED converted, UNCHANGED roms,
         UNCHANGED conversion_started, UNCHANGED temps,
         UNCHANGED disconnected_sensors, UNCHANGED unwired_since,
         UNCHANGED lost, UNCHANGED last_sensor_read
  PROVE  FreshInv'
  BY Zenon DEF FreshInv, Started, NoneRead, NoOlder, ListedUpTo, Listed,
     LastRead, ReadGap

LEMMA FreshWiring ==
  ASSUME TypeOK, ReadInv, FreshInv, WiringChanges
  PROVE  FreshInv'
<1>1. /\ wired' \subseteq Roms
      /\ unwired_since' = [r \in Roms |-> CASE r \in wired' -> NoTime
                                            [] r \in wired \ wired' -> now
                                            [] OTHER -> unwired_since[r]]
      /\ converted' = [r \in Roms |-> IF r \in wired' \ wired THEN PowerOn
                                      ELSE converted[r]]
  BY DEF WiringChanges, TypeOK, TemperatureType
<1>2. /\ UNCHANGED roms /\ UNCHANGED lost /\ UNCHANGED last_sensor_read
      /\ UNCHANGED conversion_started /\ UNCHANGED temps
      /\ UNCHANGED disconnected_sensors
  BY Zenon DEF WiringChanges, temperature
<1>3. LastRead' = LastRead
  BY <1>2, Zenon DEF LastRead
<1>4. roms \subseteq Roms /\ wired \subseteq Roms /\ {now, LastRead} \subseteq Int
        /\ LastRead <= now
  BY DEF TypeOK, TemperatureType, ReadInv, LastRead
<1>5. \A r \in Roms : unwired_since'[r] = NoTime <=> r \in wired'
  <2> SUFFICES ASSUME NEW r \in Roms
               PROVE  unwired_since'[r] = NoTime <=> r \in wired'
    OBVIOUS
  <2>1. unwired_since[r] = NoTime <=> r \in wired
    BY Zenon DEF FreshInv
  <2>2. now # NoTime
    BY <1>4, ConversionAssumption
  <2> QED
    BY <1>1, <2>1, <2>2
<1>6. \A r \in roms : \/ unwired_since'[r] = NoTime
                      \/ unwired_since'[r] = unwired_since[r]
                      \/ unwired_since'[r] = now
  BY <1>1, <1>4
<1>7. \A time \in Int : time <= LastRead /\ ListedUpTo(time) =>
        \A r \in roms : \/ unwired_since'[r] = NoTime
                        \/ Listed(r)
                        \/ time <= unwired_since'[r]
  <2> SUFFICES ASSUME NEW time \in Int, time <= LastRead, ListedUpTo(time),
                      NEW r \in roms
               PROVE  \/ unwired_since'[r] = NoTime
                      \/ Listed(r)
                      \/ time <= unwired_since'[r]
    OBVIOUS
  <2>1. time <= now
    BY <1>4
  <2>2. unwired_since[r] = NoTime => r \in wired
    BY <1>4, Zenon DEF FreshInv
  <2>3. r \in wired => unwired_since'[r] \in {NoTime, now}
    BY <1>1, <1>4
  <2>4. unwired_since[r] = NoTime \/ Listed(r) \/ time <= unwired_since[r]
    BY Zenon DEF ListedUpTo
  <2> QED
    BY <1>6, <2>1, <2>2, <2>3, <2>4, Zenon
<1>8. \A time \in Int : time <= LastRead /\ ListedUpTo(time) =>
        \A r \in roms' : \/ unwired_since'[r] = NoTime
                         \/ Listed(r)'
                         \/ time <= unwired_since'[r]
  BY <1>2, <1>7, Zenon DEF Listed
<1>9. \A s \in Int : Started(s) => Started(s)'
  <2> SUFFICES ASSUME NEW s \in Int, Started(s) PROVE Started(s)'
    OBVIOUS
  <2>1. \A r \in wired' : converted'[r] \in {s, PowerOn}
    <3>1. \A r \in wired : converted[r] \in {s, PowerOn}
      BY Zenon DEF Started
    <3> QED
      BY <1>1, <3>1
  <2>2. NoneRead' = NoneRead
          /\ NoOlder(2 * ReadGap + ConversionTime)'
               = NoOlder(2 * ReadGap + ConversionTime)
    BY <1>2, <1>3, Zenon DEF NoneRead, NoOlder, ReadGap
  <2>3. s <= LastRead /\ ListedUpTo(s) => ListedUpTo(s)'
    BY <1>8, Zenon DEF ListedUpTo
  <2>4. ListedUpTo(LastRead - ReadGap) => ListedUpTo(LastRead - ReadGap)'
    <3>1. PICK time \in Int : time = LastRead - ReadGap
      BY <1>4, Intervals
    <3>2. time <= LastRead
      BY <1>4, <3>1, Intervals
    <3>3. ListedUpTo(time) => \A r \in roms' : \/ unwired_since'[r] = NoTime
                                               \/ Listed(r)'
                                               \/ time <= unwired_since'[r]
      BY <1>8, <3>2
    <3>4. time = LastRead' - ReadGap
      BY <1>3, <3>1
    <3> QED
      BY <3>1, <3>3, <3>4, Zenon DEF ListedUpTo, ReadGap
  <2> QED
    BY <1>2, <1>3, <2>1, <2>2, <2>3, <2>4, Zenon DEF Started, ReadGap
<1>10. ListedUpTo(LastRead) => ListedUpTo(LastRead)'
  <2>1. LastRead \in Int /\ LastRead <= LastRead
    BY <1>4
  <2>2. ListedUpTo(LastRead) => \A r \in roms' : \/ unwired_since'[r] = NoTime
                                                 \/ Listed(r)'
                                                 \/ LastRead <= unwired_since'[r]
    BY <1>8, <2>1
  <2> QED
    BY <1>3, <2>2, Zenon DEF ListedUpTo
<1>11. NoOlder(ReadGap + ConversionTime)' = NoOlder(ReadGap + ConversionTime)
  BY <1>2, <1>3, Zenon DEF NoOlder, ReadGap
<1>12. conversion_started' # NoTime => \E s \in Int : Started(s)'
  BY <1>2, <1>9, Zenon DEF FreshInv
<1>13. \A l \in Labels : l \in roms' \/ temps'[l] = NoTime
  BY <1>2, Zenon DEF FreshInv
<1> QED
  BY <1>2, <1>5, <1>10, <1>11, <1>12, <1>13, Zenon DEF FreshInv

\* A read with no conversion under way starts one, if any sensor answers.
LEMMA FreshStart ==
  ASSUME TypeOK, ReadInv, FreshInv, Pass, ReadSensors, StartConversion
  PROVE  FreshInv'
<1> DEFINE t == now'
           l == LastRead
<1>1. /\ UNCHANGED wired /\ UNCHANGED roms /\ UNCHANGED unwired_since
      /\ UNCHANGED temps /\ UNCHANGED disconnected_sensors
      /\ conversion_started = NoTime
      /\ lost' = (lost \/ wired = {})
  BY Zenon DEF ReadSensors, ReadTemperatures, StartConversion
<1>2. /\ {t, l} \subseteq Int /\ LastRead' = t /\ l <= t /\ t <= l + ReadGap
      /\ ConversionTime \in Int /\ last_sensor_read' = t
  BY ReadTimes, ReadFacts, ConversionAssumption
<1>3. /\ \A r \in Roms : unwired_since'[r] = NoTime <=> r \in wired'
      /\ \A label \in Labels : label \in roms' \/ temps'[label] = NoTime
  BY <1>1, Zenon DEF FreshInv
<1>4. CASE wired = {}
  <2>1. lost' /\ conversion_started' = NoTime
    BY <1>1, <1>4, Zenon DEF StartConversion
  <2> QED
    BY <1>3, <2>1, Zenon DEF FreshInv
<1>5. CASE wired # {}
  <2>1. /\ conversion_started' = t % TicksPeriod
        /\ converted' = Measured(t)
    BY <1>5, Zenon DEF StartConversion, Ticks
  <2>2. \A r \in wired' : converted'[r] \in {t, PowerOn}
    BY <1>1, <2>1 DEF Measured, TypeOK, TemperatureType
  <2>3. ASSUME ~lost'
        PROVE  /\ \A label \in Labels : temps'[label] \in Nat =>
                    t - temps'[label] <= 2 * ReadGap + ConversionTime
               /\ \A r \in roms' : \/ unwired_since'[r] = NoTime
                                   \/ Listed(r)'
                                   \/ t - ReadGap <= unwired_since'[r]
    <3>1. NoOlder(ReadGap + ConversionTime) /\ ListedUpTo(l)
      BY <1>1, <2>3, Zenon DEF FreshInv
    <3>2. ASSUME NEW label \in Labels, temps[label] \in Nat
          PROVE  t - temps[label] <= 2 * ReadGap + ConversionTime
      <4>1. l - temps[label] <= ReadGap + ConversionTime
        BY <3>1, <3>2, Zenon DEF NoOlder
      <4> HIDE DEF t, l
      <4> QED
        BY <1>2, <3>2, <4>1, Intervals
    <3>3. ASSUME NEW r \in roms, unwired_since[r] # NoTime, ~Listed(r)
          PROVE  t - ReadGap <= unwired_since[r]
      <4>1. l <= unwired_since[r]
        BY <3>1, <3>3, Zenon DEF ListedUpTo
      <4>2. unwired_since[r] \in Int
        BY <3>3 DEF TypeOK, TemperatureType, MaybeTimes
      <4> HIDE DEF t, l
      <4> QED
        BY <1>2, <4>1, <4>2, Intervals
    <3> QED
      BY <1>1, <3>2, <3>3, Zenon DEF Listed
  <2>4. last_sensor_read' >= 1
    <3>1. 1 <= t
      <4>1. now \in Int /\ 1 <= now /\ now <= t
        BY PassTime DEF ReadInv
      <4> HIDE DEF t
      <4> QED
        BY <1>2, <4>1
    <3> QED
      BY <1>2, <3>1
  <2>5. PICK u \in Int : u = t
    BY <1>2
  <2>6. u <= LastRead' /\ LastRead' = u
    BY <1>2, <2>5
  <2>7. Started(u)'
    BY <2>1, <2>2, <2>3, <2>4, <2>5, <2>6, Zenon
    DEF Started, NoOlder, ListedUpTo, ReadGap
  <2>8. \E v \in Int : Started(v)'
    BY <2>7
  <2>9. conversion_started' # NoTime
    <3>1. t % TicksPeriod \in Int
      BY <1>2, Intervals
    <3> QED
      BY <2>1, <3>1, ConversionAssumption
  <2> QED
    BY <1>3, <2>8, <2>9, Zenon DEF FreshInv
<1> QED
  BY <1>4, <1>5

\* The time gone by since the start of a conversion, by its ticks.
LEMMA SinceStart ==
  ASSUME QuickConversions, TypeOK, ReadInv, Pass, ReadSensors,
         NEW s \in Int, Started(s)
  PROVE  /\ {now', LastRead} \subseteq Int /\ LastRead' = now'
         /\ ConversionTime \in Int
         /\ s <= now' /\ now' - s <= ReadGap + ConversionTime
         /\ Converting <=> now' - s < ConversionTime
         /\ ~(LastRead = s /\ last_sensor_read >= 1 /\ Converting)
<1> DEFINE t == now'
           l == LastRead
<1>1. /\ {t, l} \subseteq Int /\ LastRead' = t /\ l <= t /\ t <= l + ReadGap
      /\ last_sensor_read >= 1 => t - l >= SensorReadInterval - 1
      /\ ConversionTime \in Int /\ ConversionTime >= 0
  BY ReadTimes, ConversionAssumption
<1>2. /\ conversion_started = s % TicksPeriod
      /\ s <= l
      /\ l = s \/ l - s <= ConversionTime
  BY Zenon DEF Started
<1>3. ConversionTime <= SensorReadInterval - 1 /\ ReadGap + ConversionTime < Half
  BY DEF QuickConversions
<1>4. s <= t /\ t - s <= ReadGap + ConversionTime
  <2> HIDE DEF t, l
  <2> QED
    BY <1>1, <1>2, Intervals
<1>5. s - t <= Half /\ t - s < Half
  <2> HIDE DEF t, l
  <2> QED
    BY <1>1, <1>3, <1>4, HalfFacts, Intervals
<1>6. TicksDiff(t % TicksPeriod, s % TicksPeriod) = t - s
  <2> HIDE DEF t, l
  <2> QED
    BY <1>1, <1>5, DiffExact
<1>7. Converting <=> t - s < ConversionTime
  BY <1>2, <1>6, Zenon DEF Converting, Ticks
<1>8. ~(l = s /\ last_sensor_read >= 1 /\ t - s < ConversionTime)
  <2> HIDE DEF t, l
  <2> QED
    BY <1>1, <1>3, Intervals
<1> QED
  BY <1>1, <1>4, <1>7, <1>8, Zenon

\* Only the conversion that boot has started can go on at the next read.
LEMMA FreshAwait ==
  ASSUME QuickConversions, TypeOK, ReadInv, FreshInv, Pass, ReadSensors,
         AwaitConversion
  PROVE  FreshInv'
<1> DEFINE t == now'
<1>1. /\ UNCHANGED wired /\ UNCHANGED roms /\ UNCHANGED unwired_since
      /\ UNCHANGED converted /\ UNCHANGED temperature
      /\ conversion_started # NoTime /\ Converting
  BY Zenon DEF ReadSensors, ReadTemperatures, AwaitConversion
<1>2. /\ UNCHANGED temps /\ UNCHANGED disconnected_sensors
      /\ UNCHANGED conversion_started
  BY <1>1 DEF temperature
<1>3. PICK s \in Int : Started(s)
  BY <1>1, Zenon DEF FreshInv
<1>4. /\ {t} \subseteq Int /\ LastRead' = t /\ ConversionTime \in Int
      /\ s <= t /\ t - s < ConversionTime
      /\ ~(LastRead = s /\ last_sensor_read >= 1)
  BY <1>1, <1>3, SinceStart, Zenon
<1>5. s <= LastRead' /\ LastRead' - s <= ConversionTime
  <2>1. t - s <= ConversionTime
    <3> HIDE DEF t
    <3> QED
      BY <1>4
  <2> QED
    BY <1>4, <2>1
<1>6. NoneRead /\ ListedUpTo(s)
  BY <1>3, <1>4, Zenon DEF Started
<1>7. NoneRead' /\ ListedUpTo(s)'
  BY <1>1, <1>2, <1>6, Zenon DEF NoneRead, ListedUpTo, Listed
<1>8. Started(s)'
  BY <1>1, <1>2, <1>3, <1>5, <1>7, Zenon DEF Started
<1>9. \E v \in Int : Started(v)'
  BY <1>8
<1> QED
  BY <1>1, <1>2, <1>9, Zenon DEF FreshInv

\* Fetched readings are those of the conversion that has just ended.
LEMMA FreshFetch ==
  ASSUME QuickConversions, TypeOK, ReadInv, FreshInv, Pass, ReadSensors,
         FetchReadings
  PROVE  FreshInv'
<1> DEFINE t == now'
<1>1. /\ UNCHANGED wired /\ UNCHANGED roms /\ UNCHANGED unwired_since
      /\ conversion_started # NoTime /\ conversion_started' = NoTime
      /\ temps' = [l \in Labels |-> Read(l)]
      /\ disconnected_sensors' = (roms \ wired) \cup (roms \ Labels)
  BY Zenon DEF ReadSensors, ReadTemperatures, FetchReadings, EndConversion
<1>2. PICK s \in Int : Started(s)
  BY <1>1, Zenon DEF FreshInv
<1>3. LastRead' = t /\ t - s <= ReadGap + ConversionTime
  BY <1>2, SinceStart
<1>4. \A r \in wired : converted[r] \in {s, PowerOn}
  BY <1>2, Zenon DEF Started
<1>5. roms \subseteq Roms
  BY DEF TypeOK, TemperatureType
<1>6. \A l \in Labels : l \notin roms => temps[l] = NoTime
  BY Zenon DEF FreshInv
<1>7. ASSUME NEW l \in Labels, temps'[l] \in Nat
      PROVE  temps'[l] = s
  <2>1. temps'[l] = Read(l) /\ temps'[l] # NoTime /\ temps'[l] # PowerOn
    BY <1>1, <1>7, ConversionAssumption
  <2>2. l \in roms \cap wired
    BY <1>6, <2>1 DEF Read
  <2> QED
    BY <1>4, <2>1, <2>2 DEF Read
<1>8. \A l \in Labels : temps'[l] \in Nat =>
        LastRead' - temps'[l] <= ReadGap + ConversionTime
  BY <1>3, <1>7
<1>9. ASSUME NEW r \in roms, unwired_since[r] # NoTime
      PROVE  (r \in Labels => temps'[r] = NoTime) /\ r \in disconnected_sensors'
  <2>1. r \notin wired
    BY <1>5, <1>9, Zenon DEF FreshInv
  <2> QED
    BY <1>1, <2>1 DEF Read
<1>10. ListedUpTo(LastRead)'
  BY <1>1, <1>9, Zenon DEF ListedUpTo, Listed
<1>11. \A l \in Labels : l \in roms' \/ temps'[l] = NoTime
  BY <1>1, <1>6 DEF Read
<1>12. NoOlder(ReadGap + ConversionTime)'
  BY <1>8, Zenon DEF NoOlder, ReadGap
<1> QED
  BY <1>1, <1>10, <1>11, <1>12, Zenon DEF FreshInv

LEMMA FreshStep ==
  ASSUME QuickConversions, TypeOK, ReadInv, FreshInv, [Next]_vars
  PROVE  FreshInv'
<1>1. CASE Pass /\ ReadSensors
  <2>1. StartConversion \/ AwaitConversion \/ FetchReadings
    BY <1>1, Zenon DEF ReadSensors, ReadTemperatures
  <2> QED
    BY <1>1, <2>1, FreshStart, FreshAwait, FreshFetch
<1>2. CASE WiringChanges
  BY <1>2, FreshWiring
<1>3. CASE \/ Pass /\ SkipSensors
           \/ WaterMoves \/ ButtonMoves \/ BrokerMoves \/ UNCHANGED vars
  <2>1. /\ UNCHANGED bus /\ UNCHANGED roms /\ UNCHANGED temperature
        /\ UNCHANGED wiringHistory /\ UNCHANGED last_sensor_read
    BY <1>3, Zenon DEF SkipSensors, WaterMoves, ButtonMoves, BrokerMoves, vars,
       history
  <2>2. /\ UNCHANGED wired /\ UNCHANGED converted
        /\ UNCHANGED conversion_started /\ UNCHANGED temps
        /\ UNCHANGED disconnected_sensors /\ UNCHANGED unwired_since
        /\ UNCHANGED lost
    BY <2>1 DEF bus, temperature, wiringHistory
  <2> QED
    BY <2>1, <2>2, FreshSame
<1> QED
  BY <1>1, <1>2, <1>3, Zenon DEF Next, Pass

LEMMA FreshHolds ==
  ASSUME QuickConversions
  PROVE  Spec => [](TypeOK /\ ReadInv /\ FreshInv)
<1>1. Init => ReadInv /\ FreshInv
  BY InitLevel, FreshInit
<1>2. ReadInv /\ [Next]_vars => ReadInv'
  BY ReadInvStep
<1>3. TypeOK /\ ReadInv /\ FreshInv /\ [Next]_vars => FreshInv'
  BY FreshStep
<1> QED
  BY <1>1, <1>2, <1>3, TypeCorrect, PTL DEF Spec

\* While conversions can be started no reading outlives three reads and a
\* conversion, whatever happens to the wiring.
THEOREM TempsFreshHolds ==
  ASSUME QuickConversions
  PROVE  Spec => []TempsFresh
<1>1. TypeOK /\ ReadInv /\ FreshInv => TempsFresh
  <2> SUFFICES ASSUME TypeOK, ReadInv, FreshInv, ~lost,
                      NEW l \in Labels, temps[l] \in Nat
               PROVE  now - temps[l] <= FreshBound
    BY DEF TempsFresh
  <2>1. /\ {now, LastRead} \subseteq Int
        /\ now - LastRead < SensorReadInterval
        /\ ConversionTime \in Int /\ ConversionTime >= 0
        /\ FreshBound = 3 * ReadGap + ConversionTime
    BY ConversionAssumption DEF ReadInv, LastRead, FreshBound
  <2>2. LastRead - temps[l] <= 2 * ReadGap + ConversionTime
    <3>1. CASE conversion_started = NoTime
      <4>1. LastRead - temps[l] <= ReadGap + ConversionTime
        BY <3>1, Zenon DEF FreshInv, NoOlder
      <4> QED
        BY <2>1, <4>1, Intervals
    <3>2. CASE conversion_started # NoTime
      <4>1. PICK s \in Int : Started(s)
        BY <3>2, Zenon DEF FreshInv
      <4>2. temps[l] # NoTime
        BY ConversionAssumption
      <4> QED
        BY <4>1, <4>2, Zenon DEF Started, NoOlder, NoneRead
    <3> QED
      BY <3>1, <3>2
  <2> QED
    BY <2>1, <2>2, Intervals
<1> QED
  BY <1>1, FreshHolds, PTL

\* Whatever sensors are listed the LED shows.
ListShown ==
  disconnected_sensors # {} => pattern \in {"critical", "sensor_missing"}

LEMMA ListShownHolds == Spec => []ListShown
<1>1. Init => ListShown
  BY DEF Init, TemperatureInit, ListShown
<1>2. ListShown /\ [Next]_vars => ListShown'
  <2> SUFFICES ASSUME ListShown, [Next]_vars PROVE ListShown'
    OBVIOUS
  <2>1. CASE Pass
    <3> DEFINE missing == disconnected_sensors' # {}
               fault == ~sensors_ok' \/ missing
               chosen == ChosenPattern(fault)
    <3>1. UpdateLed(fault)
      BY <2>1, Zenon DEF Pass
    <3>2. pattern' = chosen
      <4>1. CASE chosen # pattern
        BY <3>1, <4>1, Zenon DEF UpdateLed, SetPattern
      <4>2. CASE chosen = pattern
        <5>1. Blink \/ UNCHANGED led
          BY <3>1, <4>2, Zenon DEF UpdateLed
        <5>2. pattern' = pattern
          BY <5>1 DEF Blink, led
        <5> QED
          BY <4>2, <5>2
      <4> QED
        BY <4>1, <4>2
    <3>3. missing => chosen \in {"critical", "sensor_missing"}
      <4>1. CASE critical_error'
        BY <4>1 DEF ChosenPattern
      <4>2. CASE ~critical_error'
        <5>1. missing => chosen = "sensor_missing"
          BY <4>2 DEF ChosenPattern
        <5> QED
          BY <5>1
      <4> QED
        BY <4>1, <4>2
    <3> QED
      BY <3>2, <3>3, Zenon DEF ListShown
  <2>2. CASE ~Pass
    <3>1. UNCHANGED led /\ UNCHANGED disconnected_sensors
      BY <2>2, Zenon DEF Next, WaterMoves, ButtonMoves, WiringChanges,
         BrokerMoves, vars, temperature
    <3>2. UNCHANGED pattern
      BY <3>1 DEF led
    <3> QED
      BY <3>1, <3>2, Zenon DEF ListShown
  <2> QED
    BY <2>1, <2>2
<1> QED
  BY <1>1, <1>2, PTL DEF Spec

\* README, sensor loss: a sensor of the boot scan that is gone for longer than
\* three reads and a conversion has lost its reading, is listed and shown,
\* while others answer.
THEOREM LossNoticedHolds ==
  ASSUME QuickConversions
  PROVE  Spec => []LossNoticed
<1>1. TypeOK /\ ReadInv /\ FreshInv /\ ListShown => LossNoticed
  <2> SUFFICES ASSUME TypeOK, ReadInv, FreshInv, ListShown, ~lost,
                      NEW r \in roms, unwired_since[r] # NoTime,
                      now - unwired_since[r] > FreshBound
               PROVE  /\ r \in Labels => temps[r] = NoTime
                      /\ r \in disconnected_sensors
                      /\ pattern \in {"critical", "sensor_missing"}
    BY DEF LossNoticed
  <2>1. /\ {now, LastRead} \subseteq Int
        /\ now - LastRead < SensorReadInterval
        /\ ConversionTime \in Int /\ ConversionTime >= 0
        /\ FreshBound = 3 * ReadGap + ConversionTime
    BY ConversionAssumption DEF ReadInv, LastRead, FreshBound
  <2>2. unwired_since[r] \in Int
    BY DEF TypeOK, TemperatureType, MaybeTimes
  <2>3. \/ Listed(r)
        \/ LastRead - unwired_since[r] <= ReadGap + ConversionTime
    <3>1. CASE conversion_started = NoTime
      <4>1. Listed(r) \/ LastRead <= unwired_since[r]
        BY <3>1, Zenon DEF FreshInv, ListedUpTo
      <4> QED
        BY <2>1, <2>2, <4>1, Intervals
    <3>2. CASE conversion_started # NoTime
      <4>1. PICK s \in Int : Started(s)
        BY <3>2, Zenon DEF FreshInv
      <4>2. \/ Listed(r)
            \/ LastRead - ReadGap <= unwired_since[r]
            \/ LastRead - s <= ConversionTime /\ s <= unwired_since[r]
        BY <4>1, Zenon DEF Started, ListedUpTo
      <4> QED
        BY <2>1, <2>2, <4>2, Intervals
    <3> QED
      BY <3>1, <3>2
  <2>4. Listed(r)
    BY <2>1, <2>2, <2>3, Intervals
  <2> QED
    BY <2>4 DEF Listed, ListShown
<1> QED
  BY <1>1, FreshHolds, ListShownHolds, PTL
=============================================================================
