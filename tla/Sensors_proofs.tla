---------------------------- MODULE Sensors_proofs ----------------------------
(***************************************************************************)
(* Theorems about Sensors as a whole, its button and its status LED: at    *)
(* any time of the tick counter, whatever its period, and for any debounce *)
(* time, blink pattern and spacing of the passes that is short against it. *)
(***************************************************************************)
EXTENDS Sensors, TLAPS

Half == TicksPeriod \div 2

-----------------------------------------------------------------------------
(* Ticks.                                                                   *)

LEMMA RemainderUnique ==
  ASSUME NEW p \in Int, p > 0, NEW r \in Int, 0 <= r, r < p, NEW k \in Int
  PROVE  (p * k + r) % p = r
  BY Z3

LEMMA RemainderBounds ==
  ASSUME NEW a \in Int, NEW p \in Int, p > 0
  PROVE  a % p \in Int /\ 0 <= a % p /\ a % p < p
  OBVIOUS

LEMMA QuotientType ==
  ASSUME NEW a \in Int, NEW p \in Int, p > 0
  PROVE  a \div p \in Int
  OBVIOUS

LEMMA QuotientRemainder ==
  ASSUME NEW a \in Int, NEW p \in Int, p > 0
  PROVE  p * (a \div p) + (a % p) = a
  BY Z3

LEMMA RemainderShift ==
  ASSUME NEW a \in Int, NEW k \in Int, NEW p \in Int, p > 0
  PROVE  (a + p * k) % p = a % p
<1> DEFINE r == a % p
           q == a \div p
<1>1. r \in Int /\ 0 <= r /\ r < p /\ q \in Int
  BY RemainderBounds, QuotientType
<1>2. p * q + r = a
  BY QuotientRemainder
<1> HIDE DEF r, q
<1>3. q + k \in Int
  BY <1>1
<1>4. (p * (q + k) + r) % p = r
  BY <1>1, <1>3, RemainderUnique
<1>5. p * (q + k) + r = a + p * k
  BY <1>1, <1>2, Z3
<1> QED
  BY <1>4, <1>5 DEF r

\* The difference of two ticks depends on the difference of the times alone.
LEMMA DiffOfTicks ==
  ASSUME NEW a \in Int, NEW b \in Int
  PROVE  TicksDiff(a % TicksPeriod, b % TicksPeriod)
           = ((a - b + Half) % TicksPeriod) - Half
<1> DEFINE p == TicksPeriod
           ra == a % p
           rb == b % p
           qa == a \div p
           qb == b \div p
           h == p \div 2
<1>1. p \in Int /\ p > 0
  BY TicksAssumption
<1>2. ra \in Int /\ rb \in Int /\ qa \in Int /\ qb \in Int /\ h \in Int
  BY <1>1, RemainderBounds, QuotientType
<1>3. p * qa + ra = a /\ p * qb + rb = b
  BY <1>1, QuotientRemainder
<1>4. TicksDiff(ra, rb) = ((ra - rb + h) % p) - h
  BY DEF TicksDiff
<1> HIDE DEF p, ra, rb, qa, qb, h
<1>5. a - b + h = (ra - rb + h) + p * (qa - qb)
  BY <1>1, <1>2, <1>3, Z3
<1>6. (ra - rb + h) \in Int /\ qa - qb \in Int
  BY <1>2
<1>7. ((ra - rb + h) + p * (qa - qb)) % p = (ra - rb + h) % p
  BY <1>1, <1>6, RemainderShift
<1> QED
  BY <1>4, <1>5, <1>7 DEF p, ra, rb, h, Half

LEMMA HalfFacts ==
  /\ TicksPeriod \in Int /\ TicksPeriod > 0
  /\ Half \in Int /\ 0 <= Half /\ Half < TicksPeriod
<1> DEFINE p == TicksPeriod
           h == p \div 2
<1>1. p \in Int /\ p > 0
  BY TicksAssumption
<1>2. h \in Int
  BY <1>1, QuotientType
<1>3. 0 <= h /\ h < p
  BY <1>1, Z3
<1> QED
  BY <1>1, <1>2, <1>3 DEF Half

\* It never exceeds the time gone by, however long ago that began.
LEMMA DiffBelow ==
  ASSUME NEW a \in Int, NEW b \in Int, b <= a
  PROVE  TicksDiff(a % TicksPeriod, b % TicksPeriod) <= a - b
<1> DEFINE d == a - b + Half
           p == TicksPeriod
<1>1. d \in Int /\ 0 <= d /\ p \in Int /\ p > 0
  BY HalfFacts
<1> HIDE DEF d, p
<1>2. d % p <= d
  BY <1>1, Z3
<1>3. d % p \in Int
  BY <1>1, RemainderBounds
<1>4. TicksDiff(a % TicksPeriod, b % TicksPeriod) = (d % p) - Half
  BY DiffOfTicks DEF d, p
<1> QED
  BY <1>2, <1>3, <1>4, HalfFacts DEF d

\* It is that time up to half a period, and counts down to it as well.
LEMMA DiffExact ==
  ASSUME NEW a \in Int, NEW b \in Int, b - a <= Half, a - b < Half
  PROVE  TicksDiff(a % TicksPeriod, b % TicksPeriod) = a - b
<1> DEFINE d == a - b + Half
           p == TicksPeriod
<1>1. d \in Int /\ 0 <= d /\ p \in Int /\ p > 0
  BY HalfFacts
<1>2. d < p
  <2>1. Half + Half <= p
    BY TicksAssumption, Z3 DEF Half
  <2> QED
    BY <2>1, HalfFacts
<1>3. TicksDiff(a % TicksPeriod, b % TicksPeriod) = (d % p) - Half
  BY DiffOfTicks
<1> HIDE DEF d, p
<1>4. d % p = d
  BY <1>1, <1>2, Z3
<1> QED
  BY <1>3, <1>4, HalfFacts DEF d

-----------------------------------------------------------------------------
(* The button.                                                              *)

\* An edge is remembered as the tick of the sample that showed it, and a
\* press that is not reported yet began at such an edge, after the one
\* reported last.
EdgeInv ==
  /\ {now, sampled_since, reported_at} \subseteq Int
  /\ 0 < now
  /\ 0 <= sampled_since /\ sampled_since <= now
  /\ reported_at <= now
  /\ {down, button_raw, reported} \subseteq BOOLEAN
  /\ sampled_since > 0 => button_edge = sampled_since % TicksPeriod
  /\ ~reported => sampled_since > 0 /\ sampled_since >= reported_at

\* Nothing but a pass touches the time and what the samples have left.
NoPass == UNCHANGED <<now, button, sampled_since, reported_at>>

LEMMA OnlyPasses ==
  ASSUME WaterMoves \/ ButtonMoves \/ WiringChanges \/ BrokerMoves
           \/ UNCHANGED vars
  PROVE  NoPass
  BY Zenon DEF WaterMoves, ButtonMoves, WiringChanges, BrokerMoves, vars,
     history, buttonHistory, NoPass

LEMMA PassTime ==
  ASSUME {now} \subseteq Int, Pass
  PROVE  {now'} \subseteq Int /\ now <= now' /\ now' <= now + LongestPass
<1>1. PICK gap \in PassGaps : now' = now + gap
  BY DEF Pass
<1>2. gap \in Int /\ 0 <= gap /\ gap <= LongestPass /\ LongestPass \in Int
  BY PassAssumption
<1>3. now \in Int
  OBVIOUS
<1> QED
  BY <1>1, <1>2, <1>3

\* What a pass makes of the button.
LEMMA PassButton ==
  ASSUME Pass
  PROVE  /\ down' = down /\ button_raw' = down
         /\ down_since' = down_since
         /\ button_edge' = IF down # button_raw THEN Ticks' ELSE button_edge
         /\ sampled_since' = IF down # button_raw THEN now' ELSE sampled_since
         /\ pressed' = (Settled /\ down /\ Unreported)
         /\ reported' = (~Unreported \/ pressed')
         /\ reported_at' = IF pressed' THEN now' ELSE reported_at
  BY Zenon DEF Pass, CheckButton, IsPressed, Press

\* The debounce time is over at most as soon as it is on a clock that does
\* not wrap around.
LEMMA SettledLate ==
  ASSUME EdgeInv, Pass, Settled, sampled_since' > 0
  PROVE  now' - sampled_since' >= ButtonDebounce
<1>1. {now'} \subseteq Int /\ now <= now'
  BY PassTime DEF EdgeInv
<1> DEFINE s == sampled_since'
           t == now'
<1>2. s \in Int /\ t \in Int /\ s <= t
  BY <1>1, PassButton DEF EdgeInv
<1>3. (IF down # button_raw THEN Ticks' ELSE button_edge) = s % TicksPeriod
  BY PassButton DEF EdgeInv, Ticks
<1>4. TicksDiff(t % TicksPeriod, s % TicksPeriod) >= ButtonDebounce
  BY <1>3, Zenon DEF Settled, Ticks
<1> DEFINE diff == TicksDiff(t % TicksPeriod, s % TicksPeriod)
<1>5. diff <= t - s
  BY <1>2, DiffBelow
<1>6. diff \in Int
  <2>1. diff = ((t - s + Half) % TicksPeriod) - Half
    BY <1>2, DiffOfTicks
  <2>2. ((t - s + Half) % TicksPeriod) \in Int
    BY <1>2, HalfFacts, RemainderBounds
  <2> QED
    BY <2>1, <2>2, HalfFacts
<1>7. diff >= ButtonDebounce /\ ButtonDebounce \in Int
  BY <1>4, ButtonAssumption
<1> HIDE DEF diff, s, t
<1>8. t - s >= ButtonDebounce
  BY <1>2, <1>5, <1>6, <1>7
<1> QED
  BY <1>8 DEF s, t

LEMMA EdgeStep ==
  ASSUME EdgeInv, [Next]_vars
  PROVE  EdgeInv'
<1>1. CASE NoPass /\ down' \in BOOLEAN
  BY <1>1 DEF NoPass, button, EdgeInv
<1>2. CASE Pass
  <2>1. {now'} \subseteq Int /\ now <= now'
    BY <1>2, PassTime DEF EdgeInv
  <2>2. /\ {now', sampled_since', reported_at'} \subseteq Int
        /\ 0 < now'
        /\ 0 <= sampled_since' /\ sampled_since' <= now'
        /\ reported_at' <= now'
    BY <1>2, <2>1, PassButton DEF EdgeInv
  <2>3. {down', button_raw', reported'} \subseteq BOOLEAN
    BY <1>2, PassButton, Zenon DEF EdgeInv, Unreported
  <2>4. sampled_since' > 0 => button_edge' = sampled_since' % TicksPeriod
    BY <1>2, PassButton DEF EdgeInv, Ticks
  <2>5. ~reported' => sampled_since' > 0 /\ sampled_since' >= reported_at'
    <3>1. CASE reported'
      BY <3>1
    <3>2. CASE ~reported'
      <4>1. ~pressed' /\ (down # button_raw \/ ~reported)
        BY <1>2, <3>2, PassButton, Zenon DEF Unreported
      <4>2. reported_at' = reported_at
        BY <1>2, <4>1, PassButton, Zenon
      <4>3. CASE down # button_raw
        <5>1. sampled_since' = now'
          BY <1>2, <4>3, PassButton, Zenon
        <5> QED
          BY <2>1, <2>2, <4>2, <5>1 DEF EdgeInv
      <4>4. CASE ~(down # button_raw)
        <5>1. sampled_since' = sampled_since
          BY <1>2, <4>4, PassButton, Zenon
        <5> QED
          BY <4>1, <4>2, <4>4, <5>1, Zenon DEF EdgeInv
      <4> QED
        BY <4>3, <4>4
    <3> QED
      BY <3>1, <3>2
  <2> QED
    BY <2>2, <2>3, <2>4, <2>5 DEF EdgeInv
<1>3. ASSUME ~Pass
      PROVE  NoPass /\ down' \in BOOLEAN
  <2>1. WaterMoves \/ ButtonMoves \/ WiringChanges \/ BrokerMoves
          \/ UNCHANGED vars
    BY <1>3 DEF Next
  <2>2. down' \in BOOLEAN
    BY <2>1, Zenon DEF WaterMoves, ButtonMoves, WiringChanges, BrokerMoves,
       vars, EdgeInv
  <2> QED
    BY <2>1, <2>2, OnlyPasses
<1> QED
  BY <1>1, <1>2, <1>3

LEMMA EdgeInvariant == Spec => []EdgeInv
<1>1. Init => EdgeInv
  BY DEF Init, ButtonInit, EdgeInv
<1>2. EdgeInv /\ [Next]_vars => EdgeInv'
  BY EdgeStep
<1> QED
  BY <1>1, <1>2, PTL DEF Spec

\* What is reported is a press that the samples have shown for the debounce
\* time, and a new one: no wrap of the ticks makes it sooner.
THEOREM RealPressesHold == Spec => OnlyRealPresses
<1>1. EdgeInv =>
        (pressed' /\ Pass =>
           /\ down
           /\ now' - sampled_since' >= ButtonDebounce
           /\ sampled_since' > 0
           /\ sampled_since' >= reported_at)
  <2> SUFFICES ASSUME EdgeInv, pressed', Pass
               PROVE  /\ down
                      /\ now' - sampled_since' >= ButtonDebounce
                      /\ sampled_since' > 0
                      /\ sampled_since' >= reported_at
    OBVIOUS
  <2>1. Settled /\ down /\ (down # button_raw \/ ~reported)
    BY PassButton, Zenon DEF Unreported
  <2>2. sampled_since' > 0 /\ sampled_since' >= reported_at
    <3>1. {now'} \subseteq Int /\ now <= now'
      BY PassTime DEF EdgeInv
    <3>2. CASE down # button_raw
      <4>1. sampled_since' = now'
        BY <3>2, PassButton, Zenon
      <4> QED
        BY <3>1, <4>1 DEF EdgeInv
    <3>3. CASE ~(down # button_raw)
      <4>1. sampled_since' = sampled_since
        BY <3>3, PassButton, Zenon
      <4> QED
        BY <2>1, <3>3, <4>1, Zenon DEF EdgeInv
    <3> QED
      BY <3>2, <3>3
  <2> QED
    BY <2>1, <2>2, SettledLate
<1> QED
  BY <1>1, EdgeInvariant, PTL DEF Spec, OnlyRealPresses

\* Passes and the debounce time are short against the tick counter.
ShortPress == 0 < ButtonDebounce /\ LongestPass + ButtonDebounce <= Half

\* A button that goes down is sampled before time goes on; from then on the
\* press is either reported or younger than the debounce time.
PressInv ==
  /\ {down_since} \subseteq Int
  /\ 0 <= down_since /\ down_since <= now
  /\ down /\ ~button_raw => down_since = now
  /\ button_raw /\ down_since > 0 =>
       /\ down_since <= sampled_since
       /\ sampled_since <= down_since + LongestPass
       /\ reported => reported_at > down_since
       /\ ~reported => now - sampled_since < ButtonDebounce

LEMMA PressPass ==
  ASSUME ShortPress, EdgeInv, EdgeInv', PressInv, Pass
  PROVE  PressInv'
<1>1. LongestPass \in Int /\ ButtonDebounce \in Int /\ Half \in Int
  BY PassAssumption, ButtonAssumption, HalfFacts
<1>2. {now'} \subseteq Int /\ now <= now' /\ now' <= now + LongestPass
  BY PassTime DEF EdgeInv
<1>3. /\ down_since' = down_since
      /\ button_raw' = down /\ down' = down
  BY PassButton
<1>4. /\ {down_since'} \subseteq Int
      /\ 0 <= down_since' /\ down_since' <= now'
      /\ ~(down' /\ ~button_raw')
  BY <1>2, <1>3 DEF PressInv, EdgeInv
<1>5. ASSUME down, down_since > 0
      PROVE  /\ down_since <= sampled_since'
             /\ sampled_since' <= down_since + LongestPass
             /\ reported' => reported_at' > down_since
             /\ ~reported' => now' - sampled_since' < ButtonDebounce
  <2>1. CASE ~button_raw
    <3>1. sampled_since' = now' /\ down_since = now
      BY <1>5, <2>1, PassButton, Zenon DEF PressInv
    <3>2. ~Settled
      <4> DEFINE t == now'
      <4>1. t \in Int
        BY <1>2
      <4> HIDE DEF t
      <4>2. 0 <= Half /\ 0 < Half
        BY <1>1, PassAssumption DEF ShortPress
      <4>3. TicksDiff(t % TicksPeriod, t % TicksPeriod) = t - t
        BY <4>1, <4>2, DiffExact
      <4>4. TicksDiff(t % TicksPeriod, t % TicksPeriod) = 0
        BY <4>1, <4>3
      <4>5. Settled <=> TicksDiff(t % TicksPeriod, t % TicksPeriod)
                          >= ButtonDebounce
        BY <1>5, <2>1, Zenon DEF Settled, Ticks, t
      <4> QED
        BY <1>1, <4>4, <4>5 DEF ShortPress
    <3>3. ~reported'
      BY <1>5, <2>1, <3>2, PassButton, Zenon DEF Unreported
    <3>4. now' - sampled_since' < ButtonDebounce
      BY <1>1, <1>2, <3>1 DEF ShortPress
    <3> QED
      BY <1>1, <1>2, <3>1, <3>3, <3>4 DEF EdgeInv
  <2>2. CASE button_raw
    <3>1. sampled_since' = sampled_since
      <4>1. ~(down # button_raw)
        BY <1>5, <2>2 DEF EdgeInv
      <4> QED
        BY <4>1, PassButton, Zenon
    <3>2. /\ down_since <= sampled_since'
          /\ sampled_since' <= down_since + LongestPass
      BY <1>5, <2>2, <3>1, Zenon DEF PressInv
    <3>3. sampled_since' > 0
      BY <1>5, <3>2 DEF EdgeInv, PressInv
    <3>4. CASE reported
      <4>1. ~Unreported
        BY <1>5, <2>2, <3>4 DEF Unreported, EdgeInv
      <4>2. reported' /\ reported_at' = reported_at
        BY <4>1, PassButton, Zenon
      <4> QED
        BY <1>5, <2>2, <3>2, <3>4, <4>2, Zenon DEF PressInv
    <3>5. CASE ~reported /\ Settled
      <4>1. reported' /\ reported_at' = now'
        BY <1>5, <3>5, PassButton, Zenon DEF Unreported
      <4>2. now' - sampled_since' >= ButtonDebounce
        BY <3>3, <3>5, SettledLate
      <4>3. now' > down_since
        BY <1>1, <1>2, <3>1, <3>2, <4>2 DEF ShortPress, EdgeInv, PressInv
      <4> QED
        BY <3>2, <4>1, <4>3
    <3>6. CASE ~reported /\ ~Settled
      <4>1. ~reported'
        BY <3>6, PassButton, Zenon DEF Unreported
      <4> DEFINE t == now'
                 b == sampled_since
      <4>2. now - b < ButtonDebounce /\ b <= now
        BY <1>5, <2>2, <3>6, Zenon DEF PressInv, EdgeInv
      <4>3. b \in Int /\ t \in Int /\ b <= t /\ t - b < Half
        BY <1>1, <1>2, <4>2 DEF ShortPress, EdgeInv
      <4>4. TicksDiff(t % TicksPeriod, b % TicksPeriod) = t - b
        <5> HIDE DEF t, b
        <5>1. b - t <= Half
          BY <4>3, HalfFacts
        <5> QED
          BY <4>3, <5>1, DiffExact
      <4>5. button_edge = b % TicksPeriod /\ ~(down # button_raw)
        BY <1>5, <2>2, <3>1, <3>3 DEF EdgeInv
      <4>6. Settled <=> TicksDiff(t % TicksPeriod, b % TicksPeriod)
                          >= ButtonDebounce
        BY <4>5, Zenon DEF Settled, Ticks
      <4>7. ~(t - b >= ButtonDebounce)
        BY <3>6, <4>4, <4>6
      <4>8. t - b < ButtonDebounce
        <5> HIDE DEF t, b
        <5> QED
          BY <1>1, <4>3, <4>7
      <4> QED
        BY <3>1, <3>2, <4>1, <4>8
    <3> QED
      BY <3>4, <3>5, <3>6
  <2> QED
    BY <2>1, <2>2
<1> QED
  BY <1>3, <1>4, <1>5, Zenon DEF PressInv

LEMMA PressStep ==
  ASSUME ShortPress, EdgeInv, EdgeInv', PressInv, [Next]_vars
  PROVE  PressInv'
<1>1. CASE Pass
  BY <1>1, PressPass
<1>2. CASE ButtonMoves
  <2>1. NoPass
    BY <1>2, OnlyPasses
  <2>2. down_since' = IF down' /\ ~button_raw THEN now ELSE down_since
    BY <1>2, Zenon DEF ButtonMoves
  <2>3. /\ UNCHANGED now /\ UNCHANGED button_raw
        /\ UNCHANGED sampled_since /\ UNCHANGED reported_at
        /\ UNCHANGED reported
    BY <2>1, Zenon DEF NoPass, button
  <2>4. CASE button_raw
    <3>1. down_since' = down_since /\ button_raw'
      BY <2>2, <2>3, <2>4, Zenon
    <3> QED
      BY <2>3, <2>4, <3>1, Zenon DEF PressInv
  <2>5. CASE ~button_raw
    <3>1. ~button_raw' /\ down_since' \in {now', down_since}
            /\ (down' => down_since' = now')
      BY <2>2, <2>3, <2>5, Zenon
    <3> QED
      BY <2>3, <3>1 DEF PressInv, EdgeInv
  <2> QED
    BY <2>4, <2>5
<1>3. CASE WaterMoves \/ WiringChanges \/ BrokerMoves \/ UNCHANGED vars
  <2>1. NoPass
    BY <1>3, OnlyPasses
  <2>2. UNCHANGED down_since /\ UNCHANGED down
    BY <1>3, Zenon DEF WaterMoves, WiringChanges, BrokerMoves, vars, history,
       buttonHistory
  <2>3. /\ UNCHANGED now /\ UNCHANGED button_raw
        /\ UNCHANGED sampled_since /\ UNCHANGED reported_at
        /\ UNCHANGED reported
    BY <2>1, Zenon DEF NoPass, button
  <2> QED
    BY <2>2, <2>3, Zenon DEF PressInv
<1> QED
  BY <1>1, <1>2, <1>3 DEF Next

\* No press of some length is missed, at any time of the tick counter.
THEOREM PressesHold ==
  ASSUME ShortPress
  PROVE  Spec => []PressNoticed
<1>1. Init => PressInv
  BY DEF Init, ButtonInit, PressInv
<1>2. EdgeInv /\ EdgeInv' /\ PressInv /\ [Next]_vars => PressInv'
  BY PressStep
<1>3. EdgeInv /\ PressInv => PressNoticed
  <2> SUFFICES ASSUME EdgeInv, PressInv, down, down_since > 0,
                      now - down_since > 2 * LongestPass + ButtonDebounce
               PROVE  reported_at > down_since
    BY DEF PressNoticed
  <2>1. LongestPass \in Int /\ LongestPass >= 0 /\ ButtonDebounce \in Int
          /\ 0 < ButtonDebounce
    BY PassAssumption, ButtonAssumption DEF ShortPress
  <2>2. now \in Int /\ down_since \in Int /\ sampled_since \in Int
    BY DEF EdgeInv, PressInv
  <2>3. button_raw
    BY <2>1, <2>2 DEF PressInv
  <2>4. reported
    <3>1. sampled_since <= down_since + LongestPass
      BY <2>3 DEF PressInv
    <3>2. ~(now - sampled_since < ButtonDebounce)
      BY <2>1, <2>2, <3>1
    <3> QED
      BY <2>3, <3>2, Zenon DEF PressInv
  <2> QED
    BY <2>3, <2>4, Zenon DEF PressInv
<1> QED
  BY <1>1, <1>2, <1>3, EdgeInvariant, PTL DEF Spec

-----------------------------------------------------------------------------
(* The status LED.                                                          *)

\* Steps last some time; steps and passes are short against the tick counter.
ShortSteps ==
  /\ \A name \in Patterns, on \in BOOLEAN :
       Length(name, on) > 0 /\ Length(name, on) <= Half
  /\ 2 * LongestPass < Half

\* The tick that the code keeps is the one at which the step shown is over.
LedInv ==
  /\ {now, step_since} \subseteq Int
  /\ step_since <= now
  /\ pattern \in Patterns
  /\ lit \in BOOLEAN
  /\ next_step = (step_since + Length(pattern, lit)) % TicksPeriod
  /\ LedBlinks

LEMMA LengthType ==
  ASSUME NEW name \in Patterns, NEW on \in BOOLEAN
  PROVE  Length(name, on) \in Int
  BY StepTimeAssumption DEF Length

\* ticks_add gives the tick of the later time.
LEMMA AddedTicks ==
  ASSUME NEW t \in Int, NEW delta \in Int
  PROVE  TicksAdd(t % TicksPeriod, delta) = (t + delta) % TicksPeriod
<1> DEFINE p == TicksPeriod
           r == t % p
           q == t \div p
<1>1. p \in Int /\ p > 0
  BY HalfFacts
<1>2. r \in Int /\ q \in Int
  BY <1>1, RemainderBounds, QuotientType
<1>3. p * q + r = t
  BY <1>1, QuotientRemainder
<1>4. TicksAdd(r, delta) = (r + delta) % p
  BY DEF TicksAdd
<1> HIDE DEF p, r, q
<1>5. (r + delta) + p * q = t + delta
  BY <1>1, <1>2, <1>3, Z3
<1>6. ((r + delta) + p * q) % p = (r + delta) % p
  BY <1>1, <1>2, RemainderShift
<1> QED
  BY <1>4, <1>5, <1>6 DEF p, r

LEMMA LedStarts ==
  ASSUME ShortSteps, {now', step_since'} \subseteq Int, step_since' = now',
         pattern' \in Patterns, lit' \in BOOLEAN,
         next_step' = TicksAdd(Ticks', Length(pattern', lit'))
  PROVE  LedInv'
<1> DEFINE t == now'
           l == Length(pattern', lit')
<1>1. t \in Int /\ l \in Int /\ l > 0
  <2>1. l \in Int
    BY LengthType
  <2>2. l > 0
    BY Zenon DEF ShortSteps
  <2> QED
    BY <2>1, <2>2
<1>2. next_step' = TicksAdd(t % TicksPeriod, l)
  BY Zenon DEF Ticks
<1>3. next_step' = (t + l) % TicksPeriod
  <2> HIDE DEF t, l
  <2> QED
    BY <1>1, <1>2, AddedTicks
<1>4. t - t < l + LongestPass
  <2> HIDE DEF t, l
  <2> QED
    BY <1>1, PassAssumption
<1>5. LedBlinks'
  BY <1>4, Zenon DEF LedBlinks, Length
<1>6. step_since' <= now'
  BY <1>1
<1>7. next_step' = (step_since' + l) % TicksPeriod
  BY <1>3, Zenon
<1> QED
  BY <1>5, <1>6, <1>7, Zenon DEF LedInv, Length

LEMMA ChosenType ==
  ASSUME NEW fault
  PROVE  ChosenPattern(fault) \in Patterns
<1> DEFINE chosen == ChosenPattern(fault)
           missing == fault \/ enclosure_sensor_missing'
<1>1. CASE critical_error'
  BY <1>1 DEF ChosenPattern, Patterns
<1>2. CASE ~critical_error' /\ missing
  BY <1>2 DEF ChosenPattern, Patterns
<1>3. CASE ~critical_error' /\ ~missing /\ ~mqtt_connected'
  BY <1>3 DEF ChosenPattern, Patterns
<1>4. CASE ~critical_error' /\ ~missing /\ mqtt_connected'
  BY <1>4 DEF ChosenPattern, Patterns
<1> QED
  BY <1>1, <1>2, <1>3, <1>4

\* While the step is not over, the tick difference tells how long it lasts.
LEMMA NotOver ==
  ASSUME ShortSteps, LedInv, now' \in Int, now <= now',
         now' <= now + LongestPass, ~StepOver
  PROVE  now' - step_since < Length(pattern, lit)
<1> DEFINE t == now'
           l == Length(pattern, lit)
           u == step_since + l
<1>1. /\ t \in Int
      /\ l \in Int
      /\ step_since \in Int
      /\ now \in Int
      /\ LongestPass \in Int /\ LongestPass >= 0
      /\ Half \in Int
  BY LengthType, HalfFacts, PassAssumption DEF LedInv
<1>2. l > 0 /\ l <= Half /\ 2 * LongestPass < Half
  <2>1. pattern \in Patterns /\ lit \in BOOLEAN
    BY DEF LedInv
  <2> QED
    BY <2>1, Zenon DEF ShortSteps
<1>3. now - step_since < l + LongestPass
  BY Zenon DEF LedInv, LedBlinks, Length
<1>4. u \in Int /\ t - u >= 0 - Half /\ t - u < Half
  <2>1. step_since <= now
    BY DEF LedInv
  <2>2. now <= t /\ t <= now + LongestPass
    OBVIOUS
  <2> HIDE DEF l, t
  <2> QED
    BY <1>1, <1>2, <1>3, <2>1, <2>2
<1>5. next_step = u % TicksPeriod
  BY Zenon DEF LedInv
<1>6. ~(TicksDiff(t % TicksPeriod, u % TicksPeriod) >= 0)
  BY <1>5, Zenon DEF StepOver, Ticks
<1> HIDE DEF t, u
<1>7. TicksDiff(t % TicksPeriod, u % TicksPeriod) = t - u
  BY <1>1, <1>4, DiffExact
<1>8. t - u < 0
  BY <1>1, <1>4, <1>6, <1>7
<1> QED
  BY <1>1, <1>8 DEF t, u

LEMMA LedPass ==
  ASSUME ShortSteps, EdgeInv', LedInv, Pass
  PROVE  LedInv'
<1> DEFINE fault == ~sensors_ok' \/ disconnected_sensors' # {}
           chosen == ChosenPattern(fault)
<1>1. /\ {now, step_since} \subseteq Int
      /\ step_since <= now
      /\ pattern \in Patterns
      /\ lit \in BOOLEAN
  BY DEF LedInv
<1>2. PICK gap \in PassGaps : now' = now + gap
  BY DEF Pass
<1>3. /\ {gap, now, now'} \subseteq Int
      /\ now <= now'
      /\ now' <= now + LongestPass
  BY <1>1, <1>2, PassAssumption
<1>4. step_since' = IF led' = led THEN step_since ELSE now'
  BY Zenon DEF Pass
<1>5. UpdateLed(fault)
  BY Zenon DEF Pass
<1>6. CASE chosen # pattern
  <2>1. SetPattern(chosen)
    BY <1>5, <1>6, Zenon DEF UpdateLed
  <2>2. /\ pattern' = chosen
        /\ lit' = TRUE
        /\ next_step' = TicksAdd(Ticks', Length(pattern', lit'))
    BY <2>1, Zenon DEF SetPattern
  <2>3. led' # led
    BY <1>6, <2>2 DEF led
  <2>4. step_since' = now'
    BY <1>4, <2>3, Zenon
  <2>5. pattern' \in Patterns /\ lit' \in BOOLEAN
    BY <2>2, ChosenType
  <2>6. {now', step_since'} \subseteq Int
    BY <1>3, <2>4
  <2> QED
    BY <2>2, <2>4, <2>5, <2>6, LedStarts
<1>7. CASE chosen = pattern /\ StepOver
  <2>1. Blink
    BY <1>5, <1>7, Zenon DEF UpdateLed
  <2>2. /\ pattern' = pattern
        /\ lit' = ~lit
        /\ next_step' = TicksAdd(Ticks', Length(pattern', lit'))
    BY <2>1, Zenon DEF Blink
  <2>3. led' # led
    <3>1. lit' # lit
      BY <1>1, <2>2
    <3> QED
      BY <3>1 DEF led
  <2>4. step_since' = now'
    BY <1>4, <2>3, Zenon
  <2>5. pattern' \in Patterns /\ lit' \in BOOLEAN
    BY <1>1, <2>2
  <2>6. {now', step_since'} \subseteq Int
    BY <1>3, <2>4
  <2> QED
    BY <2>2, <2>4, <2>5, <2>6, LedStarts
<1>8. CASE chosen = pattern /\ ~StepOver
  <2>1. UNCHANGED led
    BY <1>5, <1>8, Zenon DEF UpdateLed
  <2>2. pattern' = pattern /\ lit' = lit /\ next_step' = next_step
    BY <2>1 DEF led
  <2>3. step_since' = step_since
    BY <1>4, <2>1, Zenon
  <2>4. now' \in Int
    BY <1>3
  <2>5. now' - step_since < Length(pattern, lit)
    BY <1>3, <1>8, <2>4, NotOver
  <2>6. now' - step_since < Length(pattern, lit) + LongestPass
    <3>1. Length(pattern, lit) \in Int
      BY <1>1, LengthType
    <3>2. {now', step_since} \subseteq Int
      BY <1>1, <1>3
    <3> HIDE DEF fault
    <3> QED
      BY <2>5, <3>1, <3>2, PassAssumption
  <2>7. LedBlinks'
    BY <2>2, <2>3, <2>6, Zenon DEF LedBlinks, Length
  <2>8. {now', step_since'} \subseteq Int /\ step_since' <= now'
    BY <1>1, <1>3, <2>3
  <2>9. next_step' = (step_since' + Length(pattern', lit')) % TicksPeriod
    BY <2>2, <2>3, Zenon DEF LedInv
  <2>10. pattern' \in Patterns /\ lit' \in BOOLEAN
    BY <1>1, <2>2
  <2> QED
    BY <2>7, <2>8, <2>9, <2>10, Zenon DEF LedInv, Length
<1> QED
  BY <1>6, <1>7, <1>8, Zenon

\* No step of the LED outlasts its time by more than a pass, at any time of
\* the tick counter.
THEOREM LedBlinksHolds ==
  ASSUME ShortSteps
  PROVE  Spec => []LedBlinks
<1>1. Init => LedInv
  <2> SUFFICES ASSUME Init
               PROVE  LedInv
    OBVIOUS
  <2> DEFINE l == Length("ok", TRUE)
  <2>1. now = 1 /\ step_since = 1 /\ pattern = "ok" /\ lit = TRUE
    BY DEF Init, LedInit
  <2>2. "ok" \in Patterns
    BY DEF Patterns
  <2>3. l \in Int
    BY <2>2, LengthType
  <2>4. l > 0
    BY <2>2, Zenon DEF ShortSteps
  <2>5. next_step = TicksAdd(1 % TicksPeriod, l)
    BY <2>1, Zenon DEF Init, LedInit, Ticks
  <2>6. next_step = (1 + l) % TicksPeriod
    <3> HIDE DEF l
    <3> QED
      BY <2>3, <2>5, AddedTicks
  <2>7. 1 - 1 < l + LongestPass
    <3> HIDE DEF l
    <3> QED
      BY <2>3, <2>4, PassAssumption
  <2>8. LedBlinks
    BY <2>1, <2>7, Zenon DEF LedBlinks, Length
  <2>9. {now, step_since} \subseteq Int /\ step_since <= now
    BY <2>1
  <2> QED
    BY <2>1, <2>2, <2>6, <2>8, <2>9 DEF LedInv, Length
<1>2. EdgeInv' /\ LedInv /\ [Next]_vars => LedInv'
  <2> SUFFICES ASSUME EdgeInv', LedInv, [Next]_vars
               PROVE  LedInv'
    OBVIOUS
  <2>1. CASE Pass
    BY <2>1, LedPass
  <2>2. CASE WaterMoves \/ ButtonMoves \/ WiringChanges \/ BrokerMoves
               \/ UNCHANGED vars
    <3>1. /\ UNCHANGED now
          /\ UNCHANGED led
          /\ UNCHANGED step_since
      BY <2>2, Zenon DEF WaterMoves, ButtonMoves, WiringChanges, BrokerMoves,
         vars, history
    <3>2. UNCHANGED pattern /\ UNCHANGED lit /\ UNCHANGED next_step
      BY <3>1 DEF led
    <3> QED
      BY <3>1, <3>2, Zenon DEF LedInv, LedBlinks, Length
  <2> QED
    BY <2>1, <2>2 DEF Next
<1>3. LedInv => LedBlinks
  BY DEF LedInv
<1> QED
  BY <1>1, <1>2, <1>3, EdgeInvariant, PTL DEF Spec

-----------------------------------------------------------------------------
(* Types.                                                                   *)

LEMMA TicksType ==
  ASSUME NEW time \in Int
  PROVE  time % TicksPeriod \in 0..(TicksPeriod - 1)
<1> DEFINE p == TicksPeriod
<1>1. p \in Int /\ p > 0
  BY HalfFacts
<1> HIDE DEF p
<1>2. time % p \in 0..(p - 1)
  BY <1>1
<1> QED
  BY <1>2 DEF p

LEMMA AddType ==
  ASSUME NEW t \in Int, NEW delta \in Int
  PROVE  TicksAdd(t, delta) \in 0..(TicksPeriod - 1)
  BY TicksType DEF TicksAdd

\* The type invariant by parts.
LevelTypes ==
  /\ LevelType
  /\ {wet_since, same_since, agreed_at, settled_at} \subseteq Nat
  /\ agreed \in BOOLEAN
ButtonTypes ==
  /\ ButtonType
  /\ {down_since, sampled_since, reported_at} \subseteq Nat
WiresTypes ==
  /\ TemperatureType
  /\ unwired_since \in [Roms -> MaybeTimes]
  /\ lost \in BOOLEAN
LedTypes == LedType /\ {step_since} \subseteq Nat

LEMMA TypeParts ==
  TypeOK <=> /\ {now} \subseteq Nat /\ {last_sensor_read} \subseteq Int
             /\ LevelTypes /\ ButtonTypes /\ WiresTypes /\ LedTypes
  BY DEF TypeOK, LevelTypes, ButtonTypes, WiresTypes, LedTypes

LEMMA InitTypes == Init => TypeOK
<1> SUFFICES ASSUME Init PROVE TypeOK
  OBVIOUS
<1>1. now = 1 /\ Ticks \in 0..(TicksPeriod - 1) /\ last_sensor_read \in Int
  BY TicksType, PassAssumption DEF Init, Ticks
<1>2. LevelTypes
  BY <1>1 DEF Init, LevelInit, LevelType, LevelTypes, TickValues
<1>3. ButtonTypes
  <2>1. /\ down \in BOOLEAN /\ button_raw = down /\ button_edge = Ticks
        /\ reported = TRUE /\ pressed = FALSE
        /\ down_since = 0 /\ sampled_since = 0 /\ reported_at = 0
    BY DEF Init, ButtonInit
  <2>2. ButtonType
    BY <1>1, <2>1, Zenon DEF ButtonType
  <2>3. {down_since, sampled_since, reported_at} \subseteq Nat
    BY <2>1
  <2> QED
    BY <2>2, <2>3 DEF ButtonTypes
<1>4. WiresTypes
  <2>1. /\ wired \in SUBSET Roms
        /\ converted = [r \in Roms |-> IF r \in wired THEN now ELSE PowerOn]
        /\ roms = wired
        /\ conversion_started = IF wired = {} THEN NoTime ELSE Ticks
        /\ temps = [l \in Labels |-> NoTime]
        /\ disconnected_sensors = {} /\ sensors_ok = FALSE
    BY DEF Init, TemperatureInit
  <2>2. /\ unwired_since = [r \in Roms |-> IF r \in wired THEN NoTime ELSE now]
        /\ lost = (wired = {})
    BY Zenon DEF Init
  <2>3. TemperatureType
    BY <1>1, <2>1 DEF TemperatureType, Readings, MaybeTimes
  <2>4. unwired_since \in [Roms -> MaybeTimes] /\ lost \in BOOLEAN
    BY <1>1, <2>2 DEF MaybeTimes
  <2> QED
    BY <2>3, <2>4 DEF WiresTypes
<1>5. LedTypes
  <2>1. Length("ok", TRUE) \in Int
    BY LengthType DEF Patterns
  <2>2. Ticks \in Int
    BY <1>1, HalfFacts
  <2>3. TicksAdd(Ticks, Length("ok", TRUE)) \in 0..(TicksPeriod - 1)
    BY <2>1, <2>2, AddType
  <2>4. /\ critical_error = FALSE /\ enclosure_sensor_missing = FALSE
        /\ mqtt_connected \in BOOLEAN /\ pattern = "ok" /\ lit = TRUE
        /\ next_step = TicksAdd(Ticks, Length("ok", TRUE))
        /\ step_since = 1
    BY <1>1 DEF Init, LedInit
  <2>5. "ok" \in Patterns
    BY DEF Patterns
  <2>6. LedType
    BY <2>3, <2>4, <2>5, Zenon DEF LedType
  <2>7. {step_since} \subseteq Nat
    BY <2>4
  <2> QED
    BY <2>6, <2>7 DEF LedTypes
<1> QED
  BY <1>1, <1>2, <1>3, <1>4, <1>5, TypeParts

LEMMA WorldTypes ==
  ASSUME TypeOK, WaterMoves \/ ButtonMoves \/ WiringChanges \/ BrokerMoves
                   \/ UNCHANGED vars
  PROVE  TypeOK'
<1>1. CASE WaterMoves
  BY <1>1 DEF WaterMoves, TypeOK, LevelType, ButtonType, TemperatureType,
     LedType, level, button, bus, temperature, flags, led, buttonHistory,
     wiringHistory
<1>2. CASE ButtonMoves
  BY <1>2 DEF ButtonMoves, TypeOK, LevelType, ButtonType, TemperatureType,
     LedType, level, button, bus, temperature, flags, led, levelHistory,
     wiringHistory
<1>3. CASE WiringChanges
  <2>1. wired' \subseteq Roms
    BY <1>3 DEF WiringChanges, TypeOK, TemperatureType
  <2>2. unwired_since' \in [Roms -> MaybeTimes]
    BY <1>3 DEF WiringChanges, TypeOK, MaybeTimes
  <2>3. converted' \in [Roms -> Nat \cup {PowerOn}]
    BY <1>3 DEF WiringChanges, TypeOK, TemperatureType
  <2> QED
    BY <1>3, <2>1, <2>2, <2>3 DEF WiringChanges, TypeOK, LevelType, ButtonType,
       TemperatureType, LedType, level, button, bus, temperature, flags, led,
       levelHistory, buttonHistory
<1>4. CASE BrokerMoves
  BY <1>4 DEF BrokerMoves, TypeOK, LevelType, ButtonType, TemperatureType,
     LedType, level, button, bus, temperature, flags, led, history,
     levelHistory, buttonHistory, wiringHistory
<1>5. CASE UNCHANGED vars
  BY <1>5 DEF vars, TypeOK, LevelType, ButtonType, TemperatureType,
     LedType, level, button, bus, temperature, flags, led, history,
     levelHistory, buttonHistory, wiringHistory
<1> QED
  BY <1>1, <1>2, <1>3, <1>4, <1>5

\* What a read makes of the level.
LEMMA LevelRead ==
  ASSUME TypeOK, Pass, {now'} \subseteq Nat, Ticks' \in 0..(TicksPeriod - 1)
  PROVE  LevelTypes'
<1>1. CASE ReadSensors
  <2>1. /\ wet' = wet /\ level_raw' = wet
        /\ level_edge' \in {level_edge, Ticks'}
        /\ stable_since' \in {stable_since, Ticks'}
        /\ level_stable' \in {level_stable, wet}
        /\ water_level_ok' \in {water_level_ok, level_stable'}
    BY <1>1, Zenon DEF ReadSensors, ReadLevel, Debounce, Confirm
  <2>2. /\ wet_since' = wet_since
        /\ same_since' \in {same_since, now'}
        /\ agreed' \in {agreed, wet}
        /\ agreed_at' \in {agreed_at, now'}
        /\ settled_at' \in {settled_at, now'}
    BY <1>1, Zenon DEF ReadSensors, SampleLevel
  <2>3. LevelTypes
    BY TypeParts
  <2>4. LevelType'
    BY <2>1, <2>3 DEF LevelTypes, LevelType, TickValues
  <2>5. {wet_since', same_since', agreed_at', settled_at'} \subseteq Nat
          /\ agreed' \in BOOLEAN
    BY <2>2, <2>3 DEF LevelTypes, LevelType
  <2> QED
    BY <2>4, <2>5 DEF LevelTypes
<1>2. CASE SkipSensors
  BY <1>2, TypeParts DEF SkipSensors, LevelTypes, LevelType, level, levelHistory
<1> QED
  BY <1>1, <1>2, Zenon DEF Pass

LEMMA WiresRead ==
  ASSUME TypeOK, Pass, {now'} \subseteq Nat, Ticks' \in 0..(TicksPeriod - 1)
  PROVE  WiresTypes'
<1>1. WiresTypes
  BY TypeParts
<1>2. CASE ReadSensors
  <2>1. ReadTemperatures /\ unwired_since' = unwired_since
    BY <1>2, Zenon DEF ReadSensors
  <2>2. wired' = wired /\ roms' = roms
    BY <2>1, Zenon DEF ReadTemperatures
  <2>3. lost' \in BOOLEAN
    BY <1>1, <1>2 DEF ReadSensors, WiresTypes
  <2>4. CASE StartConversion
    BY <1>1, <2>1, <2>2, <2>3, <2>4
    DEF StartConversion, Measured, WiresTypes, TemperatureType
  <2>5. CASE AwaitConversion
    BY <1>1, <2>1, <2>2, <2>3, <2>5
    DEF AwaitConversion, temperature, WiresTypes, TemperatureType
  <2>6. CASE FetchReadings
    <3>1. /\ temps' = [l \in Labels |-> Read(l)]
          /\ disconnected_sensors' = (roms \ wired) \cup (roms \ Labels)
          /\ sensors_ok' = (disconnected_sensors' = {})
          /\ conversion_started' = NoTime
          /\ converted' = converted
      BY <2>6, Zenon DEF FetchReadings, EndConversion
    <3>2. \A l \in Labels : Read(l) \in MaybeTimes \cup {PowerOn}
      BY <1>1, RomsAssumption DEF Read, WiresTypes, TemperatureType, Readings,
         MaybeTimes
    <3>3. temps' \in [Labels -> Readings]
      BY <3>1, <3>2 DEF Readings
    <3>4. disconnected_sensors' \subseteq roms' /\ sensors_ok' \in BOOLEAN
      BY <2>2, <3>1
    <3> QED
      BY <1>1, <2>1, <2>2, <2>3, <3>1, <3>3, <3>4 DEF WiresTypes, TemperatureType
  <2> QED
    BY <2>1, <2>4, <2>5, <2>6, Zenon DEF ReadTemperatures
<1>3. CASE SkipSensors
  BY <1>1, <1>3 DEF SkipSensors, WiresTypes, TemperatureType, bus, temperature,
     wiringHistory
<1> QED
  BY <1>2, <1>3, Zenon DEF Pass

LEMMA ButtonRead ==
  ASSUME TypeOK, Pass, {now'} \subseteq Nat, Ticks' \in 0..(TicksPeriod - 1)
  PROVE  ButtonTypes'
<1>1. ButtonTypes
  BY TypeParts
<1>2. /\ down' = down /\ button_raw' = down
      /\ down_since' = down_since
      /\ button_edge' \in {Ticks', button_edge}
      /\ sampled_since' \in {now', sampled_since}
      /\ reported_at' \in {now', reported_at}
  BY PassButton, Zenon
<1>3. pressed' \in BOOLEAN /\ reported' \in BOOLEAN
  BY PassButton, Zenon
<1> QED
  BY <1>1, <1>2, <1>3 DEF ButtonTypes, ButtonType

LEMMA LedRead ==
  ASSUME TypeOK, Pass, {now'} \subseteq Nat, Ticks' \in 0..(TicksPeriod - 1)
  PROVE  LedTypes'
<1>1. LedTypes
  BY TypeParts
<1>2. step_since' \in {step_since, now'}
  BY Zenon DEF Pass
<1>3. /\ mqtt_connected' = mqtt_connected
      /\ critical_error' \in {critical_error, TRUE}
      /\ enclosure_sensor_missing' \in
           {enclosure_sensor_missing, EnclosureMissing}
  BY Zenon DEF Pass, Control
<1>4. EnclosureMissing \in BOOLEAN
  <2>1. water_level_ok' \in BOOLEAN
    BY LevelRead DEF LevelTypes, LevelType
  <2> QED
    BY <2>1, Zenon DEF EnclosureMissing
<1> DEFINE fault == ~sensors_ok' \/ disconnected_sensors' # {}
           chosen == ChosenPattern(fault)
<1>5. UpdateLed(fault)
  BY Zenon DEF Pass
<1>6. chosen \in Patterns
  BY ChosenType
<1>7. pattern' \in Patterns /\ lit' \in BOOLEAN
        /\ (next_step' = next_step
              \/ next_step' = TicksAdd(Ticks', Length(pattern', lit')))
  <2>1. pattern \in Patterns /\ lit \in BOOLEAN
    BY <1>1 DEF LedTypes, LedType
  <2>2. CASE chosen # pattern
    <3>1. /\ pattern' = chosen /\ lit' = TRUE
          /\ next_step' = TicksAdd(Ticks', Length(chosen, TRUE))
      BY <1>5, <2>2, Zenon DEF UpdateLed, SetPattern
    <3> QED
      BY <1>6, <3>1, Zenon
  <2>3. CASE chosen = pattern /\ StepOver
    <3>1. /\ pattern' = pattern /\ lit' = ~lit
          /\ next_step' = TicksAdd(Ticks', Length(pattern, lit'))
      BY <1>5, <2>3, Zenon DEF UpdateLed, Blink
    <3> QED
      BY <2>1, <3>1, Zenon
  <2>4. CASE chosen = pattern /\ ~StepOver
    <3>1. led' = led
      BY <1>5, <2>4, Zenon DEF UpdateLed
    <3> QED
      BY <2>1, <3>1 DEF led
  <2> QED
    BY <2>2, <2>3, <2>4, Zenon
<1>8. next_step' \in 0..(TicksPeriod - 1)
  <2>1. Length(pattern', lit') \in Int
    <3> SUFFICES ASSUME NEW name \in Patterns, NEW on \in BOOLEAN
                 PROVE  Length(name, on) \in Int
      BY <1>7
    <3> QED
      BY LengthType
  <2>2. Ticks' \in Int
    BY HalfFacts
  <2>3. TicksAdd(Ticks', Length(pattern', lit')) \in 0..(TicksPeriod - 1)
    BY <2>1, <2>2, AddType
  <2>4. next_step \in 0..(TicksPeriod - 1)
    BY <1>1 DEF LedTypes, LedType
  <2> QED
    BY <1>7, <2>3, <2>4, Zenon
<1> QED
  BY <1>1, <1>2, <1>3, <1>4, <1>7, <1>8 DEF LedTypes, LedType

\* Type correctness, for all delays, intervals, sensors and patterns.
THEOREM TypeCorrect == Spec => []TypeOK
<1>1. TypeOK /\ [Next]_vars => TypeOK'
  <2> SUFFICES ASSUME TypeOK, [Next]_vars PROVE TypeOK'
    OBVIOUS
  <2>1. CASE Pass
    <3>1. {now'} \subseteq Nat
      <4>1. now \in Nat
        BY DEF TypeOK
      <4>2. PICK gap \in PassGaps : now' = now + gap
        BY <2>1 DEF Pass
      <4> QED
        BY <4>1, <4>2, PassAssumption
    <3>2. Ticks' \in 0..(TicksPeriod - 1)
      <4> DEFINE t == now'
      <4>1. t \in Int
        BY <3>1
      <4> HIDE DEF t
      <4>2. t % TicksPeriod \in 0..(TicksPeriod - 1)
        BY <4>1, TicksType
      <4> QED
        BY <4>2 DEF Ticks, t
    <3>3. {last_sensor_read'} \subseteq Int
      <4>1. last_sensor_read' \in {last_sensor_read, now'}
        BY <2>1, Zenon DEF Pass, ReadSensors, SkipSensors
      <4> QED
        BY <3>1, <4>1 DEF TypeOK
    <3>4. LevelTypes' /\ ButtonTypes' /\ WiresTypes' /\ LedTypes'
      BY <2>1, <3>1, <3>2, LevelRead, ButtonRead, WiresRead, LedRead
    <3> QED
      BY <3>1, <3>3, <3>4 DEF TypeOK, LevelTypes, ButtonTypes, WiresTypes,
         LedTypes
  <2>2. CASE ~Pass
    BY <2>2, WorldTypes DEF Next
  <2> QED
    BY <2>1, <2>2
<1> QED
  BY InitTypes, <1>1, PTL DEF Spec
=============================================================================
