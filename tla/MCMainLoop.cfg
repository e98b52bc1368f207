SPECIFICATION MCSpec
CONSTANTS
  HourLen = 2
  SensorReadInterval = 2
  PassGaps = {1}
  LongestPass = 1
  RunRequests = {4}
  PowerUps <- Evenings
  MaxBoots = 2
  Never = Never
  Years = {2024, 2025, 2026, 2027, 2028, 2029, 2030}
  Days = {24, 26, 28, 30}
  NightYears = {2024}
  Followed = 96
  Night = 24
VIEW AgesView
INVARIANTS
  TypeOK
  SummerTimeRight
  ClockRight
  ReadGapBounded
  DryStops
PROPERTIES
  ResyncOnce
  RunLength
