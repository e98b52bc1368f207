SPECIFICATION HistorySpec
CONSTANTS
  PumpTestInterval = 2
  PumpTestDuration = 2
  ManualOverrideDuration = 1
  RunRequests = {0, 1, 5}
  ExtendedRunMax = 2
  GateEnabled = TRUE
  GateFallback = 3
  LoopGaps = {1, 2}
  BootTime = 10
  NoTime = NoTime
VIEW AgesView
INVARIANTS
  TypeOK
  ModesExclusive
  TimersMatchModes
  FlagsMeanStopped
  ReasonTellsPump
  StagnationBounded
PROPERTIES
  Interlock
  PumpJustified
  ImplementsPolicy
  RunHonoured
  BoostHonoured
  TestNotEarly
