SPECIFICATION Spec
CONSTANTS
  RateLimit = 1
  QueueMaxsize = 6
  ReconnectInterval = 2
  WatchdogThreshold = 4
  WifiReconnectInterval = 1
  PublishInterval = 3
  PublishIntervalOffHours = 5
  LoopGaps = {0, 1}
  Readings = 1
  BootTime = 10
VIEW AgesView
INVARIANTS
  TypeOK
  FeedsInOrder
  QueueBounded
  DashboardCatchesUp
  OutageBounded
