SPECIFICATION MCSpec
CONSTANTS
  TicksPeriod = 16
  DebounceTime = 1
  WetDelay = 1
  DryDelay = 3
  ButtonDebounce = 1
  Roms = {enclosure, flow, spare}
  Labels = {enclosure, flow}
  Enclosure = enclosure
  ConversionTime = 1
  NoTime = NoTime
  PowerOn = PowerOn
  StepTime <- StepTimes
  SensorReadInterval = 2
  PassGaps = {0, 1, 2}
  LongestPass = 2
  enclosure = enclosure
  flow = flow
  MaxRewirings = 2
  spare = spare
VIEW AgesView
INVARIANTS
  EnclosureLossNoticed
