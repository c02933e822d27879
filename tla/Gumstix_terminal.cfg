CONSTANTS
  Period = 2
  Interval = 3
  MaxBehind = 3
  MaxLate = 6
  Threshold = 4
  Half = 2
  MaxSpin = 1
  Bound = 3
  Values = {0, 1, 2, 4}
  MedSize = 3
  AvgSize = 3
  MDiff = 1
  Limit = 2
  FirGain = 1
  Scale = 3
  Samples = {0, 1}
  Commands = {0, 2}
  TiltLimit = 1
  PosGain = 2
  OriginalThreshold = 1
  MotorMax = 1
  RevStep = 1
  LiftOff = 1
  Fields = 2
  MaxPackets = 2
  Multiplier = 2
  Attitudes = {1, 2}
  MaxStores = 2
  Ports = {1, 2}
  MaxInbox = 2
  MaxRestarts = 2
  FDs = {1, 2}
  MaxConns = 3
SPECIFICATION AllSpec
INVARIANTS
  AllTypesOK
  
  PositionModeSettles
PROPERTIES
  HeadingFollowsTruth
  FiltersFollow
  SettingsAreKept
  SessionsAreKept
  TerminalIsHeard
CHECK_DEADLOCK FALSE
