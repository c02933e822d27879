CONSTANTS
  m1 = m1
  m2 = m2
  Motors <- TwoMotors
  PwmMax = 4
  MotorDec = 2
  NotifyTicks = 2
  SigMin <- MinusOne
  SigMax = 5
  IntMin <- MinusNine
  IntMax = 8
  Values <- SmallValues
  WireCap = 2
SPECIFICATION FairSpec
INVARIANTS
  TypeOK
  DecrementsStayBounded
  SonarOnlyUnlocked
PROPERTIES
  ImplementsGate
  SilenceStopsRotors
