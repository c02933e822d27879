CONSTANTS
  Samples = {100, 200}
  Near = 15
  ConvRounds = 1
  PacketGap = 4
  MinPhase = 3
  FrameSize = 3
  ImuTxSize = 2
  RequestGap = 3
  LookAlikes = {2}
  MaxLost = 1
  Overhead = 6
  PacketSize = 6
  ParBufSize = 6
  MapsSize = 2
  TempSize = 1
  BattSize = 1
  LineSize = 3
  ErrorSize = 2
  LaserTxSize = 3
  CommandGap = 4
  Addresses = {"a", "b"}
  DefAddress = "a"
  Periods = {1, 2}
  DefPeriod = 2
  RangingTime = 2
  MaxSettings = 1
  LTC24_NUM = 3
  RX_DATA_SIZE = 3
SPECIFICATION FairSpec
INVARIANTS
  TypeOK
  CommandsKeepApart
PROPERTIES
  SamplesAreWhole
  SonarIsPlausible
  DriversKeepGoing
