CONSTANTS
  IdMod = 8
  MaxAttempts = 1
  LineCap = 2
  ByteMod = 16
  BufSize = 8
  TypeLimit = 3
  Types = {3}
  RobostixLosses = 8
  GumstixLosses = 2
  SpiOverhead = 6
  MasterSize = 6
  SlaveSize = 7
  SpiBufSize = 8
  MaxPackets = 3
  MaxLate = 1
  NumBuffers = 4
  PacketTypes = {"data", "text"}
  ItemsOfPacket = 2
  DevicePackets = 4
  MaxFailures = 1
SPECIFICATION Spec
INVARIANTS
  TypeOK
  WarningHasCause
  UndisturbedDelivery
  ResyncedDelivery
  BuffersConserved
PROPERTY AnswersInOrder
