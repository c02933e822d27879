CONSTANTS
  ByteMod = 16
  BufSize = 8
  TypeLimit = 3
  Types = {3}
  Payloads <- LargeData
  ResyncAfter = 6
  MaxLosses = 3
SPECIFICATION Spec
INVARIANTS
  IndexInBuffer
