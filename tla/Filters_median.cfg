CONSTANTS
  Values = {0, 1, 2, 4}
  MedSize = 3
  AvgSize = 3
  MDiff = 1
  Limit = 2
  Gain = 1
  Scale = 3
SPECIFICATION Spec
INVARIANT MedianAmongUpdates
