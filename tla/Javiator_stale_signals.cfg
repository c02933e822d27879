CONSTANTS
  m1 = m1
  Motors <- OneMotor
  MotorMax = 3
  RevStep = 4
  Threshold = 0
  IdleLimits = {}
  Outputs <- HighOutput
  MaxAttempts = 0
  MotorDec = 2
  NotifyTicks = 1
  IntMin <- MinusNine
  IntMax = 8
  WireCap = 1
SPECIFICATION Spec
PROPERTY SilenceNeverSpeedsUp
