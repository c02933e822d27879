CONSTANTS
  m1 = m1
  m2 = m2
  Motors <- OneMotor
  MotorMax = 5
  RevStep = 2
  Threshold = 1
  IdleLimits <- SmallLimits
  Outputs <- SmallOutputs
  MaxAttempts = 1
  WireCap = 1
SPECIFICATION Spec
PROPERTY SwitchTakenIsSeen
