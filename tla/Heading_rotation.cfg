CONSTANTS
  Half = 2
  MaxSpin = 1
  Bound = 4
SPECIFICATION TiltSpec
PROPERTY CommandIsRotatedOnce
