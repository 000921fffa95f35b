SPECIFICATION CalibFairSpec
CONSTANTS
  Samples = 5
  Readings <- MCReadings
  Stray = 20
  SumMod = 32
  CountMod = 8
INVARIANT OffsetsAreMeans
PROPERTY CalibrationEnds
CHECK_DEADLOCK FALSE
