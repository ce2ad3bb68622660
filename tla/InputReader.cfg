CONSTANTS
  Int16Max = 7
  CalValues = {0, 1, 8, 15}
  RawValues <- RawSamples
  Sticks = {1, 5}
  AccRes = 2
  GyroRes = 2
  GyroSpan = 4
SPECIFICATION Spec
INVARIANTS TypeOK DividesOnceCalibrated PrintsState
CHECK_DEADLOCK FALSE
