SPECIFICATION Spec
CONSTANTS
  DrainMax = 8
  ReadyTries = 10
  RecordCount = 33
  Kind <- MCFullKind
  Chunks = 8
  BlockWrite = 25
  Baked = 32
  Calibrations <- MCCalibrations
  RegValues = {0, 32, 34, 170}
  ReadyValue = 170
  Leftover = 0
  MaxLate = 0
CHECK_DEADLOCK FALSE
INVARIANTS SuspendLatency
