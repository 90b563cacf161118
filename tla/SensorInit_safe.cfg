SPECIFICATION FairSpec
CONSTANTS
  DrainMax = 3
  ReadyTries = 3
  RecordCount = 7
  Kind <- MCKind
  Chunks = 2
  BlockWrite = 5
  Baked = 32
  Calibrations <- MCCalibrations
  RegValues = {0, 32, 34, 170}
  ReadyValue = 170
  Leftover = 3
  MaxLate = 1
CHECK_DEADLOCK FALSE
INVARIANTS NoReadDuringUpload PrefixOnlyIfSilent CacheIsRegister CalibrationReapplied StopLatency
PROPERTIES BringUpEnds SuspendReachesDriver BringUpIsCaptures
