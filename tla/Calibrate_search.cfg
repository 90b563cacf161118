SPECIFICATION Spec
CONSTANTS
  Units <- MCUnits
  Curve <- MCCurve
  BakedValues = {32}
CHECK_DEADLOCK FALSE
INVARIANTS SearchIsOptimal KnownOnlyWhenDone
