SPECIFICATION Spec
CONSTANTS
  RotK = 3
  RotCoarse = 2
  Width = 5
  ShiftStep = 3
  Refine = 3
  Scores = {1, 2, 3, 4}
  Fines <- MCFines
CHECK_DEADLOCK FALSE
INVARIANTS KeepsTheBest MissesNoAlignment
