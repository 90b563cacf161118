SPECIFICATION Spec
CONSTANTS
  Actions = {"verify", "identify"}
  Frames <- MCFrames
  Slots = {0, 1}
  Scores <- MCScores
  Threshold = 5000
  Stages = 3
  SettleFrames = 2
  BaselineFrames = 2
  Removable = TRUE
CHECK_DEADLOCK FALSE
INVARIANTS FrameOnlyAfterBringUp
PROPERTIES CancelledIffCancelled MatchNeedsTwoFrames KeepsContract CapturesInSessions
