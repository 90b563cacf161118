SPECIFICATION FairSpec
CONSTANTS
  Actions = {"verify"}
  Frames <- MCLiveFrames
  Slots = {0}
  Scores <- MCLiveScores
  Threshold = 5000
  Stages = 1
  SettleFrames = 1
  BaselineFrames = 1
  Removable = TRUE
CHECK_DEADLOCK FALSE
PROPERTIES RemovalEnds
