SPECIFICATION FairSpec
CONSTANTS
  Actions = {"enroll", "verify"}
  Frames <- MCFewFrames
  Slots = {0}
  Scores <- MCLiveScores
  Threshold = 5000
  Stages = 2
  SettleFrames = 2
  BaselineFrames = 1
  Removable = TRUE
CHECK_DEADLOCK FALSE
INVARIANTS OneFramePerTouch
PROPERTIES TemplateComplete NoVerdictAcrossSleep CancelEnds BringUpLeadsOn AwakeRemovalEnds KeepsContractFairly
