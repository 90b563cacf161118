SPECIFICATION FairSpec
CONSTANTS
  Frames <- MCFrames
  Coverage <- MCCoverage
  Ncc <- MCNcc
  Near <- MCNear
  Periods <- MCPeriods
  Presses <- MCPresses
  Probes <- MCProbes
  Prints <- MCPrints
  Decodes <- MCDecodes
  Template <- MCTemplate
  Whole <- MCWhole
  Lists <- MCLists
  Stages = 6
  MaxFrames = 5
  Capacity = 3
INVARIANTS ReportedPrintMatched VerifyIsIdentify
PROPERTIES Spread KeepsContract EnrolmentEnds
