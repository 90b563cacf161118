SPECIFICATION Spec
CONSTANTS
  Frames <- MCFrames
  Usable <- MCUsable
  Redundant <- MCRedundant
  Level <- MCLevel
  Prints <- MCPrints
  Template <- MCTemplate
  Parses <- MCParses
  Lists <- MCLists
  Stages = 2
  HeapFrames = 3
INVARIANTS NothingStale
PROPERTIES KeepsContract
