SPECIFICATION FairSpec
CONSTANTS
  Preamble = 6
  Img = 4
  MaxStrays = 7
INVARIANTS PunctualFrameIsImage FrameLatency
PROPERTIES FrameAnswered
