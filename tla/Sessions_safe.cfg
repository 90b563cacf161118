SPECIFICATION Spec
CONSTANTS
  Exposures <- MCExposures
  Baked = 32
  BaselineFrames = 2
INVARIANTS FramesAtKnownExposure CalibratedBaselineFits ClosedHoldsNothing
