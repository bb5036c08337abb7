SPECIFICATION Spec
CONSTANTS
  FrameDepth = 2
  NumImages = 3
  Headless = FALSE
  AcquireErrors = {}
INVARIANTS
  WaitForMeansFree
