SPECIFICATION Spec
CONSTANTS
  FrameDepth = 3
  NumImages = 3
  Headless = FALSE
  AcquireErrors = {"out_of_date", "suboptimal", "other"}
INVARIANTS
  TypeOK
  WaitForMeansFree
  AcquireSemaphoreFree
  FinishSemaphoreFree
  NeverDrawsOnScreen
PROPERTIES
  CallReturns
