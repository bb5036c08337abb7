SPECIFICATION Spec
CONSTANTS
  FrameDepth = 5
  NumImages = 5
  Headless = TRUE
  AcquireErrors = {}
INVARIANTS
  SubmitsFreeBuffer
PROPERTIES
  ImplementsPipeline
