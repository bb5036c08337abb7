SPECIFICATION RendererSpec
CONSTANTS
  FrameDepth = 2
  NumImages = 2
  Headless = FALSE
  AcquireErrors = {"out_of_date", "suboptimal", "other"}
  NumInputs = 2
  DynamicInputs <- const_DynamicInputs
  DrawLists <- const_TwoLists
  Colours = {0, 1}
INVARIANTS
  RendererTypeOK
  WaitForMeansFree
  SubmittedOnce
  FinishSemaphoreFree
  NeverDrawsOnScreen
  RendersLatestOnceRecorded
PROPERTIES
  PendingUntouched
  RendererImplementsPipeline
  RendererCallReturns
