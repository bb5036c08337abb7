SPECIFICATION RendererSpec
CONSTANTS
  FrameDepth = 2
  NumImages = 2
  Headless = FALSE
  AcquireErrors = {}
  NumInputs = 2
  DynamicInputs <- const_DynamicInputs
  DrawLists <- const_DrawLists
  Colours = {0, 1}
INVARIANTS
  RendersLatestList
