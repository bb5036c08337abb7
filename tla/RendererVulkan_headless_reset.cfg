SPECIFICATION RendererSpec
CONSTANTS
  FrameDepth = 1
  NumImages = 1
  Headless = TRUE
  AcquireErrors = {}
  NumInputs = 2
  DynamicInputs <- const_DynamicInputs
  DrawLists <- const_DrawLists
  Colours = {0, 1}
PROPERTIES
  PendingUntouched
