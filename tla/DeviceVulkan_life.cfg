SPECIFICATION Spec
CONSTANTS
  Machines <- MCMachines
  Sizes = {0, 1, 2}
  MaxChanges = 3
  MaxPending = 2
  MaxDevices = 2
  MaxRenderers = 2
CHECK_DEADLOCK FALSE
INVARIANTS
  DeviceLifeTypeOK
  DependenciesOutlive
  TerminateUndoes
  RenderersFollowSwapchain
  SwapchainFitsWindow
  FramebuffersMatchPass
  ChoosesSuitably
PROPERTIES
  UpdateReturns
