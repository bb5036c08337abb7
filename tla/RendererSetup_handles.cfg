SPECIFICATION Spec
CONSTANTS
  Sizes <- const_Sizes
  IndexBytes = 4
  MaxInputs = 3
  MaxResources = 3
CHECK_DEADLOCK FALSE
INVARIANTS
  HandleNamesResource
