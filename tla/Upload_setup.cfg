SPECIFICATION USpec
CONSTANTS
  Sizes <- const_Sizes
  IndexBytes = 4
  MaxInputs = 3
  MaxResources = 3
  Views = 3
CHECK_DEADLOCK FALSE
INVARIANTS
  SetupTypeOK
  UploadTypeOK
  DrawsOwnVertices
  DrawsOwnIndicesElsewhere
  HandlesInOrder
  BindingsMatchLayout
  CopiesUndisturbed
  UploadsArrive
  EveryViewBound
PROPERTIES
  ConstructorReturns
  ImplementsSetup
