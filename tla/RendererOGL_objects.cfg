SPECIFICATION Spec
CONSTANTS
  Renderers = {r1, r2}
  Labels = {1, 2}
  Inputs <- const_Inputs
  Lists <- const_Lists
  Colours = {1}
  CullingRequests = {"NoCulling", "CullBackFaces", Unset}
  Unset = Unset
  Gone = Gone
SYMMETRY RendererSymmetry
INVARIANTS
  OGLTypeOK
  DrawsLatestOrNothing
  StateAsAsked
  HeldOnce
