SPECIFICATION Spec
CONSTANTS
  Renderers = {r1}
  Labels = {1}
  Inputs <- const_Inputs
  Lists <- const_StaticLists
  Colours = {1}
  CullingRequests = {"NoCulling"}
  Unset = Unset
  Gone = Gone
INVARIANTS
  DrawsLatestList
