--------------------------- MODULE MCRendererVulkan ---------------------------
(* One static and one dynamic input, so that a draw list can leave either   *)
(* indirect buffer empty.                                                   *)
EXTENDS RendererVulkan

const_DynamicInputs == {1}
const_DrawLists == {<<>>, <<0>>, <<1, 0>>, <<0, 1>>}

\* Nothing, and both inputs: no copy or two of them in a call.
const_TwoLists == {<<>>, <<0, 1>>}
=============================================================================
