----------------------------- MODULE MCRendererOGL -----------------------------
EXTENDS RendererOGL, TLC

\* Two static inputs and a dynamic one.
const_Inputs == <<"static", "static", "dynamic">>

\* Lists that are longer and shorter than the buffers made for earlier ones.
const_Lists == {<<>>, <<2>>, <<1, 1, 2, 3>>}

\* Lists of a static input.
const_StaticLists == {<<1>>, <<1, 1, 2>>}

\* Nothing tells the objects apart but what happens to them.
RendererSymmetry == Permutations(Renderers)

=============================================================================
