----------------------------- MODULE RendererSetup -----------------------------
(***************************************************************************)
(* From a renderer builder to a renderer, for both frontends: the handles  *)
(* that add_resource gives out, the order in which the renderer stores and *)
(* binds resources, and the vertex and index buffers that its inputs       *)
(* share (gl/impl/frontend/vk/renderer.cpp, ogl/renderer.cpp, input.cpp).  *)
(*                                                                         *)
(* Inputs and resources are numbered from 1 in the order they were added.  *)
(* A cell of a vertex buffer is one vertex and a cell of an index buffer   *)
(* one index; <<h, k, e>> is the k-th element of input h after e edits.    *)
(***************************************************************************)
EXTENDS Integers, Sequences, FiniteSetsExt, Loops

CONSTANTS
  Sizes,         \* the sizes of inputs: [vertices, indices]
  IndexBytes,    \* sizeof(unsigned int)
  MaxInputs,     \* bound on the inputs of a builder
  MaxResources   \* bound on the resources of a builder

\* An input has indices: the Vulkan frontend uploads no static vertices when
\* the static inputs have none between them.
ASSUME SizesAssumption == Sizes \subseteq [vertices : Nat, indices : Nat \ {0}]
ASSUME BoundsAssumption == IndexBytes \in Nat \ {0} /\ MaxInputs \in Nat /\ MaxResources \in Nat

VARIABLES
  frontend,           \* which frontend was compiled in: "vulkan" or "opengl"
  built,              \* has the renderer been constructed?
  inputs,             \* the inputs of the builder: access and size
  added,              \* the type of each resource that was added
  handles,            \* handles[x]: what add_resource returned for resource x
  buffer_resources,   \* the builder's two lists
  texture_resources,
  resources,          \* the resources of the renderer, in its order
  bound,              \* bound[b]: the resource at shader binding b
  memory,             \* the vertex and index buffers of static and dynamic inputs
  edits,              \* how often the application has edited each input
  overrun             \* has a copy gone past the end of a mapped buffer?

builderVars == <<inputs, added, handles, buffer_resources, texture_resources>>
rendererVars == <<resources, bound, memory, edits, overrun>>
vars == <<frontend, built, builderVars, rendererVars>>

Uninitialised == <<0, 0, 0>>

Accesses == {"static", "dynamic"}
Memory == [Accesses -> [vertices : Seq(Nat \X Nat \X Nat), indices : Seq(Nat \X Nat \X Nat)]]

\* The variables keep their types.
SetupTypeOK ==
  /\ frontend \in {"vulkan", "opengl"}
  /\ built \in BOOLEAN
  /\ inputs \in Seq([access : Accesses, size : Sizes])
  /\ added \in Seq({"buffer", "texture"})
  /\ handles \in Seq(0 .. MaxResources - 1)
  /\ buffer_resources \in Seq(1 .. MaxResources)
  /\ texture_resources \in Seq(1 .. MaxResources)
  /\ resources \in Seq(1 .. MaxResources)
  /\ \A b \in DOMAIN bound : b \in 0 .. MaxResources - 1 /\ bound[b] \in 1 .. MaxResources
  /\ memory \in Memory
  /\ edits \in Seq({0, 1})
  /\ overrun \in BOOLEAN

Init ==
  /\ frontend \in {"vulkan", "opengl"}
  /\ built = FALSE
  /\ inputs = <<>>
  /\ added = <<>>
  /\ handles = <<>>
  /\ buffer_resources = <<>>
  /\ texture_resources = <<>>
  /\ resources = <<>>
  /\ bound = <<>>
  /\ memory = [a \in Accesses |-> [vertices |-> <<>>, indices |-> <<>>]]
  /\ edits = <<>>
  /\ overrun = FALSE

-----------------------------------------------------------------------------
(* The builder *)

\* The handle of an input is its position, in the builder and the renderer.
AddInput(access, size) ==
  /\ ~built
  /\ Len(inputs) < MaxInputs
  /\ inputs' = Append(inputs, [access |-> access, size |-> size])
  /\ UNCHANGED <<frontend, built, added, handles, buffer_resources, texture_resources, rendererVars>>

\* Mutant of NextHandle: the sizes are read after push_back.
NextHandleAfterPush == Len(buffer_resources) + Len(texture_resources) + 1

\* Mutant of NextHandle: the handle counts the resources of one type.
NextHandleOfBuffers == Len(buffer_resources)

\* total_resource_size
NextHandle == Len(buffer_resources) + Len(texture_resources)

AddResource(type) ==
  LET x == Len(added) + 1 IN
  /\ ~built
  /\ Len(added) < MaxResources
  /\ added' = Append(added, type)
  /\ handles' = Append(handles, NextHandle)
  /\ IF type = "buffer"
       THEN buffer_resources' = Append(buffer_resources, x) /\ UNCHANGED texture_resources
       ELSE texture_resources' = Append(texture_resources, x) /\ UNCHANGED buffer_resources
  /\ UNCHANGED <<frontend, built, inputs, rendererVars>>

-----------------------------------------------------------------------------
(* Resources of the renderer *)

\* The constructor clones all buffers, then all textures.
StoredResources == buffer_resources \o texture_resources

\* Mutant of Bindings: the textures come before the buffers.
BindingsTexturesFirst ==
  [b \in 0 .. Len(buffer_resources) + Len(texture_resources) - 1 |->
     IF b < Len(texture_resources) THEN texture_resources[b + 1] ELSE buffer_resources[b - Len(texture_resources) + 1]]

\* initialise_resource_descriptors: buffer j at binding j, texture j after
\* all the buffers.
Bindings ==
  LET n == Len(buffer_resources) IN
  [b \in 0 .. n + Len(texture_resources) - 1 |->
     IF b < n THEN buffer_resources[b + 1] ELSE texture_resources[b - n + 1]]

\* vk_get_descriptor_set_layout: the type of resource the shader has at b.
LayoutType(b) == IF b < Len(buffer_resources) THEN "buffer" ELSE "texture"

\* get_resource(handle), 0 for nullptr.
GetResource(handle) == IF handle < Len(resources) THEN resources[handle + 1] ELSE 0

-----------------------------------------------------------------------------
(* Buffers of the inputs *)

Handles == 1 .. Len(inputs)

DynamicHandles == { h \in Handles : inputs[h].access = "dynamic" }

Elements(h, field, e) == [k \in 1 .. inputs[h].size[field] |-> <<h, k, e>>]

\* The data of the first n inputs that have the access, one after the other.
Compiled(access, field, n) ==
  Flatten([h \in 1 .. n |-> IF inputs[h].access = access THEN Elements(h, field, 0) ELSE <<>>])

\* Mutant of VertexRegion: the region starts after the input's own data.
VertexRegionAfter(h) == Len(Compiled("dynamic", "vertices", h))

\* The cell before the first one that set_vertex_data of input h is given.
VertexRegion(h) == Len(Compiled("dynamic", "vertices", h - 1))

\* setup_buffers computes an offset in bytes and adds it to an
\* unsigned int*. (Also the mutant of IndexRegionOGL.)
IndexRegionVulkan(h) == Len(Compiled("dynamic", "indices", h - 1)) * IndexBytes

\* ogl/renderer.cpp counts the offset in elements.
IndexRegionOGL(h) == Len(Compiled("dynamic", "indices", h - 1))

IndexRegion(h) == IF frontend = "vulkan" THEN IndexRegionVulkan(h) ELSE IndexRegionOGL(h)

\* The buffer after each dynamic input h was copied to region[h], in order.
Copied(buffer, field, region) ==
  [k \in 1 .. Len(buffer) |->
     LET writers == { h \in DynamicHandles : region[h] < k /\ k <= region[h] + inputs[h].size[field] } IN
     IF writers = {} THEN buffer[k] ELSE <<Max(writers), k - region[Max(writers)], 0>>]

\* What a dynamic buffer holds before the inputs are told of their regions:
\* the OpenGL frontend has already written everything.
Fresh(field) ==
  LET data == Compiled("dynamic", field, Len(inputs)) IN
  IF frontend = "vulkan" THEN [k \in 1 .. Len(data) |-> Uninitialised] ELSE data

Overruns(field, region) ==
  \E h \in DynamicHandles :
    inputs[h].size[field] > 0 /\ region[h] + inputs[h].size[field] > Len(Compiled("dynamic", field, Len(inputs)))

StaticMemory == [field \in {"vertices", "indices"} |-> Compiled("static", field, Len(inputs))]

DynamicMemory ==
  [vertices |-> Copied(Fresh("vertices"), "vertices", [h \in Handles |-> VertexRegion(h)]),
   indices |-> Copied(Fresh("indices"), "indices", [h \in Handles |-> IndexRegion(h)])]

\* The renderer's own copies of the inputs and resources, the regions of
\* dynamic inputs and the descriptors.
Arrange ==
  /\ resources' = StoredResources
  /\ bound' = Bindings
  /\ overrun' = (Overruns("vertices", [h \in Handles |-> VertexRegion(h)])
                   \/ Overruns("indices", [h \in Handles |-> IndexRegion(h)]))
  /\ edits' = [h \in Handles |-> 0]
  /\ UNCHANGED <<frontend, builderVars>>

\* The renderer is constructed, with buffers for both kinds of input.
Construct ==
  /\ ~built
  /\ built' = TRUE
  /\ memory' = [static |-> StaticMemory, dynamic |-> DynamicMemory]
  /\ Arrange

\* The application writes through get_vertex_bytes_dynamic of the renderer's
\* copy of input h, which points to its region.
EditInput(h) ==
  /\ built
  /\ h \in DynamicHandles
  /\ edits' = [edits EXCEPT ![h] = 1 - @]
  /\ memory' = [memory EXCEPT !["dynamic"].vertices = [k \in DOMAIN @ |->
       IF VertexRegion(h) < k /\ k <= VertexRegion(h) + inputs[h].size.vertices
         THEN <<h, k - VertexRegion(h), edits'[h]>> ELSE @[k]]]
  /\ UNCHANGED <<frontend, built, builderVars, resources, bound, overrun>>

Next ==
  \/ \E a \in Accesses, s \in Sizes : AddInput(a, s)
  \/ \E t \in {"buffer", "texture"} : AddResource(t)
  \/ Construct
  \/ \E h \in Handles : EditInput(h)

Spec == Init /\ [][Next]_vars

-----------------------------------------------------------------------------
(* Properties *)

\* vertexOffset and firstIndex of the draw command for input h: the running
\* count of its access over the inputs before it.
First(h, field) ==
  LET count[g \in 0 .. h - 1] ==
        IF g = 0 THEN 0
        ELSE count[g - 1] + IF inputs[g].access = inputs[h].access THEN inputs[g].size[field] ELSE 0
  IN count[h - 1]

\* The cells that a draw of input h reads.
Read(h, field) ==
  SubSeq(memory[inputs[h].access][field], First(h, field) + 1, First(h, field) + inputs[h].size[field])

\* A draw of an input reads its own vertices, with the last edit visible and
\* no edit of another input (input.cpp; the promise of
\* get_vertex_bytes_dynamic in api/renderer.hpp).
DrawsOwnVertices == built => \A h \in Handles : Read(h, "vertices") = Elements(h, "vertices", edits[h])

\* A draw of an input reads its own indices, and telling the inputs where
\* their data lies wrote nothing outside the buffers (setup_buffers).
DrawsOwnIndices == built => ~overrun /\ \A h \in Handles : Read(h, "indices") = Elements(h, "indices", 0)

\* The same, but nothing is said of a Vulkan renderer with two dynamic inputs:
\* there the offset in bytes misleads the copy of the second, which may land on
\* the data of any other.
DrawsOwnIndicesElsewhere ==
  frontend = "opengl" \/ (\A g, h \in DynamicHandles : g = h) => DrawsOwnIndices

\* get_resource returns the resource that add_resource returned the handle
\* for (api/renderer.hpp).
HandleNamesResource == built => \A x \in DOMAIN handles : GetResource(handles[x]) = x

BuffersFirst == \A x, y \in DOMAIN added : added[x] = "texture" /\ added[y] = "buffer" => y < x

\* When all buffers are added before any texture, a handle names its resource
\* and is also the binding at which the shader finds it.
HandlesInOrder ==
  built /\ BuffersFirst =>
    \A x \in DOMAIN handles : GetResource(handles[x]) = x /\ bound[handles[x]] = x

\* In whatever order resources were added, each is bound exactly once, at a
\* binding of the layout that has its type, in the order the renderer stores
\* them.
BindingsMatchLayout ==
  built =>
    /\ { bound[b] : b \in DOMAIN bound } = DOMAIN added
    /\ \A b \in DOMAIN bound : added[bound[b]] = LayoutType(b) /\ GetResource(b) = bound[b]

=============================================================================
