-------------------------------- MODULE Upload --------------------------------
(***************************************************************************)
(* The constructor of a renderer step by step: setup_buffers, one          *)
(* descriptor set per view, and record_and_run_scratch_commands, which     *)
(* moves static data to the device through staging buffers and one         *)
(* recycled command buffer (gl/impl/frontend/vk/renderer.cpp,              *)
(* backend/vk/{command,descriptor,fence,submit}.cpp).                      *)
(*                                                                         *)
(* The device runs what was submitted at a time of its own.  While copies  *)
(* are made the constructor has not returned: built is still FALSE.        *)
(* RendererSetup, where the constructor is one step, is what this module   *)
(* implements (UploadSetup).                                               *)
(***************************************************************************)
EXTENDS RendererSetup

CONSTANTS
  Views   \* get_view_count: swapchain images, or 1 without a window

ASSUME ViewsAssumption == Views \in Nat \ {0}

VARIABLES
  accesses,   \* the data access of each resource that was added
  at,         \* where the constructor is: "record", "submit", "wait", else "idle"
  jobs,       \* the copies it has yet to finish, the current one first
  scratch,    \* the copy that is recorded in the scratch command buffer
  staging,    \* the copy whose data the staging buffer holds, NoJob without one
  queue,      \* submissions the device has yet to run: [job, fence]
  fence,      \* is copy_fence signalled?
  loaded,     \* the copies whose destination holds their data
  images,     \* images[x]: the layout of the image of texture x
  sets        \* the descriptor sets, one function like bound for each view

uploadVars == <<accesses, at, jobs, scratch, staging, queue, fence, loaded, images, sets>>
copyVars == <<scratch, staging, queue, fence>>
uvars == <<vars, uploadVars>>

\* What a copy fills: a static buffer of the inputs, an indirect draw buffer
\* (n = 1 static, 2 dynamic, for both), or resource n.
Job(kind, n) == [kind |-> kind, n |-> n]
NoJob == Job("none", 0)
JobType == [kind : {"none", "vertices", "indices", "draws", "resource"}, n : 0 .. MaxResources + 2]

Textures == { x \in DOMAIN added : added[x] = "texture" }

\* The variables keep their types, and no more than one submission is made at
\* a time.
UploadTypeOK ==
  /\ accesses \in Seq(Accesses) /\ Len(accesses) = Len(added)
  /\ at \in {"idle", "record", "submit", "wait"}
  /\ jobs \in Seq(JobType) /\ (at = "idle") = (jobs = <<>>)
  /\ {scratch, staging} \subseteq JobType
  /\ queue \in Seq([job : JobType, fence : BOOLEAN]) /\ Len(queue) <= 1
  /\ fence \in BOOLEAN
  /\ loaded \subseteq JobType
  /\ \A x \in DOMAIN images : x \in Textures /\ images[x] \in {"Undefined", "ShaderResource"}
  /\ sets \in Seq({<<>>, bound})

UInit ==
  /\ Init
  /\ accesses = <<>>
  /\ at = "idle"
  /\ jobs = <<>>
  /\ scratch = NoJob
  /\ staging = NoJob
  /\ queue = <<>>
  /\ fence = TRUE
  /\ loaded = {}
  /\ images = <<>>
  /\ sets = <<>>

-----------------------------------------------------------------------------
(* The builder *)

UAddInput(access, size) ==
  /\ at = "idle"
  /\ AddInput(access, size)
  /\ UNCHANGED uploadVars

\* There are no dynamic textures.
UAddResource(type, access) ==
  /\ at = "idle"
  /\ type = "texture" => access = "static"
  /\ AddResource(type)
  /\ accesses' = Append(accesses, access)
  /\ UNCHANGED <<at, jobs, copyVars, loaded, images, sets>>

-----------------------------------------------------------------------------
(* Descriptors *)

NumResources == Len(buffer_resources) + Len(texture_resources)

\* Mutant of MaxSets: the capacity of a single view.
MaxSetsOfOneView == NumResources

\* with_capacity
MaxSets == Views * NumResources

\* with_size, once per resource: the descriptors of a type in the pool.
PoolSize(type) == Views * Cardinality({ x \in DOMAIN added : added[x] = type })

\* vkAllocateDescriptorSets with one layout per view.
PoolHolds ==
  /\ Views <= MaxSets
  /\ \A type \in {"buffer", "texture"} :
       Views * Cardinality({ b \in DOMAIN Bindings : LayoutType(b) = type }) <= PoolSize(type)

\* initialise_resource_descriptors and initialise_sets: no pool without
\* resources; sets that could not be allocated have nothing bound.
DescriptorSets ==
  IF NumResources = 0 THEN <<>> ELSE [v \in 1 .. Views |-> IF PoolHolds THEN Bindings ELSE <<>>]

-----------------------------------------------------------------------------
(* The copies of the constructor *)

\* Mutant of StaticData: the indices are forgotten.
StaticDataVertices == IF StaticMemory.indices = <<>> THEN <<>> ELSE <<Job("vertices", 1)>>

\* Parts 1 and 2: only if the static inputs have indices.
StaticData == IF StaticMemory.indices = <<>> THEN <<>> ELSE <<Job("vertices", 1), Job("indices", 1)>>

\* Part 3, record_draw_list of all inputs once: a list that is empty needs no
\* buffer.
DrawLists ==
  LET Has(access) == \E h \in Handles : inputs[h].access = access IN
  (IF Has("static") THEN <<Job("draws", 1)>> ELSE <<>>) \o (IF Has("dynamic") THEN <<Job("draws", 2)>> ELSE <<>>)

Copies(some) == [i \in DOMAIN some |-> Job("resource", some[i])]

\* Mutant of ResourceCopies: dynamic buffers instead of static ones.
ResourceCopiesSwapped ==
  Copies(Filter(buffer_resources, { x \in DOMAIN added : accesses[x] = "dynamic" }) \o texture_resources)

\* Static buffers, then textures. What a dynamic buffer holds was written
\* through its mapping.
ResourceCopies ==
  Copies(Filter(buffer_resources, { x \in DOMAIN added : accesses[x] = "static" }) \o texture_resources)

ScratchJobs == StaticData \o DrawLists \o ResourceCopies

\* setup_buffers maps dynamic buffers and set_resource_data fills them.
Mapped == { Job("resource", x) : x \in { y \in DOMAIN added : accesses[y] = "dynamic" } }

-----------------------------------------------------------------------------
(* The constructor *)

\* RendererVulkan's constructor up to its first copy.
Begin ==
  LET Unwritten(data) == [k \in DOMAIN data |-> Uninitialised] IN
  /\ frontend = "vulkan"
  /\ at = "idle" /\ ~built
  /\ Arrange
  /\ memory' = [static |-> [field \in {"vertices", "indices"} |-> Unwritten(StaticMemory[field])],
                dynamic |-> DynamicMemory]
  /\ images' = [x \in Textures |-> "Undefined"]
  /\ sets' = DescriptorSets
  /\ loaded' = Mapped
  /\ jobs' = ScratchJobs
  /\ at' = IF ScratchJobs = <<>> THEN "idle" ELSE "record"
  /\ built' = (ScratchJobs = <<>>)
  /\ UNCHANGED <<accesses, copyVars>>

\* RendererOGL's constructor: every call returns with the data taken.
ConstructOGL ==
  /\ frontend = "opengl"
  /\ Construct
  /\ loaded' = { (DrawLists \o Copies(StoredResources))[i] : i \in 1 .. Len(DrawLists \o StoredResources) }
  /\ UNCHANGED <<accesses, at, jobs, copyVars, images, sets>>

\* A staging buffer is filled, the scratch buffer reset and recorded.
Record ==
  /\ at = "record"
  /\ staging' = Head(jobs)
  /\ scratch' = Head(jobs)
  /\ at' = "submit"
  /\ UNCHANGED <<vars, accesses, jobs, queue, fence, loaded, images, sets>>

\* Mutant of Submit: the overload of Submit::operator() without a fence.
SubmitUnfenced ==
  /\ at = "submit"
  /\ fence' = FALSE
  /\ queue' = Append(queue, [job |-> scratch, fence |-> FALSE])
  /\ at' = "wait"
  /\ UNCHANGED <<vars, accesses, jobs, scratch, staging, loaded, images, sets>>

\* copy_fence.signal() resets the fence, here or, for the vertices, before
\* the recording; then do_scratch_operation.
Submit ==
  /\ at = "submit"
  /\ fence' = FALSE
  /\ queue' = Append(queue, [job |-> scratch, fence |-> TRUE])
  /\ at' = "wait"
  /\ UNCHANGED <<vars, accesses, jobs, scratch, staging, loaded, images, sets>>

\* The end of a copy: the staging buffer goes out of scope, and after the
\* last one the constructor returns.
Proceed ==
  /\ staging' = NoJob
  /\ jobs' = Tail(jobs)
  /\ at' = IF Tail(jobs) = <<>> THEN "idle" ELSE "record"
  /\ built' = (Tail(jobs) = <<>>)
  /\ UNCHANGED <<frontend, builderVars, rendererVars, accesses, scratch, queue, fence, loaded, images, sets>>

\* Mutants of WaitCopy: no wait; a wait for the last copy only.
WaitCopySkipped == at = "wait" /\ Proceed
WaitCopyLast == at = "wait" /\ (fence \/ Len(jobs) > 1) /\ Proceed

\* copy_fence.wait_for()
WaitCopy == at = "wait" /\ fence /\ Proceed

\* transition_image_layout starts from the layout of the Image object, which
\* only set_layout changes, which nobody calls.
OldLayout == "Undefined"

\* The device runs a submission. The transition after a copy to an image may
\* discard the contents when it starts from Undefined.
Execute ==
  LET job == Head(queue).job IN
  /\ queue # <<>>
  /\ queue' = Tail(queue)
  /\ fence' = (fence \/ Head(queue).fence)
  /\ memory' = IF job.kind \in {"vertices", "indices"}
                 THEN [memory EXCEPT !["static"][job.kind] = StaticMemory[job.kind]] ELSE memory
  /\ IF job.kind = "resource" /\ job.n \in Textures
       THEN /\ images' = [images EXCEPT ![job.n] = "ShaderResource"]
            /\ \E kept \in {TRUE, OldLayout # "Undefined"} :
                 loaded' = IF kept THEN loaded \cup {job} ELSE loaded
       ELSE images' = images /\ loaded' = loaded \cup {job}
  /\ UNCHANGED <<frontend, built, builderVars, resources, bound, edits, overrun, accesses, at, jobs, scratch, staging, sets>>

UEditInput(h) == EditInput(h) /\ UNCHANGED uploadVars

Host == Begin \/ Record \/ Submit \/ WaitCopy

UNext ==
  \/ \E a \in Accesses, s \in Sizes : UAddInput(a, s)
  \/ \E t \in {"buffer", "texture"}, a \in Accesses : UAddResource(t, a)
  \/ ConstructOGL
  \/ Host
  \/ Execute
  \/ \E h \in Handles : UEditInput(h)

\* The constructor does not stop halfway, and the device runs what it is
\* given.
USpec == UInit /\ [][UNext]_uvars /\ WF_uvars(Record \/ Submit \/ WaitCopy) /\ WF_uvars(Execute)

-----------------------------------------------------------------------------
(* Properties *)

\* While a copy is pending its staging buffer exists and holds its data, the
\* scratch buffer has not been recorded again, and the fence that tells the
\* host so is unsignalled (record_and_run_scratch_commands, record_draw_list).
CopiesUndisturbed ==
  queue # <<>> => queue = <<[job |-> scratch, fence |-> TRUE]>> /\ staging = scratch /\ ~fence

\* When the constructor returns nothing is pending, every buffer a draw reads
\* holds its data, whatever its access, and the textures of a Vulkan renderer
\* are in the layout their descriptors name (add_image in descriptor.cpp).
UploadsArrive ==
  built =>
    /\ queue = <<>>
    /\ \A x \in DOMAIN added : added[x] = "buffer" => Job("resource", x) \in loaded
    /\ \A h \in Handles : Job("draws", IF inputs[h].access = "static" THEN 1 ELSE 2) \in loaded
    /\ frontend = "vulkan" => \A x \in Textures : images[x] = "ShaderResource"

\* The commands of every view find a descriptor set in which every resource
\* is bound (record_rendering_commands indexes the pool by view, unchecked).
EveryViewBound ==
  built /\ frontend = "vulkan" /\ resources # <<>> => \A v \in 1 .. Views : v \in DOMAIN sets /\ sets[v] = bound

\* A constructor that has begun returns.
ConstructorReturns == at # "idle" ~> built

=============================================================================
