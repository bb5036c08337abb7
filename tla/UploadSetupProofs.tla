-------------------------- MODULE UploadSetupProofs --------------------------
(***************************************************************************)
(* Proof that Upload implements RendererSetup, for any number of inputs,   *)
(* resources and views.                                                    *)
(***************************************************************************)
EXTENDS UploadSetup, UploadProofs

-----------------------------------------------------------------------------
(* What the constructor derives from the builder is the same in both. *)

LEMMA SetupCompiled ==
  ASSUME NEW access, NEW field, NEW n
  PROVE  Setup!Compiled(access, field, n) = Compiled(access, field, n)
  BY DEF Setup!Compiled, Compiled, Setup!Elements, Elements, Setup!Flatten, Flatten

LEMMA SetupHandles == Setup!Handles = Handles /\ Setup!DynamicHandles = DynamicHandles
  BY DEF Setup!Handles, Handles, Setup!DynamicHandles, DynamicHandles

LEMMA SetupRegions ==
  ASSUME NEW h
  PROVE  Setup!VertexRegion(h) = VertexRegion(h) /\ Setup!IndexRegion(h) = IndexRegion(h)
  BY SetupCompiled DEF Setup!VertexRegion, VertexRegion, Setup!IndexRegion, IndexRegion,
     Setup!IndexRegionVulkan, IndexRegionVulkan, Setup!IndexRegionOGL, IndexRegionOGL

LEMMA SetupMemory == Setup!StaticMemory = StaticMemory /\ Setup!DynamicMemory = DynamicMemory
<1>1. Setup!StaticMemory = StaticMemory
  BY SetupCompiled DEF Setup!StaticMemory, StaticMemory
<1>2. \A field : Setup!Fresh(field) = Fresh(field)
  BY SetupCompiled DEF Setup!Fresh, Fresh, Setup!Uninitialised, Uninitialised
<1>3. \A S : Setup!Max(S) = Max(S)
  BY DEF Setup!Max, Max
<1>4. \A buffer, field, region : Setup!Copied(buffer, field, region) = Copied(buffer, field, region)
  BY <1>3, SetupHandles DEF Setup!Copied, Copied
<1>5. Setup!DynamicMemory = DynamicMemory
  BY <1>2, <1>4, SetupHandles, SetupRegions DEF Setup!DynamicMemory, DynamicMemory
<1>6. QED
  BY <1>1, <1>5

LEMMA SetupOverruns ==
  ASSUME NEW field, NEW region
  PROVE  Setup!Overruns(field, region) = Overruns(field, region)
  BY SetupCompiled, SetupHandles DEF Setup!Overruns, Overruns

LEMMA SetupResources == Setup!Bindings = Bindings /\ Setup!StoredResources = StoredResources
  BY DEF Setup!Bindings, Bindings, Setup!StoredResources, StoredResources

-----------------------------------------------------------------------------
(* Steps. *)

\* Until the constructor returns, RendererSetup sees no renderer.
LEMMA NoRenderer ==
  ASSUME ~built, ~built'
  PROVE  UNCHANGED Setup!rendererVars
  BY DEF Setup!rendererVars

\* A step that the application does not see.
LEMMA Unseen ==
  ASSUME ~built, ~built', built' = built, UNCHANGED <<frontend, builderVars>>
  PROVE  UNCHANGED Setup!vars
  BY NoRenderer DEF Setup!vars, Setup!builderVars, builderVars

\* The step in which the constructor returns.
LEMMA Returns ==
  ASSUME ~built, built' = TRUE, memory' = [static |-> StaticMemory, dynamic |-> DynamicMemory],
         Arrange
  PROVE  Setup!Construct
<1>1. /\ resources' = StoredResources /\ bound' = Bindings /\ edits' = [h \in Handles |-> 0]
      /\ overrun' = (Overruns("vertices", [h \in Handles |-> VertexRegion(h)])
                       \/ Overruns("indices", [h \in Handles |-> IndexRegion(h)]))
      /\ UNCHANGED <<frontend, builderVars>>
  BY DEF Arrange
<1>2. Setup!Arrange
  <2>1. /\ [h \in Setup!Handles |-> Setup!VertexRegion(h)] = [h \in Handles |-> VertexRegion(h)]
        /\ [h \in Setup!Handles |-> Setup!IndexRegion(h)] = [h \in Handles |-> IndexRegion(h)]
        /\ [h \in Setup!Handles |-> 0] = [h \in Handles |-> 0]
    BY SetupHandles, SetupRegions
  <2> DEFINE over == Overruns("vertices", [h \in Handles |-> VertexRegion(h)])
                       \/ Overruns("indices", [h \in Handles |-> IndexRegion(h)])
             setupOver == Setup!Overruns("vertices", [h \in Setup!Handles |-> Setup!VertexRegion(h)])
                            \/ Setup!Overruns("indices", [h \in Setup!Handles |-> Setup!IndexRegion(h)])
  <2>2. setupOver = over
    BY <2>1, SetupOverruns
  <2>3. (built /\ overrun)' = setupOver
    <3>1. overrun' = over
      BY <1>1
    <3> HIDE DEF over, setupOver
    <3>2. over \in BOOLEAN
      BY DEF over
    <3>3. QED
      BY <2>2, <3>1, <3>2
  <2>4. /\ (IF built THEN resources ELSE <<>>)' = Setup!StoredResources
        /\ (IF built THEN bound ELSE <<>>)' = Setup!Bindings
        /\ (IF built THEN edits ELSE <<>>)' = [h \in Setup!Handles |-> 0]
    BY <1>1, <2>1, SetupResources
  <2>5. UNCHANGED <<frontend, Setup!builderVars>>
    BY <1>1 DEF Setup!builderVars, builderVars
  <2>6. QED
    BY <2>3, <2>4, <2>5 DEF Setup!Arrange
<1>3. QED
  BY <1>2, SetupMemory DEF Setup!Construct
\* The builder's steps are those of RendererSetup.
LEMMA BuilderSteps ==
  ASSUME UploadInv
  PROVE  /\ \A a \in Accesses, s \in Sizes : UAddInput(a, s) => Setup!AddInput(a, s)
         /\ \A t \in Types, a \in Accesses : UAddResource(t, a) => Setup!AddResource(t)
<1>1. ASSUME NEW a \in Accesses, NEW s \in Sizes, UAddInput(a, s) PROVE Setup!AddInput(a, s)
  <2>1. /\ ~built /\ Len(inputs) < MaxInputs /\ inputs' = Append(inputs, [access |-> a, size |-> s])
        /\ UNCHANGED <<frontend, built, added, handles, buffer_resources, texture_resources>>
    BY <1>1 DEF UAddInput, AddInput
  <2>2. UNCHANGED Setup!rendererVars
    BY <2>1, NoRenderer
  <2>3. QED
    BY <2>1, <2>2 DEF Setup!AddInput
<1>2. ASSUME NEW t \in Types, NEW a \in Accesses, UAddResource(t, a) PROVE Setup!AddResource(t)
  <2>1. AddResource(t)
    BY <1>2 DEF UAddResource
  <2>2. ~built /\ built' = built
    BY <2>1 DEF AddResource
  <2>3. UNCHANGED Setup!rendererVars
    BY <2>2, NoRenderer
  <2>4. QED
    BY <2>1, <2>3 DEF AddResource, Setup!AddResource, Setup!NextHandle, NextHandle
<1>3. QED
  BY <1>1, <1>2

\* The Vulkan constructor up to its first copy: it returns if there is none.
LEMMA BeginSetup ==
  ASSUME UploadInv, Begin
  PROVE  Setup!Construct \/ UNCHANGED Setup!vars
<1>1. ~built /\ Arrange /\ built' = (ScratchJobs = <<>>)
  BY DEF Begin
<1>2. CASE ScratchJobs = <<>>
  <2>1. memory' = [static |-> [field \in {"vertices", "indices"} |-> [k \in DOMAIN StaticMemory[field] |-> Uninitialised]],
                   dynamic |-> DynamicMemory]
    BY DEF Begin
  <2>2. StaticMemory.indices = <<>> /\ InputsTyped
    BY <1>2, NothingToCopy DEF UploadInv, SetupInv, LayoutInv
  <2>3. memory' \in Memory /\ memory'["dynamic"] = DynamicMemory /\ memory'["static"] = StaticMemory
    BY <2>1, <2>2, BeginMemory
  <2>4. memory' = [static |-> StaticMemory, dynamic |-> DynamicMemory]
    BY <2>3 DEF Memory, Accesses
  <2>5. QED
    BY <1>1, <1>2, <2>4, Returns, Zenon
<1>3. CASE ScratchJobs # <<>>
  <2>1. built \in BOOLEAN
    BY DEF UploadInv, SetupInv, ResourceInv, ListTypes
  <2>2. built' = built /\ UNCHANGED <<frontend, builderVars>>
    BY <1>1, <1>3, <2>1 DEF Arrange
  <2>3. QED
    BY <1>1, <2>2, Unseen
<1>4. QED
  BY <1>2, <1>3

\* The end of a wait: after the last copy the constructor returns.
LEMMA WaitSetup ==
  ASSUME UploadInv, WaitCopy
  PROVE  Setup!Construct \/ UNCHANGED Setup!vars
<1>1. /\ at = "wait" /\ built' = (Tail(jobs) = <<>>)
      /\ UNCHANGED <<frontend, builderVars, rendererVars>>
  BY DEF WaitCopy, Proceed
<1>2. ~built /\ Arranged /\ built \in BOOLEAN
  BY <1>1 DEF UploadInv, ConstructorInv, SetupInv, ResourceInv, ListTypes
<1>3. CASE Tail(jobs) = <<>>
  <2>1. \A j : ~Has(Tail(jobs), j)
    <3>1. \A j : ~Has(<<>>, j)
      BY DEF Has
    <3>2. QED
      BY <1>3, <3>1, Zenon
  <2>2. \A j \in JobType : Has(ScratchJobs, j) => Done(j)
    BY <2>1, WaitFacts
  <2>3. AsConstructed
    BY <1>1, <2>2, Finished, SMTT(30)
  <2>4. /\ resources = StoredResources /\ bound = Bindings /\ RegionsTold
        /\ memory = [static |-> StaticMemory, dynamic |-> DynamicMemory]
    BY <1>2, <2>3, SMTT(30) DEF Arranged, AsConstructed
  <2>5. Arrange /\ memory' = [static |-> StaticMemory, dynamic |-> DynamicMemory]
    BY <1>1, <2>4, SMTT(30) DEF Arrange, RegionsTold, rendererVars
  <2>6. QED
    BY <1>1, <1>2, <1>3, <2>5, Returns, Zenon
<1>4. CASE Tail(jobs) # <<>>
  BY <1>1, <1>2, <1>4, Unseen, SMTT(30)
<1>5. QED
  BY <1>3, <1>4

\* An edit of a dynamic input.
LEMMA EditSetup ==
  ASSUME NEW h \in Handles, EditInput(h)
  PROVE  Setup!EditInput(h)
<1> DEFINE none == [a \in Setup!Accesses |-> [vertices |-> <<>>, indices |-> <<>>]]
           v == VertexRegion(h)
           Written(m, e) == [m EXCEPT !["dynamic"].vertices = [k \in DOMAIN @ |->
             IF v < k /\ k <= v + inputs[h].size.vertices THEN <<h, k - v, e>> ELSE @[k]]]
           seen == IF built THEN memory ELSE none
           seenEdits == IF built THEN edits ELSE <<>>
<1>1. /\ built /\ built' = built /\ h \in DynamicHandles /\ edits' = [edits EXCEPT ![h] = 1 - @]
      /\ UNCHANGED <<frontend, builderVars, resources, bound, overrun>>
  BY DEF EditInput
<1>2. memory' = Written(memory, edits'[h])
  BY DEF EditInput
<1>3. seen = memory /\ seen' = memory' /\ seenEdits = edits /\ seenEdits' = edits'
  BY <1>1
<1> HIDE DEF Written, v
<1>4. seen' = Written(seen, seenEdits'[h]) /\ seenEdits' = [seenEdits EXCEPT ![h] = 1 - @]
  BY <1>1, <1>2, <1>3
<1>5. v = Setup!VertexRegion(h)
  BY SetupRegions DEF v
<1>6. /\ (built /\ overrun)' = (built /\ overrun)
      /\ UNCHANGED <<IF built THEN resources ELSE <<>>, IF built THEN bound ELSE <<>>>>
      /\ UNCHANGED <<frontend, built, Setup!builderVars>>
  BY <1>1 DEF Setup!builderVars, builderVars
<1>7. h \in Setup!DynamicHandles
  BY <1>1, SetupHandles
<1>8. QED
  BY <1>1, <1>4, <1>5, <1>6, <1>7 DEF Setup!EditInput, Written

\* While the device has something to run, no renderer is there to be seen.
LEMMA ExecuteSetup ==
  ASSUME UploadInv, Execute
  PROVE  UNCHANGED Setup!vars
<1>1. queue # <<>> /\ UNCHANGED <<frontend, built, builderVars>>
  BY DEF Execute
<1>2. ~built
  BY <1>1 DEF UploadInv, UploadsArrive
<1>3. QED
  BY <1>1, <1>2, Unseen

\* Every step of Upload is a step of RendererSetup, or none.
LEMMA SetupStep == UploadInv /\ [UNext]_uvars => [Setup!Next]_(Setup!vars)
<1> SUFFICES ASSUME UploadInv, [UNext]_uvars PROVE Setup!Next \/ UNCHANGED Setup!vars
  OBVIOUS
<1>1. CASE UNCHANGED vars
  BY <1>1 DEF vars, builderVars, rendererVars, Setup!vars, Setup!builderVars, Setup!rendererVars
<1>2. ASSUME NEW a \in Accesses, NEW s \in Sizes, UAddInput(a, s) PROVE Setup!Next
  BY <1>2, BuilderSteps DEF Setup!Next, Setup!Accesses, Accesses
<1>3. ASSUME NEW t \in {"buffer", "texture"}, NEW a \in Accesses, UAddResource(t, a) PROVE Setup!Next
  BY <1>3, BuilderSteps DEF Setup!Next, Types
<1>4. ASSUME NEW h \in Handles, UEditInput(h) PROVE Setup!Next
  BY <1>4, EditSetup, SetupHandles DEF UEditInput, Setup!Next
<1>5. CASE ConstructOGL
  <2>1. Setup!Construct
    BY <1>5, Returns DEF ConstructOGL, Construct
  <2>2. QED
    BY <2>1, SMTT(30) DEF Setup!Next
<1>6. CASE Begin \/ WaitCopy
  BY <1>6, BeginSetup, WaitSetup DEF Setup!Next
<1>7. CASE Record \/ Submit \/ UNCHANGED uvars
  BY <1>1, <1>7, SMTT(30) DEF Record, Submit, uvars
<1>8. CASE Execute
  BY <1>8, ExecuteSetup, SMTT(30)
<1>9. QED
  BY <1>2, <1>3, <1>4, <1>5, <1>6, <1>7, <1>8 DEF UNext, Host

\* To the application, constructors that copy their data to the device job by
\* job, while the device runs at a time of its own, are the single step of
\* RendererSetup: what a renderer holds when its constructor returns, and ever
\* after, is what setup_buffers was to put there.
THEOREM UploadImplementsSetup == USpec => ImplementsSetup
<1>1. UInit => Setup!Init
  <2> SUFFICES ASSUME UInit PROVE Setup!Init
    OBVIOUS
  <2>1. /\ frontend \in {"vulkan", "opengl"} /\ built = FALSE /\ inputs = <<>> /\ added = <<>> /\ handles = <<>>
        /\ buffer_resources = <<>> /\ texture_resources = <<>>
    BY DEF UInit, Init
  <2>2. Setup!Accesses = Accesses
    BY DEF Setup!Accesses, Accesses
  <2>3. /\ (IF built THEN resources ELSE <<>>) = <<>> /\ (IF built THEN bound ELSE <<>>) = <<>>
        /\ (IF built THEN edits ELSE <<>>) = <<>> /\ (built /\ overrun) = FALSE
    BY <2>1
  <2>4. (IF built THEN memory ELSE [a \in Accesses |-> [vertices |-> <<>>, indices |-> <<>>]])
          = [a \in Setup!Accesses |-> [vertices |-> <<>>, indices |-> <<>>]]
    BY <2>1, <2>2
  <2>5. QED
    BY <2>1, <2>3, <2>4 DEF Setup!Init
<1>2. QED
  BY <1>1, SetupStep, UploadInvariance, PTL DEF USpec, ImplementsSetup, Setup!Spec

=============================================================================
