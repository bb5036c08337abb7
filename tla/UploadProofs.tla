----------------------------- MODULE UploadProofs -----------------------------
(***************************************************************************)
(* Proofs about the copies of a constructor, however many inputs, views    *)
(* and resources there are and whenever the device runs them: they do not  *)
(* disturb each other, and all of them arrive.                             *)
(***************************************************************************)
EXTENDS Upload, RendererSetupProofs, FiniteSetTheorems

\* The constructor holds at most one submission, and knows from where it is
\* whether the device may still be at work: only while it waits. The fence
\* tells the two halves of the wait apart.
CopyInv ==
  /\ fence \in BOOLEAN
  /\ \/ queue = <<>> /\ (at = "wait" => fence)
     \/ /\ at = "wait"
        /\ queue = <<[job |-> scratch, fence |-> TRUE]>>
        /\ staging = scratch
        /\ ~fence
  /\ at = "submit" => staging = scratch

\* Every step of the builder, the constructor, the device and the application
\* keeps the copies apart.
LEMMA CopyStep == ASSUME CopyInv, [UNext]_uvars PROVE CopyInv'
<1> USE DEF CopyInv
<1>1. CASE UNCHANGED uvars
  BY <1>1 DEF uvars, uploadVars
<1>2. ASSUME NEW a \in Accesses, NEW s \in Sizes, UAddInput(a, s) PROVE CopyInv'
  BY <1>2 DEF UAddInput, uploadVars
<1>3. ASSUME NEW t \in {"buffer", "texture"}, NEW a \in Accesses, UAddResource(t, a) PROVE CopyInv'
  BY <1>3 DEF UAddResource, copyVars
<1>4. CASE ConstructOGL
  BY <1>4 DEF ConstructOGL, copyVars
<1>5. CASE Begin
  <2>1. queue = <<>> /\ UNCHANGED <<scratch, staging, queue, fence>> /\ at' \in {"idle", "record"}
    BY <1>5 DEF Begin, copyVars
  <2> QED BY <2>1
<1>6. CASE Record
  <2>1. queue = <<>> /\ UNCHANGED <<queue, fence>> /\ at' = "submit" /\ staging' = scratch'
    BY <1>6 DEF Record
  <2> QED BY <2>1
<1>7. CASE Submit
  <2>1. queue = <<>> /\ at' = "wait" /\ fence' = FALSE /\ staging' = scratch' /\ staging = scratch
    BY <1>7 DEF Submit
  <2>2. queue' = <<[job |-> scratch', fence |-> TRUE]>>
    BY <1>7, <2>1 DEF Submit
  <2> QED BY <2>1, <2>2, Zenon
<1>8. CASE WaitCopy
  <2>1. queue = <<>> /\ UNCHANGED <<queue, fence>> /\ at' \in {"idle", "record"}
    BY <1>8 DEF WaitCopy, Proceed
  <2> QED BY <2>1
<1>9. CASE Execute
  <2>1. queue = <<[job |-> scratch, fence |-> TRUE]>> /\ at = "wait" /\ ~fence
    BY <1>9 DEF Execute
  <2>2. queue' = Tail(queue) /\ fence' = (fence \/ Head(queue).fence) /\ at' = at
    BY <1>9 DEF Execute
  <2>3. Head(queue).fence = TRUE /\ Tail(queue) = <<>>
    BY <2>1
  <2>4. fence' = TRUE
    BY <2>2, <2>3, Zenon
  <2> QED BY <2>1, <2>2, <2>3, <2>4
<1>10. ASSUME NEW h \in Handles, UEditInput(h) PROVE CopyInv'
  BY <1>10 DEF UEditInput, uploadVars
<1> QED
  BY <1>1, <1>2, <1>3, <1>4, <1>5, <1>6, <1>7, <1>8, <1>9, <1>10 DEF UNext, Host

\* While the device has a copy to run, its staging buffer exists, the scratch
\* command buffer still holds it and the fence is unsignalled: the waits of
\* record_and_run_scratch_commands and record_draw_list are enough.
THEOREM CopiesSafe == USpec => []CopiesUndisturbed
<1>1. UInit => CopyInv
  BY DEF UInit, CopyInv
<1>2. CopyInv => CopiesUndisturbed
  BY DEF CopyInv, CopiesUndisturbed
<1> QED BY <1>1, <1>2, CopyStep, PTL DEF USpec

-----------------------------------------------------------------------------
(* What the copies of a constructor achieve. *)

Has(list, e) == \E i \in 1 .. Len(list) : list[i] = e

\* The device has made a copy.
Done(j) ==
  /\ j.kind \in Fields => memory["static"][j.kind] = StaticMemory[j.kind]
  /\ IF j.kind = "resource" /\ j.n \in Textures THEN images[j.n] = "ShaderResource" ELSE j \in loaded

\* What a constructor has done before its first copy.
Arranged ==
  /\ frontend = "vulkan"
  /\ resources = StoredResources /\ bound = Bindings /\ sets = DescriptorSets
  /\ RegionsTold
  /\ memory["dynamic"] = DynamicMemory
  /\ StaticMemory.indices = <<>> => memory["static"] = StaticMemory
  /\ DOMAIN images = Textures
  /\ Mapped \subseteq loaded

\* Every copy is made or among the jobs, and the constructor moves on from
\* one that is made.
ConstructorInv ==
  at # "idle" =>
    /\ ~built
    /\ Arranged
    /\ at \in {"submit", "wait"} => scratch = Head(jobs)
    /\ at = "wait" /\ queue = <<>> => Done(Head(jobs))
    /\ \A j \in JobType : Has(ScratchJobs, j) => Done(j) \/ Has(jobs, j)

\* A builder without a renderer has no descriptor sets and no images.
NotBegun == at = "idle" /\ ~built => sets = <<>> /\ images = <<>>

\* No resource is twice in a list of the builder.
ListsDistinct ==
  /\ \A i, j \in 1 .. Len(buffer_resources) : buffer_resources[i] = buffer_resources[j] => i = j
  /\ \A i, j \in 1 .. Len(texture_resources) : texture_resources[i] = texture_resources[j] => i = j

UploadInv ==
  /\ SetupInv
  /\ UploadTypeOK
  /\ CopyInv
  /\ ListsDistinct
  /\ \A x \in Textures : accesses[x] = "static"
  /\ NotBegun
  /\ ConstructorInv
  /\ UploadsArrive
  /\ built /\ frontend = "vulkan" => sets = DescriptorSets

\* The elements of two lists put end to end.
LEMMA ConcatHas ==
  ASSUME NEW S, NEW s \in Seq(S), NEW t \in Seq(S), NEW e, Has(s, e) \/ Has(t, e)
  PROVE  Has(s \o t, e)
<1>1. Len(s \o t) = Len(s) + Len(t) /\ Len(s) \in Nat /\ Len(t) \in Nat
  BY ConcatFacts
<1>2. CASE Has(s, e)
  <2>1. PICK i \in 1 .. Len(s) : s[i] = e
    BY <1>2 DEF Has
  <2>2. (s \o t)[i] = e /\ i \in 1 .. Len(s \o t)
    BY <1>1, <2>1, ConcatFacts
  <2>3. QED
    BY <2>2 DEF Has
<1>3. CASE Has(t, e)
  <2>1. PICK i \in 1 .. Len(t) : t[i] = e
    BY <1>3 DEF Has
  <2>2. (s \o t)[Len(s) + i] = e /\ Len(s) + i \in 1 .. Len(s \o t)
    BY <1>1, <2>1, ConcatFacts
  <2>3. QED
    BY <2>2 DEF Has
<1>4. QED
  BY <1>2, <1>3

\* Copies of resources.
LEMMA CopiesFacts ==
  ASSUME NEW some \in Seq(1 .. MaxResources)
  PROVE  /\ Copies(some) \in Seq(JobType)
         /\ Len(Copies(some)) = Len(some)
         /\ \A x : Has(some, x) => Has(Copies(some), Job("resource", x))
<1> DEFINE R == 1 .. MaxResources
           job(i) == Job("resource", some[i])
<1>1. Len(some) \in Nat /\ DOMAIN some = 1 .. Len(some)
  OBVIOUS
<1>2. Copies(some) = [i \in 1 .. Len(some) |-> job(i)]
  BY <1>1 DEF Copies
<1>3. \A i \in 1 .. Len(some) : job(i) \in JobType
  <2> SUFFICES ASSUME NEW i \in 1 .. Len(some) PROVE job(i) \in JobType
    OBVIOUS
  <2>1. some[i] \in 1 .. MaxResources
    BY ElementOfSeq, Zenon
  <2>2. some[i] \in 0 .. MaxResources + 2
    BY <2>1, BoundsAssumption
  <2>3. QED
    BY <2>2 DEF Job, JobType
<1> HIDE DEF job
<1>4. Copies(some) \in Seq(JobType) /\ Len(Copies(some)) = Len(some)
  BY <1>1, <1>2, <1>3
<1>5. ASSUME NEW x, Has(some, x) PROVE Has(Copies(some), Job("resource", x))
  <2>1. PICK i \in 1 .. Len(some) : some[i] = x
    BY <1>5 DEF Has
  <2>2. Copies(some)[i] = Job("resource", x)
    BY <1>2, <2>1 DEF job
  <2>3. QED
    BY <1>4, <2>2 DEF Has
<1>6. QED
  BY <1>4, <1>5

\* The draw lists that a constructor uploads.
LEMMA DrawListsFacts ==
  /\ DrawLists \in Seq(JobType)
  /\ \A h \in Handles : inputs[h].access = "static" => Has(DrawLists, Job("draws", 1))
  /\ \A h \in Handles : inputs[h].access = "dynamic" => Has(DrawLists, Job("draws", 2))
<1> DEFINE A == \E h \in Handles : inputs[h].access = "static"
           B == \E h \in Handles : inputs[h].access = "dynamic"
           s == IF A THEN <<Job("draws", 1)>> ELSE <<>>
           t == IF B THEN <<Job("draws", 2)>> ELSE <<>>
<1>1. DrawLists = s \o t
  BY DEF DrawLists
<1>2. Job("draws", 1) \in JobType /\ Job("draws", 2) \in JobType
  BY BoundsAssumption DEF Job, JobType
<1>3. s \in Seq(JobType) /\ (A => Has(s, Job("draws", 1)))
  <2> HIDE DEF A
  <2>1. QED
    BY <1>2 DEF Has
<1>4. t \in Seq(JobType) /\ (B => Has(t, Job("draws", 2)))
  <2> HIDE DEF B
  <2>1. QED
    BY <1>2 DEF Has
<1> HIDE DEF s, t
<1>5. s \o t \in Seq(JobType) /\ (A => Has(s \o t, Job("draws", 1))) /\ (B => Has(s \o t, Job("draws", 2)))
  <2> HIDE DEF A, B
  <2>1. QED
    BY <1>3, <1>4, ConcatFacts, ConcatHas
<1>6. QED
  BY <1>1, <1>5

\* The copies of a constructor cover all static data, both draw lists, the
\* static buffers and the textures.
LEMMA ScratchFacts ==
  ASSUME ResourceInv, Len(added) <= MaxResources
  PROVE  /\ ScratchJobs \in Seq(JobType)
         /\ StaticMemory.indices # <<>> =>
              Has(ScratchJobs, Job("vertices", 1)) /\ Has(ScratchJobs, Job("indices", 1))
         /\ \A h \in Handles : inputs[h].access = "static" => Has(ScratchJobs, Job("draws", 1))
         /\ \A h \in Handles : inputs[h].access = "dynamic" => Has(ScratchJobs, Job("draws", 2))
         /\ \A x \in DOMAIN added :
              added[x] = "texture" \/ accesses[x] = "static" => Has(ScratchJobs, Job("resource", x))
<1> DEFINE R == 1 .. MaxResources
           W == {x \in DOMAIN added : accesses[x] = "static"}
           some == Filter(buffer_resources, W)
           rest == ResourceCopies
           s == StaticData
           d == DrawLists
<1>1. buffer_resources \in Seq(R) /\ texture_resources \in Seq(R)
  BY ListsTyped
<1>2. some \in Seq(R)
  <2> HIDE DEF W, R
  <2>1. some \in Seq(R \cap W)
    BY <1>1, FilterTyped
  <2> HIDE DEF some
  <2>2. \A i \in 1 .. Len(some) : some[i] \in R
    BY <2>1, ElementOfSeq
  <2>3. QED
    BY <2>1, <2>2, SeqTyped
<1>3. rest = Copies(some \o texture_resources)
  BY DEF ResourceCopies
<1>4. some \o texture_resources \in Seq(R)
  <2> HIDE DEF some, R
  <2>1. QED
    BY <1>1, <1>2, ConcatFacts
<1>5. rest \in Seq(JobType) /\ \A x : Has(some \o texture_resources, x) => Has(rest, Job("resource", x))
  BY <1>3, <1>4, CopiesFacts, Zenon
<1>6. ASSUME NEW x \in DOMAIN added, added[x] = "texture" \/ accesses[x] = "static"
      PROVE  Has(rest, Job("resource", x))
  <2>1. x \in 1 .. Len(added)
    BY DEF ResourceInv, ListTypes
  <2>2. CASE added[x] = "texture"
    <3>1. PICK i \in 1 .. Len(texture_resources) : texture_resources[i] = x
      BY <2>1, <2>2 DEF ResourceInv, Division
    <3>2. Has(texture_resources, x)
      BY <3>1 DEF Has
    <3> HIDE DEF some, R
    <3>3. Has(some \o texture_resources, x)
      BY <1>1, <1>2, <3>2, ConcatHas
    <3>4. QED
      BY <1>5, <3>3
  <2>3. CASE added[x] # "texture"
    <3>1. PICK i \in 1 .. Len(buffer_resources) : buffer_resources[i] = x
      BY <2>1, <2>3 DEF ResourceInv, Division
    <3>2. x \in W
      BY <1>6, <2>3
    <3> HIDE DEF W, R
    <3>3. \E j \in 1 .. Len(some) : some[j] = buffer_resources[i]
      BY <1>1, <3>1, <3>2, FilterMembers
    <3>4. Has(some, x)
      BY <3>1, <3>3 DEF Has
    <3> HIDE DEF some
    <3>5. Has(some \o texture_resources, x)
      BY <1>1, <1>2, <3>4, ConcatHas
    <3>6. QED
      BY <1>5, <3>5
  <2>4. QED
    BY <2>2, <2>3
<1>7. d \in Seq(JobType)
  BY DrawListsFacts
<1>8. /\ s \in Seq(JobType)
      /\ StaticMemory.indices # <<>> => Has(s, Job("vertices", 1)) /\ Has(s, Job("indices", 1))
  <2>1. Job("vertices", 1) \in JobType /\ Job("indices", 1) \in JobType
    BY BoundsAssumption DEF Job, JobType
  <2>2. CASE StaticMemory.indices = <<>>
    BY <2>2 DEF StaticData
  <2>3. CASE StaticMemory.indices # <<>>
    <3>1. s = <<Job("vertices", 1), Job("indices", 1)>>
      BY <2>3 DEF StaticData
    <3>2. Len(s) = 2 /\ s[1] = Job("vertices", 1) /\ s[2] = Job("indices", 1)
      BY <3>1
    <3>3. QED
      BY <2>1, <3>1, <3>2 DEF Has
  <2>4. QED
    BY <2>2, <2>3
<1>9. ScratchJobs = (s \o d) \o rest
  BY DEF ScratchJobs
<1> HIDE DEF s, d, rest
<1>10. s \o d \in Seq(JobType) /\ \A j : Has(s, j) \/ Has(d, j) => Has(s \o d, j)
  BY <1>7, <1>8, ConcatFacts, ConcatHas
<1> DEFINE sd == s \o d
<1> HIDE DEF sd
<1>11. /\ sd \o rest \in Seq(JobType)
       /\ \A j : Has(sd, j) \/ Has(rest, j) => Has(sd \o rest, j)
  BY <1>5, <1>10, ConcatFacts, ConcatHas, Zenon DEF sd
<1>12. /\ ScratchJobs \in Seq(JobType)
       /\ \A j : Has(s, j) \/ Has(d, j) \/ Has(rest, j) => Has(ScratchJobs, j)
  BY <1>9, <1>10, <1>11 DEF sd
<1>13. QED
  BY <1>6, <1>8, <1>12, DrawListsFacts DEF d

\* Multiplication by the number of views keeps an order.
LEMMA TimesViews ==
  ASSUME NEW m \in Nat, NEW n \in Nat, m <= n
  PROVE  Views * m <= Views * n
<1>1. Views \in Nat /\ n - m \in Nat
  BY ViewsAssumption
<1>2. Views * (n - m) \in Nat
  BY <1>1
<1>3. Views * n = Views * m + Views * (n - m)
  BY <1>1
<1>4. Views * m \in Nat /\ Views * n \in Nat
  BY <1>1
<1>5. QED
  BY <1>2, <1>3, <1>4

\* A descriptor pool of with_size per resource and view has room for one set
\* per view: each binding of a type stands for another resource of the type.
LEMMA PoolSuffices ==
  ASSUME ResourceInv, ListsDistinct, NumResources # 0
  PROVE  PoolHolds
<1> DEFINE nb == Len(buffer_resources)
           nt == Len(texture_resources)
<1>1. /\ nb \in Nat /\ nt \in Nat /\ Len(added) \in Nat /\ DOMAIN added = 1 .. Len(added)
      /\ NumResources = nb + nt
  BY DEF ResourceInv, ListTypes, NumResources
<1>2. Views <= MaxSets
  <2>1. Views * 1 <= Views * NumResources
    BY <1>1, TimesViews
  <2>2. Views * 1 = Views
    BY ViewsAssumption
  <2>3. QED
    BY <2>1, <2>2 DEF MaxSets
<1>3. ASSUME NEW type \in {"buffer", "texture"}
      PROVE  Views * Cardinality({b \in DOMAIN Bindings : LayoutType(b) = type}) <= PoolSize(type)
  <2> DEFINE B == {b \in DOMAIN Bindings : LayoutType(b) = type}
             X == {x \in DOMAIN added : added[x] = type}
             f == [b \in B |-> Bindings[b]]
  <2>1. IsFiniteSet(X)
    <3>1. IsFiniteSet(1 .. Len(added)) /\ X \subseteq 1 .. Len(added)
      BY <1>1, FS_Interval
    <3> HIDE DEF X
    <3>2. QED
      BY <3>1, FS_Subset, Zenon
  <2>2. ASSUME NEW b \in B
        PROVE  /\ b \in 0 .. nb + nt - 1
               /\ type = "buffer" => b + 1 \in 1 .. nb /\ Bindings[b] = buffer_resources[b + 1]
               /\ type = "texture" => b - nb + 1 \in 1 .. nt /\ Bindings[b] = texture_resources[b - nb + 1]
    <3>1. b \in 0 .. nb + nt - 1
      BY DEF Bindings
    <3>2. b < nb <=> type = "buffer"
      BY DEF LayoutType
    <3>3. Bindings[b] = IF b < nb THEN buffer_resources[b + 1] ELSE texture_resources[b - nb + 1]
      BY <3>1 DEF Bindings
    <3> HIDE DEF nb, nt, B
    <3>4. QED
      BY <1>1, <3>1, <3>2, <3>3
  <2>3. \A b \in B : Bindings[b] \in X
    BY <1>1, <2>2 DEF ResourceInv, Division
  <2>4. ASSUME NEW a \in B, NEW b \in B, Bindings[a] = Bindings[b] PROVE a = b
    <3>1. CASE type = "buffer"
      <4>1. a + 1 = b + 1
        BY <2>2, <2>4, <3>1 DEF ListsDistinct
      <4>2. QED
        BY <2>2, <4>1
    <3>2. CASE type = "texture"
      <4>1. a - nb + 1 = b - nb + 1
        BY <2>2, <2>4, <3>2 DEF ListsDistinct
      <4>2. QED
        BY <1>1, <2>2, <4>1
    <3>3. QED
      BY <3>1, <3>2
  <2>5. f \in Injection(B, X)
    <3> HIDE DEF B, X
    <3>1. QED
      BY <2>3, <2>4 DEF Injection, IsInjective
  <2> HIDE DEF B, X, f
  <2>6. IsFiniteSet(B) /\ Cardinality(B) <= Cardinality(X)
    BY <2>1, <2>5, FS_Injection
  <2>7. Cardinality(B) \in Nat /\ Cardinality(X) \in Nat
    BY <2>1, <2>6, FS_CardinalityType
  <2>8. Views * Cardinality(B) <= Views * Cardinality(X)
    BY <2>6, <2>7, TimesViews
  <2>9. QED
    BY <2>8 DEF PoolSize, B, X
<1>4. QED
  BY <1>2, <1>3 DEF PoolHolds

-----------------------------------------------------------------------------
(* The steps. *)

BuilderSame == UNCHANGED <<frontend, inputs, added, accesses, buffer_resources, texture_resources>>

SetsMade == built /\ frontend = "vulkan" => sets = DescriptorSets

\* What the constructor derives from the builder.
LEMMA SameBuilder ==
  ASSUME BuilderSame
  PROVE  /\ Handles' = Handles /\ Textures' = Textures /\ Mapped' = Mapped
         /\ StaticMemory' = StaticMemory /\ DynamicMemory' = DynamicMemory
         /\ StoredResources' = StoredResources /\ Bindings' = Bindings /\ NumResources' = NumResources
         /\ DescriptorSets' = DescriptorSets
         /\ ScratchJobs' = ScratchJobs
<1> USE DEF BuilderSame
<1>1. Handles' = Handles /\ StaticMemory' = StaticMemory /\ DynamicMemory' = DynamicMemory
  BY SameInputs, SameData
<1>2. Textures' = Textures /\ Mapped' = Mapped
  BY DEF Textures, Mapped
<1>3. StoredResources' = StoredResources /\ Bindings' = Bindings /\ NumResources' = NumResources
  BY DEF StoredResources, Bindings, NumResources
<1>4. PoolHolds' = PoolHolds
  BY <1>3 DEF PoolHolds, MaxSets, PoolSize, LayoutType
<1>5. DescriptorSets' = DescriptorSets
  BY <1>3, <1>4 DEF DescriptorSets
<1>6. ScratchJobs' = ScratchJobs
  <2>1. StaticData' = StaticData
    BY <1>1 DEF StaticData
  <2>2. DrawLists' = DrawLists
    BY <1>1 DEF DrawLists
  <2>3. ResourceCopies' = ResourceCopies
    BY DEF ResourceCopies, Copies
  <2>4. QED
    BY <2>1, <2>2, <2>3 DEF ScratchJobs
<1>7. QED
  BY <1>1, <1>2, <1>3, <1>5, <1>6

\* What is left to show of a step that is not one of the builder.
LEMMA BuilderKept ==
  ASSUME UploadInv, BuilderSame, SetupInv', UploadTypeOK', CopyInv', NotBegun', ConstructorInv',
         UploadsArrive', SetsMade'
  PROVE  UploadInv'
<1>1. ListsDistinct'
  BY DEF UploadInv, ListsDistinct, BuilderSame
<1>2. (\A x \in Textures : accesses[x] = "static")'
  BY SameBuilder DEF UploadInv, BuilderSame
<1>3. QED
  BY <1>1, <1>2 DEF UploadInv, SetsMade

\* The arrangement outlasts the copies.
LEMMA ArrangedKept ==
  ASSUME BuilderSame, Arranged, UNCHANGED <<resources, bound, sets, overrun, edits, images, loaded>>, memory' = memory
  PROVE  Arranged'
<1>1. RegionsTold'
  BY SameData DEF Arranged, RegionsTold, BuilderSame
<1>2. QED
  BY <1>1, SameBuilder DEF Arranged, BuilderSame

\* While nothing is under construction nothing is pending.
LEMMA IdleFacts ==
  ASSUME UploadInv, at = "idle"
  PROVE  queue = <<>> /\ jobs = <<>>
  BY DEF UploadInv, CopyInv, UploadTypeOK

\* Adding an input.
LEMMA UAddInputStep ==
  ASSUME UploadInv, NEW a \in Accesses, NEW s \in Sizes, UAddInput(a, s)
  PROVE  UploadInv'
<1>1. /\ at = "idle" /\ ~built /\ AddInput(a, s) /\ UNCHANGED uploadVars
      /\ UNCHANGED <<frontend, built, added, buffer_resources, texture_resources, bound>>
  BY DEF UAddInput, AddInput, rendererVars
<1>2. SetupInv'
  BY <1>1, NextSetupInv DEF UploadInv, Next
<1>3. CopyInv'
  BY CopyStep DEF UploadInv, UNext
<1>4. Textures' = Textures
  BY <1>1 DEF Textures
<1>5. UploadTypeOK'
  BY <1>1, <1>4 DEF UploadInv, UploadTypeOK, uploadVars
<1>6. ListsDistinct' /\ (\A x \in Textures : accesses[x] = "static")'
  BY <1>1, <1>4 DEF UploadInv, ListsDistinct, uploadVars
<1>7. NotBegun' /\ ConstructorInv' /\ UploadsArrive'
  BY <1>1 DEF UploadInv, NotBegun, ConstructorInv, UploadsArrive, uploadVars
<1>8. QED
  BY <1>1, <1>2, <1>3, <1>5, <1>6, <1>7 DEF UploadInv

\* Adding a resource.
LEMMA UAddResourceStep ==
  ASSUME UploadInv, NEW t \in Types, NEW a \in Accesses, UAddResource(t, a)
  PROVE  UploadInv'
<1> DEFINE x == Len(added) + 1
<1>1. /\ at = "idle" /\ ~built /\ AddResource(t) /\ accesses' = Append(accesses, a)
      /\ UNCHANGED <<at, jobs, copyVars, loaded, images, sets>>
      /\ UNCHANGED <<frontend, built, bound>> /\ added' = Append(added, t)
      /\ t = "texture" => a = "static"
  BY DEF UAddResource, AddResource, rendererVars
<1>2. SetupInv'
  BY <1>1, NextSetupInv DEF UploadInv, Next, Types
<1>3. CopyInv'
  BY CopyStep DEF UploadInv, UNext, Types
<1>4. /\ added \in Seq(Types) /\ Len(added) \in Nat /\ accesses \in Seq(Accesses) /\ Len(accesses) = Len(added)
      /\ buffer_resources \in Seq(Nat) /\ texture_resources \in Seq(Nat) /\ Division
  BY SMTT(20) DEF UploadInv, SetupInv, ResourceInv, ListTypes, UploadTypeOK
<1>5. /\ accesses' \in Seq(Accesses) /\ Len(accesses') = x /\ Len(added') = x
      /\ DOMAIN added' = 1 .. x
      /\ \A y \in 1 .. Len(added) : accesses'[y] = accesses[y] /\ added'[y] = added[y]
      /\ accesses'[x] = a /\ added'[x] = t
  <2>1. added' \in Seq(Types) /\ Len(added') = x
    BY <1>1, <1>4, AppendFacts
  <2>2. QED
    BY <1>1, <1>4, <2>1, AppendFacts
<1>6. images' = <<>> /\ sets' = <<>>
  BY <1>1 DEF UploadInv, NotBegun
<1>7. UploadTypeOK'
  BY <1>1, <1>5, <1>6 DEF UploadInv, UploadTypeOK, copyVars
<1>8. ListsDistinct'
  <2>1. \/ buffer_resources' = Append(buffer_resources, x) /\ texture_resources' = texture_resources
        \/ texture_resources' = Append(texture_resources, x) /\ buffer_resources' = buffer_resources
    BY <1>1 DEF AddResource
  <2>2. ASSUME NEW l \in Seq(Nat), \A i \in 1 .. Len(l) : l[i] \in 1 .. Len(added),
               \A i, j \in 1 .. Len(l) : l[i] = l[j] => i = j
        PROVE  \A i, j \in 1 .. Len(Append(l, x)) : Append(l, x)[i] = Append(l, x)[j] => i = j
    <3>1. \A i \in 1 .. Len(l) : Append(l, x)[i] = l[i] /\ l[i] # x
      BY <1>4, <2>2
    <3>2. Len(Append(l, x)) = Len(l) + 1 /\ Append(l, x)[Len(l) + 1] = x /\ Len(l) \in Nat
      BY <1>4
    <3> HIDE DEF x
    <3>3. \A i \in 1 .. Len(l) + 1 : i \in 1 .. Len(l) \/ i = Len(l) + 1
      BY <3>2
    <3>4. QED
      BY <2>2, <3>1, <3>2, <3>3
  <2>3. /\ \A i \in 1 .. Len(buffer_resources) : buffer_resources[i] \in 1 .. Len(added)
        /\ \A i \in 1 .. Len(texture_resources) : texture_resources[i] \in 1 .. Len(added)
    BY <1>4 DEF Division
  <2>4. QED
    BY <1>4, <2>1, <2>2, <2>3, Zenon DEF UploadInv, ListsDistinct
<1>9. (\A y \in Textures : accesses[y] = "static")'
  <2> SUFFICES ASSUME NEW y \in 1 .. x, added'[y] = "texture" PROVE accesses'[y] = "static"
    BY <1>5 DEF Textures
  <2>1. CASE y = x
    BY <1>1, <1>5, <2>1
  <2>2. CASE y # x
    <3>1. y \in 1 .. Len(added) /\ DOMAIN added = 1 .. Len(added)
      BY <1>4, <2>2
    <3>2. QED
      BY <1>5, <3>1 DEF UploadInv, Textures
  <2>3. QED
    BY <2>1, <2>2
<1>10. NotBegun' /\ ConstructorInv' /\ UploadsArrive'
  BY <1>1, <1>6 DEF NotBegun, ConstructorInv, UploadsArrive
<1>11. QED
  BY <1>1, <1>2, <1>3, <1>7, <1>8, <1>9, <1>10, Zenon DEF UploadInv

\* The constructor of the OpenGL frontend takes all data at once.
LEMMA ConstructOGLStep ==
  ASSUME UploadInv, ConstructOGL
  PROVE  UploadInv'
<1> DEFINE c == Copies(StoredResources)
           all == DrawLists \o c
<1>1. /\ frontend = "opengl" /\ Construct /\ built' = TRUE
      /\ loaded' = { all[i] : i \in 1 .. Len(DrawLists \o StoredResources) }
      /\ UNCHANGED <<accesses, at, jobs, copyVars, images, sets>>
      /\ UNCHANGED <<frontend, inputs, added, buffer_resources, texture_resources>>
  BY DEF ConstructOGL, Construct, Arrange, builderVars
<1>2. at = "idle" /\ ~built
  BY <1>1 DEF UploadInv, ConstructorInv, Arranged, Construct
<1>3. queue = <<>> /\ sets = <<>> /\ images = <<>>
  BY <1>2, IdleFacts DEF UploadInv, NotBegun
<1>4. SetupInv'
  BY <1>1, NextSetupInv DEF UploadInv, Next
<1>5. CopyInv'
  BY CopyStep DEF UploadInv, UNext
<1>6. BuilderSame
  BY <1>1 DEF BuilderSame
<1>7. ResourceInv /\ Len(added) <= MaxResources
  BY DEF UploadInv, SetupInv
<1>8. StoredResources \in Seq(1 .. MaxResources)
  BY <1>7, ListsTyped
<1>9. c \in Seq(JobType) /\ Len(c) = Len(StoredResources) /\ \A x : Has(StoredResources, x) => Has(c, Job("resource", x))
  BY <1>8, CopiesFacts
<1>10. DrawLists \in Seq(JobType)
  BY DrawListsFacts
<1> HIDE DEF c
<1>11. /\ all \in Seq(JobType)
       /\ \A j : Has(DrawLists, j) \/ Has(c, j) => Has(all, j)
  BY <1>9, <1>10, ConcatFacts, ConcatHas
<1>12. Len(DrawLists \o StoredResources) = Len(all)
  BY <1>8, <1>9, <1>10
<1> HIDE DEF all
<1>13. loaded' = { all[i] : i \in 1 .. Len(all) }
  BY <1>1, <1>12
<1>14. loaded' \subseteq JobType /\ \A j : Has(all, j) => j \in loaded'
  <2>1. \A i \in 1 .. Len(all) : all[i] \in JobType
    BY <1>11, ElementOfSeq
  <2>2. QED
    BY <1>13, <2>1 DEF Has
<1>15. Textures' = Textures /\ Handles' = Handles
  BY <1>6, SameBuilder
<1>16. UploadTypeOK'
  BY <1>1, <1>3, <1>14, <1>15, SMTT(30) DEF UploadInv, UploadTypeOK, copyVars
<1>17. NotBegun' /\ ConstructorInv' /\ SetsMade'
  BY <1>1, <1>2 DEF NotBegun, ConstructorInv, SetsMade
<1>18. ASSUME NEW x \in DOMAIN added, added[x] = "buffer" PROVE Job("resource", x) \in loaded'
  <2>1. x \in 1 .. Len(added) /\ buffer_resources \in Seq(1 .. MaxResources) /\ texture_resources \in Seq(1 .. MaxResources)
    BY <1>7, ListsTyped DEF ResourceInv, ListTypes
  <2>2. \E i \in 1 .. Len(buffer_resources) : buffer_resources[i] = x
    BY <1>7, <1>18, <2>1, Zenon DEF ResourceInv, Division
  <2>3. Has(buffer_resources, x)
    BY <2>2 DEF Has
  <2>4. Has(StoredResources, x)
    BY <2>1, <2>3, ConcatHas DEF StoredResources
  <2>5. QED
    BY <1>9, <1>11, <1>14, <2>4
<1>19. ASSUME NEW h \in Handles PROVE Job("draws", IF inputs[h].access = "static" THEN 1 ELSE 2) \in loaded'
  <2>1. inputs[h].access = "static" \/ inputs[h].access = "dynamic"
    BY InputFacts DEF UploadInv, SetupInv, LayoutInv, Accesses, Fields
  <2>2. Has(DrawLists, Job("draws", IF inputs[h].access = "static" THEN 1 ELSE 2))
    BY <2>1, DrawListsFacts
  <2>3. QED
    BY <1>11, <1>14, <2>2
<1>20. UploadsArrive'
  BY <1>1, <1>3, <1>15, <1>18, <1>19 DEF UploadsArrive, copyVars
<1>21. QED
  BY <1>4, <1>5, <1>6, <1>16, <1>17, <1>20, BuilderKept

\* Recording a copy.
LEMMA RecordStep ==
  ASSUME UploadInv, Record
  PROVE  UploadInv'
<1>1. /\ at = "record" /\ at' = "submit" /\ scratch' = Head(jobs) /\ staging' = Head(jobs)
      /\ UNCHANGED <<vars, accesses, jobs, queue, fence, loaded, images, sets>>
  BY DEF Record
<1>2. /\ UNCHANGED <<frontend, built, inputs, added, buffer_resources, texture_resources, bound, resources>>
      /\ UNCHANGED <<memory, edits, overrun>>
  BY <1>1 DEF vars, builderVars, rendererVars
<1>3. BuilderSame
  BY <1>1, <1>2 DEF BuilderSame
<1>4. SetupInv'
  BY <1>1, NextSetupInv DEF UploadInv
<1>5. CopyInv'
  BY CopyStep DEF UploadInv, UNext, Host
<1>6. jobs \in Seq(JobType) /\ jobs # <<>> /\ Head(jobs) \in JobType
  BY <1>1 DEF UploadInv, UploadTypeOK
<1>7. Textures' = Textures /\ ScratchJobs' = ScratchJobs /\ StaticMemory' = StaticMemory
  BY <1>3, SameBuilder
<1>8. UploadTypeOK'
  BY <1>1, <1>2, <1>6, <1>7 DEF UploadInv, UploadTypeOK
<1>9. ~built /\ Arranged
  BY <1>1 DEF UploadInv, ConstructorInv
<1>10. Arranged'
  BY <1>1, <1>2, <1>3, <1>9, ArrangedKept
<1>11. \A j : Done(j)' = Done(j)
  BY <1>1, <1>2, <1>7 DEF Done
<1>12. ConstructorInv'
  BY <1>1, <1>2, <1>7, <1>9, <1>10, <1>11 DEF UploadInv, ConstructorInv
<1>13. NotBegun' /\ UploadsArrive' /\ SetsMade'
  BY <1>1, <1>2, <1>9 DEF NotBegun, UploadsArrive, SetsMade
<1>14. QED
  BY <1>3, <1>4, <1>5, <1>8, <1>12, <1>13, BuilderKept

\* Submitting it.
LEMMA SubmitStep ==
  ASSUME UploadInv, Submit
  PROVE  UploadInv'
<1>1. /\ at = "submit" /\ at' = "wait" /\ queue' = Append(queue, [job |-> scratch, fence |-> TRUE]) /\ fence' = FALSE
      /\ UNCHANGED <<vars, accesses, jobs, scratch, staging, loaded, images, sets>>
  BY DEF Submit
<1>2. /\ UNCHANGED <<frontend, built, inputs, added, buffer_resources, texture_resources, bound, resources>>
      /\ UNCHANGED <<memory, edits, overrun>>
  BY <1>1 DEF vars, builderVars, rendererVars
<1>3. BuilderSame
  BY <1>1, <1>2 DEF BuilderSame
<1>4. SetupInv'
  BY <1>1, NextSetupInv DEF UploadInv
<1>5. CopyInv'
  BY CopyStep DEF UploadInv, UNext, Host
<1>6. queue = <<>> /\ queue' = <<[job |-> scratch, fence |-> TRUE]>> /\ scratch \in JobType
  <2>1. queue = <<>>
    BY <1>1 DEF UploadInv, CopyInv
  <2>2. scratch \in JobType
    BY DEF UploadInv, UploadTypeOK
  <2>3. QED
    BY <1>1, <2>1, <2>2
<1>7. Textures' = Textures /\ ScratchJobs' = ScratchJobs /\ StaticMemory' = StaticMemory
  BY <1>3, SameBuilder
<1>8. queue' \in Seq([job : JobType, fence : BOOLEAN]) /\ Len(queue') <= 1
  BY <1>6
<1>9. UploadTypeOK'
  BY <1>1, <1>2, <1>7, <1>8, Zenon DEF UploadInv, UploadTypeOK
<1>10. ~built /\ Arranged
  BY <1>1 DEF UploadInv, ConstructorInv
<1>11. Arranged'
  BY <1>1, <1>2, <1>3, <1>10, ArrangedKept
<1>12. \A j : Done(j)' = Done(j)
  BY <1>1, <1>2, <1>7 DEF Done
<1>13. queue' # <<>>
  BY <1>6
<1>14. ConstructorInv'
  BY <1>1, <1>2, <1>7, <1>10, <1>11, <1>12, <1>13 DEF UploadInv, ConstructorInv
<1>15. NotBegun' /\ UploadsArrive' /\ SetsMade'
  BY <1>1, <1>2, <1>10 DEF NotBegun, UploadsArrive, SetsMade
<1>16. QED
  BY <1>3, <1>4, <1>5, <1>9, <1>14, <1>15, BuilderKept

\* The descriptor sets of all views.
LEMMA SetsTyped == DescriptorSets \in Seq({<<>>, Bindings})
<1> DEFINE one == IF PoolHolds THEN Bindings ELSE <<>>
           some == [v \in 1 .. Views |-> one]
           S == {<<>>, Bindings}
<1>1. Views \in Nat /\ one \in S
  BY ViewsAssumption
<1>2. DescriptorSets = IF NumResources = 0 THEN <<>> ELSE some
  BY DEF DescriptorSets
<1> HIDE DEF one, S
<1>3. some \in Seq(S)
  BY <1>1
<1> HIDE DEF some
<1>4. DescriptorSets \in Seq(S)
  BY <1>2, <1>3
<1>5. QED
  BY <1>4 DEF S

\* The memory of a renderer whose static data is yet to be copied.
LEMMA BeginMemory ==
  ASSUME InputsTyped, NEW m,
         m = [static |-> [field \in {"vertices", "indices"} |-> [k \in DOMAIN StaticMemory[field] |-> Uninitialised]],
              dynamic |-> DynamicMemory]
  PROVE  /\ m \in Memory /\ m["dynamic"] = DynamicMemory
         /\ StaticMemory.indices = <<>> => m["static"] = StaticMemory
<1> DEFINE Buffers == [vertices : Seq(Cells), indices : Seq(Cells)]
           blank(field) == [k \in DOMAIN StaticMemory[field] |-> Uninitialised]
           st == [field \in {"vertices", "indices"} |-> blank(field)]
<1>1. \A field \in Fields : StaticMemory[field] \in Seq(Cells)
  <2>1. \A field \in Fields : StaticMemory[field] = Compiled("static", field, Len(inputs))
    BY DEF StaticMemory, Fields
  <2>2. Len(inputs) \in 0 .. Len(inputs)
    BY DEF InputsTyped
  <2>3. QED
    BY <2>1, <2>2, CompiledFacts, Zenon
<1>2. ASSUME NEW field \in Fields PROVE blank(field) \in Seq(Cells)
  <2> DEFINE data == StaticMemory[field]
  <2>1. data \in Seq(Cells) /\ Uninitialised \in Cells
    BY <1>1 DEF Uninitialised, Cells
  <2>2. DOMAIN data = 1 .. Len(data) /\ Len(data) \in Nat
    BY <2>1
  <2> HIDE DEF data
  <2>3. [k \in 1 .. Len(data) |-> Uninitialised] \in Seq(Cells)
    BY <2>1, <2>2
  <2>4. QED
    BY <2>2, <2>3 DEF data
<1>3. st \in Buffers
  <2> HIDE DEF blank
  <2>1. QED
    BY <1>2 DEF Fields
<1>4. DynamicMemory \in Buffers
  <2>1. "vertices" \in Fields /\ "indices" \in Fields
    BY DEF Fields
  <2>2. Fresh("vertices") \in Seq(Cells) /\ Fresh("indices") \in Seq(Cells)
    BY <2>1, FreshFacts
  <2>3. /\ Copied(Fresh("vertices"), "vertices", [h \in Handles |-> VertexRegion(h)]) \in Seq(Cells)
        /\ Copied(Fresh("indices"), "indices", [h \in Handles |-> IndexRegion(h)]) \in Seq(Cells)
    BY <2>1, <2>2, RegionsTyped, CopiedFacts
  <2>4. QED
    BY <2>3 DEF DynamicMemory
<1>5. Memory = [{"static", "dynamic"} -> Buffers]
  BY DEF Memory, Accesses, Cells
<1>6. m = [static |-> st, dynamic |-> DynamicMemory]
  OBVIOUS
<1>7. ASSUME StaticMemory.indices = <<>> PROVE st = StaticMemory
  <2>1. StaticMemory = [field \in {"vertices", "indices"} |-> <<>>]
    BY <1>7, NoStaticData DEF Fields
  <2>2. \A field \in {"vertices", "indices"} : blank(field) = <<>>
    BY <2>1
  <2> HIDE DEF blank
  <2>3. QED
    BY <2>1, <2>2
<1> HIDE DEF st, Buffers
<1>8. m["static"] = st /\ m["dynamic"] = DynamicMemory /\ m \in Memory
  BY <1>3, <1>4, <1>5, <1>6
<1>9. QED
  BY <1>7, <1>8, SMTT(30)

\* A constructor without a copy to make has no inputs, and no resources but
\* dynamic buffers.
LEMMA NothingToCopy ==
  ASSUME UploadInv, ScratchJobs = <<>>
  PROVE  /\ StaticMemory.indices = <<>>
         /\ Handles = {}
         /\ \A x \in DOMAIN added : added[x] # "texture" /\ accesses[x] # "static"
<1>1. ResourceInv /\ Len(added) <= MaxResources /\ InputsTyped
  BY DEF UploadInv, SetupInv, LayoutInv
<1>2. \A j : ~Has(ScratchJobs, j)
  BY DEF Has
<1>3. \A h \in Handles : inputs[h].access = "static" \/ inputs[h].access = "dynamic"
  BY <1>1, InputFacts DEF Accesses, Fields
<1>4. QED
  BY <1>1, <1>2, <1>3, ScratchFacts

\* The constructor of the Vulkan frontend before its first copy.
LEMMA BeginStep ==
  ASSUME UploadInv, Begin
  PROVE  UploadInv'
<1>1. /\ frontend = "vulkan" /\ at = "idle" /\ ~built /\ Arrange
      /\ images' = [x \in Textures |-> "Undefined"] /\ sets' = DescriptorSets /\ loaded' = Mapped
      /\ jobs' = ScratchJobs /\ at' = (IF ScratchJobs = <<>> THEN "idle" ELSE "record")
      /\ built' = (ScratchJobs = <<>>)
      /\ UNCHANGED <<accesses, copyVars>>
  BY DEF Begin
<1>2. /\ UNCHANGED <<frontend, inputs, added, handles, buffer_resources, texture_resources>>
      /\ resources' = StoredResources /\ bound' = Bindings
  BY <1>1 DEF Arrange, builderVars
<1>3. BuilderSame
  BY <1>1, <1>2 DEF BuilderSame
<1>4. /\ Handles' = Handles /\ Textures' = Textures /\ Mapped' = Mapped
      /\ StaticMemory' = StaticMemory /\ DynamicMemory' = DynamicMemory
      /\ StoredResources' = StoredResources /\ Bindings' = Bindings
      /\ DescriptorSets' = DescriptorSets /\ ScratchJobs' = ScratchJobs
  BY <1>3, SameBuilder
<1>5. ResourceInv /\ Len(added) <= MaxResources /\ InputsTyped /\ frontend \in {"vulkan", "opengl"}
  BY DEF UploadInv, SetupInv, LayoutInv
<1>6. queue = <<>>
  BY <1>1, IdleFacts
<1>7. /\ memory' \in Memory /\ memory'["dynamic"] = DynamicMemory
      /\ StaticMemory.indices = <<>> => memory'["static"] = StaticMemory
  <2>1. memory' = [static |-> [field \in {"vertices", "indices"} |-> [k \in DOMAIN StaticMemory[field] |-> Uninitialised]],
                   dynamic |-> DynamicMemory]
    BY DEF Begin
  <2>2. QED
    BY <1>5, <2>1, BeginMemory
<1>8. RegionsTold'
  BY <1>1, <1>2, SameData DEF Arrange
<1>9. ScratchJobs \in Seq(JobType)
  BY <1>5, ScratchFacts
<1>10. ASSUME ScratchJobs = <<>>
       PROVE  /\ StaticMemory.indices = <<>>
              /\ Handles = {}
              /\ \A x \in DOMAIN added : added[x] # "texture" /\ accesses[x] # "static"
  BY <1>10, NothingToCopy
<1>11. ASSUME built' PROVE Laid'
  <2>1. memory' = [static |-> StaticMemory, dynamic |-> DynamicMemory]
    <3>1. memory'["static"] = StaticMemory
      BY <1>1, <1>7, <1>10, <1>11, Zenon
    <3>2. QED
      BY <1>7, <3>1 DEF Memory, Accesses
  <2>2. AsConstructed' /\ InputsTyped'
    BY <1>2, <1>4, <1>5, <1>8, <2>1 DEF AsConstructed, InputsTyped
  <2>3. (InputsTyped /\ AsConstructed => Laid /\ memory \in Memory /\ overrun \in BOOLEAN)'
    BY ConstructedLaid, PTL
  <2>4. QED
    BY <2>2, <2>3
<1>12. SetupInv'
  <2>1. Transferred' /\ built' \in BOOLEAN
    BY <1>1, <1>2, <1>4 DEF Transferred
  <2>2. ResourceInv'
    BY <1>2, <1>5, <2>1, ResourceKept
  <2>3. KeptTyped'
    BY <1>1, <1>5, ArrangeTyped
  <2>4. LayoutInv'
    BY <1>2, <1>5, <1>7, <1>11 DEF LayoutInv, InputsTyped
  <2>5. overrun' \in BOOLEAN
    BY <1>8 DEF RegionsTold
  <2>6. QED
    BY <1>2, <1>5, <2>2, <2>3, <2>4, <2>5 DEF SetupInv
<1>13. CopyInv'
  BY CopyStep DEF UploadInv, UNext, Host
<1>14. UploadTypeOK'
  <2>1. /\ accesses' \in Seq(Accesses) /\ Len(accesses') = Len(added') /\ {scratch', staging'} \subseteq JobType
        /\ queue' \in Seq([job : JobType, fence : BOOLEAN]) /\ Len(queue') <= 1 /\ fence' \in BOOLEAN
    BY <1>1, <1>2 DEF UploadInv, UploadTypeOK, copyVars
  <2>2. at' \in {"idle", "record", "submit", "wait"} /\ jobs' \in Seq(JobType) /\ (at' = "idle") = (jobs' = <<>>)
    BY <1>1, <1>9
  <2>3. loaded' \subseteq JobType
    <3>1. \A x \in DOMAIN added : x \in 0 .. MaxResources + 2
      BY <1>5, BoundsAssumption DEF ResourceInv, ListTypes
    <3>2. QED
      BY <1>1, <3>1 DEF Mapped, Job, JobType
  <2>4. \A x \in DOMAIN images' : x \in Textures' /\ images'[x] \in {"Undefined", "ShaderResource"}
    BY <1>1, <1>4
  <2>5. sets' \in Seq({<<>>, bound'})
    BY <1>1, <1>2, SetsTyped
  <2>6. QED
    BY <2>1, <2>2, <2>3, <2>4, <2>5 DEF UploadTypeOK
<1>15. Arranged'
  BY <1>1, <1>2, <1>4, <1>7, <1>8 DEF Arranged
<1>16. NotBegun' /\ SetsMade'
  BY <1>1, <1>4, Zenon DEF NotBegun, SetsMade
<1>17. ConstructorInv'
  BY <1>1, <1>4, <1>15, Zenon DEF ConstructorInv
<1>18. UploadsArrive'
  <2> SUFFICES ASSUME built' PROVE UploadsArrive'
    BY DEF UploadsArrive
  <2>1. \A x \in DOMAIN added : added[x] # "texture" /\ accesses[x] = "dynamic"
    <3>1. \A x \in DOMAIN added : accesses[x] \in Accesses
      <4>1. accesses \in Seq(Accesses) /\ Len(accesses) = Len(added) /\ DOMAIN added = 1 .. Len(added)
        BY <1>5 DEF UploadInv, UploadTypeOK, ResourceInv, ListTypes
      <4>2. QED
        BY <4>1, ElementOfSeq
    <3>2. QED
      BY <1>1, <1>10, <3>1, Zenon DEF Accesses
  <2>2. \A x \in DOMAIN added : Job("resource", x) \in loaded'
    BY <1>1, <2>1 DEF Mapped
  <2>3. Textures' = {} /\ Handles' = {}
    BY <1>1, <1>4, <1>10, Zenon DEF Textures
  <2>4. queue' = <<>>
    BY <1>1, <1>6 DEF copyVars
  <2>5. QED
    BY <1>2, <2>2, <2>3, <2>4 DEF UploadsArrive
<1>19. QED
  BY <1>3, <1>12, <1>13, <1>14, <1>16, <1>17, <1>18, BuilderKept

\* What is in a list is at its head or in its tail.
LEMMA HasTail ==
  ASSUME NEW S, NEW s \in Seq(S), s # <<>>, NEW e, Has(s, e)
  PROVE  e = Head(s) \/ Has(Tail(s), e)
<1>1. PICK i \in 1 .. Len(s) : s[i] = e
  BY DEF Has
<1>2. CASE i = 1
  BY <1>1, <1>2
<1>3. CASE i # 1
  <2>1. i - 1 \in 1 .. Len(Tail(s)) /\ Tail(s)[i - 1] = s[i]
    BY <1>3
  <2>2. QED
    BY <1>1, <2>1 DEF Has
<1>4. QED
  BY <1>2, <1>3

\* After its last copy the constructor has done what it promises.
LEMMA Finished ==
  ASSUME UploadInv, at # "idle", \A j \in JobType : Has(ScratchJobs, j) => Done(j)
  PROVE  /\ AsConstructed
         /\ \A x \in DOMAIN added : added[x] = "buffer" => Job("resource", x) \in loaded
         /\ \A h \in Handles : Job("draws", IF inputs[h].access = "static" THEN 1 ELSE 2) \in loaded
         /\ \A x \in Textures : images[x] = "ShaderResource"
<1>1. ResourceInv /\ Len(added) <= MaxResources /\ InputsTyped /\ memory \in Memory /\ Arranged
  BY DEF UploadInv, SetupInv, LayoutInv, ConstructorInv
<1>2. /\ Job("vertices", 1) \in JobType /\ Job("indices", 1) \in JobType
      /\ Job("draws", 1) \in JobType /\ Job("draws", 2) \in JobType
      /\ \A x \in DOMAIN added : Job("resource", x) \in JobType
  <2>1. \A x \in DOMAIN added : x \in 0 .. MaxResources + 2
    BY <1>1, BoundsAssumption DEF ResourceInv, ListTypes
  <2>2. QED
    BY <2>1, BoundsAssumption DEF Job, JobType
<1>3. memory["static"] = StaticMemory
  <2>1. CASE StaticMemory.indices = <<>>
    BY <1>1, <2>1 DEF Arranged
  <2>2. CASE StaticMemory.indices # <<>>
    <3>1. Done(Job("vertices", 1)) /\ Done(Job("indices", 1))
      BY <1>1, <1>2, <2>2, ScratchFacts
    <3>2. memory["static"]["vertices"] = StaticMemory["vertices"] /\ memory["static"]["indices"] = StaticMemory["indices"]
      BY <3>1 DEF Done, Job, Fields
    <3>3. memory["static"] = [field \in {"vertices", "indices"} |-> memory["static"][field]]
      BY <1>1 DEF Memory, Accesses
    <3>4. StaticMemory = [field \in {"vertices", "indices"} |-> StaticMemory[field]]
      BY DEF StaticMemory
    <3>5. QED
      BY <3>2, <3>3, <3>4
  <2>3. QED
    BY <2>1, <2>2
<1>4. memory = [static |-> StaticMemory, dynamic |-> DynamicMemory]
  BY <1>1, <1>3 DEF Arranged, Memory, Accesses
<1>5. AsConstructed
  BY <1>1, <1>4 DEF Arranged, AsConstructed
<1>6. ASSUME NEW x \in DOMAIN added, added[x] = "buffer" PROVE Job("resource", x) \in loaded
  <2>1. accesses[x] \in Accesses
    <3>1. accesses \in Seq(Accesses) /\ Len(accesses) = Len(added) /\ DOMAIN added = 1 .. Len(added)
      BY <1>1 DEF UploadInv, UploadTypeOK, ResourceInv, ListTypes
    <3>2. QED
      BY <3>1, ElementOfSeq
  <2>2. CASE accesses[x] = "static"
    <3>1. Done(Job("resource", x))
      BY <1>1, <1>2, <2>2, ScratchFacts
    <3>2. x \notin Textures
      BY <1>6 DEF Textures
    <3>3. QED
      BY <3>1, <3>2 DEF Done, Job
  <2>3. CASE accesses[x] = "dynamic"
    BY <1>1, <2>3 DEF Arranged, Mapped
  <2>4. QED
    BY <2>1, <2>2, <2>3 DEF Accesses
<1>7. ASSUME NEW h \in Handles PROVE Job("draws", IF inputs[h].access = "static" THEN 1 ELSE 2) \in loaded
  <2>1. inputs[h].access = "static" \/ inputs[h].access = "dynamic"
    BY <1>1, InputFacts DEF Accesses, Fields
  <2>2. CASE inputs[h].access = "static"
    <3>1. Done(Job("draws", 1))
      BY <1>1, <1>2, <2>2, ScratchFacts, SMTT(30)
    <3>2. QED
      BY <2>2, <3>1 DEF Done, Job
  <2>3. CASE inputs[h].access = "dynamic"
    <3>1. Done(Job("draws", 2))
      BY <1>1, <1>2, <2>3, ScratchFacts
    <3>2. QED
      BY <2>3, <3>1 DEF Done, Job
  <2>4. QED
    BY <2>1, <2>2, <2>3
<1>8. ASSUME NEW x \in Textures PROVE images[x] = "ShaderResource"
  <2>1. x \in DOMAIN added /\ added[x] = "texture"
    BY DEF Textures
  <2>2. Done(Job("resource", x))
    BY <1>1, <1>2, <2>1, ScratchFacts
  <2>3. QED
    BY <2>2 DEF Done, Job
<1>9. QED
  BY <1>5, <1>6, <1>7, <1>8

\* A wait that ends is for a copy that is made.
LEMMA WaitFacts ==
  ASSUME UploadInv, WaitCopy
  PROVE  /\ queue = <<>> /\ jobs \in Seq(JobType) /\ jobs # <<>> /\ Tail(jobs) \in Seq(JobType)
         /\ \A j \in JobType : Has(ScratchJobs, j) => Done(j) \/ Has(Tail(jobs), j)
<1>1. at = "wait" /\ fence
  BY DEF WaitCopy
<1>2. queue = <<>>
  BY <1>1 DEF UploadInv, CopyInv
<1>3. jobs \in Seq(JobType) /\ jobs # <<>>
  BY <1>1 DEF UploadInv, UploadTypeOK
<1>4. Done(Head(jobs)) /\ \A j \in JobType : Has(ScratchJobs, j) => Done(j) \/ Has(jobs, j)
  BY <1>1, <1>2 DEF UploadInv, ConstructorInv
<1>5. ASSUME NEW j \in JobType, Has(ScratchJobs, j) PROVE Done(j) \/ Has(Tail(jobs), j)
  BY <1>3, <1>4, <1>5, HasTail
<1>6. QED
  BY <1>2, <1>3, <1>5

\* The end of a wait, which is that of the constructor after the last copy.
LEMMA WaitCopyStep ==
  ASSUME UploadInv, WaitCopy
  PROVE  UploadInv'
<1>1. /\ at = "wait" /\ jobs' = Tail(jobs) /\ at' = (IF Tail(jobs) = <<>> THEN "idle" ELSE "record")
      /\ built' = (Tail(jobs) = <<>>) /\ staging' = NoJob
      /\ UNCHANGED <<frontend, builderVars, rendererVars, accesses, scratch, queue, fence, loaded, images, sets>>
  BY DEF WaitCopy, Proceed
<1>2. /\ UNCHANGED <<frontend, inputs, added, handles, buffer_resources, texture_resources>>
      /\ UNCHANGED <<resources, bound, memory, edits, overrun>>
  BY <1>1 DEF builderVars, rendererVars
<1>3. BuilderSame
  BY <1>1, <1>2 DEF BuilderSame
<1>4. /\ Handles' = Handles /\ Textures' = Textures /\ StaticMemory' = StaticMemory
      /\ StoredResources' = StoredResources /\ Bindings' = Bindings
      /\ DescriptorSets' = DescriptorSets /\ ScratchJobs' = ScratchJobs
  BY <1>3, SameBuilder
<1>5. Arranged /\ SetupInv
  BY <1>1 DEF UploadInv, ConstructorInv
<1>6. /\ queue = <<>> /\ jobs \in Seq(JobType) /\ jobs # <<>> /\ Tail(jobs) \in Seq(JobType)
      /\ \A j \in JobType : Has(ScratchJobs, j) => Done(j) \/ Has(Tail(jobs), j)
  BY WaitFacts
<1>7. ASSUME built'
      PROVE  /\ AsConstructed
             /\ \A x \in DOMAIN added : added[x] = "buffer" => Job("resource", x) \in loaded
             /\ \A h \in Handles : Job("draws", IF inputs[h].access = "static" THEN 1 ELSE 2) \in loaded
             /\ \A x \in Textures : images[x] = "ShaderResource"
  <2>1. \A j : ~Has(Tail(jobs), j)
    <3>1. Tail(jobs) = <<>>
      BY <1>1, <1>7, Zenon
    <3>2. \A j : ~Has(<<>>, j)
      BY DEF Has
    <3>3. QED
      BY <3>1, <3>2, Zenon
  <2>2. \A j \in JobType : Has(ScratchJobs, j) => Done(j)
    BY <1>6, <2>1
  <2>3. QED
    BY <1>1, <2>2, Finished
<1>8. SetupInv'
  <2>1. Transferred' /\ built' \in BOOLEAN
    BY <1>1, <1>2, <1>4, <1>5 DEF Transferred, Arranged
  <2>2. ResourceInv'
    BY <1>2, <1>5, <2>1, ResourceKept DEF SetupInv
  <2>3. KeptTyped'
    BY <1>2, <1>5 DEF SetupInv, KeptTyped
  <2>4. built' => Laid
    BY <1>5, <1>7, ConstructedLaid DEF SetupInv, LayoutInv
  <2>5. Laid' = Laid
    BY <1>2, LaidKept
  <2>6. LayoutInv'
    BY <1>2, <1>5, <2>4, <2>5 DEF SetupInv, LayoutInv, InputsTyped
  <2>7. QED
    BY <1>2, <1>5, <2>2, <2>3, <2>6 DEF SetupInv
<1>9. CopyInv'
  BY CopyStep DEF UploadInv, UNext, Host
<1>10. UploadTypeOK'
  <2>1. NoJob \in JobType
    BY BoundsAssumption DEF NoJob, Job, JobType
  <2>2. (at' = "idle") = (jobs' = <<>>) /\ at' \in {"idle", "record", "submit", "wait"} /\ jobs' \in Seq(JobType)
    BY <1>1, <1>6
  <2>3. QED
    BY <1>1, <1>2, <1>4, <2>1, <2>2, Zenon DEF UploadInv, UploadTypeOK
<1>11. Arranged'
  BY <1>1, <1>2, <1>3, <1>5, ArrangedKept
<1>12. \A j : Done(j)' = Done(j)
  BY <1>1, <1>2, <1>4 DEF Done
<1>13. ConstructorInv'
  BY <1>1, <1>4, <1>6, <1>11, <1>12, Zenon DEF ConstructorInv
<1>14. NotBegun' /\ SetsMade'
  BY <1>1, <1>4, <1>5, Zenon DEF NotBegun, SetsMade, Arranged
<1>15. UploadsArrive'
  BY <1>1, <1>2, <1>4, <1>6, <1>7 DEF UploadsArrive
<1>16. QED
  BY <1>3, <1>8, <1>9, <1>10, <1>13, <1>14, <1>15, BuilderKept

\* The device makes a copy. No copy undoes another.
LEMMA ExecuteStep ==
  ASSUME UploadInv, Execute
  PROVE  UploadInv'
<1> DEFINE job == scratch
           texture == job.kind = "resource" /\ job.n \in Textures
<1>1. queue # <<>>
  BY DEF Execute
<1>2. at = "wait" /\ queue = <<[job |-> job, fence |-> TRUE]>> /\ ~fence
  BY <1>1 DEF UploadInv, CopyInv
<1>3. Head(queue).job = job /\ Tail(queue) = <<>>
  BY <1>2
<1>4. /\ queue' = <<>> /\ fence' \in BOOLEAN
      /\ memory' = (IF job.kind \in {"vertices", "indices"}
                      THEN [memory EXCEPT !["static"][job.kind] = StaticMemory[job.kind]] ELSE memory)
      /\ texture => images' = [images EXCEPT ![job.n] = "ShaderResource"] /\ loaded' \in {loaded, loaded \cup {job}}
      /\ ~texture => images' = images /\ loaded' = loaded \cup {job}
  <2>1. fence' \in BOOLEAN
    BY CopyStep DEF UploadInv, UNext, CopyInv
  <2>2. QED
    BY <1>3, <2>1, Zenon DEF Execute
<1>5. /\ UNCHANGED <<frontend, inputs, added, handles, buffer_resources, texture_resources>>
      /\ UNCHANGED <<built, resources, bound, edits, overrun, accesses, at, jobs, scratch, staging, sets>>
  BY DEF Execute, builderVars
<1>6. BuilderSame
  BY <1>5, SMTT(30) DEF BuilderSame
<1>7. /\ Handles' = Handles /\ Textures' = Textures /\ Mapped' = Mapped
      /\ StaticMemory' = StaticMemory /\ DynamicMemory' = DynamicMemory
      /\ StoredResources' = StoredResources /\ Bindings' = Bindings
      /\ DescriptorSets' = DescriptorSets /\ ScratchJobs' = ScratchJobs
  BY <1>6, SameBuilder
<1>8. ~built /\ Arranged /\ job = Head(jobs) /\ job \in JobType /\ InputsTyped /\ memory \in Memory
  BY <1>2 DEF UploadInv, ConstructorInv, UploadTypeOK, SetupInv, LayoutInv
<1>9. /\ memory' \in Memory /\ memory'["dynamic"] = memory["dynamic"]
      /\ \A field \in Fields : memory'["static"][field] =
           IF field = job.kind THEN StaticMemory[field] ELSE memory["static"][field]
  <2> DEFINE Buffers == [vertices : Seq(Cells), indices : Seq(Cells)]
  <2>1. Memory = [{"static", "dynamic"} -> Buffers]
    BY DEF Memory, Accesses, Cells
  <2>2. \A field \in Fields : StaticMemory[field] \in Seq(Cells)
    <3>1. \A field \in Fields : StaticMemory[field] = Compiled("static", field, Len(inputs))
      BY DEF StaticMemory, Fields
    <3>2. Len(inputs) \in 0 .. Len(inputs)
      BY <1>8 DEF InputsTyped
    <3>3. QED
      BY <1>8, <3>1, <3>2, CompiledFacts, Zenon
  <2>3. CASE job.kind \in Fields
    <3> DEFINE d == StaticMemory[job.kind]
    <3>1. memory' = [memory EXCEPT !["static"][job.kind] = d]
      BY <1>4, <2>3 DEF Fields
    <3>2. d \in Seq(Cells)
      BY <2>2, <2>3
    <3>3. job.kind = "vertices" \/ job.kind = "indices"
      BY <2>3 DEF Fields
    <3> HIDE DEF d
    <3>4. memory' \in Memory /\ memory'["dynamic"] = memory["dynamic"]
      BY <1>8, <2>1, <3>1, <3>2, <3>3
    <3>5. \A field \in Fields : memory'["static"][field] = IF field = job.kind THEN d ELSE memory["static"][field]
      BY <1>8, <2>1, <3>1, <3>3 DEF Fields
    <3>6. QED
      BY <3>4, <3>5 DEF d
  <2>4. CASE job.kind \notin Fields
    BY <1>4, <1>8, <2>4 DEF Fields
  <2>5. QED
    BY <2>3, <2>4
<1>10. /\ loaded \subseteq loaded' /\ loaded' \subseteq loaded \cup {job}
       /\ DOMAIN images' = DOMAIN images
       /\ \A x \in DOMAIN images : images'[x] = images[x] \/ images'[x] = "ShaderResource"
  BY <1>4
<1>11. ASSUME NEW j \in JobType, Done(j) PROVE Done(j)'
  <2>1. j.kind \in Fields => memory'["static"][j.kind] = StaticMemory'[j.kind]
    BY <1>7, <1>9, <1>11 DEF Done
  <2>2. CASE j.kind = "resource" /\ j.n \in Textures
    <3>1. j.n \in DOMAIN images /\ images[j.n] = "ShaderResource"
      BY <1>8, <1>11, <2>2 DEF Done, Arranged
    <3>2. images'[j.n] = "ShaderResource"
      BY <1>10, <3>1, SMTT(30)
    <3>3. QED
      BY <1>7, <2>1, <2>2, <3>2, SMTT(30) DEF Done
  <2>3. CASE ~(j.kind = "resource" /\ j.n \in Textures)
    BY <1>7, <1>10, <1>11, <2>1, <2>3 DEF Done
  <2>4. QED
    BY <2>2, <2>3
<1>12. Done(job)'
  <2>1. job.kind \in Fields => memory'["static"][job.kind] = StaticMemory'[job.kind]
    BY <1>7, <1>9
  <2>2. CASE texture
    <3>1. images'[job.n] = "ShaderResource"
      BY <1>4, <1>8, <2>2 DEF Arranged
    <3>2. QED
      BY <1>5, <1>7, <2>1, <2>2, <3>1 DEF Done
  <2>3. CASE ~texture
    BY <1>4, <1>5, <1>7, <2>1, <2>3 DEF Done
  <2>4. QED
    BY <2>2, <2>3
<1>13. Arranged'
  <2>1. RegionsTold'
    BY <1>5, <1>8, SameData, Zenon DEF Arranged, RegionsTold
  <2>2. StaticMemory.indices = <<>> => memory'["static"] = StaticMemory
    <3> SUFFICES ASSUME StaticMemory.indices = <<>> PROVE memory'["static"] = StaticMemory
      OBVIOUS
    <3>1. memory["static"] = StaticMemory
      BY <1>8 DEF Arranged
    <3>2. \A field \in Fields : memory'["static"][field] = StaticMemory[field]
      BY <1>9, <3>1
    <3>3. memory'["static"] = [field \in {"vertices", "indices"} |-> memory'["static"][field]]
      BY <1>9 DEF Memory, Accesses
    <3>4. StaticMemory = [field \in {"vertices", "indices"} |-> StaticMemory[field]]
      BY DEF StaticMemory
    <3>5. QED
      BY <3>2, <3>3, <3>4 DEF Fields
  <2>3. QED
    BY <1>5, <1>7, <1>8, <1>9, <1>10, <2>1, <2>2 DEF Arranged
<1>14. SetupInv'
  <2>1. SetupInv
    BY DEF UploadInv
  <2>2. ~built' /\ built' \in BOOLEAN
    BY <1>5, <1>8, <2>1 DEF SetupInv, ResourceInv, ListTypes
  <2>3. ResourceInv'
    BY <1>5, <2>1, <2>2, ResourceKept DEF SetupInv, Transferred
  <2>4. KeptTyped'
    BY <1>5, <2>1 DEF SetupInv, KeptTyped
  <2>5. LayoutInv'
    BY <1>5, <1>8, <1>9, <2>2 DEF LayoutInv, InputsTyped
  <2>6. QED
    BY <1>5, <2>1, <2>3, <2>4, <2>5 DEF SetupInv
<1>15. CopyInv'
  BY CopyStep DEF UploadInv, UNext
<1>16. UploadTypeOK'
  <2>1. queue' \in Seq([job : JobType, fence : BOOLEAN]) /\ Len(queue') <= 1
    BY <1>4
  <2>2. loaded' \subseteq JobType
    BY <1>8, <1>10 DEF UploadInv, UploadTypeOK
  <2>3. \A x \in DOMAIN images' : x \in Textures' /\ images'[x] \in {"Undefined", "ShaderResource"}
    BY <1>7, <1>10 DEF UploadInv, UploadTypeOK
  <2>4. QED
    BY <1>4, <1>5, <2>1, <2>2, <2>3 DEF UploadInv, UploadTypeOK
<1>17. ConstructorInv'
  <2>1. \A j \in JobType : Has(ScratchJobs, j) => Done(j)' \/ Has(jobs, j)
    BY <1>2, <1>11 DEF UploadInv, ConstructorInv
  <2>2. Done(Head(jobs))'
    <3>1. Head(jobs') = scratch'
      BY <1>5, <1>8
    <3>2. QED
      BY <1>12, <3>1 DEF Done
  <2>3. QED
    BY <1>2, <1>5, <1>7, <1>8, <1>13, <2>1, <2>2 DEF ConstructorInv
<1>18. NotBegun' /\ UploadsArrive' /\ SetsMade'
  BY <1>2, <1>5, <1>8 DEF NotBegun, UploadsArrive, SetsMade
<1>19. QED
  BY <1>6, <1>14, <1>15, <1>16, <1>17, <1>18, BuilderKept

\* The application edits an input of a renderer.
LEMMA UEditInputStep ==
  ASSUME UploadInv, NEW h \in Handles, UEditInput(h)
  PROVE  UploadInv'
<1>1. /\ EditInput(h) /\ built /\ UNCHANGED uploadVars
      /\ UNCHANGED <<frontend, built, inputs, added, handles, buffer_resources, texture_resources, resources, bound>>
  BY DEF UEditInput, EditInput, builderVars
<1>2. at = "idle"
  BY <1>1 DEF UploadInv, ConstructorInv
<1>3. BuilderSame
  BY <1>1 DEF BuilderSame, uploadVars
<1>4. Handles' = Handles /\ Textures' = Textures /\ DescriptorSets' = DescriptorSets
  BY <1>3, SameBuilder
<1>5. SetupInv'
  BY <1>1, NextSetupInv DEF UploadInv, Next
<1>6. CopyInv'
  BY CopyStep DEF UploadInv, UNext
<1>7. UploadTypeOK'
  BY <1>1, <1>4 DEF UploadInv, UploadTypeOK, uploadVars
<1>8. NotBegun' /\ ConstructorInv' /\ SetsMade'
  BY <1>1, <1>2, <1>4, SMTT(60) DEF UploadInv, NotBegun, ConstructorInv, SetsMade, uploadVars
<1>9. UploadsArrive'
  BY <1>1, <1>4, Zenon DEF UploadInv, UploadsArrive, uploadVars
<1>10. QED
  BY <1>3, <1>5, <1>6, <1>7, <1>8, <1>9, BuilderKept

\* Nothing happens.
LEMMA UStutterStep ==
  ASSUME UploadInv, UNCHANGED uvars
  PROVE  UploadInv'
<1>1. /\ UNCHANGED vars /\ UNCHANGED uploadVars
      /\ UNCHANGED <<accesses, at, jobs, scratch, staging, queue, fence, loaded, images, sets>>
      /\ UNCHANGED <<frontend, built, inputs, added, handles, buffer_resources, texture_resources>>
      /\ UNCHANGED <<resources, bound, memory, edits, overrun>>
  BY DEF uvars, vars, builderVars, rendererVars, uploadVars
<1>2. BuilderSame
  BY <1>1 DEF BuilderSame
<1>3. /\ Handles' = Handles /\ Textures' = Textures /\ DescriptorSets' = DescriptorSets
      /\ ScratchJobs' = ScratchJobs /\ StaticMemory' = StaticMemory
  BY <1>2, SameBuilder
<1>4. SetupInv'
  BY <1>1, NextSetupInv DEF UploadInv
<1>5. CopyInv'
  BY CopyStep DEF UploadInv
<1>6. UploadTypeOK'
  BY <1>1, <1>3 DEF UploadInv, UploadTypeOK
<1>7. NotBegun' /\ SetsMade'
  BY <1>1, <1>3 DEF UploadInv, NotBegun, SetsMade
<1>8. UploadsArrive'
  BY <1>1, <1>3, SMTT(60) DEF UploadInv, UploadsArrive
<1>9. \A j : Done(j)' = Done(j)
  BY <1>1, <1>3, Zenon DEF Done
<1>10. ASSUME at # "idle" PROVE Arranged'
  BY <1>1, <1>2, <1>10, ArrangedKept, SMTT(60) DEF UploadInv, ConstructorInv
<1>11. ConstructorInv'
  BY <1>1, <1>3, <1>9, <1>10 DEF UploadInv, ConstructorInv
<1>12. QED
  BY <1>2, <1>4, <1>5, <1>6, <1>7, <1>8, <1>11, BuilderKept

\* Every step keeps the constructor's promises.
LEMMA UploadStep == UploadInv /\ [UNext]_uvars => UploadInv'
<1> SUFFICES ASSUME UploadInv, [UNext]_uvars PROVE UploadInv'
  OBVIOUS
<1>1. CASE UNCHANGED uvars
  BY <1>1, UStutterStep
<1>2. ASSUME NEW a \in Accesses, NEW s \in Sizes, UAddInput(a, s) PROVE UploadInv'
  BY <1>2, UAddInputStep
<1>3. ASSUME NEW t \in {"buffer", "texture"}, NEW a \in Accesses, UAddResource(t, a) PROVE UploadInv'
  BY <1>3, UAddResourceStep DEF Types
<1>4. ASSUME NEW h \in Handles, UEditInput(h) PROVE UploadInv'
  BY <1>4, UEditInputStep
<1>5. QED
  BY <1>1, <1>2, <1>3, <1>4, ConstructOGLStep, BeginStep, RecordStep, SubmitStep, WaitCopyStep, ExecuteStep DEF UNext, Host

\* A new builder.
LEMMA InitUploadInv == UInit => UploadInv
<1> SUFFICES ASSUME UInit PROVE UploadInv
  OBVIOUS
<1>1. SetupInv
  BY InitSetupInv DEF UInit
<1>2. /\ ~built /\ added = <<>> /\ buffer_resources = <<>> /\ texture_resources = <<>>
      /\ accesses = <<>> /\ at = "idle" /\ jobs = <<>> /\ scratch = NoJob /\ staging = NoJob
      /\ queue = <<>> /\ fence = TRUE /\ loaded = {} /\ images = <<>> /\ sets = <<>>
  BY DEF UInit, Init
<1>3. NoJob \in JobType
  BY BoundsAssumption DEF NoJob, Job, JobType
<1>4. UploadTypeOK
  BY <1>2, <1>3, SMTT(30) DEF UploadTypeOK
<1>5. CopyInv /\ ListsDistinct /\ NotBegun /\ ConstructorInv /\ UploadsArrive
  BY <1>2, SMTT(20) DEF CopyInv, ListsDistinct, NotBegun, ConstructorInv, UploadsArrive
<1>6. Textures = {}
  BY <1>2 DEF Textures
<1>7. QED
  BY <1>1, <1>2, <1>4, <1>5, <1>6 DEF UploadInv

\* The invariant holds for any number of inputs, resources and views.
LEMMA UploadInvariance == USpec => []UploadInv
  BY InitUploadInv, UploadStep, PTL DEF USpec

\* When a constructor returns, every buffer a draw reads holds its data and
\* the textures of a Vulkan renderer have the layout of their descriptors.
THEOREM UploadsSafe == USpec => []UploadsArrive
<1>1. UploadInv => UploadsArrive
  BY DEF UploadInv
<1>2. QED
  BY <1>1, UploadInvariance, PTL

\* The descriptor pool has room for a set per view, so that each view's
\* commands find every resource bound.
THEOREM ViewsBound == USpec => []EveryViewBound
<1>1. UploadInv => EveryViewBound
  <2> SUFFICES ASSUME UploadInv, built, frontend = "vulkan", resources # <<>>, NEW v \in 1 .. Views
               PROVE  v \in DOMAIN sets /\ sets[v] = bound
    BY DEF EveryViewBound
  <2>1. ResourceInv /\ ListsDistinct /\ sets = DescriptorSets
    BY DEF UploadInv, SetupInv
  <2>2. resources = StoredResources /\ bound = Bindings
    BY <2>1 DEF ResourceInv, Transferred
  <2>3. NumResources # 0
    <3>1. buffer_resources \in Seq(Nat) /\ texture_resources \in Seq(Nat)
      BY <2>1 DEF ResourceInv, ListTypes
    <3>2. Len(resources) = NumResources /\ resources \in Seq(Nat)
      BY <2>2, <3>1 DEF StoredResources, NumResources
    <3>3. QED
      BY <3>2
  <2>4. sets = [w \in 1 .. Views |-> Bindings]
    BY <2>1, <2>3, PoolSuffices DEF DescriptorSets
  <2>5. QED
    BY <2>2, <2>4
<1>2. QED
  BY <1>1, UploadInvariance, PTL

\* Builders, constructors and the device keep the types of their state.
THEOREM UploadTypeCorrect == USpec => [](SetupTypeOK /\ UploadTypeOK)
<1>1. UploadInv => SetupTypeOK /\ UploadTypeOK
  BY ListsTyped DEF UploadInv, SetupInv, LayoutInv, KeptTyped, InputsTyped, SetupTypeOK, ResourceInv, ListTypes, Types
<1>2. QED
  BY <1>1, UploadInvariance, PTL

\* After copies through a staging buffer, too, a draw of an input reads its
\* own vertices and, where the regions are right, its own indices.
THEOREM UploadedDrawsOwn == USpec => [](DrawsOwnVertices /\ DrawsOwnIndicesElsewhere)
<1>1. UploadInv => DrawsOwnVertices /\ DrawsOwnIndicesElsewhere
  BY LaidDraws DEF UploadInv, SetupInv, LayoutInv
<1>2. QED
  BY <1>1, UploadInvariance, PTL

=============================================================================
