-------------------------- MODULE RendererSetupProofs --------------------------
(***************************************************************************)
(* Bindings and handles of resources, and the regions of inputs in shared  *)
(* buffers, for any number of them.                                        *)
(***************************************************************************)
EXTENDS RendererSetup, LoopsProofs

Types == {"buffer", "texture"}

ListTypes ==
  /\ built \in BOOLEAN
  /\ added \in Seq(Types)
  /\ handles \in Seq(Nat)
  /\ buffer_resources \in Seq(Nat)
  /\ texture_resources \in Seq(Nat)

\* The two lists of the builder divide up what was added.
Division ==
  /\ Len(added) = Len(buffer_resources) + Len(texture_resources)
  /\ \A i \in 1 .. Len(buffer_resources) :
       buffer_resources[i] \in 1 .. Len(added) /\ added[buffer_resources[i]] = "buffer"
  /\ \A i \in 1 .. Len(texture_resources) :
       texture_resources[i] \in 1 .. Len(added) /\ added[texture_resources[i]] = "texture"
  /\ \A x \in 1 .. Len(added) :
       \/ \E i \in 1 .. Len(buffer_resources) : buffer_resources[i] = x
       \/ \E i \in 1 .. Len(texture_resources) : texture_resources[i] = x

\* A handle is the position at which its resource was added.
HandlesCount ==
  /\ Len(handles) = Len(added)
  /\ \A x \in 1 .. Len(handles) : handles[x] = x - 1

\* With buffers first, the lists put end to end are in the order of adding.
InOrder ==
  BuffersFirst =>
    /\ \A i \in 1 .. Len(buffer_resources) : buffer_resources[i] = i
    /\ \A i \in 1 .. Len(texture_resources) : texture_resources[i] = Len(buffer_resources) + i

\* A renderer has what its builder had.
Transferred == built => resources = StoredResources /\ bound = Bindings

ResourceInv == ListTypes /\ Division /\ HandlesCount /\ InOrder /\ Transferred

-----------------------------------------------------------------------------

\* What Append does to a sequence.
LEMMA AppendFacts ==
  ASSUME NEW S, NEW s \in Seq(S), NEW e \in S
  PROVE  /\ Append(s, e) \in Seq(S)
         /\ Len(Append(s, e)) = Len(s) + 1
         /\ \A i \in 1 .. Len(s) : Append(s, e)[i] = s[i]
         /\ Append(s, e)[Len(s) + 1] = e
  OBVIOUS

\* A new renderer builder has no resources.
LEMMA InitResourceInv == Init => ResourceInv
<1> SUFFICES ASSUME Init PROVE ResourceInv
  OBVIOUS
<1>1. /\ built = FALSE /\ added = <<>> /\ handles = <<>>
      /\ buffer_resources = <<>> /\ texture_resources = <<>>
  BY DEF Init
<1>2. ListTypes
  <2>1. built \in BOOLEAN
    BY <1>1, Zenon
  <2>2. added \in Seq(Types)
    BY <1>1
  <2>3. handles \in Seq(Nat) /\ buffer_resources \in Seq(Nat) /\ texture_resources \in Seq(Nat)
    BY <1>1
  <2> QED BY <2>1, <2>2, <2>3 DEF ListTypes
<1>3. Division /\ HandlesCount
  BY <1>1 DEF Division, HandlesCount
<1>4. InOrder
  BY <1>1 DEF InOrder
<1>5. Transferred
  BY <1>1 DEF Transferred
<1> QED BY <1>2, <1>3, <1>4, <1>5 DEF ResourceInv

\* Resources added to the builder keep the lists in agreement.
LEMMA AddResourceInv ==
  ASSUME ResourceInv, NEW type \in Types, AddResource(type)
  PROVE  ResourceInv'
<1> DEFINE x == Len(added) + 1
<1>1. ~built' /\ built' \in BOOLEAN
  BY DEF AddResource, ResourceInv, ListTypes
<1>2. ListTypes
  BY DEF ResourceInv
<1>3. x \in Nat /\ NextHandle = x - 1 /\ NextHandle \in Nat /\ Len(handles) = Len(added) /\ Len(added) \in Nat
  BY <1>2 DEF ResourceInv, Division, HandlesCount, NextHandle, ListTypes
<1>4. /\ added' = Append(added, type)
      /\ added' \in Seq(Types)
      /\ Len(added') = x
      /\ \A i \in 1 .. Len(added) : added'[i] = added[i]
      /\ added'[x] = type
  <2>1. added' = Append(added, type)
    BY DEF AddResource
  <2> QED BY <2>1, <1>2, AppendFacts DEF ListTypes
<1>5. /\ handles' \in Seq(Nat)
      /\ Len(handles') = x
      /\ \A i \in 1 .. Len(handles) : handles'[i] = handles[i]
      /\ handles'[x] = x - 1
  <2>1. handles' = Append(handles, NextHandle)
    BY DEF AddResource
  <2>2. handles \in Seq(Nat)
    BY <1>2 DEF ListTypes
  <2> QED BY <2>1, <2>2, <1>3, AppendFacts
<1>6. HandlesCount'
  <2> SUFFICES ASSUME NEW i \in 1 .. x
               PROVE  handles'[i] = i - 1
    BY <1>4, <1>5 DEF HandlesCount
  <2>1. CASE i = x
    BY <2>1, <1>5
  <2>2. CASE i \in 1 .. Len(handles)
    BY <2>2, <1>5 DEF ResourceInv, HandlesCount
  <2> QED BY <2>1, <2>2, <1>3
<1>7. Transferred'
  BY <1>1 DEF Transferred
<1>8. BuffersFirst' => BuffersFirst
  <2>1. DOMAIN added = 1 .. Len(added) /\ DOMAIN added' = 1 .. Len(added')
    BY <1>2, <1>4 DEF ListTypes
  <2> QED BY <2>1, <1>3, <1>4 DEF BuffersFirst
<1>9. CASE type = "buffer"
  <2>1. /\ buffer_resources' = Append(buffer_resources, x)
        /\ texture_resources' = texture_resources
    BY <1>9 DEF AddResource
  <2>2. /\ buffer_resources' \in Seq(Nat)
        /\ Len(buffer_resources) \in Nat /\ Len(texture_resources) \in Nat
        /\ Len(buffer_resources') = Len(buffer_resources) + 1
        /\ \A i \in 1 .. Len(buffer_resources) : buffer_resources'[i] = buffer_resources[i]
        /\ buffer_resources'[Len(buffer_resources) + 1] = x
    <3>1. buffer_resources \in Seq(Nat) /\ texture_resources \in Seq(Nat)
      BY <1>2 DEF ListTypes
    <3> QED BY <2>1, <3>1, <1>3, AppendFacts
  <2>3. ListTypes'
    BY <1>1, <1>2, <1>4, <1>5, <2>1, <2>2 DEF ListTypes
  <2>4. Division'
    <3> USE <1>3, <1>4, <1>9, <2>1, <2>2 DEF ResourceInv, Division
    <3>1. Len(added') = Len(buffer_resources') + Len(texture_resources')
      OBVIOUS
    <3>2. ASSUME NEW i \in 1 .. Len(buffer_resources')
          PROVE  buffer_resources'[i] \in 1 .. Len(added') /\ added'[buffer_resources'[i]] = "buffer"
      <4>1. CASE i = Len(buffer_resources) + 1
        BY <4>1
      <4>2. CASE i \in 1 .. Len(buffer_resources)
        BY <4>2
      <4> QED BY <4>1, <4>2
    <3>3. ASSUME NEW i \in 1 .. Len(texture_resources')
          PROVE  texture_resources'[i] \in 1 .. Len(added') /\ added'[texture_resources'[i]] = "texture"
      OBVIOUS
    <3>4. ASSUME NEW y \in 1 .. Len(added')
          PROVE  \/ \E i \in 1 .. Len(buffer_resources') : buffer_resources'[i] = y
                 \/ \E i \in 1 .. Len(texture_resources') : texture_resources'[i] = y
      <4>1. CASE y = x
        <5>1. Len(buffer_resources) + 1 \in 1 .. Len(buffer_resources')
          OBVIOUS
        <5> QED BY <4>1, <5>1
      <4>2. CASE y \in 1 .. Len(added)
        <5>1. CASE \E i \in 1 .. Len(buffer_resources) : buffer_resources[i] = y
          <6>1. PICK i \in 1 .. Len(buffer_resources) : buffer_resources[i] = y
            BY <5>1
          <6>2. i \in 1 .. Len(buffer_resources') /\ buffer_resources'[i] = y
            BY <6>1
          <6> QED BY <6>2
        <5>2. CASE \E i \in 1 .. Len(texture_resources) : texture_resources[i] = y
          BY <5>2
        <5> QED BY <4>2, <5>1, <5>2, Zenon
      <4> QED BY <4>1, <4>2
    <3> QED BY <3>1, <3>2, <3>3, <3>4, Zenon
  <2>5. InOrder'
    <3> SUFFICES ASSUME BuffersFirst'
                 PROVE  /\ \A i \in 1 .. Len(buffer_resources') : buffer_resources'[i] = i
                        /\ \A i \in 1 .. Len(texture_resources') :
                             texture_resources'[i] = Len(buffer_resources') + i
      BY DEF InOrder
    <3>1. \A y \in 1 .. Len(added) : added[y] # "texture"
      <4> SUFFICES ASSUME NEW y \in 1 .. Len(added), added[y] = "texture"
                   PROVE  FALSE
        OBVIOUS
      <4>1. y \in DOMAIN added' /\ x \in DOMAIN added' /\ added'[y] = "texture" /\ added'[x] = "buffer"
        BY <1>3, <1>4, <1>9
      <4>2. x < y
        BY <4>1 DEF BuffersFirst
      <4> QED BY <4>2, <1>3
    <3>2. Len(texture_resources) = 0
      BY <3>1, <2>2 DEF ResourceInv, Division
    <3>3. \A i \in 1 .. Len(buffer_resources) : buffer_resources[i] = i
      BY <1>8 DEF ResourceInv, InOrder
    <3>4. Len(buffer_resources) + 1 = x
      BY <3>2, <2>2 DEF ResourceInv, Division
    <3> QED BY <3>2, <3>3, <3>4, <2>1, <2>2
  <2> QED BY <2>3, <2>4, <2>5, <1>6, <1>7 DEF ResourceInv
<1>10. CASE type = "texture"
  <2>1. /\ texture_resources' = Append(texture_resources, x)
        /\ buffer_resources' = buffer_resources
    BY <1>10 DEF AddResource
  <2>2. /\ texture_resources' \in Seq(Nat)
        /\ Len(buffer_resources) \in Nat /\ Len(texture_resources) \in Nat
        /\ Len(texture_resources') = Len(texture_resources) + 1
        /\ \A i \in 1 .. Len(texture_resources) : texture_resources'[i] = texture_resources[i]
        /\ texture_resources'[Len(texture_resources) + 1] = x
    <3>1. buffer_resources \in Seq(Nat) /\ texture_resources \in Seq(Nat)
      BY <1>2 DEF ListTypes
    <3> QED BY <2>1, <3>1, <1>3, AppendFacts
  <2>3. ListTypes'
    BY <1>1, <1>2, <1>4, <1>5, <2>1, <2>2 DEF ListTypes
  <2>4. Division'
    <3> USE <1>3, <1>4, <1>10, <2>1, <2>2 DEF ResourceInv, Division
    <3>1. Len(added') = Len(buffer_resources') + Len(texture_resources')
      OBVIOUS
    <3>2. ASSUME NEW i \in 1 .. Len(texture_resources')
          PROVE  texture_resources'[i] \in 1 .. Len(added') /\ added'[texture_resources'[i]] = "texture"
      <4>1. CASE i = Len(texture_resources) + 1
        BY <4>1
      <4>2. CASE i \in 1 .. Len(texture_resources)
        BY <4>2
      <4> QED BY <4>1, <4>2
    <3>3. ASSUME NEW i \in 1 .. Len(buffer_resources')
          PROVE  buffer_resources'[i] \in 1 .. Len(added') /\ added'[buffer_resources'[i]] = "buffer"
      OBVIOUS
    <3>4. ASSUME NEW y \in 1 .. Len(added')
          PROVE  \/ \E i \in 1 .. Len(buffer_resources') : buffer_resources'[i] = y
                 \/ \E i \in 1 .. Len(texture_resources') : texture_resources'[i] = y
      <4>1. CASE y = x
        <5>1. Len(texture_resources) + 1 \in 1 .. Len(texture_resources')
          OBVIOUS
        <5> QED BY <4>1, <5>1
      <4>2. CASE y \in 1 .. Len(added)
        <5>1. CASE \E i \in 1 .. Len(texture_resources) : texture_resources[i] = y
          <6>1. PICK i \in 1 .. Len(texture_resources) : texture_resources[i] = y
            BY <5>1
          <6>2. i \in 1 .. Len(texture_resources') /\ texture_resources'[i] = y
            BY <6>1
          <6> QED BY <6>2
        <5>2. CASE \E i \in 1 .. Len(buffer_resources) : buffer_resources[i] = y
          BY <5>2
        <5> QED BY <4>2, <5>1, <5>2, Zenon
      <4> QED BY <4>1, <4>2
    <3> QED BY <3>1, <3>2, <3>3, <3>4, Zenon
  <2>5. InOrder'
    <3>1. ASSUME BuffersFirst'
          PROVE  /\ \A i \in 1 .. Len(buffer_resources) : buffer_resources[i] = i
                 /\ \A i \in 1 .. Len(texture_resources) : texture_resources[i] = Len(buffer_resources) + i
      BY <3>1, <1>8 DEF ResourceInv, InOrder
    <3>2. x = Len(buffer_resources) + Len(texture_resources) + 1
      BY DEF ResourceInv, Division
    <3>3. ASSUME BuffersFirst', NEW i \in 1 .. Len(texture_resources')
          PROVE  texture_resources'[i] = Len(buffer_resources) + i
      <4>1. CASE i = Len(texture_resources) + 1
        BY <4>1, <3>2, <2>2
      <4>2. CASE i \in 1 .. Len(texture_resources)
        BY <4>2, <3>1, <3>3, <2>2
      <4> QED BY <4>1, <4>2, <2>2
    <3> QED BY <3>1, <3>3, <2>1 DEF InOrder
  <2> QED BY <2>3, <2>4, <2>5, <1>6, <1>7 DEF ResourceInv
<1> QED BY <1>9, <1>10 DEF Types

\* The agreement is one of the lists.
LEMMA ResourceKept ==
  ASSUME ResourceInv, UNCHANGED <<added, handles, buffer_resources, texture_resources>>, Transferred', built' \in BOOLEAN
  PROVE  ResourceInv'
  BY Zenon DEF ResourceInv, ListTypes, Division, HandlesCount, InOrder, BuffersFirst

\* Every step of a builder or a renderer keeps the lists in agreement.
LEMMA NextResourceInv == ResourceInv /\ [Next]_vars => ResourceInv'
<1> SUFFICES ASSUME ResourceInv, [Next]_vars
             PROVE  ResourceInv'
  OBVIOUS
<1> DEFINE Builder == <<added, handles, buffer_resources, texture_resources>>
<1>1. ASSUME UNCHANGED Builder, Transferred', built' \in BOOLEAN
      PROVE  ResourceInv'
  BY <1>1, ResourceKept
<1>2. ASSUME NEW a \in Accesses, NEW s \in Sizes, AddInput(a, s)
      PROVE  ResourceInv'
  BY <1>1, <1>2 DEF AddInput, Transferred, ResourceInv, ListTypes
<1>3. ASSUME NEW t \in Types, AddResource(t)
      PROVE  ResourceInv'
  BY <1>3, AddResourceInv
<1>4. CASE Construct
  <2>1. UNCHANGED Builder /\ built' = TRUE
    BY <1>4 DEF Construct, Arrange, builderVars
  <2>2. resources' = StoredResources /\ bound' = Bindings
    BY <1>4 DEF Construct, Arrange
  <2>3. StoredResources' = StoredResources /\ Bindings' = Bindings
    BY <2>1 DEF StoredResources, Bindings
  <2> QED BY <1>1, <2>1, <2>2, <2>3 DEF Transferred
<1>5. ASSUME NEW h \in Handles, EditInput(h)
      PROVE  ResourceInv'
  <2>1. UNCHANGED Builder /\ UNCHANGED <<built, resources, bound>>
    BY <1>5 DEF EditInput, builderVars
  <2> QED BY <1>1, <2>1 DEF Transferred, StoredResources, Bindings, ResourceInv, ListTypes
<1>6. CASE UNCHANGED vars
  <2>1. UNCHANGED Builder /\ UNCHANGED <<built, resources, bound>>
    BY <1>6 DEF vars, builderVars, rendererVars
  <2> QED BY <1>1, <2>1 DEF Transferred, StoredResources, Bindings, ResourceInv, ListTypes
<1> QED BY <1>2, <1>3, <1>4, <1>5, <1>6 DEF Next, Types

-----------------------------------------------------------------------------

\* The renderer's list of resources and its bindings agree.
LEMMA StoredFacts ==
  ASSUME ResourceInv, built
  PROVE  /\ Len(resources) = Len(added) /\ Len(added) \in Nat
         /\ DOMAIN bound = 0 .. Len(added) - 1
         /\ \A b \in 0 .. Len(added) - 1 : bound[b] = resources[b + 1]
         /\ \A b \in 0 .. Len(added) - 1 :
              resources[b + 1] = IF b < Len(buffer_resources) THEN buffer_resources[b + 1]
                                 ELSE texture_resources[b - Len(buffer_resources) + 1]
<1>1. buffer_resources \in Seq(Nat) /\ texture_resources \in Seq(Nat)
  BY DEF ResourceInv, ListTypes
<1>2. resources = buffer_resources \o texture_resources /\ bound = Bindings
  BY DEF ResourceInv, Transferred, StoredResources
<1>3. /\ Len(buffer_resources) \in Nat /\ Len(texture_resources) \in Nat
      /\ Len(added) = Len(buffer_resources) + Len(texture_resources)
  BY <1>1 DEF ResourceInv, Division
<1>4. Len(resources) = Len(added)
  BY <1>1, <1>2, <1>3
<1>5. \A b \in 0 .. Len(added) - 1 :
        resources[b + 1] = IF b < Len(buffer_resources) THEN buffer_resources[b + 1]
                           ELSE texture_resources[b - Len(buffer_resources) + 1]
  BY <1>1, <1>2, <1>3
<1>6. DOMAIN bound = 0 .. Len(added) - 1
  BY <1>2, <1>3 DEF Bindings
<1>7. \A b \in 0 .. Len(added) - 1 : bound[b] = resources[b + 1]
  BY <1>2, <1>3, <1>5 DEF Bindings
<1> QED BY <1>3, <1>4, <1>5, <1>6, <1>7

\* However many resources are added, and in whatever order, each is bound
\* once, where the descriptor set layout has its type, in the order in which
\* the renderer stores them.
THEOREM BindingsCorrect == Spec => []BindingsMatchLayout
<1>1. ResourceInv => BindingsMatchLayout
  <2> SUFFICES ASSUME ResourceInv, built
               PROVE  /\ { bound[b] : b \in DOMAIN bound } = DOMAIN added
                      /\ \A b \in DOMAIN bound : added[bound[b]] = LayoutType(b) /\ GetResource(b) = bound[b]
    BY DEF BindingsMatchLayout
  <2>1. /\ DOMAIN added = 1 .. Len(added) /\ Len(added) \in Nat
        /\ Len(buffer_resources) \in Nat /\ Len(texture_resources) \in Nat
    BY DEF ResourceInv, ListTypes
  <2>2. ASSUME NEW b \in 0 .. Len(added) - 1
        PROVE  /\ bound[b] \in 1 .. Len(added)
               /\ added[bound[b]] = LayoutType(b)
               /\ GetResource(b) = bound[b]
    <3>1. CASE b < Len(buffer_resources)
      BY <3>1, <2>1, StoredFacts DEF ResourceInv, Division, LayoutType, GetResource
    <3>2. CASE ~(b < Len(buffer_resources))
      <4>1. b - Len(buffer_resources) + 1 \in 1 .. Len(texture_resources)
        BY <3>2, <2>1 DEF ResourceInv, Division
      <4> QED BY <4>1, <3>2, <2>1, StoredFacts DEF ResourceInv, Division, LayoutType, GetResource
    <3> QED BY <3>1, <3>2
  <2>3. ASSUME NEW x \in 1 .. Len(added)
        PROVE  \E b \in 0 .. Len(added) - 1 : bound[b] = x
    <3>1. CASE \E i \in 1 .. Len(buffer_resources) : buffer_resources[i] = x
      <4>1. PICK i \in 1 .. Len(buffer_resources) : buffer_resources[i] = x
        BY <3>1
      <4>2. i - 1 \in 0 .. Len(added) - 1 /\ i - 1 < Len(buffer_resources) /\ i - 1 + 1 = i
        BY <2>1 DEF ResourceInv, Division
      <4> QED BY <4>1, <4>2, StoredFacts
    <3>2. CASE \E i \in 1 .. Len(texture_resources) : texture_resources[i] = x
      <4>1. PICK i \in 1 .. Len(texture_resources) : texture_resources[i] = x
        BY <3>2
      <4> DEFINE b == Len(buffer_resources) + i - 1
      <4>2. b \in 0 .. Len(added) - 1 /\ ~(b < Len(buffer_resources)) /\ b - Len(buffer_resources) + 1 = i
        BY <2>1 DEF ResourceInv, Division
      <4>3. bound[b] = texture_resources[b - Len(buffer_resources) + 1]
        BY <4>2, StoredFacts
      <4> QED BY <4>1, <4>2, <4>3
    <3> QED BY <3>1, <3>2 DEF ResourceInv, Division
  <2>4. DOMAIN bound = 0 .. Len(added) - 1
    BY StoredFacts
  <2> QED BY <2>1, <2>2, <2>3, <2>4, Zenon
<1> QED BY <1>1, InitResourceInv, NextResourceInv, PTL DEF Spec

\* However many resources are added, if the buffers are added before the
\* textures, get_resource returns the resource its handle was given for, and
\* the shader finds it at the binding of that number.
THEOREM HandlesCorrect == Spec => []HandlesInOrder
<1>1. ResourceInv => HandlesInOrder
  <2> SUFFICES ASSUME ResourceInv, built, BuffersFirst, NEW x \in DOMAIN handles
               PROVE  GetResource(handles[x]) = x /\ bound[handles[x]] = x
    BY DEF HandlesInOrder
  <2>1. /\ Len(added) \in Nat /\ Len(buffer_resources) \in Nat /\ Len(texture_resources) \in Nat
        /\ Len(added) = Len(buffer_resources) + Len(texture_resources)
        /\ x \in 1 .. Len(added)
        /\ handles[x] = x - 1
    BY DEF ResourceInv, ListTypes, Division, HandlesCount
  <2>2. x - 1 \in 0 .. Len(added) - 1 /\ x - 1 + 1 = x
    BY <2>1
  <2>3. resources[x] = x
    <3>1. CASE x - 1 < Len(buffer_resources)
      <4>1. resources[x] = buffer_resources[x]
        BY <3>1, <2>2, StoredFacts, Zenon
      <4>2. x \in 1 .. Len(buffer_resources)
        BY <3>1, <2>1
      <4> QED BY <4>1, <4>2 DEF ResourceInv, InOrder
    <3>2. CASE ~(x - 1 < Len(buffer_resources))
      <4> DEFINE i == x - 1 - Len(buffer_resources) + 1
      <4>1. i \in 1 .. Len(texture_resources) /\ Len(buffer_resources) + i = x
        BY <3>2, <2>1
      <4>2. resources[x] = texture_resources[i]
        BY <3>2, <2>2, StoredFacts, Zenon
      <4> QED BY <4>1, <4>2 DEF ResourceInv, InOrder
    <3> QED BY <3>1, <3>2
  <2> QED BY <2>1, <2>2, <2>3, StoredFacts DEF GetResource
<1> QED BY <1>1, InitResourceInv, NextResourceInv, PTL DEF Spec

-----------------------------------------------------------------------------
(* The layout of the buffers that inputs share.  Three computations have to *)
(* agree: the data put end to end, the regions that dynamic inputs are told *)
(* of, and the offsets of the draw commands.                                *)

Fields == {"vertices", "indices"}
Cells == Nat \X Nat \X Nat

InputsTyped == inputs \in Seq([access : Accesses, size : Sizes])

\* What input h adds to the data of an access.
Part(access, field, h) == IF inputs[h].access = access THEN Elements(h, field, 0) ELSE <<>>

\* The sizes of inputs are numbers.
LEMMA InputFacts ==
  ASSUME InputsTyped, NEW h \in Handles, NEW field \in Fields
  PROVE  /\ inputs[h].size[field] \in Nat
         /\ field = "indices" => inputs[h].size[field] # 0
         /\ inputs[h].access \in Accesses
         /\ Len(inputs) \in Nat
<1> DEFINE R == [access : Accesses, size : Sizes]
<1>1. inputs[h] \in R /\ Len(inputs) \in Nat
  <2>1. inputs \in Seq(R) /\ h \in 1 .. Len(inputs)
    BY DEF InputsTyped, Handles
  <2> HIDE DEF R
  <2>2. QED
    BY <2>1, ElementOfSeq
<1>2. inputs[h].size \in [vertices : Nat, indices : Nat \ {0}] /\ inputs[h].access \in Accesses
  BY <1>1, SizesAssumption
<1>3. QED
  BY <1>1, <1>2 DEF Fields

\* The data of an input.
LEMMA PartFacts ==
  ASSUME InputsTyped, NEW access, NEW field \in Fields, NEW h \in Handles
  PROVE  /\ Part(access, field, h) \in Seq(Cells)
         /\ Len(Part(access, field, h)) = IF inputs[h].access = access THEN inputs[h].size[field] ELSE 0
         /\ inputs[h].access = access =>
              \A k \in 1 .. inputs[h].size[field] : Part(access, field, h)[k] = <<h, k, 0>>
<1>1. inputs[h].size[field] \in Nat /\ h \in Nat
  BY InputFacts DEF Handles
<1> DEFINE n == inputs[h].size[field]
<1> HIDE DEF n
<1>2. \A k \in 1 .. n : <<h, k, 0>> \in Cells
  BY <1>1 DEF Cells, n
<1>3. [k \in 1 .. n |-> <<h, k, 0>>] \in Seq(Cells) /\ Len([k \in 1 .. n |-> <<h, k, 0>>]) = n
  BY <1>1, <1>2 DEF n
<1>4. Elements(h, field, 0) = [k \in 1 .. n |-> <<h, k, 0>>]
  BY DEF Elements, n
<1>5. CASE inputs[h].access = access
  BY <1>3, <1>4, <1>5, Zenon DEF Part, n
<1>6. CASE inputs[h].access # access
  BY <1>6 DEF Part
<1>7. QED
  BY <1>5, <1>6

\* The data of the first inputs is a prefix of the data of more of them.
LEMMA CompiledFacts ==
  ASSUME InputsTyped, NEW access, NEW field \in Fields
  PROVE  /\ \A n \in 0 .. Len(inputs) : Compiled(access, field, n) \in Seq(Cells)
         /\ Compiled(access, field, 0) = <<>>
         /\ \A n \in 0 .. Len(inputs) - 1 :
              Compiled(access, field, n + 1) = Compiled(access, field, n) \o Part(access, field, n + 1)
         /\ \A m \in 0 .. Len(inputs) : \A n \in 0 .. m :
              Starts(Compiled(access, field, n), Compiled(access, field, m))
<1> DEFINE N == Len(inputs)
           parts == [h \in 1 .. N |-> Part(access, field, h)]
<1>1. N \in Nat
  BY DEF InputsTyped
<1>2. \A h \in 1 .. N : Part(access, field, h) \in Seq(Cells)
  BY PartFacts DEF Handles
<1> HIDE DEF N
<1>3. parts \in Seq(Seq(Cells)) /\ Len(parts) = N /\ \A h \in 1 .. N : parts[h] = Part(access, field, h)
  BY <1>1, <1>2
<1> HIDE DEF parts
<1>4. PICK f \in [0 .. Len(parts) -> Seq(Cells)] : Joins(f, parts)
  BY <1>3, JoinsExist
<1>5. ASSUME NEW n \in 0 .. N PROVE Compiled(access, field, n) = f[n]
  <2>1. [h \in 1 .. n |-> parts[h]] = [h \in 1 .. n |-> Part(access, field, h)]
    BY <1>1, <1>3
  <2>2. Flatten([h \in 1 .. n |-> parts[h]]) = f[n]
    BY <1>3, <1>4, FlattenPrefix, Zenon
  <2>3. Compiled(access, field, n) = Flatten([h \in 1 .. n |-> Part(access, field, h)])
    BY DEF Compiled, Part
  <2>4. QED
    BY <2>1, <2>2, <2>3
<1>6. \A n \in 0 .. N : Compiled(access, field, n) \in Seq(Cells)
  BY <1>3, <1>4, <1>5
<1>7. Compiled(access, field, 0) = <<>>
  BY <1>1, <1>4, <1>5 DEF Joins
<1>8. ASSUME NEW n \in 0 .. N - 1
      PROVE  Compiled(access, field, n + 1) = Compiled(access, field, n) \o Part(access, field, n + 1)
  <2>1. n \in 0 .. N /\ n + 1 \in 0 .. N /\ n + 1 \in 1 .. N
    BY <1>1
  <2>2. f[n + 1] = f[n] \o parts[n + 1]
    BY <1>3, <1>4, Zenon DEF Joins
  <2>3. QED
    BY <1>3, <1>5, <2>1, <2>2, Zenon
<1>9. ASSUME NEW m \in 0 .. N, NEW n \in 0 .. m
      PROVE  Starts(Compiled(access, field, n), Compiled(access, field, m))
  <2>1. n \in 0 .. N
    BY <1>1
  <2>2. Starts(f[n], f[m])
    BY <1>3, <1>4, JoinsGrow, Zenon
  <2>3. QED
    BY <1>5, <2>1, <2>2
<1>10. QED
  BY <1>6, <1>7, <1>8, <1>9 DEF N

\* Where the data of input h begins among the data of its access.
Place(access, field, h) == Len(Compiled(access, field, h - 1))

\* The part of an input is where the inputs before it end, within the whole
\* and before the parts of later inputs.
LEMMA PlaceFacts ==
  ASSUME InputsTyped, NEW access, NEW field \in Fields, NEW h \in Handles, inputs[h].access = access
  PROVE  /\ Place(access, field, h) \in Nat /\ inputs[h].size[field] \in Nat
         /\ Compiled(access, field, Len(inputs)) \in Seq(Cells)
         /\ Place(access, field, h) + inputs[h].size[field] <= Len(Compiled(access, field, Len(inputs)))
         /\ \A k \in 1 .. inputs[h].size[field] :
              Compiled(access, field, Len(inputs))[Place(access, field, h) + k] = <<h, k, 0>>
         /\ \A g \in Handles : h < g => Place(access, field, h) + inputs[h].size[field] <= Place(access, field, g)
<1> DEFINE start == Place(access, field, h)
           size == inputs[h].size[field]
           all == Compiled(access, field, Len(inputs))
<1> DEFINE N == Len(inputs)
           C(n) == Compiled(access, field, n)
           part == Part(access, field, h)
           before == C(h - 1)
           upto == C(h)
<1>1. N \in Nat /\ h \in 1 .. N /\ h \in 0 .. N /\ h - 1 \in 0 .. N - 1 /\ h - 1 \in 0 .. N /\ h - 1 + 1 = h
      /\ N \in 0 .. N /\ h \in 0 .. N
  BY InputFacts DEF Handles
<1>2. part \in Seq(Cells) /\ Len(part) = size /\ \A k \in 1 .. size : part[k] = <<h, k, 0>>
  BY PartFacts
<1>3. size \in Nat
  BY InputFacts
<1>4. \A n \in 0 .. N : C(n) \in Seq(Cells)
  BY CompiledFacts, Zenon
<1>5. C(h - 1 + 1) = C(h - 1) \o Part(access, field, h - 1 + 1)
  BY <1>1, CompiledFacts, Zenon
<1>6. upto = before \o part
  BY <1>1, <1>5
<1>7. \A m \in 0 .. N : \A n \in 0 .. m : Starts(C(n), C(m))
  BY CompiledFacts, Zenon
<1>8. all = C(N) /\ start = Len(C(h - 1))
  BY DEF Place
<1> HIDE DEF N, C, part, start, all
<1>9. before \in Seq(Cells) /\ upto \in Seq(Cells) /\ all \in Seq(Cells) /\ Starts(upto, all)
  BY <1>1, <1>4, <1>7, <1>8
<1>10. start = Len(before)
  BY <1>8
<1> HIDE DEF before, upto
<1>11. /\ Len(before \o part) = Len(before) + Len(part) /\ Len(before) \in Nat
       /\ \A k \in 1 .. Len(part) : (before \o part)[Len(before) + k] = part[k]
  <2>1. before \in Seq(Cells) /\ part \in Seq(Cells)
    BY <1>2, <1>9
  <2>2. Len(before) \in Nat
    BY <2>1
  <2>3. QED
    BY ONLY <2>1, <2>2, ConcatFacts
<1>12. start \in Nat /\ Len(upto) = start + size /\ Len(all) \in Nat
  BY <1>2, <1>6, <1>9, <1>10, <1>11
<1>13. start + size <= Len(all)
  BY <1>9, <1>12 DEF Starts
<1>14. ASSUME NEW k \in 1 .. size PROVE all[start + k] = <<h, k, 0>>
  <2>1. upto[start + k] = <<h, k, 0>>
    BY <1>2, <1>6, <1>10, <1>11
  <2>2. start + k \in 1 .. Len(upto)
    BY <1>3, <1>12
  <2>3. QED
    BY <1>9, <2>1, <2>2 DEF Starts
<1>15. ASSUME NEW g \in Handles, h < g PROVE start + size <= Place(access, field, g)
  <2>1. g - 1 \in 0 .. N /\ h \in 0 .. g - 1
    BY <1>1, <1>15 DEF Handles, N
  <2>2. Starts(upto, C(g - 1))
    BY <1>7, <2>1 DEF upto
  <2>3. QED
    BY <1>12, <2>2 DEF Starts, C, Place
<1>16. QED
  BY <1>3, <1>9, <1>12, <1>13, <1>14, <1>15 DEF start, all

\* The running count of record_draw_list is the length of the data before.
LEMMA FirstIsStart ==
  ASSUME InputsTyped, NEW h \in Handles, NEW field \in Fields
  PROVE  First(h, field) = Len(Compiled(inputs[h].access, field, h - 1))
<1> DEFINE access == inputs[h].access
           add(g) == IF inputs[g].access = access THEN inputs[g].size[field] ELSE 0
           Is(c) == c = [g \in 0 .. h - 1 |-> IF g = 0 THEN 0 ELSE c[g - 1] + add(g)]
           len == [g \in 0 .. h - 1 |-> Len(Compiled(access, field, g))]
           count == CHOOSE c : Is(c)
           T == {g \in 0 .. h - 1 : count[g] = len[g]}
<1>1. h - 1 \in Nat /\ h - 1 \in 0 .. Len(inputs) /\ Len(inputs) \in Nat /\ h \in Nat
  BY InputFacts DEF Handles
<1>2. First(h, field) = count[h - 1]
  BY DEF First
<1> HIDE DEF access
<1>3. len[0] = 0
  BY <1>1, CompiledFacts
<1>4. ASSUME NEW g \in 0 .. h - 1 - 1 PROVE len[g + 1] = len[g] + add(g + 1)
  <2>1. g \in 0 .. Len(inputs) - 1 /\ g \in 0 .. Len(inputs) /\ g + 1 \in Handles
        /\ g \in 0 .. h - 1 /\ g + 1 \in 0 .. h - 1
    BY <1>1 DEF Handles
  <2> DEFINE a == Compiled(access, field, g)
             b == Part(access, field, g + 1)
  <2>2. Compiled(access, field, g + 1) = a \o b /\ a \in Seq(Cells)
    BY <2>1, CompiledFacts, Zenon
  <2>3. b \in Seq(Cells) /\ Len(b) = add(g + 1)
    BY <2>1, PartFacts, Zenon
  <2>4. len[g] = Len(a) /\ len[g + 1] = Len(Compiled(access, field, g + 1))
    BY <2>1
  <2> HIDE DEF a, b, len, add
  <2>5. Len(a \o b) = Len(a) + Len(b)
    BY <2>2, <2>3, ConcatFacts, Zenon
  <2>6. QED
    BY <2>2, <2>3, <2>4, <2>5
<1> HIDE DEF add
<1>5. ASSUME NEW g \in 0 .. h - 1 PROVE len[g] = IF g = 0 THEN 0 ELSE len[g - 1] + add(g)
  <2>1. CASE g = 0
    BY <1>3, <2>1
  <2>2. CASE g # 0
    <3>1. g - 1 \in 0 .. h - 1 - 1 /\ g - 1 + 1 = g
      BY <1>1, <2>2
    <3>2. len[g - 1 + 1] = len[g - 1] + add(g - 1 + 1)
      BY <1>4, <3>1, Zenon
    <3>3. QED
      BY <2>2, <3>1, <3>2
  <2>3. QED
    BY <2>1, <2>2
<1>6. Is(len)
  BY <1>5
<1>7. Is(count)
  <2> HIDE DEF Is, len
  <2>1. QED
    BY <1>6
<1>8. \A g \in 0 .. h - 1 : count[g] = IF g = 0 THEN 0 ELSE count[g - 1] + add(g)
  <2> HIDE DEF count
  <2>1. QED
    BY <1>7, Zenon
<1> HIDE DEF count, len
<1>9. 0 \in T
  BY <1>1, <1>3, <1>8
<1>10. ASSUME NEW g \in 0 .. h - 1 - 1, g \in T PROVE g + 1 \in T
  <2>1. g + 1 \in 0 .. h - 1 /\ g + 1 # 0 /\ g + 1 - 1 = g
    BY <1>1
  <2>2. count[g + 1] = IF g + 1 = 0 THEN 0 ELSE count[g + 1 - 1] + add(g + 1)
    BY <1>8, <2>1
  <2>3. count[g + 1] = count[g] + add(g + 1)
    BY <2>1, <2>2
  <2>4. count[g] = len[g]
    BY <1>10
  <2>5. count[g + 1] = len[g + 1]
    BY <1>4, <2>3, <2>4
  <2>6. QED
    BY <2>1, <2>5
<1> HIDE DEF T
<1>11. \A g \in 0 .. h - 1 : g \in T
  BY <1>1, <1>9, <1>10, Counting, Zenon
<1>12. count[h - 1] = len[h - 1]
  BY <1>1, <1>11 DEF T
<1>13. QED
  BY <1>1, <1>2, <1>12 DEF len, access

\* The buffer has the elements of every input of the access in their place,
\* after e[h] edits.
Holds(buffer, access, field, e) ==
  /\ buffer \in Seq(Cells)
  /\ Len(buffer) = Len(Compiled(access, field, Len(inputs)))
  /\ \A h \in Handles : inputs[h].access = access =>
       \A k \in 1 .. inputs[h].size[field] : buffer[Place(access, field, h) + k] = <<h, k, e[h]>>

Unedited == [h \in Handles |-> 0]

AtMostOneDynamic == \A g, h \in DynamicHandles : g = h

\* The buffers of a renderer.
Laid ==
  /\ edits \in [Handles -> {0, 1}]
  /\ \A h \in Handles : inputs[h].access = "static" => edits[h] = 0
  /\ Holds(memory["static"].vertices, "static", "vertices", edits)
  /\ Holds(memory["static"].indices, "static", "indices", Unedited)
  /\ Holds(memory["dynamic"].vertices, "dynamic", "vertices", edits)
  /\ frontend = "opengl" \/ AtMostOneDynamic =>
       ~overrun /\ Holds(memory["dynamic"].indices, "dynamic", "indices", Unedited)

LayoutInv ==
  /\ InputsTyped
  /\ memory \in Memory
  /\ built => Laid

\* What the constructor leaves behind.
RegionsTold ==
  /\ overrun = (Overruns("vertices", [h \in Handles |-> VertexRegion(h)])
                  \/ Overruns("indices", [h \in Handles |-> IndexRegion(h)]))
  /\ edits = [h \in Handles |-> 0]

AsConstructed == RegionsTold /\ memory = [static |-> StaticMemory, dynamic |-> DynamicMemory]

\* Copying the dynamic inputs to their regions keeps a buffer's length, and
\* where just one input writes its data is found.
LEMMA CopiedFacts ==
  ASSUME InputsTyped, NEW field \in Fields, NEW buffer \in Seq(Cells), NEW region \in [Handles -> Nat]
  PROVE  /\ Copied(buffer, field, region) \in Seq(Cells)
         /\ Len(Copied(buffer, field, region)) = Len(buffer)
         /\ \A h \in DynamicHandles : \A k \in 1 .. inputs[h].size[field] :
              /\ region[h] + k \in 1 .. Len(buffer)
              /\ \A g \in DynamicHandles : g # h => ~(region[g] < region[h] + k /\ region[h] + k <= region[g] + inputs[g].size[field])
              => Copied(buffer, field, region)[region[h] + k] = <<h, k, 0>>
<1> DEFINE L == Len(buffer)
           writers(i) == {h \in DynamicHandles : region[h] < i /\ i <= region[h] + inputs[h].size[field]}
           cell(i) == IF writers(i) = {} THEN buffer[i] ELSE <<Max(writers(i)), i - region[Max(writers(i))], 0>>
<1>1. L \in Nat /\ Len(inputs) \in Nat
  BY DEF InputsTyped
<1>2. Copied(buffer, field, region) = [i \in 1 .. L |-> cell(i)]
  BY DEF Copied
<1>3. \A h \in Handles : h \in Nat /\ h <= Len(inputs) /\ h >= 1 /\ region[h] \in Nat /\ inputs[h].size[field] \in Nat
  BY <1>1, InputFacts DEF Handles
<1>4. DynamicHandles \subseteq Handles
  BY DEF DynamicHandles
<1>5. ASSUME NEW i \in 1 .. L PROVE cell(i) \in Cells
  <2>1. CASE writers(i) = {}
    <3>1. buffer[i] \in Cells
      BY ElementOfSeq
    <3>2. QED
      BY <2>1, <3>1
  <2>2. CASE writers(i) # {}
    <3> DEFINE W == writers(i)
               m == Max(W)
    <3>1. W \subseteq 0 .. Len(inputs) /\ W # {}
      BY <1>3, <1>4, <2>2
    <3>2. m \in W
      <4> HIDE DEF W
      <4>1. QED
        BY <1>1, <3>1, GreatestExists, Zenon
    <3>3. m \in Handles /\ region[m] < i
      BY <1>4, <3>2
    <3>4. cell(i) = <<m, i - region[m], 0>>
      BY <2>2
    <3> HIDE DEF m, W, cell
    <3>5. m \in Nat /\ i - region[m] \in Nat
      BY <1>1, <1>3, <3>3
    <3>6. <<m, i - region[m], 0>> \in Cells
      BY <3>5, Zenon DEF Cells
    <3>7. QED
      BY <3>4, <3>6
  <2>3. QED
    BY <2>1, <2>2
<1>6. [i \in 1 .. L |-> cell(i)] \in Seq(Cells) /\ Len([i \in 1 .. L |-> cell(i)]) = L
  <2> HIDE DEF cell, L
  <2>1. QED
    BY <1>1, <1>5
<1>7. ASSUME NEW h \in DynamicHandles, NEW k \in 1 .. inputs[h].size[field],
             region[h] + k \in 1 .. L,
             \A g \in DynamicHandles :
               g # h => ~(region[g] < region[h] + k /\ region[h] + k <= region[g] + inputs[g].size[field])
      PROVE  Copied(buffer, field, region)[region[h] + k] = <<h, k, 0>>
  <2> DEFINE i == region[h] + k
             W == writers(i)
  <2>1. h \in W
    BY <1>3, <1>4
  <2>2. \A g \in W : g = h
    BY <1>7
  <2>3. W \subseteq 0 .. Len(inputs) /\ W # {}
    <3>1. W \subseteq Handles
      BY <1>4
    <3>2. Handles \subseteq 0 .. Len(inputs)
      BY <1>1 DEF Handles
    <3>3. QED
      BY <2>1, <3>1, <3>2, Zenon
  <2>4. Max(W) \in W
    <3> HIDE DEF W
    <3>1. QED
      BY <1>1, <2>3, GreatestExists, Zenon
  <2>5. Max(W) = h
    BY <2>2, <2>4
  <2>6. cell(i) = <<h, i - region[h], 0>>
    <3>1. cell(i) = IF W = {} THEN buffer[i] ELSE <<Max(W), i - region[Max(W)], 0>>
      OBVIOUS
    <3> HIDE DEF W, i, cell
    <3>2. QED
      BY <2>3, <2>5, <3>1, Zenon
  <2>7. i - region[h] = k
    BY <1>3, <1>4
  <2>8. Copied(buffer, field, region)[i] = cell(i)
    BY <1>2, <1>7, Zenon
  <2> HIDE DEF i, cell
  <2>9. QED
    BY <2>6, <2>7, <2>8 DEF i
<1>8. Copied(buffer, field, region) \in Seq(Cells) /\ Len(Copied(buffer, field, region)) = L
  <2> HIDE DEF cell, L
  <2>1. QED
    BY <1>2, <1>6, Zenon
<1>9. QED
  <2> HIDE DEF cell
  <2>1. QED
    BY <1>7, <1>8

\* Inputs of the same access have disjoint places.
LEMMA PlacesApart ==
  ASSUME InputsTyped, NEW access, NEW field \in Fields,
         NEW g \in Handles, NEW h \in Handles, g # h, inputs[g].access = access, inputs[h].access = access
  PROVE  \/ Place(access, field, g) + inputs[g].size[field] <= Place(access, field, h)
         \/ Place(access, field, h) + inputs[h].size[field] <= Place(access, field, g)
<1>1. g < h \/ h < g
  BY DEF Handles
<1>2. CASE g < h
  BY <1>2, PlaceFacts, Zenon
<1>3. CASE h < g
  BY <1>3, PlaceFacts, Zenon
<1>4. QED
  BY <1>1, <1>2, <1>3

\* Data that is put end to end is in its place.
LEMMA CompiledHolds ==
  ASSUME InputsTyped, NEW access, NEW field \in Fields
  PROVE  Holds(Compiled(access, field, Len(inputs)), access, field, Unedited)
<1>1. Compiled(access, field, Len(inputs)) \in Seq(Cells)
  <2>1. Len(inputs) \in 0 .. Len(inputs)
    BY DEF InputsTyped
  <2>2. QED
    BY <2>1, CompiledFacts, Zenon
<1>2. ASSUME NEW h \in Handles, inputs[h].access = access, NEW k \in 1 .. inputs[h].size[field]
      PROVE  Compiled(access, field, Len(inputs))[Place(access, field, h) + k] = <<h, k, Unedited[h]>>
  <2>1. Unedited[h] = 0
    BY DEF Unedited
  <2>2. QED
    BY <1>2, <2>1, PlaceFacts
<1>3. QED
  BY <1>1, <1>2 DEF Holds

\* Regions that are the places put every dynamic input in its place.
LEMMA CopiedHolds ==
  ASSUME InputsTyped, NEW field \in Fields, NEW buffer \in Seq(Cells), NEW region \in [Handles -> Nat],
         Len(buffer) = Len(Compiled("dynamic", field, Len(inputs))),
         \A h \in DynamicHandles : region[h] = Place("dynamic", field, h)
  PROVE  Holds(Copied(buffer, field, region), "dynamic", field, Unedited)
<1> DEFINE result == Copied(buffer, field, region)
<1>1. result \in Seq(Cells) /\ Len(result) = Len(buffer)
  BY CopiedFacts
<1>2. ASSUME NEW h \in Handles, inputs[h].access = "dynamic", NEW k \in 1 .. inputs[h].size[field]
      PROVE  result[Place("dynamic", field, h) + k] = <<h, k, Unedited[h]>>
  <2> DEFINE at == Place("dynamic", field, h)
             size == inputs[h].size[field]
  <2>1. h \in DynamicHandles /\ region[h] = at /\ Unedited[h] = 0
    BY <1>2 DEF DynamicHandles, Unedited
  <2>2. at \in Nat /\ size \in Nat /\ at + size <= Len(buffer) /\ Len(buffer) \in Nat
    BY <1>2, PlaceFacts
  <2>3. region[h] + k \in 1 .. Len(buffer)
    <3> HIDE DEF at, size
    <3>1. k \in Nat /\ k >= 1 /\ k <= size
      BY <1>2 DEF size
    <3>2. QED
      BY <2>1, <2>2, <3>1
  <2>4. ASSUME NEW g \in DynamicHandles, g # h
        PROVE  ~(region[g] < region[h] + k /\ region[h] + k <= region[g] + inputs[g].size[field])
    <3> DEFINE that == Place("dynamic", field, g)
               its == inputs[g].size[field]
    <3>1. g \in Handles /\ inputs[g].access = "dynamic" /\ region[g] = that
      BY DEF DynamicHandles
    <3>2. that + its <= at \/ at + size <= that
      BY <1>2, <2>4, <3>1, PlacesApart, Zenon
    <3>3. that \in Nat /\ its \in Nat
      BY <3>1, PlaceFacts
    <3>4. k \in Nat /\ k >= 1 /\ k <= size
      BY <1>2, <2>2
    <3> HIDE DEF at, size, that, its
    <3>5. ~(that < at + k /\ at + k <= that + its)
      BY <2>2, <3>2, <3>3, <3>4
    <3>6. QED
      BY <2>1, <3>1, <3>5 DEF its
  <2>5. result[region[h] + k] = <<h, k, 0>>
    BY <1>2, <2>1, <2>3, <2>4, CopiedFacts, Zenon
  <2>6. QED
    BY <2>1, <2>5
<1>3. QED
  <2> HIDE DEF result
  <2>1. Holds(result, "dynamic", field, Unedited)
    BY <1>1, <1>2 DEF Holds
  <2>2. QED
    BY <2>1 DEF result

\* Inputs of another access add no data.
LEMMA NoneOf ==
  ASSUME InputsTyped, NEW access, NEW field \in Fields, NEW m \in 0 .. Len(inputs),
         \A g \in 1 .. m : inputs[g].access # access
  PROVE  Compiled(access, field, m) = <<>>
<1> DEFINE C(n) == Compiled(access, field, n)
           T == {n \in 0 .. m : C(n) = <<>>}
<1>1. Len(inputs) \in Nat /\ m \in Nat
  BY DEF InputsTyped
<1>2. 0 \in T
  BY <1>1, CompiledFacts
<1>3. ASSUME NEW n \in 0 .. m - 1, n \in T PROVE n + 1 \in T
  <2>1. n + 1 \in 1 .. m /\ n \in 0 .. Len(inputs) - 1 /\ n + 1 \in 0 .. m
    BY <1>1
  <2>2. Part(access, field, n + 1) = <<>>
    BY <2>1 DEF Part
  <2>3. C(n + 1) = C(n) \o Part(access, field, n + 1)
    BY <2>1, CompiledFacts, Zenon
  <2>4. C(n) = <<>>
    BY <1>3
  <2> HIDE DEF C
  <2>5. C(n + 1) = <<>> \o <<>>
    BY <2>2, <2>3, <2>4
  <2>6. C(n + 1) = <<>>
    BY <2>5
  <2>7. QED
    BY <2>1, <2>6
<1> HIDE DEF T
<1>4. \A n \in 0 .. m : n \in T
  BY <1>1, <1>2, <1>3, Counting, Zenon
<1>5. QED
  BY <1>1, <1>4 DEF T

\* Before the only dynamic input there is no dynamic data.
LEMMA FirstDynamic ==
  ASSUME InputsTyped, NEW field \in Fields, AtMostOneDynamic, NEW h \in DynamicHandles
  PROVE  Place("dynamic", field, h) = 0
<1>1. h \in Handles
  BY DEF DynamicHandles
<1>2. h - 1 \in 0 .. Len(inputs) /\ \A g \in 1 .. h - 1 : g \in Handles /\ g # h
  BY <1>1, InputFacts DEF Handles
<1>3. \A g \in 1 .. h - 1 : inputs[g].access # "dynamic"
  BY <1>2 DEF AtMostOneDynamic, DynamicHandles
<1>4. Compiled("dynamic", field, h - 1) = <<>>
  BY <1>2, <1>3, NoneOf
<1>5. QED
  BY <1>4 DEF Place

\* Static inputs without indices are no inputs at all.
LEMMA NoStaticData ==
  ASSUME InputsTyped, StaticMemory.indices = <<>>
  PROVE  /\ \A h \in Handles : inputs[h].access # "static"
         /\ StaticMemory = [field \in Fields |-> <<>>]
<1> DEFINE all == Compiled("static", "indices", Len(inputs))
<1>1. all = <<>> /\ "indices" \in Fields
  BY DEF StaticMemory, Fields
<1>2. ASSUME NEW h \in Handles, inputs[h].access = "static" PROVE FALSE
  <2> DEFINE at == Place("static", "indices", h)
             n == inputs[h].size["indices"]
  <2>1. at \in Nat /\ n \in Nat /\ at + n <= Len(all) /\ n # 0
    BY <1>1, <1>2, PlaceFacts, InputFacts
  <2> HIDE DEF at, n, all
  <2>2. QED
    BY <1>1, <2>1
<1>3. Len(inputs) \in 0 .. Len(inputs) /\ \A g \in 1 .. Len(inputs) : inputs[g].access # "static"
  BY <1>2 DEF InputsTyped, Handles
<1>4. \A field \in Fields : Compiled("static", field, Len(inputs)) = <<>>
  BY <1>3, NoneOf
<1>5. QED
  BY <1>2, <1>4 DEF StaticMemory, Fields

\* Regions that are the places keep within the buffer.
LEMMA PlacesWithin ==
  ASSUME InputsTyped, NEW field \in Fields, NEW region,
         \A h \in DynamicHandles : region[h] = Place("dynamic", field, h)
  PROVE  ~Overruns(field, region)
<1> SUFFICES ASSUME NEW h \in DynamicHandles,
                    region[h] + inputs[h].size[field] > Len(Compiled("dynamic", field, Len(inputs)))
             PROVE  FALSE
  BY DEF Overruns
<1>1. h \in Handles /\ inputs[h].access = "dynamic" /\ region[h] = Place("dynamic", field, h)
  BY DEF DynamicHandles
<1> DEFINE at == Place("dynamic", field, h)
           size == inputs[h].size[field]
           all == Compiled("dynamic", field, Len(inputs))
<1>2. at \in Nat /\ size \in Nat /\ all \in Seq(Cells) /\ at + size <= Len(all)
  BY <1>1, PlaceFacts
<1>3. Len(all) \in Nat
  BY <1>2
<1>4. at + size > Len(all)
  BY <1>1
<1> HIDE DEF at, size, all
<1>5. QED
  BY <1>2, <1>3, <1>4

\* The dynamic buffers are large enough for the data before it is copied.
LEMMA FreshFacts ==
  ASSUME InputsTyped, NEW field \in Fields
  PROVE  /\ Fresh(field) \in Seq(Cells)
         /\ Len(Fresh(field)) = Len(Compiled("dynamic", field, Len(inputs)))
<1> DEFINE data == Compiled("dynamic", field, Len(inputs))
<1>1. data \in Seq(Cells)
  BY CompiledHolds DEF Holds
<1>2. Fresh(field) = IF frontend = "vulkan" THEN [k \in 1 .. Len(data) |-> Uninitialised] ELSE data
  BY DEF Fresh
<1>3. Len(data) \in Nat /\ Uninitialised \in Cells
  BY <1>1 DEF Uninitialised, Cells
<1> HIDE DEF data
<1>4. CASE frontend = "vulkan"
  <2> DEFINE blank == [k \in 1 .. Len(data) |-> Uninitialised]
  <2>1. blank \in Seq(Cells) /\ Len(blank) = Len(data)
    BY <1>3
  <2>2. Fresh(field) = blank
    BY <1>2, <1>4
  <2> HIDE DEF blank
  <2>3. QED
    BY <2>1, <2>2 DEF data
<1>5. CASE frontend # "vulkan"
  BY <1>1, <1>2, <1>5 DEF data
<1>6. QED
  BY <1>4, <1>5

\* The regions are cells of the buffers or beyond.
LEMMA RegionsTyped ==
  ASSUME InputsTyped
  PROVE  /\ [h \in Handles |-> VertexRegion(h)] \in [Handles -> Nat]
         /\ [h \in Handles |-> IndexRegion(h)] \in [Handles -> Nat]
<1>1. ASSUME NEW h \in Handles, NEW field \in Fields PROVE Len(Compiled("dynamic", field, h - 1)) \in Nat
  <2>1. h - 1 \in 0 .. Len(inputs)
    BY InputFacts DEF Handles
  <2>2. Compiled("dynamic", field, h - 1) \in Seq(Cells)
    BY <2>1, CompiledFacts, Zenon
  <2>3. QED
    BY <2>2
<1>2. ASSUME NEW h \in Handles PROVE VertexRegion(h) \in Nat
  BY <1>1 DEF VertexRegion, Fields
<1>3. ASSUME NEW h \in Handles PROVE IndexRegion(h) \in Nat
  <2>1. Len(Compiled("dynamic", "indices", h - 1)) \in Nat
    BY <1>1 DEF Fields
  <2>2. IndexRegionOGL(h) \in Nat
    BY <2>1 DEF IndexRegionOGL
  <2>3. IndexRegionVulkan(h) \in Nat
    BY <2>1, BoundsAssumption DEF IndexRegionVulkan
  <2>4. QED
    BY <2>2, <2>3 DEF IndexRegion
<1>4. QED
  BY <1>2, <1>3

\* A constructor leaves every input's data in its place.
LEMMA ConstructedLaid == InputsTyped /\ AsConstructed => Laid /\ memory \in Memory /\ overrun \in BOOLEAN
<1> SUFFICES ASSUME InputsTyped, AsConstructed PROVE Laid /\ memory \in Memory /\ overrun \in BOOLEAN
  OBVIOUS
<1> DEFINE N == Len(inputs)
           RV == [h \in Handles |-> VertexRegion(h)]
           RI == [h \in Handles |-> IndexRegion(h)]
           DV == Copied(Fresh("vertices"), "vertices", RV)
           DI == Copied(Fresh("indices"), "indices", RI)
           SV == Compiled("static", "vertices", N)
           SI == Compiled("static", "indices", N)
<1>1. "vertices" \in Fields /\ "indices" \in Fields
  BY DEF Fields
<1>2. memory["static"] = StaticMemory /\ memory["dynamic"] = DynamicMemory
      /\ memory = [static |-> StaticMemory, dynamic |-> DynamicMemory]
  BY DEF AsConstructed
<1>3. StaticMemory.vertices = SV /\ StaticMemory.indices = SI
      /\ (SV \in Seq(Cells) /\ SI \in Seq(Cells) => StaticMemory \in [vertices : Seq(Cells), indices : Seq(Cells)])
  BY DEF StaticMemory
<1>4. DynamicMemory.vertices = DV /\ DynamicMemory.indices = DI
      /\ (DV \in Seq(Cells) /\ DI \in Seq(Cells) => DynamicMemory \in [vertices : Seq(Cells), indices : Seq(Cells)])
  BY DEF DynamicMemory
<1>5. edits = Unedited
  BY DEF AsConstructed, RegionsTold, Unedited
<1>6. overrun = (Overruns("vertices", RV) \/ Overruns("indices", RI))
  BY DEF AsConstructed, RegionsTold
<1>7. Holds(SV, "static", "vertices", Unedited) /\ Holds(SI, "static", "indices", Unedited)
  BY <1>1, CompiledHolds
<1>8. RV \in [Handles -> Nat] /\ RI \in [Handles -> Nat]
  BY RegionsTyped
<1>9. \A h \in DynamicHandles : RV[h] = Place("dynamic", "vertices", h)
  BY DEF VertexRegion, Place, DynamicHandles
<1>10. ASSUME frontend = "opengl" \/ AtMostOneDynamic
       PROVE  \A h \in DynamicHandles : RI[h] = Place("dynamic", "indices", h)
  <2> SUFFICES ASSUME NEW h \in DynamicHandles PROVE IndexRegion(h) = Place("dynamic", "indices", h)
    BY DEF DynamicHandles
  <2>1. CASE frontend # "vulkan"
    BY <2>1 DEF IndexRegion, IndexRegionOGL, Place
  <2>2. CASE frontend = "vulkan"
    <3>1. AtMostOneDynamic
      BY <1>10, <2>2
    <3>2. Place("dynamic", "indices", h) = 0
      BY <1>1, <3>1, FirstDynamic
    <3>3. IndexRegion(h) = Place("dynamic", "indices", h) * IndexBytes
      BY <2>2 DEF IndexRegion, IndexRegionVulkan, Place
    <3>4. QED
      BY <3>2, <3>3, BoundsAssumption
  <2>3. QED
    BY <2>1, <2>2
<1> HIDE DEF RV, RI
<1>11. Holds(DV, "dynamic", "vertices", Unedited)
  <2>1. Fresh("vertices") \in Seq(Cells) /\ Len(Fresh("vertices")) = Len(Compiled("dynamic", "vertices", Len(inputs)))
    BY <1>1, FreshFacts
  <2>2. QED
    BY <1>1, <1>8, <1>9, <2>1, CopiedHolds
<1>12. Fresh("indices") \in Seq(Cells) /\ Len(Fresh("indices")) = Len(Compiled("dynamic", "indices", Len(inputs)))
  BY <1>1, FreshFacts
<1>13. DI \in Seq(Cells)
  BY <1>1, <1>8, <1>12, CopiedFacts
<1>14. ~Overruns("vertices", RV)
  BY <1>1, <1>9, PlacesWithin
<1>15. ASSUME frontend = "opengl" \/ AtMostOneDynamic
       PROVE  ~overrun /\ Holds(DI, "dynamic", "indices", Unedited)
  <2>1. \A h \in DynamicHandles : RI[h] = Place("dynamic", "indices", h)
    BY <1>10, <1>15
  <2>2. ~Overruns("indices", RI)
    BY <1>1, <2>1, PlacesWithin
  <2>3. Holds(DI, "dynamic", "indices", Unedited)
    BY <1>1, <1>8, <1>12, <2>1, CopiedHolds
  <2>4. QED
    BY <1>6, <1>14, <2>2, <2>3, Zenon
<1>16. SV \in Seq(Cells) /\ SI \in Seq(Cells) /\ DV \in Seq(Cells)
  BY <1>7, <1>11 DEF Holds
<1> HIDE DEF SV, SI, DV, DI
<1>17. memory \in Memory
  <2> DEFINE Buffers == [vertices : Seq(Cells), indices : Seq(Cells)]
  <2>1. StaticMemory \in Buffers /\ DynamicMemory \in Buffers
    BY <1>3, <1>4, <1>13, <1>16
  <2>2. Memory = [{"static", "dynamic"} -> Buffers]
    BY DEF Memory, Accesses, Cells
  <2> HIDE DEF Buffers
  <2>3. QED
    BY <1>2, <2>1, <2>2
<1>18. edits \in [Handles -> {0, 1}] /\ \A h \in Handles : edits[h] = 0
  BY <1>5 DEF Unedited
<1>19. Laid
  <2>1. /\ Holds(memory["static"].vertices, "static", "vertices", edits)
        /\ Holds(memory["static"].indices, "static", "indices", Unedited)
        /\ Holds(memory["dynamic"].vertices, "dynamic", "vertices", edits)
    BY <1>2, <1>3, <1>4, <1>5, <1>7, <1>11
  <2>2. frontend = "opengl" \/ AtMostOneDynamic =>
          ~overrun /\ Holds(memory["dynamic"].indices, "dynamic", "indices", Unedited)
    BY <1>2, <1>4, <1>15
  <2>3. QED
    BY <1>18, <2>1, <2>2 DEF Laid
<1>20. QED
  BY <1>6, <1>17, <1>19

\* A piece of a sequence.
LEMMA SubSeqFacts ==
  ASSUME NEW S, NEW s \in Seq(S), NEW m \in Nat, NEW n \in Nat, m + n <= Len(s)
  PROVE  SubSeq(s, m + 1, m + n) = [k \in 1 .. n |-> s[m + k]]
  OBVIOUS

\* A draw of an input reads what the buffer holds for it.
LEMMA HoldsRead ==
  ASSUME InputsTyped, NEW field \in Fields, NEW h \in Handles, NEW buffer, NEW e,
         Holds(buffer, inputs[h].access, field, e)
  PROVE  SubSeq(buffer, First(h, field) + 1, First(h, field) + inputs[h].size[field]) = Elements(h, field, e[h])
<1> DEFINE at == Place(inputs[h].access, field, h)
           n == inputs[h].size[field]
<1>1. First(h, field) = at
  BY FirstIsStart DEF Place
<1>2. at \in Nat /\ n \in Nat /\ at + n <= Len(Compiled(inputs[h].access, field, Len(inputs)))
  BY PlaceFacts, Zenon
<1>3. buffer \in Seq(Cells) /\ at + n <= Len(buffer) /\ \A k \in 1 .. n : buffer[at + k] = <<h, k, e[h]>>
  BY <1>2 DEF Holds
<1>4. Elements(h, field, e[h]) = [k \in 1 .. n |-> <<h, k, e[h]>>]
  BY DEF Elements
<1> HIDE DEF at, n
<1>5. SubSeq(buffer, at + 1, at + n) = [k \in 1 .. n |-> buffer[at + k]]
  BY <1>2, <1>3, SubSeqFacts
<1>6. SubSeq(buffer, at + 1, at + n) = Elements(h, field, e[h])
  BY <1>3, <1>4, <1>5, Zenon
<1>7. QED
  BY <1>1, <1>6 DEF n

\* What a renderer's buffers hold is what its draws need.
LEMMA LaidDraws == InputsTyped /\ (built => Laid) => DrawsOwnVertices /\ DrawsOwnIndicesElsewhere
<1> SUFFICES ASSUME InputsTyped, built => Laid PROVE DrawsOwnVertices /\ DrawsOwnIndicesElsewhere
  OBVIOUS
<1>1. "vertices" \in Fields /\ "indices" \in Fields
  BY DEF Fields
<1>2. \A h \in Handles : inputs[h].access = "static" \/ inputs[h].access = "dynamic"
  BY <1>1, InputFacts DEF Accesses
<1>3. ASSUME built, NEW h \in Handles PROVE Read(h, "vertices") = Elements(h, "vertices", edits[h])
  <2>1. Holds(memory[inputs[h].access].vertices, inputs[h].access, "vertices", edits)
    BY <1>2, <1>3 DEF Laid
  <2>2. Read(h, "vertices") = SubSeq(memory[inputs[h].access].vertices, First(h, "vertices") + 1,
                                     First(h, "vertices") + inputs[h].size["vertices"])
    BY Zenon DEF Read
  <2>3. QED
    BY <1>1, <2>1, <2>2, HoldsRead, Zenon
<1>4. ASSUME frontend = "opengl" \/ AtMostOneDynamic, built, NEW h \in Handles
      PROVE  ~overrun /\ Read(h, "indices") = Elements(h, "indices", 0)
  <2>1. ~overrun /\ Holds(memory[inputs[h].access].indices, inputs[h].access, "indices", Unedited)
    BY <1>2, <1>4 DEF Laid
  <2>2. Read(h, "indices") = SubSeq(memory[inputs[h].access].indices, First(h, "indices") + 1,
                                    First(h, "indices") + inputs[h].size["indices"])
    BY Zenon DEF Read
  <2>3. Unedited[h] = 0
    BY DEF Unedited
  <2>4. Read(h, "indices") = Elements(h, "indices", Unedited[h])
    BY <1>1, <2>1, <2>2, HoldsRead, Zenon
  <2>5. QED
    BY <2>1, <2>3, <2>4
<1>5. DrawsOwnVertices
  BY <1>3 DEF DrawsOwnVertices
<1>6. DrawsOwnIndicesElsewhere
  <2>1. ASSUME frontend = "opengl" \/ AtMostOneDynamic, built PROVE ~overrun
    BY <2>1 DEF Laid
  <2>2. QED
    BY <1>4, <2>1 DEF DrawsOwnIndicesElsewhere, DrawsOwnIndices, AtMostOneDynamic
<1>7. QED
  BY <1>5, <1>6

\* What is said of a buffer depends on the inputs alone.
LEMMA SameInputs ==
  ASSUME inputs' = inputs
  PROVE  /\ Handles' = Handles /\ DynamicHandles' = DynamicHandles /\ Unedited' = Unedited
         /\ AtMostOneDynamic' = AtMostOneDynamic /\ InputsTyped' = InputsTyped
         /\ \A access, field, n : Compiled(access, field, n)' = Compiled(access, field, n)
         /\ \A access, field, h : Place(access, field, h)' = Place(access, field, h)
<1>1. Handles' = Handles /\ InputsTyped' = InputsTyped
  BY DEF Handles, InputsTyped
<1>2. DynamicHandles' = DynamicHandles /\ Unedited' = Unedited
  BY <1>1 DEF DynamicHandles, Unedited
<1>3. AtMostOneDynamic' = AtMostOneDynamic
  BY <1>2 DEF AtMostOneDynamic
<1>4. \A access, field, n : Compiled(access, field, n)' = Compiled(access, field, n)
  BY DEF Compiled, Elements
<1>5. \A access, field, h : Place(access, field, h)' = Place(access, field, h)
  BY <1>4 DEF Place
<1>6. QED
  BY <1>1, <1>2, <1>3, <1>4, <1>5

\* An edit changes the vertices of one input where they are.
LEMMA EditHolds ==
  ASSUME InputsTyped, NEW h \in DynamicHandles, NEW buffer, NEW e \in [Handles -> {0, 1}], NEW x \in {0, 1},
         Holds(buffer, "dynamic", "vertices", e), NEW after,
         after = [k \in DOMAIN buffer |->
                    IF VertexRegion(h) < k /\ k <= VertexRegion(h) + inputs[h].size.vertices
                      THEN <<h, k - VertexRegion(h), x>> ELSE buffer[k]]
  PROVE  Holds(after, "dynamic", "vertices", [e EXCEPT ![h] = x])
<1> DEFINE at == Place("dynamic", "vertices", h)
           n == inputs[h].size["vertices"]
           f == [e EXCEPT ![h] = x]
           L == Len(buffer)
           cell(k) == IF at < k /\ k <= at + n THEN <<h, k - at, x>> ELSE buffer[k]
<1>1. "vertices" \in Fields /\ h \in Handles /\ inputs[h].access = "dynamic"
  BY DEF Fields, DynamicHandles
<1>2. buffer \in Seq(Cells) /\ L = Len(Compiled("dynamic", "vertices", Len(inputs)))
  BY DEF Holds
<1>3. L \in Nat /\ DOMAIN buffer = 1 .. L /\ h \in Nat
  BY <1>1, <1>2 DEF Handles
<1>4. at \in Nat /\ n \in Nat /\ at + n <= L
  BY <1>1, <1>2, PlaceFacts
<1>5. after = [k \in 1 .. L |-> cell(k)]
  BY <1>3 DEF VertexRegion, Place
<1>6. \A k \in 1 .. L : cell(k) \in Cells
  <2> SUFFICES ASSUME NEW k \in 1 .. L PROVE cell(k) \in Cells
    OBVIOUS
  <2>1. buffer[k] \in Cells
    BY <1>2, ElementOfSeq
  <2> HIDE DEF at, n
  <2>2. at < k => k - at \in Nat
    BY <1>3, <1>4
  <2>3. at < k => <<h, k - at, x>> \in Cells
    BY <1>3, <2>2 DEF Cells
  <2>4. QED
    BY <2>1, <2>3
<1>7. after \in Seq(Cells) /\ Len(after) = L
  <2> HIDE DEF cell, L
  <2>1. QED
    BY <1>3, <1>5, <1>6, SMTT(30)
<1>8. ASSUME NEW g \in Handles, inputs[g].access = "dynamic", NEW k \in 1 .. inputs[g].size["vertices"]
      PROVE  after[Place("dynamic", "vertices", g) + k] = <<g, k, f[g]>>
  <2> DEFINE that == Place("dynamic", "vertices", g)
             its == inputs[g].size["vertices"]
             i == that + k
  <2>1. that \in Nat /\ its \in Nat /\ that + its <= L
    BY <1>1, <1>2, <1>8, PlaceFacts
  <2>2. k \in Nat /\ 1 <= k /\ k <= its
    BY <2>1
  <2>3. buffer[that + k] = <<g, k, e[g]>>
    BY <1>8 DEF Holds
  <2>4. after[i] = cell(i)
    <3>1. i \in 1 .. L
      <4> HIDE DEF that, its, L
      <4>1. QED
        BY <1>3, <2>1, <2>2
    <3> HIDE DEF i, cell, L
    <3>2. QED
      BY <1>5, <3>1
  <2>5. CASE g = h
    <3>1. f[g] = x /\ that = at /\ its = n
      BY <1>1, <2>5
    <3> HIDE DEF that, its, at, n, f
    <3>2. at < i /\ i <= at + n /\ i - at = k
      BY <1>4, <2>1, <2>2, <3>1
    <3>3. QED
      BY <2>4, <2>5, <3>1, <3>2 DEF that
  <2>6. CASE g # h
    <3>1. f[g] = e[g]
      BY <2>6
    <3>2. that + its <= at \/ at + n <= that
      BY <1>1, <1>8, <2>6, PlacesApart
    <3> HIDE DEF that, its, at, n, f
    <3>3. ~(at < i /\ i <= at + n)
      BY <1>4, <2>1, <2>2, <3>2
    <3>4. cell(i) = buffer[i]
      BY <3>3
    <3>5. QED
      BY <2>3, <2>4, <3>1, <3>4 DEF that
  <2>7. QED
    BY <2>5, <2>6
<1>9. QED
  <2> HIDE DEF f
  <2>1. Holds(after, "dynamic", "vertices", f)
    BY <1>2, <1>7, <1>8, Zenon DEF Holds
  <2>2. QED
    BY <2>1 DEF f

\* What a buffer holds, for inputs that stay the same.
LEMMA HoldsKept ==
  ASSUME inputs' = inputs, NEW buffer, NEW access, NEW field, NEW e
  PROVE  Holds(buffer, access, field, e)' = Holds(buffer, access, field, e)
<1>1. /\ Handles' = Handles
      /\ Compiled(access, field, Len(inputs))' = Compiled(access, field, Len(inputs))
      /\ \A h : Place(access, field, h)' = Place(access, field, h)
  BY SameInputs DEF Compiled, Elements
<1>2. QED
  BY <1>1 DEF Holds

\* Edits leave every input's data in its place.
LEMMA EditLaid ==
  ASSUME InputsTyped, memory \in Memory, Laid, NEW h \in Handles, EditInput(h)
  PROVE  Laid' /\ memory' \in Memory
<1> DEFINE buffer == memory["dynamic"].vertices
           x == 1 - edits[h]
           after == [k \in DOMAIN buffer |->
                       IF VertexRegion(h) < k /\ k <= VertexRegion(h) + inputs[h].size.vertices
                         THEN <<h, k - VertexRegion(h), x>> ELSE buffer[k]]
           Buffers == [vertices : Seq(Cells), indices : Seq(Cells)]
<1>1. inputs' = inputs /\ frontend' = frontend /\ overrun' = overrun /\ h \in DynamicHandles
  BY DEF EditInput, builderVars
<1>2. edits \in [Handles -> {0, 1}] /\ x \in {0, 1} /\ edits' = [edits EXCEPT ![h] = x] /\ edits'[h] = x
  BY DEF Laid, EditInput
<1>3. edits' \in [Handles -> {0, 1}] /\ \A g \in Handles : g # h => edits'[g] = edits[g]
  BY <1>2
<1>4. memory' = [memory EXCEPT !["dynamic"].vertices = after]
  BY <1>2 DEF EditInput
<1>5. Memory = [{"static", "dynamic"} -> Buffers]
  BY DEF Memory, Accesses, Cells
<1>6. Holds(buffer, "dynamic", "vertices", edits)
  BY DEF Laid
<1>7. Holds(after, "dynamic", "vertices", edits')
  <2> HIDE DEF buffer, x
  <2>1. Holds(after, "dynamic", "vertices", [edits EXCEPT ![h] = x])
    BY <1>1, <1>2, <1>6, EditHolds, Zenon
  <2>2. QED
    BY <1>2, <2>1
<1>8. after \in Seq(Cells)
  BY <1>7 DEF Holds
<1> HIDE DEF after
<1>9. /\ memory' \in Memory /\ memory'["static"] = memory["static"]
      /\ memory'["dynamic"].vertices = after /\ memory'["dynamic"].indices = memory["dynamic"].indices
  BY <1>4, <1>5, <1>8, Zenon
<1>10. \A g \in Handles : inputs[g].access = "static" => edits'[g] = 0 /\ edits[g] = 0
  <2>1. inputs[h].access = "dynamic"
    BY <1>1 DEF DynamicHandles
  <2>2. QED
    BY <1>3, <2>1 DEF Laid
<1>11. Holds(memory'["static"].vertices, "static", "vertices", edits')
  BY <1>9, <1>10, SMTT(20) DEF Laid, Holds
<1>12. Holds(memory'["static"].indices, "static", "indices", Unedited)
  BY <1>9 DEF Laid
<1>13. Holds(memory'["dynamic"].vertices, "dynamic", "vertices", edits')
  BY <1>7, <1>9
<1>14. frontend' = "opengl" \/ AtMostOneDynamic =>
         ~overrun' /\ Holds(memory'["dynamic"].indices, "dynamic", "indices", Unedited)
  BY <1>1, <1>9 DEF Laid
<1>15. Handles' = Handles /\ Unedited' = Unedited /\ AtMostOneDynamic' = AtMostOneDynamic
  BY <1>1, SameInputs
<1>16. /\ Holds(memory["static"].vertices, "static", "vertices", edits)'
       /\ Holds(memory["static"].indices, "static", "indices", Unedited)'
       /\ Holds(memory["dynamic"].vertices, "dynamic", "vertices", edits)'
  BY <1>1, <1>11, <1>12, <1>13, <1>15, HoldsKept
<1>17. (frontend = "opengl" \/ AtMostOneDynamic =>
         ~overrun /\ Holds(memory["dynamic"].indices, "dynamic", "indices", Unedited))'
  BY <1>1, <1>14, <1>15, HoldsKept
<1>18. QED
  BY <1>1, <1>3, <1>9, <1>10, <1>15, <1>16, <1>17 DEF Laid

-----------------------------------------------------------------------------

\* What the renderer keeps of the builder's lists.
KeptTyped ==
  /\ resources \in Seq(1 .. MaxResources)
  /\ \A b \in DOMAIN bound : b \in 0 .. MaxResources - 1 /\ bound[b] \in 1 .. MaxResources
  /\ edits \in Seq({0, 1})

SetupInv ==
  /\ frontend \in {"vulkan", "opengl"}
  /\ overrun \in BOOLEAN
  /\ Len(added) <= MaxResources
  /\ KeptTyped
  /\ ResourceInv
  /\ LayoutInv

\* The type of a sequence is that of its elements.
LEMMA SeqTyped ==
  ASSUME NEW S, NEW T, NEW s \in Seq(S), \A i \in 1 .. Len(s) : s[i] \in T
  PROVE  s \in Seq(T)
  OBVIOUS

\* The builder's lists name resources that were added.
LEMMA ListsTyped ==
  ASSUME ResourceInv, Len(added) <= MaxResources
  PROVE  /\ buffer_resources \in Seq(1 .. MaxResources) /\ texture_resources \in Seq(1 .. MaxResources)
         /\ handles \in Seq(0 .. MaxResources - 1)
         /\ StoredResources \in Seq(1 .. MaxResources)
         /\ \A b \in DOMAIN Bindings : b \in 0 .. MaxResources - 1 /\ Bindings[b] \in 1 .. MaxResources
<1> DEFINE nb == Len(buffer_resources)
           nt == Len(texture_resources)
           M == 1 .. MaxResources
<1>1. /\ buffer_resources \in Seq(Nat) /\ texture_resources \in Seq(Nat) /\ handles \in Seq(Nat)
      /\ added \in Seq(Types) /\ MaxResources \in Nat
  BY BoundsAssumption DEF ResourceInv, ListTypes
<1>2. nb \in Nat /\ nt \in Nat /\ Len(added) \in Nat /\ nb + nt = Len(added) /\ Len(handles) = Len(added)
  BY <1>1 DEF ResourceInv, Division, HandlesCount
<1>3. \A i \in 1 .. nb : buffer_resources[i] \in M
  BY <1>1, <1>2 DEF ResourceInv, Division
<1>4. \A i \in 1 .. nt : texture_resources[i] \in M
  BY <1>1, <1>2 DEF ResourceInv, Division
<1>5. \A x \in 1 .. Len(handles) : handles[x] \in 0 .. MaxResources - 1
  BY <1>1, <1>2 DEF ResourceInv, HandlesCount
<1>6. handles \in Seq(0 .. MaxResources - 1)
  BY <1>1, <1>5
<1> HIDE DEF M
<1>7. buffer_resources \in Seq(M) /\ texture_resources \in Seq(M)
  BY <1>1, <1>3, <1>4, SeqTyped
<1>8. StoredResources \in Seq(M)
  BY <1>7, ConcatFacts DEF StoredResources
<1>9. ASSUME NEW b \in DOMAIN Bindings PROVE b \in 0 .. MaxResources - 1 /\ Bindings[b] \in M
  <2>1. b \in 0 .. nb + nt - 1
    BY DEF Bindings
  <2>2. Bindings[b] = IF b < nb THEN buffer_resources[b + 1] ELSE texture_resources[b - nb + 1]
    BY <2>1 DEF Bindings
  <2> HIDE DEF nb, nt
  <2>3. b < nb => b + 1 \in 1 .. nb
    BY <1>2, <2>1
  <2>4. ~(b < nb) => b - nb + 1 \in 1 .. nt
    BY <1>2, <2>1
  <2>5. b \in 0 .. MaxResources - 1
    BY <1>1, <1>2, <2>1
  <2>6. QED
    BY <1>3, <1>4, <2>2, <2>3, <2>4, <2>5
<1>10. QED
  BY <1>6, <1>7, <1>8, <1>9 DEF M

\* A new builder.
LEMMA InitSetupInv == Init => SetupInv
<1> SUFFICES ASSUME Init PROVE SetupInv
  OBVIOUS
<1>1. ResourceInv
  BY InitResourceInv
<1>2. frontend \in {"vulkan", "opengl"} /\ overrun \in BOOLEAN /\ Len(added) <= MaxResources
  <2>1. frontend \in {"vulkan", "opengl"} /\ overrun = FALSE /\ added = <<>>
    BY DEF Init
  <2>2. Len(added) = 0
    BY <2>1
  <2>3. Len(added) <= MaxResources
    BY <2>2, BoundsAssumption
  <2>4. QED
    BY <2>1, <2>3, Zenon
<1>3. KeptTyped
  BY DEF Init, KeptTyped
<1>4. InputsTyped /\ ~built
  BY DEF Init, InputsTyped
<1>5. memory \in Memory
  <2> DEFINE Buffers == [vertices : Seq(Nat \X Nat \X Nat), indices : Seq(Nat \X Nat \X Nat)]
  <2>1. [vertices |-> <<>>, indices |-> <<>>] \in Buffers
    OBVIOUS
  <2>2. QED
    BY <2>1 DEF Init, Memory
<1>6. QED
  BY <1>1, <1>2, <1>3, <1>4, <1>5 DEF SetupInv, LayoutInv

\* The constructor's arrangement of what it was given.
LEMMA ArrangeTyped ==
  ASSUME ResourceInv, InputsTyped, Len(added) <= MaxResources, Arrange
  PROVE  KeptTyped'
<1>1. resources' = StoredResources /\ bound' = Bindings /\ edits' = [h \in Handles |-> 0]
  BY DEF Arrange
<1>2. edits' \in Seq({0, 1})
  <2>1. Len(inputs) \in Nat
    BY DEF InputsTyped
  <2>2. QED
    BY <1>1, <2>1 DEF Handles
<1>3. QED
  BY <1>1, <1>2, ListsTyped DEF KeptTyped

\* The data and the regions depend on the inputs and the frontend alone.
LEMMA SameData ==
  ASSUME inputs' = inputs, frontend' = frontend
  PROVE  /\ StaticMemory' = StaticMemory /\ DynamicMemory' = DynamicMemory
         /\ RegionsTold' <=>
              /\ overrun' = (Overruns("vertices", [h \in Handles |-> VertexRegion(h)])
                               \/ Overruns("indices", [h \in Handles |-> IndexRegion(h)]))
              /\ edits' = [h \in Handles |-> 0]
<1>1. inputs' = inputs /\ frontend' = frontend
  OBVIOUS
<1>2. Handles' = Handles /\ DynamicHandles' = DynamicHandles
  BY <1>1, SameInputs
<1>3. \A access, field, n : Compiled(access, field, n)' = Compiled(access, field, n)
  BY <1>1, SameInputs
<1>4. StaticMemory' = StaticMemory
  BY <1>1 DEF StaticMemory, Compiled, Elements
<1>5. \A h : VertexRegion(h)' = VertexRegion(h) /\ IndexRegion(h)' = IndexRegion(h)
  BY <1>1, <1>3 DEF VertexRegion, IndexRegion, IndexRegionVulkan, IndexRegionOGL
<1> DEFINE RV == [h \in Handles |-> VertexRegion(h)]
           RI == [h \in Handles |-> IndexRegion(h)]
<1>6. RV' = RV /\ RI' = RI
  BY <1>2, <1>5
<1>7. \A field : Fresh(field)' = Fresh(field)
  BY <1>1 DEF Fresh, Compiled, Elements
<1>8. \A buffer, field, region : Copied(buffer, field, region)' = Copied(buffer, field, region)
  BY <1>1, <1>2 DEF Copied
<1>9. \A field, region : Overruns(field, region)' = Overruns(field, region)
  BY <1>1, <1>2 DEF Overruns, Compiled, Elements
<1>10. DynamicMemory' = DynamicMemory
  BY <1>6, <1>7, <1>8 DEF DynamicMemory
<1>11. QED
  BY <1>2, <1>4, <1>6, <1>9, <1>10 DEF RegionsTold

\* Inputs added to the builder have their type.
LEMMA AddInputTyped ==
  ASSUME InputsTyped, NEW a \in Accesses, NEW s \in Sizes, AddInput(a, s)
  PROVE  InputsTyped'
<1> DEFINE R == [access : Accesses, size : Sizes]
           r == [access |-> a, size |-> s]
<1>1. inputs \in Seq(R) /\ r \in R /\ inputs' = Append(inputs, r)
  BY DEF InputsTyped, AddInput
<1> HIDE DEF R, r
<1>2. inputs' \in Seq(R)
  BY <1>1, AppendFacts
<1>3. QED
  BY <1>2 DEF InputsTyped, R

\* Data stays in place when nothing touches it.
LEMMA LaidKept ==
  ASSUME UNCHANGED <<frontend, inputs, memory, edits, overrun>>
  PROVE  Laid' = Laid
<1> DEFINE sv == memory["static"].vertices
           si == memory["static"].indices
           dv == memory["dynamic"].vertices
           di == memory["dynamic"].indices
<1>1. UNCHANGED <<Handles, Unedited, AtMostOneDynamic>>
  BY SameInputs
<1>2. /\ Holds(sv, "static", "vertices", edits)' = Holds(sv, "static", "vertices", edits)
      /\ Holds(si, "static", "indices", Unedited)' = Holds(si, "static", "indices", Unedited)
      /\ Holds(dv, "dynamic", "vertices", edits)' = Holds(dv, "dynamic", "vertices", edits)
      /\ Holds(di, "dynamic", "indices", Unedited)' = Holds(di, "dynamic", "indices", Unedited)
  BY <1>1, HoldsKept
<1>3. QED
  BY <1>1, <1>2 DEF Laid

\* Every step of a builder or a renderer keeps the data in place.
LEMMA NextSetupInv == SetupInv /\ [Next]_vars => SetupInv'
<1> SUFFICES ASSUME SetupInv, [Next]_vars PROVE SetupInv'
  OBVIOUS
<1>1. ResourceInv'
  BY NextResourceInv DEF SetupInv
<1>2. /\ frontend \in {"vulkan", "opengl"} /\ overrun \in BOOLEAN /\ Len(added) <= MaxResources
      /\ KeptTyped /\ ResourceInv /\ InputsTyped /\ memory \in Memory /\ (built => Laid)
  BY DEF SetupInv, LayoutInv
<1>3. ASSUME UNCHANGED <<frontend, built, inputs, added, rendererVars>> PROVE SetupInv'
  <2>1. KeptTyped'
    BY <1>2, <1>3 DEF KeptTyped, rendererVars
  <2>2. Laid' = Laid
    BY <1>3, LaidKept DEF rendererVars
  <2>3. LayoutInv'
    BY <1>2, <1>3, <2>2 DEF LayoutInv, InputsTyped, rendererVars
  <2>4. QED
    BY <1>1, <1>2, <1>3, <2>1, <2>3 DEF SetupInv, rendererVars
<1>4. ASSUME NEW a \in Accesses, NEW s \in Sizes, AddInput(a, s) PROVE SetupInv'
  <2>1. UNCHANGED <<frontend, built, added, resources, bound, memory, edits, overrun>> /\ ~built
    BY <1>4 DEF AddInput, rendererVars
  <2>2. InputsTyped'
    BY <1>2, <1>4, AddInputTyped
  <2>3. LayoutInv'
    BY <1>2, <2>1, <2>2 DEF LayoutInv
  <2>4. KeptTyped'
    BY <1>2, <2>1 DEF KeptTyped
  <2>5. QED
    BY <1>1, <1>2, <2>1, <2>3, <2>4 DEF SetupInv
<1>5. ASSUME NEW t \in Types, AddResource(t) PROVE SetupInv'
  <2>1. UNCHANGED <<frontend, built, inputs, resources, bound, memory, edits, overrun>> /\ ~built
    BY <1>5 DEF AddResource, rendererVars
  <2>2. Len(added') <= MaxResources
    <3>1. added \in Seq(Types) /\ Len(added) < MaxResources /\ added' = Append(added, t)
      BY <1>2, <1>5 DEF AddResource, ResourceInv, ListTypes
    <3>2. Len(added') = Len(added) + 1 /\ Len(added) \in Nat
      BY <3>1
    <3>3. QED
      BY <3>1, <3>2, BoundsAssumption
  <2>3. LayoutInv'
    BY <1>2, <2>1 DEF LayoutInv, InputsTyped
  <2>4. KeptTyped'
    BY <1>2, <2>1 DEF KeptTyped
  <2>5. QED
    BY <1>1, <1>2, <2>1, <2>2, <2>3, <2>4 DEF SetupInv
<1>6. CASE Construct
  <2>1. Arrange /\ UNCHANGED <<frontend, inputs, added>> /\ memory' = [static |-> StaticMemory, dynamic |-> DynamicMemory]
    BY <1>6 DEF Construct, Arrange, builderVars
  <2>2. KeptTyped'
    BY <1>2, <2>1, ArrangeTyped
  <2>3. AsConstructed'
    BY <2>1, SameData DEF Arrange, AsConstructed
  <2>4. InputsTyped'
    BY <1>2, <2>1 DEF InputsTyped
  <2>5. (InputsTyped /\ AsConstructed => Laid /\ memory \in Memory /\ overrun \in BOOLEAN)'
    BY ConstructedLaid, PTL
  <2>6. LayoutInv' /\ overrun' \in BOOLEAN
    BY <2>3, <2>4, <2>5 DEF LayoutInv
  <2>7. QED
    BY <1>1, <1>2, <2>1, <2>2, <2>6 DEF SetupInv
<1>7. ASSUME NEW h \in Handles, EditInput(h) PROVE SetupInv'
  <2>1. UNCHANGED <<frontend, built, inputs, added, resources, bound, overrun>> /\ built
    BY <1>7 DEF EditInput, builderVars
  <2>2. Laid' /\ memory' \in Memory
    BY <1>2, <1>7, <2>1, EditLaid
  <2>3. LayoutInv'
    BY <1>2, <2>1, <2>2 DEF LayoutInv, InputsTyped
  <2>4. KeptTyped'
    <3>1. edits' \in [1 .. Len(inputs) -> {0, 1}] /\ Len(inputs) \in Nat
      BY <1>2, <2>1, <2>2 DEF Laid, Handles, InputsTyped
    <3>2. edits' \in Seq({0, 1})
      BY <3>1
    <3>3. QED
      BY <1>2, <2>1, <3>2 DEF KeptTyped
  <2>5. QED
    BY <1>1, <1>2, <2>1, <2>3, <2>4 DEF SetupInv
<1>8. CASE UNCHANGED vars
  BY <1>3, <1>8 DEF vars, builderVars
<1>9. QED
  BY <1>4, <1>5, <1>6, <1>7, <1>8 DEF Next, Types

\* What a draw of an input reads is its own vertices, as last edited, for any
\* number of inputs of any sizes and either frontend.
THEOREM VerticesCorrect == Spec => []DrawsOwnVertices
<1>1. SetupInv => DrawsOwnVertices
  BY LaidDraws DEF SetupInv, LayoutInv
<1>2. QED
  BY <1>1, InitSetupInv, NextSetupInv, PTL DEF Spec

\* Likewise for its indices, but where the Vulkan frontend has a second
\* dynamic input.
THEOREM IndicesCorrect == Spec => []DrawsOwnIndicesElsewhere
<1>1. SetupInv => DrawsOwnIndicesElsewhere
  BY LaidDraws DEF SetupInv, LayoutInv
<1>2. QED
  BY <1>1, InitSetupInv, NextSetupInv, PTL DEF Spec

\* Builders and renderers keep the types of their state.
THEOREM SetupTypeCorrect == Spec => []SetupTypeOK
<1>1. SetupInv => SetupTypeOK
  BY ListsTyped DEF SetupInv, LayoutInv, KeptTyped, InputsTyped, SetupTypeOK, ResourceInv, ListTypes, Types
<1>2. QED
  BY <1>1, InitSetupInv, NextSetupInv, PTL DEF Spec

=============================================================================
