-------------------------- MODULE RendererOGLProofs --------------------------
(***************************************************************************)
(* Proofs about RendererOGL, for any set of renderer objects, inputs, draw *)
(* lists and colours.                                                      *)
(***************************************************************************)
EXTENDS RendererOGL, LoopsProofs

RestFields == {"label", "indirect", "draw_cache"}
AskedFields == {"label", "list", "clear_colour", "depth", "culling", "moved", "undisturbed"}

\* The members that ownership and the context's state depend on; nothing is
\* said of the contents of buffers.
Shape ==
  /\ gl \in [clear_colour : Colours \cup {0}, culls : BOOLEAN, cull_face : SUBSET {"front", "back"},
             depth_test : BOOLEAN]
  /\ core \in [Renderers -> [label : Labels \cup {0}, depth : BOOLEAN]]
  /\ DOMAIN rest = Renderers
  /\ \A r \in Renderers : DOMAIN rest[r] = RestFields
  /\ DOMAIN asked = Renderers
  /\ \A r \in Usable : DOMAIN asked[r] = AskedFields

\* bind_draw_list changes the indirect buffers and the draw cache only.
LEMMA BindKeepsLabel ==
  ASSUME NEW members, NEW draws, DOMAIN members = RestFields
  PROVE  /\ DOMAIN bind_draw_list(members, draws) = RestFields
         /\ bind_draw_list(members, draws).label = members.label
  BY DEF bind_draw_list, RestFields

\* A renderer that changes the context leaves what the others asked for, but
\* marks them as disturbed.
LEMMA DisturbedOthers ==
  ASSUME Shape, NEW r \in Renderers
  PROVE  /\ DOMAIN Disturbed(r) = Renderers
         /\ \A s \in Renderers : asked[s] = Gone => Disturbed(r)[s] = Gone
         /\ \A s \in Usable :
              /\ DOMAIN Disturbed(r)[s] = AskedFields
              /\ Disturbed(r)[s].label = asked[s].label
              /\ s # r => Disturbed(r)[s].undisturbed = FALSE
         /\ Disturbed(r)[r] = asked[r]
  BY DEF Shape, Disturbed, Usable, AskedFields

\* The context that the constructor's switch leaves.
LEMMA CulledTyped ==
  ASSUME Shape, NEW strategy \in DOMAIN Faces
  PROVE  /\ Culled(strategy) \in [clear_colour : Colours \cup {0}, culls : BOOLEAN,
                                  cull_face : SUBSET {"front", "back"}, depth_test : BOOLEAN]
         /\ Culled(strategy).culls <=> strategy # "NoCulling"
         /\ strategy # "NoCulling" => Culled(strategy).cull_face = Faces[strategy]
<1>1. /\ strategy \in {"NoCulling", "CullFrontFaces", "CullBackFaces", "CullEverything"}
      /\ Faces[strategy] \in SUBSET {"front", "back"}
  BY DEF Faces
<1>2. gl \in [clear_colour : Colours \cup {0}, culls : BOOLEAN, cull_face : SUBSET {"front", "back"},
              depth_test : BOOLEAN]
  BY DEF Shape
<1>3. CASE strategy = "NoCulling"
  BY <1>2, <1>3, Zenon DEF Culled
<1>4. CASE strategy # "NoCulling"
  BY <1>1, <1>2, <1>4, Zenon DEF Culled
<1>5. QED
  BY <1>3, <1>4

-----------------------------------------------------------------------------
(* Ownership. *)

OwnershipInv == Shape /\ HeldOnce

\* Each step keeps the labels apart: a construction takes one that no object
\* holds, operator= swaps two, and the destructor gives one up.
LEMMA OwnershipStep == OwnershipInv /\ [Next]_vars => OwnershipInv'
<1> SUFFICES ASSUME OwnershipInv, [Next]_vars PROVE OwnershipInv'
  OBVIOUS
<1> USE DEF OwnershipInv
<1>1. ASSUME NEW r \in Renderers, NEW l \in Labels, NEW c \in CullingRequests, NEW d \in BOOLEAN, Construct(r, l, c, d)
      PROVE  OwnershipInv'
  <2> DEFINE bound == bind_draw_list([NullRest EXCEPT !.label = l], all_inputs_once)
             claim == [label |-> l, list |-> all_inputs_once, clear_colour |-> Unset, depth |-> d,
                       culling |-> c, moved |-> FALSE, undisturbed |-> TRUE]
  <2>1. DOMAIN bound = RestFields /\ bound.label = l
    <3>1. DOMAIN [NullRest EXCEPT !.label = l] = RestFields /\ [NullRest EXCEPT !.label = l].label = l
      BY DEF NullRest, RestFields
    <3>2. QED
      BY <3>1, BindKeepsLabel, Zenon
  <2>2. DOMAIN claim = AskedFields /\ claim.label = l
    BY DEF AskedFields
  <2>3. /\ core' = [core EXCEPT ![r] = [label |-> l, depth |-> d]]
        /\ rest' = [rest EXCEPT ![r] = bound]
        /\ asked' = [Disturbed(r) EXCEPT ![r] = claim]
        /\ \A s \in Renderers : l # core[s].label /\ l # rest[s].label
    BY <1>1 DEF Construct
  <2>4. gl' \in [clear_colour : Colours \cup {0}, culls : BOOLEAN, cull_face : SUBSET {"front", "back"},
                 depth_test : BOOLEAN]
    <3>1. c # Unset => c \in DOMAIN Faces
      BY CullingAssumption
    <3>2. PICK context \in IF c = Unset THEN { Culled(x) : x \in DOMAIN Faces } \cup {gl} ELSE {Culled(c)} :
            gl' = [context EXCEPT !.depth_test = d]
      BY <1>1, Zenon DEF Construct
    <3>3. context \in [clear_colour : Colours \cup {0}, culls : BOOLEAN, cull_face : SUBSET {"front", "back"},
                       depth_test : BOOLEAN]
      <4>1. CASE c = Unset
        BY <3>2, <4>1, CulledTyped DEF Shape
      <4>2. CASE c # Unset
        BY <3>1, <3>2, <4>2, CulledTyped
      <4>3. QED
        BY <4>1, <4>2
    <3>4. QED
      BY <3>2, <3>3
  <2> HIDE DEF bound, claim
  <2>5. Shape'
    BY <2>1, <2>2, <2>3, <2>4, DisturbedOthers, ZenonT(30) DEF Shape, Usable
  <2>6. HeldOnce'
    <3>1. \A s \in Renderers : core'[s].label = IF s = r THEN l ELSE core[s].label
      BY <2>3 DEF Shape
    <3>2. \A s \in Renderers : rest'[s].label = IF s = r THEN l ELSE rest[s].label
      BY <2>1, <2>3 DEF Shape
    <3>3. \A s \in Usable' : asked'[s].label = core'[s].label
      <4> SUFFICES ASSUME NEW s \in Renderers, asked'[s] # Gone PROVE asked'[s].label = core'[s].label
        BY DEF Usable
      <4>1. asked'[s] = IF s = r THEN claim ELSE Disturbed(r)[s]
        BY <2>3, DisturbedOthers, Zenon
      <4>2. CASE s = r
        BY <2>2, <3>1, <4>1, <4>2
      <4>3. CASE s # r
        <5>1. s \in Usable
          BY <4>1, <4>3, DisturbedOthers, Zenon DEF Usable
        <5>2. Disturbed(r)[s].label = asked[s].label /\ asked[s].label = core[s].label
          BY <5>1, DisturbedOthers, Zenon DEF HeldOnce
        <5>3. QED
          BY <3>1, <4>1, <4>3, <5>2
      <4>4. QED
        BY <4>2, <4>3
    <3>4. QED
      BY <2>3, <3>1, <3>2, <3>3 DEF HeldOnce
  <2>7. QED
    BY <2>5, <2>6
<1>2. ASSUME NEW r \in Renderers, Destroy(r) PROVE OwnershipInv'
  <2>1. \A s \in Renderers :
          /\ core'[s] = IF s = r THEN NullCore ELSE core[s]
          /\ rest'[s] = IF s = r THEN NullRest ELSE rest[s]
          /\ asked'[s] = IF s = r THEN Gone ELSE asked[s]
    BY <1>2 DEF Destroy, Shape
  <2>2. NullCore.label = 0 /\ NullRest.label = 0 /\ DOMAIN NullRest = RestFields
    BY DEF NullCore, NullRest, RestFields
  <2>3. NullCore \in [label : Labels \cup {0}, depth : BOOLEAN]
    BY DEF NullCore
  <2>4. Shape'
    BY <1>2, <2>1, <2>2, <2>3 DEF Shape, Destroy, Usable
  <2>5. HeldOnce'
    BY <2>1, <2>2 DEF HeldOnce, Usable
  <2>6. QED
    BY <2>4, <2>5
<1>3. ASSUME NEW to \in Renderers, NEW from \in Renderers, Move(to, from) PROVE OwnershipInv'
  <2>1. \A s \in Renderers : core'[s] = IF s = from THEN core[to] ELSE IF s = to THEN core[from] ELSE core[s]
    BY <1>3 DEF Move, Swapped, Shape
  <2>2. \A s \in Renderers :
          asked'[s] = IF s = from THEN Gone ELSE IF s = to THEN [asked[from] EXCEPT !.moved = TRUE] ELSE asked[s]
    BY <1>3, Zenon DEF Move, Shape
  <2>3. from \in Usable /\ to # from
    BY <1>3 DEF Move, Usable
  <2>4. DOMAIN [asked[from] EXCEPT !.moved = TRUE] = AskedFields
        /\ [asked[from] EXCEPT !.moved = TRUE].label = asked[from].label
    BY <2>3 DEF Shape, AskedFields
  <2>5. Shape'
    BY <1>3, <2>1, <2>2, <2>4 DEF Shape, Move, Swapped, Usable
  <2>6. HeldOnce'
    <3>1. \A s \in Renderers : rest'[s] = rest[s]
      BY <1>3 DEF Move
    <3>2. \A s, t \in Renderers : s # t /\ core'[s].label = core'[t].label => core'[s].label = 0
      BY <2>1, <2>3 DEF HeldOnce
    <3>3. \A s \in Usable' : core'[s].label = asked'[s].label
      BY <2>1, <2>2, <2>3, <2>4, Zenon DEF HeldOnce, Usable
    <3>4. QED
      BY <3>1, <3>2, <3>3 DEF HeldOnce
  <2>7. QED
    BY <2>5, <2>6
<1>4. ASSUME NEW r \in Renderers, NEW c \in Colours, SetClearColour(r, c) PROVE OwnershipInv'
  <2>1. \A s \in Renderers :
          asked'[s] = IF s = r THEN [asked[r] EXCEPT !.clear_colour = c] ELSE Disturbed(r)[s]
    BY <1>4, DisturbedOthers, Zenon DEF SetClearColour
  <2>2. r \in Usable
    BY <1>4 DEF SetClearColour, Usable
  <2>3. DOMAIN [asked[r] EXCEPT !.clear_colour = c] = AskedFields
        /\ [asked[r] EXCEPT !.clear_colour = c].label = asked[r].label
    BY <2>2 DEF Shape, AskedFields
  <2>4. Shape'
    BY <1>4, <2>1, <2>3, DisturbedOthers, ZenonT(30) DEF Shape, SetClearColour, Usable
  <2>5. HeldOnce'
    <3> SUFFICES ASSUME NEW s \in Renderers, asked'[s] # Gone PROVE asked'[s].label = core[s].label
      BY <1>4 DEF HeldOnce, SetClearColour, Usable
    <3>1. s \in Usable
      BY <2>1, <2>2, DisturbedOthers, Zenon DEF Usable
    <3>2. asked[s].label = core[s].label
      BY <3>1 DEF HeldOnce
    <3>3. Disturbed(r)[s].label = asked[s].label
      BY <3>1, DisturbedOthers, Zenon
    <3>4. CASE s = r
      BY <2>1, <2>3, <3>2, <3>4, Zenon
    <3>5. CASE s # r
      BY <2>1, <3>2, <3>3, <3>5
    <3>6. QED
      BY <3>4, <3>5
  <2>6. QED
    BY <2>4, <2>5
<1>5. ASSUME NEW r \in Renderers, NEW draws \in Lists, RenderDraws(r, draws) PROVE OwnershipInv'
  <2>1. \A s \in Renderers :
          /\ rest'[s] = IF s = r THEN bind_draw_list(rest[r], draws) ELSE rest[s]
          /\ asked'[s] = IF s = r THEN [asked[r] EXCEPT !.list = draws] ELSE asked[s]
    BY <1>5 DEF RenderDraws, Shape
  <2>2. r \in Usable
    BY <1>5 DEF RenderDraws, Usable
  <2>3. DOMAIN [asked[r] EXCEPT !.list = draws] = AskedFields
        /\ [asked[r] EXCEPT !.list = draws].label = asked[r].label
    BY <2>2 DEF Shape, AskedFields
  <2>4. DOMAIN bind_draw_list(rest[r], draws) = RestFields
        /\ bind_draw_list(rest[r], draws).label = rest[r].label
    BY BindKeepsLabel DEF Shape
  <2>5. Shape'
    BY <1>5, <2>1, <2>3, <2>4 DEF Shape, RenderDraws, Usable
  <2>6. HeldOnce'
    BY <1>5, <2>1, <2>2, <2>3, <2>4 DEF HeldOnce, RenderDraws, Usable
  <2>7. QED
    BY <2>5, <2>6
<1>6. CASE UNCHANGED vars
  BY <1>6 DEF vars, Shape, HeldOnce, Usable
<1>7. QED
  BY <1>1, <1>2, <1>3, <1>4, <1>5, <1>6 DEF Next

\* Ownership holds from the start.
LEMMA OwnershipInvariance == Spec => []OwnershipInv
<1>1. Init => OwnershipInv
  BY DEF Init, OwnershipInv, Shape, HeldOnce, Usable, NullCore, NullRest, RestFields
<1>2. QED
  BY <1>1, OwnershipStep, PTL DEF Spec

\* However many renderers there are, and whatever is moved and destroyed, no
\* two objects hold the same vertex array or buffers, and a renderer that can
\* be used holds the vertex array it was constructed with.
THEOREM OwnersDistinct == Spec => []HeldOnce
  BY OwnershipInvariance, PTL DEF OwnershipInv

-----------------------------------------------------------------------------
(* The state of the context. *)

\* What StateAsAsked says of one renderer.
AsAsked(claim) ==
  claim.undisturbed =>
    /\ gl.depth_test = claim.depth
    /\ claim.culling # Unset => (IF gl.culls THEN gl.cull_face ELSE {}) = Faces[claim.culling]
    /\ claim.clear_colour # Unset => gl.clear_colour = claim.clear_colour

StateInv == \A r \in Usable : AsAsked(asked[r])

\* StateInv is StateAsAsked, without render().
LEMMA StateMeans == StateInv => StateAsAsked
  BY DEF StateInv, AsAsked, StateAsAsked, Render

\* A renderer that changes the context marks every other as disturbed, and
\* the context is then as it asked.
LEMMA StateStep == OwnershipInv /\ StateInv /\ [Next]_vars => StateInv'
<1> SUFFICES ASSUME Shape, StateInv, [Next]_vars, NEW s \in Renderers, asked'[s] # Gone
             PROVE  AsAsked(asked[s])'
  BY DEF OwnershipInv, StateInv, Usable
<1>1. ASSUME NEW r \in Renderers, NEW l \in Labels, NEW c \in CullingRequests, NEW d \in BOOLEAN, Construct(r, l, c, d)
      PROVE  AsAsked(asked[s])'
  <2> DEFINE claim == [label |-> l, list |-> all_inputs_once, clear_colour |-> Unset, depth |-> d,
                       culling |-> c, moved |-> FALSE, undisturbed |-> TRUE]
  <2>1. asked'[s] = IF s = r THEN claim ELSE Disturbed(r)[s]
    BY <1>1, DisturbedOthers, Zenon DEF Construct
  <2>2. CASE s # r
    <3>1. s \in Usable
      BY <2>1, <2>2, DisturbedOthers, Zenon DEF Usable
    <3>2. Disturbed(r)[s].undisturbed = FALSE
      BY <2>2, <3>1, DisturbedOthers, Zenon
    <3>3. asked'[s] = Disturbed(r)[s]
      BY <2>1, <2>2
    <3>4. asked'[s].undisturbed = FALSE
      BY <3>2, <3>3, Zenon
    <3>5. QED
      BY <3>4 DEF AsAsked
  <2>3. CASE s = r
    <3>1. asked'[s].depth = d /\ asked'[s].culling = c /\ asked'[s].clear_colour = Unset
      BY <2>1, <2>3
    <3>2. PICK context \in IF c = Unset THEN { Culled(x) : x \in DOMAIN Faces } \cup {gl} ELSE {Culled(c)} :
            gl' = [context EXCEPT !.depth_test = d]
      BY <1>1, Zenon DEF Construct
    <3>3. c # Unset => c \in DOMAIN Faces
      BY CullingAssumption
    <3>4. context \in [clear_colour : Colours \cup {0}, culls : BOOLEAN, cull_face : SUBSET {"front", "back"},
                       depth_test : BOOLEAN]
      <4>1. CASE c = Unset
        BY <3>2, <4>1, CulledTyped DEF Shape
      <4>2. CASE c # Unset
        BY <3>2, <3>3, <4>2, CulledTyped
      <4>3. QED
        BY <4>1, <4>2
    <3>5. gl'.depth_test = d /\ gl'.culls = context.culls /\ gl'.cull_face = context.cull_face
      BY <3>2, <3>4
    <3>6. c # Unset => (IF context.culls THEN context.cull_face ELSE {}) = Faces[c]
      <4> SUFFICES ASSUME c # Unset PROVE (IF context.culls THEN context.cull_face ELSE {}) = Faces[c]
        OBVIOUS
      <4>1. context = Culled(c) /\ c \in DOMAIN Faces
        BY <3>2, <3>3
      <4>2. CASE c = "NoCulling"
        <5>1. ~context.culls
          BY <4>1, <4>2, CulledTyped
        <5>2. Faces[c] = {}
          BY <4>2 DEF Faces
        <5>3. QED
          BY <5>1, <5>2
      <4>3. CASE c # "NoCulling"
        BY <4>1, <4>3, CulledTyped
      <4>4. QED
        BY <4>2, <4>3
    <3>7. QED
      BY <3>1, <3>5, <3>6 DEF AsAsked
  <2>4. QED
    BY <2>2, <2>3
<1>2. ASSUME NEW r \in Renderers, Destroy(r) PROVE AsAsked(asked[s])'
  <2>1. s \in Usable /\ asked'[s] = asked[s] /\ gl' = gl
    BY <1>2 DEF Destroy, Shape, Usable
  <2>2. QED
    BY <2>1 DEF StateInv, AsAsked
<1>3. ASSUME NEW to \in Renderers, NEW from \in Renderers, Move(to, from) PROVE AsAsked(asked[s])'
  <2>1. asked'[s] = IF s = to THEN [asked[from] EXCEPT !.moved = TRUE] ELSE asked[s]
    BY <1>3, Zenon DEF Move, Shape
  <2>2. from \in Usable /\ gl' = gl
    BY <1>3 DEF Move, Usable
  <2>3. CASE s = to
    <3>1. /\ asked'[s].undisturbed = asked[from].undisturbed
          /\ asked'[s].depth = asked[from].depth
          /\ asked'[s].culling = asked[from].culling
          /\ asked'[s].clear_colour = asked[from].clear_colour
      BY <2>1, <2>2, <2>3 DEF Shape, AskedFields
    <3>2. AsAsked(asked[from])
      BY <2>2 DEF StateInv
    <3>3. QED
      BY <2>2, <3>1, <3>2 DEF AsAsked
  <2>4. CASE s # to
    BY <2>1, <2>2, <2>4 DEF StateInv, AsAsked, Usable
  <2>5. QED
    BY <2>3, <2>4
<1>4. ASSUME NEW r \in Renderers, NEW c \in Colours, SetClearColour(r, c) PROVE AsAsked(asked[s])'
  <2>1. asked'[s] = IF s = r THEN [asked[r] EXCEPT !.clear_colour = c] ELSE Disturbed(r)[s]
    BY <1>4, DisturbedOthers, Zenon DEF SetClearColour
  <2>2. r \in Usable /\ gl' = [gl EXCEPT !.clear_colour = c]
    BY <1>4 DEF SetClearColour, Usable
  <2>3. CASE s = r
    <3>1. /\ asked'[s].undisturbed = asked[r].undisturbed
          /\ asked'[s].depth = asked[r].depth
          /\ asked'[s].culling = asked[r].culling
          /\ asked'[s].clear_colour = c
      BY <2>1, <2>2, <2>3 DEF Shape, AskedFields
    <3>2. /\ gl'.depth_test = gl.depth_test
          /\ gl'.culls = gl.culls
          /\ gl'.cull_face = gl.cull_face
          /\ gl'.clear_colour = c
      BY <2>2 DEF Shape
    <3>3. AsAsked(asked[r])
      BY <2>2 DEF StateInv
    <3>4. QED
      BY <3>1, <3>2, <3>3 DEF AsAsked
  <2>4. CASE s # r
    <3>1. s \in Usable
      BY <2>1, <2>4, DisturbedOthers, Zenon DEF Usable
    <3>2. Disturbed(r)[s].undisturbed = FALSE
      BY <2>4, <3>1, DisturbedOthers, Zenon
    <3>3. asked'[s] = Disturbed(r)[s]
      BY <2>1, <2>4
    <3>4. asked'[s].undisturbed = FALSE
      BY <3>2, <3>3, Zenon
    <3>5. QED
      BY <3>4 DEF AsAsked
  <2>5. QED
    BY <2>3, <2>4
<1>5. ASSUME NEW r \in Renderers, NEW draws \in Lists, RenderDraws(r, draws) PROVE AsAsked(asked[s])'
  <2>1. asked'[s] = (IF s = r THEN [asked[r] EXCEPT !.list = draws] ELSE asked[s]) /\ gl' = gl
    BY <1>5 DEF RenderDraws, Shape
  <2>2. s \in Usable
    BY <1>5, <2>1 DEF RenderDraws, Usable
  <2>3. /\ asked'[s].undisturbed = asked[s].undisturbed
        /\ asked'[s].depth = asked[s].depth
        /\ asked'[s].culling = asked[s].culling
        /\ asked'[s].clear_colour = asked[s].clear_colour
    BY <2>1, <2>2 DEF Shape, AskedFields
  <2>4. AsAsked(asked[s])
    BY <2>2 DEF StateInv
  <2>5. QED
    BY <2>1, <2>3, <2>4 DEF AsAsked
<1>6. CASE UNCHANGED vars
  BY <1>6 DEF vars, StateInv, AsAsked, Usable
<1>7. QED
  BY <1>1, <1>2, <1>3, <1>4, <1>5, <1>6 DEF Next

\* However many renderers share the context, one that no other disturbed is
\* drawn with its own depth test, culling strategy and clear colour.
THEOREM StateKept == Spec => []StateAsAsked
<1>1. Init => StateInv
  BY DEF Init, StateInv, Usable
<1>2. QED
  BY <1>1, StateStep, StateMeans, OwnershipInvariance, PTL DEF Spec

-----------------------------------------------------------------------------
(* What is drawn. *)

Numbers == DOMAIN Inputs

\* The draws of a list that have an access.
LEMMA OfAccessTyped ==
  ASSUME NEW list \in Seq(Numbers), NEW a
  PROVE  OfAccess(list, a) \in Seq(Numbers)
<1> DEFINE wanted == { h \in DOMAIN Inputs : Inputs[h] = a }
<1>1. Filter(list, wanted) \in Seq(Numbers \cap wanted)
  BY FilterTyped
<1>2. QED
  BY <1>1 DEF OfAccess

\* The lists that a draw cache may hold.
LEMMA ListsTyped ==
  /\ <<>> \in Seq(Numbers)
  /\ all_inputs_once \in Seq(Numbers)
  /\ \A draws \in Lists : draws \in Seq(Numbers)
<1>1. Numbers = 1 .. Len(Inputs) /\ Len(Inputs) \in Nat
  BY InputsAssumption DEF Numbers
<1>2. all_inputs_once = [h \in 1 .. Len(Inputs) |-> h]
  BY <1>1 DEF all_inputs_once, Numbers
<1>3. QED
  BY <1>1, <1>2, ListsAssumption DEF Numbers

\* The commands start the buffer, or it has no room for them.
LEMMA BoundFacts ==
  ASSUME NEW S, NEW buffer \in Seq(S), NEW commands \in Seq(S)
  PROVE  /\ Bound(buffer, commands) \in Seq(S)
         /\ \/ Len(commands) > Len(Bound(buffer, commands))
            \/ SubSeq(Bound(buffer, commands), 1, Len(commands)) = commands
<1>1. CASE commands = <<>>
  BY <1>1 DEF Bound
<1>2. CASE commands # <<>> /\ buffer = <<>>
  <2>1. Bound(buffer, commands) = commands
    BY <1>2 DEF Bound
  <2>2. SubSeq(commands, 1, Len(commands)) = commands
    OBVIOUS
  <2>3. QED
    BY <2>1, <2>2
<1>3. CASE commands # <<>> /\ buffer # <<>> /\ Len(commands) > Len(buffer)
  BY <1>3 DEF Bound, BufferWrite
<1>4. CASE commands # <<>> /\ buffer # <<>> /\ ~(Len(commands) > Len(buffer))
  <2> DEFINE kept == SubSeq(buffer, Len(commands) + 1, Len(buffer))
  <2>1. Bound(buffer, commands) = commands \o kept
    BY <1>4 DEF Bound, BufferWrite
  <2>2. Len(commands) \in Nat /\ Len(buffer) \in Nat /\ Len(commands) <= Len(buffer)
    BY <1>4
  <2>3. kept \in Seq(S)
    BY <2>2
  <2> HIDE DEF kept
  <2>4. commands \o kept \in Seq(S) /\ SubSeq(commands \o kept, 1, Len(commands)) = commands
    BY <2>2, <2>3
  <2>5. QED
    BY <2>1, <2>4
<1>5. QED
  BY <1>1, <1>2, <1>3, <1>4

Members ==
  [label : Labels \cup {0}, indirect : [Accesses -> Seq(Numbers)], draw_cache : Lists \cup {<<>>, all_inputs_once}]

\* What render() draws of an access with these members.
Ready(members) == \A a \in Accesses : MultiDraw(members, a) \in {OfAccess(members.draw_cache, a), <<>>}

\* Until a move, the draw cache is the latest list and the indirect buffers
\* start with its draws or have no room for them.
DrawInv ==
  /\ rest \in [Renderers -> Members]
  /\ \A r \in Usable : ~asked[r].moved => rest[r].draw_cache = asked[r].list /\ Ready(rest[r])

\* A renderer that was not constructed draws nothing.
LEMMA NullFacts ==
  ASSUME NEW l \in Labels \cup {0}
  PROVE  /\ [NullRest EXCEPT !.label = l] \in Members
         /\ Ready([NullRest EXCEPT !.label = l])
         /\ NullRest \in Members
<1> DEFINE members == [NullRest EXCEPT !.label = l]
<1>1. /\ members = [label |-> l, indirect |-> [a \in Accesses |-> <<>>], draw_cache |-> <<>>]
      /\ NullRest = [label |-> 0, indirect |-> [a \in Accesses |-> <<>>], draw_cache |-> <<>>]
  BY DEF NullRest
<1>2. [a \in Accesses |-> <<>>] \in [Accesses -> Seq(Numbers)]
  BY ListsTyped
<1>3. members \in Members /\ NullRest \in Members
  BY <1>1, <1>2, Zenon DEF Members
<1>4. ASSUME NEW a \in Accesses PROVE MultiDraw(members, a) = <<>>
  <2> DEFINE count == Len(OfAccess(<<>>, a))
  <2>1. members.draw_cache = <<>> /\ members.indirect[a] = <<>>
    BY <1>1
  <2>2. OfAccess(<<>>, a) \in Seq(Numbers)
    BY ListsTyped, OfAccessTyped, Zenon
  <2>3. count \in Nat
    BY <2>2
  <2>4. MultiDraw(members, a) = IF count > Len(<<>>) THEN <<>> ELSE SubSeq(<<>>, 1, count)
    BY <2>1 DEF MultiDraw
  <2> HIDE DEF count, members
  <2>5. QED
    BY <2>3, <2>4
<1>5. QED
  BY <1>3, <1>4 DEF Ready

\* bind_draw_list caches the list and leaves buffers that are fit for it.
LEMMA BindFacts ==
  ASSUME NEW members \in Members, NEW draws \in Lists \cup {<<>>, all_inputs_once}
  PROVE  /\ bind_draw_list(members, draws) \in Members
         /\ bind_draw_list(members, draws).draw_cache = draws
         /\ Ready(members) => Ready(bind_draw_list(members, draws))
<1>1. CASE members.draw_cache = draws
  BY <1>1 DEF bind_draw_list
<1>2. CASE members.draw_cache # draws
  <2> DEFINE B(a) == Bound(members.indirect[a], OfAccess(draws, a))
             after == [label |-> members.label, indirect |-> [a \in Accesses |-> B(a)], draw_cache |-> draws]
  <2>1. bind_draw_list(members, draws) = after
    BY <1>2, Zenon DEF bind_draw_list, Members
  <2>2. ASSUME NEW a \in Accesses
        PROVE  /\ OfAccess(draws, a) \in Seq(Numbers)
               /\ B(a) \in Seq(Numbers)
               /\ \/ Len(OfAccess(draws, a)) > Len(B(a))
                  \/ SubSeq(B(a), 1, Len(OfAccess(draws, a))) = OfAccess(draws, a)
    <3>1. draws \in Seq(Numbers)
      BY ListsTyped, Zenon
    <3>2. OfAccess(draws, a) \in Seq(Numbers)
      BY <3>1, OfAccessTyped
    <3>3. members.indirect[a] \in Seq(Numbers)
      BY DEF Members
    <3>4. QED
      BY <3>2, <3>3, BoundFacts, Zenon
  <2> HIDE DEF B
  <2>3. after \in Members
    BY <2>2 DEF Members
  <2>4. ASSUME NEW a \in Accesses
        PROVE  MultiDraw(after, a) \in {OfAccess(draws, a), <<>>}
    <3>1. after.indirect[a] = B(a) /\ after.draw_cache = draws
      OBVIOUS
    <3>2. MultiDraw(after, a) = IF Len(OfAccess(draws, a)) > Len(B(a)) THEN <<>>
                                ELSE SubSeq(B(a), 1, Len(OfAccess(draws, a)))
      BY <3>1 DEF MultiDraw
    <3>3. QED
      BY <2>2, <3>2, SMTT(30)
  <2>5. after.draw_cache = draws
    OBVIOUS
  <2> HIDE DEF after
  <2>6. QED
    BY <2>1, <2>3, <2>4, <2>5 DEF Ready
<1>3. QED
  BY <1>1, <1>2

\* A renderer that changes the context changes no list.
LEMMA DisturbedDraws ==
  ASSUME Shape, NEW r \in Renderers, NEW s \in Usable
  PROVE  Disturbed(r)[s].moved = asked[s].moved /\ Disturbed(r)[s].list = asked[s].list
  BY DEF Shape, Disturbed, Usable, AskedFields

\* Every step keeps the cache and the buffers fit for the latest list.
LEMMA DrawStep == OwnershipInv /\ DrawInv /\ [Next]_vars => DrawInv'
<1> SUFFICES ASSUME Shape, DrawInv, [Next]_vars PROVE DrawInv'
  BY DEF OwnershipInv
<1> DEFINE Fit(s) == ~asked[s].moved => rest[s].draw_cache = asked[s].list /\ Ready(rest[s])
<1>1. ASSUME NEW r \in Renderers, NEW l \in Labels, NEW c \in CullingRequests, NEW d \in BOOLEAN, Construct(r, l, c, d)
      PROVE  DrawInv'
  <2> DEFINE null == [NullRest EXCEPT !.label = l]
             members == bind_draw_list(null, all_inputs_once)
             claim == [label |-> l, list |-> all_inputs_once, clear_colour |-> Unset, depth |-> d,
                       culling |-> c, moved |-> FALSE, undisturbed |-> TRUE]
  <2>1. null \in Members /\ Ready(null)
    BY NullFacts
  <2>2. members \in Members /\ members.draw_cache = all_inputs_once /\ Ready(members)
    <3> HIDE DEF null
    <3>1. QED
      BY <2>1, BindFacts
  <2>3. rest' = [rest EXCEPT ![r] = members] /\ asked' = [Disturbed(r) EXCEPT ![r] = claim]
    BY <1>1 DEF Construct
  <2>4. claim.list = all_inputs_once
    OBVIOUS
  <2> HIDE DEF null, members, claim
  <2>5. rest' \in [Renderers -> Members]
    BY <2>2, <2>3 DEF DrawInv
  <2>6. ASSUME NEW s \in Renderers, asked'[s] # Gone PROVE Fit(s)'
    <3>1. CASE s = r
      <4>1. asked'[s] = claim /\ rest'[s] = members
        BY <2>3, <3>1, DisturbedOthers, Zenon DEF DrawInv
      <4>2. QED
        BY <2>2, <2>4, <4>1
    <3>2. CASE s # r
      <4>1. asked'[s] = Disturbed(r)[s] /\ rest'[s] = rest[s]
        BY <2>3, <3>2, DisturbedOthers DEF DrawInv
      <4>2. s \in Usable
        BY <2>6, <4>1, DisturbedOthers, Zenon DEF Usable
      <4>3. asked'[s].moved = asked[s].moved /\ asked'[s].list = asked[s].list
        BY <4>1, <4>2, DisturbedDraws
      <4>4. QED
        BY <4>1, <4>2, <4>3 DEF DrawInv
    <3>3. QED
      BY <3>1, <3>2
  <2>7. QED
    BY <2>5, <2>6 DEF DrawInv, Usable
<1>2. ASSUME NEW r \in Renderers, Destroy(r) PROVE DrawInv'
  <2>1. NullRest \in Members
    BY NullFacts, Zenon
  <2>2. rest' = [rest EXCEPT ![r] = NullRest] /\ asked' = [asked EXCEPT ![r] = Gone]
    BY <1>2 DEF Destroy
  <2>3. rest' \in [Renderers -> Members]
    BY <2>1, <2>2 DEF DrawInv
  <2>4. ASSUME NEW s \in Renderers, asked'[s] # Gone PROVE Fit(s)'
    <3>1. s \in Usable /\ asked'[s] = asked[s] /\ rest'[s] = rest[s]
      BY <2>2, <2>4 DEF Shape, Usable
    <3>2. QED
      BY <3>1 DEF DrawInv
  <2>5. QED
    BY <2>3, <2>4 DEF DrawInv, Usable
<1>3. ASSUME NEW to \in Renderers, NEW from \in Renderers, Move(to, from) PROVE DrawInv'
  <2>1. ASSUME NEW s \in Renderers, asked'[s] # Gone PROVE Fit(s)'
    <3>1. rest' = rest /\ asked[from] # Gone
      BY <1>3 DEF Move
    <3>2. asked'[s] = IF s = to THEN [asked[from] EXCEPT !.moved = TRUE] ELSE asked[s]
      BY <1>3, <2>1, Zenon DEF Move, Shape
    <3>3. CASE s = to
      <4>1. asked'[s].moved = TRUE
        BY <3>1, <3>2, <3>3 DEF Shape, Usable, AskedFields
      <4>2. QED
        BY <4>1
    <3>4. CASE s # to
      BY <2>1, <3>1, <3>2, <3>4 DEF DrawInv, Usable
    <3>5. QED
      BY <3>3, <3>4
  <2>2. QED
    BY <1>3, <2>1, Zenon DEF DrawInv, Usable, Move
<1>4. ASSUME NEW r \in Renderers, NEW c \in Colours, SetClearColour(r, c) PROVE DrawInv'
  <2>1. rest' = rest /\ r \in Usable
    BY <1>4 DEF SetClearColour, Usable
  <2>2. ASSUME NEW s \in Renderers, asked'[s] # Gone PROVE Fit(s)'
    <3>1. asked'[s] = IF s = r THEN [Disturbed(r)[r] EXCEPT !.clear_colour = c] ELSE Disturbed(r)[s]
      BY <1>4, DisturbedOthers, Zenon DEF SetClearColour
    <3>2. s \in Usable
      BY <2>1, <2>2, <3>1, DisturbedOthers, Zenon DEF Usable
    <3>3. DOMAIN Disturbed(r)[s] = AskedFields
      BY <3>2, DisturbedOthers, Zenon
    <3>4. asked'[s].moved = Disturbed(r)[s].moved /\ asked'[s].list = Disturbed(r)[s].list
      BY <3>1, <3>3 DEF AskedFields
    <3>5. asked'[s].moved = asked[s].moved /\ asked'[s].list = asked[s].list
      BY <3>2, <3>4, DisturbedDraws
    <3>6. QED
      BY <2>1, <3>2, <3>5 DEF DrawInv
  <2>3. QED
    BY <2>1, <2>2 DEF DrawInv, Usable
<1>5. ASSUME NEW r \in Renderers, NEW draws \in Lists, RenderDraws(r, draws) PROVE DrawInv'
  <2> DEFINE members == bind_draw_list(rest[r], draws)
  <2>1. r \in Usable /\ rest[r] \in Members
    BY <1>5 DEF RenderDraws, Usable, DrawInv
  <2>2. members \in Members /\ members.draw_cache = draws /\ (Ready(rest[r]) => Ready(members))
    BY <2>1, BindFacts
  <2>3. rest' = [rest EXCEPT ![r] = members] /\ asked' = [asked EXCEPT ![r].list = draws]
    BY <1>5 DEF RenderDraws
  <2> HIDE DEF members
  <2>4. rest' \in [Renderers -> Members]
    BY <2>2, <2>3 DEF DrawInv
  <2>5. ASSUME NEW s \in Renderers, asked'[s] # Gone PROVE Fit(s)'
    <3>1. CASE s = r
      <4>1. asked'[s] = [asked[r] EXCEPT !.list = draws] /\ rest'[s] = members
        BY <2>3, <3>1 DEF Shape
      <4>2. asked'[s].moved = asked[r].moved /\ asked'[s].list = draws
        BY <2>1, <4>1 DEF Shape, AskedFields
      <4>3. QED
        BY <2>1, <2>2, <4>1, <4>2 DEF DrawInv
    <3>2. CASE s # r
      <4>1. asked'[s] = asked[s] /\ rest'[s] = rest[s]
        BY <2>3, <3>2 DEF Shape
      <4>2. QED
        BY <2>5, <4>1 DEF DrawInv, Usable
    <3>3. QED
      BY <3>1, <3>2
  <2>6. QED
    BY <2>4, <2>5 DEF DrawInv, Usable
<1>6. CASE UNCHANGED vars
  BY <1>6 DEF vars, DrawInv, Usable
<1>7. QED
  BY <1>1, <1>2, <1>3, <1>4, <1>5, <1>6 DEF Next

\* The cache and the buffers are fit from the start.
LEMMA DrawInvariance == Spec => []DrawInv
<1>1. Init => DrawInv
  BY NullFacts, Zenon DEF Init, DrawInv, Usable
<1>2. QED
  BY <1>1, DrawStep, OwnershipInvariance, PTL DEF Spec

\* Whatever lists are drawn, of however many inputs, a renderer that was not
\* moved never shows draws of a list that is not the latest.
THEOREM DrawsLatestOrNone == Spec => []DrawsLatestOrNothing
<1>1. DrawInv => DrawsLatestOrNothing
  <2> SUFFICES ASSUME DrawInv, NEW r \in Usable, NEW a \in Accesses, ~asked[r].moved
               PROVE  Render(r).drawn[a] \in {OfAccess(asked[r].list, a), <<>>}
    BY DEF DrawsLatestOrNothing
  <2>1. Render(r).drawn[a] = MultiDraw(rest[r], a)
    BY DEF Render
  <2>2. rest[r].draw_cache = asked[r].list /\ Ready(rest[r])
    BY DEF DrawInv
  <2>3. QED
    BY <2>1, <2>2 DEF Ready
<1>2. QED
  BY <1>1, DrawInvariance, PTL

\* The context, the members of renderers and what they cache keep their types.
THEOREM OGLTypeCorrect == Spec => []OGLTypeOK
<1>1. Shape /\ DrawInv => OGLTypeOK
  BY DEF Shape, DrawInv, Members, Numbers, OGLTypeOK
<1>2. QED
  BY <1>1, OwnershipInvariance, DrawInvariance, PTL DEF OwnershipInv

=============================================================================
