------------------------------ MODULE RendererOGL ------------------------------
(***************************************************************************)
(* Renderers of the OpenGL frontend (gl/impl/frontend/ogl/renderer.cpp):   *)
(* construction, draw lists and their indirect buffers, moves, and the     *)
(* state of the one OpenGL context that all renderers share.               *)
(*                                                                         *)
(* A renderer object has two groups of members: those its move assignment  *)
(* swaps (`core`: vertex array, static buffers, pass, inputs) and those it *)
(* leaves alone (`rest`: dynamic buffers, indirect buffers, draw cache).   *)
(* Each construction is known by a label of Labels, which stands for the   *)
(* OpenGL objects it creates; 0 stands for having none.                    *)
(***************************************************************************)
EXTENDS Integers, Sequences, Loops

CONSTANTS
  Renderers,         \* objects of type RendererOGL, constructed or not
  Labels,            \* labels of constructions
  Inputs,            \* the access of each input that builders are given
  Lists,             \* the draw lists that the application passes to render
  Colours,           \* the clear colours that it sets; 0 is {0, 0, 0, 0}
  CullingRequests,   \* the strategies it gives to builders; Unset for none
  Unset,
  Gone               \* what the application asks of an object it cannot use

Accesses == {"static", "dynamic"}

\* RendererCullingStrategy, and the faces that each is documented to cull.
Faces == [NoCulling |-> {}, CullFrontFaces |-> {"front"}, CullBackFaces |-> {"back"},
          CullEverything |-> {"front", "back"}]

ASSUME InputsAssumption == Inputs \in Seq(Accesses)
ASSUME ListsAssumption == Lists \subseteq Seq(DOMAIN Inputs)
ASSUME LabelsAssumption == Labels \subseteq Nat \ {0}
ASSUME CullingAssumption == CullingRequests \subseteq DOMAIN Faces \cup {Unset} /\ Unset \notin DOMAIN Faces

VARIABLES
  gl,      \* the context: clear_colour, GL_CULL_FACE, the face it culls, GL_DEPTH_TEST
  core,    \* core[r]: the label of the members that moves swap, and the pass
  rest,    \* rest[r]: the label of the dynamic buffers, the indirect buffers, the draw cache
  asked    \* what the user of r asked for, whether r was moved to, and whether
           \* it is undisturbed by what other renderers do to the context

vars == <<gl, core, rest, asked>>

NullCore == [label |-> 0, depth |-> TRUE]
NullRest == [label |-> 0, indirect |-> [a \in Accesses |-> <<>>], draw_cache |-> <<>>]

\* all_inputs_once()
all_inputs_once == [h \in DOMAIN Inputs |-> h]

\* The draws of a list that have the access, in order.
OfAccess(list, a) == Filter(list, { h \in DOMAIN Inputs : Inputs[h] = a })

\* The variables keep their types, and the draw cache holds a whole list.
OGLTypeOK ==
  /\ gl \in [clear_colour : Colours \cup {0}, culls : BOOLEAN, cull_face : SUBSET {"front", "back"},
             depth_test : BOOLEAN]
  /\ core \in [Renderers -> [label : Labels \cup {0}, depth : BOOLEAN]]
  /\ \A r \in Renderers :
       /\ rest[r].label \in Labels \cup {0}
       /\ rest[r].indirect \in [Accesses -> Seq(DOMAIN Inputs)]
       /\ rest[r].draw_cache \in Lists \cup {<<>>, all_inputs_once}

\* A fresh context has neither culling nor depth test.
Init ==
  /\ gl = [clear_colour |-> 0, culls |-> FALSE, cull_face |-> {"back"}, depth_test |-> FALSE]
  /\ core = [r \in Renderers |-> NullCore]
  /\ rest = [r \in Renderers |-> NullRest]
  /\ asked = [r \in Renderers |-> Gone]

-----------------------------------------------------------------------------
(* Draw lists *)

\* Mutant of BufferWrite: the buffer is only written when it is created.
BufferWriteOnce(buffer, commands) == buffer

\* Buffer::write to a buffer that is not mapped: a write past the end of the
\* buffer is an error that changes nothing.
BufferWrite(buffer, commands) ==
  IF Len(commands) > Len(buffer) THEN buffer
  ELSE commands \o SubSeq(buffer, Len(commands) + 1, Len(buffer))

\* The indirect buffer for the draws of one access: <<>> for std::nullopt.
\* An existing buffer keeps its size.
Bound(buffer, commands) ==
  IF commands = <<>> THEN <<>>
  ELSE IF buffer = <<>> THEN commands
  ELSE BufferWrite(buffer, commands)

\* Mutant of bind_draw_list: only static draws are cached.
CacheStatics(members, draws) ==
  [members EXCEPT !.indirect = [a \in Accesses |-> Bound(@[a], OfAccess(draws, a))],
                  !.draw_cache = OfAccess(draws, "static")]

\* The members after bind_draw_list(draws).
bind_draw_list(members, draws) ==
  IF members.draw_cache = draws THEN members
  ELSE [members EXCEPT !.indirect = [a \in Accesses |-> Bound(@[a], OfAccess(draws, a))],
                       !.draw_cache = draws]

\* What glMultiDrawElementsIndirect draws: num_static_draws (or dynamic)
\* commands of the buffer, or nothing when the buffer holds fewer.  A renderer
\* that was moved may draw from an indirect buffer whose vertex buffer is an
\* empty optional: that is undefined, and nothing is claimed of its draws.
MultiDraw(members, a) ==
  LET count == Len(OfAccess(members.draw_cache, a)) IN
  IF count > Len(members.indirect[a]) THEN <<>> ELSE SubSeq(members.indirect[a], 1, count)

-----------------------------------------------------------------------------
(* Life of a renderer *)

\* Mutant of Culled: NoCulling leaves the context as it is.
CulledNever(strategy) ==
  IF strategy = "NoCulling" THEN gl ELSE [gl EXCEPT !.culls = TRUE, !.cull_face = Faces[strategy]]

\* The context after the constructor's switch: NoCulling does not touch the
\* face, the others enable GL_CULL_FACE and set it.
Culled(strategy) ==
  IF strategy = "NoCulling" THEN [gl EXCEPT !.culls = FALSE]
  ELSE [gl EXCEPT !.culls = TRUE, !.cull_face = Faces[strategy]]

\* Renderer r changes the context, and with it that of every other.
Disturbed(r) ==
  [s \in Renderers |-> IF s = r \/ asked[s] = Gone THEN asked[s] ELSE [asked[s] EXCEPT !.undisturbed = FALSE]]

\* The constructor. A builder that was given no strategy holds an indeterminate
\* value: the switch takes any of its cases, or none.
Construct(r, l, request, depth) ==
  /\ core[r] = NullCore /\ rest[r] = NullRest
  /\ \A s \in Renderers : l \notin {core[s].label, rest[s].label}
  /\ \E context \in IF request = Unset THEN { Culled(c) : c \in DOMAIN Faces } \cup {gl} ELSE {Culled(request)} :
       gl' = [context EXCEPT !.depth_test = depth]
  /\ core' = [core EXCEPT ![r] = [label |-> l, depth |-> depth]]
  /\ rest' = [rest EXCEPT ![r] = bind_draw_list([NullRest EXCEPT !.label = l], all_inputs_once)]
  /\ asked' = [Disturbed(r) EXCEPT ![r] =
       [label |-> l, list |-> all_inputs_once, clear_colour |-> Unset, depth |-> depth,
        culling |-> request, moved |-> FALSE, undisturbed |-> TRUE]]

\* The destructor deletes what the object holds, whatever was moved.
Destroy(r) ==
  /\ core[r] # NullCore \/ rest[r] # NullRest
  /\ core' = [core EXCEPT ![r] = NullCore]
  /\ rest' = [rest EXCEPT ![r] = NullRest]
  /\ asked' = [asked EXCEPT ![r] = Gone]
  /\ UNCHANGED gl

\* Mutant of Swapped: the members are copied to the target.
SwappedCopies(to, from) == [core EXCEPT ![to] = core[from]]

\* The std::swaps of operator=.
Swapped(to, from) == [core EXCEPT ![to] = core[from], ![from] = core[to]]

\* Move assignment, and move construction when `to` holds nothing. The
\* application no longer uses the object it moved from.
Move(to, from) ==
  /\ to # from
  /\ asked[from] # Gone
  /\ core' = Swapped(to, from)
  /\ asked' = [asked EXCEPT ![to] = [asked[from] EXCEPT !.moved = TRUE], ![from] = Gone]
  /\ UNCHANGED <<gl, rest>>

\* The context's clear colour is set; no member changes.
SetClearColour(r, colour) ==
  /\ asked[r] # Gone
  /\ gl' = [gl EXCEPT !.clear_colour = colour]
  /\ asked' = [Disturbed(r) EXCEPT ![r].clear_colour = colour]
  /\ UNCHANGED <<core, rest>>

\* What render() of r draws, which changes neither r nor the context: first
\* the static draws, then the dynamic ones, on what glClear left.
Render(r) ==
  [drawn |-> [a \in Accesses |-> MultiDraw(rest[r], a)],
   culled |-> IF gl.culls THEN gl.cull_face ELSE {},
   depth_test |-> gl.depth_test, clear_colour |-> gl.clear_colour]

\* render(draws), up to the render() that it ends with.
RenderDraws(r, draws) ==
  /\ asked[r] # Gone
  /\ rest' = [rest EXCEPT ![r] = bind_draw_list(@, draws)]
  /\ asked' = [asked EXCEPT ![r].list = draws]
  /\ UNCHANGED <<gl, core>>

Next ==
  \E r \in Renderers :
    \/ \E l \in Labels, c \in CullingRequests, d \in BOOLEAN : Construct(r, l, c, d)
    \/ Destroy(r)
    \/ \E s \in Renderers : Move(r, s)
    \/ \E c \in Colours : SetClearColour(r, c)
    \/ \E draws \in Lists : RenderDraws(r, draws)

Spec == Init /\ [][Next]_vars

-----------------------------------------------------------------------------
(* Properties *)

Usable == { r \in Renderers : asked[r] # Gone }

\* No render of a renderer that was not moved shows draws of an earlier list:
\* of each access it draws what the latest list has, or nothing at all
\* (bind_draw_list and the draw cache).
DrawsLatestOrNothing ==
  \A r \in Usable, a \in Accesses :
    ~asked[r].moved => Render(r).drawn[a] \in {OfAccess(asked[r].list, a), <<>>}

\* A render draws the latest list, in order; once per input if there was no
\* list (api/renderer.hpp).
DrawsLatestList ==
  \A r \in Usable : Render(r).drawn.static \o Render(r).drawn.dynamic = asked[r].list

\* Moved or not, a renderer is drawn with the depth test and culling strategy
\* that its builder was given and the clear colour that was set, unless
\* another renderer was constructed or given a colour in the meantime.
StateAsAsked ==
  \A r \in Usable : asked[r].undisturbed =>
    /\ Render(r).depth_test = asked[r].depth
    /\ asked[r].culling # Unset => Render(r).culled = Faces[asked[r].culling]
    /\ asked[r].clear_colour # Unset => Render(r).clear_colour = asked[r].clear_colour

\* Whatever is moved and destroyed, no two objects hold the same vertex array
\* or buffers, so none is deleted twice; and the vertex array of a renderer
\* that can be used exists (operator= and the destructor).
HeldOnce ==
  /\ \A r, s \in Renderers :
       r # s => /\ core[r].label = core[s].label => core[r].label = 0
                /\ rest[r].label = rest[s].label => rest[r].label = 0
  /\ \A r \in Usable : core[r].label = asked[r].label

=============================================================================
