-------------------------- MODULE DeviceVulkanProofs --------------------------
(***************************************************************************)
(* Proofs about the library and the device, for every machine, every size  *)
(* of the window and any number of devices, renderers and events.          *)
(***************************************************************************)
EXTENDS DeviceVulkan, LoopsProofs

-----------------------------------------------------------------------------
(* The library. *)

\* What exists follows from how far the call of initialise or terminate is,
\* and from the API and the type of the application.
LifeInv ==
  /\ api \in {"vulkan", "opengl"}
  /\ at \in {"start", "instance", "surface", "running", "delete_instance",
             "delete_window", "terminate_glfw", "ended", "exited"}
  /\ tz_app_type \in AppTypes
  /\ at \notin {"start", "exited"} => api = "vulkan" \/ tz_app_type # "Headless"
  /\ at = "surface" => api = "vulkan" /\ tz_app_type # "Headless"
  /\ initialised \in BOOLEAN /\ glfw \in BOOLEAN /\ glfw_window \in BOOLEAN
  /\ inst \in BOOLEAN /\ def_msg \in BOOLEAN /\ surf \in BOOLEAN
  /\ initialised <=> at \notin {"start", "exited", "ended"}
  /\ glfw <=> at \notin {"start", "exited", "ended"} /\ tz_app_type # "Headless"
  /\ glfw_window <=> glfw /\ (at = "terminate_glfw" => tz_app_type # "WindowApplication")
  /\ inst <=> at \in {"surface", "running", "delete_instance"}
  /\ def_msg <=> inst /\ api = "vulkan"
  /\ surf <=> at = "running" /\ api = "vulkan" /\ tz_app_type # "Headless"

\* Only the steps of initialise and terminate change what the library holds.
LEMMA LifeSteps ==
  ASSUME [Next]_vars
  PROVE  \/ \E t \in AppTypes : Initialise(t)
         \/ LibraryStep
         \/ DeleteSurface
         \/ UNCHANGED libraryVars
<1>1. CASE CallStep
  BY <1>1 DEF CallStep, Dispatch, Pumped, ReadSize, Wait, Resize
<1>2. CASE UNCHANGED vars
  BY <1>2 DEF vars
<1>3. ASSUME NEW pass \in Passes, NEW resources \in BOOLEAN, CreateRenderer(pass, resources) PROVE UNCHANGED libraryVars
  BY <1>3 DEF CreateRenderer
<1>4. ASSUME NEW k \in DOMAIN renderers, DestroyRenderer(k) PROVE UNCHANGED libraryVars
  BY <1>4 DEF DestroyRenderer
<1>5. ASSUME NEW s \in Sizes, SizeChange(s) PROVE UNCHANGED libraryVars
  BY <1>5 DEF SizeChange
<1>6. CASE CreateDevice \/ DestroyDevice \/ Update \/ Wake
  BY <1>6 DEF CreateDevice, DestroyDevice, Update, Wake
<1>7. QED
  BY <1>1, <1>2, <1>3, <1>4, <1>5, <1>6 DEF Next, Terminate

\* LifeInv holds at every step of every life.
LEMMA LifeInvariant == Spec => []LifeInv
<1>1. Init => LifeInv
  BY Zenon DEF Init, LibraryInit, LifeInv, AppTypes
<1>2. LifeInv /\ [Next]_vars => LifeInv'
  <2> SUFFICES ASSUME LifeInv, [Next]_vars PROVE LifeInv'
    OBVIOUS
  <2> USE DEF LifeInv, LibraryGoto, AppTypes, backendVars
  <2>1. ASSUME NEW t \in AppTypes, Initialise(t) PROVE LifeInv'
    BY <2>1, Zenon DEF Initialise
  <2>2. CASE CreateInstance
    BY <2>2, Zenon DEF CreateInstance, Headless
  <2>3. CASE CreateSurface
    BY <2>3 DEF CreateSurface
  <2>4. CASE DeleteSurface
    BY <2>4, Zenon DEF DeleteSurface
  <2>5. CASE DeleteInstance
    BY <2>5, Zenon DEF DeleteInstance
  <2>6. CASE DeleteWindow
    BY <2>6, Zenon DEF DeleteWindow
  <2>7. CASE TerminateGlfw
    BY <2>7, Zenon DEF TerminateGlfw, GlfwTerminated
  <2>8. CASE UNCHANGED libraryVars
    BY <2>8 DEF libraryVars
  <2>9. QED
    BY <2>1, <2>2, <2>3, <2>4, <2>5, <2>6, <2>7, <2>8, LifeSteps DEF LibraryStep
<1>3. QED
  BY <1>1, <1>2, PTL DEF Spec

\* Whatever the application does, a surface, a messenger, an instance and a
\* window exist only as long as what they were created from.
THEOREM LifeOrdered == Spec => []DependenciesOutlive
<1>1. LifeInv => DependenciesOutlive
  BY DEF LifeInv, DependenciesOutlive, AppTypes
<1>2. QED
  BY <1>1, LifeInvariant, PTL

\* After terminate nothing that initialise created is left, for each of the
\* application types.
THEOREM LifeUndone == Spec => []TerminateUndoes
<1>1. LifeInv => TerminateUndoes
  BY DEF LifeInv, TerminateUndoes, AppTypes
<1>2. QED
  BY <1>1, LifeInvariant, PTL

-----------------------------------------------------------------------------
(* The renderers and the swapchain. *)

RendererFields == {"live", "pass", "render_pass", "pipeline", "depth", "framebuffers", "commands"}

\* What RenderersFollowSwapchain asks of one renderer.
Follows(r, s) ==
  /\ r.pipeline = s.extent
  /\ r.depth \in {NoImage, s.extent}
  /\ r.framebuffers.of = s.id
  /\ r.framebuffers.count = s.images /\ r.framebuffers.extent = s.extent
  /\ r.commands = [count |-> s.images, area |-> s.extent]

\* The renderers are a sequence of records, and each follows the swapchain of
\* the device, whether the application still has it or not.
FollowInv ==
  /\ renderers \in Seq(Range(renderers))
  /\ \A k \in DOMAIN renderers : RendererFields \subseteq DOMAIN renderers[k]
  /\ device # 0 => \A k \in DOMAIN renderers : Follows(renderers[k], swapchain)

\* handle_resize, and the constructor of a renderer, leave it with everything
\* made of the swapchain they were given.
LEMMA RegeneratedFollows ==
  ASSUME NEW r, NEW s
  PROVE  /\ Follows(Regenerated(r, s), s)
         /\ RendererFields \subseteq DOMAIN Regenerated(r, s)
  BY DEF Follows, Regenerated, RendererFields, NoImage

\* A resize calls handle_resize of every renderer or none.
LEMMA ResizeSteps ==
  ASSUME Resize
  PROVE  /\ device' = device /\ callbacks' = callbacks /\ chosen' = chosen
         /\ \/ swapchain' = swapchain /\ renderers' = renderers
            \/ /\ swapchain' \in SwapchainsOf(chosen[1], swapchain.id + 1)
               /\ renderers' = [k \in DOMAIN renderers |-> Regenerated(renderers[k], swapchain')]
  BY Zenon DEF Resize, OnWindowResize, HandleResize

\* FollowInv holds in every state.
LEMMA FollowInvariant == Spec => []FollowInv
<1>1. Init => FollowInv
  <2>1. <<>> \in Seq({})
    BY EmptySeq
  <2>2. <<>> \in Seq(Range(<<>>))
    BY <2>1, SeqOwnRange
  <2>3. QED
    BY <2>2 DEF Init, FollowInv
<1>2. FollowInv /\ [Next]_vars => FollowInv'
  <2> SUFFICES ASSUME FollowInv, [Next]_vars PROVE FollowInv'
    OBVIOUS
  <2> DEFINE S == Range(renderers)
  <2>1. renderers \in Seq(S) /\ Len(renderers) \in Nat /\ DOMAIN renderers = 1 .. Len(renderers)
    BY LenProperties DEF FollowInv
  <2> HIDE DEF S
  <2>2. CASE CreateDevice \/ DestroyDevice
    <3>1. renderers' = <<>>
      BY <2>2 DEF CreateDevice, DestroyDevice
    <3>2. <<>> \in Seq({})
      BY EmptySeq
    <3>3. <<>> \in Seq(Range(<<>>))
      BY <3>2, SeqOwnRange
    <3>4. QED
      BY <3>1, <3>3 DEF FollowInv, Range
  <2>3. ASSUME NEW pass \in Passes, NEW resources \in BOOLEAN, CreateRenderer(pass, resources) PROVE FollowInv'
    <3> DEFINE r == Regenerated(NewRenderer(pass, resources), swapchain)
    <3>1. renderers' = Append(renderers, r) /\ device' = device /\ swapchain' = swapchain /\ device # 0
      BY <2>3 DEF CreateRenderer
    <3>2. Follows(r, swapchain) /\ RendererFields \subseteq DOMAIN r
      BY RegeneratedFollows
    <3> HIDE DEF r
    <3>3. /\ renderers' \in Seq(Range(renderers'))
          /\ DOMAIN renderers' = 1 .. Len(renderers) + 1
          /\ \A k \in 1 .. Len(renderers) : renderers'[k] = renderers[k]
          /\ renderers'[Len(renderers) + 1] = r
      <4>1. renderers \in Seq(S)
        BY <2>1
      <4>2. Append(renderers, r) \in Seq(Range(Append(renderers, r)))
        BY <4>1, AppendAny, Zenon
      <4>3. DOMAIN Append(renderers, r) = 1 .. Len(renderers) + 1
        BY <4>1, AppendAny
      <4>4. \A k \in 1 .. Len(renderers) : Append(renderers, r)[k] = renderers[k]
        BY <4>1, AppendAny
      <4>5. Append(renderers, r)[Len(renderers) + 1] = r
        BY <4>1, AppendAny
      <4>6. QED
        BY <3>1, <4>2, <4>3, <4>4, <4>5, Zenon
    <3>4. \A k \in DOMAIN renderers' : k \in DOMAIN renderers \/ k = Len(renderers) + 1
      BY <2>1, <3>3
    <3>5. QED
      BY <2>1, <3>1, <3>2, <3>3, <3>4 DEF FollowInv, Range
  <2>4. ASSUME NEW j \in DOMAIN renderers, DestroyRenderer(j) PROVE FollowInv'
    <3>1. /\ renderers' = [k \in DOMAIN renderers |-> IF k = j THEN [renderers[j] EXCEPT !.live = FALSE] ELSE renderers[k]]
          /\ device' = device /\ swapchain' = swapchain
      BY <2>4, Zenon DEF DestroyRenderer
    <3>2. renderers' \in Seq(Range(renderers'))
      BY <2>1, <3>1, SeqOfDomain, Zenon
    <3>3. RendererFields \subseteq DOMAIN renderers[j]
      BY DEF FollowInv
    <3>4. \A s : Follows(renderers[j], s) => Follows([renderers[j] EXCEPT !.live = FALSE], s)
      BY <3>3 DEF Follows, RendererFields
    <3>5. RendererFields \subseteq DOMAIN [renderers[j] EXCEPT !.live = FALSE]
      BY <3>3
    <3>6. QED
      BY <3>1, <3>2, <3>4, <3>5, Zenon DEF FollowInv
  <2>5. CASE Resize
    <3>1. CASE swapchain' = swapchain /\ renderers' = renderers
      BY <2>5, <3>1, ResizeSteps DEF FollowInv
    <3>2. CASE renderers' = [k \in DOMAIN renderers |-> Regenerated(renderers[k], swapchain')]
      <4>1. renderers' \in Seq(Range(renderers'))
        BY <2>1, <3>2, SeqOfDomain
      <4>2. \A k \in DOMAIN renderers' : Follows(renderers'[k], swapchain') /\ RendererFields \subseteq DOMAIN renderers'[k]
        BY <3>2, RegeneratedFollows
      <4>3. QED
        BY <4>1, <4>2 DEF FollowInv
    <3>3. QED
      BY <2>5, <3>1, <3>2, ResizeSteps
  <2>6. CASE UNCHANGED <<device, swapchain, renderers>>
    BY <2>6 DEF FollowInv
  <2>7. CASE CallStep /\ ~Resize
    BY <2>6, <2>7 DEF CallStep, Dispatch, Pumped, ReadSize, Wait, objectVars
  <2>8. ASSUME NEW s \in Sizes, SizeChange(s) PROVE FollowInv'
    BY <2>6, <2>8 DEF SizeChange, objectVars
  <2>9. CASE Update \/ Wake \/ Terminate \/ UNCHANGED objectVars \/ UNCHANGED vars
    BY <2>6, <2>9 DEF Update, Wake, Terminate, objectVars, vars
  <2>10. QED
    BY <2>2, <2>3, <2>4, <2>5, <2>7, <2>8, <2>9 DEF Next
<1>3. QED
  BY <1>1, <1>2, PTL DEF Spec

\* Whatever was created, destroyed and resized in whatever order, a renderer
\* draws to the present swapchain with everything made for it.
THEOREM RenderersFollow == Spec => []RenderersFollowSwapchain
<1>1. FollowInv => RenderersFollowSwapchain
  BY DEF FollowInv, RenderersFollowSwapchain, Follows, Defined, Live
<1>2. QED
  BY <1>1, FollowInvariant, PTL

-----------------------------------------------------------------------------
(* The size of the window. *)

\* The capabilities a surface may have.
CapsOK(caps) ==
  /\ caps.currentExtent \in BOOLEAN
  /\ caps.minExtent \in Nat /\ caps.maxExtent \in Nat
  /\ ~caps.currentExtent => caps.minExtent <= caps.maxExtent

\* The device that is chosen is one of the machine's.
LEMMA ChosenIsOne ==
  ASSUME machine \in Machines, NEW headless, FilterAll(machine, headless) # {}
  PROVE  CapsOK(ChosenDevice(machine, headless).caps)
<1> DEFINE T == FilterAll(machine, headless)
<1>1. T \subseteq DOMAIN machine /\ DOMAIN machine \subseteq Nat
  <2>1. machine \in Seq(Range(machine))
    BY MachinesAssumption
  <2>2. QED
    BY <2>1, LenProperties DEF FilterAll
<1> HIDE DEF T
<1>2. Min(T) \in T
  BY <1>1, LeastExists DEF T
<1>3. Min(T) \in DOMAIN machine
  BY <1>1, <1>2
<1>4. CapsOK(machine[Min(T)].caps)
  BY <1>3, MachinesAssumption DEF CapsOK
<1>5. QED
  BY <1>4 DEF ChosenDevice, T

\* The extent a swapchain is given is the nearest its surface allows.
LEMMA RealIsNearest ==
  ASSUME NEW caps, CapsOK(caps), NEW n \in Nat
  PROVE  NearestExtent(caps, n, RealSwapExtent(caps, n))
<1>1. CASE caps.currentExtent
  BY <1>1 DEF NearestExtent, RealSwapExtent
<1>2. CASE ~caps.currentExtent
  <2> DEFINE lo == caps.minExtent
             hi == caps.maxExtent
             x == FixToExtremes(caps, n)
  <2>1. lo \in Nat /\ hi \in Nat /\ lo <= hi
    BY <1>2 DEF CapsOK
  <2>2. x = IF n < lo THEN lo ELSE IF n > hi THEN hi ELSE n
    BY DEF FixToExtremes
  <2>3. NearestExtent(caps, n, x) <=> x \in lo .. hi /\ \A e \in lo .. hi : Distance(x, n) <= Distance(e, n)
    BY <1>2 DEF NearestExtent
  <2>4. RealSwapExtent(caps, n) = x
    BY <1>2 DEF RealSwapExtent
  <2> HIDE DEF lo, hi, x
  <2>5. x \in lo .. hi
    BY <2>1, <2>2
  <2>6. ASSUME NEW e \in lo .. hi PROVE Distance(x, n) <= Distance(e, n)
    BY <2>1, <2>2 DEF Distance
  <2>7. QED
    BY <2>3, <2>4, <2>5, <2>6
<1>3. QED
  BY <1>1, <1>2

Frame == [cb : Nat, arg : Nat, w : Nat, at : {"pump", "test", "wait"}]

\* A swapchain has the extent that its surface and the window ask for.
LEMMA ExtentOf ==
  ASSUME NEW dev, NEW id, NEW s \in SwapchainsOf(dev, id)
  PROVE  s.extent = RealSwapExtent(dev.caps, size)
<1> DEFINE e == RealSwapExtent(dev.caps, size)
           f == SelectFormat(dev.formats)
           m == SelectPresentMode(dev.modes)
           N == {k \in dev.caps.images : k >= ImageCount(dev.caps)}
<1>1. PICK n \in N : s = [id |-> id, extent |-> e, images |-> n, format |-> f, mode |-> m]
  BY Zenon DEF SwapchainsOf
<1> HIDE DEF e, f, m, N
<1>2. s.extent = e
  BY <1>1
<1>3. QED
  BY <1>2 DEF e

\* The types of what the window and the calls have, and a device exists only
\* while the library runs.
WindowInv ==
  /\ machine \in Machines
  /\ size \in Sizes
  /\ pending \in Seq(Sizes \cup {Other})
  /\ calls \in Seq(Frame)
  /\ callbacks \in Seq(Nat)
  /\ devices \in Nat
  /\ device # 0 => at = "running"

\* The innermost call is a frame, and replacing or removing it leaves the
\* calls below as they were.
LEMMA InnermostTyped ==
  ASSUME calls \in Seq(Frame), calls # <<>>
  PROVE  /\ Len(calls) \in Nat \ {0}
         /\ Innermost \in Frame
         /\ Outer \in Seq(Frame)
         /\ Len(Outer) = Len(calls) - 1
         /\ \A k \in 1 .. Len(calls) - 1 : Outer[k] = calls[k]
<1>1. Len(calls) \in Nat \ {0}
  BY EmptySeq
<1>2. Innermost \in Frame
  BY <1>1, ElementOfSeq DEF Innermost
<1>3. \A k \in 1 .. Len(calls) - 1 : calls[k] \in Frame
  BY <1>1, ElementOfSeq
<1> DEFINE n == Len(calls) - 1
<1>4. n \in Nat /\ Outer = SubSeq(calls, 1, n)
  BY <1>1 DEF Outer
<1> HIDE DEF n
<1>5. \A k \in 1 .. n : calls[k] \in Frame
  BY <1>3 DEF n
<1>6. /\ SubSeq(calls, 1, n) \in Seq(Frame)
      /\ Len(SubSeq(calls, 1, n)) = IF 1 <= n THEN n - 1 + 1 ELSE 0
      /\ \A i \in 1 .. n - 1 + 1 : SubSeq(calls, 1, n)[i] = calls[1 + i - 1]
  BY <1>4, <1>5, SubSeqProperties
<1>7. /\ Len(SubSeq(calls, 1, n)) = n
      /\ \A i \in 1 .. n : SubSeq(calls, 1, n)[i] = calls[i]
  BY <1>4, <1>6
<1>8. QED
  BY <1>1, <1>2, <1>4, <1>6, <1>7 DEF n

\* Replacing the innermost call leaves the calls below as they were.
LEMMA BecomeTyped ==
  ASSUME calls \in Seq(Frame), calls # <<>>, NEW f \in Frame, Become(f)
  PROVE  /\ calls' \in Seq(Frame)
         /\ Len(calls') = Len(calls)
         /\ \A k \in 1 .. Len(calls) : calls'[k] = IF k = Len(calls) THEN f ELSE calls[k]
<1>1. Len(calls) \in 1 .. Len(calls)
  BY InnermostTyped
<1>2. calls' = [calls EXCEPT ![Len(calls)] = f]
  BY DEF Become
<1>3. \A i \in 1 .. Len(calls) :
        /\ [calls EXCEPT ![i] = f] \in Seq(Frame)
        /\ Len([calls EXCEPT ![i] = f]) = Len(calls)
        /\ \A j \in 1 .. Len(calls) : [calls EXCEPT ![i] = f][j] = IF j = i THEN f ELSE calls[j]
  BY ExceptSeq
<1>4. QED
  BY <1>1, <1>2, <1>3, Zenon

\* Resize leaves the innermost call, or goes on to its next callback.
LEMMA ResizeTyped ==
  ASSUME WindowInv, Resize
  PROVE  calls' \in Seq(Frame)
<1>1. calls \in Seq(Frame) /\ calls # <<>> /\ Innermost \in Frame
  BY InnermostTyped DEF WindowInv, Resize, InnermostAt
<1>2. CASE Return
  BY <1>1, <1>2, InnermostTyped, SMTT(30) DEF Return
<1>3. CASE Become([Innermost EXCEPT !.cb = @ + 1, !.w = Innermost.arg])
  <2>1. ASSUME NEW f \in Frame PROVE [f EXCEPT !.cb = @ + 1, !.w = f.arg] \in Frame
    <3>1. f.cb + 1 \in Nat /\ f.arg \in Nat
      BY DEF Frame
    <3>2. \A c \in Nat, a \in Nat : [f EXCEPT !.cb = c, !.w = a] \in Frame
      BY Zenon DEF Frame
    <3>3. QED
      BY <3>1, <3>2, Zenon
  <2>2. QED
    BY <1>1, <1>3, <2>1, BecomeTyped, Zenon
<1>4. QED
  BY <1>2, <1>3 DEF Resize

\* Some call is of a callback.
InCallback == \E k \in 1 .. Len(calls) : calls[k].cb # 0

\* The other steps of the innermost call: none leaves a callback.
LEMMA FrameTyped ==
  ASSUME WindowInv, Pumped \/ ReadSize \/ Wait
  PROVE  calls' \in Seq(Frame) /\ (InCallback => InCallback')
<1>1. /\ calls \in Seq(Frame) /\ calls # <<>>
      /\ Innermost \in Frame /\ Innermost = calls[Len(calls)]
      /\ Len(calls) \in Nat \ {0}
  BY InnermostTyped DEF WindowInv, Pumped, ReadSize, Wait, InnermostAt, Innermost
<1>2. CASE Return /\ Innermost.cb = 0
  <2>1. /\ calls' \in Seq(Frame)
        /\ Len(calls') = Len(calls) - 1
        /\ \A k \in 1 .. Len(calls) - 1 : calls'[k] = calls[k]
    BY <1>1, <1>2, InnermostTyped DEF Return
  <2>2. QED
    BY <1>1, <1>2, <2>1 DEF InCallback
<1>3. ASSUME NEW f \in Frame, f.cb = Innermost.cb, Become(f) PROVE calls' \in Seq(Frame) /\ (InCallback => InCallback')
  <2>1. /\ calls' \in Seq(Frame)
        /\ Len(calls') = Len(calls)
        /\ \A k \in 1 .. Len(calls) : calls'[k] = IF k = Len(calls) THEN f ELSE calls[k]
    BY <1>1, <1>3, BecomeTyped
  <2>2. QED
    BY <1>1, <1>3, <2>1 DEF InCallback
<1>4. CASE Pumped
  <2>1. [Innermost EXCEPT !.at = "test"] \in Frame /\ [Innermost EXCEPT !.at = "test"].cb = Innermost.cb
    BY <1>1 DEF Frame
  <2>2. QED
    BY <1>2, <1>3, <1>4, <2>1, Zenon DEF Pumped
<1>5. CASE ReadSize
  <2> DEFINE f == [Innermost EXCEPT !.w = SizeRead, !.at = "wait"]
  <2>1. f \in Frame /\ f.cb = Innermost.cb
    BY <1>1, SizesAssumption, Zenon DEF Frame, WindowInv, SizeRead
  <2>2. QED
    BY <1>3, <1>5, <2>1, Zenon DEF ReadSize
<1>6. CASE Wait
  <2>1. [Innermost EXCEPT !.at = "pump"] \in Frame /\ [Innermost EXCEPT !.at = "pump"].cb = Innermost.cb
    BY <1>1 DEF Frame
  <2>2. QED
    BY <1>3, <1>6, <2>1, Zenon DEF Wait
<1>7. QED
  BY <1>4, <1>5, <1>6

\* An event about the size has not been polled.
SizePending == \E k \in 1 .. Len(pending) : pending[k] # Other

\* An event about the size that is taken from the queue becomes a call of the
\* first callback; one of another kind hides none behind it.
LEMMA DispatchTyped ==
  ASSUME WindowInv, Dispatch
  PROVE  /\ pending' \in Seq(Sizes \cup {Other})
         /\ calls' \in Seq(Frame)
         /\ InCallback => InCallback'
         /\ SizePending /\ callbacks # <<>> => SizePending' \/ InCallback'
<1> DEFINE e == Head(pending)
           f == [cb |-> 1, arg |-> e, w |-> e, at |-> "test"]
<1>1. /\ pending \in Seq(Sizes \cup {Other}) /\ pending # <<>> /\ pending' = Tail(pending)
      /\ calls \in Seq(Frame)
      /\ calls' = IF e = Other \/ callbacks = <<>> THEN calls ELSE Append(calls, f)
  BY DEF Dispatch, WindowInv
<1>2. /\ e \in Sizes \cup {Other}
      /\ pending' \in Seq(Sizes \cup {Other})
      /\ Len(pending') = Len(pending) - 1
      /\ \A k \in 1 .. Len(pending') : pending'[k] = pending[k + 1]
  BY <1>1, HeadTailProperties
<1>3. e = pending[1] /\ Len(pending) \in Nat \ {0}
  BY <1>1, EmptySeq
<1> HIDE DEF e
<1>4. CASE e = Other
  <2>1. calls' = calls
    BY <1>1, <1>4
  <2>2. ASSUME NEW k \in 1 .. Len(pending), pending[k] # Other PROVE SizePending'
    <3>1. k # 1
      BY <1>3, <1>4, <2>2, Zenon
    <3>2. k - 1 \in 1 .. Len(pending') /\ pending'[k - 1] = pending[k]
      BY <1>2, <1>3, <3>1
    <3>3. QED
      BY <2>2, <3>2 DEF SizePending
  <2>3. SizePending => SizePending'
    BY <2>2 DEF SizePending
  <2>4. QED
    BY <1>1, <1>2, <2>1, <2>3 DEF InCallback
<1>5. CASE e # Other /\ callbacks = <<>>
  BY <1>1, <1>2, <1>5 DEF InCallback
<1>6. CASE e # Other /\ callbacks # <<>>
  <2>1. f \in Frame /\ f.cb = 1
    BY <1>2, <1>6, SizesAssumption DEF Frame
  <2>2. calls' = Append(calls, f)
    BY <1>1, <1>6
  <2> HIDE DEF f
  <2>3. /\ calls' \in Seq(Frame)
        /\ Len(calls') = Len(calls) + 1
        /\ calls'[Len(calls) + 1] = f
        /\ Len(calls) \in Nat
    BY <1>1, <2>1, <2>2, AppendProperties, LenProperties
  <2>4. InCallback'
    BY <2>1, <2>3 DEF InCallback
  <2>5. QED
    BY <1>2, <2>3, <2>4
<1>7. QED
  BY <1>4, <1>5, <1>6

\* WindowInv holds in every state.
LEMMA WindowInvariant == Spec => []WindowInv
<1>1. Init => WindowInv
  BY EmptySeq, SizesAssumption DEF Init, WindowInv
<1>2. WindowInv /\ LifeInv /\ [Next]_vars => WindowInv'
  <2> SUFFICES ASSUME WindowInv, LifeInv, [Next]_vars PROVE WindowInv'
    OBVIOUS
  <2> DEFINE Rest == <<machine, size, pending, calls, callbacks, devices, device>>
  <2>1. ASSUME NEW t \in AppTypes, Initialise(t), UNCHANGED Rest PROVE WindowInv'
    BY <2>1 DEF WindowInv, Initialise
  <2>2. CASE LibraryStep /\ UNCHANGED Rest
    BY <2>2 DEF WindowInv, LibraryStep, CreateInstance, CreateSurface, DeleteInstance, DeleteWindow, TerminateGlfw, LibraryGoto
  <2>3. CASE CreateDevice
    <3>1. devices + 1 \in Nat
      BY DEF WindowInv
    <3>2. callbacks' \in Seq(Nat)
      BY <2>3, <3>1, AppendProperties DEF WindowInv, CreateDevice
    <3>3. QED
      BY <2>3, <3>1, <3>2 DEF WindowInv, CreateDevice, AppRuns, libraryVars, windowVars
  <2>4. CASE DestroyDevice
    BY <2>4 DEF WindowInv, DestroyDevice, libraryVars, windowVars
  <2>5. ASSUME NEW pass \in Passes, NEW resources \in BOOLEAN, CreateRenderer(pass, resources) PROVE WindowInv'
    BY <2>5 DEF WindowInv, CreateRenderer, libraryVars, windowVars
  <2>6. ASSUME NEW k \in DOMAIN renderers, DestroyRenderer(k) PROVE WindowInv'
    BY <2>6 DEF WindowInv, DestroyRenderer, libraryVars, windowVars
  <2>7. ASSUME NEW s \in Sizes, SizeChange(s) PROVE WindowInv'
    <3>1. pending' \in Seq(Sizes \cup {Other})
      BY <2>7, AppendProperties DEF WindowInv, SizeChange
    <3>2. QED
      BY <2>7, <3>1 DEF WindowInv, SizeChange, libraryVars, objectVars
  <2>8. CASE Update
    <3> DEFINE f == [cb |-> 0, arg |-> 0, w |-> 0, at |-> "pump"]
    <3>1. calls' = <<f>> /\ UNCHANGED <<machine, size, pending, callbacks, devices, device, at>>
      BY <2>8 DEF Update, libraryVars, windowVars, objectVars
    <3>2. f \in Frame
      BY DEF Frame
    <3> HIDE DEF f
    <3>3. <<f>> \in Seq(Frame)
      BY <3>2
    <3>4. QED
      BY <3>1, <3>3 DEF WindowInv
  <2>9. CASE Dispatch
    BY <2>9, DispatchTyped DEF WindowInv, Dispatch, libraryVars, objectVars
  <2>10. CASE Pumped \/ ReadSize \/ Wait
    BY <2>10, FrameTyped DEF WindowInv, Pumped, ReadSize, Wait, libraryVars, windowVars, objectVars
  <2>11. CASE Resize
    BY <2>11, ResizeTyped DEF WindowInv, Resize, libraryVars, windowVars
  <2>12. CASE Wake
    <3>1. <<Other>> \in Seq(Sizes \cup {Other})
      OBVIOUS
    <3>2. QED
      BY <2>12, <3>1 DEF WindowInv, Wake, libraryVars, objectVars
  <2>13. CASE Terminate
    BY <2>13 DEF WindowInv, Terminate, windowVars, objectVars
  <2>14. CASE UNCHANGED vars
    BY <2>14 DEF WindowInv, vars, libraryVars, windowVars, objectVars
  <2>15. QED
    BY <2>1, <2>2, <2>3, <2>4, <2>5, <2>6, <2>7, <2>8, <2>9, <2>10, <2>11, <2>12, <2>13, <2>14
    DEF Next, CallStep, windowVars, objectVars
<1>3. QED
  BY <1>1, <1>2, LifeInvariant, PTL DEF Spec

\* While the device follows a surface, its swapchain has the extent of the
\* window, or a change of size has still to reach it: as an event, or as a
\* call of a callback.
FitInv ==
  device # 0 /\ surf =>
    /\ callbacks # <<>>
    /\ CapsOK(chosen[1].caps)
    /\ \/ undefined
       \/ swapchain.extent = RealSwapExtent(chosen[1].caps, size)
       \/ SizePending
       \/ InCallback

\* FitInv holds in every state.
LEMMA FitInvariant == Spec => []FitInv
<1>1. Init => FitInv
  BY DEF Init, FitInv
<1>2. WindowInv /\ LifeInv /\ FitInv /\ [Next]_vars => FitInv'
  <2> SUFFICES ASSUME WindowInv, LifeInv, FitInv, [Next]_vars, (device # 0 /\ surf)' PROVE FitInv'
    BY DEF FitInv
  <2> DEFINE Others == <<device, callbacks, chosen, undefined, swapchain, surf>>
             Rest == <<Others, size, pending, calls>>
  <2>1. CASE UNCHANGED Rest
    BY <2>1 DEF FitInv, SizePending, InCallback
  <2>2. ASSUME NEW t \in AppTypes, Initialise(t), UNCHANGED device PROVE FALSE
    BY <2>2 DEF WindowInv, Initialise
  <2>3. CASE LibraryStep /\ UNCHANGED device
    BY <2>3, SMTT(30) DEF WindowInv, LibraryStep, CreateInstance, CreateSurface, DeleteInstance, DeleteWindow, TerminateGlfw, LibraryGoto
  <2>4. CASE CreateDevice
    <3> DEFINE dev == ChosenDevice(machine, IsHeadless)
    <3>1. surf /\ ~IsHeadless
      BY <2>4 DEF CreateDevice, libraryVars, IsHeadless
    <3>2. CapsOK(dev.caps)
      BY <2>4, ChosenIsOne DEF CreateDevice, WindowInv
    <3>3. chosen'[1] = dev /\ swapchain' \in SwapchainsOf(dev, swapchain.id + 1) /\ size' = size
      BY <2>4, <3>1 DEF CreateDevice, windowVars
    <3>4. swapchain'.extent = RealSwapExtent(dev.caps, size)
      BY <3>3, ExtentOf, Zenon
    <3>5. callbacks' # <<>>
      <4>1. devices + 1 \in Nat /\ callbacks \in Seq(Nat)
        BY DEF WindowInv
      <4>2. callbacks' = Append(callbacks, devices + 1)
        BY <2>4, <3>1 DEF CreateDevice
      <4>3. QED
        BY <4>1, <4>2, AppendProperties
    <3>6. QED
      BY <3>2, <3>3, <3>4, <3>5, Zenon DEF FitInv
  <2>5. CASE DestroyDevice
    BY <2>5 DEF DestroyDevice
  <2>6. ASSUME NEW pass \in Passes, NEW resources \in BOOLEAN, CreateRenderer(pass, resources) PROVE UNCHANGED Rest
    BY <2>6, Zenon DEF CreateRenderer, libraryVars, windowVars
  <2>7. ASSUME NEW k \in DOMAIN renderers, DestroyRenderer(k) PROVE UNCHANGED Rest
    BY <2>7, Zenon DEF DestroyRenderer, libraryVars, windowVars
  <2>8. ASSUME NEW s \in Sizes, SizeChange(s) PROVE FitInv'
    <3>1. pending' = Append(pending, s) /\ pending \in Seq(Sizes \cup {Other}) /\ UNCHANGED Others
      BY <2>8, Zenon DEF SizeChange, WindowInv, libraryVars, objectVars
    <3>2. /\ Len(pending') = Len(pending) + 1 /\ Len(pending) \in Nat
          /\ pending'[Len(pending) + 1] = s
      BY <3>1, AppendProperties, LenProperties
    <3>3. s # Other
      BY SizesAssumption DEF Other
    <3>4. SizePending'
      BY <3>2, <3>3 DEF SizePending
    <3>5. QED
      BY <3>1, <3>4 DEF FitInv
  <2>9. CASE Update
    <3>1. UNCHANGED Others /\ UNCHANGED size /\ UNCHANGED pending /\ Len(calls) = 0
      BY <2>9, EmptySeq, Zenon DEF Update, AppRuns, libraryVars, windowVars, objectVars
    <3>2. ~InCallback
      BY <3>1 DEF InCallback
    <3>3. QED
      BY <3>1, <3>2 DEF FitInv, SizePending
  <2>10. CASE Dispatch
    BY <2>10, DispatchTyped DEF FitInv, Dispatch, libraryVars, objectVars
  <2>11. CASE Pumped \/ ReadSize \/ Wait
    BY <2>11, FrameTyped, Zenon DEF FitInv, SizePending, Pumped, ReadSize, Wait, libraryVars, windowVars, objectVars
  <2>12. CASE Resize
    <3>1. UNCHANGED <<device, callbacks, chosen, surf, size>>
      BY <2>12, Zenon DEF Resize, libraryVars, windowVars
    <3>2. undefined' \/ swapchain' \in SwapchainsOf(chosen[1], swapchain.id + 1)
      BY <2>12, Zenon DEF Resize, OnWindowResize
    <3>3. undefined' \/ swapchain'.extent = RealSwapExtent(chosen[1].caps, size)
      <4>1. \A dev, id : \A s \in SwapchainsOf(dev, id) : s.extent = RealSwapExtent(dev.caps, size)
        BY ExtentOf, Zenon
      <4>2. QED
        BY <3>2, <4>1, Zenon
    <3>4. QED
      BY <3>1, <3>3 DEF FitInv
  <2>13. CASE Wake
    <3>1. UNCHANGED Others /\ UNCHANGED size /\ UNCHANGED calls /\ Len(pending) = 0
      BY <2>13, EmptySeq, Zenon DEF Wake, libraryVars, objectVars
    <3>2. ~SizePending
      BY <3>1 DEF SizePending
    <3>3. QED
      BY <3>1, <3>2 DEF FitInv, InCallback
  <2>14. CASE Terminate
    BY <2>14 DEF Terminate, objectVars
  <2>15. CASE UNCHANGED vars
    BY <2>1, <2>15, Zenon DEF vars, libraryVars, windowVars, objectVars
  <2>16. QED
    BY <2>1, <2>2, <2>3, <2>4, <2>5, <2>6, <2>7, <2>8, <2>9, <2>10, <2>11, <2>12, <2>13, <2>14, <2>15, Zenon
    DEF Next, CallStep, objectVars
<1>3. QED
  BY <1>1, <1>2, LifeInvariant, WindowInvariant, PTL DEF Spec

\* However often the window changes its size, and however the callbacks nest,
\* the swapchain has the extent nearest to it once every event is handled.
THEOREM SwapchainFits == Spec => []SwapchainFitsWindow
<1>1. WindowInv /\ FitInv => SwapchainFitsWindow
  <2> SUFFICES ASSUME WindowInv, FitInv, Defined, ~IsHeadless, calls = <<>>, pending = <<>>
               PROVE  NearestExtent(chosen[1].caps, size, swapchain.extent)
    BY DEF SwapchainFitsWindow
  <2>1. ~SizePending /\ ~InCallback
    BY EmptySeq DEF SizePending, InCallback
  <2>2. CapsOK(chosen[1].caps) /\ swapchain.extent = RealSwapExtent(chosen[1].caps, size)
    BY <2>1 DEF FitInv, Defined, IsHeadless
  <2>3. size \in Nat
    BY SizesAssumption DEF WindowInv
  <2>4. QED
    BY <2>2, <2>3, RealIsNearest
<1>2. QED
  BY <1>1, WindowInvariant, FitInvariant, PTL

-----------------------------------------------------------------------------
(* The choice of a device. *)

\* What is preferred goes before all that is offered.
Preferred(best, offered) ==
  IF Filter(offered, {best}) = <<>> THEN offered[1] ELSE Filter(offered, {best})[1]

\* The first is then the best.
LEMMA PreferredFirst ==
  ASSUME NEW best, NEW offered \in Seq(STRING) \ {<<>>}
  PROVE  BestOf(best, offered, Preferred(best, offered))
<1> DEFINE S == Range(offered)
           some == Filter(offered, {best})
<1>1. offered \in Seq(S) /\ Len(offered) \in Nat \ {0} /\ DOMAIN offered = 1 .. Len(offered)
  <2>1. offered \in Seq(Range(offered))
    BY SeqOwnRange
  <2>2. QED
    BY <2>1, EmptySeq DEF Range
<1>2. some \in Seq(S \cap {best})
  BY <1>1, FilterTyped
<1>3. best \in S => some # <<>>
  <2> SUFFICES ASSUME best \in S PROVE some # <<>>
    OBVIOUS
  <2>1. PICK n \in 1 .. Len(offered) : offered[n] = best
    BY <1>1 DEF Range
  <2>2. \E j \in 1 .. Len(some) : some[j] = offered[n]
    <3>1. offered[n] \in {best}
      BY <2>1
    <3> HIDE DEF S
    <3>2. QED
      BY <1>1, <3>1, FilterMembers, Zenon
  <2> HIDE DEF some
  <2>3. QED
    BY <2>2
<1>4. some # <<>> => some[1] = best /\ best \in S
  <2> DEFINE T == S \cap {best}
  <2>1. some \in Seq(T)
    BY <1>2
  <2> HIDE DEF some, T
  <2>2. some # <<>> => some[1] \in T
    BY <2>1
  <2>3. QED
    BY <2>2 DEF T
<1>5. offered[1] \in S
  BY <1>1 DEF Range
<1>6. QED
  BY <1>3, <1>4, <1>5 DEF BestOf, Preferred

\* The selectors choose the best.
LEMMA SelectionsBest ==
  ASSUME NEW formats \in Seq(STRING) \ {<<>>}, NEW modes \in Seq(STRING) \ {<<>>}
  PROVE  /\ BestOf("perfect", formats, SelectFormat(formats))
         /\ BestOf("mailbox", modes, SelectPresentMode(modes))
<1> DEFINE perfect == Filter(formats, {"perfect"})
           mailbox == Filter(modes, {"mailbox"})
<1>1. perfect \in Seq(STRING) /\ mailbox \in Seq(STRING)
  <2>1. perfect \in Seq(STRING \cap {"perfect"}) /\ mailbox \in Seq(STRING \cap {"mailbox"})
    BY FilterTyped
  <2> HIDE DEF perfect, mailbox
  <2>2. QED
    BY <2>1
<1>2. /\ SelectFormat(formats) = Flatten(<<perfect, formats, formats>>)[1]
      /\ SelectPresentMode(modes) = Flatten(<<mailbox, modes>>)[1]
  BY DEF SelectFormat, SelectPresentMode, FormatFor, PresentModeFor
<1> HIDE DEF perfect, mailbox
<1>3. Flatten(<<perfect, formats, formats>>)[1] = IF perfect = <<>> THEN formats[1] ELSE perfect[1]
  <2> DEFINE seqs == <<perfect, formats, formats>>
  <2>1. seqs \in Seq(Seq(STRING)) /\ Len(seqs) = 3 /\ seqs[1] = perfect /\ seqs[2] = formats
    BY <1>1
  <2> HIDE DEF seqs
  <2>2. Flatten(seqs)[1] = IF seqs[1] = <<>> THEN seqs[2][1] ELSE seqs[1][1]
    BY <2>1, FlattenFirst
  <2>3. QED
    BY <2>1, <2>2 DEF seqs
<1>4. Flatten(<<mailbox, modes>>)[1] = IF mailbox = <<>> THEN modes[1] ELSE mailbox[1]
  <2> DEFINE seqs == <<mailbox, modes>>
  <2>1. seqs \in Seq(Seq(STRING)) /\ Len(seqs) = 2 /\ seqs[1] = mailbox /\ seqs[2] = modes
    BY <1>1
  <2> HIDE DEF seqs
  <2>2. Flatten(seqs)[1] = IF seqs[1] = <<>> THEN seqs[2][1] ELSE seqs[1][1]
    BY <2>1, FlattenFirst, Zenon
  <2>3. QED
    BY <2>1, <2>2 DEF seqs
<1>5. BestOf("perfect", formats, SelectFormat(formats))
  <2>1. BestOf("perfect", formats, Preferred("perfect", formats))
    BY PreferredFirst
  <2>2. SelectFormat(formats) = Preferred("perfect", formats)
    BY <1>2, <1>3 DEF perfect, Preferred
  <2>3. QED
    BY <2>1, <2>2, Zenon
<1>6. BestOf("mailbox", modes, SelectPresentMode(modes))
  <2>1. BestOf("mailbox", modes, Preferred("mailbox", modes))
    BY PreferredFirst
  <2>2. SelectPresentMode(modes) = Preferred("mailbox", modes)
    BY <1>2, <1>4 DEF mailbox, Preferred
  <2>3. QED
    BY <2>1, <2>2, Zenon
<1>7. QED
  BY <1>5, <1>6

\* To satisfy the filters is to be usable: Present, which Device adds to the
\* families, is not required.
LEMMA FiltersMean ==
  ASSUME NEW dev, NEW headless
  PROVE  /\ \A i \in DOMAIN dev.families :
              TypeRequirements \subseteq QueueFamilies(dev, headless)[i] <=> TypeRequirements \subseteq dev.families[i]
         /\ Satisfies(dev, headless) <=>
              /\ RequiredExtensions(headless) \subseteq dev.extensions
              /\ \E i \in DOMAIN dev.families : TypeRequirements \subseteq dev.families[i]
<1>1. ASSUME NEW i \in DOMAIN dev.families
      PROVE  TypeRequirements \subseteq QueueFamilies(dev, headless)[i] <=> TypeRequirements \subseteq dev.families[i]
  BY DEF TypeRequirements, QueueFamilies
<1>2. QED
  BY <1>1 DEF Satisfies, SatisfiesQueueFamily, SatisfiesExtensions

\* Where a queue that draws and copies also presents, a family that the
\* constructor takes is one that it needs.
LEMMA DrawersSuit ==
  ASSUME NEW machine0, NEW headless, DrawersPresent(machine0, headless), NEW k \in DOMAIN machine0,
         RequiredExtensions(headless) \subseteq machine0[k].extensions,
         NEW i \in DOMAIN machine0[k].families
  PROVE  TypeRequirements \subseteq machine0[k].families[i] <=>
           QueueNeeds(headless) \subseteq QueueFamilies(machine0[k], headless)[i]
<1> DEFINE fams == machine0[k].families
           own == QueueFamilies(machine0[k], headless)[i]
<1>1. own = fams[i] \cup (IF ~headless /\ i \in machine0[k].presents THEN {"Present"} ELSE {})
  BY Zenon DEF QueueFamilies
<1>2. TypeRequirements \subseteq fams[i] => headless \/ i \in machine0[k].presents
  BY Zenon DEF DrawersPresent
<1> HIDE DEF fams, own
<1>3. TypeRequirements \subseteq fams[i] <=> QueueNeeds(headless) \subseteq own
  BY <1>1, <1>2 DEF QueueNeeds, TypeRequirements
<1>4. QED
  BY <1>3 DEF fams, own

\* The constructor chooses a device that has the extensions, and where the
\* queues that draw also present it is the first usable one with one of its
\* families.
LEMMA ChoiceSuitable ==
  ASSUME machine \in Machines, NEW headless, FilterAll(machine, headless) # {}
  PROVE  /\ DrawersPresent(machine, headless) =>
              SuitableChoice(machine, headless, ChosenDevice(machine, headless),
                             ChosenFamily(ChosenDevice(machine, headless), headless))
         /\ \E k \in DOMAIN machine : ChosenDevice(machine, headless) = machine[k]
         /\ RequiredExtensions(headless) \subseteq ChosenDevice(machine, headless).extensions
<1> DEFINE T == FilterAll(machine, headless)
           k == Min(T)
           dev == ChosenDevice(machine, headless)
           F == {i \in DOMAIN dev.families : TypeRequirements \subseteq QueueFamilies(dev, headless)[i]}
           fam == Max(F)
           Fit(d) == /\ RequiredExtensions(headless) \subseteq d.extensions
                     /\ \E i \in DOMAIN d.families : TypeRequirements \subseteq d.families[i]
           Suits(d, i) == QueueNeeds(headless) \subseteq QueueFamilies(d, headless)[i]
           Usable(d) == /\ RequiredExtensions(headless) \subseteq d.extensions
                        /\ \E i \in DOMAIN d.families : Suits(d, i)
<1>1. machine \in Seq(Range(machine)) /\ DOMAIN machine = 1 .. Len(machine) /\ Len(machine) \in Nat
  <2>1. machine \in Seq(Range(machine))
    BY MachinesAssumption
  <2>2. QED
    BY <2>1, LenProperties
<1>2. T = {j \in DOMAIN machine : Fit(machine[j])}
  BY FiltersMean DEF FilterAll
<1>3. k \in T /\ \A j \in T : k <= j
  <2>1. T \subseteq Nat
    BY <1>1, <1>2
  <2> HIDE DEF T
  <2>2. QED
    BY <2>1, LeastExists DEF T
<1>4. dev = machine[k]
  BY DEF ChosenDevice
<1> HIDE DEF T, dev
<1>5. k \in DOMAIN machine /\ Fit(dev)
  BY <1>2, <1>3, <1>4, Zenon
<1>6. \A j \in 1 .. k - 1 : j \in DOMAIN machine /\ ~Fit(machine[j])
  <2> HIDE DEF k, Fit
  <2>1. QED
    BY <1>1, <1>2, <1>3
<1>7. fam \in F
  <2>1. dev.families \in Seq(Range(dev.families))
    BY <1>4, <1>5, MachinesAssumption
  <2>2. DOMAIN dev.families = 1 .. Len(dev.families) /\ Len(dev.families) \in Nat
    BY <2>1, LenProperties
  <2>3. F \subseteq 0 .. Len(dev.families)
    BY <2>2
  <2>4. F # {}
    BY <1>5, FiltersMean
  <2> HIDE DEF F
  <2>5. QED
    BY <2>2, <2>3, <2>4, GreatestExists, Zenon
<1>8. fam \in DOMAIN dev.families /\ TypeRequirements \subseteq dev.families[fam]
  <2> HIDE DEF fam
  <2>1. QED
    BY <1>7, FiltersMean
<1>9. fam = ChosenFamily(dev, headless)
  BY DEF ChosenFamily
<1> HIDE DEF fam, k
<1>10. ASSUME DrawersPresent(machine, headless) PROVE SuitableChoice(machine, headless, dev, fam)
  <2> HIDE DEF Suits
  <2>1. ASSUME NEW j \in DOMAIN machine, RequiredExtensions(headless) \subseteq machine[j].extensions,
               NEW i \in DOMAIN machine[j].families
        PROVE  TypeRequirements \subseteq machine[j].families[i] <=> Suits(machine[j], i)
    BY <1>10, <2>1, DrawersSuit DEF Suits
  <2>2. \A j \in DOMAIN machine : Fit(machine[j]) <=> Usable(machine[j])
    BY <2>1, Zenon
  <2>3. Usable(dev) /\ \A j \in 1 .. k - 1 : ~Usable(machine[j])
    <3> HIDE DEF Fit, Usable
    <3>1. QED
      BY <1>4, <1>5, <1>6, <2>2, Zenon
  <2>4. fam \in DOMAIN dev.families /\ Suits(dev, fam)
    BY <1>4, <1>5, <1>8, <2>1, Zenon
  <2>5. QED
    BY <1>4, <1>5, <2>3, <2>4, Zenon DEF SuitableChoice, Suits
<1>11. QED
  BY <1>4, <1>5, <1>9, <1>10 DEF dev

\* What a device was made of: the choice above and a swapchain, also after
\* every resize, with the formats and the mode of the selectors.  Only a
\* window has calls of callbacks, and the device is then not headless.
ChoiceInv ==
  /\ calls # <<>> => at = "running" /\ surf
  /\ device # 0 /\ DrawersPresent(machine, IsHeadless) => SuitableChoice(machine, IsHeadless, chosen[1], chosen[2])
  /\ device # 0 /\ surf =>
       /\ {chosen[1].formats, chosen[1].modes} \subseteq Seq(STRING) \ {<<>>}
       /\ swapchain.format = SelectFormat(chosen[1].formats)
       /\ swapchain.mode = SelectPresentMode(chosen[1].modes)

\* The properties of a swapchain that was selected.
LEMMA SwapchainSelected ==
  ASSUME NEW dev, NEW id, NEW s \in SwapchainsOf(dev, id)
  PROVE  s.format = SelectFormat(dev.formats) /\ s.mode = SelectPresentMode(dev.modes)
  BY SMTT(20) DEF SwapchainsOf

\* ChoiceInv holds in every state.
LEMMA ChoiceInvariant == Spec => []ChoiceInv
<1>1. Init => ChoiceInv
  BY DEF Init, ChoiceInv
<1>2. WindowInv /\ LifeInv /\ ChoiceInv /\ [Next]_vars => ChoiceInv'
  <2> SUFFICES ASSUME WindowInv, LifeInv, ChoiceInv, [Next]_vars PROVE ChoiceInv'
    OBVIOUS
  <2> DEFINE Others == <<machine, device, chosen, swapchain, surf, at>>
  <2>1. CASE UNCHANGED Others /\ (calls' = calls \/ (at = "running" /\ surf))
    BY <2>1 DEF ChoiceInv, IsHeadless
  <2>2. ASSUME NEW t \in AppTypes, Initialise(t), UNCHANGED <<device, calls>> PROVE ChoiceInv'
    BY <2>2 DEF WindowInv, ChoiceInv, Initialise
  <2>3. CASE LibraryStep /\ UNCHANGED <<device, calls>>
    <3>1. at # "running"
      BY <2>3 DEF LibraryStep, CreateInstance, CreateSurface, DeleteInstance, DeleteWindow, TerminateGlfw, LibraryGoto
    <3>2. device = 0 /\ device' = 0 /\ calls = <<>> /\ calls' = <<>>
      BY <2>3, <3>1, Zenon DEF WindowInv, ChoiceInv
    <3>3. QED
      BY <3>2, Zenon DEF ChoiceInv
  <2>4. CASE CreateDevice
    <3> DEFINE dev == ChosenDevice(machine, IsHeadless)
               fam == ChosenFamily(dev, IsHeadless)
    <3>1. /\ UNCHANGED <<machine, calls, surf, at>> /\ machine \in Machines /\ FilterAll(machine, IsHeadless) # {}
          /\ chosen' = <<dev, fam>>
          /\ surf => swapchain' \in SwapchainsOf(dev, swapchain.id + 1)
      BY <2>4, SMTT(30) DEF CreateDevice, WindowInv, libraryVars, IsHeadless
    <3>2. /\ DrawersPresent(machine, IsHeadless) => SuitableChoice(machine, IsHeadless, dev, fam)
          /\ \E k \in DOMAIN machine : dev = machine[k]
          /\ RequiredExtensions(IsHeadless) \subseteq dev.extensions
      BY <3>1, ChoiceSuitable
    <3> HIDE DEF dev, fam
    <3>3. ASSUME surf
          PROVE  /\ {dev.formats, dev.modes} \subseteq Seq(STRING) \ {<<>>}
                 /\ swapchain'.format = SelectFormat(dev.formats)
                 /\ swapchain'.mode = SelectPresentMode(dev.modes)
      <4>1. "VK_KHR_swapchain" \in dev.extensions
        BY <3>2, <3>3 DEF RequiredExtensions, IsHeadless
      <4>2. QED
        BY <3>1, <3>2, <3>3, <4>1, MachinesAssumption, SwapchainSelected
    <3>4. chosen'[1] = dev /\ chosen'[2] = fam /\ IsHeadless' = IsHeadless
      BY <3>1 DEF IsHeadless
    <3>5. QED
      BY <3>1, <3>2, <3>3, <3>4, Zenon DEF ChoiceInv
  <2>5. CASE DestroyDevice
    BY <2>5 DEF ChoiceInv, DestroyDevice, libraryVars
  <2>6. ASSUME NEW pass \in Passes, NEW resources \in BOOLEAN, CreateRenderer(pass, resources) PROVE UNCHANGED Others /\ calls' = calls
    BY <2>6 DEF CreateRenderer, libraryVars
  <2>7. ASSUME NEW k \in DOMAIN renderers, DestroyRenderer(k) PROVE UNCHANGED Others /\ calls' = calls
    BY <2>7 DEF DestroyRenderer, libraryVars
  <2>8. ASSUME NEW s \in Sizes, SizeChange(s) PROVE UNCHANGED Others /\ calls' = calls
    BY <2>8 DEF SizeChange, libraryVars, objectVars
  <2>9. CASE Update
    BY <2>1, <2>9 DEF Update, AppRuns, LifeInv, libraryVars, objectVars
  <2>10. CASE Dispatch \/ Pumped \/ ReadSize \/ Wait
    <3>1. calls # <<>>
      BY <2>10 DEF Dispatch, Pumped, ReadSize, Wait, InnermostAt
    <3>2. UNCHANGED Others
      BY <2>10 DEF Dispatch, Pumped, ReadSize, Wait, libraryVars, objectVars
    <3>3. QED
      BY <2>1, <3>1, <3>2 DEF ChoiceInv
  <2>11. CASE Resize
    <3>1. UNCHANGED <<machine, device, chosen, surf, at>> /\ calls # <<>>
      BY <2>11 DEF Resize, InnermostAt, libraryVars
    <3>2. swapchain' = swapchain \/ swapchain' \in SwapchainsOf(chosen[1], swapchain.id + 1)
      BY <2>11, ResizeSteps
    <3>3. CASE swapchain' = swapchain
      BY <2>1, <3>1, <3>3 DEF ChoiceInv
    <3>4. CASE swapchain' \in SwapchainsOf(chosen[1], swapchain.id + 1)
      BY <3>1, <3>4, SwapchainSelected DEF ChoiceInv, IsHeadless
    <3>5. QED
      BY <3>2, <3>3, <3>4
  <2>12. ASSUME Wake PROVE UNCHANGED Others /\ calls' = calls
    BY <2>12 DEF Wake, libraryVars, objectVars
  <2>13. CASE Terminate
    BY <2>13 DEF ChoiceInv, Terminate, objectVars
  <2>14. ASSUME UNCHANGED vars PROVE UNCHANGED Others /\ calls' = calls
    BY <2>14 DEF vars, libraryVars, objectVars
  <2>15. CASE \/ \E pass \in Passes, resources \in BOOLEAN : CreateRenderer(pass, resources)
              \/ \E k \in DOMAIN renderers : DestroyRenderer(k)
              \/ \E s \in Sizes : SizeChange(s)
              \/ Wake
              \/ UNCHANGED vars
    <3>1. UNCHANGED Others /\ calls' = calls
      BY <2>6, <2>7, <2>8, <2>12, <2>14, <2>15
    <3>2. QED
      BY <3>1 DEF ChoiceInv, IsHeadless
  <2>16. CASE CallStep
    BY <2>10, <2>11, <2>16, SMTT(30) DEF CallStep
  <2>17. QED
    BY <2>2, <2>3, <2>4, <2>5, <2>9, <2>13, <2>15, <2>16 DEF Next, objectVars
<1>3. QED
  BY <1>1, <1>2, LifeInvariant, WindowInvariant, PTL DEF Spec

\* On every machine whose drawing queues present the device is the first that
\* will do, with a queue that can draw, copy and, with a window, present; and
\* on every machine its swapchains have the best format and mode
\* (DeviceVulkan::DeviceVulkan).
THEOREM ChoiceCorrect == Spec => []ChoosesSuitably
<1>1. ChoiceInv => ChoosesSuitably
  <2> SUFFICES ASSUME ChoiceInv, device # 0 
               PROVE  /\ DrawersPresent(machine, IsHeadless) =>
                           SuitableChoice(machine, IsHeadless, chosen[1], chosen[2])
                      /\ ~IsHeadless => BestOf("perfect", chosen[1].formats, swapchain.format)
                      /\ ~IsHeadless => BestOf("mailbox", chosen[1].modes, swapchain.mode)
    BY DEF ChoosesSuitably
  <2>1. DrawersPresent(machine, IsHeadless) => SuitableChoice(machine, IsHeadless, chosen[1], chosen[2])
    BY DEF ChoiceInv
  <2>2. ASSUME ~IsHeadless
        PROVE  /\ BestOf("perfect", chosen[1].formats, swapchain.format)
               /\ BestOf("mailbox", chosen[1].modes, swapchain.mode)
    BY <2>2, SelectionsBest DEF ChoiceInv, IsHeadless
  <2>3. QED
    BY <2>1, <2>2
<1>2. QED
  BY <1>1, ChoiceInvariant, PTL

-----------------------------------------------------------------------------
(* Render passes. *)

Colour == default_colour_attachment
DepthOnly == default_depth_attachment
Shown(format, headless) == [format |-> format, final |-> IF headless THEN "TransferSource" ELSE "Present"]
SubpassOf(attachments) == [attachments |-> attachments, offset |-> 0]

\* The builder that make_simple_render_pass fills.
LEMMA ParentMade ==
  ASSUME NEW pass
  PROVE  AddPass(<<>>, pass) = <<SubpassOf(PassAttachments(pass))>>
<1>1. [k \in DOMAIN <<>> |-> <<>>[k].attachments] = <<>>
  OBVIOUS
<1>2. <<>> \in Seq({})
  OBVIOUS
<1>3. BuilderAttachments(<<>>) = <<>>
  <2>1. Flatten(<<>>) = <<>>
    BY <1>2, FlattenFew, Zenon
  <2>2. QED
    BY <1>1, <2>1, Zenon DEF BuilderAttachments
<1>4. AddPass(<<>>, pass) = Append(<<>>, SubpassOf(PassAttachments(pass)))
  <2>1. Len(<<>>) = 0
    OBVIOUS
  <2>2. QED
    BY <1>3, <2>1, Zenon DEF AddPass, SubpassOf
<1>5. ASSUME NEW e PROVE Append(<<>>, e) = <<e>>
  OBVIOUS
<1>6. QED
  BY <1>4, <1>5

\* A builder with one subpass has its attachments.
LEMMA OneSubpass ==
  ASSUME NEW S, NEW attachments \in Seq(S)
  PROVE  BuilderAttachments(<<SubpassOf(attachments)>>) = attachments
<1> DEFINE builder == <<SubpassOf(attachments)>>
           F == [k \in DOMAIN builder |-> builder[k].attachments]
<1>1. DOMAIN builder = 1 .. 1 /\ builder[1] = SubpassOf(attachments)
  OBVIOUS
<1>2. SubpassOf(attachments).attachments = attachments
  BY DEF SubpassOf
<1>3. DOMAIN F = 1 .. 1 /\ F[1] = attachments
  BY <1>1, <1>2
<1>4. F = <<attachments>>
  BY <1>3
<1>5. BuilderAttachments(builder) = Flatten(F)
  BY DEF BuilderAttachments
<1> HIDE DEF builder, F
<1>6. Flatten(<<attachments>>) = attachments
  BY FlattenFew, Zenon
<1>7. QED
  BY <1>4, <1>5, <1>6 DEF builder

\* vk_finalise gives a colour attachment its format and makes the last one
\* ready for the screen or for a copy.
LEMMA FinalisedPasses ==
  ASSUME NEW format, NEW headless
  PROVE  /\ Finalised(<<SubpassOf(<<Colour>>)>>, format, headless) = <<SubpassOf(<<Shown(format, headless)>>)>>
         /\ Finalised(<<SubpassOf(<<Colour, DepthOnly>>)>>, format, headless)
              = <<SubpassOf(<<Shown(format, headless), DepthOnly>>)>>
<1>1. Finalised(<<SubpassOf(<<Colour>>)>>, format, headless) = <<SubpassOf(<<Shown(format, headless)>>)>>
  <2> DEFINE builder == <<SubpassOf(<<Colour>>)>>
  <2>1. /\ DOMAIN builder = 1 .. 1 /\ builder[1] = SubpassOf(<<Colour>>)
        /\ builder[1].attachments = <<Colour>> /\ Colour.format = "Undefined"
    BY DEF SubpassOf, Colour, default_colour_attachment
  <2>2. IsLastColour(builder, 1, 1)
    BY <2>1 DEF IsLastColour
  <2> HIDE DEF builder
  <2>3. DOMAIN Finalised(builder, format, headless) = 1 .. 1
    BY <2>1 DEF Finalised
  <2>4. Finalised(builder, format, headless)[1] = SubpassOf(<<Shown(format, headless)>>)
    BY <2>1, <2>2 DEF Finalised, SubpassOf, Shown
  <2>5. QED
    BY <2>3, <2>4 DEF builder, Finalised
<1>2. Finalised(<<SubpassOf(<<Colour, DepthOnly>>)>>, format, headless)
        = <<SubpassOf(<<Shown(format, headless), DepthOnly>>)>>
  <2> DEFINE builder == <<SubpassOf(<<Colour, DepthOnly>>)>>
  <2>1. /\ DOMAIN builder = 1 .. 1 /\ builder[1] = SubpassOf(<<Colour, DepthOnly>>)
        /\ builder[1].attachments = <<Colour, DepthOnly>> /\ Colour.format = "Undefined"
        /\ DepthOnly.format = "DepthFloat32"
    BY DEF SubpassOf, Colour, default_colour_attachment, DepthOnly, default_depth_attachment
  <2>2. IsLastColour(builder, 1, 1) /\ ~IsLastColour(builder, 1, 2)
    BY <2>1, SMTT(20) DEF IsLastColour
  <2> HIDE DEF builder
  <2>3. DOMAIN Finalised(builder, format, headless) = 1 .. 1
    BY <2>1 DEF Finalised
  <2>4. Finalised(builder, format, headless)[1] = SubpassOf(<<Shown(format, headless), DepthOnly>>)
    <3> DEFINE old == builder[1].attachments
               new == [i \in DOMAIN old |->
                         [format |-> IF old[i].format = "Undefined" THEN format ELSE old[i].format,
                          final |-> IF ~IsLastColour(builder, 1, i) THEN old[i].final
                                    ELSE IF headless THEN "TransferSource" ELSE "Present"]]
    <3>1. DOMAIN old = 1 .. 2 /\ old[1] = Colour /\ old[2] = DepthOnly
      BY <2>1
    <3>2. new[1] = Shown(format, headless)
      <4>1. 1 \in DOMAIN old /\ old[1].format = "Undefined" /\ IsLastColour(builder, 1, 1)
        BY <2>1, <2>2, <3>1
      <4> HIDE DEF old
      <4>2. new[1] = [format |-> format, final |-> IF headless THEN "TransferSource" ELSE "Present"]
        BY <4>1, Zenon
      <4>3. QED
        BY <4>2, Zenon DEF Shown
    <3>3. new[2] = DepthOnly
      <4>1. 2 \in DOMAIN old /\ old[2].format # "Undefined" /\ ~IsLastColour(builder, 1, 2)
        BY <2>1, <2>2, <3>1
      <4>2. DepthOnly = [format |-> old[2].format, final |-> old[2].final]
        BY <3>1 DEF DepthOnly, default_depth_attachment
      <4> HIDE DEF old
      <4>3. new[2] = [format |-> old[2].format, final |-> old[2].final]
        BY <4>1, Zenon
      <4>4. QED
        BY <4>2, <4>3, Zenon
    <3>4. new = <<Shown(format, headless), DepthOnly>>
      <4>1. DOMAIN new = 1 .. 2 /\ new = [i \in DOMAIN new |-> new[i]]
        BY <3>1
      <4> HIDE DEF new
      <4>2. QED
        BY <3>2, <3>3, <4>1
    <3>5. Finalised(builder, format, headless)[1] = [builder[1] EXCEPT !.attachments = new]
      <4>1. 1 \in DOMAIN builder
        BY <2>1
      <4>2. QED
        BY <4>1, Zenon DEF Finalised
    <3> HIDE DEF old, new
    <3>6. [builder[1] EXCEPT !.attachments = new] = SubpassOf(new)
      BY <2>1 DEF SubpassOf
    <3>7. QED
      BY <3>4, <3>5, <3>6
  <2>5. QED
    BY <2>3, <2>4 DEF builder, Finalised
<1>3. QED
  BY <1>1, <1>2

ColourFinals == {"Present", "TransferSource", "ColourAttachment"}
DepthFinals == {"DepthAttachment"}
Used(all, finals) == Filter(all, { a \in Range(all) : a.final \in finals })

\* The attachments that a subpass uses for colour and for depth.
LEMMA UsedFacts ==
  /\ Used(<<Colour>>, ColourFinals) = <<Colour>>
  /\ Used(<<Colour>>, DepthFinals) = <<>>
  /\ Used(<<Colour, DepthOnly>>, ColourFinals) = <<Colour>>
  /\ Used(<<Colour, DepthOnly>>, DepthFinals) = <<DepthOnly>>
<1> DEFINE W(all, finals) == { a \in Range(all) : a.final \in finals }
<1>1. /\ Range(<<Colour>>) = {Colour} /\ Range(<<Colour, DepthOnly>>) = {Colour, DepthOnly}
      /\ Colour.final = "ColourAttachment" /\ DepthOnly.final = "DepthAttachment"
  BY DEF Range, Colour, DepthOnly, default_colour_attachment, default_depth_attachment
<1>2. /\ Colour \in W(<<Colour>>, ColourFinals) /\ Colour \notin W(<<Colour>>, DepthFinals)
      /\ Colour \in W(<<Colour, DepthOnly>>, ColourFinals) /\ Colour \notin W(<<Colour, DepthOnly>>, DepthFinals)
      /\ DepthOnly \notin W(<<Colour, DepthOnly>>, ColourFinals) /\ DepthOnly \in W(<<Colour, DepthOnly>>, DepthFinals)
  BY <1>1 DEF ColourFinals, DepthFinals
<1>3. \A all, finals : Used(all, finals) = Filter(all, W(all, finals))
  BY DEF Used
<1> HIDE DEF W
<1>4. /\ Used(<<Colour>>, ColourFinals) = Kept(Colour, W(<<Colour>>, ColourFinals))
      /\ Used(<<Colour>>, DepthFinals) = Kept(Colour, W(<<Colour>>, DepthFinals))
  BY <1>3, FilterOne
<1>5. /\ Used(<<Colour, DepthOnly>>, ColourFinals)
           = Kept(Colour, W(<<Colour, DepthOnly>>, ColourFinals)) \o Kept(DepthOnly, W(<<Colour, DepthOnly>>, ColourFinals))
      /\ Used(<<Colour, DepthOnly>>, DepthFinals)
           = Kept(Colour, W(<<Colour, DepthOnly>>, DepthFinals)) \o Kept(DepthOnly, W(<<Colour, DepthOnly>>, DepthFinals))
  <2>1. ASSUME NEW wanted PROVE Filter(<<Colour, DepthOnly>>, wanted) = Kept(Colour, wanted) \o Kept(DepthOnly, wanted)
    BY FilterTwo, Zenon
  <2>2. QED
    BY <1>3, <2>1, Zenon
<1>6. \A a : <<a>> \o <<>> = <<a>> /\ <<>> \o <<a>> = <<a>>
  OBVIOUS
<1>7. QED
  <2>1. \A e, wanted : (e \in wanted => Kept(e, wanted) = <<e>>) /\ (e \notin wanted => Kept(e, wanted) = <<>>)
    BY DEF Kept
  <2>2. QED
    BY <1>2, <1>4, <1>5, <1>6, <2>1, Zenon

\* Where an attachment is first found.
LEMMA FirstOfTwo ==
  ASSUME NEW a, NEW b, a # b
  PROVE  /\ FirstIndex(<<a>>, a) = 1
         /\ FirstIndex(<<a, b>>, a) = 1
         /\ FirstIndex(<<a, b>>, b) = 2
<1>1. /\ {i \in DOMAIN <<a>> : <<a>>[i] = a} = {1}
      /\ {i \in DOMAIN <<a, b>> : <<a, b>>[i] = a} = {1}
      /\ {i \in DOMAIN <<a, b>> : <<a, b>>[i] = b} = {2}
  <2>1. DOMAIN <<a>> = 1 .. 1 /\ <<a>>[1] = a
    OBVIOUS
  <2>2. DOMAIN <<a, b>> = 1 .. 2 /\ <<a, b>>[1] = a /\ <<a, b>>[2] = b
    OBVIOUS
  <2>3. QED
    BY <2>1, <2>2
<1>2. Min({1}) \in {1} /\ Min({2}) \in {2}
  <2>1. {1} \subseteq Nat /\ {2} \subseteq Nat /\ {1} # {} /\ {2} # {}
    OBVIOUS
  <2>2. QED
    BY <2>1, LeastExists
<1>3. QED
  BY <1>1, <1>2 DEF FirstIndex

\* get_attachment_id: the colour attachment is no longer what it was when the
\* subpass was added, and is found in the builder that was not finalised; the
\* depth attachment is found in the subpass.
LEMMA AttachmentIds ==
  ASSUME NEW format, NEW headless
  PROVE  /\ AttachmentId(SubpassOf(<<Shown(format, headless)>>), <<SubpassOf(<<Colour>>)>>, Colour) = 1
         /\ AttachmentId(SubpassOf(<<Shown(format, headless), DepthOnly>>), <<SubpassOf(<<Colour, DepthOnly>>)>>, Colour) = 1
         /\ AttachmentId(SubpassOf(<<Shown(format, headless), DepthOnly>>), <<SubpassOf(<<Colour, DepthOnly>>)>>, DepthOnly) = 2
<1> DEFINE shown == Shown(format, headless)
<1>1. shown # Colour /\ shown # DepthOnly /\ Colour # DepthOnly
  BY DEF Shown, Colour, DepthOnly, default_colour_attachment, default_depth_attachment
<1> HIDE DEF shown
<1>2. Range(<<shown>>) = {shown} /\ Range(<<shown, DepthOnly>>) = {shown, DepthOnly}
  BY DEF Range
<1>3. \A s : SubpassOf(s).attachments = s /\ SubpassOf(s).offset = 0
  BY DEF SubpassOf
<1>4. /\ BuilderAttachments(<<SubpassOf(<<Colour>>)>>) = <<Colour>>
      /\ BuilderAttachments(<<SubpassOf(<<Colour, DepthOnly>>)>>) = <<Colour, DepthOnly>>
  <2>1. <<Colour>> \in Seq({Colour, DepthOnly}) /\ <<Colour, DepthOnly>> \in Seq({Colour, DepthOnly})
    OBVIOUS
  <2>2. QED
    BY <2>1, OneSubpass, Zenon
<1>5. /\ FirstIndex(<<Colour>>, Colour) = 1
      /\ FirstIndex(<<Colour, DepthOnly>>, Colour) = 1
      /\ FirstIndex(<<shown, DepthOnly>>, DepthOnly) = 2
  BY <1>1, FirstOfTwo, Zenon
<1>6. AttachmentId(SubpassOf(<<shown>>), <<SubpassOf(<<Colour>>)>>, Colour) = 1
  BY <1>1, <1>2, <1>3, <1>4, <1>5, Zenon DEF AttachmentId
<1>7. AttachmentId(SubpassOf(<<shown, DepthOnly>>), <<SubpassOf(<<Colour, DepthOnly>>)>>, Colour) = 1
  BY <1>1, <1>2, <1>3, <1>4, <1>5, Zenon DEF AttachmentId
<1>8. AttachmentId(SubpassOf(<<shown, DepthOnly>>), <<SubpassOf(<<Colour, DepthOnly>>)>>, DepthOnly) = 2
  <2>1. AttachmentId(SubpassOf(<<shown, DepthOnly>>), <<SubpassOf(<<Colour, DepthOnly>>)>>, DepthOnly) = 0 + 2
    BY <1>2, <1>3, <1>5, Zenon DEF AttachmentId
  <2>2. QED
    BY <2>1
<1>9. QED
  BY <1>6, <1>7, <1>8 DEF shown

\* What vk_create_render_pass makes.
LEMMA PassMade ==
  ASSUME NEW format, NEW headless
  PROVE  /\ MakeRenderPass("Colour", format, headless) =
              [attachments |-> <<Shown(format, headless)>>, subpasses |-> <<[colours |-> <<1>>, depth |-> <<>>]>>]
         /\ MakeRenderPass("ColourDepth", format, headless) =
              [attachments |-> <<Shown(format, headless), DepthOnly>>,
               subpasses |-> <<[colours |-> <<1>>, depth |-> <<2>>]>>]
<1> DEFINE Id(sub, parent, used) == [k \in DOMAIN used |-> AttachmentId(sub, parent, used[k])]
           Desc(sub, parent) == [colours |-> Id(sub, parent, Used(BuilderAttachments(parent), ColourFinals)),
                                 depth |-> Id(sub, parent, Used(BuilderAttachments(parent), DepthFinals))]
           shown == Shown(format, headless)
<1>1. ASSUME NEW sub, NEW parent PROVE Describe(sub, parent) = Desc(sub, parent)
  BY DEF Describe, Used, ColourFinals, DepthFinals
<1>2. ASSUME NEW sub, NEW parent, NEW a PROVE Id(sub, parent, <<a>>) = <<AttachmentId(sub, parent, a)>>
  OBVIOUS
<1>3. ASSUME NEW sub, NEW parent PROVE Id(sub, parent, <<>>) = <<>>
  BY SMTT(30)
<1> HIDE DEF Id
<1>4. ASSUME NEW old, NEW new, NEW S, new \in Seq(S), NEW pass, PassAttachments(pass) = old,
             Finalised(<<SubpassOf(old)>>, format, headless) = <<SubpassOf(new)>>
      PROVE  MakeRenderPass(pass, format, headless) =
               [attachments |-> new, subpasses |-> <<Desc(SubpassOf(new), <<SubpassOf(old)>>)>>]
  <2> DEFINE parent == <<SubpassOf(old)>>
             builder == <<SubpassOf(new)>>
             D == [k \in DOMAIN builder |-> Describe(builder[k], parent)]
  <2>1. AddPass(<<>>, pass) = parent /\ Finalised(parent, format, headless) = builder
    BY <1>4, ParentMade
  <2>2. BuilderAttachments(builder) = new
    BY <1>4, OneSubpass
  <2>3. DOMAIN builder = 1 .. 1 /\ builder[1] = SubpassOf(new)
    OBVIOUS
  <2>4. MakeRenderPass(pass, format, headless) = [attachments |-> new, subpasses |-> D]
    BY <2>1, <2>2 DEF MakeRenderPass
  <2> HIDE DEF parent, builder
  <2>5. D = <<Describe(SubpassOf(new), parent)>>
    BY <2>3, SMTT(30)
  <2>6. QED
    BY <1>1, <2>4, <2>5, Zenon DEF parent
<1>5. MakeRenderPass("Colour", format, headless) =
        [attachments |-> <<shown>>, subpasses |-> <<[colours |-> <<1>>, depth |-> <<>>]>>]
  <2> DEFINE old == <<Colour>>
             new == <<shown>>
             sub == SubpassOf(new)
             parent == <<SubpassOf(old)>>
  <2>1. new \in Seq({shown}) /\ old \in Seq({Colour}) /\ PassAttachments("Colour") = old
    BY DEF PassAttachments, Colour
  <2>2. Finalised(parent, format, headless) = <<sub>>
    BY FinalisedPasses, Zenon
  <2>3. BuilderAttachments(parent) = old
    BY <2>1, OneSubpass, Zenon
  <2>4. MakeRenderPass("Colour", format, headless) = [attachments |-> new, subpasses |-> <<Desc(sub, parent)>>]
    BY <1>4, <2>1, <2>2, Zenon
  <2>5. Used(BuilderAttachments(parent), ColourFinals) = <<Colour>> /\ Used(BuilderAttachments(parent), DepthFinals) = <<>>
    BY <2>3, UsedFacts
  <2>6. AttachmentId(sub, parent, Colour) = 1
    BY AttachmentIds, Zenon
  <2> HIDE DEF sub, parent
  <2>7. Desc(sub, parent) = [colours |-> <<1>>, depth |-> <<>>]
    BY <1>2, <1>3, <2>5, <2>6
  <2>8. QED
    BY <2>4, <2>7
<1>6. MakeRenderPass("ColourDepth", format, headless) =
        [attachments |-> <<shown, DepthOnly>>, subpasses |-> <<[colours |-> <<1>>, depth |-> <<2>>]>>]
  <2> DEFINE old == <<Colour, DepthOnly>>
             new == <<shown, DepthOnly>>
             sub == SubpassOf(new)
             parent == <<SubpassOf(old)>>
  <2>1. new \in Seq({shown, DepthOnly}) /\ old \in Seq({Colour, DepthOnly}) /\ PassAttachments("ColourDepth") = old
    BY DEF PassAttachments, Colour, DepthOnly
  <2>2. Finalised(parent, format, headless) = <<sub>>
    BY FinalisedPasses, Zenon
  <2>3. BuilderAttachments(parent) = old
    BY <2>1, OneSubpass, Zenon
  <2>4. MakeRenderPass("ColourDepth", format, headless) = [attachments |-> new, subpasses |-> <<Desc(sub, parent)>>]
    BY <1>4, <2>1, <2>2, Zenon
  <2>5. Used(BuilderAttachments(parent), ColourFinals) = <<Colour>> /\ Used(BuilderAttachments(parent), DepthFinals) = <<DepthOnly>>
    BY <2>3, UsedFacts
  <2>6. AttachmentId(sub, parent, Colour) = 1 /\ AttachmentId(sub, parent, DepthOnly) = 2
    BY AttachmentIds, Zenon
  <2> HIDE DEF sub, parent
  <2>7. Desc(sub, parent) = [colours |-> <<1>>, depth |-> <<2>>]
    BY <1>2, <1>3, <2>5, <2>6, SMTT(20)
  <2>8. QED
    BY <2>4, <2>7
<1>7. QED
  BY <1>5, <1>6

\* What is attached to the framebuffers of a renderer.
ViewsFor(pass, format) == IF pass # "Colour" THEN <<format, "DepthFloat32">> ELSE <<format>>

\* The pass of a renderer and its framebuffers were made of the same format.
Matches(r, format, headless) ==
  /\ r.pass \in Passes
  /\ r.render_pass = MakeRenderPass(r.pass, format, headless)
  /\ r.framebuffers.views = ViewsFor(r.pass, format)

PassInv == device # 0 => \A k \in DOMAIN renderers : Matches(renderers[k], swapchain.format, IsHeadless)

\* handle_resize makes framebuffers anew and keeps the pass.
LEMMA RegeneratedMatches ==
  ASSUME NEW r, NEW s, NEW headless, r.pass \in Passes, r.render_pass = MakeRenderPass(r.pass, s.format, headless)
  PROVE  Matches(Regenerated(r, s), s.format, headless)
  BY DEF Matches, Regenerated, ViewsFor

\* PassInv holds in every state.
LEMMA PassInvariant == Spec => []PassInv
<1>1. Init => PassInv
  BY DEF Init, PassInv
<1>2. WindowInv /\ FollowInv /\ ChoiceInv /\ ChoiceInv' /\ PassInv /\ [Next]_vars => PassInv'
  <2> SUFFICES ASSUME WindowInv, FollowInv, ChoiceInv, ChoiceInv', PassInv, [Next]_vars, device' # 0,
                      NEW k \in DOMAIN renderers'
               PROVE  Matches(renderers[k], swapchain.format, IsHeadless)'
    BY DEF PassInv
  <2> DEFINE Others == <<device, renderers, swapchain, surf>>
  <2>1. CASE UNCHANGED Others
    BY <2>1 DEF PassInv, IsHeadless, Matches
  <2>2. ASSUME NEW t \in AppTypes, Initialise(t), UNCHANGED device PROVE FALSE
    BY <2>2 DEF WindowInv, Initialise
  <2>3. CASE LibraryStep /\ UNCHANGED device
    BY <2>3 DEF WindowInv, LibraryStep, CreateInstance, CreateSurface, DeleteInstance, DeleteWindow, TerminateGlfw, LibraryGoto
  <2>4. CASE CreateDevice \/ DestroyDevice
    BY <2>4 DEF CreateDevice, DestroyDevice
  <2>5. ASSUME NEW pass \in Passes, NEW resources \in BOOLEAN, CreateRenderer(pass, resources)
        PROVE  Matches(renderers[k], swapchain.format, IsHeadless)'
    <3> DEFINE n == NewRenderer(pass, resources)
               r == Regenerated(n, swapchain)
    <3>1. renderers' = Append(renderers, r) /\ UNCHANGED <<device, swapchain, surf>>
      BY <2>5 DEF CreateRenderer, libraryVars
    <3>2. n.pass = pass /\ n.render_pass = MakeRenderPass(n.pass, swapchain.format, IsHeadless)
      BY DEF NewRenderer
    <3>3. Matches(r, swapchain.format, IsHeadless)
      BY <3>2, RegeneratedMatches
    <3> HIDE DEF r
    <3>4. renderers \in Seq(Range(renderers))
      BY DEF FollowInv
    <3>5. renderers'[k] = r \/ (k \in DOMAIN renderers /\ renderers'[k] = renderers[k])
      <4>1. /\ DOMAIN Append(renderers, r) = 1 .. Len(renderers) + 1 /\ Len(renderers) \in Nat
            /\ \A i \in 1 .. Len(renderers) : Append(renderers, r)[i] = renderers[i]
            /\ Append(renderers, r)[Len(renderers) + 1] = r
        BY <3>4, AppendAny, SMTT(20)
      <4>2. DOMAIN renderers = 1 .. Len(renderers)
        BY <3>4, LenProperties
      <4>3. k \in DOMAIN Append(renderers, r) /\ renderers'[k] = Append(renderers, r)[k]
        BY <3>1
      <4>4. k \in 1 .. Len(renderers) \/ k = Len(renderers) + 1
        <5> DEFINE m == Len(renderers)
        <5>1. k \in 1 .. m + 1 /\ m \in Nat
          BY <4>1, <4>3
        <5> HIDE DEF m
        <5>2. k \in 1 .. m \/ k = m + 1
          BY <5>1
        <5>3. QED
          BY <5>2 DEF m
      <4>5. CASE k \in 1 .. Len(renderers)
        BY <4>1, <4>2, <4>3, <4>5, Zenon
      <4>6. CASE k = Len(renderers) + 1
        <5>1. Append(renderers, r)[k] = r
          BY <4>1, <4>6, Zenon
        <5>2. QED
          BY <4>3, <5>1
      <4>7. QED
        BY <4>4, <4>5, <4>6, Zenon
    <3>6. QED
      BY <3>1, <3>3, <3>5 DEF PassInv, Matches, IsHeadless
  <2>6. ASSUME NEW j \in DOMAIN renderers, DestroyRenderer(j)
        PROVE  Matches(renderers[k], swapchain.format, IsHeadless)'
    <3>1. /\ UNCHANGED <<device, swapchain, surf>> /\ k \in DOMAIN renderers
          /\ renderers'[k] = renderers[k] \/ renderers'[k] = [renderers[k] EXCEPT !.live = FALSE]
      BY <2>6, Zenon DEF DestroyRenderer, libraryVars
    <3>2. RendererFields \subseteq DOMAIN renderers[k] /\ Matches(renderers[k], swapchain.format, IsHeadless)
      BY <3>1 DEF FollowInv, PassInv
    <3>3. /\ renderers'[k].pass = renderers[k].pass
          /\ renderers'[k].render_pass = renderers[k].render_pass
          /\ renderers'[k].framebuffers = renderers[k].framebuffers
      BY <3>1, <3>2 DEF RendererFields
    <3>4. QED
      BY <3>1, <3>2, <3>3 DEF Matches, IsHeadless
  <2>7. CASE Resize
    <3>1. UNCHANGED <<device, chosen, surf>> /\ calls # <<>> /\ surf
      BY <2>7 DEF Resize, InnermostAt, ChoiceInv, libraryVars
    <3>2. CASE swapchain' = swapchain /\ renderers' = renderers
      BY <2>1, <3>1, <3>2
    <3>3. CASE renderers' = [i \in DOMAIN renderers |-> Regenerated(renderers[i], swapchain')]
      <4>1. swapchain'.format = swapchain.format
        BY <3>1, Zenon DEF ChoiceInv
      <4>2. k \in DOMAIN renderers /\ renderers'[k] = Regenerated(renderers[k], swapchain')
        BY <3>3
      <4>3. Matches(renderers[k], swapchain.format, IsHeadless)
        BY <3>1, <4>2, Zenon DEF PassInv
      <4>4. Matches(Regenerated(renderers[k], swapchain'), swapchain'.format, IsHeadless)
        <5> DEFINE old == renderers[k]
                   chain == swapchain'
                   headless == IsHeadless
        <5>1. old.pass \in Passes /\ old.render_pass = MakeRenderPass(old.pass, chain.format, headless)
          BY <4>1, <4>3, SMTT(30) DEF Matches
        <5> HIDE DEF old, chain, headless
        <5>2. Matches(Regenerated(old, chain), chain.format, headless)
          BY <5>1, RegeneratedMatches, SMTT(30)
        <5>3. QED
          BY <5>2 DEF old, chain, headless
      <4>5. QED
        <5>1. IsHeadless' = IsHeadless
          BY <3>1 DEF IsHeadless
        <5>2. QED
          BY <4>2, <4>4, <5>1, Zenon
    <3>4. QED
      BY <2>7, <3>2, <3>3, ResizeSteps
  <2>8. ASSUME NEW s \in Sizes, SizeChange(s) PROVE UNCHANGED Others
    BY <2>8 DEF SizeChange, libraryVars, objectVars
  <2>9. ASSUME Update \/ Dispatch \/ Pumped \/ ReadSize \/ Wait \/ Wake PROVE UNCHANGED Others
    BY <2>9 DEF Update, Dispatch, Pumped, ReadSize, Wait, Wake, libraryVars, objectVars
  <2>10. CASE Terminate
    BY <2>10 DEF Terminate, objectVars
  <2>11. ASSUME UNCHANGED vars PROVE UNCHANGED Others
    BY <2>11 DEF vars, libraryVars, objectVars
  <2>12. CASE CallStep
    BY <2>1, <2>7, <2>9, <2>12 DEF CallStep
  <2>13. QED
    BY <2>1, <2>2, <2>3, <2>4, <2>5, <2>6, <2>8, <2>9, <2>10, <2>11, <2>12 DEF Next, objectVars
<1>3. QED
  BY <1>1, <1>2, WindowInvariant, FollowInvariant, ChoiceInvariant, PTL DEF Spec

\* Whatever format the surface offers, and however often the window is
\* resized, a renderer's framebuffers have what its pass expects.
THEOREM PassesMatch == Spec => []FramebuffersMatchPass
<1>1. PassInv => FramebuffersMatchPass
  <2> SUFFICES ASSUME PassInv, Defined, NEW k \in Live, renderers[k].pass # "Depth"
               PROVE  LET r == renderers[k]
                          used == r.render_pass.subpasses[1]
                      IN /\ r.framebuffers.views =
                              [i \in DOMAIN r.render_pass.attachments |-> r.render_pass.attachments[i].format]
                         /\ used.colours = <<1>>
                         /\ used.depth = IF r.pass = "ColourDepth" THEN <<2>> ELSE <<>>
                         /\ r.render_pass.attachments[1].final = IF IsHeadless THEN "TransferSource" ELSE "Present"
    BY Zenon DEF FramebuffersMatchPass
  <2> DEFINE r == renderers[k]
             f == swapchain.format
             shown == Shown(f, IsHeadless)
  <2>1. Matches(r, f, IsHeadless) /\ r.pass \in {"Colour", "ColourDepth"}
    BY DEF PassInv, Defined, Live, Matches, Passes
  <2>2. shown.format = f /\ shown.final = (IF IsHeadless THEN "TransferSource" ELSE "Present")
        /\ DepthOnly.format = "DepthFloat32"
    BY DEF Shown, DepthOnly, default_depth_attachment
  <2> HIDE DEF shown
  <2>3. CASE r.pass = "Colour"
    <3>1. r.render_pass = [attachments |-> <<shown>>, subpasses |-> <<[colours |-> <<1>>, depth |-> <<>>]>>]
      BY <2>1, <2>3, PassMade DEF Matches, shown
    <3>2. r.framebuffers.views = <<f>>
      BY <2>1, <2>3 DEF Matches, ViewsFor
    <3>3. [i \in DOMAIN <<shown>> |-> <<shown>>[i].format] = <<f>>
      BY <2>2
    <3>4. r.render_pass.attachments = <<shown>> /\ <<shown>>[1] = shown
      BY <3>1, SMTT(20)
    <3>5. r.render_pass.subpasses[1].colours = <<1>> /\ r.render_pass.subpasses[1].depth = <<>>
      BY <3>1
    <3>6. (IF r.pass = "ColourDepth" THEN <<2>> ELSE <<>>) = <<>>
      BY <2>3
    <3>7. QED
      BY <2>2, <3>2, <3>3, <3>4, <3>5, <3>6, Zenon
  <2>4. CASE r.pass = "ColourDepth"
    <3>1. r.render_pass = [attachments |-> <<shown, DepthOnly>>, subpasses |-> <<[colours |-> <<1>>, depth |-> <<2>>]>>]
      BY <2>1, <2>4, PassMade DEF Matches, shown
    <3>2. r.framebuffers.views = <<f, "DepthFloat32">>
      BY <2>1, <2>4 DEF Matches, ViewsFor
    <3>3. [i \in DOMAIN <<shown, DepthOnly>> |-> <<shown, DepthOnly>>[i].format] = <<f, "DepthFloat32">>
      BY <2>2
    <3>4. r.render_pass.attachments = <<shown, DepthOnly>> /\ <<shown, DepthOnly>>[1] = shown
      BY <3>1, SMTT(20)
    <3>5. r.render_pass.subpasses[1].colours = <<1>> /\ r.render_pass.subpasses[1].depth = <<2>>
      BY <3>1
    <3>6. (IF r.pass = "ColourDepth" THEN <<2>> ELSE <<>>) = <<2>>
      BY <2>4
    <3>7. QED
      BY <2>2, <3>2, <3>3, <3>4, <3>5, <3>6, Zenon
  <2>5. QED
    BY <2>1, <2>3, <2>4, Zenon
<1>2. QED
  BY <1>1, PassInvariant, PTL

-----------------------------------------------------------------------------
(* Types. *)

\* A call of a callback that was added, with sizes of a window.
CallOK(f, n) == f.cb \in 0 .. n /\ f.arg \in Sizes /\ f.w \in Sizes

CallsInv == \A k \in 1 .. Len(calls) : CallOK(calls[k], Len(callbacks))

\* A step of the innermost call leaves calls of callbacks that were added.
LEMMA CallsStep ==
  ASSUME WindowInv, CallsInv, Pumped \/ ReadSize \/ Wait \/ Resize
  PROVE  CallsInv'
<1> DEFINE n == Len(callbacks)
<1>1. /\ calls \in Seq(Frame) /\ calls # <<>>
      /\ Innermost \in Frame /\ Innermost = calls[Len(calls)]
      /\ Len(calls) \in Nat \ {0}
      /\ n \in Nat /\ callbacks' = callbacks
  BY InnermostTyped DEF WindowInv, Pumped, ReadSize, Wait, Resize, InnermostAt, Innermost, objectVars
<1>2. CallOK(Innermost, n)
  BY <1>1 DEF CallsInv
<1>3. CASE Return
  <2>1. Len(calls') = Len(calls) - 1 /\ \A k \in 1 .. Len(calls) - 1 : calls'[k] = calls[k]
    BY <1>1, <1>3, InnermostTyped DEF Return
  <2>2. QED
    BY <1>1, <2>1 DEF CallsInv
<1>4. ASSUME NEW f \in Frame, CallOK(f, n), Become(f) PROVE CallsInv'
  <2>1. Len(calls') = Len(calls) /\ \A k \in 1 .. Len(calls) : calls'[k] = IF k = Len(calls) THEN f ELSE calls[k]
    BY <1>1, <1>4, BecomeTyped
  <2>2. QED
    BY <1>1, <1>4, <2>1 DEF CallsInv
<1>5. CASE Pumped
  <2> DEFINE f == [Innermost EXCEPT !.at = "test"]
  <2>1. f \in Frame /\ CallOK(f, n)
    BY <1>1, <1>2 DEF Frame, CallOK
  <2>2. QED
    BY <1>3, <1>4, <1>5, <2>1 DEF Pumped
<1>6. CASE ReadSize
  <2> DEFINE f == [Innermost EXCEPT !.w = SizeRead, !.at = "wait"]
  <2>1. f \in Frame /\ CallOK(f, n)
    BY <1>1, <1>2, SizesAssumption, Zenon DEF Frame, CallOK, WindowInv, SizeRead
  <2>2. QED
    BY <1>4, <1>6, <2>1 DEF ReadSize
<1>7. CASE Wait
  <2> DEFINE f == [Innermost EXCEPT !.at = "pump"]
  <2>1. f \in Frame /\ CallOK(f, n)
    BY <1>1, <1>2 DEF Frame, CallOK
  <2>2. QED
    BY <1>4, <1>7, <2>1 DEF Wait
<1>8. CASE Resize
  <2> DEFINE f == [Innermost EXCEPT !.cb = @ + 1, !.w = Innermost.arg]
  <2>1. CASE Innermost.cb = n
    BY <1>3, <1>8, <2>1 DEF Resize, LastCallback
  <2>2. CASE Innermost.cb # n
    <3>1. Become(f)
      BY <1>8, <2>2 DEF Resize, LastCallback
    <3>2. Innermost.cb + 1 \in 0 .. n /\ Innermost.cb + 1 \in Nat
      BY <1>1, <1>2, <2>2 DEF CallOK
    <3>3. \A c \in Nat, a \in Nat : LET g == [Innermost EXCEPT !.cb = c, !.w = a] IN
            g \in Frame /\ g.cb = c /\ g.w = a /\ g.arg = Innermost.arg
      BY <1>1, Zenon DEF Frame
    <3>4. Innermost.arg \in Nat /\ Innermost.arg \in Sizes
      BY <1>2, SizesAssumption, Zenon DEF CallOK
    <3>5. f \in Frame /\ CallOK(f, n)
      BY <3>2, <3>3, <3>4, Zenon DEF CallOK
    <3>6. QED
      BY <1>4, <3>1, <3>5
  <2>3. QED
    BY <2>1, <2>2
<1>9. QED
  BY <1>5, <1>6, <1>7, <1>8

\* An event becomes a call of the first callback, if there is one.
LEMMA CallsDispatch ==
  ASSUME WindowInv, CallsInv, Dispatch
  PROVE  CallsInv'
<1> DEFINE e == Head(pending)
           f == [cb |-> 1, arg |-> e, w |-> e, at |-> "test"]
<1>1. /\ pending \in Seq(Sizes \cup {Other}) /\ pending # <<>> /\ calls \in Seq(Frame)
      /\ callbacks \in Seq(Nat) /\ callbacks' = callbacks
      /\ calls' = IF e = Other \/ callbacks = <<>> THEN calls ELSE Append(calls, f)
  BY DEF Dispatch, WindowInv, objectVars
<1>2. e \in Sizes \cup {Other}
  BY <1>1
<1> HIDE DEF e
<1>3. CASE calls' = calls
  BY <1>1, <1>3 DEF CallsInv
<1>4. CASE e # Other /\ callbacks # <<>>
  <2>1. Len(callbacks) \in Nat \ {0} /\ e \in Sizes /\ e \in Nat
    BY <1>1, <1>2, <1>4, SizesAssumption
  <2>2. CallOK(f, Len(callbacks)) /\ f \in Frame
    BY <2>1 DEF CallOK, Frame
  <2>3. calls' = Append(calls, f)
    BY <1>1, <1>4
  <2> HIDE DEF f
  <2>4. /\ Len(calls') = Len(calls) + 1 /\ Len(calls) \in Nat
        /\ \A k \in 1 .. Len(calls) : calls'[k] = calls[k]
        /\ calls'[Len(calls) + 1] = f
    <3>1. /\ Len(Append(calls, f)) = Len(calls) + 1 /\ Len(calls) \in Nat
          /\ \A k \in 1 .. Len(calls) : Append(calls, f)[k] = calls[k]
          /\ Append(calls, f)[Len(calls) + 1] = f
      BY <1>1, AppendAny, SMTT(20)
    <3>2. QED
      BY <2>3, <3>1, Zenon
  <2>5. QED
    BY <1>1, <2>2, <2>4 DEF CallsInv
<1>5. QED
  BY <1>1, <1>3, <1>4

\* The bounds on what changes, and the types that WindowInv leaves open.
BoundsInv ==
  /\ wnd \in {"nullptr", "window", "null", "deleted"}
  /\ changes \in 0 .. MaxChanges
  /\ Len(pending) <= MaxPending
  /\ callbacks \in Seq(1 .. MaxDevices)
  /\ CallsInv
  /\ device \in 0 .. MaxDevices /\ devices \in 0 .. MaxDevices
  /\ Len(renderers) <= MaxRenderers
  /\ undefined \in BOOLEAN

\* BoundsInv holds in every state.
LEMMA BoundsInvariant == Spec => []BoundsInv
<1> USE BoundsAssumption
<1>1. Init => BoundsInv
  <2>1. <<>> \in Seq(1 .. MaxDevices) /\ Len(<<>>) = 0 /\ 1 .. Len(<<>>) = {}
    BY EmptySeq
  <2>2. Init => CallsInv
    BY <2>1 DEF Init, CallsInv
  <2>3. {MaxChanges, MaxDevices, MaxRenderers, MaxPending} \subseteq Nat
    OBVIOUS
  <2>4. Init => wnd \in {"nullptr", "window", "null", "deleted"} /\ undefined \in BOOLEAN
    BY Zenon DEF Init, LibraryInit
  <2>5. Init => /\ changes \in 0 .. MaxChanges
                /\ device \in 0 .. MaxDevices /\ devices \in 0 .. MaxDevices
    BY <2>3 DEF Init
  <2>6. Init => Len(pending) <= MaxPending /\ Len(renderers) <= MaxRenderers
    BY <2>1, <2>3 DEF Init
  <2>7. Init => callbacks \in Seq(1 .. MaxDevices)
    BY <2>1 DEF Init
  <2>8. QED
    BY <2>2, <2>4, <2>5, <2>6, <2>7 DEF BoundsInv
<1>2. BoundsInv /\ WindowInv /\ FollowInv /\ [Next]_vars => BoundsInv'
  <2> SUFFICES ASSUME BoundsInv, WindowInv, FollowInv, [Next]_vars PROVE BoundsInv'
    OBVIOUS
  <2>0. /\ Len(pending) \in Nat /\ Len(renderers) \in Nat /\ Len(callbacks) \in Nat
        /\ renderers \in Seq(Range(renderers)) /\ pending \in Seq(Sizes \cup {Other})
    BY LenProperties DEF WindowInv, FollowInv
  <2>1. wnd' \in {"nullptr", "window", "null", "deleted"}
    <3>1. CASE UNCHANGED libraryVars
      BY <3>1 DEF BoundsInv, libraryVars
    <3>2. ASSUME NEW t \in AppTypes, Initialise(t) PROVE wnd' \in {"nullptr", "window", "null", "deleted"}
      BY <3>2 DEF BoundsInv, Initialise, backendVars
    <3>3. CASE LibraryStep
      BY <3>3 DEF BoundsInv, LibraryStep, CreateInstance, CreateSurface, DeleteInstance, DeleteWindow, TerminateGlfw, LibraryGoto, backendVars
    <3>4. CASE DeleteSurface
      BY <3>4 DEF BoundsInv, DeleteSurface, LibraryGoto, backendVars
    <3>5. QED
      BY <3>1, <3>2, <3>3, <3>4, LifeSteps
  <2> DEFINE BoundsKept ==
        /\ changes' \in 0 .. MaxChanges
        /\ Len(pending)' <= MaxPending
        /\ callbacks' \in Seq(1 .. MaxDevices)
        /\ CallsInv'
        /\ device' \in 0 .. MaxDevices /\ devices' \in 0 .. MaxDevices
        /\ Len(renderers)' <= MaxRenderers
        /\ undefined' \in BOOLEAN
  <2> SUFFICES BoundsKept
    BY <2>1 DEF BoundsInv
  <2>2. CASE UNCHANGED <<windowVars, calls, objectVars>>
    BY <2>2 DEF BoundsInv, CallsInv, windowVars, objectVars
  <2>3. CASE CreateDevice
    <3>1. devices + 1 \in 1 .. MaxDevices /\ device' = devices + 1 /\ devices' = devices + 1
      <4>1. devices < MaxDevices /\ device' = devices + 1 /\ devices' = devices + 1
        BY <2>3, Zenon DEF CreateDevice
      <4>2. devices \in 0 .. MaxDevices /\ MaxDevices \in Nat
        BY BoundsAssumption DEF BoundsInv
      <4>3. QED
        BY <4>1, <4>2
    <3>2. callbacks' \in Seq(1 .. MaxDevices)
      BY <2>3, <3>1, AppendProperties, Zenon DEF CreateDevice, BoundsInv
    <3>3. calls' = <<>> /\ renderers' = <<>> /\ UNCHANGED <<changes, pending, undefined>>
      BY <2>3 DEF CreateDevice, AppRuns, windowVars
    <3>4. QED
      BY <3>1, <3>2, <3>3, SMTT(30) DEF BoundsInv, CallsInv
  <2>4. CASE DestroyDevice
    BY <2>4, SMTT(20) DEF DestroyDevice, BoundsInv, CallsInv, windowVars
  <2>5. ASSUME NEW pass \in Passes, NEW resources \in BOOLEAN, CreateRenderer(pass, resources) PROVE BoundsKept
    <3> DEFINE r == Regenerated(NewRenderer(pass, resources), swapchain)
    <3>1. renderers' = Append(renderers, r) /\ Len(renderers) < MaxRenderers
      BY <2>5 DEF CreateRenderer
    <3>2. UNCHANGED <<changes, pending, callbacks, calls, device, devices, undefined>>
      BY <2>5 DEF CreateRenderer, windowVars
    <3> HIDE DEF r
    <3>3. Len(renderers') = Len(renderers) + 1
      BY <2>0, <3>1, AppendAny
    <3>4. Len(renderers)' <= MaxRenderers
      BY <2>0, <3>1, <3>3
    <3>5. QED
      BY <3>2, <3>4 DEF BoundsInv, CallsInv
  <2>6. ASSUME NEW j \in DOMAIN renderers, DestroyRenderer(j) PROVE BoundsKept
    <3>1. /\ renderers' = [k \in DOMAIN renderers |-> IF k = j THEN [renderers[j] EXCEPT !.live = FALSE] ELSE renderers[k]]
          /\ UNCHANGED <<changes, pending, callbacks, calls, device, devices, undefined>>
      BY <2>6, Zenon DEF DestroyRenderer, windowVars
    <3>2. Len(renderers') = Len(renderers)
      BY <2>0, <3>1, SeqOfDomain
    <3>3. QED
      BY <3>1, <3>2 DEF BoundsInv, CallsInv
  <2>7. ASSUME NEW s \in Sizes, SizeChange(s) PROVE BoundsKept
    <3>1. /\ pending' = Append(pending, s) /\ Len(pending) < MaxPending
          /\ changes' = changes + 1 /\ changes < MaxChanges
          /\ UNCHANGED <<callbacks, calls, device, devices, renderers, undefined>>
      BY <2>7 DEF SizeChange, objectVars
    <3>2. Len(pending') = Len(pending) + 1
      BY <2>0, <3>1, AppendProperties
    <3>3. QED
      BY <2>0, <3>1, <3>2, SMTT(20) DEF BoundsInv, CallsInv
  <2>8. CASE Update
    <3> DEFINE f == [cb |-> 0, arg |-> 0, w |-> 0, at |-> "pump"]
    <3>1. calls' = <<f>> /\ UNCHANGED <<windowVars, objectVars>>
      BY <2>8 DEF Update
    <3>2. CallOK(f, Len(callbacks))
      BY <2>0, SizesAssumption, SMTT(20) DEF CallOK
    <3> HIDE DEF f
    <3>3. CallsInv'
      BY <3>1, <3>2 DEF CallsInv, objectVars
    <3>4. QED
      BY <3>1, <3>3 DEF BoundsInv, windowVars, objectVars
  <2>9. CASE Dispatch
    <3>1. CallsInv'
      BY <2>9, CallsDispatch DEF BoundsInv
    <3>2. pending' = Tail(pending) /\ pending # <<>> /\ UNCHANGED <<changes, objectVars>>
      BY <2>9 DEF Dispatch
    <3>3. Len(pending') = Len(pending) - 1
      BY <2>0, <3>2
    <3>4. QED
      BY <2>0, <3>1, <3>2, <3>3, SMTT(20) DEF BoundsInv, objectVars
  <2>10. CASE Pumped \/ ReadSize \/ Wait
    <3>1. CallsInv'
      BY <2>10, CallsStep DEF BoundsInv
    <3>2. UNCHANGED <<windowVars, objectVars>>
      BY <2>10 DEF Pumped, ReadSize, Wait
    <3>3. QED
      BY <3>1, <3>2 DEF BoundsInv, windowVars, objectVars
  <2>11. CASE Resize
    <3>1. CallsInv'
      BY <2>11, CallsStep DEF BoundsInv
    <3>2. UNCHANGED <<windowVars, callbacks, device, devices>>
      BY <2>11 DEF Resize
    <3>3. undefined' \in BOOLEAN
      BY <2>11, Zenon DEF Resize, OnWindowResize
    <3>4. Len(renderers)' = Len(renderers)
      <4>1. CASE renderers' = renderers
        BY <4>1
      <4>2. CASE renderers' = [k \in DOMAIN renderers |-> Regenerated(renderers[k], swapchain')]
        BY <2>0, <4>2, SeqOfDomain
      <4>3. QED
        BY <2>11, <4>1, <4>2, ResizeSteps
    <3>5. QED
      BY <3>1, <3>2, <3>3, <3>4 DEF BoundsInv, windowVars
  <2>12. CASE Wake
    <3>1. pending' = <<Other>> /\ UNCHANGED <<changes, calls, objectVars>>
      BY <2>12 DEF Wake
    <3>2. Len(pending)' = 1
      BY <3>1
    <3>3. QED
      BY <3>1, <3>2, SMTT(20) DEF BoundsInv, CallsInv, objectVars
  <2>13. CASE Terminate
    BY <2>2, <2>13 DEF Terminate
  <2>14. CASE UNCHANGED vars
    BY <2>2, <2>14 DEF vars
  <2> HIDE DEF BoundsKept
  <2>15. QED
    BY <2>2, <2>3, <2>4, <2>5, <2>6, <2>7, <2>8, <2>9, <2>10, <2>11, <2>12, <2>13, <2>14 DEF Next, CallStep
<1>3. QED
  BY <1>1, <1>2, WindowInvariant, FollowInvariant, PTL DEF Spec

\* The variables keep their types for any number of devices, renderers and
\* events, and window_resize_callback calls only callbacks that were added.
THEOREM DeviceTypeCorrect == Spec => []DeviceLifeTypeOK
<1>1. LifeInv /\ WindowInv /\ BoundsInv => DeviceLifeTypeOK
  <2> SUFFICES ASSUME LifeInv, WindowInv, BoundsInv PROVE DeviceLifeTypeOK
    OBVIOUS
  <2>1. LibraryTypeOK
    BY DEF LifeInv, BoundsInv, LibraryTypeOK
  <2>2. ASSUME NEW k \in DOMAIN calls
        PROVE  /\ calls[k].cb \in 0 .. Len(callbacks)
               /\ calls[k].arg \in Sizes /\ calls[k].w \in Sizes
               /\ calls[k].at \in {"pump", "test", "wait"}
    <3>1. k \in 1 .. Len(calls) /\ calls[k] \in Frame
      BY DEF WindowInv
    <3>2. QED
      BY <3>1 DEF BoundsInv, CallsInv, CallOK, Frame
  <2>3. QED
    BY <2>1, <2>2 DEF DeviceLifeTypeOK, WindowInv, BoundsInv
<1>2. QED
  BY <1>1, LifeInvariant, WindowInvariant, BoundsInvariant, PTL

=============================================================================
