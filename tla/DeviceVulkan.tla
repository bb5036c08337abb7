----------------------------- MODULE DeviceVulkan -----------------------------
(***************************************************************************)
(* tz::gl::DeviceVulkan with the window it follows and the renderers it    *)
(* keeps up to date (frontend/vk/device.cpp, core/window.cpp and           *)
(* window_functionality.cpp, and the parts of frontend/vk/renderer.cpp     *)
(* that depend on the swapchain), inside the life of the library.          *)
(*                                                                         *)
(* The framebuffer size of the window changes whenever the user likes; the *)
(* application hears of it when it polls for events.  The callback of a    *)
(* device waits for events itself while the window has no area, so calls   *)
(* of callbacks nest: "calls" is the stack.                                *)
(***************************************************************************)
EXTENDS Library, Selection, RenderPass

CONSTANTS
  Machines,      \* the machines the application may run on
  Sizes,         \* sizes of the framebuffer; 0 is a minimised window
  MaxChanges,    \* bound on the changes of size
  MaxPending,    \* bound on the events that wait to be polled
  MaxDevices,    \* bound on the devices that are created, one at a time
  MaxRenderers   \* bound on the renderers a device creates

ASSUME SizesAssumption == {0, 1} \subseteq Sizes /\ Sizes \subseteq Nat
ASSUME BoundsAssumption == {MaxChanges, MaxDevices, MaxRenderers} \subseteq Nat /\ MaxPending \in Nat \ {0}

\* A surface that leaves the extent to the application bounds it.  A device
\* that supports swapchains offers some format and some present mode.
ASSUME MachinesAssumption ==
  \A m \in Machines :
    /\ m \in Seq(Range(m))
    /\ \A k \in DOMAIN m :
         /\ m[k].families \in Seq(Range(m[k].families))
         /\ LET caps == m[k].caps IN
              /\ caps.currentExtent \in BOOLEAN
              /\ caps.minExtent \in Nat /\ caps.maxExtent \in Nat
              /\ ~caps.currentExtent => caps.minExtent <= caps.maxExtent
         /\ "VK_KHR_swapchain" \in m[k].extensions =>
              {m[k].formats, m[k].modes} \subseteq Seq(STRING) \ {<<>>}

VARIABLES
  machine,
  size,        \* of the framebuffer of the window
  changes,
  pending,     \* events that have not been polled, oldest first
  callbacks,   \* window_resize_callbacks: the device that added each
  calls,       \* calls that may pump events, innermost last
  device,      \* the device that exists, or 0
  devices,     \* devices created so far
  chosen,      \* its physical device and queue family
  swapchain,   \* its swapchain, or the image of a headless device
  renderers,   \* its renderers, in the order of renderer_resize_callbacks
  undefined    \* the program did something that has no defined effect

windowVars == <<size, changes, pending>>
objectVars == <<callbacks, device, devices, chosen, swapchain, renderers, undefined>>
vars == <<libraryVars, machine, windowVars, calls, objectVars>>

Passes == {"Colour", "Depth", "ColourDepth"}
Other == -1      \* an event that is not about the size
NoImage == -1    \* the extent of a depth image that does not exist
NoSets == -1     \* the descriptor sets of a renderer without resources
Nothing == [id |-> 0, extent |-> 0, images |-> 0, format |-> "none", mode |-> "none"]

Init ==
  /\ LibraryInit
  /\ machine \in Machines
  /\ size = 1 /\ changes = 0
  /\ pending = <<>>
  /\ callbacks = <<>>
  /\ calls = <<>>
  /\ device = 0 /\ devices = 0
  /\ chosen = <<>>
  /\ swapchain = Nothing
  /\ renderers = <<>>
  /\ undefined = FALSE

\* vk::is_headless.
IsHeadless == ~surf

\* The application has control.
AppRuns == at = "running" /\ api = "vulkan" /\ calls = <<>> /\ ~undefined

-----------------------------------------------------------------------------
(* The device. *)

\* What the Swapchain constructor can make of dev's surface: the driver may
\* create more images than it is asked for.
SwapchainsOf(dev, id) ==
  { [id |-> id, extent |-> RealSwapExtent(dev.caps, size), images |-> n,
     format |-> SelectFormat(dev.formats), mode |-> SelectPresentMode(dev.modes)] :
      n \in { k \in dev.caps.images : k >= ImageCount(dev.caps) } }

OffscreenImage(id) == [id |-> id, extent |-> 1, images |-> 1, format |-> "Rgba32sRGB", mode |-> "none"]

\* A machine without a suitable device ends the program.
CreateDevice ==
  /\ AppRuns
  /\ device = 0 /\ devices < MaxDevices
  /\ FilterAll(machine, IsHeadless) # {}
  /\ device' = devices + 1
  /\ devices' = devices + 1
  /\ callbacks' = IF IsHeadless THEN callbacks ELSE Append(callbacks, device')
  /\ LET dev == ChosenDevice(machine, IsHeadless) IN
       /\ chosen' = <<dev, ChosenFamily(dev, IsHeadless)>>
       /\ swapchain' \in IF IsHeadless THEN {OffscreenImage(swapchain.id + 1)}
                                       ELSE SwapchainsOf(dev, swapchain.id + 1)
  /\ renderers' = <<>>
  /\ UNCHANGED <<libraryVars, machine, windowVars, calls, undefined>>

\* A device goes after its renderers.  The window keeps its callback.
DestroyDevice ==
  /\ AppRuns
  /\ device # 0
  /\ \A k \in DOMAIN renderers : ~renderers[k].live
  /\ device' = 0
  /\ renderers' = <<>>
  /\ UNCHANGED <<libraryVars, machine, windowVars, calls, callbacks, devices, chosen, swapchain, undefined>>

-----------------------------------------------------------------------------
(* Renderers, as far as they depend on the swapchain. *)

\* What create_pipeline, setup_depth_image, setup_swapchain_framebuffers and
\* record_rendering_commands make of swapchain s.
Regenerated(r, s) ==
  [live |-> r.live, pass |-> r.pass, render_pass |-> r.render_pass, sets |-> r.sets,
   pipeline |-> s.extent,
   depth |-> IF r.pass # "Colour" THEN s.extent ELSE NoImage,
   framebuffers |-> [of |-> s.id, count |-> s.images, extent |-> s.extent,
                     views |-> IF r.pass # "Colour" THEN <<s.format, "DepthFloat32">> ELSE <<s.format>>],
   commands |-> [count |-> s.images, area |-> s.extent]]

\* Mutant of HandleResize: the depth image keeps its size.
HandleResizeNoDepth(r, s) == [Regenerated(r, s) EXCEPT !.depth = r.depth]

\* RendererVulkan::handle_resize.
HandleResize(r, s) == Regenerated(r, s)

NewRenderer(pass, resources) ==
  [live |-> TRUE, pass |-> pass, render_pass |-> MakeRenderPass(pass, swapchain.format, IsHeadless),
   sets |-> IF resources THEN swapchain.images ELSE NoSets]

CreateRenderer(pass, resources) ==
  /\ AppRuns
  /\ device # 0 /\ Len(renderers) < MaxRenderers
  /\ renderers' = Append(renderers, Regenerated(NewRenderer(pass, resources), swapchain))
  /\ UNCHANGED <<libraryVars, machine, windowVars, calls, callbacks, device, devices, chosen, swapchain, undefined>>

\* The device keeps the callback of a renderer that is destroyed.
DestroyRenderer(k) ==
  /\ AppRuns
  /\ renderers[k].live
  /\ renderers' = [renderers EXCEPT ![k].live = FALSE]
  /\ UNCHANGED <<libraryVars, machine, windowVars, calls, callbacks, device, devices, chosen, swapchain, undefined>>

\* A callback of a renderer that is gone, and the descriptor set of an image
\* that was not there when the sets were made.
Misused(r, s) == ~r.live \/ (r.sets # NoSets /\ s.images > r.sets)

\* on_window_resize of device d.
OnWindowResize(d) ==
  IF d # device
    THEN undefined' = TRUE /\ UNCHANGED <<swapchain, renderers>>
    ELSE \E s \in SwapchainsOf(chosen[1], swapchain.id + 1) :
           /\ swapchain' = s
           /\ renderers' = [k \in DOMAIN renderers |-> HandleResize(renderers[k], s)]
           /\ undefined' = \E k \in DOMAIN renderers : Misused(renderers[k], s)

-----------------------------------------------------------------------------
(* The window and its callbacks. *)

\* The user, or the window system.
SizeChange(s) ==
  /\ glfw_window /\ ~undefined
  /\ s # size
  /\ changes < MaxChanges /\ Len(pending) < MaxPending
  /\ size' = s
  /\ changes' = changes + 1
  /\ pending' = Append(pending, s)
  /\ UNCHANGED <<libraryVars, machine, calls, objectVars>>

\* WindowFunctionality::update, which polls for events.
Update ==
  /\ AppRuns
  /\ glfw_window
  /\ calls' = <<[cb |-> 0, arg |-> 0, w |-> 0, at |-> "pump"]>>
  /\ UNCHANGED <<libraryVars, machine, windowVars, objectVars>>

Innermost == calls[Len(calls)]
Outer == SubSeq(calls, 1, Len(calls) - 1)
Return == calls' = Outer
InnermostAt(point) == calls # <<>> /\ ~undefined /\ Innermost.at = point
Become(frame) == calls' = [calls EXCEPT ![Len(calls)] = frame]

\* window_resize_callback calls the first callback.
Dispatch ==
  /\ InnermostAt("pump") /\ pending # <<>>
  /\ pending' = Tail(pending)
  /\ calls' = IF Head(pending) = Other \/ callbacks = <<>> THEN calls
              ELSE Append(calls, [cb |-> 1, arg |-> Head(pending), w |-> Head(pending), at |-> "test"])
  /\ UNCHANGED <<libraryVars, machine, size, changes, objectVars>>

\* No event is left: update returns, or block_until_event_happens does.
Pumped ==
  /\ InnermostAt("pump") /\ pending = <<>>
  /\ IF Innermost.cb = 0 THEN Return ELSE Become([Innermost EXCEPT !.at = "test"])
  /\ UNCHANGED <<libraryVars, machine, windowVars, objectVars>>

\* Mutant of SizeRead: the callback keeps the size it was called with.
SizeReadOnce == Innermost.arg

SizeRead == size

\* The window has no area: read its size, then wait for an event.
ReadSize ==
  /\ InnermostAt("test") /\ Innermost.w = 0
  /\ Become([Innermost EXCEPT !.w = SizeRead, !.at = "wait"])
  /\ UNCHANGED <<libraryVars, machine, windowVars, objectVars>>

Wait ==
  /\ InnermostAt("wait") /\ pending # <<>>
  /\ Become([Innermost EXCEPT !.at = "pump"])
  /\ UNCHANGED <<libraryVars, machine, windowVars, objectVars>>

\* An event of another kind, which matters only to a call that waits for one.
Wake ==
  /\ InnermostAt("wait") /\ pending = <<>>
  /\ pending' = <<Other>>
  /\ UNCHANGED <<libraryVars, machine, size, changes, calls, objectVars>>

\* Mutant of LastCallback: one callback too many.
LastCallbackPastEnd == Innermost.cb > Len(callbacks)

LastCallback == Innermost.cb = Len(callbacks)

\* The callback calls on_window_resize and returns; the next one is called
\* with the size of the event.
Resize ==
  /\ InnermostAt("test") /\ Innermost.w # 0
  /\ OnWindowResize(callbacks[Innermost.cb])
  /\ IF LastCallback THEN Return
     ELSE Become([Innermost EXCEPT !.cb = @ + 1, !.w = Innermost.arg])
  /\ UNCHANGED <<libraryVars, machine, windowVars, callbacks, device, devices, chosen>>

CallStep == Dispatch \/ Pumped \/ ReadSize \/ Wait \/ Resize

-----------------------------------------------------------------------------
\* terminate begins once the application has destroyed its device.
Terminate ==
  /\ calls = <<>> /\ ~undefined
  /\ device = 0
  /\ DeleteSurface
  /\ UNCHANGED <<machine, windowVars, calls, objectVars>>

Next ==
  \/ \E t \in AppTypes : Initialise(t) /\ UNCHANGED <<machine, windowVars, calls, objectVars>>
  \/ LibraryStep /\ UNCHANGED <<machine, windowVars, calls, objectVars>>
  \/ CreateDevice
  \/ DestroyDevice
  \/ \E pass \in Passes, resources \in BOOLEAN : CreateRenderer(pass, resources)
  \/ \E k \in DOMAIN renderers : DestroyRenderer(k)
  \/ \E s \in Sizes : SizeChange(s)
  \/ Update
  \/ CallStep
  \/ Wake
  \/ Terminate

\* A call proceeds whenever it can, and a call that waits for an event gets
\* one: the user moves the mouse.  Nothing obliges the application.
Spec == Init /\ [][Next]_vars /\ WF_vars(CallStep) /\ WF_vars(Wake)

-----------------------------------------------------------------------------
(* Properties *)

\* The variables keep their types, and a call of a callback is of one that
\* was added.
DeviceLifeTypeOK ==
  /\ LibraryTypeOK
  /\ size \in Sizes /\ changes \in 0 .. MaxChanges
  /\ pending \in Seq(Sizes \cup {Other}) /\ Len(pending) <= MaxPending
  /\ callbacks \in Seq(1 .. MaxDevices)
  /\ \A k \in DOMAIN calls :
       /\ calls[k].cb \in 0 .. Len(callbacks)
       /\ calls[k].arg \in Sizes /\ calls[k].w \in Sizes
       /\ calls[k].at \in {"pump", "test", "wait"}
  /\ device \in 0 .. MaxDevices /\ devices \in 0 .. MaxDevices
  /\ Len(renderers) <= MaxRenderers
  /\ undefined \in BOOLEAN

Defined == device # 0 /\ ~undefined

Live == { k \in DOMAIN renderers : renderers[k].live }

\* Every renderer, whenever it was created, draws to the views of the
\* device's present swapchain, with a pipeline, a depth image, framebuffers
\* and commands of its extent and image count (RendererVulkan::handle_resize).
RenderersFollowSwapchain ==
  Defined => \A k \in Live :
    LET r == renderers[k] IN
      /\ r.pipeline = swapchain.extent
      /\ r.depth \in {NoImage, swapchain.extent}
      /\ r.framebuffers.of = swapchain.id
      /\ r.framebuffers.count = swapchain.images /\ r.framebuffers.extent = swapchain.extent
      /\ r.commands = [count |-> swapchain.images, area |-> swapchain.extent]

\* Once every event has been handled, the swapchain is as near to the size of
\* the window as its surface allows, however the callbacks nested.
SwapchainFitsWindow ==
  Defined /\ ~IsHeadless /\ calls = <<>> /\ pending = <<>> =>
    NearestExtent(chosen[1].caps, size, swapchain.extent)

\* The attachments of a renderer's pass are the views of its framebuffers, in
\* order; the one subpass uses each as what it is; and what is drawn ends up
\* ready for the screen or, without one, for a copy.  A pass with only a
\* depth attachment is left out: its framebuffers have a colour view too.
FramebuffersMatchPass ==
  Defined => \A k \in Live :
    LET r == renderers[k]
        used == r.render_pass.subpasses[1]
    IN r.pass # "Depth" =>
         /\ r.framebuffers.views = [i \in DOMAIN r.render_pass.attachments |-> r.render_pass.attachments[i].format]
         /\ used.colours = <<1>>
         /\ used.depth = IF r.pass = "ColourDepth" THEN <<2>> ELSE <<>>
         /\ r.render_pass.attachments[1].final = IF IsHeadless THEN "TransferSource" ELSE "Present"

\* The device is the first that has the extensions and a queue for drawing,
\* copying and, with a window, presenting; its queue is one of those; and its
\* swapchain has the best format and present mode on offer
\* (DeviceVulkan::DeviceVulkan).  On a machine where a queue draws and copies
\* but does not present to the window nothing is said of device and queue: the
\* constructor does not ask for Present, though its comment wants it and the
\* swapchain's constructor asserts it.
ChoosesSuitably ==
  device # 0 =>
    /\ DrawersPresent(machine, IsHeadless) => SuitableChoice(machine, IsHeadless, chosen[1], chosen[2])
    /\ ~IsHeadless => BestOf("perfect", chosen[1].formats, swapchain.format)
    /\ ~IsHeadless => BestOf("mailbox", chosen[1].modes, swapchain.mode)

\* If the window is not minimised for ever, update returns: a callback that
\* waits for the window to have an area sees that it has one.
UpdateReturns == <>[](size # 0) => []<>(calls = <<>> \/ undefined)

=============================================================================
