---------------------------- MODULE RendererVulkan ----------------------------
(***************************************************************************)
(* tz::gl::RendererVulkan with its processor (gl/impl/frontend/vk/         *)
(* renderer.cpp), composed with the FrameAdmin it renders through.         *)
(*                                                                         *)
(* The renderer owns one command buffer per swapchain image and one        *)
(* scratch buffer, two indirect draw buffers, and the draw list that they  *)
(* were last filled from (the draw cache).  A call is cut into one action  *)
(* per point at which it waits for the device: "op" is that point.  While  *)
(* op is "ready" the call, if there is one, is inside FrameAdmin.          *)
(***************************************************************************)
EXTENDS FrameAdmin, Loops

CONSTANTS
  NumInputs,      \* inputs of the renderer; a handle is 0 .. NumInputs - 1
  DynamicInputs,  \* the handles whose data access is DynamicFixed
  DrawLists,      \* the draw lists the application passes to render
  Colours         \* clear colours; 0 is the one a renderer starts with

Handles == 0 .. NumInputs - 1

ASSUME InputsAssumption == NumInputs \in Nat /\ DynamicInputs \subseteq Handles
ASSUME DrawListsAssumption == DrawLists \subseteq Seq(Handles)
ASSUME ColoursAssumption == 0 \in Colours

VARIABLES
  op,
  view,          \* the view that clear_rendering_commands is at
  draws,         \* the last draw list given to render
  draw_cache,
  draw_indirect_buffer,          \* the list it was filled from, <<>> for nullopt
  draw_indirect_dynamic_buffer,
  clear_colour,
  cmds           \* what is recorded in the command buffer of each view

listVars == <<draws, draw_cache, draw_indirect_buffer, draw_indirect_dynamic_buffer>>
rendererVars == <<op, view, draws, draw_cache, draw_indirect_buffer, draw_indirect_dynamic_buffer,
                  clear_colour, cmds>>
allVars == <<vars, rendererVars>>

Ops == {"ready", "clear", "static", "static_wait", "dynamic", "dynamic_wait", "record", "frame",
        "colour_idle", "resize_idle"}

\* "live" says that the indirect buffers the commands name still exist.
Commands == [statics : Seq(Handles \cup {None}), dynamics : Seq(Handles \cup {None}),
             colour : Colours \cup {None}, live : BOOLEAN]

\* The variables of the renderer, its frame admin and the device keep their types.
RendererTypeOK ==
  /\ TypeOK
  /\ op \in Ops
  /\ view \in Images
  /\ draws \in Seq(Handles)
  /\ draw_cache \in Seq(Handles)
  /\ draw_indirect_buffer \in Seq(Handles)
  /\ draw_indirect_dynamic_buffer \in Seq(Handles)
  /\ clear_colour \in Colours
  /\ cmds \in [Images -> Commands]

Statics(list) == Filter(list, Handles \ DynamicInputs)
Dynamics(list) == Filter(list, DynamicInputs)

all_inputs_once == [k \in 1 .. NumInputs |-> k - 1]

\* What n indirect draws read from a buffer; past its end, anything.
Drawn(buffer, n) == [k \in 1 .. n |-> IF k <= Len(buffer) THEN buffer[k] ELSE None]

\* record_rendering_commands, for one view: the draw counts come from the
\* cache, the commands from the indirect buffers.
Recording ==
  [statics |-> Drawn(draw_indirect_buffer, Len(Statics(draw_cache))),
   dynamics |-> Drawn(draw_indirect_dynamic_buffer, Len(Dynamics(draw_cache))),
   colour |-> clear_colour, live |-> TRUE]

RecordAll == [v \in Images |-> Recording]

\* A command buffer that was reset.
NoCommands == [statics |-> <<>>, dynamics |-> <<>>, colour |-> None, live |-> TRUE]

\* The constructor records while the draw cache is still empty, and fills the
\* indirect buffers afterwards, which replaces the ones it recorded.
Constructed == [statics |-> <<>>, dynamics |-> <<>>, colour |-> 0, live |-> NumInputs = 0]

RendererInit ==
  /\ Init
  /\ op = "ready"
  /\ view = 0
  /\ draws = all_inputs_once
  /\ draw_cache = all_inputs_once
  /\ draw_indirect_buffer = Statics(all_inputs_once)
  /\ draw_indirect_dynamic_buffer = Dynamics(all_inputs_once)
  /\ clear_colour = 0
  /\ cmds = [v \in Images |-> Constructed]

Called == op = "ready" /\ pc = "idle"

OpStep(from, to) == op = from /\ op' = to

-----------------------------------------------------------------------------
(* render *)

\* processor.render(), for render() and at the end of render(draws).
EnterFrameAdmin ==
  /\ op \in {"ready", "frame"}
  /\ op' = "ready"
  /\ RenderFrame \/ RenderFrameHeadless
  /\ UNCHANGED <<view, listVars, clear_colour, cmds>>

\* render(draws) with the cached list goes straight to the frame admin.
RenderCached(list) ==
  /\ Called
  /\ list = draw_cache
  /\ op' = "frame"
  /\ draws' = list
  /\ UNCHANGED <<vars, view, draw_cache, draw_indirect_buffer, draw_indirect_dynamic_buffer,
                 clear_colour, cmds>>

RenderDraws(list) ==
  /\ Called
  /\ list # draw_cache
  /\ op' = "clear"
  /\ view' = 0
  /\ draws' = list
  /\ UNCHANGED <<vars, draw_cache, draw_indirect_buffer, draw_indirect_dynamic_buffer,
                 clear_colour, cmds>>

\* Mutants of ClearView: no wait; one round too many.
ClearViewUnwaited ==
  /\ op = "clear"
  /\ cmds' = [cmds EXCEPT ![view] = NoCommands]
  /\ IF view + 1 \in Images
       THEN view' = view + 1 /\ op' = "clear"
       ELSE view' = 0 /\ op' = "static"
  /\ UNCHANGED <<vars, listVars, clear_colour>>

ClearViewPastEnd ==
  /\ op = "clear"
  /\ WaitForReturns(view)
  /\ cmds' = [cmds EXCEPT ![view] = NoCommands]
  /\ IF view + 1 \in Buffers
       THEN view' = view + 1 /\ op' = "clear"
       ELSE view' = 0 /\ op' = "static"
  /\ UNCHANGED <<vars, listVars, clear_colour>>

\* One round of clear_rendering_commands: wait_for, then reset.
ClearView ==
  /\ op = "clear"
  /\ WaitForReturns(view)
  /\ cmds' = [cmds EXCEPT ![view] = NoCommands]
  /\ IF view + 1 \in Images
       THEN view' = view + 1 /\ op' = "clear"
       ELSE view' = 0 /\ op' = "static"
  /\ UNCHANGED <<vars, listVars, clear_colour>>

\* Commands that name a buffer which is being replaced.
Orphan(c, named) == [c EXCEPT !.live = c.live /\ ~named]

\* record_draw_list: each indirect buffer is replaced, filled by a scratch
\* submission with a fence of its own, and that fence is waited for.
StaticDraws ==
  /\ op = "static"
  /\ draw_indirect_buffer' = Statics(draws)
  /\ cmds' = [v \in Images |-> Orphan(cmds[v], cmds[v].statics # <<>>)]
  /\ IF Statics(draws) = <<>>
       THEN op' = "dynamic" /\ UNCHANGED vars
       ELSE /\ op' = "static_wait"
            /\ Submit(Scratch, CopyFence, FALSE, FALSE)
            /\ UNCHANGED <<semaphoreVars, engineVars, adminVars>>
  /\ UNCHANGED <<view, draws, draw_cache, draw_indirect_dynamic_buffer, clear_colour>>

\* Mutant of StaticWait: the copy fence is not waited for.
StaticWaitSkipped ==
  /\ OpStep("static_wait", "dynamic")
  /\ UNCHANGED <<vars, view, listVars, clear_colour, cmds>>

StaticWait ==
  /\ OpStep("static_wait", "dynamic")
  /\ Waited(CopyFence)
  /\ UNCHANGED <<vars, view, listVars, clear_colour, cmds>>

DynamicDraws ==
  /\ op = "dynamic"
  /\ draw_indirect_dynamic_buffer' = Dynamics(draws)
  /\ cmds' = [v \in Images |-> Orphan(cmds[v], cmds[v].dynamics # <<>>)]
  /\ IF Dynamics(draws) = <<>>
       THEN op' = "record" /\ draw_cache' = draws /\ UNCHANGED vars
       ELSE /\ op' = "dynamic_wait"
            /\ Submit(Scratch, CopyFence, FALSE, FALSE)
            /\ UNCHANGED <<draw_cache, semaphoreVars, engineVars, adminVars>>
  /\ UNCHANGED <<view, draws, draw_indirect_buffer, clear_colour>>

DynamicWait ==
  /\ OpStep("dynamic_wait", "record")
  /\ Waited(CopyFence)
  /\ draw_cache' = draws
  /\ UNCHANGED <<vars, view, draws, draw_indirect_buffer, draw_indirect_dynamic_buffer,
                 clear_colour, cmds>>

Record ==
  /\ OpStep("record", "frame")
  /\ cmds' = RecordAll
  /\ UNCHANGED <<vars, view, listVars, clear_colour>>

-----------------------------------------------------------------------------
(* set_clear_colour and resizing *)

SetClearColour(c) ==
  /\ Called
  /\ op' = "colour_idle"
  /\ clear_colour' = c
  /\ UNCHANGED <<vars, view, listVars, cmds>>

\* handle_clear_colour_change, once the device is idle: the command pool is
\* emptied and filled, and everything is recorded again.
ClearColourChange ==
  /\ OpStep("colour_idle", "ready")
  /\ Idle
  /\ cmds' = RecordAll
  /\ UNCHANGED <<vars, view, listVars, clear_colour>>

\* The window's resize callback, which runs on_window_resize of the device.
OnWindowResize ==
  /\ Called
  /\ ~Headless
  /\ op' = "resize_idle"
  /\ UNCHANGED <<vars, view, listVars, clear_colour, cmds>>

\* Mutant of ReplaceSwapchain: the new command buffers stay empty.
ReplaceSwapchainEmpty ==
  /\ OpStep("resize_idle", "ready")
  /\ Idle
  /\ Recreate
  /\ cmds' = [v \in Images |-> NoCommands]
  /\ UNCHANGED <<adminVars, view, listVars, clear_colour>>

\* Once the device is idle the swapchain is replaced.  The frame admin and its
\* semaphores stay as they are.  Then handle_resize of the renderer.
ReplaceSwapchain ==
  /\ OpStep("resize_idle", "ready")
  /\ Idle
  /\ Recreate
  /\ cmds' = RecordAll
  /\ UNCHANGED <<adminVars, view, listVars, clear_colour>>

\* Mutant of Regenerate: the acquire is tried again on the same swapchain.
RegenerateRetries ==
  /\ Advance("regenerate", "wait_fence")
  /\ cmds' = RecordAll
  /\ UNCHANGED <<op, view, listVars, clear_colour>>

\* The regeneration function of the frame admin is handle_resize too, called
\* with the swapchain as it is and the device as busy as it is.
Regenerate ==
  /\ Regenerated
  /\ cmds' = RecordAll
  /\ UNCHANGED <<op, view, listVars, clear_colour>>

-----------------------------------------------------------------------------
\* The steps of the frame admin other than the return of its regeneration
\* function.
AdminStep ==
  /\ \/ WaitFence \/ AcquireGrants \/ WaitImage \/ SubmitFrame \/ PresentFrame \/ SubmitFrameHeadless
  /\ UNCHANGED rendererVars

\* What a call that has begun does next, errors of the acquire aside.
RendererStep ==
  \/ op = "frame" /\ EnterFrameAdmin
  \/ ClearView
  \/ StaticDraws
  \/ StaticWait
  \/ DynamicDraws
  \/ DynamicWait
  \/ Record
  \/ ClearColourChange
  \/ ReplaceSwapchain
  \/ Regenerate
  \/ AdminStep

RendererNext ==
  \/ EnterFrameAdmin
  \/ \E list \in DrawLists : RenderCached(list) \/ RenderDraws(list)
  \/ \E c \in Colours : SetClearColour(c)
  \/ OnWindowResize
  \/ RendererStep
  \/ AcquireFails /\ UNCHANGED rendererVars
  \/ Catch /\ UNCHANGED rendererVars
  \/ DeviceStep /\ UNCHANGED <<adminVars, rendererVars>>

\* As in FrameAdmin: a call proceeds, the device does not stall, an acquire is
\* not counted on to fail, and nothing obliges the application or the window.
RendererFairness ==
  /\ WF_allVars(RendererStep)
  /\ WF_allVars(Execute /\ UNCHANGED <<adminVars, rendererVars>>)
  /\ WF_allVars(Display /\ UNCHANGED <<adminVars, rendererVars>>)
  /\ \A s \in Slots : WF_allVars(Release(s) /\ UNCHANGED <<adminVars, rendererVars>>)

RendererSpec == RendererInit /\ [][RendererNext]_allVars /\ RendererFairness

-----------------------------------------------------------------------------
(* Properties *)

\* A command buffer is never reset, freed or recorded again while the device
\* may be running it, nor is an indirect buffer that it names destroyed:
\* every path to record_rendering_commands, initialise_command_pool and
\* record_draw_list has waited for what it changes, but for the regeneration
\* function, which waits for nothing.
PendingUntouched ==
  [][\A v \in Images : Pending(v) /\ Pending(v)' /\ pc # "regenerate" => cmds'[v] = cmds[v]]_allVars

\* No command buffer, the scratch buffer included, and no fence is submitted
\* again before its last submission has completed.
SubmittedOnce ==
  \A k, m \in 1 .. Len(queue) :
    queue[k].buf = queue[m].buf \/ queue[k].slot = queue[m].slot => k = m

\* The commands c draw what the last draw list asks for, in the clear colour
\* that was set last, from buffers that exist.  The draws of an access are in
\* the list's order; the static ones come before the dynamic ones, whatever
\* the list says.
UpToDate(c) ==
  /\ c.live
  /\ c.statics = Statics(draws)
  /\ c.dynamics = Dynamics(draws)
  /\ c.colour = clear_colour

\* render submits commands that draw the most recently provided draw list,
\* or once per input when none was provided (api/renderer.hpp).
RendersLatestList == pc = "submit" => UpToDate(cmds[cur_image_index])

\* Once anything has been recorded again after construction, render submits
\* up to date commands, whatever calls came before.
RendersLatestOnceRecorded ==
  pc = "submit" /\ cmds[cur_image_index] # Constructed => UpToDate(cmds[cur_image_index])

\* How many of the submissions are frames: a copy is the last one.
FramesPending ==
  IF queue # <<>> /\ queue[Len(queue)].buf = Scratch THEN Len(queue) - 1 ELSE Len(queue)

RendererInFlight == [k \in 1 .. FramesPending |-> queue[k].buf]

RendererPipeline == INSTANCE FramePipeline
  WITH Depth <- FrameDepth, Frames <- Images, inflight <- RendererInFlight

\* The frames of a renderer go through the pipeline that its FrameAdmin
\* promises, although record_draw_list submits copies to the same queue: no
\* frame is submitted before the fence of the last copy was waited for.
RendererImplementsPipeline == RendererPipeline!Spec

\* Every call returns or throws: a wait for an image, for a scratch fence or
\* for the device to be idle is never a wait for the call itself, while two
\* images are left that are not leaked.
RendererCallReturns ==
  (op # "ready" \/ pc \notin {"idle", "thrown"}) ~>
    ((op = "ready" /\ pc \in {"idle", "thrown"}) \/ AllButOneLeaked)

=============================================================================
