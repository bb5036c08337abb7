----------------------------- MODULE VulkanQueue -----------------------------
(***************************************************************************)
(* The Vulkan objects that Topaz synchronises with, as the code under      *)
(* gl/impl/backend/vk uses them: the one graphics and present queue of the *)
(* logical device, the fences and binary semaphores, and the swapchain     *)
(* with the presentation engine behind it.                                 *)
(*                                                                         *)
(* The host side of each object (Fence, Submit, Present, Swapchain) is     *)
(* translated from its source.  The device side (Execute, Display,         *)
(* Release) is the driver and the window system, which are external: what  *)
(* is modelled is what the Vulkan specification lets the host rely on.     *)
(* A fence signal covers every earlier submission of its queue, so the     *)
(* queue completes in order.                                               *)
(***************************************************************************)
EXTENDS Integers, Sequences

CONSTANTS
  FrameDepth,   \* frames in flight: the frame_depth of a FrameAdmin
  NumImages     \* images of the swapchain

ASSUME FrameDepthAssumption == FrameDepth \in Nat \ {0}
ASSUME NumImagesAssumption == NumImages \in Nat \ {0}

Slots == 0 .. FrameDepth - 1
Images == 0 .. NumImages - 1

CopyFence == FrameDepth     \* the fence of one-off transfers
Fences == 0 .. FrameDepth
Scratch == NumImages        \* the extra command buffer of the pool
Buffers == 0 .. NumImages

\* nullptr, std::nullopt, and the numeric_limits::max() of an unused entry.
None == -1

VARIABLES
  fence,      \* fence[f]: is fence f signalled?
  queue,      \* submissions that have not completed, oldest first
  available,  \* available[s]: is the image_available semaphore s signalled?
  finished,   \* finished[s]: is the render_finish semaphore s signalled?
  granted,    \* granted[s]: the image whose release will signal available[s]
  held,       \* images acquired and not yet handed back by a present
  presents,   \* presents that the engine has not processed, oldest first
  shown,      \* the image on the screen
  \* History.  No code resets a semaphore: one that is signalled, or will be,
  \* for something that is gone stays out of step with its slot's frames.
  staleAvailable,  \* slots of acquires whose image no submission followed
  staleFinished    \* slots of presents that may never wait any more

fenceVars == <<fence, queue>>
semaphoreVars == <<available, finished>>
engineVars == <<granted, held, presents, shown, staleAvailable, staleFinished>>
deviceVars == <<fence, queue, available, finished, granted, held, presents, shown,
                staleAvailable, staleFinished>>

\* "waits" and "signals" say whether a submission was given the semaphores of
\* its slot to wait for and to signal.
Submission == [buf : Buffers, slot : Fences, waits : BOOLEAN, signals : BOOLEAN]

Presentation == [image : Images, slot : Slots]

DeviceTypeOK ==
  /\ fence \in [Fences -> BOOLEAN]
  /\ queue \in Seq(Submission)
  /\ available \in [Slots -> BOOLEAN]
  /\ finished \in [Slots -> BOOLEAN]
  /\ granted \in [Slots -> Images \cup {None}]
  /\ held \in SUBSET Images
  /\ presents \in Seq(Presentation)
  /\ shown \in Images \cup {None}
  /\ staleAvailable \in SUBSET Slots
  /\ staleFinished \in SUBSET Slots

\* Fences are created signalled, semaphores unsignalled.
DeviceInit ==
  /\ fence = [f \in Fences |-> TRUE]
  /\ queue = <<>>
  /\ available = [s \in Slots |-> FALSE]
  /\ finished = [s \in Slots |-> FALSE]
  /\ granted = [s \in Slots |-> None]
  /\ held = {}
  /\ presents = <<>>
  /\ shown = None
  /\ staleAvailable = {}
  /\ staleFinished = {}

-----------------------------------------------------------------------------
(* Host side. *)

\* Fence::wait_for blocks until the fence is signalled.
Waited(f) == fence[f]

\* Fence::signal, which resets the fence, then Submit with that fence.
Submit(b, f, waits, signals) ==
  /\ fence' = [fence EXCEPT ![f] = FALSE]
  /\ queue' = Append(queue, [buf |-> b, slot |-> f, waits |-> waits, signals |-> signals])

\* vkDeviceWaitIdle and vkQueueWaitIdle.
Idle == queue = <<>>

\* The images an acquire may return: not with the application, not waiting
\* to be shown, and on the screen only when a queued present replaces them.
Obtainable ==
  { img \in Images :
      /\ img \notin held
      /\ \A k \in 1 .. Len(presents) : presents[k].image # img
      /\ img = shown => presents # <<>> }

\* vkAcquireNextImageKHR hands out img; available[s] is signalled later.
Grant(img, s) ==
  /\ img \in Obtainable
  /\ granted' = [granted EXCEPT ![s] = img]
  /\ held' = held \cup {img}
  /\ UNCHANGED <<presents, shown, staleFinished>>

Present(img, s) ==
  /\ presents' = Append(presents, [image |-> img, slot |-> s])
  /\ held' = held \ {img}
  /\ UNCHANGED <<granted, shown, staleAvailable, staleFinished>>

\* The slots of the presents that the engine has not processed.
Presenting == {presents[k].slot : k \in 1 .. Len(presents)}

\* The swapchain is destroyed and another one created, on an idle device.
\* That covers neither acquires nor presents: the image of an acquire that
\* no submission followed may still be released, and the engine may or may
\* not have waited for the semaphore of a present.  Of the new swapchain
\* nothing is acquired, presented or shown.
Recreate ==
  /\ \E released \in SUBSET {s \in Slots : granted[s] # None} :
       available' = [s \in Slots |-> available[s] \/ s \in released]
  /\ \E unwaited \in SUBSET Presenting :
       /\ finished' = [s \in Slots |-> finished[s] /\ s \notin Presenting \ unwaited]
       /\ staleFinished' = staleFinished \cup unwaited
  /\ granted' = [s \in Slots |-> None]
  /\ held' = {}
  /\ presents' = <<>>
  /\ shown' = None
  /\ UNCHANGED <<fenceVars, staleAvailable>>

-----------------------------------------------------------------------------
(* Device side. *)

\* The oldest submission waits for its semaphore, runs and completes.
Execute ==
  /\ queue # <<>>
  /\ LET e == Head(queue) IN
       /\ e.waits => available[e.slot]
       /\ fence' = [fence EXCEPT ![e.slot] = TRUE]
       /\ available' = IF e.waits THEN [available EXCEPT ![e.slot] = FALSE] ELSE available
       /\ finished' = IF e.signals THEN [finished EXCEPT ![e.slot] = TRUE] ELSE finished
  /\ queue' = Tail(queue)
  /\ UNCHANGED engineVars

\* The engine waits for the oldest present's semaphore and shows its image.
\* When that present overtakes the release of its own image, which was on the
\* screen earlier if at all, the release happens at the latest now.
Display ==
  /\ presents # <<>>
  /\ LET p == Head(presents) IN
       /\ finished[p.slot]
       /\ finished' = [finished EXCEPT ![p.slot] = FALSE]
       /\ shown' = p.image
       /\ available' = [s \in Slots |-> available[s] \/ granted[s] = p.image]
       /\ granted' = [s \in Slots |-> IF granted[s] = p.image THEN None ELSE granted[s]]
  /\ presents' = Tail(presents)
  /\ UNCHANGED <<fence, queue, held, staleAvailable, staleFinished>>

\* An acquired image is no longer on the screen: its semaphore is signalled.
Release(s) ==
  /\ granted[s] # None
  /\ granted[s] # shown
  /\ granted' = [granted EXCEPT ![s] = None]
  /\ available' = [available EXCEPT ![s] = TRUE]
  /\ UNCHANGED <<fence, queue, finished, held, presents, shown, staleAvailable, staleFinished>>

DeviceStep == Execute \/ Display \/ \E s \in Slots : Release(s)

=============================================================================
