------------------------------ MODULE FrameAdmin ------------------------------
(***************************************************************************)
(* tz::gl::vk::FrameAdmin (gl/impl/backend/vk/frame_admin.cpp): the ring   *)
(* of frame slots, each with a fence and two semaphores, through which the *)
(* command buffer of an acquired swapchain image is submitted, presented   *)
(* and later waited for.                                                   *)
(*                                                                         *)
(* One call of render_frame is one action per point at which it can block  *)
(* or at which the device can overtake it; "pc" is that point.             *)
(***************************************************************************)
EXTENDS VulkanQueue

CONSTANTS
  Headless,       \* render_frame_headless instead of render_frame
  AcquireErrors   \* what an acquire may answer besides VK_SUCCESS

\* Without a window the image is the slot, so every slot has an image.
ASSUME HeadlessAssumption == Headless \in BOOLEAN /\ (Headless => FrameDepth <= NumImages)
ASSUME AcquireErrorsAssumption == AcquireErrors \subseteq {"out_of_date", "suboptimal", "other"}

VARIABLES
  pc,
  frame_counter,
  cur_image_index,
  image_index_at_frame,  \* an array of frame_depth entries, indexed by image
  images_in_flight       \* the slot whose fence guards an image, or None

adminVars == <<pc, frame_counter, cur_image_index, image_index_at_frame, images_in_flight>>
vars == <<deviceVars, adminVars>>

Points == {"idle", "wait_fence", "acquire", "regenerate", "wait_image", "submit", "present", "thrown"}

AdminTypeOK ==
  /\ pc \in Points
  /\ frame_counter \in Slots
  /\ cur_image_index \in Images
  /\ image_index_at_frame \in [Slots -> Slots \cup {None}]
  /\ images_in_flight \in [Images -> Slots \cup {None}]

\* The variables keep their types.
TypeOK == DeviceTypeOK /\ AdminTypeOK

Init ==
  /\ DeviceInit
  /\ pc = "idle"
  /\ frame_counter = 0
  /\ cur_image_index = 0
  /\ image_index_at_frame = [s \in Slots |-> None]
  /\ images_in_flight = [img \in Images |-> None]

Goto(from, to) == pc = from /\ pc' = to

\* A step that changes nothing but the point the call is at.
Advance(from, to) ==
  /\ Goto(from, to)
  /\ UNCHANGED <<deviceVars, frame_counter, cur_image_index, image_index_at_frame, images_in_flight>>

-----------------------------------------------------------------------------
(* render_frame *)

\* The application calls render_frame.
RenderFrame ==
  /\ ~Headless
  /\ Advance("idle", "wait_fence")

\* Mutant of WaitFence: the wait is missing.
WaitFenceSkipped == Advance("wait_fence", "acquire")

WaitFence ==
  /\ Advance("wait_fence", "acquire")
  /\ Waited(frame_counter)

Acquire(img) ==
  /\ Goto("acquire", "wait_image")
  /\ Grant(img, frame_counter)
  /\ cur_image_index' = img
  /\ UNCHANGED <<fenceVars, semaphoreVars, staleAvailable, frame_counter, image_index_at_frame, images_in_flight>>

\* The regeneration function is about to be called.
AcquireOutOfDate ==
  /\ "out_of_date" \in AcquireErrors
  /\ Advance("acquire", "regenerate")

\* VK_SUBOPTIMAL_KHR hands out an image, but is reported as ErrorUnknown:
\* reading the missing index throws, and no frame will wait for the signal.
AcquireSuboptimal(img) ==
  /\ "suboptimal" \in AcquireErrors
  /\ Goto("acquire", "thrown")
  /\ Grant(img, frame_counter)
  /\ staleAvailable' = staleAvailable \cup {frame_counter}
  /\ UNCHANGED <<fenceVars, semaphoreVars, frame_counter, cur_image_index, image_index_at_frame, images_in_flight>>

AcquireOther ==
  /\ "other" \in AcquireErrors
  /\ Advance("acquire", "thrown")

\* Mutant of Regenerated: the acquire is tried again, on the same swapchain.
RegeneratedRetries == Advance("regenerate", "wait_fence")

\* The regeneration function returns; the index is still missing and reading
\* it throws.
Regenerated ==
  /\ Advance("regenerate", "thrown")

\* The application catches the exception.
Catch ==
  /\ Advance("thrown", "idle")

\* Mutant of ImageFree: images_in_flight is not consulted.
ImageFreeAlways == TRUE

ImageFree == images_in_flight[cur_image_index] # None => Waited(images_in_flight[cur_image_index])

WaitImage ==
  /\ Advance("wait_image", "submit")
  /\ ImageFree

\* Mutant of SubmitFrame: the slot is not recorded in image_index_at_frame.
SubmitFrameUnrecorded ==
  /\ ~Headless
  /\ Goto("submit", "present")
  /\ images_in_flight' = [images_in_flight EXCEPT ![cur_image_index] = frame_counter]
  /\ Submit(cur_image_index, frame_counter, TRUE, TRUE)
  /\ UNCHANGED <<semaphoreVars, engineVars, frame_counter, cur_image_index, image_index_at_frame>>

\* Mutant of SubmitFrame: the submission is not given image_available.
SubmitFrameUnordered ==
  /\ ~Headless
  /\ Goto("submit", "present")
  /\ images_in_flight' = [images_in_flight EXCEPT ![cur_image_index] = frame_counter]
  /\ image_index_at_frame' = [s \in Slots |->
       IF s = cur_image_index THEN frame_counter ELSE image_index_at_frame[s]]
  /\ Submit(cur_image_index, frame_counter, FALSE, TRUE)
  /\ UNCHANGED <<semaphoreVars, engineVars, frame_counter, cur_image_index>>

\* image_index_at_frame has one entry per slot and is indexed by image: the
\* entry of an image past its end is not stored.
SubmitFrame ==
  /\ ~Headless
  /\ Goto("submit", "present")
  /\ images_in_flight' = [images_in_flight EXCEPT ![cur_image_index] = frame_counter]
  /\ image_index_at_frame' = [s \in Slots |->
       IF s = cur_image_index THEN frame_counter ELSE image_index_at_frame[s]]
  /\ Submit(cur_image_index, frame_counter, TRUE, TRUE)
  /\ UNCHANGED <<semaphoreVars, engineVars, frame_counter, cur_image_index>>

\* Mutants of NextSlot: no wrap, no advance.
NextSlotUnwrapped == frame_counter + 1
NextSlotStuck == frame_counter

NextSlot == (frame_counter + 1) % FrameDepth

PresentFrame ==
  /\ Goto("present", "idle")
  /\ Present(cur_image_index, frame_counter)
  /\ frame_counter' = NextSlot
  /\ UNCHANGED <<fenceVars, semaphoreVars, cur_image_index, image_index_at_frame, images_in_flight>>

-----------------------------------------------------------------------------
(* render_frame_headless: the image is the slot, and nothing is recorded in *)
(* image_index_at_frame.                                                    *)

RenderFrameHeadless ==
  /\ Headless
  /\ Goto("idle", "wait_image")
  /\ cur_image_index' = frame_counter
  /\ UNCHANGED <<deviceVars, frame_counter, image_index_at_frame, images_in_flight>>

SubmitFrameHeadless ==
  /\ Headless
  /\ Goto("submit", "idle")
  /\ images_in_flight' = [images_in_flight EXCEPT ![cur_image_index] = frame_counter]
  /\ Submit(cur_image_index, frame_counter, FALSE, FALSE)
  /\ frame_counter' = NextSlot
  /\ UNCHANGED <<semaphoreVars, engineVars, cur_image_index, image_index_at_frame>>

-----------------------------------------------------------------------------
(* wait_for, which RendererVulkan calls before it resets a command buffer.  *)

\* wait_for(img) returns at once, or would because the fence it reads is
\* signalled.  The entry read past the end of the table may hold anything.
WaitForReturns(img) ==
  img \in Slots /\ image_index_at_frame[img] # None => Waited(image_index_at_frame[img])

-----------------------------------------------------------------------------
\* An acquire hands out an image.
AcquireGrants == \E img \in Images : Acquire(img) \/ AcquireSuboptimal(img)

\* An acquire answers with an error.
AcquireFails == AcquireOutOfDate \/ AcquireOther

\* What a call that has begun does next, errors of the acquire aside.
CallStep ==
  \/ WaitFence
  \/ AcquireGrants
  \/ Regenerated
  \/ WaitImage
  \/ SubmitFrame
  \/ PresentFrame
  \/ SubmitFrameHeadless

Next ==
  \/ RenderFrame
  \/ RenderFrameHeadless
  \/ CallStep
  \/ AcquireFails
  \/ Catch
  \/ DeviceStep /\ UNCHANGED adminVars

\* A running call proceeds whenever it can; the device and the presentation
\* engine never stall.  An acquire has no timeout: it is not counted on to
\* fail, so without an image to hand out it blocks.  Nothing obliges the
\* application to call or to catch.
Fairness ==
  /\ WF_vars(CallStep)
  /\ WF_vars(Execute /\ UNCHANGED adminVars)
  /\ WF_vars(Display /\ UNCHANGED adminVars)
  /\ \A s \in Slots : WF_vars(Release(s) /\ UNCHANGED adminVars)

Spec == Init /\ [][Next]_vars /\ Fairness

-----------------------------------------------------------------------------
(* Properties *)

\* Command buffer b is in the pending state.
Pending(b) == \E k \in 1 .. Len(queue) : queue[k].buf = b

\* Some submission that has not completed will signal fence f.
FenceInUse(f) == \E k \in 1 .. Len(queue) : queue[k].slot = f

\* When wait_for(img) returns, the command buffer of img may be reset: it is
\* not pending, whether or not the slot it was last submitted with has been
\* taken by a later frame since (frame_admin.cpp, wait_for).
WaitForMeansFree == \A img \in Images : WaitForReturns(img) => ~Pending(img)

\* render_frame submits a command buffer only when no earlier submission of
\* it is pending, with a fence that no pending submission will signal.
SubmitsFreeBuffer == pc = "submit" => ~Pending(cur_image_index) /\ ~FenceInUse(frame_counter)

\* Acquired images that no call will present any more: render_frame threw
\* after an acquire that had handed one out.
Leaked == held \ (IF pc \in {"wait_image", "submit", "present"} THEN {cur_image_index} ELSE {})

\* An acquire is given an image_available semaphore that is unsignalled and
\* that no earlier acquire will signal and no pending submission waits for,
\* unless an earlier acquire of the slot handed out an image and threw.
AcquireSemaphoreFree ==
  pc = "acquire" /\ frame_counter \notin staleAvailable =>
    /\ ~available[frame_counter]
    /\ granted[frame_counter] = None
    /\ ~FenceInUse(frame_counter)

\* The oldest submission may run now.
Ready == queue # <<>> /\ (Head(queue).waits => available[Head(queue).slot])

\* A submission never signals a render_finish semaphore that an earlier
\* present has still to wait for, although no fence covers a present; a slot
\* that lost the wait of a present with its swapchain is excepted.
FinishSemaphoreFree ==
  Ready /\ Head(queue).signals /\ Head(queue).slot \notin staleFinished => ~finished[Head(queue).slot]

\* The device never draws into the image that is on the screen, unless a
\* semaphore of the frame's own slot was left out of step: other slots are
\* not affected by a slot that was.
NeverDrawsOnScreen ==
  Ready /\ ~Headless /\ Head(queue).slot \notin staleAvailable \cup staleFinished => Head(queue).buf # shown

\* What a FrameAdmin promises: FramePipeline, with the command buffers of
\* the queue as the frames in flight.
Pipeline == INSTANCE FramePipeline
  WITH Depth <- FrameDepth, Frames <- Images, inflight <- [k \in 1 .. Len(queue) |-> queue[k].buf]

\* Every behaviour of the frame admin is one of the pipeline, and every frame
\* that enters it leaves it.
ImplementsPipeline == Pipeline!Spec

\* All images but at most one are leaked.
AllButOneLeaked == \A i, j \in Images \ Leaked : i = j

\* A call of render_frame returns or throws: no fence, acquire or image that
\* it waits for is waiting for the call itself.  Two images that are not
\* leaked are enough; with a single one, which stays on the screen until
\* another is presented, the acquire may block for ever.
CallReturns == (pc \notin {"idle", "thrown"}) ~> (pc \in {"idle", "thrown"} \/ AllButOneLeaked)

=============================================================================
