--------------------------- MODULE FrameAdminProofs ---------------------------
(***************************************************************************)
(* Proofs about FrameAdmin, for every number of frame slots and of images. *)
(***************************************************************************)
EXTENDS FrameAdmin, SequenceTheorems, FiniteSetTheorems, TLAPS

\* Appending to the queue: the old entries stay where they are, the new one
\* is the last.
LEMMA SubmitTyped ==
  ASSUME DeviceTypeOK, NEW b \in Buffers, NEW f \in Fences, NEW waits \in BOOLEAN, NEW signals \in BOOLEAN, Submit(b, f, waits, signals)
  PROVE  /\ fence' \in [Fences -> BOOLEAN]
         /\ queue' \in Seq(Submission)
         /\ Len(queue') = Len(queue) + 1
         /\ \A k \in 1 .. Len(queue) : queue'[k] = queue[k]
         /\ queue'[Len(queue) + 1] = [buf |-> b, slot |-> f, waits |-> waits, signals |-> signals]
<1> DEFINE e == [buf |-> b, slot |-> f, waits |-> waits, signals |-> signals]
<1>1. e \in Submission
  BY DEF Submission
<1>2. queue \in Seq(Submission) /\ queue' = Append(queue, e)
  BY DEF DeviceTypeOK, Submit
<1> HIDE DEF e
<1>3. /\ queue' \in Seq(Submission)
      /\ Len(queue') = Len(queue) + 1
      /\ \A k \in 1 .. Len(queue) : queue'[k] = queue[k]
      /\ queue'[Len(queue) + 1] = e
  BY <1>1, <1>2, AppendProperties
<1>4. QED
  BY <1>3 DEF e, DeviceTypeOK, Submit

\* Completing the oldest submission: the others move up by one.
LEMMA ExecuteTyped ==
  ASSUME DeviceTypeOK, Execute
  PROVE  /\ DeviceTypeOK'
         /\ Len(queue) \in Nat \ {0}
         /\ Len(queue') = Len(queue) - 1
         /\ \A k \in 1 .. Len(queue') : queue'[k] = queue[k + 1]
         /\ fence' = [fence EXCEPT ![queue[1].slot] = TRUE]
<1>1. queue \in Seq(Submission) /\ queue # <<>>
  BY DEF DeviceTypeOK, Execute
<1>2. /\ Head(queue) \in Submission
      /\ Tail(queue) \in Seq(Submission)
      /\ Len(Tail(queue)) = Len(queue) - 1
      /\ \A k \in 1 .. Len(Tail(queue)) : Tail(queue)[k] = queue[k + 1]
  BY <1>1, HeadTailProperties
<1>3. Len(queue) \in Nat \ {0}
  BY <1>1, EmptySeq
<1>4. Head(queue) = queue[1]
  BY <1>1
<1>5. DeviceTypeOK'
  BY <1>2, Zenon DEF DeviceTypeOK, Execute, engineVars, Submission
<1>6. QED
  BY <1>2, <1>3, <1>4, <1>5, Zenon DEF Execute

\* Every step of the frame admin or the device keeps their types.
LEMMA TypeStep == TypeOK /\ [Next]_vars => TypeOK'
<1> SUFFICES ASSUME TypeOK, [Next]_vars PROVE TypeOK'
  OBVIOUS
<1> USE DEF TypeOK, DeviceTypeOK, AdminTypeOK
<1>1. ASSUME NEW from \in Points, NEW to \in Points, Advance(from, to) PROVE TypeOK'
  BY <1>1 DEF Advance, Goto, deviceVars
<1>2. CASE RenderFrame
  BY <1>1, <1>2 DEF RenderFrame, Points
<1>3. CASE RenderFrameHeadless
  BY <1>3, HeadlessAssumption, FrameDepthAssumption, NumImagesAssumption DEF RenderFrameHeadless, Goto, Points, deviceVars, Slots, Images
<1>4. CASE WaitFence
  BY <1>1, <1>4 DEF WaitFence, Points
<1>5. ASSUME NEW img \in Images, Acquire(img) PROVE TypeOK'
  BY <1>5 DEF Acquire, Grant, Goto, Points, fenceVars, semaphoreVars
<1>6. ASSUME NEW img \in Images, AcquireSuboptimal(img) PROVE TypeOK'
  BY <1>6 DEF AcquireSuboptimal, Grant, Goto, Points, fenceVars, semaphoreVars
<1>7. CASE AcquireOutOfDate \/ AcquireOther \/ Regenerated \/ WaitImage \/ Catch
  BY <1>1, <1>7 DEF AcquireOutOfDate, AcquireOther, Regenerated, WaitImage, Catch, Points
<1>8. CASE SubmitFrame
  <2>1. cur_image_index \in Buffers /\ frame_counter \in Fences
    BY FrameDepthAssumption, NumImagesAssumption DEF Images, Buffers, Slots, Fences
  <2>2. fence' \in [Fences -> BOOLEAN] /\ queue' \in Seq(Submission)
    BY <1>8, <2>1, SubmitTyped, Zenon DEF SubmitFrame
  <2>3. QED
    BY <1>8, <2>2 DEF SubmitFrame, Goto, Points, semaphoreVars, engineVars
<1>9. CASE PresentFrame
  BY <1>9, FrameDepthAssumption DEF PresentFrame, Present, NextSlot, Goto, Points, fenceVars, semaphoreVars, Presentation, Slots
<1>10. CASE SubmitFrameHeadless
  <2>1. cur_image_index \in Buffers /\ frame_counter \in Fences
    BY FrameDepthAssumption, NumImagesAssumption DEF Images, Buffers, Slots, Fences
  <2>2. fence' \in [Fences -> BOOLEAN] /\ queue' \in Seq(Submission)
    BY <1>10, <2>1, SubmitTyped, Zenon DEF SubmitFrameHeadless
  <2>3. frame_counter' \in Slots
    BY <1>10, FrameDepthAssumption DEF SubmitFrameHeadless, NextSlot, Slots
  <2>4. QED
    BY <1>10, <2>2, <2>3 DEF SubmitFrameHeadless, Goto, Points, semaphoreVars, engineVars
<1>11. CASE Execute /\ UNCHANGED adminVars
  BY <1>11, ExecuteTyped DEF adminVars
<1>12. CASE Display /\ UNCHANGED adminVars
  <2>1. presents \in Seq(Presentation) /\ presents # <<>>
    BY <1>12 DEF Display
  <2>2. Head(presents) \in Presentation /\ Tail(presents) \in Seq(Presentation)
    BY <2>1, HeadTailProperties
  <2>3. QED
    BY <1>12, <2>2 DEF Display, adminVars, Presentation
<1>13. ASSUME NEW s \in Slots, Release(s), UNCHANGED adminVars PROVE TypeOK'
  BY <1>13 DEF Release, adminVars
<1>14. CASE UNCHANGED vars
  BY <1>14 DEF vars, deviceVars, adminVars
<1>15. QED
  BY <1>2, <1>3, <1>4, <1>5, <1>6, <1>7, <1>8, <1>9, <1>10, <1>11, <1>12, <1>13, <1>14
  DEF Next, CallStep, AcquireGrants, AcquireFails, DeviceStep

\* The initial values have their types.
LEMMA InitTyped == Init => TypeOK
  BY FrameDepthAssumption, NumImagesAssumption
  DEF Init, DeviceInit, TypeOK, DeviceTypeOK, AdminTypeOK, Points, Slots, Images, Fences, Submission, Presentation

\* The variables of the frame admin and of the device keep their types.
THEOREM TypeCorrect == Spec => []TypeOK
  BY InitTyped, TypeStep, PTL DEF Spec

-----------------------------------------------------------------------------
(* The inductive invariant.  render_frame looks at two things only: the     *)
(* fence of its slot and the fence that images_in_flight names.  They are   *)
(* enough because every pending submission is the one its entry in          *)
(* images_in_flight describes, and no two of them share a slot.             *)

\* A signalled fence is one that no pending submission will signal.
FenceInv == \A f \in Fences : fence[f] => ~FenceInUse(f)

\* A slot has at most one pending submission.
SlotInv == \A k, m \in 1 .. Len(queue) : queue[k].slot = queue[m].slot => k = m

\* Submission e is a frame, and the tables name its slot.
Listed(e) ==
  /\ e.buf \in Images
  /\ e.slot \in Slots
  /\ images_in_flight[e.buf] = e.slot
  /\ ~Headless /\ e.buf \in Slots => image_index_at_frame[e.buf] = e.slot
  /\ Headless => e.buf = e.slot

\* Every pending submission is listed.
TableInv == \A k \in 1 .. Len(queue) : Listed(queue[k])

\* What a call in progress has already waited for.
CallInv ==
  /\ ~Headless /\ pc \in {"acquire", "wait_image", "submit"} => fence[frame_counter]
  /\ pc = "submit" => ImageFree
  /\ Headless => pc \in {"idle", "wait_image", "submit"}
  /\ Headless /\ pc \in {"wait_image", "submit"} => cur_image_index = frame_counter

IndInv == FenceInv /\ SlotInv /\ TableInv /\ CallInv

\* A command buffer whose entry in images_in_flight is free is not pending.
LEMMA FreeImage ==
  ASSUME TypeOK, FenceInv, TableInv, NEW img \in Images,
         images_in_flight[img] # None => fence[images_in_flight[img]]
  PROVE  ~Pending(img)
<1> SUFFICES ASSUME NEW k \in 1 .. Len(queue), queue[k].buf = img PROVE FALSE
  BY DEF Pending
<1>1. images_in_flight[img] = queue[k].slot /\ queue[k].slot \in Slots
  BY DEF TableInv, Listed
<1>2. queue[k].slot # None /\ queue[k].slot \in Fences
  BY <1>1, FrameDepthAssumption DEF Slots, Fences, None
<1>3. QED
  BY <1>1, <1>2 DEF FenceInv, FenceInUse

\* At the point of submission neither the buffer nor the fence is in use.
LEMMA SubmitPoint == TypeOK /\ IndInv => SubmitsFreeBuffer
<1> SUFFICES ASSUME TypeOK, IndInv, pc = "submit"
             PROVE  ~Pending(cur_image_index) /\ ~FenceInUse(frame_counter)
  BY DEF SubmitsFreeBuffer
<1>1. ~Pending(cur_image_index)
  BY FreeImage DEF IndInv, CallInv, ImageFree, Waited, TypeOK, AdminTypeOK
<1>2. CASE ~Headless
  BY <1>1, <1>2, FrameDepthAssumption DEF IndInv, CallInv, FenceInv, TypeOK, AdminTypeOK, Slots, Fences
<1>3. CASE Headless
  BY <1>1, <1>3 DEF IndInv, CallInv, TableInv, Listed, FenceInUse, Pending
<1>4. QED
  BY <1>2, <1>3

\* A submission at the point SubmitPoint describes keeps the parts of the
\* invariant that speak of the queue.
LEMMA SubmitKeeps ==
  ASSUME TypeOK, IndInv, pc = "submit", NEW waits \in BOOLEAN, NEW signals \in BOOLEAN,
         Submit(cur_image_index, frame_counter, waits, signals),
         images_in_flight' = [images_in_flight EXCEPT ![cur_image_index] = frame_counter],
         Headless => cur_image_index = frame_counter,
         ~Headless => image_index_at_frame' = [s \in Slots |->
           IF s = cur_image_index THEN frame_counter ELSE image_index_at_frame[s]]
  PROVE  FenceInv' /\ SlotInv' /\ TableInv'
<1> DEFINE n == Len(queue)
<1>1. cur_image_index \in Images /\ frame_counter \in Slots
  BY DEF TypeOK, AdminTypeOK
<1>2. cur_image_index \in Buffers /\ frame_counter \in Fences
  BY <1>1, FrameDepthAssumption, NumImagesAssumption DEF Images, Buffers, Slots, Fences
<1>3. /\ Len(queue') = n + 1
      /\ \A k \in 1 .. n : queue'[k] = queue[k]
      /\ queue'[n + 1].buf = cur_image_index
      /\ queue'[n + 1].slot = frame_counter
  <2>1. /\ Len(queue') = n + 1
        /\ \A k \in 1 .. n : queue'[k] = queue[k]
        /\ queue'[n + 1] = [buf |-> cur_image_index, slot |-> frame_counter, waits |-> waits, signals |-> signals]
    BY <1>2, SubmitTyped DEF TypeOK
  <2>2. QED
    BY <2>1
<1>4. n \in Nat
  BY DEF TypeOK, DeviceTypeOK
<1>5. \A k \in 1 .. n : queue[k].buf # cur_image_index /\ queue[k].slot # frame_counter
  BY SubmitPoint DEF SubmitsFreeBuffer, Pending, FenceInUse
<1>6. \A k \in 1 .. Len(queue') : k \in 1 .. n \/ k = n + 1
  BY <1>3, <1>4
<1> HIDE DEF n
<1>7. FenceInv'
  <2> SUFFICES ASSUME NEW f \in Fences, fence'[f], NEW k \in 1 .. Len(queue'), queue'[k].slot = f
               PROVE  FALSE
    BY DEF FenceInv, FenceInUse
  <2>1. fence' = [fence EXCEPT ![frame_counter] = FALSE] /\ fence \in [Fences -> BOOLEAN]
    BY DEF Submit, TypeOK, DeviceTypeOK
  <2>2. f # frame_counter /\ fence[f]
    BY <2>1
  <2>3. k \in 1 .. n
    BY <1>3, <1>6, <2>2
  <2>4. QED
    BY <1>3, <2>2, <2>3 DEF IndInv, FenceInv, FenceInUse, n
<1>8. SlotInv'
  BY <1>3, <1>5, <1>6 DEF IndInv, SlotInv, n
<1>9. TableInv'
  <2> SUFFICES ASSUME NEW k \in 1 .. Len(queue')
               PROVE  /\ queue'[k].buf \in Images
                      /\ queue'[k].slot \in Slots
                      /\ images_in_flight'[queue'[k].buf] = queue'[k].slot
                      /\ ~Headless /\ queue'[k].buf \in Slots
                           => image_index_at_frame'[queue'[k].buf] = queue'[k].slot
                      /\ Headless => queue'[k].buf = queue'[k].slot
    BY DEF TableInv, Listed
  <2>1. images_in_flight \in [Images -> Slots \cup {None}]
    BY DEF TypeOK, AdminTypeOK
  <2>2. CASE k \in 1 .. n
    BY <1>3, <1>5, <2>1, <2>2 DEF IndInv, TableInv, Listed, n
  <2>3. CASE k = n + 1
    BY <1>1, <1>3, <2>1, <2>3
  <2>4. QED
    BY <1>6, <2>2, <2>3
<1>10. QED
  BY <1>7, <1>8, <1>9

\* The completion of the oldest submission keeps the invariant: its fence is
\* signalled, and no other pending submission shares it.
LEMMA ExecuteKeeps ==
  ASSUME TypeOK, IndInv, Execute, UNCHANGED adminVars
  PROVE  IndInv'
<1>1. /\ Len(queue) \in Nat \ {0}
      /\ Len(queue') = Len(queue) - 1
      /\ \A k \in 1 .. Len(queue') : queue'[k] = queue[k + 1]
      /\ fence' = [fence EXCEPT ![queue[1].slot] = TRUE]
  BY ExecuteTyped DEF TypeOK
<1>2. \A k \in 1 .. Len(queue') : k + 1 \in 1 .. Len(queue) /\ k + 1 # 1 /\ k \in Nat
  BY <1>1
<1>3. 1 \in 1 .. Len(queue)
  BY <1>1
<1>4. fence \in [Fences -> BOOLEAN]
  BY DEF TypeOK, DeviceTypeOK
<1>5. FenceInv'
  <2> SUFFICES ASSUME NEW f \in Fences, fence'[f], NEW k \in 1 .. Len(queue'), queue'[k].slot = f
               PROVE  FALSE
    BY DEF FenceInv, FenceInUse
  <2>1. queue[k + 1].slot = f
    BY <1>1
  <2>2. f # queue[1].slot
    BY <1>2, <1>3, <2>1 DEF IndInv, SlotInv
  <2>3. fence[f]
    BY <1>1, <1>4, <2>2
  <2>4. QED
    BY <1>2, <2>1, <2>3 DEF IndInv, FenceInv, FenceInUse
<1>6. SlotInv'
  <2> SUFFICES ASSUME NEW k \in 1 .. Len(queue'), NEW m \in 1 .. Len(queue'),
                      queue'[k].slot = queue'[m].slot
               PROVE  k = m
    BY DEF SlotInv
  <2>1. k + 1 = m + 1
    BY <1>1, <1>2 DEF IndInv, SlotInv
  <2>2. QED
    BY <1>2, <2>1
<1>7. TableInv'
  BY <1>1, <1>2 DEF IndInv, TableInv, Listed, adminVars
<1>8. CallInv'
  BY <1>1, <1>4, FrameDepthAssumption
  DEF IndInv, CallInv, ImageFree, Waited, adminVars, TypeOK, AdminTypeOK, Slots, Fences, None
<1>9. QED
  BY <1>5, <1>6, <1>7, <1>8 DEF IndInv

\* IndInv is inductive.
LEMMA Inductive == TypeOK /\ IndInv /\ [Next]_vars => IndInv'
<1> SUFFICES ASSUME TypeOK, IndInv, [Next]_vars PROVE IndInv'
  OBVIOUS
<1> USE DEF IndInv
\* Steps that leave the queue, the fences and the tables alone only have to
\* keep CallInv.
<1>1. ASSUME UNCHANGED <<fence, queue, image_index_at_frame, images_in_flight>>, CallInv'
      PROVE  IndInv'
  BY <1>1 DEF FenceInv, FenceInUse, SlotInv, TableInv, Listed
<1>2. CASE RenderFrame
  BY <1>1, <1>2 DEF RenderFrame, Advance, Goto, deviceVars, CallInv
<1>3. CASE RenderFrameHeadless
  BY <1>1, <1>3 DEF RenderFrameHeadless, Goto, deviceVars, CallInv
<1>4. CASE WaitFence
  BY <1>1, <1>4 DEF WaitFence, Waited, Advance, Goto, deviceVars, CallInv
<1>5. ASSUME NEW img \in Images, Acquire(img) PROVE IndInv'
  BY <1>1, <1>5 DEF Acquire, Goto, fenceVars, CallInv
<1>6. ASSUME NEW img \in Images, AcquireSuboptimal(img) PROVE IndInv'
  BY <1>1, <1>6 DEF AcquireSuboptimal, Goto, fenceVars, CallInv
<1>7. CASE AcquireOutOfDate \/ AcquireOther \/ Regenerated \/ Catch
  BY <1>1, <1>7 DEF AcquireOutOfDate, AcquireOther, Regenerated, Catch, Advance, Goto, deviceVars, CallInv
<1>8. CASE WaitImage
  BY <1>1, <1>8 DEF WaitImage, ImageFree, Waited, Advance, Goto, deviceVars, CallInv
<1>9. CASE SubmitFrame
  <2>1. FenceInv' /\ SlotInv' /\ TableInv'
    BY <1>9, SubmitKeeps, Zenon DEF SubmitFrame, Goto
  <2>2. CallInv'
    BY <1>9 DEF SubmitFrame, Goto, CallInv
  <2>3. QED
    BY <2>1, <2>2
<1>10. CASE PresentFrame
  BY <1>1, <1>10 DEF PresentFrame, Goto, fenceVars, CallInv
<1>11. CASE SubmitFrameHeadless
  <2>1. FenceInv' /\ SlotInv' /\ TableInv'
    BY <1>11, SubmitKeeps, Zenon DEF SubmitFrameHeadless, Goto, CallInv
  <2>2. CallInv'
    BY <1>11 DEF SubmitFrameHeadless, Goto, CallInv
  <2>3. QED
    BY <2>1, <2>2
<1>12. CASE Execute /\ UNCHANGED adminVars
  BY <1>12, ExecuteKeeps
<1>13. CASE Display /\ UNCHANGED adminVars
  BY <1>1, <1>13 DEF Display, adminVars, CallInv, ImageFree, Waited
<1>14. ASSUME NEW s \in Slots, Release(s), UNCHANGED adminVars PROVE IndInv'
  BY <1>1, <1>14 DEF Release, adminVars, CallInv, ImageFree, Waited
<1>15. CASE UNCHANGED vars
  BY <1>1, <1>15 DEF vars, deviceVars, adminVars, CallInv, ImageFree, Waited
<1>16. QED
  BY <1>2, <1>3, <1>4, <1>5, <1>6, <1>7, <1>8, <1>9, <1>10, <1>11, <1>12, <1>13, <1>14, <1>15
  DEF Next, CallStep, AcquireGrants, AcquireFails, DeviceStep

\* IndInv holds in every state.
LEMMA Invariance == Spec => [](TypeOK /\ IndInv)
<1>1. Init => IndInv
  BY DEF Init, DeviceInit, IndInv, FenceInv, FenceInUse, SlotInv, TableInv, Listed, CallInv
<1>2. QED
  BY <1>1, Inductive, TypeCorrect, PTL DEF Spec

\* Whatever the number of slots and images, with or without a window, a
\* command buffer is submitted only when it is not pending, with a fence that
\* no pending submission will signal.
THEOREM SubmissionSafe == Spec => []SubmitsFreeBuffer
  BY Invariance, SubmitPoint, PTL

\* With a window and no more images than slots, a command buffer for which
\* wait_for has returned is not pending.
LEMMA WaitForFree ==
  ASSUME ~Headless, NumImages <= FrameDepth, TypeOK, IndInv, NEW img \in Images, WaitForReturns(img)
  PROVE  ~Pending(img)
<1> SUFFICES ASSUME NEW k \in 1 .. Len(queue), queue[k].buf = img PROVE FALSE
  BY DEF Pending
<1>1. img \in Slots
  BY FrameDepthAssumption, NumImagesAssumption DEF Images, Slots
<1>2. image_index_at_frame[img] = queue[k].slot /\ queue[k].slot \in Slots
  BY <1>1 DEF IndInv, TableInv, Listed
<1>3. queue[k].slot # None /\ queue[k].slot \in Fences
  BY <1>2, FrameDepthAssumption DEF Slots, Fences, None
<1>4. QED
  BY <1>1, <1>2, <1>3 DEF WaitForReturns, Waited, IndInv, FenceInv, FenceInUse

\* With a window, and with no more images than slots, a command buffer for
\* which FrameAdmin::wait_for returns may be reset.
THEOREM WaitForSafe ==
  ASSUME ~Headless, NumImages <= FrameDepth
  PROVE  Spec => []WaitForMeansFree
<1>1. TypeOK /\ IndInv => WaitForMeansFree
  BY WaitForFree DEF WaitForMeansFree
<1>2. QED
  BY <1>1, Invariance, PTL

-----------------------------------------------------------------------------
(* The image_available semaphores.  One of them is signalled, or will be,   *)
(* only on behalf of the call in progress or of a pending submission that   *)
(* waits for it: each acquire makes one signal and each submission takes    *)
(* one away, as long as every image acquired with it is submitted.          *)

\* The call in progress has acquired an image that it has not submitted.
Acquired(s) == s = frame_counter /\ pc \in {"wait_image", "submit"}

\* Here and below, the submissions that are meant are those of frames: a
\* renderer submits copies too, with the fence that no slot has.
SemaphoreInv ==
  /\ \A k \in 1 .. Len(queue) : queue[k].slot \in Slots => queue[k].waits
  /\ \A s \in Slots \ staleAvailable :
       /\ available[s] \/ granted[s] # None => FenceInUse(s) \/ Acquired(s)
       /\ ~(available[s] /\ granted[s] # None)

\* The semaphore of the slot is free when an acquire is about to use it.
LEMMA AcquirePoint ==
  ASSUME TypeOK, IndInv, SemaphoreInv, ~Headless, pc = "acquire", frame_counter \notin staleAvailable
  PROVE  ~available[frame_counter] /\ granted[frame_counter] = None /\ ~FenceInUse(frame_counter)
<1>1. frame_counter \in Slots /\ frame_counter \in Fences
  BY FrameDepthAssumption DEF TypeOK, AdminTypeOK, Slots, Fences
<1>2. ~FenceInUse(frame_counter)
  BY <1>1 DEF IndInv, CallInv, FenceInv
<1>3. QED
  BY <1>1, <1>2 DEF SemaphoreInv, Acquired

\* The engine shows an image, or signals that one has left the screen.
LEMMA SemaphoreEngine ==
  ASSUME TypeOK, SemaphoreInv, Display \/ (\E s \in Slots : Release(s)), UNCHANGED adminVars
  PROVE  SemaphoreInv'
<1>1. available \in [Slots -> BOOLEAN] /\ granted \in [Slots -> Images \cup {None}]
  BY DEF TypeOK, DeviceTypeOK
<1>2. /\ UNCHANGED <<queue, staleAvailable>>
      /\ \A s : (FenceInUse(s)' <=> FenceInUse(s)) /\ (Acquired(s)' <=> Acquired(s))
  BY DEF Display, Release, adminVars, Acquired, FenceInUse
<1>3. CASE Display
  <2>1. ASSUME NEW s \in Slots
        PROVE  \/ available'[s] = available[s] /\ granted'[s] = granted[s]
               \/ granted[s] # None /\ available'[s] /\ granted'[s] = None
    <3>1. presents[1] \in Presentation /\ Head(presents) = presents[1]
      BY <1>3, EmptySeq, ElementOfSeq DEF Display, TypeOK, DeviceTypeOK
    <3>2. presents[1].image # None
      BY <3>1, NumImagesAssumption DEF Presentation, Images, None
    <3>3. QED
      BY <1>1, <1>3, <3>1, <3>2 DEF Display
  <2>2. QED
    BY <1>2, <2>1 DEF SemaphoreInv
<1>4. ASSUME NEW s \in Slots, Release(s) PROVE SemaphoreInv'
  BY <1>1, <1>2, <1>4 DEF Release, SemaphoreInv
<1>5. QED
  BY <1>3, <1>4

\* The oldest submission completes; it waits for no semaphore but that of a
\* frame.
LEMMA SemaphoreExecute ==
  ASSUME TypeOK, SemaphoreInv, Execute, UNCHANGED adminVars,
         \A k \in 1 .. Len(queue) : queue[k].slot \in Slots \/ ~queue[k].waits
  PROVE  SemaphoreInv'
<1>1. available \in [Slots -> BOOLEAN]
  BY DEF TypeOK, DeviceTypeOK
<1>2. /\ Len(queue) \in Nat \ {0}
      /\ Len(queue') = Len(queue) - 1
      /\ \A k \in 1 .. Len(queue') : queue'[k] = queue[k + 1]
  BY ExecuteTyped DEF TypeOK
<1>3. 1 \in 1 .. Len(queue) /\ Head(queue) = queue[1] /\ \A k \in 1 .. Len(queue') : k + 1 \in 1 .. Len(queue)
  BY <1>2 DEF TypeOK, DeviceTypeOK
<1>4. UNCHANGED <<granted, staleAvailable>> /\ \A s : Acquired(s)' <=> Acquired(s)
  BY DEF Execute, engineVars, adminVars, Acquired
<1>5. \A k \in 1 .. Len(queue') : queue'[k].slot \in Slots => queue'[k].waits
  BY <1>2, <1>3, Zenon DEF SemaphoreInv
<1>6. ASSUME NEW s \in Slots, s # queue[1].slot, FenceInUse(s) PROVE FenceInUse(s)'
  <2>1. PICK k \in 1 .. Len(queue) : queue[k].slot = s
    BY <1>6 DEF FenceInUse
  <2>2. k # 1
    BY <1>6, <2>1
  <2>3. k - 1 \in 1 .. Len(queue') /\ queue'[k - 1] = queue[k]
    BY <1>2, <2>2
  <2>4. QED
    BY <2>1, <2>3 DEF FenceInUse
<1>7. ASSUME NEW s \in Slots \ staleAvailable, s # queue[1].slot
      PROVE  /\ available'[s] \/ granted'[s] # None => FenceInUse(s)' \/ Acquired(s)'
             /\ ~(available'[s] /\ granted'[s] # None)
  <2>1. available'[s] = available[s]
    BY <1>1, <1>3, <1>7, Zenon DEF Execute
  <2>2. QED
    BY <1>4, <1>6, <1>7, <2>1 DEF SemaphoreInv
<1>8. ASSUME queue[1].slot \in Slots \ staleAvailable
      PROVE  ~available'[queue[1].slot] /\ granted'[queue[1].slot] = None
  <2>1. queue[1].waits
    BY <1>3, <1>8 DEF SemaphoreInv
  <2>2. available[queue[1].slot] /\ available' = [available EXCEPT ![queue[1].slot] = FALSE]
    BY <1>3, <2>1, Zenon DEF Execute
  <2>3. QED
    BY <1>1, <1>4, <1>8, <2>2, Zenon DEF SemaphoreInv
<1>9. QED
  BY <1>4, <1>5, <1>7, <1>8 DEF SemaphoreInv

\* SemaphoreInv is inductive.
LEMMA SemaphoreStep ==
  ASSUME TypeOK, IndInv, SemaphoreInv, ~Headless, [Next]_vars
  PROVE  SemaphoreInv'
<1> USE DEF SemaphoreInv
<1>1. available \in [Slots -> BOOLEAN] /\ granted \in [Slots -> Images \cup {None}] /\ frame_counter \in Slots
  BY DEF TypeOK, DeviceTypeOK, AdminTypeOK
\* Steps that leave the semaphores and the queue alone, and keep what the
\* call has acquired.
<1>2. ASSUME UNCHANGED <<queue, available, granted, staleAvailable>>, \A s \in Slots : Acquired(s) => Acquired(s)'
      PROVE  SemaphoreInv'
  BY <1>2, Zenon DEF FenceInUse
<1>3. CASE RenderFrame \/ WaitFence \/ AcquireOutOfDate \/ AcquireOther \/ Regenerated \/ Catch \/ WaitImage
  BY <1>2, <1>3, Zenon DEF RenderFrame, WaitFence, AcquireOutOfDate, AcquireOther, Regenerated, Catch, WaitImage,
                    Advance, Goto, deviceVars, Acquired
<1>4. ASSUME NEW img \in Images, Acquire(img) PROVE SemaphoreInv'
  <2>1. frame_counter \notin staleAvailable => ~available[frame_counter] /\ granted[frame_counter] = None
    BY <1>4, AcquirePoint, Zenon DEF Acquire, Goto
  <2>2. /\ UNCHANGED <<queue, available, frame_counter, staleAvailable>> /\ pc = "acquire" /\ pc' = "wait_image"
        /\ granted' = [granted EXCEPT ![frame_counter] = img]
    BY <1>4 DEF Acquire, Goto, Grant, fenceVars, semaphoreVars
  <2>3. QED
    BY <1>1, <2>1, <2>2 DEF FenceInUse, Acquired
<1>5. ASSUME NEW img \in Images, AcquireSuboptimal(img) PROVE SemaphoreInv'
  <2>1. /\ UNCHANGED <<queue, available, frame_counter>> /\ pc = "acquire"
        /\ staleAvailable' = staleAvailable \cup {frame_counter}
        /\ granted' = [granted EXCEPT ![frame_counter] = img]
    BY <1>5 DEF AcquireSuboptimal, Goto, Grant, fenceVars, semaphoreVars
  <2>2. QED
    BY <1>1, <2>1 DEF FenceInUse, Acquired
<1>6. CASE SubmitFrame
  <2>1. cur_image_index \in Buffers /\ frame_counter \in Fences
    BY FrameDepthAssumption, NumImagesAssumption DEF TypeOK, AdminTypeOK, Images, Buffers, Slots, Fences
  <2>2. /\ Len(queue') = Len(queue) + 1
        /\ \A k \in 1 .. Len(queue) : queue'[k] = queue[k]
        /\ queue'[Len(queue) + 1] = [buf |-> cur_image_index, slot |-> frame_counter, waits |-> TRUE, signals |-> TRUE]
    <3>1. Submit(cur_image_index, frame_counter, TRUE, TRUE) /\ DeviceTypeOK
      BY <1>6, Zenon DEF SubmitFrame, TypeOK
    <3>2. QED
      BY <2>1, <3>1, SubmitTyped, Zenon
  <2>3. queue'[Len(queue) + 1].slot = frame_counter /\ queue'[Len(queue) + 1].waits
    BY <2>2
  <2> Len(queue) \in Nat
    BY DEF TypeOK, DeviceTypeOK
  <2>4. \A s \in Slots : FenceInUse(s) \/ s = frame_counter => FenceInUse(s)'
    BY <2>2, <2>3 DEF FenceInUse
  <2>5. \A k \in 1 .. Len(queue') : k \in 1 .. Len(queue) \/ k = Len(queue) + 1
    BY <2>2
  <2>6. UNCHANGED <<available, granted, staleAvailable>>
    BY <1>6, Zenon DEF SubmitFrame, semaphoreVars, engineVars
  <2>7. QED
    BY <2>2, <2>3, <2>4, <2>5, <2>6, Zenon DEF Acquired
<1>7. CASE PresentFrame
  BY <1>2, <1>7, Zenon DEF PresentFrame, Goto, Present, fenceVars, semaphoreVars, Acquired
<1>8. CASE Execute /\ UNCHANGED adminVars
  BY <1>8, SemaphoreExecute, Zenon DEF IndInv, TableInv, Listed
<1>9. CASE UNCHANGED vars
  BY <1>2, <1>9, Zenon DEF vars, deviceVars, adminVars, Acquired
<1>10. QED
  BY <1>3, <1>4, <1>5, <1>6, <1>7, <1>8, <1>9, SemaphoreEngine, Zenon
  DEF Next, CallStep, AcquireGrants, AcquireFails, DeviceStep, RenderFrameHeadless, SubmitFrameHeadless

\* Whatever the number of slots and images, an acquire is given a semaphore
\* that nothing has signalled or will signal, and that nothing waits for,
\* unless an earlier acquire with it handed out an image and threw.
THEOREM AcquireSafe == Spec => []AcquireSemaphoreFree
<1> DEFINE J == ~Headless => SemaphoreInv
<1>1. Init => J
  BY DEF Init, DeviceInit, SemaphoreInv
<1>2. TypeOK /\ IndInv /\ J /\ [Next]_vars => J'
  BY SemaphoreStep
<1>3. TypeOK /\ IndInv /\ J => AcquireSemaphoreFree
  BY AcquirePoint, Zenon DEF AcquireSemaphoreFree, IndInv, CallInv
<1>4. QED
  BY <1>1, <1>2, <1>3, Invariance, PTL DEF Spec

-----------------------------------------------------------------------------
(* The frame admin implements the pipeline: its safety, since that a frame  *)
(* leaves is liveness.                                                      *)

BuffersOf(q) == [k \in 1 .. Len(q) |-> q[k].buf]

\* The refinement mapping: the command buffers of the queue.
InFlight == BuffersOf(queue)

\* Pending submissions have different slots, none of them the one the call
\* is about to use: there is room for another.
LEMMA SlotFree ==
  ASSUME TypeOK, IndInv, pc = "submit"
  PROVE  Len(queue) < FrameDepth
<1> DEFINE n == Len(queue)
           T == Slots \ {frame_counter}
           f == [k \in 1 .. n |-> queue[k].slot]
<1>1. n \in Nat /\ frame_counter \in Slots
  BY DEF TypeOK, DeviceTypeOK, AdminTypeOK
<1> HIDE DEF n
<1>2. IsFiniteSet(Slots) /\ Cardinality(Slots) = FrameDepth
  BY FS_Interval, FrameDepthAssumption DEF Slots
<1>3. IsFiniteSet(T) /\ Cardinality(T) = FrameDepth - 1
  BY <1>1, <1>2, FS_RemoveElement
<1>4. IsFiniteSet(1 .. n) /\ Cardinality(1 .. n) = n
  BY <1>1, FS_Interval
<1>5. \A k \in 1 .. n : queue[k].slot \in T
  BY SubmitPoint DEF SubmitsFreeBuffer, FenceInUse, IndInv, TableInv, Listed, n
<1>6. f \in [1 .. n -> T] /\ \A x, y \in 1 .. n : f[x] = f[y] => x = y
  BY <1>5 DEF IndInv, SlotInv, n
<1> HIDE DEF T, f
<1>7. ~(Cardinality(T) < Cardinality(1 .. n))
  <2> DEFINE D == 1 .. n
  <2>1. IsFiniteSet(D) /\ f \in [D -> T] /\ \A x, y \in D : f[x] = f[y] => x = y
    BY <1>4, <1>6
  <2> HIDE DEF D
  <2>2. ~(Cardinality(T) < Cardinality(D))
    BY <1>3, <2>1, FS_PigeonHole
  <2>3. QED
    BY <2>2 DEF D
<1>8. n < FrameDepth
  BY <1>1, <1>3, <1>4, <1>7, FrameDepthAssumption
<1>9. QED
  BY <1>8 DEF n

\* The command buffers of the queue are a sequence of images, as long.
LEMMA BuffersTyped ==
  ASSUME NEW q \in Seq(Submission), \A k \in 1 .. Len(q) : q[k].buf \in Images
  PROVE  /\ BuffersOf(q) \in Seq(Images) /\ Len(BuffersOf(q)) = Len(q)
         /\ \A k \in 1 .. Len(q) : BuffersOf(q)[k] = q[k].buf
<1>1. Len(q) \in Nat
  BY LenProperties
<1>2. BuffersOf(q) \in [1 .. Len(q) -> Images]
  BY DEF BuffersOf
<1>3. BuffersOf(q) \in Seq(Images)
  BY <1>1, <1>2, SeqDef
<1>4. QED
  BY <1>1, <1>2, <1>3, LenProperties DEF BuffersOf

\* A submission is an entry to the pipeline.
LEMMA SubmitEnters ==
  ASSUME TypeOK, IndInv, TypeOK', IndInv', pc = "submit", NEW waits \in BOOLEAN, NEW signals \in BOOLEAN,
         Submit(cur_image_index, frame_counter, waits, signals)
  PROVE  Pipeline!Next
<1>1. cur_image_index \in Images /\ cur_image_index \in Buffers /\ frame_counter \in Fences
  BY FrameDepthAssumption, NumImagesAssumption DEF TypeOK, AdminTypeOK, Images, Buffers, Slots, Fences
<1>2. /\ Len(queue') = Len(queue) + 1
      /\ \A k \in 1 .. Len(queue) : queue'[k] = queue[k]
      /\ queue'[Len(queue) + 1] = [buf |-> cur_image_index, slot |-> frame_counter, waits |-> waits, signals |-> signals]
  BY <1>1, SubmitTyped, Zenon DEF TypeOK
<1>3. /\ InFlight \in Seq(Images) /\ Len(InFlight) = Len(queue) /\ Len(queue) \in Nat
      /\ \A k \in 1 .. Len(queue) : InFlight[k] = queue[k].buf
  BY BuffersTyped, LenProperties, Zenon DEF IndInv, TableInv, Listed, TypeOK, DeviceTypeOK, InFlight
<1>4. /\ InFlight' \in Seq(Images) /\ Len(InFlight') = Len(queue')
      /\ \A k \in 1 .. Len(queue') : InFlight'[k] = queue'[k].buf
  BY BuffersTyped, Zenon DEF IndInv, TableInv, Listed, TypeOK, DeviceTypeOK, InFlight
<1> DEFINE a == Append(InFlight, cur_image_index)
<1>5. /\ a \in Seq(Images) /\ Len(a) = Len(queue) + 1
      /\ \A k \in 1 .. Len(queue) : a[k] = InFlight[k]
      /\ a[Len(queue) + 1] = cur_image_index
  BY <1>1, <1>3, AppendProperties
<1> HIDE DEF a
<1>6. \A k \in 1 .. Len(queue) + 1 : InFlight'[k] = a[k]
  <2> SUFFICES ASSUME NEW k \in 1 .. Len(queue) + 1 PROVE InFlight'[k] = a[k]
    OBVIOUS
  <2>1. CASE k \in 1 .. Len(queue)
    BY <1>2, <1>3, <1>4, <1>5, <2>1, Zenon
  <2>2. CASE k = Len(queue) + 1
    BY <1>2, <1>3, <1>4, <1>5, <2>2
  <2>3. QED
    BY <1>3, <2>1, <2>2
<1>7. InFlight' = a
  BY <1>2, <1>4, <1>5, <1>6, SeqEqual, Zenon
<1>8. \A k \in 1 .. Len(InFlight) : InFlight[k] # cur_image_index
  BY <1>3, SubmitPoint DEF SubmitsFreeBuffer, Pending
<1>9. Len(InFlight) < FrameDepth
  BY <1>3, SlotFree
<1>10. \E img \in Images : Pipeline!Enter(img)
  BY <1>1, <1>7, <1>8, <1>9, Zenon DEF Pipeline!Enter, InFlight, BuffersOf, a
<1>11. QED
  BY <1>10 DEF Pipeline!Next

\* The completion of the oldest submission is a leave.
LEMMA ExecuteLeaves ==
  ASSUME TypeOK, IndInv, TypeOK', IndInv', Execute
  PROVE  Pipeline!Next
<1>1. /\ Len(queue) \in Nat \ {0}
      /\ Len(queue') = Len(queue) - 1
      /\ \A k \in 1 .. Len(queue') : queue'[k] = queue[k + 1]
  BY ExecuteTyped DEF TypeOK
<1>2. /\ InFlight \in Seq(Images) /\ Len(InFlight) = Len(queue)
      /\ \A k \in 1 .. Len(queue) : InFlight[k] = queue[k].buf
  BY BuffersTyped, Zenon DEF IndInv, TableInv, Listed, TypeOK, DeviceTypeOK, InFlight
<1>3. /\ InFlight' \in Seq(Images) /\ Len(InFlight') = Len(queue')
      /\ \A k \in 1 .. Len(queue') : InFlight'[k] = queue'[k].buf
  BY BuffersTyped, Zenon DEF IndInv, TableInv, Listed, TypeOK, DeviceTypeOK, InFlight
<1>4. InFlight # <<>>
  BY <1>1, <1>2, EmptySeq
<1>5. /\ Tail(InFlight) \in Seq(Images) /\ Len(Tail(InFlight)) = Len(queue')
      /\ \A k \in 1 .. Len(queue') : Tail(InFlight)[k] = InFlight[k + 1]
  BY <1>1, <1>2, <1>4, HeadTailProperties
<1>6. \A k \in 1 .. Len(queue') : InFlight'[k] = Tail(InFlight)[k]
  BY <1>1, <1>2, <1>3, <1>5
<1>7. InFlight' = Tail(InFlight)
  BY <1>3, <1>5, <1>6, SeqEqual, Zenon
<1>8. Pipeline!Leave
  BY <1>4, <1>7, Zenon DEF Pipeline!Leave, InFlight, BuffersOf
<1>9. QED
  BY <1>8 DEF Pipeline!Next

\* Every step of the frame admin and the device is a step of the pipeline.
LEMMA PipelineStep ==
  ASSUME TypeOK, IndInv, TypeOK', IndInv', [Next]_vars
  PROVE  [Pipeline!Next]_InFlight
<1>1. CASE SubmitFrame
  BY <1>1, SubmitEnters, Zenon DEF SubmitFrame, Goto
<1>2. CASE SubmitFrameHeadless
  BY <1>2, SubmitEnters, Zenon DEF SubmitFrameHeadless, Goto
<1>3. CASE Execute
  BY <1>3, ExecuteLeaves
<1>4. CASE UNCHANGED queue
  BY <1>4 DEF InFlight
<1>5. ASSUME NEW img \in Images, Acquire(img) \/ AcquireSuboptimal(img) PROVE UNCHANGED queue
  BY <1>5 DEF Acquire, AcquireSuboptimal, fenceVars
<1>6. CASE RenderFrame \/ WaitFence \/ AcquireOutOfDate \/ AcquireOther \/ Regenerated \/ Catch \/ WaitImage
  BY <1>4, <1>6, Zenon DEF RenderFrame, WaitFence, AcquireOutOfDate, AcquireOther, Regenerated, Catch, WaitImage, Advance, deviceVars
<1>7. CASE RenderFrameHeadless \/ PresentFrame \/ Display \/ (\E s \in Slots : Release(s)) \/ UNCHANGED vars
  BY <1>4, <1>7, Zenon DEF RenderFrameHeadless, PresentFrame, Display, Release, vars, deviceVars, fenceVars
<1>8. QED
  BY <1>1, <1>2, <1>3, <1>4, <1>5, <1>6, <1>7 DEF Next, CallStep, AcquireGrants, AcquireFails, DeviceStep

\* For every number of slots and images, with or without a window, the frames
\* in flight are at most as many as the slots, each at most once, and they
\* leave in the order in which render_frame submitted them.
THEOREM RefinesPipeline == Spec => Pipeline!Init /\ [][Pipeline!Next]_InFlight
<1>1. Init => Pipeline!Init
  BY DEF Init, DeviceInit, Pipeline!Init
<1>2. QED
  BY <1>1, PipelineStep, Invariance, PTL DEF Spec

-----------------------------------------------------------------------------
(* What no fence of a FrameAdmin covers: the presents and their            *)
(* render_finish semaphores.  With a window and no more images than slots, *)
(* the images themselves keep the engine from falling a whole ring of      *)
(* slots behind.                                                           *)

\* An image is with the application or waits to be shown, and not twice.
HeldInv ==
  /\ pc \in {"wait_image", "submit", "present"} => cur_image_index \in held
  /\ \A k \in 1 .. Len(presents) : presents[k].image \notin held
  /\ \A k, m \in 1 .. Len(presents) : presents[k].image = presents[m].image => k = m

\* The slot of the call j calls before the one with slot c.
Back(c, j) == IF j <= c THEN c - j ELSE c - j + FrameDepth

\* The presents that wait are those of the last calls that presented.
SlotsInv == \A k \in 1 .. Len(presents) : presents[k].slot = Back(frame_counter, Len(presents) + 1 - k)

\* Image b has a present with slot s that has not been processed, or the call
\* in progress is about to make one.
Presented(s, b) ==
  \/ pc = "present" /\ s = frame_counter /\ b = cur_image_index
  \/ \E k \in 1 .. Len(presents) : presents[k].slot = s /\ presents[k].image = b

\* A pending submission has its present; a signalled render_finish has one
\* too, and its submission has completed.  This says nothing of slots that
\* lost the wait of a present with their swapchain.
PresentedInv ==
  /\ \A k \in 1 .. Len(queue) :
       queue[k].slot \in Slots \ staleFinished => Presented(queue[k].slot, queue[k].buf)
  /\ \A s \in Slots \ staleFinished : finished[s] => ~FenceInUse(s) /\ \E b \in Images : Presented(s, b)

PresentInv == HeldInv /\ SlotsInv /\ PresentedInv

-----------------------------------------------------------------------------
\* The images bound the presents that wait.
LEMMA Room ==
  ASSUME TypeOK, HeldInv, NumImages <= FrameDepth
  PROVE  /\ Len(presents) \in Nat
         /\ Len(presents) <= FrameDepth
         /\ held # {} => Len(presents) < FrameDepth
<1> DEFINE n == Len(presents)
           D == 1 .. n
           f == [k \in D |-> presents[k].image]
<1>1. n \in Nat
  BY DEF TypeOK, DeviceTypeOK
<1> HIDE DEF n
<1>2. IsFiniteSet(D) /\ Cardinality(D) = n
  BY <1>1, FS_Interval
<1>3. IsFiniteSet(Images) /\ Cardinality(Images) = NumImages
  BY FS_Interval, NumImagesAssumption DEF Images
<1>4. \A k \in D : presents[k].image \in Images
  <2>1. presents \in Seq(Presentation)
    BY DEF TypeOK, DeviceTypeOK
  <2>2. \A k \in D : presents[k] \in Presentation
    BY <2>1, ElementOfSeq DEF n
  <2>3. QED
    BY <2>2 DEF Presentation
<1>5. \A x, y \in D : f[x] = f[y] => x = y
  BY DEF HeldInv, n
<1>6. f \in [D -> Images]
  BY <1>4
<1>7. \A h \in held : f \in [D -> Images \ {h}]
  BY <1>4 DEF HeldInv, n
<1> HIDE DEF D, f
<1>8. ~(Cardinality(Images) < Cardinality(D))
  BY <1>2, <1>3, <1>5, <1>6, FS_PigeonHole
<1>9. ASSUME NEW h \in held PROVE n < FrameDepth
  <2>1. h \in Images
    BY DEF TypeOK, DeviceTypeOK
  <2> DEFINE T == Images \ {h}
  <2>2. IsFiniteSet(T) /\ Cardinality(T) = NumImages - 1
    BY <1>3, <2>1, FS_RemoveElement
  <2>3. f \in [D -> T]
    BY <1>7
  <2> HIDE DEF T
  <2>4. ~(Cardinality(T) < Cardinality(D))
    BY <1>2, <1>5, <2>2, <2>3, FS_PigeonHole
  <2>5. QED
    BY <1>1, <1>2, <2>2, <2>4, NumImagesAssumption, FrameDepthAssumption
<1>10. n <= FrameDepth
  BY <1>1, <1>2, <1>3, <1>8, NumImagesAssumption, FrameDepthAssumption
<1>11. QED
  BY <1>1, <1>9, <1>10 DEF n

\* The presents that wait have different slots, and none has the slot of a
\* call that has an image.
LEMMA DifferentSlots ==
  ASSUME TypeOK, HeldInv, SlotsInv, NumImages <= FrameDepth
  PROVE  /\ \A k, m \in 1 .. Len(presents) : presents[k].slot = presents[m].slot => k = m
         /\ held # {} => \A k \in 1 .. Len(presents) : presents[k].slot # frame_counter
<1>1. frame_counter \in 0 .. FrameDepth - 1 /\ FrameDepth \in Nat \ {0}
  BY FrameDepthAssumption DEF TypeOK, AdminTypeOK, Slots
<1>2. Len(presents) \in Nat /\ Len(presents) <= FrameDepth /\ (held # {} => Len(presents) < FrameDepth)
  BY Room
<1>3. \A i, j \in 1 .. FrameDepth : Back(frame_counter, i) = Back(frame_counter, j) => i = j
  BY <1>1 DEF Back
<1>4. \A i \in 1 .. FrameDepth - 1 : Back(frame_counter, i) # frame_counter
  BY <1>1 DEF Back
<1>5. \A k \in 1 .. Len(presents) :
        /\ Len(presents) + 1 - k \in 1 .. FrameDepth
        /\ held # {} => Len(presents) + 1 - k \in 1 .. FrameDepth - 1
  BY <1>1, <1>2
<1>6. ASSUME NEW k \in 1 .. Len(presents), NEW m \in 1 .. Len(presents), presents[k].slot = presents[m].slot
      PROVE  k = m
  <2>1. Back(frame_counter, Len(presents) + 1 - k) = Back(frame_counter, Len(presents) + 1 - m)
    BY <1>6 DEF SlotsInv
  <2>2. Len(presents) + 1 - k = Len(presents) + 1 - m
    BY <1>3, <1>5, <2>1
  <2>3. QED
    BY <1>2, <2>2
<1>7. ASSUME held # {}, NEW k \in 1 .. Len(presents) PROVE presents[k].slot # frame_counter
  BY <1>4, <1>5, <1>7 DEF SlotsInv
<1>8. QED
  BY <1>6, <1>7

-----------------------------------------------------------------------------
(* PresentInv is inductive. *)

\* Steps of a call that leave the device alone, and the acquires.
LEMMA QuietSteps ==
  ASSUME PresentInv, UNCHANGED <<queue, finished, presents, staleFinished, frame_counter>>,
         pc # "present", pc' # "present", HeldInv'
  PROVE  PresentInv'
<1>1. SlotsInv'
  BY DEF PresentInv, SlotsInv, Back
<1>2. \A s, b : Presented(s, b)' <=> Presented(s, b)
  BY DEF Presented
<1>3. PresentedInv'
  BY <1>2 DEF PresentInv, PresentedInv, FenceInUse
<1>4. QED
  BY <1>1, <1>3 DEF PresentInv

\* The frame that is submitted takes the place of one that was shown.
LEMMA SubmitStep ==
  ASSUME TypeOK, IndInv, PresentInv, NumImages <= FrameDepth, SubmitFrame
  PROVE  PresentInv'
<1>1. pc = "submit" /\ pc' = "present" /\ UNCHANGED <<finished, presents, held, staleFinished, frame_counter, cur_image_index>>
  BY DEF SubmitFrame, Goto, semaphoreVars, engineVars
<1>2. cur_image_index \in Buffers /\ frame_counter \in Fences /\ frame_counter \in Slots
  BY FrameDepthAssumption, NumImagesAssumption DEF TypeOK, AdminTypeOK, Images, Buffers, Slots, Fences
<1>3. /\ Len(queue') = Len(queue) + 1
      /\ \A k \in 1 .. Len(queue) : queue'[k] = queue[k]
      /\ queue'[Len(queue) + 1] = [buf |-> cur_image_index, slot |-> frame_counter, waits |-> TRUE, signals |-> TRUE]
  <2>1. Submit(cur_image_index, frame_counter, TRUE, TRUE) /\ DeviceTypeOK
    BY Zenon DEF SubmitFrame, TypeOK
  <2>2. QED
    BY <1>2, <2>1, SubmitTyped, Zenon
<1>4. queue'[Len(queue) + 1].slot = frame_counter /\ queue'[Len(queue) + 1].buf = cur_image_index
  BY <1>3
<1>5. Len(queue) \in Nat
  BY DEF TypeOK, DeviceTypeOK
<1>6. \A k \in 1 .. Len(queue') : k \in 1 .. Len(queue) \/ k = Len(queue) + 1
  BY <1>3, <1>5
<1>7. HeldInv' /\ SlotsInv'
  BY <1>1 DEF PresentInv, HeldInv, SlotsInv, Back
<1>8. \A s, b : Presented(s, b) => Presented(s, b)'
  BY <1>1 DEF Presented
<1>9. ASSUME NEW k \in 1 .. Len(queue'), queue'[k].slot \in Slots \ staleFinished
      PROVE  Presented(queue[k].slot, queue[k].buf)'
  <2>1. CASE k \in 1 .. Len(queue)
    <3>1. Presented(queue[k].slot, queue[k].buf)
      BY <1>3, <1>9, <2>1 DEF PresentInv, PresentedInv
    <3>2. QED
      BY <1>1, <1>3, <2>1, <3>1 DEF Presented
  <2>2. CASE k = Len(queue) + 1
    BY <1>1, <1>4, <2>2 DEF Presented
  <2>3. QED
    BY <1>6, <2>1, <2>2
<1>10. frame_counter \notin staleFinished => ~finished[frame_counter]
  <2>1. \A k \in 1 .. Len(presents) : presents[k].slot # frame_counter
    BY <1>1, DifferentSlots DEF PresentInv, HeldInv
  <2>2. QED
    BY <1>1, <1>2, <2>1 DEF PresentInv, PresentedInv, Presented
<1>11. \A s \in Slots : s # frame_counter /\ ~FenceInUse(s) => ~FenceInUse(s)'
  BY <1>3, <1>4, <1>6 DEF FenceInUse
<1>12. \A s \in Slots \ staleFinished : finished'[s] => ~FenceInUse(s)' /\ \E b \in Images : Presented(s, b)'
  BY <1>1, <1>8, <1>10, <1>11 DEF PresentInv, PresentedInv
<1>13. PresentedInv'
  BY <1>1, <1>9, <1>12 DEF PresentedInv
<1>14. QED
  BY <1>7, <1>13 DEF PresentInv

\* A present joins the ones that wait, and the call moves on to the next slot.
LEMMA PresentStep ==
  ASSUME TypeOK, IndInv, PresentInv, NumImages <= FrameDepth, PresentFrame
  PROVE  PresentInv'
<1> DEFINE n == Len(presents)
           p == [image |-> cur_image_index, slot |-> frame_counter]
<1>1. /\ pc = "present" /\ pc' = "idle" /\ UNCHANGED <<queue, finished, staleFinished, cur_image_index>>
      /\ presents' = Append(presents, p) /\ held' = held \ {cur_image_index}
      /\ frame_counter' = NextSlot
  BY DEF PresentFrame, Present, Goto, fenceVars, semaphoreVars
<1>2. /\ presents \in Seq(Presentation) /\ p \in Presentation /\ n \in Nat
      /\ frame_counter \in 0 .. FrameDepth - 1 /\ FrameDepth \in Nat \ {0}
  BY FrameDepthAssumption DEF TypeOK, DeviceTypeOK, AdminTypeOK, Presentation, Slots
<1>3. /\ Len(presents') = n + 1
      /\ \A k \in 1 .. n : presents'[k] = presents[k]
      /\ presents'[n + 1] = p
  BY <1>1, <1>2, AppendProperties
<1>4. presents'[n + 1].image = cur_image_index /\ presents'[n + 1].slot = frame_counter
  BY <1>3
<1>5. cur_image_index \in held /\ n < FrameDepth
  BY <1>1, Room DEF PresentInv, HeldInv
<1> HIDE DEF n, p
<1>6. \A k \in 1 .. n + 1 : k \in 1 .. n \/ k = n + 1
  BY <1>2
<1>7. HeldInv'
  BY <1>1, <1>3, <1>4, <1>5, <1>6 DEF PresentInv, HeldInv, n
<1>8. SlotsInv'
  <2>1. frame_counter' = IF frame_counter = FrameDepth - 1 THEN 0 ELSE frame_counter + 1
    BY <1>1, <1>2, SMTT(30) DEF NextSlot
  <2> SUFFICES ASSUME NEW k \in 1 .. n + 1 PROVE presents'[k].slot = Back(frame_counter', n + 2 - k)
    <3>1. \A k \in 1 .. n + 1 : Len(presents') + 1 - k = n + 2 - k
      BY <1>2, <1>3
    <3>2. QED
      BY <1>3, <3>1 DEF SlotsInv
  <2>2. CASE k \in 1 .. n
    <3>1. presents'[k].slot = Back(frame_counter, n + 1 - k)
      BY <1>3, <2>2 DEF PresentInv, SlotsInv, n
    <3>2. \A j \in 1 .. n : Back(frame_counter, j) = Back(frame_counter', j + 1)
      BY <1>2, <1>5, <2>1 DEF Back
    <3>3. n + 1 - k \in 1 .. n /\ n + 1 - k + 1 = n + 2 - k
      BY <1>2, <2>2
    <3>4. QED
      BY <3>1, <3>2, <3>3
  <2>3. CASE k = n + 1
    BY <1>2, <1>4, <2>1, <2>3 DEF Back
  <2>4. QED
    BY <1>6, <2>2, <2>3
<1>9. ASSUME NEW s, NEW b, Presented(s, b) PROVE Presented(s, b)'
  <2>1. CASE s = frame_counter /\ b = cur_image_index
    BY <1>2, <1>3, <1>4, <2>1 DEF Presented
  <2>2. CASE \E k \in 1 .. n : presents[k].slot = s /\ presents[k].image = b
    BY <1>2, <1>3, <2>2 DEF Presented
  <2>3. QED
    BY <1>9, <2>1, <2>2 DEF Presented, n
<1>10. PresentedInv'
  <2>1. ASSUME NEW k \in 1 .. Len(queue), queue[k].slot \in Slots \ staleFinished
        PROVE  Presented(queue[k].slot, queue[k].buf)'
    <3>1. Presented(queue[k].slot, queue[k].buf)
      BY <2>1 DEF PresentInv, PresentedInv
    <3>2. PICK s, b : s = queue[k].slot /\ b = queue[k].buf
      BY Zenon
    <3>3. Presented(s, b)'
      BY <1>9, <3>1, <3>2
    <3>4. QED
      BY <1>1, <3>2, <3>3 DEF Presented
  <2>2. QED
    BY <1>1, <1>9, <2>1 DEF PresentInv, PresentedInv, FenceInUse
<1>11. QED
  BY <1>7, <1>8, <1>10 DEF PresentInv

\* The oldest submission completes and signals its render_finish.
LEMMA ExecuteStep ==
  ASSUME TypeOK, IndInv, PresentInv, Execute, UNCHANGED adminVars
  PROVE  PresentInv'
<1>1. UNCHANGED <<pc, frame_counter, cur_image_index, presents, held, staleFinished>>
  BY DEF Execute, engineVars, adminVars
<1>2. /\ Len(queue) \in Nat \ {0}
      /\ Len(queue') = Len(queue) - 1
      /\ \A k \in 1 .. Len(queue') : queue'[k] = queue[k + 1]
  BY ExecuteTyped DEF TypeOK
<1>3. \A k \in 1 .. Len(queue') : k + 1 \in 1 .. Len(queue) /\ k + 1 # 1
  BY <1>2
<1>4. 1 \in 1 .. Len(queue) /\ Head(queue) = queue[1]
  BY <1>2 DEF TypeOK, DeviceTypeOK
<1>5. finished \in [Slots -> BOOLEAN] /\ queue[1].slot \in Slots /\ queue[1].buf \in Images
  BY <1>4 DEF TypeOK, DeviceTypeOK, IndInv, TableInv, Listed
<1>6. \A s \in Slots : finished'[s] => finished[s] \/ s = queue[1].slot
  BY <1>4, <1>5 DEF Execute
<1>7. HeldInv' /\ SlotsInv'
  BY <1>1 DEF PresentInv, HeldInv, SlotsInv, Back
<1>8. \A s, b : Presented(s, b) => Presented(s, b)'
  BY <1>1 DEF Presented
<1>9. \A s \in Slots : FenceInUse(s)' => FenceInUse(s) /\ s # queue[1].slot
  BY <1>2, <1>3, <1>4 DEF FenceInUse, IndInv, SlotInv
<1>10. ASSUME NEW k \in 1 .. Len(queue'), queue'[k].slot \in Slots \ staleFinished
       PROVE  Presented(queue[k].slot, queue[k].buf)'
  <2>1. Presented(queue[k + 1].slot, queue[k + 1].buf)
    BY <1>2, <1>3, <1>10 DEF PresentInv, PresentedInv
  <2>2. QED
    BY <1>1, <1>2, <2>1 DEF Presented
<1>11. \A s \in Slots \ staleFinished : finished'[s] => ~FenceInUse(s)' /\ \E b \in Images : Presented(s, b)'
  BY <1>4, <1>5, <1>6, <1>8, <1>9 DEF PresentInv, PresentedInv
<1>12. QED
  BY <1>1, <1>7, <1>10, <1>11 DEF PresentInv, PresentedInv

\* The engine shows the oldest image that waits.
LEMMA DisplayStep ==
  ASSUME TypeOK, PresentInv, Display, UNCHANGED adminVars
  PROVE  PresentInv'
<1>1. UNCHANGED <<pc, frame_counter, cur_image_index, queue, held, staleFinished>>
  BY DEF Display, adminVars
<1>2. presents \in Seq(Presentation) /\ presents # <<>> /\ presents' = Tail(presents)
  BY DEF Display, TypeOK, DeviceTypeOK
<1>3. /\ Len(presents) \in Nat \ {0}
      /\ Len(presents') = Len(presents) - 1
      /\ \A k \in 1 .. Len(presents') : presents'[k] = presents[k + 1]
  BY <1>2, HeadTailProperties, EmptySeq
<1>4. \A k \in 1 .. Len(presents') : k + 1 \in 1 .. Len(presents)
  BY <1>3
<1>5. 1 \in 1 .. Len(presents) /\ Head(presents) = presents[1]
  BY <1>2, <1>3
<1>6. presents[1].slot \in Slots
  <2>1. presents[1] \in Presentation
    BY <1>2, <1>5, ElementOfSeq
  <2>2. QED
    BY <2>1 DEF Presentation
<1>7. /\ finished[presents[1].slot] /\ finished' = [finished EXCEPT ![presents[1].slot] = FALSE]
      /\ finished \in [Slots -> BOOLEAN]
  BY <1>5, Zenon DEF Display, TypeOK, DeviceTypeOK
<1>8. HeldInv'
  <2>1. ASSUME NEW k \in 1 .. Len(presents'), NEW m \in 1 .. Len(presents'), presents'[k].image = presents'[m].image
        PROVE  k = m
    <3>1. k + 1 = m + 1
      BY <1>3, <1>4, <2>1 DEF PresentInv, HeldInv
    <3>2. QED
      BY <1>3, <3>1
  <2>2. QED
    BY <1>1, <1>3, <1>4, <2>1 DEF PresentInv, HeldInv
<1>9. SlotsInv'
  <2>1. ASSUME NEW k \in 1 .. Len(presents') PROVE Len(presents') + 1 - k = Len(presents) + 1 - (k + 1)
    <3>1. \A a, b, c \in Int : a = b - 1 => a + 1 - c = b + 1 - (c + 1)
      OBVIOUS
    <3>2. k \in Int /\ Len(presents) \in Int /\ Len(presents') \in Int
      BY <1>3
    <3>3. QED
      BY <1>3, <3>1, <3>2, Zenon
  <2>2. QED
    BY <1>1, <1>3, <1>4, <2>1 DEF PresentInv, SlotsInv, Back
<1>10. ASSUME NEW s, NEW b, Presented(s, b), s # presents[1].slot PROVE Presented(s, b)'
  <2>1. CASE pc = "present" /\ s = frame_counter /\ b = cur_image_index
    BY <1>1, <2>1 DEF Presented
  <2>2. CASE \E k \in 1 .. Len(presents) : presents[k].slot = s /\ presents[k].image = b
    <3>1. PICK k \in 1 .. Len(presents) : presents[k].slot = s /\ presents[k].image = b
      BY <2>2
    <3>2. k # 1
      BY <1>10, <3>1
    <3>3. k - 1 \in 1 .. Len(presents') /\ presents'[k - 1] = presents[k]
      BY <1>3, <3>2
    <3>4. QED
      BY <3>1, <3>3 DEF Presented
  <2>3. QED
    BY <1>10, <2>1, <2>2 DEF Presented
<1>11. ASSUME NEW k \in 1 .. Len(queue'), queue[k].slot \in Slots \ staleFinished
       PROVE  Presented(queue[k].slot, queue[k].buf)'
  <2>1. Presented(queue[k].slot, queue[k].buf)
    BY <1>1, <1>11 DEF PresentInv, PresentedInv
  <2>2. queue[k].slot # presents[1].slot
    BY <1>1, <1>6, <1>7, <1>11 DEF PresentInv, PresentedInv, FenceInUse
  <2>3. PICK s, b : s = queue[k].slot /\ b = queue[k].buf
    BY Zenon
  <2>4. Presented(s, b)'
    BY <1>10, <2>1, <2>2, <2>3
  <2>5. QED
    BY <1>1, <2>3, <2>4 DEF Presented
<1>12. \A s \in Slots \ staleFinished : finished'[s] => ~FenceInUse(s)' /\ \E b \in Images : Presented(s, b)'
  BY <1>1, <1>6, <1>7, <1>10 DEF PresentInv, PresentedInv, FenceInUse
<1>13. QED
  BY <1>1, <1>8, <1>9, <1>11, <1>12 DEF PresentInv, PresentedInv

\* Steps that PresentInv does not notice.
LEMMA PresentSame ==
  ASSUME PresentInv, UNCHANGED <<queue, finished, held, presents, staleFinished, pc, frame_counter, cur_image_index>>
  PROVE  PresentInv'
<1>1. HeldInv' /\ SlotsInv'
  BY Zenon DEF PresentInv, HeldInv, SlotsInv, Back
<1>2. \A s, b : Presented(s, b)' <=> Presented(s, b)
  BY DEF Presented
<1>3. \A s : FenceInUse(s)' <=> FenceInUse(s)
  BY DEF FenceInUse
<1>4. ASSUME NEW k \in 1 .. Len(queue'), queue'[k].slot \in Slots \ staleFinished
      PROVE  Presented(queue[k].slot, queue[k].buf)'
  <2>1. Presented(queue[k].slot, queue[k].buf)
    BY <1>4, Zenon DEF PresentInv, PresentedInv
  <2>2. QED
    BY <2>1 DEF Presented
<1>5. PresentedInv'
  BY <1>2, <1>3, <1>4, Zenon DEF PresentInv, PresentedInv
<1>6. QED
  BY <1>1, <1>5, Zenon DEF PresentInv

\* The engine signals that an image has left the screen.
LEMMA ReleaseStep ==
  ASSUME PresentInv, NEW s \in Slots, Release(s), UNCHANGED adminVars
  PROVE  PresentInv'
<1>1. UNCHANGED <<queue, finished, held, presents, staleFinished, pc, frame_counter, cur_image_index>>
  BY DEF Release, adminVars
<1>2. QED
  BY <1>1, PresentSame, Zenon

\* PresentInv is inductive.
LEMMA PresentInductive ==
  ASSUME TypeOK, IndInv, PresentInv, ~Headless, NumImages <= FrameDepth, [Next]_vars
  PROVE  PresentInv'
<1>1. CASE RenderFrame \/ WaitFence \/ AcquireOutOfDate \/ AcquireOther \/ Regenerated \/ Catch \/ WaitImage
  BY <1>1, QuietSteps DEF RenderFrame, WaitFence, AcquireOutOfDate, AcquireOther, Regenerated, Catch, WaitImage,
                          Advance, Goto, deviceVars, PresentInv, HeldInv
<1>2. ASSUME NEW img \in Images, Acquire(img) \/ AcquireSuboptimal(img) PROVE PresentInv'
  BY <1>2, QuietSteps DEF Acquire, AcquireSuboptimal, Goto, Grant, Obtainable, fenceVars, semaphoreVars, PresentInv, HeldInv
<1>3. CASE UNCHANGED vars
  BY <1>3, PresentSame, Zenon DEF vars, deviceVars, fenceVars, semaphoreVars, engineVars, adminVars
<1>4. QED
  BY <1>1, <1>2, <1>3, SubmitStep, PresentStep, ExecuteStep, DisplayStep, ReleaseStep, Zenon
  DEF Next, CallStep, AcquireGrants, AcquireFails, DeviceStep, RenderFrameHeadless, SubmitFrameHeadless

\* PresentInv holds in every state, with a window and no more images than
\* slots.
LEMMA PresentInvariance ==
  ASSUME ~Headless, NumImages <= FrameDepth
  PROVE  Spec => []PresentInv
<1>1. Init => PresentInv
  <2> SUFFICES ASSUME Init PROVE PresentInv
    OBVIOUS
  <2>1. HeldInv /\ SlotsInv
    BY DEF Init, DeviceInit, HeldInv, SlotsInv
  <2>2. PresentedInv
    BY DEF Init, DeviceInit, PresentedInv
  <2>3. QED
    BY <2>1, <2>2, Zenon DEF PresentInv
<1>2. TypeOK /\ IndInv /\ PresentInv /\ [Next]_vars => PresentInv'
  BY PresentInductive
<1>3. QED
  BY <1>1, <1>2, Invariance, PTL DEF Spec

\* The render_finish that the oldest frame will signal is unsignalled.
LEMMA FinishPoint ==
  ASSUME TypeOK, IndInv, PresentInv
  PROVE  FinishSemaphoreFree
<1> SUFFICES ASSUME queue # <<>>, Head(queue).slot \notin staleFinished PROVE ~finished[Head(queue).slot]
  BY DEF FinishSemaphoreFree, Ready
<1>1. 1 \in 1 .. Len(queue) /\ Head(queue) = queue[1]
  BY EmptySeq DEF TypeOK, DeviceTypeOK
<1>2. QED
  BY <1>1 DEF PresentInv, PresentedInv, FenceInUse, IndInv, TableInv, Listed

\* With a window and no more images than slots, no submission signals a
\* render_finish semaphore that a present has still to wait for.
THEOREM FinishSafe ==
  ASSUME ~Headless, NumImages <= FrameDepth
  PROVE  Spec => []FinishSemaphoreFree
  BY FinishPoint, Invariance, PresentInvariance, PTL

-----------------------------------------------------------------------------
(* The image on the screen. *)

\* The acquire that used the image_available semaphore of slot s returned b.
ImageOf(s, b) ==
  \/ \E k \in 1 .. Len(queue) : queue[k].slot = s /\ queue[k].buf = b
  \/ Acquired(s) /\ b = cur_image_index

\* The slots whose semaphores are in step with their frames.
InStep == Slots \ (staleAvailable \cup staleFinished)

\* A signal that is to come is for that image, and one that has come says
\* that it has left the screen.
ScreenInv ==
  \A s \in InStep, b \in Images : ImageOf(s, b) =>
    /\ granted[s] # None => granted[s] = b
    /\ available[s] => b # shown

\* Steps that give no slot another image, nor a signal.
LEMMA ScreenKept ==
  ASSUME ScreenInv, shown' = shown, InStep' \subseteq InStep,
         \A s \in InStep, b \in Images : ImageOf(s, b)' => ImageOf(s, b),
         \A s \in InStep' : granted'[s] = granted[s] /\ (available'[s] => available[s])
  PROVE  ScreenInv'
  BY DEF ScreenInv

\* The engine shows an image, or signals that one has left the screen.
LEMMA ScreenEngine ==
  ASSUME TypeOK, PresentInv, ScreenInv, Display \/ (\E s \in Slots : Release(s)), UNCHANGED adminVars
  PROVE  ScreenInv'
<1>1. available \in [Slots -> BOOLEAN] /\ granted \in [Slots -> Images \cup {None}]
  BY DEF TypeOK, DeviceTypeOK
<1>2. CASE Display
  <2>1. 1 \in 1 .. Len(presents) /\ Head(presents) = presents[1]
    BY <1>2, EmptySeq DEF Display, TypeOK, DeviceTypeOK
  <2>2. shown' = presents[1].image /\ finished[presents[1].slot] /\ UNCHANGED <<queue, staleAvailable, staleFinished, adminVars>>
    BY <1>2, <2>1 DEF Display
  <2>3. cur_image_index' = cur_image_index /\ \A s : Acquired(s)' <=> Acquired(s)
    BY <2>2 DEF adminVars, Acquired
  <2> SUFFICES ASSUME NEW s \in InStep, NEW b \in Images, ImageOf(s, b) PROVE b # presents[1].image
    <3>1. \A s, b : ImageOf(s, b)' <=> ImageOf(s, b)
      BY <2>2, <2>3 DEF ImageOf
    <3>2. \A s \in InStep : granted[s] = presents[1].image \/ (granted'[s] = granted[s] /\ available'[s] = available[s])
      BY <1>1, <1>2, <2>1 DEF Display, InStep
    <3>3. presents[1].image # None
      <4>1. presents[1] \in Presentation
        BY <2>1, ElementOfSeq DEF TypeOK, DeviceTypeOK
      <4>2. QED
        BY <4>1, NumImagesAssumption DEF Presentation, Images, None
    <3>4. InStep' = InStep
      BY <2>2 DEF InStep
    <3>5. QED
      BY <2>2, <3>1, <3>2, <3>3, <3>4 DEF ScreenInv
  <2>4. presents[1].image \notin held
    BY <2>1 DEF PresentInv, HeldInv
  <2>5. CASE Acquired(s) /\ b = cur_image_index
    BY <2>4, <2>5 DEF PresentInv, HeldInv, Acquired
  <2>6. ASSUME NEW k \in 1 .. Len(queue), queue[k].slot = s, queue[k].buf = b PROVE b # presents[1].image
    <3>1. Presented(s, b)
      BY <2>6 DEF PresentInv, PresentedInv, InStep
    <3>2. ~finished[s]
      BY <2>6 DEF PresentInv, PresentedInv, FenceInUse, InStep
    <3>3. CASE pc = "present" /\ b = cur_image_index
      BY <2>4, <3>3 DEF PresentInv, HeldInv
    <3>4. ASSUME NEW m \in 1 .. Len(presents), presents[m].slot = s, presents[m].image = b
          PROVE  b # presents[1].image
      BY <2>1, <2>2, <3>2, <3>4 DEF PresentInv, HeldInv
    <3>5. QED
      BY <3>1, <3>3, <3>4 DEF Presented
  <2>7. QED
    BY <2>5, <2>6 DEF ImageOf
<1>3. ASSUME NEW t \in Slots, Release(t) PROVE ScreenInv'
  <2>1. /\ granted[t] # None /\ granted[t] # shown
        /\ granted' = [granted EXCEPT ![t] = None] /\ available' = [available EXCEPT ![t] = TRUE]
        /\ UNCHANGED <<queue, shown, staleAvailable, staleFinished, adminVars>>
    BY <1>3 DEF Release
  <2>2. \A s \in Slots, b \in Images : ImageOf(s, b)' <=> ImageOf(s, b)
    BY <2>1, SMTT(30) DEF ImageOf, Acquired, adminVars
  <2>3. QED
    BY <1>1, <2>1, <2>2 DEF ScreenInv, InStep
<1>4. QED
  BY <1>2, <1>3

\* ScreenInv is inductive.
LEMMA ScreenStep ==
  ASSUME TypeOK, IndInv, SemaphoreInv, PresentInv, ScreenInv, ~Headless, [Next]_vars
  PROVE  ScreenInv'
<1>1. available \in [Slots -> BOOLEAN] /\ granted \in [Slots -> Images \cup {None}] /\ frame_counter \in Slots
  BY DEF TypeOK, DeviceTypeOK, AdminTypeOK
<1>2. CASE RenderFrame \/ WaitFence \/ AcquireOutOfDate \/ AcquireOther \/ Regenerated \/ Catch \/ WaitImage
  <2>1. UNCHANGED <<queue, frame_counter, cur_image_index, granted, available, shown, staleAvailable, staleFinished>>
    BY <1>2 DEF RenderFrame, WaitFence, AcquireOutOfDate, AcquireOther, Regenerated, Catch, WaitImage, Advance, deviceVars
  <2>2. \A s : Acquired(s)' => Acquired(s)
    BY <1>2, <2>1 DEF RenderFrame, WaitFence, AcquireOutOfDate, AcquireOther, Regenerated, Catch, WaitImage, Advance, Goto, Acquired
  <2>3. QED
    BY <2>1, <2>2, ScreenKept DEF ImageOf, InStep
<1>3. ASSUME NEW img \in Images, Acquire(img) PROVE ScreenInv'
  <2>1. /\ pc = "acquire" /\ pc' = "wait_image" /\ cur_image_index' = img
        /\ UNCHANGED <<queue, frame_counter, available, shown, staleAvailable, staleFinished>>
        /\ granted' = [granted EXCEPT ![frame_counter] = img]
    BY <1>3 DEF Acquire, Goto, Grant, fenceVars, semaphoreVars
  <2>2. frame_counter \in InStep => ~available[frame_counter] /\ ~FenceInUse(frame_counter)
    BY <2>1, AcquirePoint DEF InStep
  <2> SUFFICES ASSUME NEW s \in InStep, NEW b \in Images, ImageOf(s, b)'
               PROVE  (granted'[s] # None => granted'[s] = b) /\ (available'[s] => b # shown')
    BY <2>1 DEF ScreenInv, InStep
  <2>3. CASE s = frame_counter
    <3>1. b = img
      BY <2>1, <2>2, <2>3 DEF ImageOf, FenceInUse
    <3>2. QED
      BY <1>1, <2>1, <2>2, <2>3, <3>1 DEF InStep
  <2>4. CASE s # frame_counter
    <3>1. ImageOf(s, b)
      BY <2>1, <2>4 DEF ImageOf, Acquired
    <3>2. QED
      BY <1>1, <2>1, <2>4, <3>1 DEF ScreenInv, InStep
  <2>5. QED
    BY <2>3, <2>4
<1>4. ASSUME NEW img \in Images, AcquireSuboptimal(img) PROVE ScreenInv'
  <2>1. /\ pc = "acquire" /\ pc' = "thrown"
        /\ UNCHANGED <<queue, frame_counter, cur_image_index, available, shown, staleFinished>>
        /\ staleAvailable' = staleAvailable \cup {frame_counter}
        /\ granted' = [granted EXCEPT ![frame_counter] = img]
    BY <1>4 DEF AcquireSuboptimal, Goto, Grant, fenceVars, semaphoreVars
  <2>2. InStep' = InStep \ {frame_counter}
    BY <2>1 DEF InStep
  <2>3. \A s, b : ImageOf(s, b)' => ImageOf(s, b)
    BY <2>1 DEF ImageOf, Acquired
  <2>4. \A s \in InStep' : granted'[s] = granted[s] /\ available'[s] = available[s]
    BY <1>1, <2>1, <2>2
  <2>5. QED
    BY <2>1, <2>2, <2>3, <2>4, ScreenKept
<1>5. CASE SubmitFrame
  <2>1. pc = "submit" /\ pc' = "present" /\ UNCHANGED <<frame_counter, cur_image_index, granted, available, shown, staleAvailable, staleFinished>>
    BY <1>5 DEF SubmitFrame, Goto, semaphoreVars, engineVars
  <2>2. cur_image_index \in Buffers /\ frame_counter \in Fences
    BY FrameDepthAssumption, NumImagesAssumption DEF TypeOK, AdminTypeOK, Images, Buffers, Slots, Fences
  <2>3. /\ Len(queue') = Len(queue) + 1
        /\ \A k \in 1 .. Len(queue) : queue'[k] = queue[k]
        /\ queue'[Len(queue) + 1] = [buf |-> cur_image_index, slot |-> frame_counter, waits |-> TRUE, signals |-> TRUE]
    <3>1. Submit(cur_image_index, frame_counter, TRUE, TRUE) /\ DeviceTypeOK
      BY <1>5, Zenon DEF SubmitFrame, TypeOK
    <3>2. QED
      BY <2>2, <3>1, SubmitTyped, Zenon
  <2>4. queue'[Len(queue) + 1].slot = frame_counter /\ queue'[Len(queue) + 1].buf = cur_image_index
    BY <2>3
  <2>5. \A k \in 1 .. Len(queue') : k \in 1 .. Len(queue) \/ k = Len(queue) + 1
    BY <2>3 DEF TypeOK, DeviceTypeOK
  <2>6. \A s \in Slots, b \in Images : ImageOf(s, b)' => ImageOf(s, b)
    BY <2>1, <2>3, <2>4, <2>5 DEF ImageOf, Acquired
  <2>7. QED
    BY <2>1, <2>6, ScreenKept DEF InStep
<1>6. CASE PresentFrame
  BY <1>6, ScreenKept DEF PresentFrame, Goto, Present, fenceVars, semaphoreVars, ImageOf, Acquired, InStep
<1>7. CASE Execute /\ UNCHANGED adminVars
  <2>1. /\ Len(queue) \in Nat \ {0}
        /\ Len(queue') = Len(queue) - 1
        /\ \A k \in 1 .. Len(queue') : queue'[k] = queue[k + 1]
    BY <1>7, ExecuteTyped DEF TypeOK
  <2>2. \A k \in 1 .. Len(queue') : k + 1 \in 1 .. Len(queue)
    BY <2>1
  <2>3. \A s : Acquired(s)' /\ cur_image_index' = cur_image_index => Acquired(s)
    BY <1>7 DEF Acquired, adminVars
  <2>4. UNCHANGED <<cur_image_index, granted, shown, staleAvailable, staleFinished>>
    BY <1>7 DEF Execute, engineVars, adminVars
  <2>5. \A s \in Slots, b \in Images : ImageOf(s, b)' => ImageOf(s, b)
    BY <2>1, <2>2, <2>3, <2>4 DEF ImageOf
  <2>6. \A s \in Slots : available'[s] => available[s]
    BY <1>1, <1>7 DEF Execute
  <2>7. QED
    BY <2>4, <2>5, <2>6, ScreenKept DEF InStep
<1>8. CASE UNCHANGED vars
  BY <1>8, ScreenKept DEF vars, deviceVars, adminVars, ImageOf, Acquired, InStep
<1>9. QED
  BY <1>2, <1>3, <1>4, <1>5, <1>6, <1>7, <1>8, ScreenEngine, Zenon
  DEF Next, CallStep, AcquireGrants, AcquireFails, DeviceStep, RenderFrameHeadless, SubmitFrameHeadless

\* The image the oldest frame draws into has left the screen.
LEMMA ScreenPoint ==
  ASSUME TypeOK, IndInv, SemaphoreInv, ScreenInv
  PROVE  NeverDrawsOnScreen
<1> SUFFICES ASSUME Ready, Head(queue).slot \notin staleAvailable \cup staleFinished PROVE Head(queue).buf # shown
  BY DEF NeverDrawsOnScreen
<1>1. 1 \in 1 .. Len(queue) /\ Head(queue) = queue[1]
  BY EmptySeq DEF Ready, TypeOK, DeviceTypeOK
<1>2. queue[1].slot \in InStep /\ queue[1].slot \in Slots /\ queue[1].buf \in Images /\ ImageOf(queue[1].slot, queue[1].buf)
  BY <1>1 DEF IndInv, TableInv, Listed, ImageOf, InStep
<1>3. available[queue[1].slot]
  BY <1>1, <1>2 DEF Ready, SemaphoreInv
<1>4. QED
  BY <1>1, <1>2, <1>3 DEF ScreenInv

\* With a window and no more images than slots, the device never draws into
\* the image on the screen with a frame whose slot has its semaphores in step,
\* whatever became of images and semaphores of other slots.
THEOREM ScreenSafe ==
  ASSUME ~Headless, NumImages <= FrameDepth
  PROVE  Spec => []NeverDrawsOnScreen
<1> DEFINE J == SemaphoreInv /\ ScreenInv
<1>1. Init => J
  BY DEF Init, DeviceInit, SemaphoreInv, ScreenInv, ImageOf, Acquired
<1>2. TypeOK /\ IndInv /\ PresentInv /\ J /\ [Next]_vars => J'
  BY SemaphoreStep, ScreenStep
<1>3. TypeOK /\ IndInv /\ J => NeverDrawsOnScreen
  BY ScreenPoint
<1>4. QED
  BY <1>1, <1>2, <1>3, Invariance, PresentInvariance, PTL DEF Spec

=============================================================================
