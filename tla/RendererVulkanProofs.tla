------------------------- MODULE RendererVulkanProofs -------------------------
(***************************************************************************)
(* Proofs about RendererVulkan, for every number of slots, images, inputs, *)
(* draw lists and colours: frames and copies share the queue, what the     *)
(* device runs is left alone, and what it draws is up to date.             *)
(***************************************************************************)
EXTENDS RendererVulkan, FrameAdminProofs, LoopsProofs

-----------------------------------------------------------------------------
(* Frames and copies.  While a call of the renderer is outside the frame   *)
(* admin the latter is at rest, and its own invariant holds except while a *)
(* copy is waited for.  Nothing is submitted after the copy before its     *)
(* fence was waited for.  This needs neither a window nor enough slots.    *)

CopyWaits == {"static_wait", "dynamic_wait"}

\* The submission of record_draw_list.
Copied(e) == e.buf = Scratch /\ e.slot = CopyFence /\ ~e.waits /\ ~e.signals

\* The copy is the youngest submission; the others are frames.
CopyInv ==
  /\ FenceInv
  /\ SlotInv
  /\ \A k \in 1 .. Len(queue) : Listed(queue[k]) \/ (k = Len(queue) /\ Copied(queue[k]))

SharedInv ==
  /\ TypeOK
  /\ op # "ready" => pc = "idle"
  /\ op \in CopyWaits => CopyInv
  /\ op \notin CopyWaits => IndInv

\* A copy has neither the buffer nor the fence of a frame.
LEMMA CopyApart == Scratch \in Buffers /\ Scratch \notin Images /\ CopyFence \in Fences /\ CopyFence \notin Slots
  BY FrameDepthAssumption, NumImagesAssumption DEF Scratch, Buffers, Images, CopyFence, Fences, Slots

\* The frame admin's invariant speaks of the fences, the queue and the frame
\* admin only, and so does that of a copy.
LEMMA IndInvKept ==
  ASSUME IndInv, UNCHANGED <<fenceVars, adminVars>>
  PROVE  IndInv'
  BY DEF IndInv, FenceInv, FenceInUse, SlotInv, TableInv, Listed, CallInv, ImageFree, Waited, fenceVars, adminVars

LEMMA CopyInvKept ==
  ASSUME CopyInv, UNCHANGED <<fenceVars, adminVars>>
  PROVE  CopyInv'
  BY DEF CopyInv, FenceInv, FenceInUse, SlotInv, Listed, Copied, fenceVars, adminVars

\* A copy joins the frames that are pending.
LEMMA CopySubmitted ==
  ASSUME TypeOK, IndInv, Submit(Scratch, CopyFence, FALSE, FALSE), UNCHANGED adminVars
  PROVE  CopyInv'
<1> DEFINE n == Len(queue)
<1>1. /\ n \in Nat /\ Len(queue') = n + 1
      /\ \A k \in 1 .. n : queue'[k] = queue[k]
      /\ queue'[n + 1] = [buf |-> Scratch, slot |-> CopyFence, waits |-> FALSE, signals |-> FALSE]
  <2>1. DeviceTypeOK /\ n \in Nat
    BY DEF TypeOK, DeviceTypeOK
  <2>2. QED
    BY <2>1, CopyApart, SubmitTyped, Zenon
<1>2. Copied(queue'[n + 1]) /\ queue'[n + 1].slot = CopyFence
  BY <1>1 DEF Copied
<1>3. \A k \in 1 .. Len(queue') : k \in 1 .. n \/ k = n + 1
  BY <1>1
<1>4. \A k \in 1 .. n : Listed(queue[k]) /\ queue[k].slot \in Slots
  BY DEF IndInv, TableInv, Listed
<1> HIDE DEF n
<1>5. \A k \in 1 .. Len(queue') : Listed(queue[k])' \/ (k = Len(queue') /\ Copied(queue'[k]))
  <2>1. ASSUME NEW k \in 1 .. n PROVE Listed(queue[k])'
    BY <1>1, <1>4 DEF Listed, adminVars
  <2>2. QED
    BY <1>1, <1>2, <1>3, <2>1
<1>6. SlotInv'
  BY <1>1, <1>2, <1>3, <1>4, CopyApart DEF IndInv, SlotInv, n
<1>7. FenceInv'
  <2> SUFFICES ASSUME NEW f \in Fences, fence'[f], NEW k \in 1 .. Len(queue'), queue'[k].slot = f PROVE FALSE
    BY DEF FenceInv, FenceInUse
  <2>1. f # CopyFence /\ fence[f]
    BY CopyApart DEF Submit, TypeOK, DeviceTypeOK
  <2>2. QED
    BY <1>1, <1>2, <1>3, <2>1 DEF IndInv, FenceInv, FenceInUse, n
<1>8. QED
  BY <1>5, <1>6, <1>7 DEF CopyInv, Copied

\* A submission completes while the copy is waited for.
LEMMA CopyExecute ==
  ASSUME TypeOK, CopyInv, Execute, UNCHANGED adminVars
  PROVE  CopyInv'
<1>1. /\ Len(queue) \in Nat \ {0}
      /\ Len(queue') = Len(queue) - 1
      /\ \A k \in 1 .. Len(queue') : queue'[k] = queue[k + 1]
      /\ fence' = [fence EXCEPT ![queue[1].slot] = TRUE]
  BY ExecuteTyped DEF TypeOK
<1>2. \A k \in 1 .. Len(queue') : k + 1 \in 1 .. Len(queue) /\ k + 1 # 1 /\ k \in Nat
  BY <1>1
<1>3. 1 \in 1 .. Len(queue) /\ fence \in [Fences -> BOOLEAN]
  BY <1>1 DEF TypeOK, DeviceTypeOK
<1>4. FenceInv'
  <2> SUFFICES ASSUME NEW f \in Fences, fence'[f], NEW k \in 1 .. Len(queue'), queue'[k].slot = f PROVE FALSE
    BY DEF FenceInv, FenceInUse
  <2>1. queue[k + 1].slot = f
    BY <1>1
  <2>2. f # queue[1].slot
    <3>1. k + 1 \in 1 .. Len(queue) /\ k + 1 # 1
      BY <1>2, Zenon
    <3>2. QED
      BY <1>3, <2>1, <3>1, Zenon DEF CopyInv, SlotInv
  <2>3. fence[f]
    BY <1>1, <1>3, <2>2
  <2>4. QED
    BY <1>2, <2>1, <2>3 DEF CopyInv, FenceInv, FenceInUse
<1>5. SlotInv'
  <2> SUFFICES ASSUME NEW k \in 1 .. Len(queue'), NEW m \in 1 .. Len(queue'), queue'[k].slot = queue'[m].slot
               PROVE  k = m
    BY DEF SlotInv
  <2>1. queue[k + 1].slot = queue[m + 1].slot
    BY <1>1, Zenon
  <2>2. k + 1 = m + 1
    BY <1>2, <2>1, Zenon DEF CopyInv, SlotInv
  <2>3. QED
    BY <1>2, <2>2
<1>6. ASSUME NEW k \in 1 .. Len(queue') PROVE Listed(queue[k])' \/ (k = Len(queue') /\ Copied(queue'[k]))
  <2>1. Listed(queue[k + 1]) \/ (k + 1 = Len(queue) /\ Copied(queue[k + 1]))
    BY <1>2 DEF CopyInv
  <2>2. CASE Listed(queue[k + 1])
    BY <1>1, <2>2 DEF Listed, adminVars
  <2>3. CASE k + 1 = Len(queue) /\ Copied(queue[k + 1])
    BY <1>1, <1>2, <2>3
  <2>4. QED
    BY <2>1, <2>2, <2>3
<1>7. QED
  BY <1>4, <1>5, <1>6 DEF CopyInv, Copied

\* Once the fence of the copy is signalled only frames are pending.
LEMMA CopyWaited ==
  ASSUME CopyInv, Waited(CopyFence), pc = "idle"
  PROVE  IndInv
<1>1. \A k \in 1 .. Len(queue) : queue[k].slot # CopyFence
  BY CopyApart DEF CopyInv, FenceInv, FenceInUse, Waited
<1>2. TableInv
  BY <1>1 DEF CopyInv, Copied, TableInv
<1>3. QED
  BY <1>2 DEF CopyInv, IndInv, CallInv

\* The device and the frame admin keep their types whatever the renderer does.
LEMMA DeviceTyped ==
  ASSUME TypeOK, [RendererNext]_allVars
  PROVE  TypeOK'
<1>1. ASSUME [Next]_vars PROVE TypeOK'
  BY <1>1, TypeStep, SMTT(30)
<1>2. ASSUME Submit(Scratch, CopyFence, FALSE, FALSE), UNCHANGED <<semaphoreVars, engineVars, adminVars>>
      PROVE  TypeOK'
  <2>1. Scratch \in Buffers /\ CopyFence \in Fences
    BY FrameDepthAssumption, NumImagesAssumption, SMTT(30) DEF Scratch, Buffers, CopyFence, Fences
  <2>2. fence' \in [Fences -> BOOLEAN] /\ queue' \in Seq(Submission)
    BY <1>2, <2>1, SubmitTyped, Zenon DEF TypeOK
  <2>3. QED
    BY <1>2, <2>2 DEF TypeOK, DeviceTypeOK, AdminTypeOK, semaphoreVars, engineVars, adminVars
<1>3. CASE EnterFrameAdmin \/ AdminStep \/ Regenerate \/ ((AcquireFails \/ Catch) /\ UNCHANGED rendererVars)
  <2>1. Next
    BY <1>3 DEF EnterFrameAdmin, AdminStep, Regenerate, Next, CallStep
  <2>2. QED
    BY <1>1, <2>1
<1>4. CASE DeviceStep /\ UNCHANGED <<adminVars, rendererVars>>
  <2>1. Next
    BY <1>4, SMTT(30) DEF Next
  <2>2. QED
    BY <1>1, <2>1
<1>5. CASE StaticDraws \/ DynamicDraws
  BY <1>1, <1>2, <1>5, Zenon DEF StaticDraws, DynamicDraws
<1>6. CASE ReplaceSwapchain
  <2>1. available' \in [Slots -> BOOLEAN] /\ finished' \in [Slots -> BOOLEAN] /\ staleFinished' \in SUBSET Slots
    <3>1. Presenting \subseteq Slots
      <4>1. \A k \in 1 .. Len(presents) : presents[k] \in Presentation
        BY ElementOfSeq DEF TypeOK, DeviceTypeOK
      <4>2. QED
        BY <4>1 DEF Presenting, Presentation
    <3>2. QED
      BY <1>6, <3>1 DEF ReplaceSwapchain, Recreate, TypeOK, DeviceTypeOK
  <2>2. QED
    BY <1>6, <2>1 DEF ReplaceSwapchain, Recreate, TypeOK, DeviceTypeOK, AdminTypeOK, fenceVars, adminVars
<1>7. ASSUME UNCHANGED vars PROVE TypeOK'
  BY <1>1, <1>7
<1>8. CASE \/ \E list \in DrawLists : RenderCached(list) \/ RenderDraws(list)
           \/ \E c \in Colours : SetClearColour(c)
           \/ OnWindowResize \/ ClearView \/ StaticWait \/ DynamicWait \/ Record
           \/ ClearColourChange
  <2>1. UNCHANGED vars
    BY <1>8 DEF RenderCached, RenderDraws, SetClearColour, OnWindowResize, ClearView, StaticWait,
                DynamicWait, Record, ClearColourChange
  <2>2. QED
    BY <1>7, <2>1, SMTT(30)
<1>9. CASE UNCHANGED allVars
  BY <1>7, <1>9 DEF allVars
<1>10. QED
  BY <1>3, <1>4, <1>5, <1>6, <1>8, <1>9 DEF RendererNext, RendererStep

\* The frame admin runs only inside its own calls.
LEMMA AdminOnly ==
  ASSUME SharedInv, EnterFrameAdmin \/ AdminStep \/ Regenerate \/ ((AcquireFails \/ Catch) /\ UNCHANGED rendererVars)
  PROVE  Next /\ op \notin CopyWaits /\ op' = "ready" /\ IndInv
<1>1. Next
  BY DEF EnterFrameAdmin, AdminStep, Regenerate, Next, CallStep
<1>2. CASE EnterFrameAdmin
  BY <1>1, <1>2 DEF EnterFrameAdmin, CopyWaits, SharedInv
<1>3. CASE ~EnterFrameAdmin
  <2>1. pc # "idle" /\ op' = op
    BY <1>3, Zenon DEF AdminStep, Regenerate, Regenerated, Catch, WaitFence, WaitImage, SubmitFrame, PresentFrame,
                SubmitFrameHeadless, AcquireGrants, AcquireFails, Acquire, AcquireSuboptimal, AcquireOutOfDate, AcquireOther,
                Advance, Goto, rendererVars
  <2>2. QED
    BY <1>1, <2>1 DEF CopyWaits, SharedInv
<1>4. QED
  BY <1>2, <1>3

\* Steps of the renderer that change nothing the frame admin
\* or the device has.
StillStep ==
  \/ \E list \in DrawLists : RenderCached(list) \/ RenderDraws(list)
  \/ \E c \in Colours : SetClearColour(c)
  \/ OnWindowResize
  \/ ClearView
  \/ Record
  \/ ClearColourChange
  \/ UNCHANGED allVars

LEMMA StillSteps ==
  ASSUME StillStep
  PROVE  /\ UNCHANGED vars /\ UNCHANGED <<fenceVars, semaphoreVars, engineVars, adminVars>>
         /\ op' = op \/ (op \notin CopyWaits /\ op' \notin CopyWaits)
         /\ op' \in {"ready", op} \/ Called \/ op \in {"clear", "record"}
<1>1. UNCHANGED vars
  BY DEF StillStep, RenderCached, RenderDraws, SetClearColour, OnWindowResize, ClearView, Record,
         ClearColourChange, allVars
<1>2. UNCHANGED <<fenceVars, semaphoreVars, engineVars, adminVars>>
  BY <1>1 DEF vars, deviceVars, fenceVars, semaphoreVars, engineVars, adminVars
<1>3. op' = op \/ (op \notin CopyWaits /\ op' \notin CopyWaits)
  BY DEF StillStep, RenderCached, RenderDraws, SetClearColour, OnWindowResize, ClearView, Record,
         ClearColourChange, Called, OpStep, allVars, rendererVars, CopyWaits
<1>4. op' \in {"ready", op} \/ Called \/ op \in {"clear", "record"}
  BY DEF StillStep, RenderCached, RenderDraws, SetClearColour, OnWindowResize, ClearView, Record,
         ClearColourChange, OpStep, allVars, rendererVars
<1>5. QED
  BY <1>1, <1>2, <1>3, <1>4

\* SharedInv is inductive.
LEMMA SharedStep ==
  ASSUME SharedInv, [RendererNext]_allVars
  PROVE  SharedInv'
<1>1. TypeOK'
  BY DeviceTyped DEF SharedInv
<1>2. CASE EnterFrameAdmin \/ AdminStep \/ Regenerate \/ ((AcquireFails \/ Catch) /\ UNCHANGED rendererVars)
  <2>1. Next /\ op' = "ready" /\ IndInv
    BY <1>2, AdminOnly
  <2>2. IndInv'
    BY <2>1, Inductive DEF SharedInv
  <2>3. QED
    BY <1>1, <2>1, <2>2 DEF SharedInv, CopyWaits
<1>3. CASE DeviceStep /\ UNCHANGED <<adminVars, rendererVars>>
  <2>1. UNCHANGED <<op, pc>>
    BY <1>3 DEF adminVars, rendererVars
  <2>2. ASSUME op \notin CopyWaits PROVE IndInv'
    BY <1>3, <2>2, Inductive DEF SharedInv, Next
  <2>3. ASSUME op \in CopyWaits PROVE CopyInv'
    <3>1. CASE Execute
      BY <1>3, <2>3, <3>1, CopyExecute DEF SharedInv
    <3>2. CASE Display \/ (\E s \in Slots : Release(s))
      <4>1. UNCHANGED <<fenceVars, adminVars>>
        BY <1>3, <3>2 DEF Display, Release, fenceVars
      <4>2. QED
        BY <2>3, <4>1, CopyInvKept DEF SharedInv
    <3>3. QED
      BY <1>3, <3>1, <3>2 DEF DeviceStep
  <2>4. QED
    BY <1>1, <2>1, <2>2, <2>3 DEF SharedInv
<1>4. CASE StaticDraws \/ DynamicDraws
  <2>1. op \in {"static", "dynamic"} /\ IndInv /\ pc = "idle"
    BY <1>4, Zenon DEF StaticDraws, DynamicDraws, SharedInv, CopyWaits
  <2>2. CASE UNCHANGED vars
    <3>1. op' \in {"dynamic", "record"}
      BY <1>4, <2>2 DEF StaticDraws, DynamicDraws, vars, deviceVars, Submit, TypeOK
    <3>2. UNCHANGED <<fenceVars, adminVars>>
      BY <2>2 DEF vars, deviceVars, fenceVars, adminVars
    <3>3. QED
      BY <1>1, <2>1, <3>1, <3>2, IndInvKept DEF SharedInv, CopyWaits, adminVars
  <2>3. CASE Submit(Scratch, CopyFence, FALSE, FALSE) /\ UNCHANGED adminVars /\ op' \in CopyWaits
    BY <1>1, <2>1, <2>3, CopySubmitted DEF SharedInv, adminVars
  <2>4. QED
    BY <1>4, <2>2, <2>3, Zenon DEF StaticDraws, DynamicDraws, CopyWaits
<1>5. CASE StaticWait \/ DynamicWait
  <2>1. op \in CopyWaits /\ Waited(CopyFence) /\ op' \in {"dynamic", "record"} /\ UNCHANGED vars
    BY <1>5 DEF StaticWait, DynamicWait, OpStep, CopyWaits
  <2>2. IndInv /\ pc = "idle"
    BY <2>1, CopyWaited DEF SharedInv, CopyWaits
  <2>3. UNCHANGED <<fenceVars, adminVars>>
    BY <2>1 DEF vars, deviceVars, fenceVars, adminVars
  <2>4. QED
    BY <1>1, <2>1, <2>2, <2>3, IndInvKept DEF SharedInv, CopyWaits, adminVars
<1>6. CASE StillStep \/ ReplaceSwapchain
  <2>1. /\ UNCHANGED <<fenceVars, adminVars>>
        /\ op' = op \/ (op \notin CopyWaits /\ op' \notin CopyWaits)
        /\ op' \in {"ready", op} \/ pc = "idle"
    <3>1. CASE StillStep
      BY <3>1, StillSteps DEF SharedInv, Called
    <3>2. CASE ReplaceSwapchain
      BY <3>2 DEF ReplaceSwapchain, Recreate, OpStep, CopyWaits
    <3>3. QED
      BY <1>6, <3>1, <3>2
  <2>2. op \notin CopyWaits => IndInv'
    BY <2>1, IndInvKept DEF SharedInv
  <2>3. op \in CopyWaits => CopyInv'
    BY <2>1, CopyInvKept DEF SharedInv
  <2>4. op' # "ready" => pc' = "idle"
    BY <2>1 DEF SharedInv, adminVars
  <2>5. QED
    BY <1>1, <2>1, <2>2, <2>3, <2>4 DEF SharedInv
<1>7. QED
  BY <1>2, <1>3, <1>4, <1>5, <1>6 DEF RendererNext, RendererStep, StillStep

\* SharedInv holds in every state of every renderer.
LEMMA SharedInvariance == RendererSpec => []SharedInv
<1>1. RendererInit => SharedInv
  <2> SUFFICES ASSUME RendererInit PROVE SharedInv
    OBVIOUS
  <2>1. TypeOK /\ Len(queue) = 0 /\ pc = "idle" /\ op = "ready"
    BY InitTyped DEF RendererInit, Init, DeviceInit
  <2>2. \A k \in 1 .. Len(queue) : FALSE
    BY <2>1
  <2>3. IndInv
    BY <2>1, <2>2 DEF IndInv, FenceInv, FenceInUse, SlotInv, TableInv, CallInv
  <2>4. QED
    BY <2>1, <2>3 DEF SharedInv, CopyWaits
<1>2. QED
  BY <1>1, SharedStep, PTL DEF RendererSpec

\* With and without a window, for any number of images and slots: no command
\* buffer, the scratch buffer included, and no fence is submitted again before
\* it has completed, although draw lists and frames share the queue.
THEOREM SubmissionsDistinct == RendererSpec => []SubmittedOnce
<1>1. ASSUME SharedInv, NEW k \in 1 .. Len(queue), NEW m \in 1 .. Len(queue), queue[k].buf = queue[m].buf
      PROVE  queue[k].slot = queue[m].slot
  <2>1. \A i \in 1 .. Len(queue) : Listed(queue[i]) \/ Copied(queue[i])
    BY <1>1 DEF SharedInv, IndInv, TableInv, CopyInv
  <2>2. QED
    BY <1>1, <2>1, CopyApart DEF Listed, Copied
<1>2. SharedInv => SlotInv
  BY DEF SharedInv, IndInv, CopyInv
<1>3. SharedInv => SubmittedOnce
  BY <1>1, <1>2 DEF SlotInv, SubmittedOnce
<1>4. QED
  BY <1>3, SharedInvariance, PTL
-----------------------------------------------------------------------------
(* The semaphores of acquires.  A copy takes no signal, and when the       *)
(* swapchain is replaced none is to come but for acquires that threw.      *)

\* Steps after which the same frames are pending, and perhaps a copy.
LEMMA SemaphoreKept ==
  ASSUME SemaphoreInv, UNCHANGED <<available, granted, staleAvailable, pc, frame_counter>>,
         \A k \in 1 .. Len(queue) : k \in 1 .. Len(queue') /\ queue'[k] = queue[k],
         \A k \in 1 .. Len(queue') : k \in 1 .. Len(queue) \/ queue'[k].slot \notin Slots
  PROVE  SemaphoreInv'
<1>1. \A s : Acquired(s)' <=> Acquired(s)
  BY DEF Acquired
<1>2. \A s : FenceInUse(s) => FenceInUse(s)'
  BY DEF FenceInUse
<1>3. \A k \in 1 .. Len(queue') : queue'[k].slot \in Slots => queue'[k].waits
  BY DEF SemaphoreInv
<1>4. QED
  BY <1>1, <1>2, <1>3, Zenon DEF SemaphoreInv

\* A copy is submitted.
LEMMA SemaphoreCopied ==
  ASSUME TypeOK, SemaphoreInv, Submit(Scratch, CopyFence, FALSE, FALSE), UNCHANGED <<semaphoreVars, engineVars, adminVars>>
  PROVE  SemaphoreInv'
<1> DEFINE n == Len(queue)
<1>1. DeviceTypeOK /\ n \in Nat
  BY DEF TypeOK, DeviceTypeOK
<1>2. /\ Len(queue') = n + 1
      /\ \A k \in 1 .. n : queue'[k] = queue[k]
      /\ queue'[n + 1] = [buf |-> Scratch, slot |-> CopyFence, waits |-> FALSE, signals |-> FALSE]
  BY <1>1, CopyApart, SubmitTyped, Zenon
<1>3. queue'[n + 1].slot \notin Slots
  BY <1>2, CopyApart
<1>4. UNCHANGED <<available, granted, staleAvailable, pc, frame_counter>>
  BY DEF semaphoreVars, engineVars, adminVars
<1>5. /\ \A k \in 1 .. n : k \in 1 .. Len(queue')
      /\ \A k \in 1 .. Len(queue') : k \in 1 .. n \/ k = n + 1
  BY <1>1, <1>2
<1>6. QED
  BY <1>2, <1>3, <1>4, <1>5, SemaphoreKept

\* The swapchain is replaced when nothing is pending and no call is in
\* progress: no semaphore of an acquire that returned is signalled or will be.
LEMMA SemaphoreReplaced ==
  ASSUME SharedInv, SemaphoreInv, ReplaceSwapchain
  PROVE  SemaphoreInv'
<1>1. pc = "idle" /\ queue = <<>> /\ Len(queue) = 0
  BY DEF SharedInv, ReplaceSwapchain, OpStep, Idle
<1>2. UNCHANGED <<queue, staleAvailable, pc>> /\ granted' = [s \in Slots |-> None]
  BY DEF ReplaceSwapchain, Recreate, fenceVars, adminVars
<1>3. \A k \in 1 .. Len(queue) : FALSE
  BY <1>1
<1>4. \A s : ~FenceInUse(s) /\ ~Acquired(s)
  BY <1>1, <1>3 DEF FenceInUse, Acquired
<1>5. \A s \in Slots \ staleAvailable : ~available'[s] /\ granted'[s] = None
  BY <1>2, <1>4 DEF SemaphoreInv, ReplaceSwapchain, Recreate
<1>6. QED
  BY <1>2, <1>3, <1>5 DEF SemaphoreInv

\* SemaphoreInv is inductive.
LEMMA SemaphoreInductive ==
  ASSUME ~Headless, SharedInv, SemaphoreInv, [RendererNext]_allVars
  PROVE  SemaphoreInv'
<1>1. TypeOK
  BY DEF SharedInv
<1>2. ASSUME Next, IndInv PROVE SemaphoreInv'
  BY <1>1, <1>2, SemaphoreStep
<1>3. CASE EnterFrameAdmin \/ AdminStep \/ Regenerate \/ ((AcquireFails \/ Catch) /\ UNCHANGED rendererVars)
  BY <1>2, <1>3, AdminOnly
<1>4. CASE DeviceStep /\ UNCHANGED <<adminVars, rendererVars>>
  <2>1. CASE op \notin CopyWaits
    BY <1>2, <1>4, <2>1 DEF SharedInv, Next
  <2>2. CASE op \in CopyWaits
    <3>1. \A k \in 1 .. Len(queue) : queue[k].slot \in Slots \/ ~queue[k].waits
      BY <2>2 DEF SharedInv, CopyInv, Listed, Copied
    <3>2. QED
      BY <1>1, <1>4, <3>1, SemaphoreExecute, SemaphoreEngine DEF DeviceStep
  <2>3. QED
    BY <2>1, <2>2
<1>5. ASSUME UNCHANGED vars PROVE SemaphoreInv'
  <2>1. UNCHANGED <<queue, available, granted, staleAvailable, pc, frame_counter>>
    BY <1>5 DEF vars, deviceVars, adminVars
  <2>2. QED
    BY <1>1, <2>1, SemaphoreKept
<1>6. CASE StaticDraws \/ DynamicDraws
  BY <1>1, <1>5, <1>6, SemaphoreCopied, Zenon DEF StaticDraws, DynamicDraws
<1>7. CASE StaticWait \/ DynamicWait
  BY <1>5, <1>7 DEF StaticWait, DynamicWait
<1>8. CASE StillStep
  BY <1>5, <1>8, StillSteps
<1>9. CASE ReplaceSwapchain
  BY <1>9, SemaphoreReplaced
<1>10. QED
  BY <1>3, <1>4, <1>6, <1>7, <1>8, <1>9 DEF RendererNext, RendererStep, StillStep

LEMMA SemaphoreInvariance == RendererSpec => [](~Headless => SemaphoreInv)
<1>1. RendererInit => SemaphoreInv
  <2> SUFFICES ASSUME RendererInit PROVE SemaphoreInv
    OBVIOUS
  <2>1. Len(queue) = 0 /\ \A s \in Slots : ~available[s] /\ granted[s] = None
    BY DEF RendererInit, Init, DeviceInit
  <2>2. \A k \in 1 .. Len(queue) : FALSE
    BY <2>1
  <2>3. QED
    BY <2>1, <2>2 DEF SemaphoreInv
<1>2. SharedInv /\ (~Headless => SemaphoreInv) /\ [RendererNext]_allVars => (~Headless => SemaphoreInv)'
  BY SemaphoreInductive
<1>3. QED
  BY <1>1, <1>2, SharedInvariance, PTL DEF RendererSpec

\* With and without a window, for any number of images and slots: a frame of
\* a renderer is submitted only with a command buffer and a fence that no
\* pending submission has, and its acquire is given a semaphore that nothing
\* has signalled, will signal or waits for unless an acquire with it threw
\* before.  Copies and the replacement of the swapchain, which leaves the
\* semaphores as they are, do not come between.
THEOREM RendererFramesSafe == RendererSpec => [](SubmitsFreeBuffer /\ AcquireSemaphoreFree)
<1>1. ASSUME SharedInv, ~Headless => SemaphoreInv PROVE SubmitsFreeBuffer /\ AcquireSemaphoreFree
  <2>1. CASE pc = "idle"
    BY <2>1 DEF SubmitsFreeBuffer, AcquireSemaphoreFree
  <2>2. CASE pc # "idle"
    <3>1. TypeOK /\ IndInv
      BY <1>1, <2>2 DEF SharedInv, CopyWaits
    <3>2. Headless => pc # "acquire"
      BY <3>1 DEF IndInv, CallInv
    <3>3. AcquireSemaphoreFree
      BY <1>1, <3>1, <3>2, AcquirePoint DEF AcquireSemaphoreFree
    <3>4. QED
      BY <3>1, <3>3, SubmitPoint
  <2>3. QED
    BY <2>1, <2>2
<1>2. QED
  BY <1>1, SharedInvariance, SemaphoreInvariance, PTL

-----------------------------------------------------------------------------
(* The renderer implements the pipeline: its safety, as for FrameAdmin.    *)

\* The frames that are pending: all of the queue, or all but its last entry,
\* which is the copy.
FramesInv ==
  /\ Len(queue) \in Nat
  /\ \/ FramesPending = Len(queue) /\ \A k \in 1 .. Len(queue) : queue[k].buf \in Images
     \/ /\ Len(queue) # 0
        /\ FramesPending = Len(queue) - 1
        /\ queue[Len(queue)].buf = Scratch
        /\ op \in CopyWaits
  /\ FramesPending \in Nat
  /\ RendererInFlight \in Seq(Images)
  /\ Len(RendererInFlight) = FramesPending
  /\ \A k \in 1 .. FramesPending : RendererInFlight[k] = queue[k].buf

LEMMA FramesTyped == SharedInv => FramesInv
<1> SUFFICES ASSUME SharedInv PROVE FramesInv
  OBVIOUS
<1> DEFINE n == Len(queue)
<1>1. n \in Nat /\ (queue = <<>> => n = 0) /\ (queue # <<>> => n # 0)
  BY EmptySeq DEF SharedInv, TypeOK, DeviceTypeOK
<1>2. \A k \in 1 .. n : queue[k].buf \in Images \/ (k = n /\ queue[k].buf = Scratch /\ op \in CopyWaits)
  <2>1. CASE op \in CopyWaits
    BY <2>1 DEF SharedInv, CopyInv, Listed, Copied
  <2>2. CASE op \notin CopyWaits
    BY <2>2 DEF SharedInv, IndInv, TableInv, Listed
  <2>3. QED
    BY <2>1, <2>2
<1>3. Scratch \notin Images
  BY CopyApart
<1> HIDE DEF n
<1>4. \/ FramesPending = n /\ \A k \in 1 .. n : queue[k].buf \in Images
      \/ n # 0 /\ FramesPending = n - 1 /\ queue[n].buf = Scratch /\ op \in CopyWaits
  <2>1. CASE n = 0
    BY <1>1, <2>1 DEF FramesPending, n
  <2>2. CASE n # 0 /\ queue[n].buf = Scratch
    BY <1>1, <1>2, <1>3, <2>2 DEF FramesPending, n
  <2>3. CASE n # 0 /\ queue[n].buf # Scratch
    BY <1>1, <1>2, <2>3 DEF FramesPending, n
  <2>4. QED
    BY <2>1, <2>2, <2>3
<1>5. FramesPending \in Nat /\ \A k \in 1 .. FramesPending : queue[k].buf \in Images
  BY <1>1, <1>2, <1>4
<1>6. RendererInFlight \in [1 .. FramesPending -> Images]
  BY <1>5 DEF RendererInFlight
<1>7. RendererInFlight \in Seq(Images)
  BY <1>5, <1>6, SeqDef
<1>8. Len(RendererInFlight) = FramesPending
  BY <1>5, <1>6, <1>7, LenProperties
<1>9. \A k \in 1 .. FramesPending : RendererInFlight[k] = queue[k].buf
  BY DEF RendererInFlight
<1>10. QED
  BY <1>1, <1>4, <1>5, <1>7, <1>8, <1>9 DEF n, FramesInv

LEMMA FramesTypedNext == SharedInv' => FramesInv'
  BY FramesTyped, PTL

\* Outside the wait for a copy a step of the frame admin's pipeline is one of
\* the renderer's.
LEMMA SamePipeline ==
  ASSUME SharedInv, SharedInv', op \notin CopyWaits, op' \notin CopyWaits, [Pipeline!Next]_InFlight
  PROVE  [RendererPipeline!Next]_RendererInFlight
<1>1. FramesPending = Len(queue) /\ FramesPending' = Len(queue')
  BY FramesTyped, FramesTypedNext DEF FramesInv
<1>2. RendererInFlight = InFlight /\ RendererInFlight' = InFlight'
  BY <1>1 DEF RendererInFlight, InFlight, BuffersOf
<1>3. CASE Pipeline!Next
  BY <1>2, <1>3, Zenon DEF Pipeline!Next, Pipeline!Enter, Pipeline!Leave, InFlight, BuffersOf,
     RendererPipeline!Next, RendererPipeline!Enter, RendererPipeline!Leave
<1>4. QED
  BY <1>2, <1>3

\* While the copy is waited for, the frames before it leave; its own
\* completion is a stutter.
LEMMA FrameLeaves ==
  ASSUME SharedInv, SharedInv', Execute
  PROVE  [RendererPipeline!Next]_RendererInFlight
<1> DEFINE r == RendererInFlight
           f == FramesPending
<1>1. /\ Len(queue) \in Nat \ {0}
      /\ Len(queue') = Len(queue) - 1
      /\ \A k \in 1 .. Len(queue') : queue'[k] = queue[k + 1]
  BY ExecuteTyped DEF SharedInv, TypeOK
<1>2. f' = IF f = 0 THEN 0 ELSE f - 1
  <2>1. f \in Nat /\ f' \in Nat /\ Scratch \notin Images
    BY CopyApart, FramesTyped, FramesTypedNext DEF FramesInv
  <2>2. CASE Len(queue) = 1
    BY <1>1, <2>1, <2>2, FramesTyped, FramesTypedNext DEF FramesInv
  <2>3. CASE Len(queue) # 1
    <3>1. Len(queue') \in 1 .. Len(queue') /\ Len(queue) \in 1 .. Len(queue) /\ queue'[Len(queue')] = queue[Len(queue)]
      BY <1>1, <2>3
    <3>2. CASE queue[Len(queue)].buf = Scratch
      BY <1>1, <2>1, <2>3, <3>1, <3>2, FramesTyped, FramesTypedNext DEF FramesInv
    <3>3. CASE queue[Len(queue)].buf # Scratch
      BY <1>1, <2>1, <2>3, <3>1, <3>3, FramesTyped, FramesTypedNext DEF FramesInv
    <3>4. QED
      BY <3>2, <3>3
  <2>4. QED
    BY <2>2, <2>3
<1>3. /\ f \in Nat /\ r \in Seq(Images) /\ Len(r) = f /\ f <= Len(queue)
      /\ \A k \in 1 .. f : r[k] = queue[k].buf
  BY FramesTyped DEF FramesInv
<1>4. /\ f' \in Nat /\ r' \in Seq(Images) /\ Len(r') = f' /\ f' <= Len(queue')
      /\ \A k \in 1 .. f' : r'[k] = queue'[k].buf
  BY FramesTypedNext DEF FramesInv
<1> HIDE DEF r, f
<1>5. CASE f = 0
  <2>1. r = <<>> /\ r' = <<>>
    BY <1>2, <1>3, <1>4, <1>5, EmptySeq
  <2>2. QED
    BY <2>1 DEF r
<1>6. CASE f # 0
  <2>1. r # <<>>
    BY <1>3, <1>6, EmptySeq
  <2>2. /\ Tail(r) \in Seq(Images) /\ Len(Tail(r)) = f'
        /\ \A k \in 1 .. f' : Tail(r)[k] = r[k + 1]
    BY <1>2, <1>3, <1>6, <2>1, HeadTailProperties
  <2>3. \A k \in 1 .. f' : r'[k] = Tail(r)[k]
    <3> SUFFICES ASSUME NEW k \in 1 .. f' PROVE r'[k] = Tail(r)[k]
      BY Zenon
    <3>1. k + 1 \in 1 .. f /\ k \in 1 .. Len(queue')
      BY <1>1, <1>2, <1>3, <1>4, <1>6
    <3>2. r'[k] = queue'[k].buf /\ queue'[k] = queue[k + 1]
      BY <1>1, <1>4, <3>1
    <3>3. Tail(r)[k] = r[k + 1] /\ r[k + 1] = queue[k + 1].buf
      BY <1>3, <2>2, <3>1
    <3>4. QED
      BY <3>2, <3>3, Zenon
  <2>4. r' = Tail(r)
    BY <1>4, <2>2, <2>3, SeqEqual
  <2>5. RendererPipeline!Leave
    BY <2>1, <2>4 DEF RendererPipeline!Leave, r
  <2>6. QED
    BY <2>5 DEF RendererPipeline!Next
<1>7. QED
  BY <1>5, <1>6

\* The submission of a copy changes no frame.
LEMMA CopyUnseen ==
  ASSUME SharedInv, SharedInv', op \notin CopyWaits, Submit(Scratch, CopyFence, FALSE, FALSE)
  PROVE  UNCHANGED RendererInFlight
<1> DEFINE n == Len(queue)
<1>1. DeviceTypeOK /\ n \in Nat /\ FramesPending = n
  BY FramesTyped DEF FramesInv, SharedInv, TypeOK
<1>2. /\ Len(queue') = n + 1
      /\ \A k \in 1 .. n : queue'[k] = queue[k]
      /\ queue'[n + 1] = [buf |-> Scratch, slot |-> CopyFence, waits |-> FALSE, signals |-> FALSE]
  BY <1>1, CopyApart, SubmitTyped, Zenon
<1> HIDE DEF n
<1>3. FramesPending' = n
  <2>1. queue'[n + 1].buf = Scratch
    BY <1>2
  <2>2. \/ FramesPending' = Len(queue') /\ \A k \in 1 .. Len(queue') : queue'[k].buf \in Images
        \/ FramesPending' = Len(queue') - 1
    BY FramesTypedNext, Zenon DEF FramesInv
  <2>3. n + 1 \in 1 .. n + 1 /\ n + 1 - 1 = n
    BY <1>1
  <2>4. ~ \A k \in 1 .. Len(queue') : queue'[k].buf \in Images
    BY <1>2, <2>1, <2>3, CopyApart, Zenon
  <2>5. FramesPending' = Len(queue') - 1
    BY <2>2, <2>4, Zenon
  <2>6. Len(queue') - 1 = n
    BY <1>1, <1>2
  <2>7. QED
    BY <2>5, <2>6, Zenon
<1>4. QED
  BY <1>1, <1>2, <1>3 DEF RendererInFlight

\* Every step of the renderer, its frame admin and the device is a step of
\* the pipeline.
LEMMA RendererPipelineStep ==
  ASSUME SharedInv, SharedInv', [RendererNext]_allVars
  PROVE  [RendererPipeline!Next]_RendererInFlight
<1>1. ASSUME [Next]_vars, op \notin CopyWaits, op' \notin CopyWaits PROVE [RendererPipeline!Next]_RendererInFlight
  BY <1>1, PipelineStep, SamePipeline DEF SharedInv
<1>2. CASE EnterFrameAdmin \/ AdminStep \/ Regenerate \/ ((AcquireFails \/ Catch) /\ UNCHANGED rendererVars)
  BY <1>1, <1>2, AdminOnly DEF CopyWaits
<1>3. CASE DeviceStep /\ UNCHANGED <<adminVars, rendererVars>>
  <2>1. op' = op /\ Next
    BY <1>3 DEF rendererVars, Next
  <2>2. CASE op \in CopyWaits /\ ~Execute
    <3>1. UNCHANGED queue
      BY <1>3, <2>2 DEF DeviceStep, Display, Release
    <3>2. QED
      BY <3>1 DEF RendererInFlight, FramesPending
  <2>3. QED
    BY <1>1, <2>1, <2>2, FrameLeaves
<1>4. ASSUME UNCHANGED queue PROVE [RendererPipeline!Next]_RendererInFlight
  BY <1>4 DEF RendererInFlight, FramesPending
<1>5. CASE StaticDraws \/ DynamicDraws
  BY <1>4, <1>5, CopyUnseen, Zenon DEF StaticDraws, DynamicDraws, CopyWaits, vars, deviceVars
<1>6. CASE StaticWait \/ DynamicWait \/ ReplaceSwapchain
  BY <1>4, <1>6 DEF StaticWait, DynamicWait, ReplaceSwapchain, Recreate, vars, deviceVars, fenceVars
<1>7. CASE StillStep
  BY <1>4, <1>7, StillSteps DEF fenceVars
<1>8. QED
  BY <1>2, <1>3, <1>5, <1>6, <1>7 DEF RendererNext, RendererStep, StillStep

\* With and without a window, for any number of images and slots: the frames
\* of a renderer go through the pipeline of its frame admin although the
\* renderer submits copies to the same queue.  At most as many as slots are in
\* flight, each at most once, and they leave in the order of their submission.
THEOREM RendererRefinesPipeline ==
  RendererSpec => RendererPipeline!Init /\ [][RendererPipeline!Next]_RendererInFlight
<1>1. RendererInit => RendererPipeline!Init
  <2> SUFFICES ASSUME RendererInit PROVE RendererInFlight = <<>>
    BY DEF RendererPipeline!Init
  <2>1. queue = <<>> /\ Len(queue) = 0
    BY DEF RendererInit, Init, DeviceInit
  <2>2. FramesPending = 0
    BY <2>1 DEF FramesPending
  <2>3. QED
    BY <2>2 DEF RendererInFlight
<1>2. QED
  BY <1>1, RendererPipelineStep, SharedInvariance, PTL DEF RendererSpec

-----------------------------------------------------------------------------
(* What is drawn.  This does not depend on what is waited for.             *)

\* The points between calls, and those of calls that leave the draw list.
Settled == {"ready", "frame", "colour_idle", "resize_idle"}

\* The frame admin runs only when the renderer is ready.  Once record_draw_list
\* has passed a buffer it holds the new list; at the end the cache does too,
\* and everything that was recorded since the constructor is up to date.
ListInv ==
  /\ op # "ready" => pc = "idle"
  /\ op \in Settled \cup {"static_wait", "dynamic", "dynamic_wait", "record"} =>
       draw_indirect_buffer = Statics(draws)
  /\ op \in Settled \cup {"dynamic_wait", "record"} => draw_indirect_dynamic_buffer = Dynamics(draws)
  /\ op \in Settled \cup {"record"} => draw_cache = draws
  /\ op \in Settled \ {"colour_idle"} =>
       \A v \in Images : cmds[v] = Constructed \/ UpToDate(cmds[v])

\* The two halves of a draw list are lists of handles.
LEMMA HalvesTyped ==
  ASSUME NEW list \in Seq(Handles)
  PROVE  Statics(list) \in Seq(Handles) /\ Dynamics(list) \in Seq(Handles)
<1>1. Handles \cap (Handles \ DynamicInputs) \subseteq Handles /\ Handles \cap DynamicInputs \subseteq Handles
  OBVIOUS
<1>2. /\ Filter(list, Handles \ DynamicInputs) \in Seq(Handles \cap (Handles \ DynamicInputs))
      /\ Filter(list, DynamicInputs) \in Seq(Handles \cap DynamicInputs)
  BY FilterTyped
<1>3. QED
  BY <1>1, <1>2 DEF Statics, Dynamics

\* Commands that are recorded from typed lists are typed.
LEMMA RecordingTyped ==
  ASSUME RendererTypeOK
  PROVE  Recording \in Commands
<1>1. ASSUME NEW buffer \in Seq(Handles), NEW n \in Nat PROVE Drawn(buffer, n) \in Seq(Handles \cup {None})
  BY DEF Drawn
<1>2. Len(Statics(draw_cache)) \in Nat /\ Len(Dynamics(draw_cache)) \in Nat
  BY HalvesTyped DEF RendererTypeOK
<1>3. /\ Drawn(draw_indirect_buffer, Len(Statics(draw_cache))) \in Seq(Handles \cup {None})
      /\ Drawn(draw_indirect_dynamic_buffer, Len(Dynamics(draw_cache))) \in Seq(Handles \cup {None})
  BY <1>1, <1>2, Zenon DEF RendererTypeOK
<1>4. QED
  BY <1>3 DEF Recording, Commands, RendererTypeOK

\* A buffer that was filled from the list that is cached is drawn as it is.
LEMMA DrawnWhole ==
  ASSUME NEW buffer \in Seq(Handles)
  PROVE  Drawn(buffer, Len(buffer)) = buffer
  BY DEF Drawn

\* What is recorded once the list is settled is up to date.
LEMMA RecordingUpToDate ==
  ASSUME RendererTypeOK, draw_cache = draws,
         draw_indirect_buffer = Statics(draws), draw_indirect_dynamic_buffer = Dynamics(draws)
  PROVE  UpToDate(Recording)
<1>1. /\ Drawn(draw_indirect_buffer, Len(draw_indirect_buffer)) = draw_indirect_buffer
      /\ Drawn(draw_indirect_dynamic_buffer, Len(draw_indirect_dynamic_buffer)) = draw_indirect_dynamic_buffer
  BY DrawnWhole DEF RendererTypeOK
<1>2. QED
  BY <1>1 DEF UpToDate, Recording

\* Every step of the renderer, its frame admin and the device keeps the types.
LEMMA RendererTyped ==
  ASSUME RendererTypeOK, [RendererNext]_allVars
  PROVE  RendererTypeOK'
<1>1. TypeOK'
  BY DeviceTyped DEF RendererTypeOK
<1>2. 0 \in Images
  BY NumImagesAssumption DEF Images
<1>3. Recording \in Commands /\ RecordAll \in [Images -> Commands] /\ NoCommands \in Commands
  <2>1. Recording \in Commands
    BY RecordingTyped
  <2>2. RecordAll \in [Images -> Commands]
    BY <2>1 DEF RecordAll
  <2> DEFINE none == <<>>
             yes == TRUE
  <2>3. none \in Seq(Handles \cup {None}) /\ None \in Colours \cup {None} /\ yes \in BOOLEAN
    OBVIOUS
  <2>4. NoCommands = [statics |-> none, dynamics |-> none, colour |-> None, live |-> yes]
    BY Zenon DEF NoCommands
  <2> HIDE DEF none, yes
  <2>5. NoCommands \in Commands
    BY <2>3, <2>4, Zenon DEF Commands
  <2>6. QED
    BY <2>1, <2>2, <2>5
<1>4. ASSUME NEW c \in Commands, NEW named \in BOOLEAN PROVE Orphan(c, named) \in Commands
  BY Zenon DEF Orphan, Commands
<1>5. Statics(draws) \in Seq(Handles) /\ Dynamics(draws) \in Seq(Handles)
  BY HalvesTyped DEF RendererTypeOK
<1>6. ASSUME UNCHANGED rendererVars PROVE RendererTypeOK'
  BY <1>1, <1>6 DEF RendererTypeOK, rendererVars
<1>7. CASE EnterFrameAdmin
  BY <1>1, <1>7 DEF EnterFrameAdmin, RendererTypeOK, listVars, Ops
<1>8. ASSUME NEW list \in DrawLists, RenderCached(list) \/ RenderDraws(list) PROVE RendererTypeOK'
  BY <1>1, <1>2, <1>8, DrawListsAssumption DEF RenderCached, RenderDraws, RendererTypeOK, Ops
<1>9. ASSUME NEW c \in Colours, SetClearColour(c) PROVE RendererTypeOK'
  BY <1>1, <1>9 DEF SetClearColour, RendererTypeOK, listVars, Ops
<1>10. CASE OnWindowResize
  BY <1>1, <1>10, Zenon DEF OnWindowResize, RendererTypeOK, listVars, Ops
<1>11. CASE ClearView
  <2>1. cmds' \in [Images -> Commands]
    BY <1>3, <1>11 DEF ClearView, RendererTypeOK
  <2>2. view' \in Images /\ op' \in Ops
    BY <1>2, <1>11, SMTT(30) DEF ClearView, Ops
  <2>3. QED
    BY <1>1, <1>11, <2>1, <2>2 DEF ClearView, RendererTypeOK, listVars
<1>12. CASE StaticDraws
  <2>1. ASSUME NEW v \in Images PROVE Orphan(cmds[v], cmds[v].statics # <<>>) \in Commands
    BY <1>4, Zenon DEF RendererTypeOK
  <2>2. cmds' \in [Images -> Commands]
    BY <1>12, <2>1 DEF StaticDraws
  <2>3. op' \in Ops
    BY <1>12, Zenon DEF StaticDraws, Ops
  <2>4. QED
    BY <1>1, <1>5, <1>12, <2>2, <2>3 DEF StaticDraws, RendererTypeOK
<1>13. CASE DynamicDraws
  <2>1. ASSUME NEW v \in Images PROVE Orphan(cmds[v], cmds[v].dynamics # <<>>) \in Commands
    BY <1>4, Zenon DEF RendererTypeOK
  <2>2. cmds' \in [Images -> Commands]
    BY <1>13, <2>1 DEF DynamicDraws
  <2>3. op' \in Ops /\ draw_cache' \in {draws, draw_cache}
    BY <1>13, Zenon DEF DynamicDraws, Ops
  <2>4. QED
    BY <1>1, <1>5, <1>13, <2>2, <2>3 DEF DynamicDraws, RendererTypeOK
<1>14. CASE StaticWait \/ DynamicWait
  BY <1>1, <1>14 DEF StaticWait, DynamicWait, OpStep, RendererTypeOK, listVars, Ops
<1>15. CASE Record \/ ClearColourChange
  BY <1>1, <1>3, <1>15 DEF Record, ClearColourChange, OpStep, RendererTypeOK, listVars, Ops
<1>16. CASE ReplaceSwapchain
  BY <1>1, <1>3, <1>16, Zenon DEF ReplaceSwapchain, OpStep, RendererTypeOK, listVars, Ops
<1>17. CASE Regenerate
  BY <1>1, <1>3, <1>17 DEF Regenerate, RendererTypeOK, listVars
<1>18. CASE AdminStep \/ ((AcquireFails \/ Catch) /\ UNCHANGED rendererVars) \/ (DeviceStep /\ UNCHANGED <<adminVars, rendererVars>>)
  BY <1>6, <1>18 DEF AdminStep
<1>19. CASE UNCHANGED allVars
  BY <1>6, <1>19 DEF allVars
<1>20. QED
  BY <1>7, <1>8, <1>9, <1>10, <1>11, <1>12, <1>13, <1>14, <1>15, <1>16, <1>17, <1>18, <1>19
  DEF RendererNext, RendererStep

\* Every step of the renderer keeps what is drawn in agreement with the list.
LEMMA ListStep ==
  ASSUME RendererTypeOK, ListInv, [RendererNext]_allVars
  PROVE  ListInv'
<1> USE DEF ListInv, Settled
<1>1. ASSUME UNCHANGED rendererVars, op # "ready" => pc' = "idle" PROVE ListInv'
  BY <1>1 DEF rendererVars, UpToDate
<1>2. CASE EnterFrameAdmin
  BY <1>2 DEF EnterFrameAdmin, listVars, UpToDate
<1>3. ASSUME NEW list \in DrawLists, RenderCached(list) PROVE ListInv'
  <2>1. op = "ready" /\ op' = "frame" /\ pc = "idle" /\ pc' = pc /\ draws' = draws
    BY <1>3 DEF RenderCached, Called, vars, adminVars
  <2>2. UNCHANGED <<draw_cache, draw_indirect_buffer, draw_indirect_dynamic_buffer, clear_colour, cmds>>
    BY <1>3 DEF RenderCached
  <2>3. QED
    BY <2>1, <2>2 DEF UpToDate
<1>4. ASSUME NEW list \in DrawLists, RenderDraws(list) PROVE ListInv'
  BY <1>4 DEF RenderDraws, Called, vars, adminVars
<1>5. ASSUME NEW c \in Colours, SetClearColour(c) PROVE ListInv'
  BY <1>5 DEF SetClearColour, Called, listVars, vars, adminVars
<1>6. CASE OnWindowResize
  BY <1>6 DEF OnWindowResize, Called, listVars, vars, adminVars, UpToDate
<1>7. CASE AcquireFails /\ UNCHANGED rendererVars
  BY <1>1, <1>7, Zenon DEF AcquireFails, AcquireOutOfDate, AcquireOther, Advance, Goto
<1>8. CASE ClearView
  BY <1>8 DEF ClearView, vars, adminVars
<1>9. CASE StaticDraws
  BY <1>9, Zenon DEF StaticDraws, vars, adminVars
<1>10. CASE StaticWait
  BY <1>10 DEF StaticWait, OpStep, listVars, vars, adminVars
<1>11. CASE DynamicDraws
  BY <1>11, Zenon DEF DynamicDraws, vars, adminVars
<1>12. CASE DynamicWait
  BY <1>12 DEF DynamicWait, OpStep, vars, adminVars
<1>13. ASSUME cmds' = RecordAll, UNCHANGED <<listVars, clear_colour>>, op \in Settled \cup {"record"},
              op' \in Settled, op' # "ready" => pc' = "idle"
       PROVE  ListInv'
  <2>1. UpToDate(Recording)
    BY <1>13, RecordingUpToDate
  <2>2. \A v \in Images : cmds'[v] = Recording
    BY <1>13 DEF RecordAll
  <2>3. UNCHANGED <<draws, draw_cache, draw_indirect_buffer, draw_indirect_dynamic_buffer, clear_colour>>
    BY <1>13 DEF listVars
  <2>4. \A v \in Images : UpToDate(cmds[v])'
    <3> HIDE DEF ListInv, Settled
    <3> SUFFICES ASSUME NEW v \in Images PROVE UpToDate(cmds[v])'
      OBVIOUS
    <3>1. cmds'[v] = Recording
      BY <2>2
    <3>2. QED
      BY <2>1, <2>3, <3>1 DEF UpToDate
  <2>5. QED
    BY <1>13, <2>3, <2>4
<1>14. CASE Record
  <2>1. op = "record" /\ op' = "frame" /\ pc = "idle" /\ pc' = pc
    BY <1>14 DEF Record, OpStep, vars, adminVars
  <2>2. cmds' = RecordAll /\ UNCHANGED <<listVars, clear_colour>>
    BY <1>14, Zenon DEF Record
  <2> HIDE DEF ListInv
  <2>3. QED
    BY <1>13, <2>1, <2>2
<1>15. CASE ClearColourChange
  BY <1>13, <1>15 DEF ClearColourChange, OpStep
<1>16. CASE ReplaceSwapchain
  BY <1>13, <1>16 DEF ReplaceSwapchain, OpStep
<1>17. CASE Regenerate
  <2>1. op = "ready" /\ op' = op
    BY <1>17 DEF Regenerate, Regenerated, Advance, Goto
  <2>2. cmds' = RecordAll /\ UNCHANGED <<listVars, clear_colour>>
    BY <1>17, Zenon DEF Regenerate
  <2> HIDE DEF ListInv
  <2>3. QED
    BY <1>13, <2>1, <2>2
<1>18. CASE AdminStep
  <2>1. pc # "idle" /\ UNCHANGED rendererVars
    BY <1>18, Zenon DEF AdminStep, WaitFence, WaitImage, SubmitFrame, PresentFrame, SubmitFrameHeadless,
                 AcquireGrants, Acquire, AcquireSuboptimal, Advance, Goto
  <2>2. QED
    BY <1>1, <2>1, Zenon
<1>19. CASE Catch /\ UNCHANGED rendererVars
  BY <1>1, <1>19, Zenon DEF Catch, Advance, Goto
<1>20. CASE DeviceStep /\ UNCHANGED <<adminVars, rendererVars>>
  <2>1. pc' = pc
    BY <1>20 DEF adminVars
  <2>2. UNCHANGED rendererVars
    BY <1>20, Zenon
  <2>3. QED
    BY <1>1, <2>1, <2>2, Zenon
<1>21. CASE UNCHANGED allVars
  BY <1>1, <1>21, Zenon DEF allVars, vars, adminVars
<1>22. QED
  BY <1>2, <1>3, <1>4, <1>5, <1>6, <1>7, <1>8, <1>9, <1>10, <1>11, <1>12, <1>14, <1>15, <1>16, <1>17, <1>18, <1>19,
     <1>20, <1>21, Zenon
  DEF RendererNext, RendererStep

\* A renderer starts with the list of all its inputs, typed and cached.
LEMMA InitLists == RendererInit => RendererTypeOK /\ ListInv
<1> SUFFICES ASSUME RendererInit PROVE RendererTypeOK /\ ListInv
  OBVIOUS
<1>1. TypeOK /\ pc = "idle"
  BY InitTyped DEF RendererInit, Init
<1>2. 0 \in Images
  BY NumImagesAssumption DEF Images
<1>3. all_inputs_once \in Seq(Handles)
  BY InputsAssumption DEF all_inputs_once, Handles
<1>4. Statics(all_inputs_once) \in Seq(Handles) /\ Dynamics(all_inputs_once) \in Seq(Handles)
  BY <1>3, HalvesTyped, Zenon
<1>5. Constructed \in Commands
  <2> DEFINE live == NumInputs = 0
             none == <<>>
  <2>1. live \in BOOLEAN
    BY Zenon
  <2>2. none \in Seq(Handles \cup {None}) /\ 0 \in Colours \cup {None}
    BY ColoursAssumption
  <2>3. Constructed = [statics |-> none, dynamics |-> none, colour |-> 0, live |-> live]
    BY Zenon DEF Constructed
  <2> HIDE DEF live, none
  <2>4. QED
    BY <2>1, <2>2, <2>3, Zenon DEF Commands
<1>6. RendererTypeOK
  BY <1>1, <1>2, <1>3, <1>4, <1>5, ColoursAssumption, Zenon DEF RendererTypeOK, RendererInit, Ops
<1>7. ListInv
  BY <1>1 DEF ListInv, RendererInit, Settled
<1>8. QED
  BY <1>6, <1>7

LEMMA ListInvariance == RendererSpec => [](RendererTypeOK /\ ListInv)
  BY InitLists, RendererTyped, ListStep, PTL DEF RendererSpec

\* The variables of a renderer, its frame admin and the device keep their
\* types, whatever the constants: view stays an image, and draws and indirect
\* buffers stay lists of handles.
THEOREM RendererTypeCorrect == RendererSpec => []RendererTypeOK
  BY ListInvariance, PTL

\* Whatever the application calls, the window does and the acquire answers,
\* with and without a window and for any number of images and slots: commands
\* that were recorded since the constructor draw the list last given to render,
\* in the colour last set, from buffers that exist.
THEOREM DrawsLatest == RendererSpec => []RendersLatestOnceRecorded
<1>1. RendererTypeOK /\ ListInv => RendersLatestOnceRecorded
  BY DEF RendererTypeOK, TypeOK, AdminTypeOK, ListInv, Settled, RendersLatestOnceRecorded
<1>2. QED
  BY <1>1, ListInvariance, PTL

-----------------------------------------------------------------------------
(* With a window and no more images than slots wait_for waits for what it  *)
(* names, so that clear_rendering_commands leaves nothing pending: the     *)
(* copies of record_draw_list are alone in the queue.                      *)

ClearInv ==
  /\ op = "clear" => \A v \in Images : v < view => ~Pending(v)
  /\ op \in {"static", "dynamic", "record"} => queue = <<>>
  /\ op \in CopyWaits => \A k \in 1 .. Len(queue) : Copied(queue[k])

\* A queue in which no view is pending is empty.
LEMMA NonePending ==
  ASSUME TypeOK, IndInv, \A v \in Images : ~Pending(v)
  PROVE  queue = <<>>
<1>1. \A k \in 1 .. Len(queue) : FALSE
  BY DEF IndInv, TableInv, Listed, Pending
<1>2. queue \in Seq(Submission) /\ Len(queue) \in Nat
  BY DEF TypeOK, DeviceTypeOK
<1>3. Len(queue) = 0
  BY <1>1, <1>2
<1>4. QED
  BY <1>2, <1>3, EmptySeq

\* Nothing but a submission makes a command buffer pending.
LEMMA ExecuteFrees ==
  ASSUME TypeOK, Execute, NEW b, Pending(b)'
  PROVE  Pending(b)
<1>1. PICK k \in 1 .. Len(queue') : queue'[k].buf = b
  BY DEF Pending
<1>2. Len(queue) \in Nat \ {0} /\ Len(queue') = Len(queue) - 1 /\ queue'[k] = queue[k + 1]
  BY ExecuteTyped DEF TypeOK
<1>3. k + 1 \in 1 .. Len(queue)
  BY <1>1, <1>2
<1>4. QED
  BY <1>1, <1>2, <1>3 DEF Pending

\* A round of clear_rendering_commands: one more view is not pending, and
\* after the last nothing is.
LEMMA ClearViewStep ==
  ASSUME ~Headless, NumImages <= FrameDepth, RendererTypeOK, SharedInv, ClearInv, ClearView
  PROVE  ClearInv'
<1>1. IndInv /\ TypeOK /\ view \in Images
  BY DEF RendererTypeOK, SharedInv, ClearView, CopyWaits
<1>2. UNCHANGED queue
  BY DEF ClearView, vars, deviceVars
<1>3. ~Pending(view)
  BY <1>1, WaitForFree DEF ClearView
<1>4. \A v \in Images : v < view + 1 => ~Pending(v)
  BY <1>1, <1>3, NumImagesAssumption DEF ClearInv, ClearView, Images
<1>5. \A v \in Images : Pending(v)' <=> Pending(v)
  BY <1>2 DEF Pending
<1>6. CASE view + 1 \in Images
  BY <1>4, <1>5, <1>6 DEF ClearInv, ClearView, CopyWaits
<1>7. CASE view + 1 \notin Images
  <2>1. \A v \in Images : v < view + 1
    BY <1>1, <1>7, NumImagesAssumption DEF Images
  <2>2. queue = <<>>
    BY <1>1, <1>4, <2>1, NonePending
  <2>3. QED
    BY <1>2, <1>7, <2>2 DEF ClearInv, ClearView, CopyWaits
<1>8. QED
  BY <1>6, <1>7

\* Once its fence was waited for, the copy is not pending either.
LEMMA CopyGone ==
  ASSUME SharedInv, ClearInv, op \in CopyWaits, Waited(CopyFence)
  PROVE  queue = <<>>
<1>1. \A k \in 1 .. Len(queue) : FALSE
  BY CopyApart DEF SharedInv, ClearInv, CopyInv, FenceInv, FenceInUse, Waited, Copied
<1>2. queue \in Seq(Submission) /\ Len(queue) \in Nat
  BY DEF SharedInv, TypeOK, DeviceTypeOK
<1>3. Len(queue) = 0
  BY <1>1, <1>2
<1>4. QED
  BY <1>2, <1>3, EmptySeq

\* A copy that is submitted to an empty queue is alone there.
LEMMA CopyAlone ==
  ASSUME TypeOK, Len(queue) = 0, Submit(Scratch, CopyFence, FALSE, FALSE)
  PROVE  Len(queue') = 1 /\ Copied(queue'[1])
<1>1. DeviceTypeOK
  BY DEF TypeOK
<1>2. /\ Len(queue') = Len(queue) + 1
      /\ queue'[Len(queue) + 1] = [buf |-> Scratch, slot |-> CopyFence, waits |-> FALSE, signals |-> FALSE]
  BY <1>1, CopyApart, SubmitTyped, Zenon
<1>3. Len(queue') = 1 /\ queue'[1] = [buf |-> Scratch, slot |-> CopyFence, waits |-> FALSE, signals |-> FALSE]
  BY <1>1, <1>2
<1>4. QED
  BY <1>3 DEF Copied

\* ClearInv is inductive.
LEMMA ClearStep ==
  ASSUME ~Headless, NumImages <= FrameDepth, RendererTypeOK, SharedInv, ClearInv, [RendererNext]_allVars
  PROVE  ClearInv'
<1>1. CASE EnterFrameAdmin \/ AdminStep \/ Regenerate \/ ((AcquireFails \/ Catch) /\ UNCHANGED rendererVars)
  BY <1>1, AdminOnly DEF ClearInv, CopyWaits
<1>2. CASE DeviceStep /\ UNCHANGED <<adminVars, rendererVars>>
  <2>1. UNCHANGED <<op, view>>
    BY <1>2 DEF rendererVars
  <2>2. CASE ~Execute
    <3>1. UNCHANGED queue
      BY <1>2, <2>2 DEF DeviceStep, Display, Release
    <3>2. QED
      BY <2>1, <3>1 DEF ClearInv, Pending, Copied
  <2>3. CASE Execute
    <3>1. queue # <<>> /\ TypeOK
      BY <2>3 DEF Execute, SharedInv
    <3>2. \A v \in Images : ~Pending(v) => ~Pending(v)'
      BY <2>3, <3>1, ExecuteFrees
    <3>3. ASSUME op \in CopyWaits, NEW k \in 1 .. Len(queue') PROVE Copied(queue'[k])
      <4>1. Len(queue) \in Nat /\ Len(queue') = Len(queue) - 1 /\ queue'[k] = queue[k + 1]
        BY <2>3, <3>1, ExecuteTyped DEF TypeOK
      <4>2. k + 1 \in 1 .. Len(queue)
        BY <4>1
      <4>3. QED
        BY <3>3, <4>1, <4>2 DEF ClearInv
    <3>4. QED
      BY <2>1, <3>1, <3>2, <3>3 DEF ClearInv, Copied
  <2>4. QED
    BY <2>2, <2>3
<1>3. CASE ClearView
  BY <1>3, ClearViewStep
<1>4. ASSUME queue' = <<>>, op' \in {"dynamic", "record"} PROVE ClearInv'
  BY <1>4 DEF ClearInv, CopyWaits
<1>5. CASE StaticDraws \/ DynamicDraws
  <2>1. queue = <<>> /\ TypeOK
    BY <1>5, Zenon DEF StaticDraws, DynamicDraws, ClearInv, SharedInv
  <2>2. CASE UNCHANGED vars /\ op' \in {"dynamic", "record"}
    BY <1>4, <2>1, <2>2 DEF vars, deviceVars
  <2>3. CASE Submit(Scratch, CopyFence, FALSE, FALSE) /\ op' \in CopyWaits
    <3>1. Len(queue') = 1 /\ Copied(queue'[1])
      <4>1. Len(queue) = 0
        BY <2>1
      <4>2. QED
        BY <2>1, <2>3, <4>1, CopyAlone, Zenon
    <3>2. QED
      BY <2>3, <3>1 DEF ClearInv, CopyWaits, Copied
  <2>4. QED
    BY <1>5, <2>2, <2>3, Zenon DEF StaticDraws, DynamicDraws, CopyWaits
<1>6. CASE StaticWait \/ DynamicWait
  <2>1. op \in CopyWaits /\ Waited(CopyFence) /\ op' \in {"dynamic", "record"} /\ UNCHANGED vars
    BY <1>6 DEF StaticWait, DynamicWait, OpStep, CopyWaits
  <2>2. QED
    BY <1>4, <2>1, CopyGone DEF vars, deviceVars
<1>7. CASE ReplaceSwapchain \/ ClearColourChange \/ OnWindowResize \/ Record
  BY <1>7 DEF ReplaceSwapchain, ClearColourChange, OnWindowResize, Record, OpStep, ClearInv, CopyWaits
<1>8. ASSUME NEW c \in Colours, SetClearColour(c) PROVE ClearInv'
  BY <1>8 DEF SetClearColour, ClearInv, CopyWaits
<1>9. ASSUME NEW list \in DrawLists, RenderCached(list) \/ RenderDraws(list) PROVE ClearInv'
  <2>1. op' = "frame" \/ (op' = "clear" /\ view' = 0)
    BY <1>9 DEF RenderCached, RenderDraws
  <2>2. \A v \in Images : ~(v < 0)
    BY NumImagesAssumption DEF Images
  <2>3. QED
    BY <2>1, <2>2 DEF ClearInv, CopyWaits
<1>10. CASE UNCHANGED allVars
  <2>1. UNCHANGED <<op, view, queue>>
    BY <1>10 DEF allVars, rendererVars, vars, deviceVars
  <2>2. QED
    BY <2>1 DEF ClearInv, Pending, Copied
<1>11. QED
  BY <1>1, <1>2, <1>3, <1>5, <1>6, <1>7, <1>8, <1>9, <1>10 DEF RendererNext, RendererStep

\* What holds in every state of a renderer with a window and enough slots.
RendererInv == RendererTypeOK /\ SharedInv /\ SemaphoreInv /\ ClearInv

LEMMA RendererInvariance ==
  ASSUME ~Headless, NumImages <= FrameDepth
  PROVE  RendererSpec => []RendererInv
<1>1. RendererInit => ClearInv
  BY DEF RendererInit, ClearInv, CopyWaits
<1>2. RendererTypeOK /\ SharedInv /\ ClearInv /\ [RendererNext]_allVars => ClearInv'
  BY ClearStep
<1>3. RendererTypeOK /\ SharedInv /\ (~Headless => SemaphoreInv) /\ ClearInv => RendererInv
  BY DEF RendererInv
<1>4. QED
  BY <1>1, <1>2, <1>3, SharedInvariance, SemaphoreInvariance, ListInvariance, PTL DEF RendererSpec

\* Whatever the application calls and an acquire answers, no command
\* buffer that the device may be running is reset, recorded again or left
\* without the indirect buffers it names, but by the regeneration function.
THEOREM CommandsSafe ==
  ASSUME ~Headless, NumImages <= FrameDepth
  PROVE  RendererSpec => PendingUntouched
<1>1. ASSUME RendererInv, [RendererNext]_allVars, NEW v \in Images, Pending(v), Pending(v)', pc # "regenerate"
      PROVE  cmds'[v] = cmds[v]
  <2>1. queue # <<>>
    <3> SUFFICES ASSUME queue = <<>> PROVE FALSE
      OBVIOUS
    <3>1. Len(queue) = 0
      OBVIOUS
    <3>2. QED
      BY <1>1, <3>1 DEF Pending
  <2>2. CASE ClearView
    <3>1. TypeOK /\ IndInv /\ view \in Images
      BY <1>1, <2>2 DEF RendererInv, RendererTypeOK, SharedInv, ClearView, CopyWaits
    <3>2. ~Pending(view)
      BY <2>2, <3>1, WaitForFree DEF ClearView
    <3>3. QED
      BY <1>1, <2>2, <3>2 DEF RendererInv, RendererTypeOK, ClearView
  <2>3. ~(StaticDraws \/ DynamicDraws \/ Record)
    BY <1>1, <2>1, Zenon DEF RendererInv, ClearInv, StaticDraws, DynamicDraws, Record, OpStep
  <2>4. ~(ClearColourChange \/ ReplaceSwapchain)
    BY <2>1 DEF ClearColourChange, ReplaceSwapchain, Idle
  <2>5. ~Regenerate
    BY <1>1 DEF Regenerate, Regenerated, Advance, Goto
  <2>6. CASE ~ClearView
    <3>1. cmds' = cmds
      BY <1>1, <2>3, <2>4, <2>5, <2>6
      DEF RendererNext, RendererStep, EnterFrameAdmin, RenderCached, RenderDraws, SetClearColour, OnWindowResize,
          StaticWait, DynamicWait, AdminStep, rendererVars, allVars
    <3>2. QED
      BY <3>1
  <2>7. QED
    BY <2>2, <2>6
<1>2. RendererInv /\ [RendererNext]_allVars =>
        [\A v \in Images : Pending(v) /\ Pending(v)' /\ pc # "regenerate" => cmds'[v] = cmds[v]]_allVars
  BY <1>1
<1>3. QED
  BY <1>2, RendererInvariance, PTL DEF RendererSpec, PendingUntouched

\* When wait_for(img) returns, at whatever point of whatever call of a
\* renderer, the command buffer of img is not pending, although copies share
\* the queue and the pool with frames.
THEOREM RendererWaitForSafe ==
  ASSUME ~Headless, NumImages <= FrameDepth
  PROVE  RendererSpec => []WaitForMeansFree
<1>1. ASSUME RendererInv PROVE WaitForMeansFree
  <2>1. CASE op \in CopyWaits
    BY <1>1, <2>1, CopyApart DEF RendererInv, ClearInv, Copied, WaitForMeansFree, Pending
  <2>2. CASE op \notin CopyWaits
    BY <1>1, <2>2, WaitForFree DEF RendererInv, SharedInv, WaitForMeansFree
  <2>3. QED
    BY <2>1, <2>2
<1>2. QED
  BY <1>1, RendererInvariance, PTL

-----------------------------------------------------------------------------
(* The presents and the screen.  What the frame admin's invariants say of  *)
(* frames also holds while a copy is waited for; the renderer's own        *)
(* submissions and the replacement of the swapchain keep it.               *)

ShownInv == PresentInv /\ ScreenInv

\* Steps that leave the frames alone: none was pending and none is, or the
\* queue stays as it is.
LEMMA ShownKept ==
  ASSUME ShownInv, UNCHANGED <<semaphoreVars, engineVars, adminVars>>,
         \/ queue' = queue
         \/ /\ \A k \in 1 .. Len(queue) : queue[k].slot \notin Slots
            /\ \A k \in 1 .. Len(queue') : queue'[k].slot \notin Slots
  PROVE  ShownInv'
<1>1. UNCHANGED <<available, finished, granted, held, presents, shown, staleAvailable, staleFinished, pc, frame_counter, cur_image_index>>
  BY DEF semaphoreVars, engineVars, adminVars
<1>2. HeldInv' /\ SlotsInv'
  BY <1>1, Zenon DEF ShownInv, PresentInv, HeldInv, SlotsInv, Back
<1>3. /\ \A s : Acquired(s)' <=> Acquired(s)
      /\ \A s, b : Presented(s, b)' <=> Presented(s, b)
  BY <1>1 DEF Acquired, Presented
<1>4. \A s \in Slots : FenceInUse(s)' <=> FenceInUse(s)
  BY DEF FenceInUse
<1>5. \A k \in 1 .. Len(queue') : queue'[k].slot \in Slots => k \in 1 .. Len(queue) /\ queue'[k] = queue[k]
  OBVIOUS
<1>6. PresentedInv'
  <2>1. ASSUME NEW k \in 1 .. Len(queue'), queue'[k].slot \in Slots \ staleFinished
        PROVE  Presented(queue[k].slot, queue[k].buf)'
    <3>1. k \in 1 .. Len(queue) /\ queue'[k] = queue[k]
      BY <1>5, <2>1, Zenon
    <3>2. Presented(queue[k].slot, queue[k].buf)
      BY <2>1, <3>1 DEF ShownInv, PresentInv, PresentedInv
    <3>3. QED
      BY <1>1, <3>1, <3>2 DEF Presented
  <2>2. QED
    BY <1>1, <1>3, <1>4, <2>1, Zenon DEF ShownInv, PresentInv, PresentedInv
<1>7. \A s \in InStep, b \in Images : ImageOf(s, b)' => ImageOf(s, b)
  BY <1>1, <1>3, <1>5 DEF ImageOf, InStep
<1>8. ScreenInv'
  <2>1. InStep' = InStep
    BY <1>1 DEF InStep
  <2>2. QED
    BY <1>1, <1>7, <2>1, ScreenKept, Zenon DEF ShownInv
<1>9. QED
  BY <1>2, <1>6, <1>8 DEF ShownInv, PresentInv

\* While a copy is waited for the engine goes on showing images, and the copy
\* completes; it touches no semaphore.
LEMMA ShownCopying ==
  ASSUME RendererInv, op \in CopyWaits, ShownInv, DeviceStep, UNCHANGED <<adminVars, rendererVars>>, ClearInv'
  PROVE  ShownInv'
<1>1. TypeOK /\ op' = op /\ UNCHANGED adminVars
  BY DEF RendererInv, SharedInv, rendererVars
<1>2. CASE Execute
  <2>1. 1 \in 1 .. Len(queue) /\ Head(queue) = queue[1]
    <3>1. Len(queue) \in Nat \ {0}
      BY <1>1, <1>2, ExecuteTyped, Zenon DEF TypeOK
    <3>2. queue \in Seq(Submission)
      BY <1>1, Zenon DEF TypeOK, DeviceTypeOK
    <3>3. QED
      BY <3>1, <3>2
  <2>2. UNCHANGED <<semaphoreVars, engineVars>>
    BY <1>2, <2>1 DEF Execute, RendererInv, ClearInv, Copied, semaphoreVars
  <2>3. /\ \A k \in 1 .. Len(queue) : queue[k].slot \notin Slots
        /\ \A k \in 1 .. Len(queue') : queue'[k].slot \notin Slots
    BY <1>1, CopyApart DEF RendererInv, ClearInv, Copied
  <2>4. QED
    BY <1>1, <2>2, <2>3, ShownKept
<1>3. CASE Display \/ (\E s \in Slots : Release(s))
  <2>1. PresentInv'
    BY <1>1, <1>3, DisplayStep, ReleaseStep DEF ShownInv
  <2>2. QED
    BY <1>1, <1>3, <2>1, ScreenEngine DEF ShownInv
<1>4. QED
  BY <1>2, <1>3 DEF DeviceStep

\* The new swapchain has nothing acquired, presented or shown, and a signal
\* that no present waited for puts its slot out of step.
LEMMA ShownReplaced ==
  ASSUME SharedInv, ShownInv, ReplaceSwapchain
  PROVE  ShownInv'
<1>1. pc = "idle" /\ queue = <<>> /\ Len(queue) = 0
  BY DEF SharedInv, ReplaceSwapchain, OpStep, Idle
<1>2. UNCHANGED <<queue, pc>> /\ held' = {} /\ presents' = <<>> /\ Len(presents') = 0
  BY DEF ReplaceSwapchain, Recreate, fenceVars, adminVars
<1>3. /\ \A k \in 1 .. Len(queue') : FALSE
      /\ \A k \in 1 .. Len(presents') : FALSE
  BY <1>1, <1>2
<1>4. ASSUME NEW s \in Slots \ staleFinished' PROVE ~finished'[s]
  <2>1. finished'[s] => finished[s] /\ s \notin Presenting /\ s \notin staleFinished
    BY DEF ReplaceSwapchain, Recreate
  <2>2. finished[s] /\ s \notin staleFinished => s \in Presenting
    BY <1>1 DEF ShownInv, PresentInv, PresentedInv, Presented, Presenting
  <2>3. QED
    BY <2>1, <2>2
<1>5. PresentInv'
  BY <1>1, <1>2, <1>3, <1>4 DEF PresentInv, HeldInv, SlotsInv, PresentedInv
<1>6. ScreenInv'
  BY <1>1, <1>2, <1>3 DEF ScreenInv, ImageOf, Acquired
<1>7. QED
  BY <1>5, <1>6 DEF ShownInv

\* ShownInv is inductive.
LEMMA ShownStep ==
  ASSUME ~Headless, NumImages <= FrameDepth, RendererInv, RendererInv', ShownInv, [RendererNext]_allVars
  PROVE  ShownInv'
<1>1. TypeOK /\ SemaphoreInv
  BY DEF RendererInv, SharedInv
<1>2. ASSUME Next, IndInv PROVE ShownInv'
  BY <1>1, <1>2, PresentInductive, ScreenStep DEF ShownInv
<1>3. CASE EnterFrameAdmin \/ AdminStep \/ Regenerate \/ ((AcquireFails \/ Catch) /\ UNCHANGED rendererVars)
  BY <1>2, <1>3, AdminOnly DEF RendererInv
<1>4. CASE DeviceStep /\ UNCHANGED <<adminVars, rendererVars>>
  <2>1. CASE op \in CopyWaits
    BY <1>4, <2>1, ShownCopying DEF RendererInv
  <2>2. CASE op \notin CopyWaits
    BY <1>2, <1>4, <2>2 DEF RendererInv, SharedInv, Next
  <2>3. QED
    BY <2>1, <2>2
<1>5. ASSUME UNCHANGED vars PROVE ShownInv'
  BY <1>5, ShownKept DEF vars, deviceVars, semaphoreVars, engineVars, adminVars
<1>6. CASE StaticDraws \/ DynamicDraws
  <2>1. queue = <<>>
    BY <1>6, Zenon DEF RendererInv, ClearInv, StaticDraws, DynamicDraws
  <2>2. ASSUME Submit(Scratch, CopyFence, FALSE, FALSE), UNCHANGED <<semaphoreVars, engineVars, adminVars>>
        PROVE  ShownInv'
    <3>1. Len(queue) = 0
      BY <2>1
    <3>2. Len(queue') = 1 /\ queue'[1].slot \notin Slots
      BY <1>1, <2>2, <3>1, CopyApart, CopyAlone DEF Copied
    <3>3. /\ \A k \in 1 .. Len(queue) : queue[k].slot \notin Slots
          /\ \A k \in 1 .. Len(queue') : queue'[k].slot \notin Slots
      BY <3>1, <3>2
    <3>4. QED
      BY <2>2, <3>3, ShownKept
  <2>3. QED
    BY <1>5, <1>6, <2>2, Zenon DEF StaticDraws, DynamicDraws
<1>7. CASE StaticWait \/ DynamicWait
  BY <1>5, <1>7 DEF StaticWait, DynamicWait
<1>8. CASE StillStep
  BY <1>5, <1>8, StillSteps
<1>9. CASE ReplaceSwapchain
  BY <1>9, ShownReplaced DEF RendererInv
<1>10. QED
  BY <1>3, <1>4, <1>6, <1>7, <1>8, <1>9 DEF RendererNext, RendererStep, StillStep

LEMMA ShownInvariance ==
  ASSUME ~Headless, NumImages <= FrameDepth
  PROVE  RendererSpec => [](RendererInv /\ ShownInv)
<1>1. RendererInit => ShownInv
  <2> SUFFICES ASSUME RendererInit PROVE ShownInv
    OBVIOUS
  <2>1. /\ pc = "idle" /\ Len(queue) = 0 /\ Len(presents) = 0
        /\ \A s \in Slots : ~finished[s]
    BY DEF RendererInit, Init, DeviceInit
  <2>2. /\ \A k \in 1 .. Len(queue) : FALSE
        /\ \A k \in 1 .. Len(presents) : FALSE
    BY <2>1
  <2>3. QED
    BY <2>1, <2>2 DEF ShownInv, PresentInv, HeldInv, SlotsInv, PresentedInv, ScreenInv, ImageOf, Acquired
<1>2. RendererInv /\ RendererInv' /\ ShownInv /\ [RendererNext]_allVars => ShownInv'
  BY ShownStep
<1>3. QED
  BY <1>1, <1>2, RendererInvariance, PTL DEF RendererSpec

\* The oldest submission, when it is a copy.
LEMMA OldestCopied ==
  ASSUME RendererInv, op \in CopyWaits, queue # <<>>
  PROVE  Copied(Head(queue))
<1>1. 1 \in 1 .. Len(queue) /\ Head(queue) = queue[1]
  BY EmptySeq DEF RendererInv, SharedInv, TypeOK, DeviceTypeOK
<1>2. QED
  BY <1>1 DEF RendererInv, ClearInv

\* No submission of a renderer, frame or copy, signals a render_finish that a
\* present has still to wait for, across resizes and recordings, but in a slot
\* whose present went with its swapchain before it had waited.
THEOREM RendererFinishSafe ==
  ASSUME ~Headless, NumImages <= FrameDepth
  PROVE  RendererSpec => []FinishSemaphoreFree
<1>1. ASSUME RendererInv, ShownInv PROVE FinishSemaphoreFree
  <2>1. CASE op \in CopyWaits
    BY <1>1, <2>1, OldestCopied DEF FinishSemaphoreFree, Ready, Copied
  <2>2. CASE op \notin CopyWaits
    BY <1>1, <2>2, FinishPoint DEF RendererInv, SharedInv, ShownInv
  <2>3. QED
    BY <2>1, <2>2
<1>2. QED
  BY <1>1, ShownInvariance, PTL

\* The device never draws into the image on the screen with a frame whose slot
\* has its semaphores in step, whatever a renderer is called with, whatever an
\* acquire answers and whenever the swapchain is replaced.
THEOREM RendererScreenSafe ==
  ASSUME ~Headless, NumImages <= FrameDepth
  PROVE  RendererSpec => []NeverDrawsOnScreen
<1>1. ASSUME RendererInv, ShownInv PROVE NeverDrawsOnScreen
  <2>1. CASE op \in CopyWaits
    <3>1. shown \in Images \cup {None}
      BY <1>1 DEF RendererInv, SharedInv, TypeOK, DeviceTypeOK
    <3>2. Scratch # shown
      BY <3>1, NumImagesAssumption DEF Scratch, Images, None
    <3>3. QED
      BY <1>1, <2>1, <3>2, OldestCopied DEF NeverDrawsOnScreen, Ready, Copied
  <2>2. CASE op \notin CopyWaits
    BY <1>1, <2>2, ScreenPoint DEF RendererInv, SharedInv, ShownInv
  <2>3. QED
    BY <2>1, <2>2
<1>2. QED
  BY <1>1, ShownInvariance, PTL


=============================================================================
