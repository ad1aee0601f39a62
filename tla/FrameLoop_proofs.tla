--------------------------- MODULE FrameLoop_proofs ---------------------------
(***************************************************************************)
(* What FrameLoop guarantees for every number of slots, every swapchain    *)
(* and both orders of presentation: first by one inductive invariant of    *)
(* the slots and their fences, then by a second, above it, of the images.  *)
(***************************************************************************)
EXTENDS FrameLoop, QueueLemmas, FiniteSetTheorems

(* No submitter has two batches in the queue.                              *)
OneBatchEach ==
  \A i, j \in DOMAIN graphicsQueue_ :
    graphicsQueue_[i].by = graphicsQueue_[j].by => i = j

(* A queued batch has yet to signal its fence.                             *)
QueuedUnsignalled ==
  \A i \in DOMAIN graphicsQueue_ : ~fence[graphicsQueue_[i].by]

(* Between its reset and its submit, a fence is not signalled.             *)
FenceReset ==
  /\ pc \in {"acquire", "record", "submit"} => ~fence[get_current_frame]
  /\ pc = "immSubmit" => ~fence[Imm]

(* From the fence wait to the submit, the slot in use is not queued.       *)
SlotIdle ==
  pc \in {"reset", "acquire", "record", "submit"} =>
    \A i \in DOMAIN graphicsQueue_ : graphicsQueue_[i].by # get_current_frame

(* The immediate batch is queued only while immediateSubmit() waits.       *)
ImmediateIdle ==
  pc # "immWait" => \A i \in DOMAIN graphicsQueue_ : graphicsQueue_[i].by # Imm

(* The image index is an image from the acquire to the present, and it is  *)
(* what the command buffer was recorded for.                               *)
IndexAcquired ==
  /\ pc \in {"record", "submit", "present"} => swapchainImageIndex \in Images
  /\ pc = "submit" => mainCommandBuffer_[get_current_frame] = swapchainImageIndex

(* A queued frame is for an image of the swapchain.                        *)
QueuedFrameHasImage ==
  \A i \in DOMAIN graphicsQueue_ :
    graphicsQueue_[i].by \in Slots => graphicsQueue_[i].image \in Images

(* A swapchainSemaphore_ is signalled, or owed a signal, only between the  *)
(* acquire and the start of the batch that takes it, and never both.       *)
AcquireOwed(s) == swapchainSemaphore_[s] \/ acquireSignal[s] # NoImage

SemaphoreHasTaker ==
  \A s \in Slots :
    /\ AcquireOwed(s) =>
         \/ \E i \in DOMAIN graphicsQueue_ : i > begun /\ graphicsQueue_[i].by = s
         \/ s = get_current_frame /\ pc \in {"record", "submit"}
    /\ swapchainSemaphore_[s] => acquireSignal[s] = NoImage

(* The inductive invariant.                                                *)
IInv ==
  /\ TypeOK
  /\ OneBatchEach
  /\ QueuedUnsignalled
  /\ FenceReset
  /\ FenceNeverLost
  /\ SlotIdle
  /\ ImmediateIdle
  /\ IndexAcquired
  /\ QueuedFrameHasImage
  /\ CommandBufferIntact
  /\ SemaphoreHasTaker
-------------------------------------------------------------------------------
(* Lemmas about the ring and about the queue.                              *)

(* The slot in use is one of the slots.                                    *)
LEMMA CurrentSlot ==
  ASSUME TypeOK
  PROVE  get_current_frame \in Slots
  BY FrameOverlapAssumption, FrameWrapAssumption
  DEF TypeOK, get_current_frame, Slots

(* Whoever is queued is a slot or the immediate submit.                    *)
LEMMA QueuedBatch ==
  ASSUME TypeOK
  PROVE  \A i \in DOMAIN graphicsQueue_ : graphicsQueue_[i].by \in Submitters
<1>1. \A i \in DOMAIN graphicsQueue_ : graphicsQueue_[i] \in Batch
  BY DEF TypeOK
<1> QED
  BY <1>1 DEF Batch

(* Submitting a batch leaves the others in place and puts it last.         *)
LEMMA SubmittedLast ==
  ASSUME NEW b \in Batch, graphicsQueue_ \in Seq(Batch),
         graphicsQueue_' = Append(graphicsQueue_, b)
  PROVE  /\ graphicsQueue_' \in Seq(Batch)
         /\ Len(graphicsQueue_') = Len(graphicsQueue_) + 1
         /\ DOMAIN graphicsQueue_' = DOMAIN graphicsQueue_ \cup {Len(graphicsQueue_) + 1}
         /\ \A i \in DOMAIN graphicsQueue_ : graphicsQueue_'[i] = graphicsQueue_[i]
         /\ graphicsQueue_'[Len(graphicsQueue_) + 1] = b
  OBVIOUS

(* Completing the oldest batch moves every other one place forward.        *)
LEMMA CompletedFirst ==
  ASSUME graphicsQueue_ \in Seq(Batch), graphicsQueue_ # <<>>,
         graphicsQueue_' = Tail(graphicsQueue_)
  PROVE  /\ graphicsQueue_' \in Seq(Batch)
         /\ Len(graphicsQueue_') = Len(graphicsQueue_) - 1
         /\ DOMAIN graphicsQueue_' = 1 .. Len(graphicsQueue_) - 1
         /\ DOMAIN graphicsQueue_ = 1 .. Len(graphicsQueue_)
         /\ \A i \in DOMAIN graphicsQueue_' : graphicsQueue_'[i] = graphicsQueue_[i + 1]
  OBVIOUS

-------------------------------------------------------------------------------
(* After init() nothing is queued, recorded or owed, and every fence is    *)
(* signalled.                                                              *)
LEMMA InitInv == Init => IInv
<1> SUFFICES ASSUME Init PROVE IInv
  OBVIOUS
<1>1. TypeOK
  <2>1. /\ frameNumber_ \in 0 .. FrameWrap - 1
        /\ begun \in 0 .. Len(graphicsQueue_)
        /\ graphicsQueue_ \in Seq(Batch) /\ presentQueue \in Seq(Frame)
        /\ flipQueue \in Seq(Images)
    BY FrameWrapAssumption DEF Init
  <2>2. /\ fence \in [Submitters -> BOOLEAN]
        /\ swapchainSemaphore_ \in [Slots -> BOOLEAN]
        /\ renderSemaphore_ \in [Slots -> BOOLEAN]
    BY DEF Init, CreatedFences
  <2>3. /\ mainCommandBuffer_ \in [Slots -> Images \cup {NoImage}]
        /\ acquireSignal \in [Slots -> Images \cup {NoImage}]
    BY DEF Init
  <2> QED
    BY <2>1, <2>2, <2>3 DEF Init, TypeOK
<1>2. OneBatchEach /\ QueuedUnsignalled /\ SlotIdle /\ ImmediateIdle /\ QueuedFrameHasImage
  BY DEF Init, OneBatchEach, QueuedUnsignalled, SlotIdle, ImmediateIdle, QueuedFrameHasImage
<1>3. FenceReset /\ FenceNeverLost /\ IndexAcquired /\ CommandBufferIntact /\ SemaphoreHasTaker
  BY DEF Init, CreatedFences, FenceReset, FenceNeverLost, IndexAcquired,
         CommandBufferIntact, SemaphoreHasTaker, AcquireOwed
<1> QED
  BY <1>1, <1>2, <1>3 DEF IInv

(* Steps of the engine's thread that touch neither the queue nor anything  *)
(* shared with it, nor the frame number.                                   *)
Control ==
  Draw \/ WaitForFences \/ ImmediateWait \/ DeviceWaitIdle \/ Destroy
    \/ VkCheckFails \/ UNCHANGED vars

(* The steps that only move the engine's thread: what they wait for (the   *)
(* slot's fence, immFence_, an idle queue) is what the next steps rely on. *)
LEMMA ControlKeepsInv == IInv /\ Control => IInv'
<1> SUFFICES ASSUME IInv, Control PROVE IInv'
  OBVIOUS
<1> USE DEF IInv, Control, Draw, WaitForFences, ImmediateWait, DeviceWaitIdle,
            Destroy, VkCheckFails, At, Alive, vars, engineVars, syncVars,
            queueVars, flipVars, presentVars
<1>1. /\ get_current_frame' = get_current_frame
      /\ UNCHANGED <<fence, graphicsQueue_, mainCommandBuffer_, swapchainImageIndex>>
  BY DEF get_current_frame
<1>2. get_current_frame \in Slots
  BY CurrentSlot
<1>3. TypeOK'
  BY DEF TypeOK
<1>4. OneBatchEach' /\ QueuedUnsignalled' /\ QueuedFrameHasImage' /\ CommandBufferIntact'
  BY <1>1 DEF OneBatchEach, QueuedUnsignalled, QueuedFrameHasImage, CommandBufferIntact
<1>5. FenceReset' /\ FenceNeverLost'
  BY <1>1 DEF FenceReset, FenceNeverLost, Pending
<1>6. SlotIdle'
  BY <1>1 DEF SlotIdle, QueuedUnsignalled, SlotFree
<1>7. ImmediateIdle'
  BY <1>1 DEF ImmediateIdle, QueuedUnsignalled, ImmediateDone
<1>8. IndexAcquired'
  BY <1>1 DEF IndexAcquired
<1>9. SemaphoreHasTaker'
  BY <1>1 DEF SemaphoreHasTaker, AcquireOwed
<1> QED
  BY <1>3, <1>4, <1>5, <1>6, <1>7, <1>8, <1>9

(* A fence is reset when its slot is not queued, and draw() submits the batch*)
(* that will signal it.                                                    *)
LEMMA ResetFencesKeepsInv == IInv /\ ResetFences => IInv'
<1> SUFFICES ASSUME IInv, ResetFences PROVE IInv'
  OBVIOUS
<1> USE DEF IInv, ResetFences, At, queueVars, presentVars, flipVars
<1>1. /\ get_current_frame' = get_current_frame
      /\ get_current_frame \in Slots
  BY CurrentSlot DEF get_current_frame
<1>2. /\ \A s \in Submitters : s # get_current_frame => fence'[s] = fence[s]
      /\ \A s \in Submitters : fence'[s] => fence[s]
  BY DEF FencesToReset, TypeOK
<1>3. TypeOK'
  BY DEF TypeOK
<1>4. OneBatchEach' /\ QueuedFrameHasImage' /\ CommandBufferIntact'
  BY DEF OneBatchEach, QueuedFrameHasImage, CommandBufferIntact
<1>5. QueuedUnsignalled'
  BY <1>2, QueuedBatch DEF QueuedUnsignalled
<1>6. FenceReset' /\ FenceNeverLost'
  BY <1>1, <1>2 DEF FenceReset, FenceNeverLost, Pending, FencesToReset, TypeOK, Submitters
<1>7. SlotIdle' /\ ImmediateIdle' /\ IndexAcquired'
  BY <1>1 DEF SlotIdle, ImmediateIdle, IndexAcquired
<1>8. SemaphoreHasTaker'
  BY <1>1 DEF SemaphoreHasTaker, AcquireOwed
<1> QED
  BY <1>3, <1>4, <1>5, <1>6, <1>7, <1>8

(* The slot is not queued, so its semaphore is free (SemaphoreHasTaker):   *)
(* the acquire owes it one signal.                                         *)
LEMMA AcquireKeepsInv == IInv /\ AcquireNextImage => IInv'
<1> SUFFICES ASSUME IInv, AcquireNextImage PROVE IInv'
  OBVIOUS
<1> USE DEF IInv, AcquireNextImage, At, syncVars, queueVars, flipVars
<1>1. /\ get_current_frame' = get_current_frame
      /\ get_current_frame \in Slots
  BY CurrentSlot DEF get_current_frame
<1>2. TypeOK'
  BY <1>1 DEF TypeOK
<1>3. OneBatchEach' /\ QueuedUnsignalled' /\ QueuedFrameHasImage' /\ CommandBufferIntact'
  BY DEF OneBatchEach, QueuedUnsignalled, QueuedFrameHasImage, CommandBufferIntact
<1>4. FenceReset' /\ FenceNeverLost'
  BY <1>1 DEF FenceReset, FenceNeverLost, Pending
<1>5. SlotIdle' /\ ImmediateIdle' /\ IndexAcquired'
  BY <1>1 DEF SlotIdle, ImmediateIdle, IndexAcquired, TypeOK
<1>6. SemaphoreHasTaker'
  BY <1>1 DEF SemaphoreHasTaker, AcquireOwed, SlotIdle, TypeOK
<1> QED
  BY <1>2, <1>3, <1>4, <1>5, <1>6

(* Recording over the slot's command buffer is safe: it is not queued.     *)
LEMMA RecordKeepsInv == IInv /\ Record => IInv'
<1> SUFFICES ASSUME IInv, Record PROVE IInv'
  OBVIOUS
<1> USE DEF IInv, Record, Recording, At, syncVars, queueVars, presentVars, flipVars
<1>1. /\ get_current_frame' = get_current_frame
      /\ get_current_frame \in Slots
  BY CurrentSlot DEF get_current_frame
<1>2. TypeOK'
  BY DEF TypeOK
<1>3. OneBatchEach' /\ QueuedUnsignalled' /\ QueuedFrameHasImage'
  BY DEF OneBatchEach, QueuedUnsignalled, QueuedFrameHasImage
<1>4. FenceReset' /\ FenceNeverLost'
  BY <1>1 DEF FenceReset, FenceNeverLost, Pending
<1>5. SlotIdle' /\ ImmediateIdle' /\ IndexAcquired'
  BY <1>1 DEF SlotIdle, ImmediateIdle, IndexAcquired, TypeOK
<1>6. CommandBufferIntact'
  BY <1>1 DEF CommandBufferIntact, SlotIdle, TypeOK
<1>7. SemaphoreHasTaker'
  BY <1>1 DEF SemaphoreHasTaker, AcquireOwed
<1> QED
  BY <1>2, <1>3, <1>4, <1>5, <1>6, <1>7

(* The batch is the slot's only one (SlotIdle), its fence is reset, and it *)
(* becomes the one that will take the slot's swapchainSemaphore_.          *)
LEMMA SubmitKeepsInv == IInv /\ Submit => IInv'
<1> SUFFICES ASSUME IInv, Submit PROVE IInv'
  OBVIOUS
<1> USE DEF IInv, Submit, At, syncVars, presentVars, flipVars
<1>1. /\ get_current_frame' = get_current_frame
      /\ get_current_frame \in Slots
      /\ get_current_frame # Imm
  BY CurrentSlot, ImmAssumption DEF get_current_frame, Slots
<1>2. ThisFrame \in Batch /\ ThisFrame.by = get_current_frame
                          /\ ThisFrame.image = swapchainImageIndex
  BY <1>1 DEF ThisFrame, Batch, Submitters, TypeOK
<1>3. /\ graphicsQueue_' \in Seq(Batch)
      /\ Len(graphicsQueue_') = Len(graphicsQueue_) + 1
      /\ DOMAIN graphicsQueue_' = DOMAIN graphicsQueue_ \cup {Len(graphicsQueue_) + 1}
      /\ \A i \in DOMAIN graphicsQueue_ : graphicsQueue_'[i] = graphicsQueue_[i]
      /\ graphicsQueue_'[Len(graphicsQueue_) + 1] = ThisFrame
  BY <1>2, SubmittedLast DEF TypeOK
<1>4. TypeOK'
  BY <1>3 DEF TypeOK
<1>5. ~fence[get_current_frame]
  BY DEF FenceReset
<1>6. OneBatchEach'
  BY <1>2, <1>3 DEF OneBatchEach, SlotIdle
<1>7. QueuedUnsignalled'
  BY <1>2, <1>3, <1>5 DEF QueuedUnsignalled
<1>8. FenceNeverLost'
  <2> SUFFICES ASSUME NEW s \in Submitters, ~fence[s] PROVE s \in Pending' \/ (s = Imm /\ pc' = "immSubmit")
    BY DEF FenceNeverLost
  <2>1. Pending' = Pending \cup {get_current_frame}
    BY <1>2, <1>3 DEF Pending
  <2> QED
    BY <2>1 DEF FenceNeverLost
<1>9. FenceReset' /\ SlotIdle' /\ ImmediateIdle' /\ IndexAcquired'
  BY <1>1, <1>2, <1>3 DEF FenceReset, SlotIdle, ImmediateIdle, IndexAcquired
<1>10. QueuedFrameHasImage' /\ CommandBufferIntact'
  BY <1>1, <1>2, <1>3 DEF QueuedFrameHasImage, CommandBufferIntact, IndexAcquired
<1>11. SemaphoreHasTaker'
  BY <1>1, <1>2, <1>3 DEF SemaphoreHasTaker, AcquireOwed, TypeOK
<1> QED
  BY <1>4, <1>6, <1>7, <1>8, <1>9, <1>10, <1>11

(* Moving on to the next slot leaves the one just submitted to the queue.  *)
LEMMA PresentKeepsInv == IInv /\ Present => IInv'
<1> SUFFICES ASSUME IInv, Present PROVE IInv'
  OBVIOUS
<1> USE DEF IInv, Present, At, syncVars, queueVars, flipVars
<1>1. NextFrameNumber \in 0 .. FrameWrap - 1
  BY FrameWrapAssumption DEF NextFrameNumber, TypeOK
<1>2. ThisFrame \in Frame
  BY CurrentSlot DEF ThisFrame, Frame, IndexAcquired
<1>3. TypeOK'
  BY <1>1, <1>2 DEF TypeOK
<1>4. OneBatchEach' /\ QueuedUnsignalled' /\ QueuedFrameHasImage' /\ CommandBufferIntact'
  BY DEF OneBatchEach, QueuedUnsignalled, QueuedFrameHasImage, CommandBufferIntact
<1>5. FenceReset' /\ FenceNeverLost'
  BY DEF FenceReset, FenceNeverLost, Pending
<1>6. SlotIdle' /\ ImmediateIdle' /\ IndexAcquired'
  BY DEF SlotIdle, ImmediateIdle, IndexAcquired
<1>7. SemaphoreHasTaker'
  BY DEF SemaphoreHasTaker, AcquireOwed
<1> QED
  BY <1>3, <1>4, <1>5, <1>6, <1>7

(* immFence_ is reset when no immediate batch is queued.                   *)
LEMMA ImmediateResetKeepsInv == IInv /\ ImmediateReset => IInv'
<1> SUFFICES ASSUME IInv, ImmediateReset PROVE IInv'
  OBVIOUS
<1> USE DEF IInv, ImmediateReset, At, queueVars, presentVars, flipVars
<1>1. /\ get_current_frame' = get_current_frame
      /\ get_current_frame \in Slots
  BY CurrentSlot DEF get_current_frame
<1>2. /\ \A s \in Submitters : s # Imm => fence'[s] = fence[s]
      /\ \A s \in Submitters : fence'[s] => fence[s]
  BY DEF TypeOK
<1>3. TypeOK'
  BY DEF TypeOK
<1>4. OneBatchEach' /\ QueuedFrameHasImage' /\ CommandBufferIntact'
  BY DEF OneBatchEach, QueuedFrameHasImage, CommandBufferIntact
<1>5. QueuedUnsignalled'
  BY <1>2, QueuedBatch DEF QueuedUnsignalled
<1>6. FenceReset' /\ FenceNeverLost'
  BY <1>1, <1>2 DEF FenceReset, FenceNeverLost, Pending, TypeOK, Submitters
<1>7. SlotIdle' /\ ImmediateIdle' /\ IndexAcquired'
  BY <1>1 DEF SlotIdle, ImmediateIdle, IndexAcquired
<1>8. SemaphoreHasTaker'
  BY <1>1 DEF SemaphoreHasTaker, AcquireOwed
<1> QED
  BY <1>3, <1>4, <1>5, <1>6, <1>7, <1>8

(* The immediate batch is the only one of its kind, its fence reset.       *)
LEMMA ImmediateSubmitKeepsInv == IInv /\ ImmediateSubmit => IInv'
<1> SUFFICES ASSUME IInv, ImmediateSubmit PROVE IInv'
  OBVIOUS
<1> USE DEF IInv, ImmediateSubmit, At, syncVars, presentVars, flipVars
<1> DEFINE b == [by |-> Imm, image |-> NoImage]
<1>1. /\ get_current_frame' = get_current_frame
      /\ get_current_frame \in Slots
      /\ Imm \notin Slots
  BY CurrentSlot, ImmAssumption DEF get_current_frame, Slots
<1>2. b \in Batch /\ b.by = Imm
  BY DEF Batch, Submitters
<1>3. /\ graphicsQueue_' \in Seq(Batch)
      /\ Len(graphicsQueue_') = Len(graphicsQueue_) + 1
      /\ DOMAIN graphicsQueue_' = DOMAIN graphicsQueue_ \cup {Len(graphicsQueue_) + 1}
      /\ \A i \in DOMAIN graphicsQueue_ : graphicsQueue_'[i] = graphicsQueue_[i]
      /\ graphicsQueue_'[Len(graphicsQueue_) + 1] = b
  BY <1>2, SubmittedLast DEF TypeOK
<1> HIDE DEF b
<1>4. TypeOK'
  BY <1>3 DEF TypeOK
<1>5. ~fence[Imm]
  BY DEF FenceReset
<1>6. OneBatchEach'
  BY <1>2, <1>3 DEF OneBatchEach, ImmediateIdle
<1>7. QueuedUnsignalled'
  BY <1>2, <1>3, <1>5 DEF QueuedUnsignalled
<1>8. FenceNeverLost'
  <2>1. Pending' = Pending \cup {Imm}
    BY <1>2, <1>3 DEF Pending
  <2> QED
    BY <2>1, <1>1 DEF FenceNeverLost
<1>9. FenceReset' /\ SlotIdle' /\ ImmediateIdle' /\ IndexAcquired'
  BY <1>1 DEF FenceReset, SlotIdle, ImmediateIdle, IndexAcquired
<1>10. QueuedFrameHasImage' /\ CommandBufferIntact'
  BY <1>1, <1>2, <1>3 DEF QueuedFrameHasImage, CommandBufferIntact
<1>11. SemaphoreHasTaker'
  BY <1>1, <1>3 DEF SemaphoreHasTaker, AcquireOwed, TypeOK
<1> QED
  BY <1>4, <1>6, <1>7, <1>8, <1>9, <1>10, <1>11

-------------------------------------------------------------------------------
(* A batch that starts takes its slot's semaphore, and it is the last to   *)
(* want it.                                                                *)
LEMMA GpuBeginKeepsInv == IInv /\ GpuBegin => IInv'
<1> SUFFICES ASSUME IInv, GpuBegin PROVE IInv'
  OBVIOUS
<1> USE DEF IInv, GpuBegin, engineVars, presentVars, flipVars
<1>1. get_current_frame' = get_current_frame
  BY DEF get_current_frame
<1>2. begun + 1 \in DOMAIN graphicsQueue_
  BY DEF TypeOK
<1>3. TypeOK'
  BY <1>2 DEF TypeOK
<1>4. OneBatchEach' /\ QueuedUnsignalled' /\ QueuedFrameHasImage' /\ CommandBufferIntact'
  BY DEF OneBatchEach, QueuedUnsignalled, QueuedFrameHasImage, CommandBufferIntact
<1>5. FenceReset' /\ FenceNeverLost'
  BY <1>1 DEF FenceReset, FenceNeverLost, Pending
<1>6. SlotIdle' /\ ImmediateIdle' /\ IndexAcquired'
  BY <1>1 DEF SlotIdle, ImmediateIdle, IndexAcquired
<1>7. SemaphoreHasTaker'
  <2> SUFFICES ASSUME NEW t \in Slots
               PROVE  /\ AcquireOwed(t)' =>
                           \/ \E i \in DOMAIN graphicsQueue_ : i > begun' /\ graphicsQueue_[i].by = t
                           \/ t = get_current_frame /\ pc \in {"record", "submit"}
                      /\ swapchainSemaphore_'[t] => acquireSignal[t] = NoImage
    BY <1>1 DEF SemaphoreHasTaker, AcquireOwed
  <2>1. swapchainSemaphore_'[t] <=> swapchainSemaphore_[t] /\ t # graphicsQueue_[begun + 1].by
    OBVIOUS
  <2>2. CASE t = graphicsQueue_[begun + 1].by
    <3>1. swapchainSemaphore_[t]
      BY <2>2
    <3> QED
      BY <2>1, <2>2, <3>1 DEF SemaphoreHasTaker, AcquireOwed
  <2>3. CASE t # graphicsQueue_[begun + 1].by
    <3>1. \A i \in DOMAIN graphicsQueue_ :
            i > begun /\ graphicsQueue_[i].by = t => i > begun + 1
      BY <1>2, <2>3 DEF TypeOK
    <3> QED
      BY <2>1, <3>1 DEF SemaphoreHasTaker, AcquireOwed
  <2> QED
    BY <2>2, <2>3
<1> QED
  BY <1>3, <1>4, <1>5, <1>6, <1>7

(* The completed batch was its submitter's only one, so its fence is the   *)
(* only one that changes and nobody else in the queue waits for it.        *)
LEMMA GpuCompleteKeepsInv == IInv /\ GpuComplete => IInv'
<1> SUFFICES ASSUME IInv, GpuComplete PROVE IInv'
  OBVIOUS
<1> USE DEF IInv, GpuComplete, engineVars, flipVars
<1> DEFINE s == graphicsQueue_[1].by
<1>1. get_current_frame' = get_current_frame
  BY DEF get_current_frame
<1>2. /\ graphicsQueue_' \in Seq(Batch)
      /\ Len(graphicsQueue_') = Len(graphicsQueue_) - 1
      /\ DOMAIN graphicsQueue_' = 1 .. Len(graphicsQueue_) - 1
      /\ DOMAIN graphicsQueue_ = 1 .. Len(graphicsQueue_)
      /\ \A i \in DOMAIN graphicsQueue_' : graphicsQueue_'[i] = graphicsQueue_[i + 1]
      /\ Len(graphicsQueue_) \in Nat /\ Len(graphicsQueue_) > 0 /\ begun \in 1 .. Len(graphicsQueue_)
  BY CompletedFirst DEF TypeOK
<1>3. s \in Submitters /\ 1 \in DOMAIN graphicsQueue_
  BY <1>2, QueuedBatch
<1>4. \A i \in DOMAIN graphicsQueue_' :
        i + 1 \in DOMAIN graphicsQueue_ /\ graphicsQueue_'[i].by # s
  BY <1>2, <1>3 DEF OneBatchEach
<1>5. fence' = [fence EXCEPT ![s] = TRUE] /\ fence \in [Submitters -> BOOLEAN]
  BY DEF TypeOK
<1>6. s \in Slots => mainCommandBuffer_[s] \in Images
  BY <1>3 DEF QueuedFrameHasImage, CommandBufferIntact
<1>7. TypeOK'
  BY <1>2, <1>3, <1>6 DEF TypeOK
<1> HIDE DEF s
<1>8. OneBatchEach'
  BY <1>2, <1>4 DEF OneBatchEach
<1>9. QueuedUnsignalled'
  BY <1>2, <1>4, <1>5, QueuedBatch DEF QueuedUnsignalled
<1>10. FenceNeverLost'
  <2> SUFFICES ASSUME NEW t \in Submitters, ~fence'[t]
               PROVE  \/ t \in Pending'
                      \/ t = get_current_frame /\ pc \in {"acquire", "record", "submit"}
                      \/ t = Imm /\ pc = "immSubmit"
    BY <1>1 DEF FenceNeverLost
  <2>1. t # s /\ ~fence[t]
    BY <1>3, <1>5
  <2>2. t \in Pending => t \in Pending'
    <3> SUFFICES ASSUME NEW i \in DOMAIN graphicsQueue_, graphicsQueue_[i].by = t
                 PROVE  \E j \in DOMAIN graphicsQueue_' : graphicsQueue_'[j].by = t
      BY DEF Pending
    <3>1. i # 1 /\ i \in 1 .. Len(graphicsQueue_)
      BY <1>2, <2>1 DEF s
    <3>2. i - 1 \in DOMAIN graphicsQueue_' /\ graphicsQueue_'[i - 1] = graphicsQueue_[i]
      BY <1>2, <3>1
    <3> QED
      BY <3>2
  <2> QED
    BY <2>1, <2>2 DEF FenceNeverLost
<1>11. SlotIdle' /\ ImmediateIdle' /\ IndexAcquired'
  BY <1>1, <1>2, <1>4 DEF SlotIdle, ImmediateIdle, IndexAcquired
<1>14. FenceReset'
  BY <1>1, <1>3, <1>5 DEF FenceReset, SlotIdle, ImmediateIdle, s
<1>12. QueuedFrameHasImage' /\ CommandBufferIntact'
  BY <1>2, <1>4 DEF QueuedFrameHasImage, CommandBufferIntact
<1>13. SemaphoreHasTaker'
  <2> SUFFICES ASSUME NEW t \in Slots, AcquireOwed(t)
               PROVE  \/ \E i \in DOMAIN graphicsQueue_' : i > begun' /\ graphicsQueue_'[i].by = t
                      \/ t = get_current_frame /\ pc \in {"record", "submit"}
    BY <1>1 DEF SemaphoreHasTaker, AcquireOwed
  <2>1. CASE t = get_current_frame /\ pc \in {"record", "submit"}
    BY <2>1
  <2>2. CASE \E i \in DOMAIN graphicsQueue_ : i > begun /\ graphicsQueue_[i].by = t
    <3>1. PICK i \in DOMAIN graphicsQueue_ : i > begun /\ graphicsQueue_[i].by = t
      BY <2>2
    <3>2. /\ i - 1 \in DOMAIN graphicsQueue_' /\ i - 1 > begun'
          /\ graphicsQueue_'[i - 1] = graphicsQueue_[i]
      BY <1>2, <3>1
    <3> QED
      BY <3>1, <3>2
  <2> QED
    BY <2>1, <2>2 DEF SemaphoreHasTaker
<1> QED
  BY <1>7, <1>8, <1>9, <1>10, <1>11, <1>12, <1>13, <1>14

(* Steps of the presentation engine: none touches a fence or the queue.    *)
Presentation == (\E s \in Slots : AcquireSignal(s)) \/ Display

(* The presentation engine signals a semaphore once for each acquire, and  *)
(* touches neither a fence nor the queue.                                  *)
LEMMA PresentationKeepsInv == IInv /\ Presentation => IInv'
<1> SUFFICES ASSUME IInv, Presentation PROVE IInv'
  OBVIOUS
<1> USE DEF IInv, Presentation, Display, AcquireSignal, PresentWait, VBlank,
            ScanoutEnds, engineVars, syncVars, queueVars, flipVars
<1>1. /\ get_current_frame' = get_current_frame
      /\ UNCHANGED <<pc, fence, graphicsQueue_, begun, mainCommandBuffer_, swapchainImageIndex>>
  BY DEF get_current_frame
<1>2. TypeOK'
  <2>1. CASE \E s \in Slots : AcquireSignal(s)
    BY <2>1 DEF TypeOK
  <2>2. CASE PresentWait
    <3>1. Head(presentQueue) \in Frame /\ Tail(presentQueue) \in Seq(Frame)
      BY <2>2 DEF TypeOK
    <3>2. Head(presentQueue).by \in Slots /\ Head(presentQueue).image \in Images
      BY <3>1 DEF Frame
    <3> QED
      BY <2>2, <3>1, <3>2 DEF TypeOK
  <2>3. CASE VBlank
    BY <2>3 DEF TypeOK
  <2>4. CASE \E i \in Images : ScanoutEnds(i)
    BY <2>4 DEF TypeOK
  <2> QED
    BY <2>1, <2>2, <2>3, <2>4
<1>3. OneBatchEach' /\ QueuedUnsignalled' /\ QueuedFrameHasImage' /\ CommandBufferIntact'
  BY <1>1 DEF OneBatchEach, QueuedUnsignalled, QueuedFrameHasImage, CommandBufferIntact
<1>4. FenceReset' /\ FenceNeverLost' /\ SlotIdle' /\ ImmediateIdle' /\ IndexAcquired'
  BY <1>1 DEF FenceReset, FenceNeverLost, Pending, SlotIdle, ImmediateIdle, IndexAcquired
<1>5. SemaphoreHasTaker'
  BY <1>1 DEF SemaphoreHasTaker, AcquireOwed, TypeOK
<1> QED
  BY <1>2, <1>3, <1>4, <1>5

-------------------------------------------------------------------------------
(* Every step keeps the invariant: the actions grouped as above.           *)
LEMMA NextKeepsInv == IInv /\ [Next]_vars => IInv'
<1> SUFFICES ASSUME IInv, [Next]_vars PROVE IInv'
  OBVIOUS
<1>1. CASE Control
  BY <1>1, ControlKeepsInv
<1>2. CASE ResetFences \/ AcquireNextImage \/ Record \/ Submit \/ Present
  BY <1>2, ResetFencesKeepsInv, AcquireKeepsInv, RecordKeepsInv,
     SubmitKeepsInv, PresentKeepsInv
<1>3. CASE ImmediateReset \/ ImmediateSubmit
  BY <1>3, ImmediateResetKeepsInv, ImmediateSubmitKeepsInv
<1>4. CASE GpuBegin \/ GpuComplete
  BY <1>4, GpuBeginKeepsInv, GpuCompleteKeepsInv
<1>5. CASE Presentation
  BY <1>5, PresentationKeepsInv
<1> QED
  BY <1>1, <1>2, <1>3, <1>4, <1>5
  DEF Next, DrawStep, ImmediateStep, Control, Presentation, Terminated

(* The inductive invariant holds in every reachable state of the frame ring.*)
THEOREM Invariance == Spec => []IInv
<1>1. Init => IInv
  BY InitInv
<1>2. IInv /\ [Next]_vars => IInv'
  BY NextKeepsInv
<1> QED
  BY <1>1, <1>2, PTL DEF Spec

(* Every variable keeps its type; in particular only acquired images are   *)
(* ever recorded, presented and shown.                                     *)
THEOREM TypeCorrect == Spec => []TypeOK
<1>1. IInv => TypeOK
  BY DEF IInv
<1> QED
  BY <1>1, Invariance, PTL

(* draw() and immediateSubmit() never touch what a queued batch uses.      *)
THEOREM SlotsAreExclusive == Spec => []SlotExclusive
<1>1. IInv => SlotExclusive
  BY DEF IInv, SlotExclusive, OneBatchEach, SlotIdle, ImmediateIdle, Pending
<1> QED
  BY <1>1, Invariance, PTL

(* No wait on a fence is for a signal that nobody will give.               *)
THEOREM FencesAreNeverLost == Spec => []FenceNeverLost
<1>1. IInv => FenceNeverLost
  BY DEF IInv
<1> QED
  BY <1>1, Invariance, PTL

(* The semaphore given to vkAcquireNextImageKHR is always free.            *)
THEOREM AcquireSemaphoresAreFree == Spec => []AcquireSemaphoreFree
<1>1. IInv => AcquireSemaphoreFree
  BY CurrentSlot DEF IInv, AcquireSemaphoreFree, SemaphoreHasTaker, AcquireOwed, SlotIdle
<1> QED
  BY <1>1, Invariance, PTL

(* A command buffer is executed as it was recorded for its batch.          *)
THEOREM CommandBuffersAreIntact == Spec => []CommandBufferIntact
<1>1. IInv => CommandBufferIntact
  BY DEF IInv
<1> QED
  BY <1>1, Invariance, PTL

-------------------------------------------------------------------------------
(* cleanup()'s wait for the device.                                        *)

(* cleanup() destroys when the queue is empty.                             *)
QuietInv == pc \in {"destroy", "stopped"} => graphicsQueue_ = <<>>

(* Nothing submits once cleanup() has waited.                              *)
LEMMA NextKeepsQuiet == IInv /\ QuietInv /\ [Next]_vars => QuietInv'
<1> SUFFICES ASSUME IInv, QuietInv, [Next]_vars PROVE QuietInv'
  OBVIOUS
<1>1. CASE Draw \/ DrawStep \/ ImmediateReset \/ ImmediateStep
  BY <1>1
  DEF QuietInv, Draw, DrawStep, WaitForFences, ResetFences, AcquireNextImage, Record, Submit, Present,
      ImmediateReset, ImmediateStep, ImmediateSubmit, ImmediateWait
<1>2. CASE DeviceWaitIdle
  BY <1>2 DEF QuietInv, DeviceWaitIdle, DeviceIdle, queueVars
<1>3. CASE Destroy \/ VkCheckFails \/ (\E s \in Slots : AcquireSignal(s)) \/ Display
             \/ UNCHANGED vars
  BY <1>3
  DEF QuietInv, Destroy, VkCheckFails, AcquireSignal, Display, PresentWait, VBlank, ScanoutEnds, At,
      vars, engineVars, queueVars
<1>4. CASE GpuBegin \/ GpuComplete
  <2>1. graphicsQueue_ # <<>> /\ UNCHANGED pc
    BY <1>4 DEF GpuBegin, GpuComplete, engineVars, IInv, TypeOK
  <2> QED
    BY <2>1 DEF QuietInv
<1> QED
  BY <1>1, <1>2, <1>3, <1>4 DEF Next, Terminated

-------------------------------------------------------------------------------
(* The ring is a pipeline.                                                 *)

(* The submitters in the queue, as the pipeline sees them.                 *)
By(q) == [i \in DOMAIN q |-> q[i].by]

(* They are a sequence as long as the queue.                               *)
LEMMA SubmittersInQueue ==
  ASSUME NEW q \in Seq(Batch)
  PROVE  By(q) \in Seq(Submitters) /\ Len(By(q)) = Len(q)
<1>1. DOMAIN q = 1 .. Len(q) /\ Len(q) \in Nat
  OBVIOUS
<1>2. \A i \in DOMAIN q : q[i] \in Batch
  OBVIOUS
<1>3. \A i \in DOMAIN q : q[i].by \in Submitters
  BY <1>2 DEF Batch
<1>4. By(q) \in [1 .. Len(q) -> Submitters]
  BY <1>1, <1>3 DEF By
<1>5. By(q) \in Seq(Submitters)
  BY <1>1, <1>4, SeqDef
<1>6. DOMAIN By(q) = 1 .. Len(q) /\ DOMAIN By(q) = 1 .. Len(By(q)) /\ Len(By(q)) \in Nat
  BY <1>1, <1>4, <1>5, LenProperties
<1> QED
  BY <1>1, <1>5, <1>6

(* A batch submitted is one more submitter, at the end.                    *)
LEMMA SubmitterAppended ==
  ASSUME NEW q \in Seq(Batch), NEW b \in Batch
  PROVE  By(Append(q, b)) = Append(By(q), b.by)
<1>1. b.by \in Submitters
  BY DEF Batch
<1>2. /\ By(q) \in Seq(Submitters) /\ Len(By(q)) = Len(q) /\ Len(q) \in Nat
      /\ By(Append(q, b)) \in Seq(Submitters) /\ Len(By(Append(q, b))) = Len(q) + 1
  <2>1. Append(q, b) \in Seq(Batch) /\ Len(Append(q, b)) = Len(q) + 1 /\ Len(q) \in Nat
    OBVIOUS
  <2> QED
    BY <2>1, SubmittersInQueue
<1>3. Append(By(q), b.by) \in Seq(Submitters) /\ Len(Append(By(q), b.by)) = Len(q) + 1
  BY <1>1, <1>2
<1>4. ASSUME NEW i \in 1 .. Len(q) + 1
      PROVE  By(Append(q, b))[i] = Append(By(q), b.by)[i]
  <2>1. i \in DOMAIN Append(q, b) /\ By(Append(q, b))[i] = Append(q, b)[i].by
    BY DEF By
  <2>2. CASE i = Len(q) + 1
    BY <1>1, <1>2, <2>1, <2>2
  <2>3. CASE i \in 1 .. Len(q)
    <3>1. i \in DOMAIN q /\ By(q)[i] = q[i].by
      BY <2>3 DEF By
    <3> QED
      BY <1>1, <1>2, <2>1, <2>3, <3>1
  <2> QED
    BY <1>2, <2>2, <2>3
<1> QED
  BY <1>2, <1>3, <1>4, SeqEqual

(* A batch completed is the first submitter gone.                          *)
LEMMA SubmitterGone ==
  ASSUME NEW q \in Seq(Batch), q # <<>>
  PROVE  By(q) # <<>> /\ By(Tail(q)) = Tail(By(q))
<1>1. Tail(q) \in Seq(Batch) /\ Len(Tail(q)) = Len(q) - 1 /\ Len(q) \in Nat \ {0}
  OBVIOUS
<1>2. /\ By(q) \in Seq(Submitters) /\ Len(By(q)) = Len(q)
      /\ By(Tail(q)) \in Seq(Submitters) /\ Len(By(Tail(q))) = Len(q) - 1
  BY <1>1, SubmittersInQueue
<1>3. By(q) # <<>> /\ Tail(By(q)) \in Seq(Submitters) /\ Len(Tail(By(q))) = Len(q) - 1
  BY <1>1, <1>2
<1>4. ASSUME NEW i \in 1 .. Len(q) - 1
      PROVE  By(Tail(q))[i] = Tail(By(q))[i]
  BY <1>1, <1>2 DEF By
<1> QED
  BY <1>2, <1>3, <1>4, SeqEqual

(* The slot of the frame after this one.                                   *)
LEMMA NextSlot ==
  ASSUME TypeOK, frameNumber_' = NextFrameNumber
  PROVE  get_current_frame' = (get_current_frame + 1) % FRAME_OVERLAP
  BY FrameOverlapAssumption, FrameWrapAssumption, WrapKeepsRemainder
  DEF TypeOK, NextFrameNumber, get_current_frame

(* Every step of the ring is a step of the pipeline, or invisible in it.   *)
LEMMA NextIsPipelined == IInv /\ QuietInv /\ [Next]_vars => [Pipeline!Next]_Pipeline!vars
<1> SUFFICES ASSUME IInv, QuietInv, [Next]_vars PROVE [Pipeline!Next]_Pipeline!vars
  OBVIOUS
<1> DEFINE status == IF aborted THEN "aborted"
                     ELSE IF pc \in {"destroy", "stopped"} THEN "stopped" ELSE "up"
           next == IF pc = "present" THEN (get_current_frame + 1) % FRAME_OVERLAP
                   ELSE get_current_frame
<1>1. graphicsQueue_ \in Seq(Batch)
  BY DEF IInv, TypeOK
<1>2. CASE UNCHANGED <<status, next, graphicsQueue_>>
  BY <1>2 DEF Pipeline!vars
<1>3. CASE Submit
  <2>1. /\ status = "up" /\ status' = "up" /\ next = get_current_frame
        /\ next' = (get_current_frame + 1) % FRAME_OVERLAP
    BY <1>3 DEF Submit, At, get_current_frame
  <2>2. By(graphicsQueue_)' = Append(By(graphicsQueue_), get_current_frame)
    <3>1. ThisFrame \in Batch /\ ThisFrame.by = get_current_frame
      BY CurrentSlot DEF ThisFrame, Batch, Submitters, IInv, TypeOK
    <3> QED
      BY <1>1, <1>3, <3>1, SubmitterAppended DEF Submit, By
  <2>3. get_current_frame \notin { By(graphicsQueue_)[i] : i \in DOMAIN By(graphicsQueue_) }
    BY <1>3 DEF Submit, At, By, IInv, SlotIdle
  <2>4. Pipeline!SubmitFrame
    BY <2>1, <2>2, <2>3 DEF Pipeline!SubmitFrame, Pipeline!Unfinished, By
  <2> QED
    BY <2>4 DEF Pipeline!Next
<1>4. CASE ImmediateSubmit
  <2>1. status = "up" /\ UNCHANGED <<status, next>>
    BY <1>4 DEF ImmediateSubmit, At, get_current_frame
  <2>2. By(graphicsQueue_)' = Append(By(graphicsQueue_), Imm)
    <3>1. PICK b \in Batch : b.by = Imm /\ graphicsQueue_' = Append(graphicsQueue_, b)
      BY <1>4 DEF ImmediateSubmit, Batch, Submitters
    <3> QED
      BY <1>1, <3>1, SubmitterAppended DEF By
  <2>3. Imm \notin { By(graphicsQueue_)[i] : i \in DOMAIN By(graphicsQueue_) }
    BY <1>4 DEF ImmediateSubmit, At, By, IInv, ImmediateIdle
  <2>4. Pipeline!SubmitImmediate
    BY <2>1, <2>2, <2>3 DEF Pipeline!SubmitImmediate, Pipeline!Unfinished, By
  <2> QED
    BY <2>4 DEF Pipeline!Next
<1>5. CASE GpuComplete
  <2>1. graphicsQueue_ # <<>> /\ graphicsQueue_' = Tail(graphicsQueue_)
    BY <1>5 DEF GpuComplete, IInv, TypeOK
  <2>2. status = "up" /\ UNCHANGED <<status, next>>
    BY <1>5, <2>1 DEF GpuComplete, Alive, engineVars, QuietInv, get_current_frame
  <2>3. By(graphicsQueue_) # <<>> /\ By(graphicsQueue_)' = Tail(By(graphicsQueue_))
    BY <1>1, <2>1, SubmitterGone DEF By
  <2>4. Pipeline!Finish
    BY <2>2, <2>3 DEF Pipeline!Finish, By
  <2> QED
    BY <2>4 DEF Pipeline!Next
<1>6. CASE DeviceWaitIdle
  <2>1. /\ status = "up" /\ status' = "stopped" /\ UNCHANGED <<next, graphicsQueue_>>
        /\ graphicsQueue_ = <<>>
    BY <1>6 DEF DeviceWaitIdle, DeviceIdle, At, queueVars, get_current_frame
  <2>2. By(graphicsQueue_) = <<>> /\ UNCHANGED By(graphicsQueue_)
    BY <2>1 DEF By
  <2>3. Pipeline!Stop
    BY <2>1, <2>2 DEF Pipeline!Stop, By
  <2> QED
    BY <2>3 DEF Pipeline!Next
<1>7. CASE VkCheckFails
  <2>1. status = "up" /\ status' = "aborted" /\ UNCHANGED <<next, graphicsQueue_>>
    BY <1>7 DEF VkCheckFails, Alive, queueVars, get_current_frame
  <2>2. Pipeline!Abort
    BY <2>1 DEF Pipeline!Abort
  <2> QED
    BY <2>2 DEF Pipeline!Next
<1>8. CASE Present
  <2>1. UNCHANGED <<status, next>>
    BY <1>8, NextSlot DEF Present, At, IInv
  <2> QED
    BY <1>2, <1>8, <2>1 DEF Present, queueVars
<1>9. CASE Draw \/ WaitForFences \/ ResetFences \/ AcquireNextImage \/ Record \/ ImmediateReset
             \/ ImmediateWait \/ Destroy
  <2>1. UNCHANGED <<status, next, graphicsQueue_>>
    BY <1>9
    DEF Draw, WaitForFences, ResetFences, AcquireNextImage, Record, ImmediateReset, ImmediateWait,
        Destroy, At, queueVars, get_current_frame
  <2> QED
    BY <1>2, <2>1
<1>10. CASE GpuBegin \/ (\E s \in Slots : AcquireSignal(s)) \/ Display \/ UNCHANGED vars
  <2>1. UNCHANGED <<status, next, graphicsQueue_>>
    BY <1>10
    DEF GpuBegin, AcquireSignal, Display, PresentWait, VBlank, ScanoutEnds, vars, engineVars,
        queueVars, get_current_frame
  <2> QED
    BY <1>2, <2>1
<1> QED
  BY <1>3, <1>4, <1>5, <1>6, <1>7, <1>8, <1>9, <1>10 DEF Next, DrawStep, ImmediateStep, Terminated

(* The frame ring is a bounded first-in first-out pipeline: a slot is      *)
(* refilled only when its batch has finished, batches finish in the order  *)
(* of their submission, and an orderly stop leaves none unfinished.        *)
THEOREM RefinesPipeline == Spec => Pipeline!SafeSpec
<1>1. Init => Pipeline!Init
  BY FrameOverlapAssumption DEF Init, Pipeline!Init, get_current_frame
<1>2. Init => QuietInv
  BY DEF Init, QuietInv
<1>3. IInv /\ QuietInv /\ [Next]_vars => QuietInv'
  BY NextKeepsQuiet
<1>4. IInv /\ QuietInv /\ [Next]_vars => [Pipeline!Next]_Pipeline!vars
  BY NextIsPipelined
<1> QED
  BY <1>1, <1>2, <1>3, <1>4, Invariance, PTL DEF Spec, Pipeline!SafeSpec

-------------------------------------------------------------------------------
(***************************************************************************)
(* Where the images of the swapchain are, for every number of slots and    *)
(* images: what reaches the screen is finished, nothing the screen reads   *)
(* is written, and renderSemaphore_ is free when a batch signals it.       *)
(***************************************************************************)

(* An image that waits for its present's semaphore; one on the screen or   *)
(* on its way there.                                                       *)
Presented(i) == \E k \in DOMAIN presentQueue : presentQueue[k].image = i
Shown(i) == displayed = i \/ \E k \in DOMAIN flipQueue : flipQueue[k] = i

(* Every image is in one place, once.                                      *)
PresentsApart ==
  \A k, l \in DOMAIN presentQueue : presentQueue[k].image = presentQueue[l].image => k = l

FlipsApart ==
  /\ \A k, l \in DOMAIN flipQueue : flipQueue[k] = flipQueue[l] => k = l
  /\ \A k \in DOMAIN flipQueue : flipQueue[k] # displayed

PresentedNotShown == \A i \in Images : ~(Presented(i) /\ Shown(i))
AvailableNowhere == \A i \in available : ~Presented(i) /\ ~Shown(i)

AcquiredNowhere ==
  pc \in {"record", "submit", "present"} =>
    /\ swapchainImageIndex \notin available
    /\ ~Presented(swapchainImageIndex) /\ ~Shown(swapchainImageIndex)

PlaceInv ==
  /\ PresentsApart
  /\ FlipsApart
  /\ PresentedNotShown
  /\ AvailableNowhere
  /\ AcquiredNowhere

Queued(f) == \E i \in DOMAIN graphicsQueue_ : graphicsQueue_[i] = f

(* A queued frame will be presented.                                       *)
QueuedHasPresent ==
  \A i \in DOMAIN graphicsQueue_ : graphicsQueue_[i].by \in Slots =>
    \/ \E k \in DOMAIN presentQueue : presentQueue[k] = graphicsQueue_[i]
    \/ pc = "present" /\ graphicsQueue_[i] = ThisFrame

(* A presented frame is finished or queued.                                *)
PresentHasFrame ==
  /\ \A k \in DOMAIN presentQueue :
       presentQueue[k].image \in rendered \/ Queued(presentQueue[k])
  /\ pc = "present" => swapchainImageIndex \in rendered \/ Queued(ThisFrame)

(* A signalled renderSemaphore_ has a present that will take it ...        *)
SignalHasPresent ==
  \A s \in Slots : renderSemaphore_[s] =>
    \/ \E k \in DOMAIN presentQueue : presentQueue[k].by = s
    \/ /\ pc = "present" /\ s = get_current_frame
       /\ \A i \in DOMAIN graphicsQueue_ : graphicsQueue_[i].by # s

(* ... and it is not that of a frame in the queue, but an earlier one.     *)
SignalIsEarlier ==
  \A k \in DOMAIN presentQueue :
    Queued(presentQueue[k]) /\ renderSemaphore_[presentQueue[k].by] =>
      \E l \in DOMAIN presentQueue : l < k /\ presentQueue[l].by = presentQueue[k].by

RenderInv ==
  /\ QueuedHasPresent
  /\ PresentHasFrame
  /\ SignalHasPresent
  /\ SignalIsEarlier
  /\ OnlyRenderedShown

(* The screen does not read the image of a batch that runs ...             *)
RunningNotScanned ==
  \A i \in DOMAIN graphicsQueue_ : i <= begun /\ graphicsQueue_[i].by \in Slots =>
    graphicsQueue_[i].image \notin scanout

(* ... nor that of one whose swapchainSemaphore_ is signalled;             *)
SignalledNotScanned ==
  \A s \in Slots : swapchainSemaphore_[s] =>
    /\ \A i \in DOMAIN graphicsQueue_ :
         i > begun /\ graphicsQueue_[i].by = s => graphicsQueue_[i].image \notin scanout
    /\ s = get_current_frame /\ pc \in {"record", "submit"} => swapchainImageIndex \notin scanout

(* it is signalled for the image that was acquired with it.                *)
SignalForAcquired ==
  \A s \in Slots : acquireSignal[s] # NoImage =>
    /\ \A i \in DOMAIN graphicsQueue_ :
         i > begun /\ graphicsQueue_[i].by = s => graphicsQueue_[i].image = acquireSignal[s]
    /\ s = get_current_frame /\ pc \in {"record", "submit"} =>
         swapchainImageIndex = acquireSignal[s]

ScanInv == RunningNotScanned /\ SignalledNotScanned /\ SignalForAcquired

(* The invariant.                                                          *)
ImagesInv == IInv /\ PlaceInv /\ RenderInv /\ ScanInv

-------------------------------------------------------------------------------
(* A present is of a slot and of an image of the swapchain.                *)
LEMMA PresentFrames ==
  ASSUME ImagesInv
  PROVE  \A k \in DOMAIN presentQueue :
           presentQueue[k] \in Frame /\ presentQueue[k].by \in Slots /\ presentQueue[k].image \in Images
<1>1. \A k \in DOMAIN presentQueue : presentQueue[k] \in Frame
  BY DEF ImagesInv, IInv, TypeOK
<1> QED
  BY <1>1 DEF Frame

-------------------------------------------------------------------------------
(* The places of the images.                                               *)

(* A step that moves no image keeps every image in one place.              *)
LEMMA PlacesKept ==
  ASSUME PlaceInv, UNCHANGED <<available, presentQueue, flipQueue, displayed, swapchainImageIndex>>,
         pc' \in {"record", "submit", "present"} => pc \in {"record", "submit", "present"}
  PROVE  PlaceInv'
BY DEF PlaceInv, PresentsApart, FlipsApart, PresentedNotShown, AvailableNowhere, AcquiredNowhere,
       Presented, Shown

(* The image acquired was available, so nowhere else.                      *)
LEMMA AcquirePlaces ==
  ASSUME ImagesInv, AcquireNextImage
  PROVE  PlaceInv'
<1>1. PICK i \in available :
        /\ swapchainImageIndex' = i /\ available' = available \ {i}
        /\ UNCHANGED <<presentQueue, flipQueue, displayed>>
  BY DEF AcquireNextImage, flipVars
<1>2. ~Presented(i) /\ ~Shown(i)
  BY DEF ImagesInv, PlaceInv, AvailableNowhere
<1> QED
  BY <1>1, <1>2
  DEF ImagesInv, PlaceInv, PresentsApart, FlipsApart, PresentedNotShown, AvailableNowhere,
      AcquiredNowhere, Presented, Shown

(* The acquired image joins the presents.                                  *)
LEMMA PresentPlaces ==
  ASSUME ImagesInv, Present
  PROVE  PlaceInv'
<1>1. /\ pc = "present" /\ pc' = "idle"
      /\ presentQueue' = Append(presentQueue, ThisFrame)
      /\ UNCHANGED <<available, flipQueue, displayed>>
  BY DEF Present, At, flipVars
<1>2. /\ ThisFrame \in Frame /\ ThisFrame.image = swapchainImageIndex
      /\ presentQueue \in Seq(Frame)
  BY <1>1, CurrentSlot DEF ThisFrame, Frame, ImagesInv, IInv, IndexAcquired, TypeOK
<1>3. /\ DOMAIN presentQueue' = DOMAIN presentQueue \cup {Len(presentQueue) + 1}
      /\ \A k \in DOMAIN presentQueue : presentQueue'[k] = presentQueue[k]
      /\ presentQueue'[Len(presentQueue) + 1] = ThisFrame
  BY <1>1, <1>2, AppendedLast
<1>4. /\ swapchainImageIndex \notin available
      /\ ~Presented(swapchainImageIndex) /\ ~Shown(swapchainImageIndex)
  BY <1>1 DEF ImagesInv, PlaceInv, AcquiredNowhere
<1>5. \A i : Presented(i)' <=> Presented(i) \/ i = swapchainImageIndex
  BY <1>2, <1>3 DEF Presented
<1>6. \A i : Shown(i)' <=> Shown(i)
  BY <1>1 DEF Shown
<1>7. PresentsApart'
  BY <1>2, <1>3, <1>4 DEF ImagesInv, PlaceInv, PresentsApart, Presented
<1>8. FlipsApart' /\ PresentedNotShown' /\ AvailableNowhere' /\ AcquiredNowhere'
  BY <1>1, <1>4, <1>5, <1>6
  DEF ImagesInv, PlaceInv, FlipsApart, PresentedNotShown, AvailableNowhere, AcquiredNowhere
<1> QED
  BY <1>7, <1>8 DEF PlaceInv

(* The image of the oldest present is the last to be flipped.              *)
LEMMA PresentWaitPlaces ==
  ASSUME ImagesInv, PresentWait
  PROVE  PlaceInv'
<1>1. /\ presentQueue \in Seq(Frame) /\ presentQueue # <<>> /\ flipQueue \in Seq(Images)
      /\ presentQueue' = Tail(presentQueue)
      /\ flipQueue' = Append(flipQueue, Head(presentQueue).image)
      /\ UNCHANGED <<pc, swapchainImageIndex, available, displayed>>
  BY DEF PresentWait, engineVars, ImagesInv, IInv, TypeOK
<1>2. /\ 1 \in DOMAIN presentQueue /\ Head(presentQueue) = presentQueue[1]
      /\ DOMAIN presentQueue \subseteq Nat \ {0}
      /\ \A k \in DOMAIN presentQueue' :
           k \in Nat \ {0} /\ k + 1 \in DOMAIN presentQueue /\ presentQueue'[k] = presentQueue[k + 1]
      /\ \A k \in DOMAIN presentQueue :
           k # 1 => k - 1 \in DOMAIN presentQueue' /\ presentQueue'[k - 1] = presentQueue[k]
  BY <1>1, TailShifts
<1>3. PICK i \in Images : i = presentQueue[1].image
  <2>1. presentQueue[1] \in Frame
    BY <1>1, <1>2
  <2> QED
    BY <2>1 DEF Frame
<1>4. /\ DOMAIN flipQueue' = DOMAIN flipQueue \cup {Len(flipQueue) + 1}
      /\ \A k \in DOMAIN flipQueue : flipQueue'[k] = flipQueue[k]
      /\ flipQueue'[Len(flipQueue) + 1] = i
  <2>1. flipQueue' = Append(flipQueue, i)
    BY <1>1, <1>2, <1>3
  <2> QED
    BY <1>1, <2>1, AppendedLast
<1>5. Presented(i) /\ ~Shown(i)
  BY <1>2, <1>3 DEF Presented, ImagesInv, PlaceInv, PresentedNotShown
<1>6. \A k \in DOMAIN presentQueue : k # 1 => presentQueue[k].image # i
  BY <1>2, <1>3 DEF ImagesInv, PlaceInv, PresentsApart
<1>7. \A j : Presented(j)' => Presented(j) /\ j # i
  BY <1>2, <1>6 DEF Presented
<1>8. \A j : Shown(j)' <=> Shown(j) \/ j = i
  BY <1>1, <1>4 DEF Shown
<1>9. PresentsApart'
  BY <1>2 DEF ImagesInv, PlaceInv, PresentsApart
<1>10. FlipsApart'
  BY <1>1, <1>4, <1>5 DEF ImagesInv, PlaceInv, FlipsApart, Shown
<1>11. PresentedNotShown' /\ AvailableNowhere' /\ AcquiredNowhere'
  BY <1>1, <1>5, <1>7, <1>8
  DEF ImagesInv, PlaceInv, PresentedNotShown, AvailableNowhere, AcquiredNowhere
<1> QED
  BY <1>9, <1>10, <1>11 DEF PlaceInv

(* The image that leaves the screen may be acquired again.                 *)
LEMMA VBlankPlaces ==
  ASSUME ImagesInv, VBlank
  PROVE  PlaceInv'
<1>1. /\ flipQueue \in Seq(Images) /\ flipQueue # <<>>
      /\ displayed' = Head(flipQueue) /\ flipQueue' = Tail(flipQueue)
      /\ available' = available \cup ({displayed} \ {NoImage})
      /\ UNCHANGED <<pc, swapchainImageIndex, presentQueue>>
  BY DEF VBlank, engineVars, ImagesInv, IInv, TypeOK
<1>2. /\ 1 \in DOMAIN flipQueue /\ Head(flipQueue) = flipQueue[1]
      /\ DOMAIN flipQueue \subseteq Nat \ {0}
      /\ \A k \in DOMAIN flipQueue' :
           k \in Nat \ {0} /\ k + 1 \in DOMAIN flipQueue /\ flipQueue'[k] = flipQueue[k + 1]
  BY <1>1, TailShifts
<1>3. FlipsApart
  BY DEF ImagesInv, PlaceInv
<1>4. \A k \in DOMAIN flipQueue : k # 1 => flipQueue[k] # Head(flipQueue)
  BY <1>2, <1>3 DEF FlipsApart
<1>5. \A j : Presented(j)' <=> Presented(j)
  BY <1>1 DEF Presented
<1>6. \A j : Shown(j)' => Shown(j) /\ j # displayed
  BY <1>1, <1>2, <1>3 DEF Shown, FlipsApart
<1>7. displayed # NoImage => displayed \in Images /\ Shown(displayed)
  BY DEF Shown, ImagesInv, IInv, TypeOK
<1>8. PresentsApart' /\ FlipsApart'
  BY <1>1, <1>2, <1>3, <1>4 DEF ImagesInv, PlaceInv, PresentsApart, FlipsApart
<1>9. PresentedNotShown' /\ AvailableNowhere'
  BY <1>1, <1>5, <1>6, <1>7 DEF ImagesInv, PlaceInv, PresentedNotShown, AvailableNowhere
<1>10. AcquiredNowhere'
  <2> SUFFICES ASSUME pc \in {"record", "submit", "present"}
               PROVE  /\ swapchainImageIndex \notin available'
                      /\ ~Presented(swapchainImageIndex)' /\ ~Shown(swapchainImageIndex)'
    BY <1>1 DEF AcquiredNowhere
  <2>1. /\ swapchainImageIndex \notin available
        /\ ~Presented(swapchainImageIndex) /\ ~Shown(swapchainImageIndex)
    BY DEF ImagesInv, PlaceInv, AcquiredNowhere
  <2> QED
    BY <1>1, <1>5, <1>6, <1>7, <2>1
<1> QED
  BY <1>8, <1>9, <1>10 DEF PlaceInv

(* Every image stays in one place, in every step.                          *)
LEMMA NextKeepsPlaces == ImagesInv /\ [Next]_vars => PlaceInv'
<1> SUFFICES ASSUME ImagesInv, [Next]_vars PROVE PlaceInv'
  OBVIOUS
<1>1. PlaceInv
  BY DEF ImagesInv
<1>2. CASE Draw \/ WaitForFences \/ ImmediateWait \/ DeviceWaitIdle \/ Destroy \/ VkCheckFails
             \/ ResetFences \/ Record \/ Submit \/ ImmediateReset \/ ImmediateSubmit
  BY <1>1, <1>2, PlacesKept
  DEF Draw, WaitForFences, ImmediateWait, DeviceWaitIdle, Destroy, VkCheckFails, ResetFences, Record,
      Submit, ImmediateReset, ImmediateSubmit, At, presentVars, flipVars
<1>3. CASE GpuBegin \/ GpuComplete \/ (\E s \in Slots : AcquireSignal(s))
             \/ (\E i \in Images : ScanoutEnds(i)) \/ UNCHANGED vars
  BY <1>1, <1>3, PlacesKept
  DEF GpuBegin, GpuComplete, AcquireSignal, ScanoutEnds, vars, engineVars, presentVars, flipVars
<1>4. CASE AcquireNextImage \/ Present \/ PresentWait \/ VBlank
  BY <1>4, AcquirePlaces, PresentPlaces, PresentWaitPlaces, VBlankPlaces
<1> QED
  BY <1>2, <1>3, <1>4 DEF Next, DrawStep, ImmediateStep, Display, Terminated

-------------------------------------------------------------------------------
(* What is rendered, and which presents wait for which signal.             *)

(* Steps that move neither a frame nor a present keep RenderInv.           *)
LEMMA RenderKept ==
  ASSUME RenderInv,
         UNCHANGED <<graphicsQueue_, presentQueue, renderSemaphore_, frameNumber_,
                     displayed, flipQueue, rendered>>,
         pc' = "present" <=> pc = "present",
         pc = "present" => swapchainImageIndex' = swapchainImageIndex
  PROVE  RenderInv'
<1>1. /\ get_current_frame' = get_current_frame
      /\ pc = "present" => ThisFrame' = ThisFrame
      /\ \A k : Queued(presentQueue[k])' <=> Queued(presentQueue[k])
      /\ pc = "present" => (Queued(ThisFrame)' <=> Queued(ThisFrame))
  BY DEF get_current_frame, ThisFrame, Queued
<1>2. QueuedHasPresent' /\ PresentHasFrame'
  BY <1>1 DEF RenderInv, QueuedHasPresent, PresentHasFrame
<1>3. SignalHasPresent' /\ SignalIsEarlier' /\ OnlyRenderedShown'
  BY <1>1 DEF RenderInv, SignalHasPresent, SignalIsEarlier, OnlyRenderedShown
<1> QED
  BY <1>2, <1>3 DEF RenderInv

(* The image acquired loses its frame: nothing shown or presented has it.  *)
LEMMA AcquireRender ==
  ASSUME ImagesInv, AcquireNextImage
  PROVE  RenderInv'
<1>1. PICK i \in available :
        /\ rendered' = rendered \ {i}
        /\ UNCHANGED <<graphicsQueue_, presentQueue, renderSemaphore_, frameNumber_,
                       displayed, flipQueue>>
        /\ pc = "acquire" /\ pc' = "record"
  BY DEF AcquireNextImage, At, syncVars, queueVars, flipVars
<1>2. ~Presented(i) /\ ~Shown(i)
  BY DEF ImagesInv, PlaceInv, AvailableNowhere
<1>3. /\ get_current_frame' = get_current_frame
      /\ \A k : Queued(presentQueue[k])' <=> Queued(presentQueue[k])
  BY <1>1 DEF get_current_frame, Queued
<1>4. QueuedHasPresent' /\ SignalHasPresent' /\ SignalIsEarlier'
  BY <1>1, <1>3 DEF ImagesInv, RenderInv, QueuedHasPresent, SignalHasPresent, SignalIsEarlier
<1>5. PresentHasFrame' /\ OnlyRenderedShown'
  BY <1>1, <1>2, <1>3
  DEF ImagesInv, RenderInv, PresentHasFrame, OnlyRenderedShown, Presented, Shown
<1> QED
  BY <1>4, <1>5 DEF RenderInv

(* The batch submitted is that of no present that is queued already.       *)
LEMMA SubmitRender ==
  ASSUME ImagesInv, Submit
  PROVE  RenderInv'
<1>1. /\ pc = "submit" /\ pc' = "present"
      /\ graphicsQueue_' = Append(graphicsQueue_, ThisFrame)
      /\ UNCHANGED <<presentQueue, renderSemaphore_, frameNumber_, swapchainImageIndex,
                     displayed, flipQueue, rendered>>
  BY DEF Submit, At, syncVars, presentVars, flipVars
<1>2. /\ ThisFrame \in Batch /\ graphicsQueue_ \in Seq(Batch)
      /\ ThisFrame.image = swapchainImageIndex
  BY <1>1, CurrentSlot DEF ThisFrame, Batch, Submitters, ImagesInv, IInv, TypeOK
<1>3. /\ DOMAIN graphicsQueue_' = DOMAIN graphicsQueue_ \cup {Len(graphicsQueue_) + 1}
      /\ \A i \in DOMAIN graphicsQueue_ : graphicsQueue_'[i] = graphicsQueue_[i]
      /\ graphicsQueue_'[Len(graphicsQueue_) + 1] = ThisFrame
  BY <1>1, <1>2, AppendedLast
<1>4. /\ get_current_frame' = get_current_frame /\ ThisFrame' = ThisFrame
      /\ Queued(ThisFrame)'
      /\ \A k : Queued(presentQueue[k])' <=> Queued(presentQueue[k]) \/ presentQueue[k] = ThisFrame
  BY <1>1, <1>3 DEF get_current_frame, ThisFrame, Queued
<1>5. ~Presented(swapchainImageIndex)
  BY <1>1 DEF ImagesInv, PlaceInv, AcquiredNowhere
<1>6. \A k \in DOMAIN presentQueue : presentQueue[k] # ThisFrame
  BY <1>2, <1>5 DEF Presented
<1>7. QueuedHasPresent' /\ PresentHasFrame'
  BY <1>1, <1>3, <1>4 DEF ImagesInv, RenderInv, QueuedHasPresent, PresentHasFrame
<1>8. SignalHasPresent' /\ SignalIsEarlier' /\ OnlyRenderedShown'
  BY <1>1, <1>4, <1>6
  DEF ImagesInv, RenderInv, SignalHasPresent, SignalIsEarlier, OnlyRenderedShown
<1> QED
  BY <1>7, <1>8 DEF RenderInv

(* The batch of immediateSubmit() is no frame.                             *)
LEMMA ImmediateSubmitRender ==
  ASSUME ImagesInv, ImmediateSubmit
  PROVE  RenderInv'
<1>1. PICK b \in Batch : b.by = Imm /\ graphicsQueue_' = Append(graphicsQueue_, b)
  BY DEF ImmediateSubmit, Batch, Submitters
<1>2. /\ pc = "immSubmit" /\ pc' = "immWait"
      /\ UNCHANGED <<presentQueue, renderSemaphore_, frameNumber_, displayed, flipQueue, rendered>>
  BY DEF ImmediateSubmit, At, syncVars, presentVars, flipVars
<1>3. /\ graphicsQueue_ \in Seq(Batch) /\ presentQueue \in Seq(Frame)
      /\ Imm \notin Slots
  BY ImmAssumption DEF Slots, ImagesInv, IInv, TypeOK
<1>4. /\ DOMAIN graphicsQueue_' = DOMAIN graphicsQueue_ \cup {Len(graphicsQueue_) + 1}
      /\ \A i \in DOMAIN graphicsQueue_ : graphicsQueue_'[i] = graphicsQueue_[i]
      /\ graphicsQueue_'[Len(graphicsQueue_) + 1] = b
  BY <1>1, <1>3, AppendedLast
<1>5. \A k \in DOMAIN presentQueue : presentQueue[k].by \in Slots
  BY PresentFrames
<1>6. \A k \in DOMAIN presentQueue : Queued(presentQueue[k])' <=> Queued(presentQueue[k])
  BY <1>1, <1>2, <1>3, <1>4, <1>5 DEF Queued
<1>7. QueuedHasPresent' /\ PresentHasFrame'
  BY <1>1, <1>2, <1>3, <1>4, <1>6 DEF ImagesInv, RenderInv, QueuedHasPresent, PresentHasFrame
<1>8. SignalHasPresent' /\ SignalIsEarlier' /\ OnlyRenderedShown'
  BY <1>2, <1>6 DEF ImagesInv, RenderInv, SignalHasPresent, SignalIsEarlier, OnlyRenderedShown
<1> QED
  BY <1>7, <1>8 DEF RenderInv

(* The frame that completes is rendered, and the present that takes its    *)
(* signal is queued or about to be.                                        *)
LEMMA GpuCompleteRender ==
  ASSUME ImagesInv, GpuComplete
  PROVE  RenderInv'
<1>1. /\ graphicsQueue_ \in Seq(Batch) /\ graphicsQueue_ # <<>>
      /\ graphicsQueue_' = Tail(graphicsQueue_)
      /\ UNCHANGED <<pc, frameNumber_, swapchainImageIndex, presentQueue, displayed, flipQueue>>
  BY DEF GpuComplete, engineVars, flipVars, ImagesInv, IInv, TypeOK
<1>2. /\ 1 \in DOMAIN graphicsQueue_
      /\ \A i \in DOMAIN graphicsQueue_' :
           i \in Nat \ {0} /\ i + 1 \in DOMAIN graphicsQueue_ /\ graphicsQueue_'[i] = graphicsQueue_[i + 1]
      /\ \A i \in DOMAIN graphicsQueue_ :
           i # 1 => i - 1 \in DOMAIN graphicsQueue_' /\ graphicsQueue_'[i - 1] = graphicsQueue_[i]
  BY <1>1, TailShifts
<1>3. PICK b \in Batch : b = graphicsQueue_[1]
  BY <1>1, <1>2
<1>4. /\ \A t \in Slots : renderSemaphore_'[t] <=> renderSemaphore_[t] \/ t = b.by
      /\ b.by \in Slots => rendered' = rendered \cup {b.image}
      /\ rendered \subseteq rendered'
  BY <1>2, <1>3 DEF GpuComplete, ImagesInv, IInv, TypeOK, CommandBufferIntact
<1>5. \A i \in DOMAIN graphicsQueue_' : graphicsQueue_'[i].by # b.by
  BY <1>2, <1>3 DEF ImagesInv, IInv, OneBatchEach
<1>6. \A f : Queued(f)' => Queued(f) /\ f.by # b.by
  BY <1>2, <1>5 DEF Queued
<1>7. \A f : Queued(f) => f = b \/ Queued(f)'
  BY <1>2, <1>3 DEF Queued
<1>8. /\ get_current_frame' = get_current_frame /\ ThisFrame' = ThisFrame
      /\ ThisFrame.by = get_current_frame /\ ThisFrame.image = swapchainImageIndex
      /\ get_current_frame \in Slots
  BY <1>1, CurrentSlot DEF get_current_frame, ThisFrame, ImagesInv, IInv
<1>9. QueuedHasPresent'
  BY <1>1, <1>2, <1>8 DEF ImagesInv, RenderInv, QueuedHasPresent
<1>10. PresentHasFrame'
  <2>1. \A f : Queued(f) /\ f.by \in Slots => f.image \in rendered' \/ Queued(f)'
    BY <1>4, <1>7
  <2>2. ASSUME NEW k \in DOMAIN presentQueue, NEW f, f = presentQueue[k]
        PROVE  f.image \in rendered' \/ Queued(f)'
    BY <1>4, <2>1, <2>2, PresentFrames DEF ImagesInv, RenderInv, PresentHasFrame
  <2>3. pc = "present" => swapchainImageIndex \in rendered' \/ Queued(ThisFrame)'
    <3>1. CASE pc = "present" /\ Queued(ThisFrame)
      BY <1>8, <2>1, <3>1
    <3>2. CASE pc = "present" /\ swapchainImageIndex \in rendered
      BY <1>4, <3>2
    <3> QED
      BY <3>1, <3>2 DEF ImagesInv, RenderInv, PresentHasFrame
  <2> QED
    BY <1>1, <1>8, <2>2, <2>3 DEF PresentHasFrame, Queued
<1>11. SignalHasPresent'
  <2> SUFFICES ASSUME NEW t \in Slots, renderSemaphore_'[t]
               PROVE  \/ \E k \in DOMAIN presentQueue : presentQueue[k].by = t
                      \/ /\ pc = "present" /\ t = get_current_frame
                         /\ \A i \in DOMAIN graphicsQueue_' : graphicsQueue_'[i].by # t
    BY <1>1, <1>8 DEF SignalHasPresent
  <2>1. CASE t = b.by
    BY <1>2, <1>3, <1>5, <1>8, <2>1 DEF ImagesInv, RenderInv, QueuedHasPresent
  <2>2. CASE t # b.by
    BY <1>2, <1>4, <2>2 DEF ImagesInv, RenderInv, SignalHasPresent
  <2> QED
    BY <2>1, <2>2
<1>12. SignalIsEarlier'
  BY <1>1, <1>4, <1>6, PresentFrames DEF ImagesInv, RenderInv, SignalIsEarlier, Queued
<1>13. OnlyRenderedShown'
  BY <1>1, <1>4 DEF ImagesInv, RenderInv, OnlyRenderedShown
<1> QED
  BY <1>9, <1>10, <1>11, <1>12, <1>13 DEF RenderInv

(* The new present is behind that of the slot's earlier frame, if it still *)
(* waits.                                                                  *)
LEMMA PresentRender ==
  ASSUME ImagesInv, Present
  PROVE  RenderInv'
<1>1. /\ pc = "present" /\ pc' = "idle"
      /\ presentQueue' = Append(presentQueue, ThisFrame)
      /\ UNCHANGED <<graphicsQueue_, renderSemaphore_, displayed, flipQueue, rendered>>
  BY DEF Present, At, syncVars, queueVars, flipVars
<1>2. /\ ThisFrame \in Frame /\ presentQueue \in Seq(Frame)
      /\ ThisFrame.by = get_current_frame /\ ThisFrame.image = swapchainImageIndex
  BY <1>1, CurrentSlot DEF ThisFrame, Frame, ImagesInv, IInv, IndexAcquired, TypeOK
<1>3. PICK n, f : /\ n = Len(presentQueue) + 1 /\ f = ThisFrame
                  /\ DOMAIN presentQueue' = DOMAIN presentQueue \cup {n}
                  /\ \A k \in DOMAIN presentQueue : presentQueue'[k] = presentQueue[k] /\ k < n
                  /\ presentQueue'[n] = f
  BY <1>1, <1>2, AppendedLast
<1>4. \A g : Queued(g)' <=> Queued(g)
  BY <1>1 DEF Queued
<1>5. QueuedHasPresent'
  BY <1>1, <1>3 DEF ImagesInv, RenderInv, QueuedHasPresent
<1>6. PresentHasFrame'
  BY <1>1, <1>2, <1>3, <1>4 DEF ImagesInv, RenderInv, PresentHasFrame, Queued
<1>7. SignalHasPresent'
  BY <1>1, <1>2, <1>3 DEF ImagesInv, RenderInv, SignalHasPresent
<1>8. Queued(f) /\ renderSemaphore_[f.by] => \E l \in DOMAIN presentQueue : presentQueue[l].by = f.by
  BY <1>2, <1>3, CurrentSlot DEF Queued, ImagesInv, IInv, RenderInv, SignalHasPresent
<1>9. SignalIsEarlier'
  BY <1>1, <1>3, <1>4, <1>8 DEF ImagesInv, RenderInv, SignalIsEarlier, Queued
<1>10. OnlyRenderedShown'
  BY <1>1 DEF ImagesInv, RenderInv, OnlyRenderedShown
<1> QED
  BY <1>5, <1>6, <1>7, <1>9, <1>10 DEF RenderInv

(* The oldest present takes the signal of a frame that has completed.      *)
LEMMA PresentWaitRender ==
  ASSUME ImagesInv, PresentWait
  PROVE  RenderInv'
<1>1. /\ presentQueue \in Seq(Frame) /\ presentQueue # <<>> /\ flipQueue \in Seq(Images)
      /\ presentQueue' = Tail(presentQueue)
      /\ flipQueue' = Append(flipQueue, Head(presentQueue).image)
      /\ UNCHANGED <<pc, frameNumber_, swapchainImageIndex, graphicsQueue_, displayed, rendered>>
  BY DEF PresentWait, engineVars, queueVars, ImagesInv, IInv, TypeOK
<1>2. /\ 1 \in DOMAIN presentQueue /\ Head(presentQueue) = presentQueue[1]
      /\ DOMAIN presentQueue \subseteq Nat \ {0}
      /\ \A k \in DOMAIN presentQueue' :
           k \in Nat \ {0} /\ k + 1 \in DOMAIN presentQueue /\ presentQueue'[k] = presentQueue[k + 1]
      /\ \A k \in DOMAIN presentQueue :
           k # 1 => k - 1 \in DOMAIN presentQueue' /\ presentQueue'[k - 1] = presentQueue[k]
  BY <1>1, TailShifts
<1>3. PICK p \in Frame : p = presentQueue[1]
  BY <1>1, <1>2
<1>4. p.by \in Slots /\ p.image \in Images
  BY DEF Frame
<1>5. /\ renderSemaphore_[p.by]
      /\ \A t \in Slots : renderSemaphore_'[t] <=> renderSemaphore_[t] /\ t # p.by
  BY <1>2, <1>3, <1>4 DEF PresentWait, ImagesInv, IInv, TypeOK
<1>6. ~Queued(p)
  BY <1>2, <1>3, <1>5 DEF ImagesInv, RenderInv, SignalIsEarlier
<1>7. p.image \in rendered
  BY <1>2, <1>3, <1>6 DEF ImagesInv, RenderInv, PresentHasFrame
<1>8. /\ get_current_frame' = get_current_frame /\ ThisFrame' = ThisFrame
      /\ \A f : Queued(f)' <=> Queued(f)
  BY <1>1 DEF get_current_frame, ThisFrame, Queued
<1>9. QueuedHasPresent'
  <2> SUFFICES ASSUME NEW i \in DOMAIN graphicsQueue_, graphicsQueue_[i].by \in Slots
               PROVE  \/ \E k \in DOMAIN presentQueue' : presentQueue'[k] = graphicsQueue_[i]
                      \/ pc = "present" /\ graphicsQueue_[i] = ThisFrame
    BY <1>1, <1>8 DEF QueuedHasPresent
  <2>1. graphicsQueue_[i] # p
    BY <1>6 DEF Queued
  <2> QED
    BY <1>2, <1>3, <2>1 DEF ImagesInv, RenderInv, QueuedHasPresent
<1>10. PresentHasFrame'
  <2>1. ASSUME NEW k \in DOMAIN presentQueue', NEW f, f = presentQueue'[k]
        PROVE  f.image \in rendered \/ Queued(f)
    BY <1>2, <2>1 DEF ImagesInv, RenderInv, PresentHasFrame
  <2> QED
    BY <1>1, <1>8, <2>1 DEF ImagesInv, RenderInv, PresentHasFrame, Queued
<1>11. SignalHasPresent'
  <2> SUFFICES ASSUME NEW t \in Slots, renderSemaphore_'[t]
               PROVE  \/ \E k \in DOMAIN presentQueue' : presentQueue'[k].by = t
                      \/ /\ pc = "present" /\ t = get_current_frame
                         /\ \A i \in DOMAIN graphicsQueue_ : graphicsQueue_[i].by # t
    BY <1>1, <1>8 DEF SignalHasPresent
  <2> QED
    BY <1>2, <1>3, <1>5 DEF ImagesInv, RenderInv, SignalHasPresent
<1>12. SignalIsEarlier'
  <2> SUFFICES ASSUME NEW k \in DOMAIN presentQueue', NEW f, f = presentQueue'[k],
                      Queued(f), renderSemaphore_'[f.by]
               PROVE  \E l \in DOMAIN presentQueue' : l < k /\ presentQueue'[l].by = f.by
    BY <1>1, <1>8 DEF SignalIsEarlier, Queued
  <2>1. k + 1 \in DOMAIN presentQueue /\ f = presentQueue[k + 1] /\ k \in Nat
    BY <1>2
  <2>2. renderSemaphore_[f.by] /\ f.by # p.by
    BY <1>5, <2>1, PresentFrames
  <2>3. PICK l \in DOMAIN presentQueue : l < k + 1 /\ presentQueue[l].by = f.by
    BY <2>1, <2>2 DEF ImagesInv, RenderInv, SignalIsEarlier
  <2>4. l # 1 /\ l - 1 < k
    BY <1>2, <1>3, <2>1, <2>2, <2>3
  <2> QED
    BY <1>2, <2>3, <2>4
<1>13. OnlyRenderedShown'
  <2>1. flipQueue' = Append(flipQueue, p.image)
    BY <1>1, <1>2, <1>3
  <2>2. /\ DOMAIN flipQueue' = DOMAIN flipQueue \cup {Len(flipQueue) + 1}
        /\ \A k \in DOMAIN flipQueue : flipQueue'[k] = flipQueue[k]
        /\ flipQueue'[Len(flipQueue) + 1] = p.image
    BY <1>1, <1>4, <2>1, AppendedLast
  <2> QED
    BY <1>1, <1>7, <2>2 DEF ImagesInv, RenderInv, OnlyRenderedShown
<1> QED
  BY <1>9, <1>10, <1>11, <1>12, <1>13 DEF RenderInv

(* The image that takes the screen waited for it, so it was rendered.      *)
LEMMA VBlankRender ==
  ASSUME ImagesInv, VBlank
  PROVE  RenderInv'
<1>1. /\ flipQueue \in Seq(Images) /\ flipQueue # <<>>
      /\ displayed' = Head(flipQueue) /\ flipQueue' = Tail(flipQueue)
      /\ UNCHANGED <<pc, frameNumber_, swapchainImageIndex, graphicsQueue_, presentQueue,
                     renderSemaphore_, rendered>>
  BY DEF VBlank, engineVars, syncVars, queueVars, ImagesInv, IInv, TypeOK
<1>2. /\ 1 \in DOMAIN flipQueue /\ Head(flipQueue) = flipQueue[1]
      /\ \A k \in DOMAIN flipQueue' : k + 1 \in DOMAIN flipQueue /\ flipQueue'[k] = flipQueue[k + 1]
  BY <1>1, TailShifts
<1>3. /\ get_current_frame' = get_current_frame /\ ThisFrame' = ThisFrame
      /\ \A k : Queued(presentQueue[k])' <=> Queued(presentQueue[k])
      /\ Queued(ThisFrame)' <=> Queued(ThisFrame)
  BY <1>1 DEF get_current_frame, ThisFrame, Queued
<1>4. QueuedHasPresent' /\ PresentHasFrame' /\ SignalHasPresent' /\ SignalIsEarlier'
  BY <1>1, <1>3
  DEF ImagesInv, RenderInv, QueuedHasPresent, PresentHasFrame, SignalHasPresent, SignalIsEarlier
<1>5. OnlyRenderedShown'
  BY <1>1, <1>2 DEF ImagesInv, RenderInv, OnlyRenderedShown
<1> QED
  BY <1>4, <1>5 DEF RenderInv

(* Every step keeps what is known of frames and presents.                  *)
LEMMA NextKeepsRender == ImagesInv /\ [Next]_vars => RenderInv'
<1> SUFFICES ASSUME ImagesInv, [Next]_vars PROVE RenderInv'
  OBVIOUS
<1>1. RenderInv
  BY DEF ImagesInv
<1>2. CASE Draw \/ WaitForFences \/ ImmediateWait \/ DeviceWaitIdle \/ Destroy \/ VkCheckFails
             \/ ResetFences \/ Record \/ ImmediateReset
  BY <1>1, <1>2, RenderKept
  DEF Draw, WaitForFences, ImmediateWait, DeviceWaitIdle, Destroy, VkCheckFails, ResetFences, Record,
      ImmediateReset, At, syncVars, queueVars, presentVars, flipVars
<1>3. CASE GpuBegin \/ (\E s \in Slots : AcquireSignal(s)) \/ (\E i \in Images : ScanoutEnds(i))
             \/ UNCHANGED vars
  BY <1>1, <1>3, RenderKept
  DEF GpuBegin, AcquireSignal, ScanoutEnds, vars, engineVars, syncVars, queueVars, presentVars, flipVars
<1>4. CASE AcquireNextImage \/ Submit \/ Present \/ ImmediateSubmit \/ GpuComplete
  BY <1>4, AcquireRender, SubmitRender, PresentRender, ImmediateSubmitRender, GpuCompleteRender
<1>5. CASE PresentWait \/ VBlank
  BY <1>5, PresentWaitRender, VBlankRender
<1> QED
  BY <1>2, <1>3, <1>4, <1>5 DEF Next, DrawStep, ImmediateStep, Display, Terminated

-------------------------------------------------------------------------------
(* What the screen reads and what the queue writes.                        *)

(* Steps that leave the queue and the acquires alone, and add nothing to   *)
(* what is scanned out, keep ScanInv.                                      *)
LEMMA ScanKept ==
  ASSUME ScanInv, UNCHANGED <<graphicsQueue_, begun, swapchainSemaphore_, acquireSignal>>,
         scanout' \subseteq scanout,
         pc' \in {"record", "submit"} =>
           pc \in {"record", "submit"} /\ UNCHANGED <<frameNumber_, swapchainImageIndex>>
  PROVE  ScanInv'
<1>1. pc' \in {"record", "submit"} => get_current_frame' = get_current_frame
  BY DEF get_current_frame
<1> QED
  BY <1>1 DEF ScanInv, RunningNotScanned, SignalledNotScanned, SignalForAcquired

(* The slot has no batch and its semaphore is free when it acquires.       *)
LEMMA AcquireScan ==
  ASSUME ImagesInv, AcquireNextImage
  PROVE  ScanInv'
<1>1. PICK c \in Slots : c = get_current_frame
  BY CurrentSlot DEF ImagesInv, IInv
<1>2. PICK i \in Images :
        /\ swapchainImageIndex' = i /\ acquireSignal' = [acquireSignal EXCEPT ![c] = i]
        /\ pc = "acquire" /\ pc' = "record"
        /\ get_current_frame' = c
        /\ UNCHANGED <<graphicsQueue_, begun, swapchainSemaphore_, scanout>>
  BY <1>1 DEF AcquireNextImage, At, syncVars, queueVars, flipVars, get_current_frame,
              ImagesInv, IInv, TypeOK
<1>3. /\ acquireSignal'[c] = i
      /\ \A s \in Slots : s # c => acquireSignal'[s] = acquireSignal[s]
  BY <1>2 DEF ImagesInv, IInv, TypeOK
<1>4. \A k \in DOMAIN graphicsQueue_ : graphicsQueue_[k].by # c
  BY <1>1, <1>2 DEF ImagesInv, IInv, SlotIdle
<1>5. ~swapchainSemaphore_[c]
  BY <1>1, <1>2, <1>4 DEF ImagesInv, IInv, SemaphoreHasTaker, AcquireOwed
<1>6. RunningNotScanned' /\ SignalledNotScanned'
  BY <1>2, <1>5 DEF ImagesInv, ScanInv, RunningNotScanned, SignalledNotScanned
<1>7. SignalForAcquired'
  BY <1>2, <1>3, <1>4 DEF ImagesInv, ScanInv, SignalForAcquired
<1> QED
  BY <1>6, <1>7 DEF ScanInv

(* A batch joins the queue behind those that run; a frame's is for the     *)
(* image acquired.                                                         *)
LEMMA SubmitScan ==
  ASSUME ImagesInv, Submit \/ ImmediateSubmit
  PROVE  ScanInv'
<1>1. PICK b \in Batch :
        /\ graphicsQueue_' = Append(graphicsQueue_, b)
        /\ b.by \in Slots => /\ pc = "submit" /\ b.by = get_current_frame
                             /\ b.image = swapchainImageIndex
  <2>1. CASE Submit
    BY <2>1, CurrentSlot DEF Submit, At, ThisFrame, Batch, Submitters, ImagesInv, IInv, TypeOK
  <2>2. CASE ImmediateSubmit
    <3>1. Imm \notin Slots
      BY ImmAssumption DEF Slots
    <3> QED
      BY <2>2, <3>1 DEF ImmediateSubmit, Batch, Submitters
  <2> QED
    BY <2>1, <2>2
<1>2. /\ pc' \notin {"record", "submit"}
      /\ UNCHANGED <<begun, swapchainSemaphore_, acquireSignal, scanout>>
  BY DEF Submit, ImmediateSubmit, syncVars, presentVars, flipVars
<1>3. /\ graphicsQueue_ \in Seq(Batch) /\ begun \in 0 .. Len(graphicsQueue_)
  BY DEF ImagesInv, IInv, TypeOK
<1>4. PICK n : /\ n = Len(graphicsQueue_) + 1 /\ ~(n <= begun)
               /\ DOMAIN graphicsQueue_' = DOMAIN graphicsQueue_ \cup {n}
               /\ \A i \in DOMAIN graphicsQueue_ : graphicsQueue_'[i] = graphicsQueue_[i]
               /\ graphicsQueue_'[n] = b
  <2>1. ~(Len(graphicsQueue_) + 1 <= begun)
    BY <1>3
  <2> QED
    BY <1>1, <1>3, <2>1, AppendedLast
<1>5. RunningNotScanned'
  BY <1>2, <1>4 DEF ImagesInv, ScanInv, RunningNotScanned
<1>6. SignalledNotScanned'
  BY <1>1, <1>2, <1>4 DEF ImagesInv, ScanInv, SignalledNotScanned
<1>7. SignalForAcquired'
  BY <1>1, <1>2, <1>4 DEF ImagesInv, ScanInv, SignalForAcquired
<1> QED
  BY <1>5, <1>6, <1>7 DEF ScanInv

(* The batch that starts had the signal that its image is free.            *)
LEMMA GpuBeginScan ==
  ASSUME ImagesInv, GpuBegin
  PROVE  ScanInv'
<1>1. /\ begun' = begun + 1 /\ begun \in Nat
      /\ UNCHANGED <<pc, frameNumber_, swapchainImageIndex, graphicsQueue_, acquireSignal, scanout>>
  BY DEF GpuBegin, engineVars, presentVars, flipVars, ImagesInv, IInv, TypeOK
<1>2. /\ begun + 1 \in DOMAIN graphicsQueue_
      /\ graphicsQueue_[begun + 1].by \in Slots => swapchainSemaphore_[graphicsQueue_[begun + 1].by]
      /\ \A s \in Slots : swapchainSemaphore_'[s] => swapchainSemaphore_[s]
  BY DEF GpuBegin, ImagesInv, IInv, TypeOK
<1>3. /\ get_current_frame' = get_current_frame
      /\ DOMAIN graphicsQueue_ \subseteq Nat
  BY <1>1 DEF get_current_frame, ImagesInv, IInv, TypeOK
<1>4. RunningNotScanned'
  <2> SUFFICES ASSUME NEW i \in DOMAIN graphicsQueue_, i <= begun + 1, graphicsQueue_[i].by \in Slots
               PROVE  graphicsQueue_[i].image \notin scanout
    BY <1>1 DEF RunningNotScanned
  <2>1. CASE i <= begun
    BY <2>1 DEF ImagesInv, ScanInv, RunningNotScanned
  <2>2. CASE i = begun + 1
    BY <1>1, <1>2, <2>2 DEF ImagesInv, ScanInv, SignalledNotScanned
  <2> QED
    BY <1>1, <1>3, <2>1, <2>2
<1>5. \A i \in DOMAIN graphicsQueue_ : i > begun' => i > begun
  BY <1>1, <1>3
<1>6. SignalledNotScanned' /\ SignalForAcquired'
  BY <1>1, <1>2, <1>3, <1>5 DEF ImagesInv, ScanInv, SignalledNotScanned, SignalForAcquired
<1> QED
  BY <1>4, <1>6 DEF ScanInv

(* The batches behind the one that completes move up with begun.           *)
LEMMA GpuCompleteScan ==
  ASSUME ImagesInv, GpuComplete
  PROVE  ScanInv'
<1>1. /\ graphicsQueue_ \in Seq(Batch) /\ graphicsQueue_ # <<>>
      /\ graphicsQueue_' = Tail(graphicsQueue_)
      /\ begun \in Nat /\ begun' = begun - 1
      /\ UNCHANGED <<pc, frameNumber_, swapchainImageIndex, swapchainSemaphore_, acquireSignal, scanout>>
  BY DEF GpuComplete, engineVars, flipVars, ImagesInv, IInv, TypeOK
<1>2. \A i \in DOMAIN graphicsQueue_' :
        i \in Nat \ {0} /\ i + 1 \in DOMAIN graphicsQueue_ /\ graphicsQueue_'[i] = graphicsQueue_[i + 1]
  BY <1>1, TailShifts
<1>3. \A i \in DOMAIN graphicsQueue_' : (i <= begun' => i + 1 <= begun) /\ (i > begun' => i + 1 > begun)
  BY <1>1, <1>2
<1>4. get_current_frame' = get_current_frame
  BY <1>1 DEF get_current_frame
<1>5. RunningNotScanned'
  BY <1>1, <1>2, <1>3 DEF ImagesInv, ScanInv, RunningNotScanned
<1>6. SignalledNotScanned'
  BY <1>1, <1>2, <1>3, <1>4 DEF ImagesInv, ScanInv, SignalledNotScanned
<1>7. SignalForAcquired'
  BY <1>1, <1>2, <1>3, <1>4 DEF ImagesInv, ScanInv, SignalForAcquired
<1> QED
  BY <1>5, <1>6, <1>7 DEF ScanInv

(* The signal is given for the image acquired, when the screen is done     *)
(* with it.                                                                *)
LEMMA AcquireSignalScan ==
  ASSUME ImagesInv, NEW s \in Slots, AcquireSignal(s)
  PROVE  ScanInv'
<1>1. /\ acquireSignal[s] # NoImage /\ acquireSignal[s] \notin scanout
      /\ UNCHANGED <<pc, frameNumber_, swapchainImageIndex, graphicsQueue_, begun, scanout>>
  BY DEF AcquireSignal, engineVars, queueVars, flipVars
<1>2. /\ acquireSignal'[s] = NoImage
      /\ \A t \in Slots : t # s => /\ acquireSignal'[t] = acquireSignal[t]
                                   /\ swapchainSemaphore_'[t] = swapchainSemaphore_[t]
  BY DEF AcquireSignal, ImagesInv, IInv, TypeOK
<1>3. get_current_frame' = get_current_frame
  BY <1>1 DEF get_current_frame
<1>4. RunningNotScanned'
  BY <1>1 DEF ImagesInv, ScanInv, RunningNotScanned
<1>5. SignalledNotScanned'
  BY <1>1, <1>2, <1>3 DEF ImagesInv, ScanInv, SignalledNotScanned, SignalForAcquired
<1>6. SignalForAcquired'
  BY <1>1, <1>2, <1>3 DEF ImagesInv, ScanInv, SignalForAcquired
<1> QED
  BY <1>4, <1>5, <1>6 DEF ScanInv

(* What takes the screen is neither acquired nor in the queue.             *)
LEMMA VBlankScan ==
  ASSUME ImagesInv, VBlank
  PROVE  ScanInv'
<1>1. /\ flipQueue \in Seq(Images) /\ flipQueue # <<>>
      /\ scanout' = scanout \cup {Head(flipQueue)}
      /\ UNCHANGED <<pc, frameNumber_, swapchainImageIndex, graphicsQueue_, begun,
                     swapchainSemaphore_, acquireSignal>>
  BY DEF VBlank, engineVars, syncVars, queueVars, ImagesInv, IInv, TypeOK
<1>2. PICK h \in Images : h = Head(flipQueue) /\ Shown(h)
  <2>1. 1 \in DOMAIN flipQueue /\ Head(flipQueue) = flipQueue[1] /\ flipQueue[1] \in Images
    BY <1>1, TailShifts
  <2> QED
    BY <2>1 DEF Shown
<1>3. pc \in {"record", "submit", "present"} => swapchainImageIndex # h
  BY <1>2 DEF ImagesInv, PlaceInv, AcquiredNowhere
<1>4. \A i \in DOMAIN graphicsQueue_ :
        graphicsQueue_[i].by \in Slots => graphicsQueue_[i].image # h
  <2> SUFFICES ASSUME NEW i \in DOMAIN graphicsQueue_, graphicsQueue_[i].by \in Slots
               PROVE  graphicsQueue_[i].image # h
    OBVIOUS
  <2>1. CASE \E k \in DOMAIN presentQueue : presentQueue[k] = graphicsQueue_[i]
    BY <1>2, <2>1 DEF Presented, ImagesInv, PlaceInv, PresentedNotShown
  <2>2. CASE pc = "present" /\ graphicsQueue_[i] = ThisFrame
    BY <1>3, <2>2 DEF ThisFrame
  <2> QED
    BY <2>1, <2>2 DEF ImagesInv, RenderInv, QueuedHasPresent
<1>5. get_current_frame' = get_current_frame
  BY <1>1 DEF get_current_frame
<1>6. RunningNotScanned'
  BY <1>1, <1>2, <1>4 DEF ImagesInv, ScanInv, RunningNotScanned
<1>7. SignalledNotScanned'
  BY <1>1, <1>2, <1>3, <1>4, <1>5 DEF ImagesInv, ScanInv, SignalledNotScanned
<1>8. SignalForAcquired'
  BY <1>1, <1>5 DEF ImagesInv, ScanInv, SignalForAcquired
<1> QED
  BY <1>6, <1>7, <1>8 DEF ScanInv

(* Every step keeps the images the queue writes apart from those the       *)
(* screen reads.                                                           *)
LEMMA NextKeepsScan == ImagesInv /\ [Next]_vars => ScanInv'
<1> SUFFICES ASSUME ImagesInv, [Next]_vars PROVE ScanInv'
  OBVIOUS
<1>1. ScanInv
  BY DEF ImagesInv
<1>2. CASE Draw \/ WaitForFences \/ ImmediateWait \/ DeviceWaitIdle \/ Destroy \/ VkCheckFails
             \/ ResetFences \/ Record \/ Present \/ ImmediateReset
  BY <1>1, <1>2, ScanKept
  DEF Draw, WaitForFences, ImmediateWait, DeviceWaitIdle, Destroy, VkCheckFails, ResetFences, Record,
      Present, ImmediateReset, At, syncVars, queueVars, presentVars, flipVars
<1>3. CASE PresentWait \/ (\E i \in Images : ScanoutEnds(i)) \/ UNCHANGED vars
  BY <1>1, <1>3, ScanKept
  DEF PresentWait, ScanoutEnds, vars, engineVars, syncVars, queueVars, presentVars, flipVars
<1>4. CASE AcquireNextImage \/ Submit \/ ImmediateSubmit
  BY <1>4, AcquireScan, SubmitScan
<1>5. CASE GpuBegin \/ GpuComplete \/ (\E s \in Slots : AcquireSignal(s)) \/ VBlank
  BY <1>5, GpuBeginScan, GpuCompleteScan, AcquireSignalScan, VBlankScan
<1> QED
  BY <1>2, <1>3, <1>4, <1>5 DEF Next, DrawStep, ImmediateStep, Display, Terminated

-------------------------------------------------------------------------------
(* After init() no image is anywhere but available.                        *)
LEMMA InitImagesInv == Init => ImagesInv
<1> SUFFICES ASSUME Init PROVE ImagesInv
  OBVIOUS
<1>1. IInv
  BY InitInv
<1>2. PlaceInv
  BY NoImageAssumption
  DEF Init, PlaceInv, PresentsApart, FlipsApart, PresentedNotShown, AvailableNowhere, AcquiredNowhere,
      Presented, Shown
<1>3. RenderInv
  BY DEF Init, RenderInv, QueuedHasPresent, PresentHasFrame, SignalHasPresent, SignalIsEarlier,
         OnlyRenderedShown
<1>4. ScanInv
  BY DEF Init, ScanInv, RunningNotScanned, SignalledNotScanned, SignalForAcquired
<1> QED
  BY <1>1, <1>2, <1>3, <1>4 DEF ImagesInv

(* The invariant holds in every reachable state of the frame ring.         *)
THEOREM ImagesInvariance == Spec => []ImagesInv
<1>1. Init => ImagesInv
  BY InitImagesInv
<1>2. ImagesInv /\ [Next]_vars => ImagesInv'
  <2>1. ImagesInv /\ [Next]_vars => IInv'
    BY NextKeepsInv DEF ImagesInv
  <2> QED
    BY <2>1, NextKeepsPlaces, NextKeepsRender, NextKeepsScan DEF ImagesInv
<1> QED
  BY <1>1, <1>2, PTL DEF Spec

(* What the screen shows, or will show, is a finished frame.               *)
THEOREM ShownFramesAreFinished == Spec => []OnlyRenderedShown
<1>1. ImagesInv => OnlyRenderedShown
  BY DEF ImagesInv, RenderInv
<1> QED
  BY <1>1, ImagesInvariance, PTL

(* No command buffer that runs writes an image that the screen reads.      *)
THEOREM FramesDoNotTear == Spec => []NoTearing
<1>1. ImagesInv => NoTearing
  <2> SUFFICES ASSUME ImagesInv, NEW b \in Running, b.by \in Slots
               PROVE  mainCommandBuffer_[b.by] \notin scanout
    BY DEF NoTearing
  <2>1. PICK i \in DOMAIN graphicsQueue_ : i <= begun /\ b = graphicsQueue_[i]
    BY DEF Running, ImagesInv, IInv, TypeOK
  <2> QED
    BY <2>1 DEF ImagesInv, IInv, CommandBufferIntact, ScanInv, RunningNotScanned
<1> QED
  BY <1>1, ImagesInvariance, PTL

-------------------------------------------------------------------------------
(* A batch signals a renderSemaphore_ that is free if the driver takes a   *)
(* present before it starts what was submitted after it; and, whenever it  *)
(* takes presents, if there are no more images than slots.                 *)
OrderedOrFew ==
  PresentInIssueOrder \/ (IsFiniteSet(Images) /\ Cardinality(Images) <= FRAME_OVERLAP)

(* The presents that wait are those of consecutive frames, up to the last. *)
RingInv ==
  \A k \in DOMAIN presentQueue :
    (presentQueue[k].by + (Len(presentQueue) + 1 - k)) % FRAME_OVERLAP = get_current_frame

(* A present is queued with the slot of its frame, and the next frame gets *)
(* the next slot.                                                          *)
LEMMA NextKeepsRing == ImagesInv /\ RingInv /\ [Next]_vars => RingInv'
<1> SUFFICES ASSUME ImagesInv, RingInv, [Next]_vars PROVE RingInv'
  OBVIOUS
<1>1. presentQueue \in Seq(Frame) /\ get_current_frame \in Slots
  BY CurrentSlot DEF ImagesInv, IInv, TypeOK
<1>2. CASE UNCHANGED <<presentQueue, frameNumber_>>
  BY <1>2 DEF RingInv, get_current_frame
<1>3. CASE Present
  <2>1. /\ ThisFrame \in Frame /\ ThisFrame.by = get_current_frame
        /\ presentQueue' = Append(presentQueue, ThisFrame)
    BY <1>1, <1>3 DEF Present, At, ThisFrame, Frame, ImagesInv, IInv, IndexAcquired
  <2>2. /\ Len(presentQueue') = Len(presentQueue) + 1 /\ Len(presentQueue) \in Nat
        /\ DOMAIN presentQueue' = 1 .. Len(presentQueue) + 1
        /\ DOMAIN presentQueue = 1 .. Len(presentQueue)
        /\ \A k \in DOMAIN presentQueue : presentQueue'[k] = presentQueue[k]
        /\ presentQueue'[Len(presentQueue) + 1] = ThisFrame
    BY <1>1, <2>1
  <2>3. get_current_frame' = (get_current_frame + 1) % FRAME_OVERLAP
    BY <1>3, NextSlot DEF Present, ImagesInv, IInv
  <2> SUFFICES ASSUME NEW k \in 1 .. Len(presentQueue) + 1
               PROVE  (presentQueue'[k].by + (Len(presentQueue) + 2 - k)) % FRAME_OVERLAP
                        = (get_current_frame + 1) % FRAME_OVERLAP
    BY <2>2, <2>3 DEF RingInv
  <2>4. CASE k = Len(presentQueue) + 1
    <3>1. Len(presentQueue) + 2 - k = 1
      BY <2>2, <2>4
    <3> QED
      BY <2>1, <2>2, <2>4, <3>1
  <2>5. CASE k \in 1 .. Len(presentQueue)
    <3>1. PICK n \in Nat : n = presentQueue[k].by + (Len(presentQueue) + 1 - k)
      BY <2>2, <2>5, PresentFrames DEF Slots
    <3>2. n % FRAME_OVERLAP = get_current_frame
      BY <2>2, <2>5, <3>1 DEF RingInv
    <3>3. (n + 1) % FRAME_OVERLAP = (get_current_frame + 1) % FRAME_OVERLAP
      BY <3>2, FrameOverlapAssumption, NextRemainder
    <3>4. presentQueue'[k].by + (Len(presentQueue) + 2 - k) = n + 1
      BY <2>2, <2>5, <3>1, PresentFrames DEF Slots
    <3> QED
      BY <3>3, <3>4
  <2> QED
    BY <2>2, <2>4, <2>5
<1>4. CASE PresentWait
  <2>1. presentQueue # <<>> /\ presentQueue' = Tail(presentQueue) /\ get_current_frame' = get_current_frame
    BY <1>4 DEF PresentWait, engineVars, get_current_frame
  <2>2. /\ Len(presentQueue') = Len(presentQueue) - 1 /\ Len(presentQueue) \in Nat
        /\ \A k \in DOMAIN presentQueue' : k \in Nat /\ k + 1 \in DOMAIN presentQueue
                                           /\ presentQueue'[k] = presentQueue[k + 1]
    BY <1>1, <2>1, TailShifts
  <2>3. \A k \in DOMAIN presentQueue' :
          Len(presentQueue') + 1 - k = Len(presentQueue) + 1 - (k + 1)
    BY <2>2
  <2> QED
    BY <2>1, <2>2, <2>3 DEF RingInv
<1>5. UNCHANGED <<presentQueue, frameNumber_>> \/ Present \/ PresentWait
  BY DEF Next, Draw, DrawStep, WaitForFences, ResetFences, AcquireNextImage, Record, Submit,
         ImmediateReset, ImmediateStep, ImmediateSubmit, ImmediateWait, DeviceWaitIdle, Destroy,
         VkCheckFails, GpuBegin, GpuComplete, AcquireSignal, Display, VBlank, ScanoutEnds,
         Terminated, vars, engineVars, presentVars
<1> QED
  BY <1>2, <1>3, <1>4, <1>5

(* Two presents of one slot are a full turn of the ring apart.             *)
LEMMA FullTurn ==
  ASSUME ImagesInv, RingInv, NEW k \in DOMAIN presentQueue
  PROVE  /\ \A l \in DOMAIN presentQueue :
              l < k /\ presentQueue[l].by = presentQueue[k].by => k - l >= FRAME_OVERLAP
         /\ presentQueue[k].by = get_current_frame => Len(presentQueue) + 1 - k >= FRAME_OVERLAP
<1>1. /\ Len(presentQueue) \in Nat /\ DOMAIN presentQueue = 1 .. Len(presentQueue)
  BY DEF ImagesInv, IInv, TypeOK
<1>2. PICK s \in Slots : s = presentQueue[k].by
  BY PresentFrames
<1>3. s \in Nat /\ s % FRAME_OVERLAP = s
  BY FrameOverlapAssumption DEF Slots
<1>4. (s + (Len(presentQueue) + 1 - k)) % FRAME_OVERLAP = get_current_frame
  BY <1>2 DEF RingInv
<1>5. ASSUME NEW l \in DOMAIN presentQueue, l < k, presentQueue[l].by = s
      PROVE  k - l >= FRAME_OVERLAP
  <2>1. (s + (Len(presentQueue) + 1 - l)) % FRAME_OVERLAP = get_current_frame
    BY <1>5 DEF RingInv
  <2>2. PICK a \in Nat, b \in Nat : /\ a = s + (Len(presentQueue) + 1 - k)
                                    /\ b = s + (Len(presentQueue) + 1 - l)
    BY <1>1, <1>3
  <2>3. a < b /\ b - a = k - l
    BY <1>1, <1>3, <1>5, <2>2
  <2> QED
    BY <1>4, <2>1, <2>2, <2>3, SameRemainder, FrameOverlapAssumption
<1>6. ASSUME s = get_current_frame
      PROVE  Len(presentQueue) + 1 - k >= FRAME_OVERLAP
  <2>1. PICK b \in Nat : b = s + (Len(presentQueue) + 1 - k)
    BY <1>1, <1>3
  <2>2. s < b /\ b - s = Len(presentQueue) + 1 - k
    BY <1>1, <1>3, <2>1
  <2> QED
    BY <1>3, <1>4, <1>6, <2>1, <2>2, SameRemainder, FrameOverlapAssumption
<1> QED
  BY <1>2, <1>5, <1>6

(* No more presents wait than there are images to present, the acquired    *)
(* one not counted.                                                        *)
LEMMA FewPresents ==
  ASSUME ImagesInv, IsFiniteSet(Images), Cardinality(Images) <= FRAME_OVERLAP
  PROVE  /\ Len(presentQueue) <= FRAME_OVERLAP
         /\ pc = "present" => Len(presentQueue) < FRAME_OVERLAP
<1>1. /\ Len(presentQueue) \in Nat /\ DOMAIN presentQueue = 1 .. Len(presentQueue)
      /\ FRAME_OVERLAP \in Nat /\ Cardinality(Images) \in Nat
  BY FrameOverlapAssumption, FS_CardinalityType DEF ImagesInv, IInv, TypeOK
<1>2. ASSUME NEW T, IsFiniteSet(T), Cardinality(T) \in Nat,
             \A k \in DOMAIN presentQueue : presentQueue[k].image \in T
      PROVE  Len(presentQueue) <= Cardinality(T)
  <2> SUFFICES ASSUME Cardinality(T) < Len(presentQueue) PROVE FALSE
    BY <1>1, <1>2
  <2>1. PICK n \in Nat : n = Len(presentQueue)
    BY <1>1
  <2>2. PICK S : S = 1 .. n
    OBVIOUS
  <2>3. IsFiniteSet(S) /\ Cardinality(S) = n
    <3>1. n \in Int /\ 1 \in Int
      OBVIOUS
    <3>2. IsFiniteSet(1 .. n) /\ Cardinality(1 .. n) = IF 1 > n THEN 0 ELSE n - 1 + 1
      BY <3>1, FS_Interval, Zenon
    <3> QED
      BY <2>2, <3>2
  <2>4. PICK f : f = [k \in S |-> presentQueue[k].image]
    OBVIOUS
  <2>5. f \in [S -> T]
    BY <1>1, <1>2, <2>1, <2>2, <2>4
  <2>6. \E k, l \in S : k # l /\ f[k] = f[l]
    <3>1. Cardinality(T) < Cardinality(S)
      BY <2>1, <2>3
    <3> QED
      BY <1>2, <2>3, <2>5, <3>1, FS_PigeonHole
  <2> QED
    BY <1>1, <2>1, <2>2, <2>4, <2>6 DEF ImagesInv, PlaceInv, PresentsApart
<1>3. Len(presentQueue) <= Cardinality(Images)
  BY <1>1, <1>2, PresentFrames
<1>4. ASSUME pc = "present"
      PROVE  Len(presentQueue) < Cardinality(Images)
  <2>1. swapchainImageIndex \in Images /\ ~Presented(swapchainImageIndex)
    BY <1>4 DEF ImagesInv, IInv, IndexAcquired, PlaceInv, AcquiredNowhere
  <2>2. PICK T : T = Images \ {swapchainImageIndex}
    OBVIOUS
  <2>3. IsFiniteSet(T) /\ Cardinality(T) = Cardinality(Images) - 1 /\ Cardinality(T) \in Nat
    BY <2>1, <2>2, FS_RemoveElement, FS_CardinalityType
  <2>4. \A k \in DOMAIN presentQueue : presentQueue[k].image \in T
    BY <2>1, <2>2, PresentFrames DEF Presented
  <2> QED
    BY <1>1, <1>2, <2>3, <2>4
<1> QED
  BY <1>1, <1>3, <1>4

(* No batch that runs will signal a semaphore that is signalled.           *)
RunningUnsignalled ==
  \A i \in DOMAIN graphicsQueue_ :
    i <= begun /\ graphicsQueue_[i].by \in Slots => ~renderSemaphore_[graphicsQueue_[i].by]

(* The present of the slot's earlier frame would have to be taken before   *)
(* the slot's batch starts, so there is none.                              *)
LEMMA GpuBeginOrdered ==
  ASSUME PresentInIssueOrder, ImagesInv, GpuBegin,
         graphicsQueue_[begun + 1].by \in Slots
  PROVE  ~renderSemaphore_[graphicsQueue_[begun + 1].by]
<1> SUFFICES ASSUME renderSemaphore_[graphicsQueue_[begun + 1].by]
             PROVE  FALSE
  OBVIOUS
<1>1. PICK b \in Batch : b = graphicsQueue_[begun + 1] /\ begun + 1 \in DOMAIN graphicsQueue_
  BY DEF GpuBegin, ImagesInv, IInv, TypeOK
<1>2. PICK k \in DOMAIN presentQueue : presentQueue[k].by = b.by
  BY <1>1 DEF ImagesInv, RenderInv, SignalHasPresent
<1>3. \A l \in DOMAIN presentQueue : presentQueue[l].by = b.by => presentQueue[l] = b
  <2> SUFFICES ASSUME NEW l \in DOMAIN presentQueue, presentQueue[l].by = b.by
               PROVE  presentQueue[l] = b
    OBVIOUS
  <2>1. presentQueue[l] \in Waiting
    BY DEF GpuBegin, PresentsTaken
  <2>2. PICK j \in DOMAIN graphicsQueue_ : presentQueue[l] = graphicsQueue_[j]
    BY <2>1 DEF Waiting, ImagesInv, IInv, TypeOK
  <2> QED
    BY <1>1, <2>2 DEF ImagesInv, IInv, OneBatchEach
<1>4. Queued(presentQueue[k]) /\ renderSemaphore_[presentQueue[k].by]
  BY <1>1, <1>2, <1>3 DEF Queued
<1>5. PICK l \in DOMAIN presentQueue : l < k /\ presentQueue[l].by = presentQueue[k].by
  BY <1>4 DEF ImagesInv, RenderInv, SignalIsEarlier
<1>6. l = k
  BY <1>2, <1>3, <1>5 DEF ImagesInv, PlaceInv, PresentsApart
<1> QED
  BY <1>5, <1>6 DEF ImagesInv, IInv, TypeOK

(* With few images the present of the slot's earlier frame, a full turn    *)
(* back, would leave this one no image.                                    *)
LEMMA GpuBeginFew ==
  ASSUME IsFiniteSet(Images), Cardinality(Images) <= FRAME_OVERLAP, ImagesInv, RingInv, GpuBegin,
         graphicsQueue_[begun + 1].by \in Slots
  PROVE  ~renderSemaphore_[graphicsQueue_[begun + 1].by]
<1> SUFFICES ASSUME renderSemaphore_[graphicsQueue_[begun + 1].by]
             PROVE  FALSE
  OBVIOUS
<1>1. PICK b \in Batch : b = graphicsQueue_[begun + 1] /\ begun + 1 \in DOMAIN graphicsQueue_
  BY DEF GpuBegin, ImagesInv, IInv, TypeOK
<1>2. /\ Len(presentQueue) \in Nat /\ DOMAIN presentQueue = 1 .. Len(presentQueue)
      /\ FRAME_OVERLAP \in Nat
      /\ Len(presentQueue) <= FRAME_OVERLAP
      /\ pc = "present" => Len(presentQueue) < FRAME_OVERLAP
  BY FewPresents, FrameOverlapAssumption DEF ImagesInv, IInv, TypeOK
<1>3. CASE \E m \in DOMAIN presentQueue : presentQueue[m] = b
  <2>1. PICK m \in DOMAIN presentQueue : presentQueue[m] = b
    BY <1>3
  <2>2. PICK l \in DOMAIN presentQueue : l < m /\ presentQueue[l].by = presentQueue[m].by
    BY <1>1, <2>1 DEF Queued, ImagesInv, RenderInv, SignalIsEarlier
  <2>3. m - l >= FRAME_OVERLAP
    BY <2>2, FullTurn
  <2> QED
    BY <1>2, <2>3
<1>4. CASE pc = "present" /\ b = ThisFrame
  <2>1. PICK k \in DOMAIN presentQueue : presentQueue[k].by = b.by
    BY <1>1 DEF ImagesInv, RenderInv, SignalHasPresent
  <2>2. presentQueue[k].by = get_current_frame
    BY <1>4, <2>1 DEF ThisFrame
  <2>3. Len(presentQueue) + 1 - k >= FRAME_OVERLAP
    BY <2>2, FullTurn
  <2> QED
    BY <1>2, <1>4, <2>3
<1> QED
  BY <1>1, <1>3, <1>4 DEF ImagesInv, RenderInv, QueuedHasPresent

(* Every other step signals no semaphore but that of a batch that leaves   *)
(* the queue.                                                              *)
LEMMA NextKeepsUnsignalled ==
  ASSUME OrderedOrFew
  PROVE  ImagesInv /\ RingInv /\ RunningUnsignalled /\ [Next]_vars => RunningUnsignalled'
<1> SUFFICES ASSUME ImagesInv, RingInv, RunningUnsignalled, [Next]_vars PROVE RunningUnsignalled'
  OBVIOUS
<1>1. CASE UNCHANGED <<graphicsQueue_, begun, renderSemaphore_>>
  BY <1>1 DEF RunningUnsignalled
<1>2. CASE Submit \/ ImmediateSubmit
  <2>1. PICK b \in Batch : graphicsQueue_' = Append(graphicsQueue_, b)
    BY <1>2, CurrentSlot
    DEF Submit, ImmediateSubmit, ThisFrame, Batch, Submitters, ImagesInv, IInv, TypeOK
  <2>2. UNCHANGED <<begun, renderSemaphore_>>
    BY <1>2 DEF Submit, ImmediateSubmit, syncVars
  <2>3. graphicsQueue_ \in Seq(Batch) /\ begun \in 0 .. Len(graphicsQueue_)
    BY DEF ImagesInv, IInv, TypeOK
  <2>4. \A i \in DOMAIN graphicsQueue_' :
          i <= begun => i \in DOMAIN graphicsQueue_ /\ graphicsQueue_'[i] = graphicsQueue_[i]
    BY <2>1, <2>3
  <2> QED
    BY <2>2, <2>4 DEF RunningUnsignalled
<1>3. CASE GpuBegin
  <2>1. /\ begun' = begun + 1 /\ begun \in Nat /\ DOMAIN graphicsQueue_ \subseteq Nat
        /\ UNCHANGED <<graphicsQueue_, renderSemaphore_>>
    BY <1>3 DEF GpuBegin, ImagesInv, IInv, TypeOK
  <2>2. \A i \in DOMAIN graphicsQueue_ : i <= begun' => i <= begun \/ i = begun + 1
    BY <2>1
  <2> QED
    BY <1>3, <2>1, <2>2, GpuBeginOrdered, GpuBeginFew DEF RunningUnsignalled, OrderedOrFew
<1>4. CASE GpuComplete
  <2>1. /\ graphicsQueue_ \in Seq(Batch) /\ graphicsQueue_ # <<>>
        /\ graphicsQueue_' = Tail(graphicsQueue_) /\ begun \in Nat /\ begun' = begun - 1
    BY <1>4 DEF GpuComplete, ImagesInv, IInv, TypeOK
  <2>2. \A t \in Slots : renderSemaphore_'[t] <=> renderSemaphore_[t] \/ t = graphicsQueue_[1].by
    BY <1>4 DEF GpuComplete
  <2>3. /\ 1 \in DOMAIN graphicsQueue_
        /\ \A i \in DOMAIN graphicsQueue_' :
             i \in Nat \ {0} /\ i + 1 \in DOMAIN graphicsQueue_ /\ graphicsQueue_'[i] = graphicsQueue_[i + 1]
    BY <2>1, TailShifts
  <2>4. \A i \in DOMAIN graphicsQueue_' :
          graphicsQueue_'[i].by # graphicsQueue_[1].by /\ (i <= begun' => i + 1 <= begun)
    BY <2>1, <2>3 DEF ImagesInv, IInv, OneBatchEach
  <2> QED
    BY <2>2, <2>3, <2>4 DEF RunningUnsignalled
<1>5. CASE PresentWait
  <2>1. /\ UNCHANGED <<graphicsQueue_, begun>>
        /\ \A t \in Slots : renderSemaphore_'[t] => renderSemaphore_[t]
    BY <1>5 DEF PresentWait, queueVars, ImagesInv, IInv, TypeOK
  <2> QED
    BY <2>1 DEF RunningUnsignalled
<1>6. \/ UNCHANGED <<graphicsQueue_, begun, renderSemaphore_>>
      \/ Submit \/ ImmediateSubmit \/ GpuBegin \/ GpuComplete \/ PresentWait
  BY DEF Next, Draw, DrawStep, WaitForFences, ResetFences, AcquireNextImage, Record, Present,
         ImmediateReset, ImmediateStep, ImmediateWait, DeviceWaitIdle, Destroy, VkCheckFails,
         AcquireSignal, Display, VBlank, ScanoutEnds, Terminated, vars, syncVars, queueVars
<1> QED
  BY <1>1, <1>2, <1>3, <1>4, <1>5, <1>6

(* A batch that runs signals a renderSemaphore_ that is free, provided the *)
(* driver takes a present before it starts what was submitted after it, or *)
(* the swapchain has no more images than frames_ has slots.                *)
THEOREM RenderSemaphoresAreFree ==
  ASSUME OrderedOrFew
  PROVE  Spec => []RenderSemaphoreFree
<1>1. Init => RunningUnsignalled /\ RingInv
  BY DEF Init, RunningUnsignalled, RingInv
<1>2. ImagesInv /\ RingInv /\ RunningUnsignalled /\ [Next]_vars => RunningUnsignalled' /\ RingInv'
  BY NextKeepsUnsignalled, NextKeepsRing
<1>3. ImagesInv /\ RunningUnsignalled => RenderSemaphoreFree
  <2> SUFFICES ASSUME ImagesInv, RunningUnsignalled, NEW b \in Running, b.by \in Slots
               PROVE  ~renderSemaphore_[b.by]
    BY DEF RenderSemaphoreFree
  <2>1. PICK i \in DOMAIN graphicsQueue_ : i <= begun /\ b = graphicsQueue_[i]
    BY DEF Running, ImagesInv, IInv, TypeOK
  <2> QED
    BY <2>1 DEF RunningUnsignalled
<1> QED
  BY <1>1, <1>2, <1>3, ImagesInvariance, PTL DEF Spec

-------------------------------------------------------------------------------
(* What cleanup() finds when the queue is empty.                           *)

(* A present whose batch has completed finds its semaphore signalled ...   *)
PresentHasSignal ==
  /\ \A k \in DOMAIN presentQueue :
       Queued(presentQueue[k]) \/ renderSemaphore_[presentQueue[k].by]
  /\ pc = "present" => Queued(ThisFrame) \/ renderSemaphore_[get_current_frame]

(* ... and the signal is not for an earlier present of the slot: while one *)
(* waits, the later frame's batch is still queued.                         *)
SignalForOne ==
  /\ \A k, l \in DOMAIN presentQueue :
       l < k /\ presentQueue[l].by = presentQueue[k].by => Queued(presentQueue[k])
  /\ \A l \in DOMAIN presentQueue :
       pc = "present" /\ presentQueue[l].by = get_current_frame => Queued(ThisFrame)

SignalInv == PresentHasSignal /\ SignalForOne

(* A queued batch of the slot of a present whose batch has completed finds *)
(* the slot's semaphore signalled, so it cannot be running.                *)
LEMMA CompletesAlone ==
  ASSUME ImagesInv, RunningUnsignalled, SignalInv, GpuComplete,
         NEW l \in DOMAIN presentQueue, presentQueue[l].by = graphicsQueue_[1].by
  PROVE  presentQueue[l] = graphicsQueue_[1]
<1>1. 1 \in DOMAIN graphicsQueue_ /\ 1 <= begun
  BY DEF GpuComplete, ImagesInv, IInv, TypeOK
<1>2. presentQueue[l].by \in Slots
  BY PresentFrames
<1>3. ~renderSemaphore_[presentQueue[l].by]
  BY <1>1, <1>2 DEF RunningUnsignalled
<1>4. PICK i \in DOMAIN graphicsQueue_ : graphicsQueue_[i] = presentQueue[l]
  BY <1>3 DEF SignalInv, PresentHasSignal, Queued
<1> QED
  BY <1>1, <1>4 DEF ImagesInv, IInv, OneBatchEach

(* The batch that completes signals its slot's semaphore, and no present   *)
(* of the slot but its own waits.                                          *)
LEMMA GpuCompleteSignals ==
  ASSUME ImagesInv, RunningUnsignalled, SignalInv, GpuComplete
  PROVE  SignalInv'
<1>1. /\ graphicsQueue_ \in Seq(Batch) /\ graphicsQueue_ # <<>>
      /\ graphicsQueue_' = Tail(graphicsQueue_)
      /\ UNCHANGED <<pc, presentQueue>>
      /\ ThisFrame' = ThisFrame /\ get_current_frame' = get_current_frame
  BY DEF GpuComplete, engineVars, ThisFrame, get_current_frame, ImagesInv, IInv, TypeOK
<1>2. /\ 1 \in DOMAIN graphicsQueue_
      /\ \A i \in DOMAIN graphicsQueue_ :
           i # 1 => i - 1 \in DOMAIN graphicsQueue_' /\ graphicsQueue_'[i - 1] = graphicsQueue_[i]
  BY <1>1, TailShifts
<1>3. PICK b \in Batch : b = graphicsQueue_[1]
  BY <1>1, <1>2
<1>4. \A s \in Slots : renderSemaphore_'[s] <=> renderSemaphore_[s] \/ s = b.by
  BY <1>3 DEF GpuComplete
<1>5. /\ \A f : Queued(f) => f = b \/ Queued(f)'
      /\ Queued(ThisFrame) => ThisFrame = b \/ Queued(ThisFrame)'
  BY <1>1, <1>2, <1>3 DEF Queued
<1>6. \A l \in DOMAIN presentQueue : presentQueue[l].by = b.by => presentQueue[l] = b
  BY <1>3, CompletesAlone
<1>7. ThisFrame.by = get_current_frame /\ ThisFrame.image = swapchainImageIndex
      /\ get_current_frame \in Slots
  BY CurrentSlot DEF ThisFrame, ImagesInv, IInv
<1>8. ASSUME NEW k \in DOMAIN presentQueue, NEW f, f = presentQueue[k]
      PROVE  Queued(f)' \/ renderSemaphore_'[f.by]
  BY <1>4, <1>5, <1>8, PresentFrames DEF SignalInv, PresentHasSignal
<1>9. pc = "present" => Queued(ThisFrame)' \/ renderSemaphore_'[get_current_frame]
  BY <1>4, <1>5, <1>7 DEF SignalInv, PresentHasSignal
<1>10. ASSUME NEW k \in DOMAIN presentQueue, NEW l \in DOMAIN presentQueue, NEW f, f = presentQueue[k],
              l < k, presentQueue[l].by = f.by
       PROVE  Queued(f)'
  <2>1. Queued(f)
    BY <1>10 DEF SignalInv, SignalForOne
  <2>2. f # b
    <3> SUFFICES ASSUME f = b PROVE FALSE
      OBVIOUS
    <3>1. presentQueue[l] = presentQueue[k]
      BY <1>6, <1>10
    <3>2. l = k
      BY <3>1 DEF ImagesInv, PlaceInv, PresentsApart
    <3> QED
      BY <1>10, <3>2 DEF ImagesInv, IInv, TypeOK
  <2> QED
    BY <1>5, <2>1, <2>2
<1>11. ASSUME NEW l \in DOMAIN presentQueue, pc = "present", presentQueue[l].by = get_current_frame
       PROVE  Queued(ThisFrame)'
  <2>1. Queued(ThisFrame)
    BY <1>11 DEF SignalInv, SignalForOne
  <2>2. ThisFrame # b
    BY <1>6, <1>7, <1>11 DEF ImagesInv, PlaceInv, AcquiredNowhere, Presented
  <2> QED
    BY <1>5, <2>1, <2>2
<1>12. PresentHasSignal'
  BY <1>1, <1>8, <1>9 DEF PresentHasSignal, Queued
<1>13. SignalForOne'
  BY <1>1, <1>10, <1>11 DEF SignalForOne, Queued
<1> QED
  BY <1>12, <1>13 DEF SignalInv

(* The new present is that of the frame just submitted.                    *)
LEMMA PresentSignals ==
  ASSUME ImagesInv, SignalInv, Present
  PROVE  SignalInv'
<1>1. /\ pc = "present" /\ pc' = "idle"
      /\ presentQueue' = Append(presentQueue, ThisFrame)
      /\ UNCHANGED <<graphicsQueue_, renderSemaphore_>>
  BY DEF Present, At, syncVars, queueVars
<1>2. /\ ThisFrame \in Frame /\ presentQueue \in Seq(Frame) /\ ThisFrame.by = get_current_frame
  BY <1>1, CurrentSlot DEF ThisFrame, Frame, ImagesInv, IInv, IndexAcquired, TypeOK
<1>3. PICK n, f : /\ n = Len(presentQueue) + 1 /\ f = ThisFrame
                  /\ DOMAIN presentQueue' = DOMAIN presentQueue \cup {n}
                  /\ \A k \in DOMAIN presentQueue : presentQueue'[k] = presentQueue[k] /\ k < n /\ ~(n < k)
                  /\ presentQueue'[n] = f /\ ~(n < n)
  BY <1>1, <1>2, AppendedLast
<1>4. \A g : Queued(g)' <=> Queued(g)
  BY <1>1 DEF Queued
<1>5. PresentHasSignal'
  BY <1>1, <1>2, <1>3, <1>4 DEF SignalInv, PresentHasSignal, Queued
<1>6. SignalForOne'
  BY <1>1, <1>2, <1>3, <1>4 DEF SignalInv, SignalForOne, Queued
<1> QED
  BY <1>5, <1>6 DEF SignalInv

(* The oldest present takes a signal that is for no later one.             *)
LEMMA PresentWaitSignals ==
  ASSUME ImagesInv, SignalInv, PresentWait
  PROVE  SignalInv'
<1>1. /\ presentQueue \in Seq(Frame) /\ presentQueue # <<>>
      /\ presentQueue' = Tail(presentQueue)
      /\ UNCHANGED <<pc, graphicsQueue_>>
      /\ ThisFrame' = ThisFrame /\ get_current_frame' = get_current_frame
  BY DEF PresentWait, engineVars, queueVars, ThisFrame, get_current_frame, ImagesInv, IInv, TypeOK
<1>2. /\ 1 \in DOMAIN presentQueue /\ Head(presentQueue) = presentQueue[1]
      /\ \A k \in DOMAIN presentQueue' :
           k \in Nat \ {0} /\ k + 1 \in DOMAIN presentQueue /\ presentQueue'[k] = presentQueue[k + 1]
  BY <1>1, TailShifts
<1>3. \A s \in Slots : renderSemaphore_[s] /\ s # presentQueue[1].by => renderSemaphore_'[s]
  BY <1>2 DEF PresentWait, ImagesInv, IInv, TypeOK
<1>4. \A f : Queued(f)' <=> Queued(f)
  BY <1>1 DEF Queued
<1>5. ASSUME NEW k \in DOMAIN presentQueue', NEW f, f = presentQueue'[k]
      PROVE  Queued(f) \/ renderSemaphore_'[f.by]
  <2>1. k + 1 \in DOMAIN presentQueue /\ f = presentQueue[k + 1] /\ 1 < k + 1
    BY <1>2, <1>5
  <2>2. f.by = presentQueue[1].by => Queued(f)
    BY <1>2, <2>1 DEF SignalInv, SignalForOne
  <2> QED
    BY <1>3, <2>1, <2>2, PresentFrames DEF SignalInv, PresentHasSignal
<1>6. pc = "present" => Queued(ThisFrame) \/ renderSemaphore_'[get_current_frame]
  BY <1>2, <1>3, CurrentSlot DEF SignalInv, PresentHasSignal, SignalForOne, ImagesInv, IInv
<1>7. ASSUME NEW k \in DOMAIN presentQueue', NEW l \in DOMAIN presentQueue', NEW f, f = presentQueue'[k],
             l < k, presentQueue'[l].by = f.by
      PROVE  Queued(f)
  <2>1. l + 1 < k + 1
    BY <1>2, <1>7
  <2> QED
    BY <1>2, <1>7, <2>1 DEF SignalInv, SignalForOne
<1>8. PresentHasSignal'
  BY <1>1, <1>4, <1>5, <1>6 DEF PresentHasSignal, Queued
<1>9. SignalForOne'
  BY <1>1, <1>2, <1>4, <1>7 DEF SignalInv, SignalForOne, Queued
<1> QED
  BY <1>8, <1>9 DEF SignalInv

(* Every step keeps the invariant, as long as a running batch finds its    *)
(* renderSemaphore_ free.                                                  *)
LEMMA NextKeepsSignals ==
  ImagesInv /\ RunningUnsignalled /\ SignalInv /\ [Next]_vars => SignalInv'
<1> SUFFICES ASSUME ImagesInv, RunningUnsignalled, SignalInv, [Next]_vars PROVE SignalInv'
  OBVIOUS
<1>1. CASE /\ UNCHANGED <<graphicsQueue_, presentQueue, renderSemaphore_>>
           /\ pc' # "present" \/ UNCHANGED <<pc, frameNumber_, swapchainImageIndex>>
  <2>1. \A f : Queued(f)' <=> Queued(f)
    BY <1>1 DEF Queued
  <2>2. pc' = "present" => pc = "present" /\ ThisFrame' = ThisFrame /\ get_current_frame' = get_current_frame
    BY <1>1 DEF ThisFrame, get_current_frame
  <2> QED
    BY <1>1, <2>1, <2>2 DEF SignalInv, PresentHasSignal, SignalForOne, Queued
<1>2. CASE Submit \/ ImmediateSubmit
  <2>1. PICK b \in Batch : graphicsQueue_' = Append(graphicsQueue_, b) /\ (Submit => b = ThisFrame)
    BY <1>2, CurrentSlot
    DEF Submit, ImmediateSubmit, At, ThisFrame, Batch, Submitters, ImagesInv, IInv, TypeOK
  <2>2. /\ DOMAIN graphicsQueue_' = DOMAIN graphicsQueue_ \cup {Len(graphicsQueue_) + 1}
        /\ \A i \in DOMAIN graphicsQueue_ : graphicsQueue_'[i] = graphicsQueue_[i]
        /\ graphicsQueue_'[Len(graphicsQueue_) + 1] = b
    BY <2>1, AppendedLast DEF ImagesInv, IInv, TypeOK
  <2>3. /\ \A f : Queued(f) => Queued(f)'
        /\ Queued(b)'
    BY <2>2 DEF Queued
  <2>4. /\ UNCHANGED <<presentQueue, renderSemaphore_>>
        /\ pc' = "present" => Submit /\ ThisFrame' = ThisFrame
    BY <1>2 DEF Submit, ImmediateSubmit, syncVars, presentVars, ThisFrame, get_current_frame
  <2>5. pc' = "present" => Queued(ThisFrame)'
    BY <2>1, <2>3, <2>4
  <2>6. \A k \in DOMAIN presentQueue : Queued(presentQueue[k]) => Queued(presentQueue[k])'
    BY <2>2, <2>4 DEF Queued
  <2> QED
    BY <2>4, <2>5, <2>6 DEF SignalInv, PresentHasSignal, SignalForOne
<1>3. CASE GpuComplete
  BY <1>3, GpuCompleteSignals
<1>4. CASE Present
  BY <1>4, PresentSignals
<1>5. CASE PresentWait
  BY <1>5, PresentWaitSignals
<1>6. CASE Draw \/ WaitForFences \/ ResetFences \/ AcquireNextImage \/ Record \/ ImmediateReset
             \/ ImmediateWait \/ DeviceWaitIdle \/ Destroy \/ VkCheckFails
  BY <1>1, <1>6
  DEF Draw, WaitForFences, ResetFences, AcquireNextImage, Record, ImmediateReset, ImmediateWait,
      DeviceWaitIdle, Destroy, VkCheckFails, syncVars, queueVars, presentVars
<1>7. CASE GpuBegin \/ (\E s \in Slots : AcquireSignal(s)) \/ VBlank
             \/ (\E i \in Images : ScanoutEnds(i)) \/ UNCHANGED vars
  BY <1>1, <1>7
  DEF GpuBegin, AcquireSignal, VBlank, ScanoutEnds, vars, engineVars, syncVars, queueVars, presentVars
<1> QED
  BY <1>2, <1>3, <1>4, <1>5, <1>6, <1>7 DEF Next, DrawStep, ImmediateStep, Display, Terminated

(* When cleanup() destroys fences and semaphores, vkDeviceWaitIdle having  *)
(* waited for the queue and for nothing else, no fence and no acquire is   *)
(* still to signal, and every present that is left has been given its      *)
(* signal and a finished frame; whenever renderSemaphore_ is free for the  *)
(* batch that signals it.                                                  *)
THEOREM SettledWhenDestroyed ==
  ASSUME OrderedOrFew
  PROVE  Spec => []SettledAtDestroy
<1>1. Init => RunningUnsignalled /\ RingInv /\ SignalInv /\ QuietInv
  BY DEF Init, RunningUnsignalled, RingInv, SignalInv, PresentHasSignal, SignalForOne, QuietInv
<1>2. ImagesInv /\ RingInv /\ RunningUnsignalled /\ SignalInv /\ QuietInv /\ [Next]_vars =>
        RunningUnsignalled' /\ RingInv' /\ SignalInv' /\ QuietInv'
  BY NextKeepsUnsignalled, NextKeepsRing, NextKeepsSignals, NextKeepsQuiet DEF ImagesInv
<1>3. ImagesInv /\ SignalInv /\ QuietInv => SettledAtDestroy
  <2> SUFFICES ASSUME ImagesInv, SignalInv, QuietInv, pc \in {"destroy", "stopped"}
               PROVE  /\ \A s \in Submitters : fence[s]
                      /\ \A s \in Slots : ~swapchainSemaphore_[s] /\ acquireSignal[s] = NoImage
                      /\ \A k \in DOMAIN presentQueue :
                           renderSemaphore_[presentQueue[k].by] /\ presentQueue[k].image \in rendered
    BY DEF SettledAtDestroy
  <2>1. DOMAIN graphicsQueue_ = {}
    BY DEF QuietInv
  <2>2. \A s \in Submitters : fence[s]
    BY <2>1 DEF ImagesInv, IInv, FenceNeverLost, Pending
  <2>3. \A s \in Slots : ~swapchainSemaphore_[s] /\ acquireSignal[s] = NoImage
    BY <2>1 DEF ImagesInv, IInv, SemaphoreHasTaker, AcquireOwed
  <2>4. \A f : ~Queued(f)
    BY <2>1 DEF Queued
  <2>5. \A k \in DOMAIN presentQueue :
          renderSemaphore_[presentQueue[k].by] /\ presentQueue[k].image \in rendered
    BY <2>4 DEF SignalInv, PresentHasSignal, ImagesInv, RenderInv, PresentHasFrame
  <2> QED
    BY <2>2, <2>3, <2>5
<1> QED
  BY <1>1, <1>2, <1>3, ImagesInvariance, PTL DEF Spec
===============================================================================
