------------------------------ MODULE FrameLoop ------------------------------
(***************************************************************************)
(* The frame ring of VulkanEngine: draw() and immediateSubmit(), and the   *)
(* wait for the device in cleanup() (vk_engine.cpp), together with what    *)
(* they talk to: the graphics queue, which executes command buffers, and   *)
(* the presentation engine, which owns the swapchain's images.             *)
(*                                                                         *)
(* The engine's thread, the queue and the presentation engine run          *)
(* concurrently.  They are ordered only by                                 *)
(*   - renderFence_ / immFence_:  queue -> engine thread,                  *)
(*   - swapchainSemaphore_:  presentation engine -> queue,                 *)
(*   - renderSemaphore_:  queue -> presentation engine,                    *)
(* one of each per slot of frames_, and the slots are used in turn.        *)
(*                                                                         *)
(* The queue and the presentation engine are not in the repository: they   *)
(* are modelled from what draw() asks of them (external in the map).       *)
(***************************************************************************)
EXTENDS Naturals, Sequences

CONSTANTS
  FRAME_OVERLAP,        (* number of entries of frames_, vk_engine.h:49 *)
  FrameWrap,            (* frameNumber_ is counted modulo this (2^32 in the code) *)
  Images,               (* the images of the swapchain *)
  NoImage,              (* no image: an index never written *)
  Imm,                  (* stands for immCommandBuffer_ and immFence_ *)
  PresentInIssueOrder   (* TRUE: the driver takes a present's semaphore wait
                           before it starts any command buffer submitted after
                           that present; FALSE: it may take it later *)

Slots == 0 .. FRAME_OVERLAP - 1
Submitters == Slots \cup {Imm}

ASSUME FrameOverlapAssumption == FRAME_OVERLAP \in Nat \ {0}
ASSUME FrameWrapAssumption == FrameWrap \in Nat \ {0} /\ FrameWrap % FRAME_OVERLAP = 0
ASSUME NoImageAssumption == NoImage \notin Images
ASSUME ImmAssumption == Imm \notin Nat
ASSUME PresentOrderAssumption == PresentInIssueOrder \in BOOLEAN

VARIABLES
  \* the engine's thread
  pc,                   (* where it is: see the actions *)
  aborted,              (* a VK_CHECK failed and called abort() *)
  frameNumber_,
  swapchainImageIndex,  (* the local of draw() *)
  \* what frames_[s] (and the immediate-submit members) hold
  fence,                (* renderFence_ of a slot, immFence_ : signalled? *)
  swapchainSemaphore_,  (* of a slot: signalled? *)
  renderSemaphore_,     (* of a slot: signalled? *)
  mainCommandBuffer_,   (* of a slot: the image its commands blit to *)
  \* the graphics queue
  graphicsQueue_,       (* submitted and not completed, oldest first *)
  begun,                (* how many of those, from the head, have started *)
  \* the presentation engine
  available,            (* images it may hand out *)
  acquireSignal,        (* of a slot: the image whose release will signal its
                           swapchainSemaphore_, NoImage when none is owed *)
  presentQueue,         (* presents whose renderSemaphore_ wait is still ahead *)
  flipQueue,            (* images waiting for their turn on the screen (FIFO) *)
  displayed,            (* the image on the screen *)
  scanout,              (* images the screen may still be reading *)
  rendered              (* images with a finished frame in them *)

engineVars == <<pc, aborted, frameNumber_, swapchainImageIndex>>
syncVars == <<fence, swapchainSemaphore_, renderSemaphore_>>
queueVars == <<graphicsQueue_, begun>>
flipVars == <<flipQueue, displayed, scanout>>
presentVars == <<available, acquireSignal, presentQueue, flipVars, rendered>>
vars == <<engineVars, syncVars, mainCommandBuffer_, queueVars, presentVars>>

(* A batch: who submitted it and, as a ghost, the image it was recorded for; *)
(* a frame, as vkQueuePresentKHR is given it.                                *)
Batch == [by : Submitters, image : Images \cup {NoImage}]
Frame == [by : Slots, image : Images]

\* Index of get_current_frame(), vk_engine.h:98.
get_current_frame == frameNumber_ % FRAME_OVERLAP

At(label) == ~aborted /\ pc = label
Alive == ~aborted /\ pc # "stopped"

(* Who has a batch in the queue; the batches not started, and those started. *)
Pending == { graphicsQueue_[i].by : i \in DOMAIN graphicsQueue_ }
Waiting == { graphicsQueue_[i] : i \in (begun + 1) .. Len(graphicsQueue_) }
Running == { graphicsQueue_[i] : i \in 1 .. begun }

-------------------------------------------------------------------------------
\* Mutant: VK_FENCE_CREATE_SIGNALED_BIT is forgotten.
CreatedUnsignalled == [s \in Submitters |-> FALSE]

(* The fences are created signalled, so that each slot's first draw() does *)
(* not wait for a batch that was never submitted.                          *)
CreatedFences == [s \in Submitters |-> TRUE]

(* After init(): nothing is recorded, submitted or acquired.               *)
Init ==
  /\ pc = "idle"
  /\ aborted = FALSE
  /\ frameNumber_ = 0
  /\ swapchainImageIndex = NoImage
  /\ fence = CreatedFences
  /\ swapchainSemaphore_ = [s \in Slots |-> FALSE]
  /\ renderSemaphore_ = [s \in Slots |-> FALSE]
  /\ mainCommandBuffer_ = [s \in Slots |-> NoImage]
  /\ graphicsQueue_ = <<>>
  /\ begun = 0
  /\ available = Images
  /\ acquireSignal = [s \in Slots |-> NoImage]
  /\ presentQueue = <<>>
  /\ flipQueue = <<>>
  /\ displayed = NoImage
  /\ scanout = {}
  /\ rendered = {}

-------------------------------------------------------------------------------
(* draw(), one action per call that another party can run before or after. *)

Draw ==
  /\ At("idle")
  /\ pc' = "wait"
  /\ UNCHANGED <<aborted, frameNumber_, swapchainImageIndex, syncVars,
                 mainCommandBuffer_, queueVars, presentVars>>

\* Mutant: draw() does not wait.
NoFenceWait == TRUE

SlotFree == fence[get_current_frame]

(* Blocks until the slot's fence is signalled.  The flush of the slot's    *)
(* deletionQueue_ that follows is a no-op: nothing is ever pushed on it.   *)
WaitForFences ==
  /\ At("wait")
  /\ SlotFree
  /\ pc' = "reset"
  /\ UNCHANGED <<aborted, frameNumber_, swapchainImageIndex, syncVars,
                 mainCommandBuffer_, queueVars, presentVars>>

\* Mutant: the fences of all slots are reset.
AllFences == Slots

FencesToReset == {get_current_frame}

ResetFences ==
  /\ At("reset")
  /\ fence' = [s \in Submitters |-> fence[s] /\ s \notin FencesToReset]
  /\ pc' = "acquire"
  /\ UNCHANGED <<aborted, frameNumber_, swapchainImageIndex,
                 swapchainSemaphore_, renderSemaphore_, mainCommandBuffer_,
                 queueVars, presentVars>>

(* The presentation engine hands out any image that is not on the screen   *)
(* or on its way there.  It may still be reading it: swapchainSemaphore_   *)
(* is signalled when it is not.  Blocks while there is none.               *)
AcquireNextImage ==
  /\ At("acquire")
  /\ \E i \in available :
       /\ swapchainImageIndex' = i
       /\ available' = available \ {i}
       /\ rendered' = rendered \ {i}
       /\ acquireSignal' = [acquireSignal EXCEPT ![get_current_frame] = i]
  /\ pc' = "record"
  /\ UNCHANGED <<aborted, frameNumber_, syncVars, mainCommandBuffer_,
                 queueVars, presentQueue, flipVars>>

\* Mutant: the commands are never recorded.
NoRecording == mainCommandBuffer_[get_current_frame]
\* Mutant: a command buffer recorded once is not reset and recorded again.
FirstRecording ==
  IF mainCommandBuffer_[get_current_frame] = NoImage
  THEN swapchainImageIndex ELSE mainCommandBuffer_[get_current_frame]

(* The image the recorded commands blit the frame to.                      *)
Recording == swapchainImageIndex

(* Reset, begin, the commands that fill the acquired image, end.           *)
Record ==
  /\ At("record")
  /\ mainCommandBuffer_' = [mainCommandBuffer_ EXCEPT ![get_current_frame] = Recording]
  /\ pc' = "submit"
  /\ UNCHANGED <<aborted, frameNumber_, swapchainImageIndex, syncVars,
                 queueVars, presentVars>>

(* One record stands for the frame in the queue and in the present.        *)
ThisFrame == [by |-> get_current_frame, image |-> swapchainImageIndex]

Submit ==
  /\ At("submit")
  /\ graphicsQueue_' = Append(graphicsQueue_, ThisFrame)
  /\ pc' = "present"
  /\ UNCHANGED <<aborted, frameNumber_, swapchainImageIndex, syncVars,
                 mainCommandBuffer_, begun, presentVars>>

\* Mutant: frameNumber_ is not incremented.
SameFrameNumber == frameNumber_

NextFrameNumber == (frameNumber_ + 1) % FrameWrap

\* Mutant: frameNumber_ is incremented before the present, which then names
\* the next slot's renderSemaphore_.
IncrementThenPresent ==
  /\ At("present")
  /\ frameNumber_' = NextFrameNumber
  /\ presentQueue' = Append(presentQueue, [by |-> get_current_frame', image |-> swapchainImageIndex])
  /\ swapchainImageIndex' = NoImage
  /\ pc' = "idle"
  /\ UNCHANGED <<aborted, syncVars, mainCommandBuffer_, queueVars, available,
                 acquireSignal, flipVars, rendered>>

\* Mutant: the present waits for no semaphore.
PresentUnsynchronised ==
  /\ At("present")
  /\ flipQueue' = Append(flipQueue, swapchainImageIndex)
  /\ frameNumber_' = NextFrameNumber
  /\ swapchainImageIndex' = NoImage
  /\ pc' = "idle"
  /\ UNCHANGED <<aborted, syncVars, mainCommandBuffer_, queueVars, available,
                 acquireSignal, presentQueue, displayed, scanout, rendered>>

(* Queues the present and returns: the local swapchainImageIndex is gone.  *)
Present ==
  /\ At("present")
  /\ presentQueue' = Append(presentQueue, ThisFrame)
  /\ frameNumber_' = NextFrameNumber
  /\ swapchainImageIndex' = NoImage
  /\ pc' = "idle"
  /\ UNCHANGED <<aborted, syncVars, mainCommandBuffer_, queueVars, available,
                 acquireSignal, flipVars, rendered>>

-------------------------------------------------------------------------------
(* immediateSubmit(): a batch of its own, waited for before it returns.    *)

ImmediateReset ==
  /\ At("idle")
  /\ fence' = [fence EXCEPT ![Imm] = FALSE]
  /\ pc' = "immSubmit"
  /\ UNCHANGED <<aborted, frameNumber_, swapchainImageIndex,
                 swapchainSemaphore_, renderSemaphore_, mainCommandBuffer_,
                 queueVars, presentVars>>

ImmediateSubmit ==
  /\ At("immSubmit")
  /\ graphicsQueue_' = Append(graphicsQueue_, [by |-> Imm, image |-> NoImage])
  /\ pc' = "immWait"
  /\ UNCHANGED <<aborted, frameNumber_, swapchainImageIndex, syncVars,
                 mainCommandBuffer_, begun, presentVars>>

\* Mutant: immediateSubmit() returns without waiting.
NoImmediateWait == TRUE

ImmediateDone == fence[Imm]

ImmediateWait ==
  /\ At("immWait")
  /\ ImmediateDone
  /\ pc' = "idle"
  /\ UNCHANGED <<aborted, frameNumber_, swapchainImageIndex, syncVars,
                 mainCommandBuffer_, queueVars, presentVars>>

-------------------------------------------------------------------------------
(* Every Vulkan call above is under VK_CHECK: any result but VK_SUCCESS,   *)
(* VK_TIMEOUT and VK_SUBOPTIMAL_KHR included, ends the process.            *)
VkCheckFails ==
  /\ Alive
  /\ pc \notin {"idle", "destroy"}
  /\ aborted' = TRUE
  /\ UNCHANGED <<pc, frameNumber_, swapchainImageIndex, syncVars,
                 mainCommandBuffer_, queueVars, presentVars>>

\* Mutant: cleanup() does not wait for the device.
NoDeviceWait == TRUE

(* vkDeviceWaitIdle returns when the queue is empty; it promises nothing   *)
(* of the presentation engine's acquires and presents.                     *)
DeviceIdle == graphicsQueue_ = <<>>

(* cleanup(), called when run() has returned.                              *)
DeviceWaitIdle ==
  /\ At("idle")
  /\ DeviceIdle
  /\ pc' = "destroy"
  /\ UNCHANGED <<aborted, frameNumber_, swapchainImageIndex, syncVars,
                 mainCommandBuffer_, queueVars, presentVars>>

(* The destroy calls of cleanup(), of which EngineLifecycle has the order. *)
Destroy ==
  /\ At("destroy")
  /\ pc' = "stopped"
  /\ UNCHANGED <<aborted, frameNumber_, swapchainImageIndex, syncVars,
                 mainCommandBuffer_, queueVars, presentVars>>

-------------------------------------------------------------------------------
(* The graphics queue starts batches in submission order, each when its    *)
(* wait semaphore allows (which that consumes), and completes them in      *)
(* order: every command buffer starts and ends with a full barrier.        *)

PresentsTaken ==
  PresentInIssueOrder => \A i \in DOMAIN presentQueue : presentQueue[i] \in Waiting

GpuBegin ==
  /\ Alive
  /\ begun < Len(graphicsQueue_)
  /\ PresentsTaken
  /\ LET s == graphicsQueue_[begun + 1].by
     IN  /\ s \in Slots => swapchainSemaphore_[s]
         /\ swapchainSemaphore_' = [t \in Slots |-> swapchainSemaphore_[t] /\ t # s]
  /\ begun' = begun + 1
  /\ UNCHANGED <<engineVars, fence, renderSemaphore_, mainCommandBuffer_,
                 graphicsQueue_, presentVars>>

(* The submit's signals: the fence, and for a frame its renderSemaphore_.  *)
GpuComplete ==
  /\ Alive
  /\ begun > 0
  /\ LET s == graphicsQueue_[1].by
     IN  /\ fence' = [fence EXCEPT ![s] = TRUE]
         /\ renderSemaphore_' = [t \in Slots |-> renderSemaphore_[t] \/ t = s]
         /\ rendered' = IF s \in Slots THEN rendered \cup {mainCommandBuffer_[s]}
                                       ELSE rendered
  /\ graphicsQueue_' = Tail(graphicsQueue_)
  /\ begun' = begun - 1
  /\ UNCHANGED <<engineVars, swapchainSemaphore_, mainCommandBuffer_, available,
                 acquireSignal, presentQueue, flipVars>>

(* The acquired image is no longer read: its semaphore is signalled.       *)
AcquireSignal(s) ==
  /\ Alive
  /\ acquireSignal[s] # NoImage
  /\ acquireSignal[s] \notin scanout
  /\ swapchainSemaphore_' = [swapchainSemaphore_ EXCEPT ![s] = TRUE]
  /\ acquireSignal' = [acquireSignal EXCEPT ![s] = NoImage]
  /\ UNCHANGED <<engineVars, fence, renderSemaphore_, mainCommandBuffer_,
                 queueVars, available, presentQueue, flipVars, rendered>>

(* The oldest present takes its renderSemaphore_ and joins the FIFO.       *)
PresentWait ==
  /\ Alive
  /\ presentQueue # <<>>
  /\ LET p == Head(presentQueue)
     IN  /\ renderSemaphore_[p.by]
         /\ renderSemaphore_' = [renderSemaphore_ EXCEPT ![p.by] = FALSE]
         /\ flipQueue' = Append(flipQueue, p.image)
  /\ presentQueue' = Tail(presentQueue)
  /\ UNCHANGED <<engineVars, fence, swapchainSemaphore_, mainCommandBuffer_,
                 queueVars, available, acquireSignal, displayed, scanout, rendered>>

(* VK_PRESENT_MODE_FIFO_KHR: at each blank the next image takes the        *)
(* screen, and the one it replaces may be acquired again.                  *)
VBlank ==
  /\ Alive
  /\ flipQueue # <<>>
  /\ displayed' = Head(flipQueue)
  /\ flipQueue' = Tail(flipQueue)
  /\ scanout' = scanout \cup {Head(flipQueue)}
  /\ available' = available \cup ({displayed} \ {NoImage})
  /\ UNCHANGED <<engineVars, syncVars, mainCommandBuffer_, queueVars,
                 acquireSignal, presentQueue, rendered>>

ScanoutEnds(i) ==
  /\ Alive
  /\ i \in scanout
  /\ i # displayed
  /\ scanout' = scanout \ {i}
  /\ UNCHANGED <<engineVars, syncVars, mainCommandBuffer_, queueVars, available,
                 acquireSignal, presentQueue, flipQueue, displayed, rendered>>

(* cleanup() returned, or abort() was called: nothing more happens.        *)
Terminated == ~Alive /\ UNCHANGED vars

-------------------------------------------------------------------------------
DrawStep == WaitForFences \/ ResetFences \/ AcquireNextImage \/ Record \/ Submit \/ Present
ImmediateStep == ImmediateSubmit \/ ImmediateWait
Display == PresentWait \/ VBlank \/ \E i \in Images : ScanoutEnds(i)

Next ==
  \/ Draw \/ DrawStep
  \/ ImmediateReset \/ ImmediateStep
  \/ DeviceWaitIdle \/ Destroy
  \/ VkCheckFails
  \/ GpuBegin \/ GpuComplete
  \/ \E s \in Slots : AcquireSignal(s)
  \/ Display
  \/ Terminated

(* A call in progress goes on, the queue executes what it can and the      *)
(* screen keeps refreshing.  Nothing makes the caller draw again, and      *)
(* nothing makes a call fail.                                              *)
Fairness ==
  /\ WF_vars(DrawStep)
  /\ WF_vars(ImmediateStep)
  /\ WF_vars(Destroy)
  /\ WF_vars(GpuBegin)
  /\ WF_vars(GpuComplete)
  /\ \A s \in Slots : WF_vars(AcquireSignal(s))
  /\ WF_vars(PresentWait)
  /\ WF_vars(VBlank)
  /\ \A i \in Images : WF_vars(ScanoutEnds(i))

Spec == Init /\ [][Next]_vars
FairSpec == Spec /\ Fairness

-------------------------------------------------------------------------------
(* The types of the variables.                                             *)
TypeOK ==
  /\ pc \in {"idle", "wait", "reset", "acquire", "record", "submit", "present",
             "immSubmit", "immWait", "destroy", "stopped"}
  /\ aborted \in BOOLEAN
  /\ frameNumber_ \in 0 .. FrameWrap - 1
  /\ swapchainImageIndex \in Images \cup {NoImage}
  /\ fence \in [Submitters -> BOOLEAN]
  /\ swapchainSemaphore_ \in [Slots -> BOOLEAN]
  /\ renderSemaphore_ \in [Slots -> BOOLEAN]
  /\ mainCommandBuffer_ \in [Slots -> Images \cup {NoImage}]
  /\ graphicsQueue_ \in Seq(Batch)
  /\ begun \in 0 .. Len(graphicsQueue_)
  /\ available \subseteq Images
  /\ acquireSignal \in [Slots -> Images \cup {NoImage}]
  /\ presentQueue \in Seq(Frame)
  /\ flipQueue \in Seq(Images)
  /\ displayed \in Images \cup {NoImage}
  /\ scanout \subseteq Images
  /\ rendered \subseteq Images

(* What the engine's thread works on between the wait and the submit (the  *)
(* slot's fence, semaphores and command buffer) is not in use by a batch   *)
(* in the queue, and no slot has two batches there.                        *)
SlotExclusive ==
  /\ \A i, j \in DOMAIN graphicsQueue_ :
       graphicsQueue_[i].by = graphicsQueue_[j].by => i = j
  /\ pc \in {"reset", "acquire", "record", "submit"} => get_current_frame \notin Pending
  /\ pc \in {"idle", "immSubmit", "destroy"} => Imm \notin Pending

(* A fence that is not signalled has a batch that will signal it, in the   *)
(* queue or about to be submitted: no wait is for a fence nobody signals.  *)
FenceNeverLost ==
  \A s \in Submitters : ~fence[s] =>
    \/ s \in Pending
    \/ s = get_current_frame /\ pc \in {"acquire", "record", "submit"}
    \/ s = Imm /\ pc = "immSubmit"

(* vkAcquireNextImageKHR is given a semaphore that is neither signalled    *)
(* nor about to be (a batch that took it has started).                     *)
AcquireSemaphoreFree ==
  pc = "acquire" =>
    /\ ~swapchainSemaphore_[get_current_frame]
    /\ acquireSignal[get_current_frame] = NoImage

(* The queue executes a command buffer as it was recorded for that batch,  *)
(* and none is recorded again before its batch has completed.              *)
CommandBufferIntact ==
  \A i \in DOMAIN graphicsQueue_ :
    graphicsQueue_[i].by \in Slots =>
      mainCommandBuffer_[graphicsQueue_[i].by] = graphicsQueue_[i].image

(* No batch writes an image that the screen is still reading.              *)
NoTearing ==
  \A b \in Running : b.by \in Slots => mainCommandBuffer_[b.by] \notin scanout

(* What reaches the screen, or waits for it, is a finished frame.          *)
OnlyRenderedShown ==
  /\ displayed # NoImage => displayed \in rendered
  /\ \A i \in DOMAIN flipQueue : flipQueue[i] \in rendered

(* A batch that runs signals a renderSemaphore_ that is not signalled: the *)
(* present of the slot's earlier frame has taken it.                       *)
RenderSemaphoreFree ==
  \A b \in Running : b.by \in Slots => ~renderSemaphore_[b.by]

(* cleanup() waits for the device and destroys fences and semaphores       *)
(* (vk_engine.cpp:48-61), though that wait promises nothing of acquires    *)
(* and presents.  By then no fence is still to be signalled, no acquire    *)
(* will signal a semaphore or has signalled one nobody took, and a present *)
(* that is left waits for nothing: its signal is given, its frame finished.*)
SettledAtDestroy ==
  pc \in {"destroy", "stopped"} =>
    /\ \A s \in Submitters : fence[s]
    /\ \A s \in Slots : ~swapchainSemaphore_[s] /\ acquireSignal[s] = NoImage
    /\ \A k \in DOMAIN presentQueue :
         renderSemaphore_[presentQueue[k].by] /\ presentQueue[k].image \in rendered

(* A call of draw() or immediateSubmit() returns, unless a check fails.    *)
CallReturns == pc # "idle" ~> (aborted \/ pc \in {"idle", "stopped"})

(* A frame handed to vkQueuePresentKHR reaches the screen, unless the      *)
(* engine stops first.                                                     *)
PresentedIsShown ==
  \A s \in Slots, i \in Images :
    [by |-> s, image |-> i] \in { presentQueue[k] : k \in DOMAIN presentQueue }
      ~> (displayed = i \/ ~Alive)

(* FrameLoop is a FramePipeline: work finishes in submission order, a slot *)
(* is refilled only after its work finished, an orderly stop leaves none.  *)
(* A frame counts as submitted from vkQueueSubmit2, before frameNumber_    *)
(* is incremented.                                                         *)
Pipeline == INSTANCE FramePipeline WITH
  status   <- IF aborted THEN "aborted"
              ELSE IF pc \in {"destroy", "stopped"} THEN "stopped" ELSE "up",
  next     <- IF pc = "present" THEN (get_current_frame + 1) % FRAME_OVERLAP
                                ELSE get_current_frame,
  inFlight <- [i \in DOMAIN graphicsQueue_ |-> graphicsQueue_[i].by]

ImplementsPipeline == Pipeline!Spec
===============================================================================
