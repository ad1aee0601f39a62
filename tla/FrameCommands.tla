---------------------------- MODULE FrameCommands ----------------------------
(***************************************************************************)
(* What the commands of a frame do (draw(), drawBackground(), draw_imgui() *)
(* and vk_images.cpp): which image each reads and writes, in which layout, *)
(* and what orders them on the GPU.                                        *)
(*                                                                         *)
(* Two frames may be in flight, and they share drawImage_.  The GPU        *)
(* executes commands in any order that the barriers, the semaphores and    *)
(* the pipeline stages these name allow.  FrameLoop takes a frame's batch  *)
(* as one piece of work: ExecutionIsSerial is why it may.                  *)
(*                                                                         *)
(* A command that meets an image in another layout than it names is        *)
(* undefined in Vulkan: it does its work, or what it leaves is Undefined.  *)
(* That a call of draw() fails is FrameLoop's; here every call succeeds.   *)
(***************************************************************************)
EXTENDS Naturals, Sequences

CONSTANTS
  FRAME_OVERLAP,      (* frames in flight *)
  ImageCount,         (* of ImGui's vertex buffers, vk_engine.cpp:537 *)
  Images,             (* of the swapchain *)
  DrawImage,          (* drawImage_ *)
  Effects,            (* indices of backgroundEffects_ *)
  Data,               (* what a ComputePushConstants may hold *)
  Undefined,
  NoUi                (* no user interface drawn since the last blit *)

ASSUME FrameOverlapAssumption == FRAME_OVERLAP \in Nat \ {0}
ASSUME ImageCountAssumption == ImageCount \in Nat \ {0}
ASSUME DrawImageAssumption == DrawImage \notin Images
ASSUME EffectsAssumption == 0 \in Effects
ASSUME ContentAssumption ==
  Undefined # NoUi /\ {Undefined, NoUi} \cap (Effects \X Data) = {}

VARIABLES
  \* the engine's thread
  crashed,
  currentBackgroundEffect_,
  backgroundEffects_, (* the data of each *)
  uiNext,             (* the vertex buffer ImGui uses next *)
  uiBuffer,           (* what the vertex buffers hold *)
  \* the GPU
  queue,              (* frames submitted and not completed, oldest first *)
  layout,             (* of each image *)
  content,            (* of each image: its background and its interface *)
  \* the presentation engine
  available,
  flipQueue,
  displayed,
  scanout,
  lenient,            (* external: commands do their work in any layout *)
  asked               (* ghost: the look last drawn for each image *)

uiVars == <<currentBackgroundEffect_, backgroundEffects_, uiNext, uiBuffer>>
imageVars == <<layout, content>>
ghostVars == <<lenient, asked>>
presentVars == <<available, flipQueue, displayed, scanout>>
vars == <<crashed, uiVars, queue, imageVars, presentVars, ghostVars>>

(* What a frame looks like: the effect drawn and its data.                 *)
Looks == (Effects \X Data) \cup {Undefined}

Garbage == [background |-> Undefined, ui |-> Undefined]

-------------------------------------------------------------------------------
(* The commands of a frame, in the order they are recorded.                *)

Layouts == {"UNDEFINED", "GENERAL", "TRANSFER_SRC", "TRANSFER_DST", "PRESENT_SRC"}

Stages == {"compute", "blit", "graphics"}

\* Mutant: transition_image waits for and holds up colour output only.
ColorOutputOnly == {"graphics"}

\* VK_PIPELINE_STAGE_2_ALL_COMMANDS_BIT, both masks of transition_image.
BarrierStages == Stages

(* A command waits for earlier ones of the stages "after", and later ones  *)
(* of the stages "before" wait for it, if it is a barrier or a semaphore   *)
(* operation; other commands wait for nothing but those.                   *)
Command(op, after, before) == [op |-> op, after |-> after, before |-> before]

transition_image(image, old, new) ==
  [op |-> "barrier", after |-> BarrierStages, before |-> BarrierStages,
   image |-> image, old |-> old, new |-> new]

\* Mutant: the submit is given no semaphore to wait for.
NoAcquireWait == Command("wait", {}, {})

\* Mutant: the submit's signal names no stage.
SignalAtOnce == Command("signal", {}, {})

(* The submit's wait is at colour output, its signal at ALL_GRAPHICS.      *)
AcquireWait == Command("wait", {}, {"graphics"})
RenderSignal == Command("signal", {"graphics"}, {})
Dispatch == Command("dispatch", {"compute"}, {"compute"})
copy_image_to_image == Command("blit", {"blit"}, {"blit"})
Rendering == Command("rendering", {"graphics"}, {"graphics"})

\* Mutant: the swapchain's image is not made a transfer destination.
WithoutTransferDst ==
  << AcquireWait,
     transition_image("swapchain", "UNDEFINED", "GENERAL"),
     Dispatch,
     transition_image("draw", "GENERAL", "TRANSFER_SRC"),
     copy_image_to_image,
     Rendering,
     transition_image("swapchain", "TRANSFER_DST", "PRESENT_SRC"),
     RenderSignal >>

Commands ==
  << AcquireWait,
     transition_image("swapchain", "UNDEFINED", "GENERAL"),
     Dispatch,
     transition_image("draw", "GENERAL", "TRANSFER_SRC"),
     transition_image("swapchain", "UNDEFINED", "TRANSFER_DST"),
     copy_image_to_image,
     Rendering,
     transition_image("swapchain", "TRANSFER_DST", "PRESENT_SRC"),
     RenderSignal >>

Places == DOMAIN Commands
IsSync(i) == Commands[i].op \in {"barrier", "wait", "signal"}

(* The pairs of commands, of one frame or of two, that are ordered if the  *)
(* first is earlier in the queue.  Signals are in the order submitted.     *)
Ordered ==
  { p \in Places \X Places :
      \/ Commands[p[1]].op = "signal" /\ Commands[p[2]].op = "signal"
      \/ /\ IsSync(p[1]) \/ IsSync(p[2])
         /\ Commands[p[1]].before \cap Commands[p[2]].after # {} }

(* The acquire's semaphore is signalled when the screen has read the image *)
(* for the last time; from the present on the screen may read it again.    *)
AcquireSignalled(f) == f.image \notin scanout \/ Len(Commands) \in f.done

Executed(f, i) == i \in f.done \/ (Commands[i].op = "wait" /\ AcquireSignalled(f))

(* The commands of the k-th frame that the GPU may execute now.            *)
Ready(k, i) ==
  /\ ~Executed(queue[k], i)
  /\ \A p \in Ordered : p[2] = i =>
       /\ p[1] < i => Executed(queue[k], p[1])
       /\ \A m \in 1 .. k - 1 : Executed(queue[m], p[1])

-------------------------------------------------------------------------------
(* After init(): the draw image is as vkCreateImage leaves it.             *)
Init ==
  /\ crashed = FALSE
  /\ currentBackgroundEffect_ = 0
  /\ backgroundEffects_ \in [Effects -> Data]
  /\ uiNext = 0
  /\ uiBuffer = [b \in 0 .. ImageCount - 1 |-> Undefined]
  /\ queue = <<>>
  /\ layout = [i \in Images \cup {DrawImage} |-> "UNDEFINED"]
  /\ content = [i \in Images \cup {DrawImage} |-> Garbage]
  /\ available = Images
  /\ flipQueue = <<>>
  /\ displayed = {}
  /\ scanout = {}
  /\ lenient \in BOOLEAN
  /\ asked = [i \in Images |-> Undefined]

Running == ~crashed

(* The widgets of run(): "selected" is taken before the slider moves the   *)
(* index, and the data fields edit what it refers to.                      *)
BuildUi ==
  /\ currentBackgroundEffect_' \in Effects
  /\ \E d \in Data :
       backgroundEffects_' = [backgroundEffects_ EXCEPT ![currentBackgroundEffect_] = d]

\* Mutant: the next buffer is not taken modulo their number.
EverNextBuffer == uiNext + 1
\* Mutant: ImGui is told of one image, and has one vertex buffer.
SameBuffer == uiNext

NextBuffer == (uiNext + 1) % ImageCount

(* One turn of run(): the widgets, then draw() records the commands for   *)
(* an acquired image and submits them, once a slot's fence is signalled.   *)
(* vkCmdPushConstants copies the effect's data into the command buffer;    *)
(* ImGui writes its vertices to the next of its buffers.                   *)
BuildUiAndDraw ==
  /\ Running
  /\ BuildUi
  /\ Len(queue) < FRAME_OVERLAP
  /\ LET look == <<currentBackgroundEffect_', backgroundEffects_'[currentBackgroundEffect_']>>
     IN  /\ \E i \in available :
              /\ queue' = Append(queue, [image |-> i, pushed |-> look, buffer |-> uiNext,
                                        done |-> {}])
              /\ available' = available \ {i}
              /\ asked' = [asked EXCEPT ![i] = look]
         /\ uiBuffer' = [uiBuffer EXCEPT ![uiNext] = look]
  /\ uiNext' = NextBuffer
  /\ UNCHANGED <<crashed, imageVars, flipQueue, displayed, scanout, lenient>>

(* An index typed into the slider is not clamped, and refers to no effect. *)
(* What the program does then is not modelled.                             *)
SliderOutOfRange ==
  /\ Running
  /\ crashed' = TRUE
  /\ UNCHANGED <<uiVars, queue, imageVars, presentVars, ghostVars>>

-------------------------------------------------------------------------------
(* The GPU executes command i of the k-th frame in the queue.              *)

Executes(k, i, op) ==
  /\ Running
  /\ Ready(k, i)
  /\ Commands[i].op = op
  /\ queue' = [queue EXCEPT ![k].done = @ \cup {i}]
  /\ UNCHANGED <<crashed, uiVars, ghostVars>>

(* What a command leaves, v if the image is in the layout it names.        *)
Outcome(image, named, v, otherwise) ==
  IF layout[image] = named \/ lenient THEN v ELSE otherwise

(* A transition from UNDEFINED, or from a layout the image is not in, need *)
(* not keep its contents.                                                  *)
ExecuteBarrier(k, i) ==
  LET image == IF Commands[i].image = "draw" THEN DrawImage ELSE queue[k].image IN
  /\ Executes(k, i, "barrier")
  /\ layout' = [layout EXCEPT ![image] = Commands[i].new]
  /\ content' = [content EXCEPT ![image] = Outcome(image, Commands[i].old, @, Garbage)]
  /\ UNCHANGED presentVars

windowExtent_ == [width |-> 1700, height |-> 900]

\* Mutant: the workgroups are counted rounding down.
FloorGroups(n) == n \div 16

\* ceil(n / 16.0)
Groups(n) == (n + 15) \div 16

(* Workgroups of 16 x 16 that reach the whole image write all of it; else  *)
(* some of what was there is left.                                         *)
Covered == \A n \in {windowExtent_.width, windowExtent_.height} : Groups(n) * 16 >= n

(* The descriptor names GENERAL for the draw image.                        *)
ExecuteDispatch(k, i) ==
  /\ Executes(k, i, "dispatch")
  /\ \E w \in {queue[k].pushed} \cup (IF Covered THEN {} ELSE {content[DrawImage].background}) :
       content' = [content EXCEPT ![DrawImage].background =
                     Outcome(DrawImage, "GENERAL", w, Undefined)]
  /\ UNCHANGED <<layout, presentVars>>

(* vkCmdBlitImage2 of the whole image.                                     *)
ExecuteBlit(k, i) ==
  LET blit == [background |-> content[DrawImage].background, ui |-> NoUi] IN
  /\ Executes(k, i, "blit")
  /\ content' = [content EXCEPT ![queue[k].image] =
                   Outcome(DrawImage, "TRANSFER_SRC",
                           Outcome(queue[k].image, "TRANSFER_DST", blit, Garbage), Garbage)]
  /\ UNCHANGED <<layout, presentVars>>

(* Given no clear value the attachment's load operation is LOAD: rendering *)
(* begins with what the image holds.                                       *)
attachment_info(image) == content[image].background

(* draw_imgui() draws the interface over it.                               *)
ExecuteRendering(k, i) ==
  LET image == queue[k].image
      drawn == [background |-> attachment_info(image), ui |-> uiBuffer[queue[k].buffer]]
  IN  /\ Executes(k, i, "rendering")
      /\ content' = [content EXCEPT ![image] =
                       Outcome(image, "COLOR_ATTACHMENT", drawn, Garbage)]
      /\ UNCHANGED <<layout, presentVars>>

(* renderSemaphore_ is signalled and the present takes it.                 *)
ExecuteSignal(k, i) ==
  /\ Executes(k, i, "signal")
  /\ flipQueue' = Append(flipQueue, queue[k].image)
  /\ UNCHANGED <<imageVars, available, displayed, scanout>>

Execute(k, i) ==
  \/ ExecuteBarrier(k, i) \/ ExecuteDispatch(k, i)
  \/ ExecuteBlit(k, i) \/ ExecuteRendering(k, i) \/ ExecuteSignal(k, i)

(* renderFence_ is signalled.                                              *)
Complete ==
  /\ Running
  /\ queue # <<>>
  /\ \A i \in Places : Executed(queue[1], i)
  /\ queue' = Tail(queue)
  /\ UNCHANGED <<crashed, uiVars, imageVars, presentVars, ghostVars>>

(* The screen, as in FrameLoop.                                            *)
VBlank ==
  /\ Running
  /\ flipQueue # <<>>
  /\ displayed' = {Head(flipQueue)}
  /\ flipQueue' = Tail(flipQueue)
  /\ scanout' = scanout \cup {Head(flipQueue)}
  /\ available' = available \cup displayed
  /\ UNCHANGED <<crashed, uiVars, queue, imageVars, ghostVars>>

ScanoutEnds ==
  /\ Running
  /\ \E i \in scanout \ displayed : scanout' = scanout \ {i}
  /\ UNCHANGED <<crashed, uiVars, queue, imageVars, available, flipQueue, displayed, ghostVars>>

Crashed == ~Running /\ UNCHANGED vars

Next ==
  \/ BuildUiAndDraw \/ SliderOutOfRange
  \/ \E k \in DOMAIN queue, i \in Places : Execute(k, i)
  \/ Complete
  \/ VBlank \/ ScanoutEnds
  \/ Crashed

Spec == Init /\ [][Next]_vars

-------------------------------------------------------------------------------
(* The types of the variables.                                             *)
TypeOK ==
  /\ crashed \in BOOLEAN
  /\ currentBackgroundEffect_ \in Effects
  /\ backgroundEffects_ \in [Effects -> Data]
  /\ uiNext \in 0 .. ImageCount - 1
  /\ uiBuffer \in [0 .. ImageCount - 1 -> Looks]
  /\ queue \in Seq([image : Images, pushed : Effects \X Data, buffer : 0 .. ImageCount - 1,
                    done : SUBSET Places])
  /\ layout \in [Images \cup {DrawImage} -> Layouts]
  /\ content \in [Images \cup {DrawImage} ->
                    [background : Looks, ui : Looks \cup {NoUi}]]
  /\ available \subseteq Images
  /\ flipQueue \in Seq(Images)
  /\ displayed \subseteq Images
  /\ scanout \subseteq Images
  /\ lenient \in BOOLEAN
  /\ asked \in [Images -> Looks]

Shown == displayed \cup { flipQueue[n] : n \in DOMAIN flipQueue }

(* Frames in flight share drawImage_ and blit it to different images: what *)
(* is shown has the background that draw() was asked for, with the effect  *)
(* and data of that moment, never another frame's (it may be Undefined, by *)
(* the layouts drawImage_ is used in).                                     *)
BackgroundIsOwn ==
  \A i \in Shown : content[i].background \in {asked[i], Undefined}

(* A frame's vertices are not overwritten by a later frame's before they   *)
(* are drawn: the interface shown is the frame's own, if there is one.     *)
UiIsOwn ==
  \A i \in Shown : content[i].ui \in {asked[i], Undefined, NoUi}

(* A frame's commands execute after all of the earlier frames': the queue  *)
(* executes batches one at a time, as FrameLoop has it.                    *)
ExecutionIsSerial ==
  \A k \in 2 .. Len(queue) :
    queue[k].done # {} =>
      \A i \in Places : Executed(queue[k - 1], i) \/ Commands[i].op = "signal"

(* No command writes an image of the swapchain, and no transition changes  *)
(* its layout, while the screen reads it: the acquire's semaphore is waited *)
(* for at colour output only, and the barriers hand the wait on.           *)
NoWriteWhileRead ==
  [][\A i \in scanout : content'[i] = content[i] /\ layout'[i] = layout[i]]_vars

(* The blit and the screen meet the images in the layouts they name.       *)
LayoutsAsNamed ==
  /\ \A i \in Shown : layout[i] = "PRESENT_SRC"
  /\ \A k \in DOMAIN queue, i \in Places :
       Commands[i].op = "blit" /\ Ready(k, i) =>
         layout[DrawImage] = "TRANSFER_SRC" /\ layout[queue[k].image] = "TRANSFER_DST"

-------------------------------------------------------------------------------
(* How many frames of a queue have signalled: they are its oldest.         *)
Signalled(q) ==
  CHOOSE n \in 0 .. Len(q) : \A k \in DOMAIN q : Len(Commands) \in q[k].done <=> k <= n

(* The looks drawn and not yet on the screen, oldest first: those of the   *)
(* images presented, then those of the frames that have not signalled.     *)
Pending ==
  [ n \in 1 .. Len(flipQueue) + (Len(queue) - Signalled(queue)) |->
      asked[ IF n <= Len(flipQueue)
             THEN flipQueue[n]
             ELSE queue[Signalled(queue) + (n - Len(flipQueue))].image ] ]

Only(S) == CHOOSE x \in S : TRUE
OnScreen == IF displayed = {} THEN Garbage ELSE content[Only(displayed)]

(* FrameCommands as a PictureShow.                                         *)
Show == INSTANCE PictureShow WITH
  Looks <- Effects \X Data, pending <- Pending, shown <- OnScreen

(* The looks asked for reach the screen in the order asked, one picture    *)
(* each: frames in flight, images that are used again, vertex buffers and  *)
(* a GPU that reorders commands do not show (vk_engine.cpp:77-144).        *)
ImplementsShow == Show!Spec
===============================================================================
