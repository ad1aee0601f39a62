# VoxelGame in TLA+

TLA+ models of the two parts of VoxelGame that have state worth checking: the Vulkan engine
(`src/engine/graphics/vulkan`, with `client_main.cpp` around it) and the socket library
(`src/engine/net`). `PROJECT.json` lists the runs, the mutants, the source lines each
definition stands for, the hazards and the theorems; this file explains them.

Running it: `tlc -config MCFrameLoop.cfg MCFrameLoop` and likewise for the other
configurations; `tlapm FrameLoop_proofs.tla`, and likewise for the other `_proofs` modules and
`QueueLemmas`, for the proofs.

## The system

| Component | State | Operations | Talks to |
|---|---|---|---|
| Frame ring (`vk_engine.cpp`: `draw`, `immediateSubmit`) | `frameNumber_`, per slot of `frames_` a fence, two semaphores, a command buffer; `immFence_`, `immCommandBuffer_` | wait, reset, acquire, record, submit, present; immediate submit and wait | the graphics queue and the presentation engine, which run concurrently and answer through fences and semaphores only |
| Run loop (`run`, `main`) | `bQuit`, `stopRendering_` | poll events, pause, draw, leave; then `cleanup` | SDL's event queue, the frame ring |
| Lifecycle (`init*`, `cleanup`, `DeletionQueue`) | every handle of `VulkanEngine`, `mainDeletionQueue_`, `loadedEngine`, `isInitialized_` | create, push a deletor, destroy, flush in reverse | Vulkan, VMA, vk-bootstrap, SDL, ImGui |
| `UdpSocket` | `socket_`, `maxBuf_`, `receiverInUse_` | create, move, destroy, bind, sendTo, receiveFrom, readable, writeable | the kernel, the network, other threads |
| `TcpSocket`, `AcceptedConnection` | the same, and `ownedSocket_` | create, move, destroy, connect, bindAndListen, accept, receive, read, send, write | the same; a connection uses the buffer and flag of its listener |
| Frame commands and image layouts (`drawBackground`, `draw_imgui`, `vk_images.cpp`) | the layout and contents of `drawImage_` and of each swapchain image; `backgroundEffects_`, `currentBackgroundEffect_`; ImGui's vertex buffers | the widgets; dispatch, blit, render, `transition_image` | the graphics queue, which executes a frame's commands in any order the barriers allow; the frame ring, whose frames share `drawImage_` |
| Descriptors | one pool, one layout, one set | initPool, allocate, reset, destroy | Vulkan, at start-up and at the end |
| Addresses, received bytes, Winsock start-up, shader loading, structure fillers | none or trivial | conversions and library calls | |
| Server | none: `main` is empty | | |

What is hard here: the engine's one thread, the queue and the screen are ordered only by
fences and semaphores, each reused every second frame; a call that blocks waits for another
party that may wait for it; any Vulkan call can fail at any time and ends the program; window
events arrive in the middle of draws; two frames in flight share one image and execute on a
queue that may reorder their commands; objects are destroyed by three different mechanisms;
socket objects share one receive buffer between threads, keep an atomic flag as their only
guard, and hand over raw handles when moved. The hazards, each at its line, are in
`PROJECT.json`.

What makes each part correct:

- frame ring: nothing the queue or the screen uses is touched (fence, semaphores, command
  buffer, image); every wait has somebody who ends it; frames are shown, finished and in order;
- commands: what is shown is the frame's own picture, whatever the queue reorders; no image is
  written while the screen reads it; images are in the layouts their readers name;
- run loop: the pause follows the window, a quit ends in one orderly cleanup;
- lifecycle: nothing is used before it exists or after it is gone, children go before parents,
  everything goes;
- sockets: one user of the buffer at a time, the data returned is the data received, one owner
  for every handle, termination only where the documentation announces it.

## The modules

**`FrameLoop`**: `draw()`, `immediateSubmit()` and the device wait of `cleanup()`. `pc` says
where the engine's thread is; there is one action per call that another party can run before
or after (`WaitForFences`, `ResetFences`, `AcquireNextImage`, `Record`, `Submit`, `Present`,
`ImmediateReset`, `ImmediateSubmit`, `ImmediateWait`, `DeviceWaitIdle`, `Destroy`).
`VkCheckFails` is the failure of any of those calls. What recorded commands do is reduced to
the image they write. The graphics queue (`GpuBegin`, `GpuComplete`) and the presentation
engine (`AcquireSignal`, `PresentWait`, `VBlank`, `ScanoutEnds`) are not in the repository and
are marked external: the queue starts and completes batches in submission order, since every
command buffer begins and ends with an all-commands barrier (`vk_images.cpp:4-30`), and the
swapchain is FIFO (`vk_engine.cpp:323`). `PresentInIssueOrder` is what a driver may or may not
do: take a present's semaphore before it starts a later batch.

**`FramePipeline`**: the abstract specification of the ring, without fences, semaphores or
images: slots are filled in turn, a slot is refilled only when its work is finished, work
finishes in order and does finish, an orderly stop leaves none. `FrameLoop` implements it
(`ImplementsPipeline`, the refinement mapping is at the end of `FrameLoop`).

**`RunLoop`** extends `FrameLoop` with `run()` and `main()`: it says when a draw starts and
when `cleanup()` is called; the draws themselves are `FrameLoop`'s actions. `WindowChanges`
is the user and the window system, at any moment, up to `MaxPosts` events. `immediateSubmit()`
has no caller in the program, so `RunLoop` does not call it; `FrameLoop` does.

**`EngineLifecycle`**: `init()` and `cleanup()` are sequences of steps (make, update, drop,
push, flush), translated function by function; the actions execute them. What is allocated or got
from an object (command buffers, the descriptor set, the swapchain's images, the queue) goes with
it (`Holder`). `Given` is what a call uses: the write of the descriptor set uses the draw image's view. A checked creation may fail
and ends the program; an unchecked one may fail and the program goes on with a handle to
nothing, and may end or go on whenever it uses it. `DeadLocal` is the deletor that reads dead
locals (`vk_engine.cpp:496`): its destructions hit their pipeline, or nothing, or end the
program (that garbage names another live object is left out).

**`FrameCommands`**: the commands of a frame as a sequence (`Commands`): the wait and the signal
of the submit, the four barriers, the dispatch, the blit and the rendering of the interface. A
barrier or semaphore orders the commands of the pipeline stages it names (`Ordered`); the queue
executes any command whose predecessors, in its own frame and in earlier ones, are done
(`Ready`). `content` is what an image shows: the effect and data (a "look") of its background and of
its interface. `BuildUiAndDraw` is a turn of `run()` up to the submit: the widgets set the effect
index and its data (the index after "selected" was taken, as in lines 187-197), and ImGui fills the
next of its vertex buffers. A command that meets an image in a layout it does not name does its work
or leaves the image undefined (`lenient`, external). An index typed into the slider out of range
ends the model (`SliderOutOfRange`). What `FrameLoop` has and this does not: fences, failures of
calls, `immediateSubmit()`. What it gives `FrameLoop`: the reason a batch may be taken as one
piece of work (`ExecutionIsSerial`).

**`PictureShow`**: the abstract specification of the commands, what `run()` promises whoever looks
at the screen. It has a queue of looks and the picture shown: `Draw` asks for a look, `Appear` shows
the next one. There are no frames in flight, no images that are used again, no barriers.
`FrameCommands` implements it (`ImplementsShow`): `Pending` is what was asked for the images
presented and then for the frames that have not signalled, `OnScreen` what the displayed image has.
A picture may lack its interface or be undefined, for the reasons under "Limits worth knowing".

**`SocketReceiver`**: what the three socket classes share, since `udp.cpp` and `tcp.cpp` have the
same code for it: objects that are created, moved into unused storage and destroyed by their
owner, never while a call on them is under way (C++ leaves that undefined); the process's heap and
the kernel's handles, both used again after they are released; and the receiving call, one action
per access to something shared: the exchange on the flag (`Exchange`), the kernel's write to the
buffer (`Recv`, `RecvFails`), the copy (`CopyOut`, or `CopyThrows` when there is no memory for it),
the store and the return (`StoreAndReturn`). `Guard` is the socket whose buffer and flag a call
uses: a connection's is its listener. `got` and `failed` are ghosts. The module has no
specification of its own; the next two extend each action with their variables.

**`UdpSocket`**: adds addresses, a network that loses, duplicates and reorders datagrams, and the
results that callers hold: what was received, the copy in the base class and the member that hides
it. `Mailbox` is its abstract specification: a call takes the oldest datagram of its handle and
returns it, in one step, or returns an error. `UdpSocket` implements it (`ImplementsMailbox`).

**`TcpSocket`**: adds listeners, the connections they accept, and peers that connect, send and
close. A peer's stream is a sequence of numbered chunks, and then its end; `ended` (a ghost) is
what calls have returned. `taken` and `reported` compare the bytes `::send` took with the messages reported as
sent. A listener may be moved while it has connections (their reads can then only fail) but is
destroyed after them. `connect()` may be called on a socket that a failed `bindAndListen()` left bound.
Sending to a peer that has closed may end the program (`BreaksPipe`: SIGPIPE, which nothing
handles).

## The runs

| Run | Instance | Shows |
|---|---|---|
| `frameloop` | 2 slots, 3 images, presents in issue order, fairness | `SlotExclusive`, `FenceNeverLost`, `AcquireSemaphoreFree`, `CommandBufferIntact`, `NoTearing`, `OnlyRenderedShown`, `SettledAtDestroy`; `CallReturns`, `PresentedIsShown`; `ImplementsPipeline` |
| `frameloop_latepresents` | 2 slots, 2 images, late presents | `RenderSemaphoreFree`: with as many images as slots even a late driver is never asked to signal a signalled semaphore |
| `framecommands` | 2 frames in flight, 3 images, 3 vertex buffers, 2 effects | `BackgroundIsOwn`, `UiIsOwn`, `ExecutionIsSerial`, `LayoutsAsNamed`, `NoWriteWhileRead`; `ImplementsShow` |
| `runloop` | 2 slots, 2 images, 3 events, fairness | `WindowKnown`, `DrawsAsLastPolled`, `CleanupAfterQuit`, `QuitStopsEngine`, `ShownKeepsDrawing` |
| `runloop_minimised` | the same | violated: `NoDrawWhileMinimised` |
| `lifecycle` | the one program, every failure | `UsesLive`, `ParentsOutlive`, `NothingLeft` |
| `udp` | 2 threads, 3 objects, 2 handles, 2 buffers, 2 addresses, 2 datagrams | `ExclusiveBuffer`, `ReturnedDatagramIntact`, `HandleOwnership`, `FlagHasHolder`, `ImplementsMailbox` |
| `udp_error` | the same | violated: `TerminatesOnlyOnOverlap` |
| `udp_shadow` | the same | violated: `CallerSeesDatagram` |
| `tcp` | 2 threads, 2 sockets, 2 connections, 3 handles, 2 buffers, 2 chunks a stream | `ExclusiveBuffer`, `StreamPreserved`, `HandleOwnership`, `FlagHasHolder` |
| `tcp_connections` | the same | violated: `TerminatesOnlyOnSameSocket` |
| `tcp_sends` | 1 thread, messages of 2 bytes | violated: `WritesAreWhole` |

The passing runs of `FrameLoop`, `FrameCommands`, `EngineLifecycle`, `UdpSocket` and `TcpSocket` also
check the module's type invariant; `RunLoop`'s is proved.

**The five disagreements.** (1) A receive that returns an error leaves `receiverInUse_` set, and
the next receive terminates the program though nobody else is receiving (`udp.cpp:35`,
`tcp.cpp:71` and `171`; against `udp.h:86-88`). (2) `ReceiveTransportBytes` hides the `bytes` and
`len` that were filled (`transport.h:60`; against `udp.h:79`). (3) Two threads that read two
connections of one listener terminate the program (`tcp.cpp:168`; against `tcp.h:108-110`).
(4) `run()` may draw while the window is minimised, because it knows only the events it has
polled (`vk_engine.cpp:175`; against the comment in line 174). (5) `send` and `write` report success
when the kernel took a part of the message (`tcp.cpp:60` and `185`; against `tcp.h:60-71`).

**Limits worth knowing.** `renderSemaphore_` belongs to a frame slot, not to an image. With
more images than slots and a driver that takes a present's semaphore late
(`PresentInIssueOrder = FALSE`, three images), TLC finds `RenderSemaphoreFree` violated: no
fence the engine waits for says that the present has taken the semaphore. Nothing in the
repository promises otherwise, so this is a hazard and not a run.

`cleanup()` destroys semaphores after `vkDeviceWaitIdle` (`vk_engine.cpp:48-54`), which promises
nothing of presents: one may still have to take its semaphore when that is destroyed, and the model
reaches such states. `SettledAtDestroy` says what the code does ensure: no fence is still to be
signalled, no acquire is outstanding, and such a present has its signal and its finished frame.

`drawImage_` is never transitioned to the layout the dispatch names, and the swapchain's image not
to the one the interface is rendered in; on a driver that minds, the background or everything is
undefined. `BackgroundIsOwn` and `UiIsOwn` therefore allow `Undefined`, and no more. Nothing orders
the interface after the blit (`vk_engine.cpp:112`): a frame may be shown without one, never with
another frame's. The swapchain's image is protected while the screen reads it by a chain: the
submit waits at colour output, and the first barrier waits for all stages, colour output included.

### Bounds

- `FRAME_OVERLAP = 2` is the code's own value. `FrameWrap` (2 or 4) makes `frameNumber_` wrap,
  as it does at 2^32; it must be a multiple of the slots. With two images both slots compete
  for images and the acquire blocks; with three, one image is on the screen, one waits and one
  is drawn. Nothing in the ring depends on more: the queue never holds more than one batch per
  slot and the immediate one, by `SlotExclusive`.
- `FrameCommands`: the ring of vertex buffers needs one more buffer than frames in flight to be
  wrong in one step and right in the code; three images let one be shown, one wait and one be
  written. Two looks (effects with one data each) tell a frame's picture from another's.
- `MaxPosts = 3` is enough to minimise, restore and quit, in any order and at any moment.
- Two threads are what a flag of one bit can confuse; a third is terminated like the second.
  Three UDP objects over two handles and buffers allow a move and a reuse of what was released,
  two addresses let two sockets receive at a time;
  two TCP connections of one listener share its buffer, with a second socket to move the
  listener to. Two datagrams or two chunks tell an overwritten, reordered or repeated one apart.
  `MaxInbox` and `MaxSent` bound the kernel's queue and what is sent, `MaxWrites` the messages
  handed to `send` and `write` (one byte each in `tcp`, two in `tcp_sends`).
- Symmetry is used only in runs without liveness properties, over sets of values that are
  compared and nothing else.

### Fairness

`FairSpec` assumes that the engine's thread goes on with the call it is in unless the call
blocks, that the queue executes what it can, that an acquire's semaphore is signalled once the
image is no longer read, that presents are taken, and that the screen keeps refreshing. These
are weak fairness on actions that stay enabled until taken. Nobody is assumed to call `draw()`
again, except in `RunLoop`, where the one thread of the program goes on by itself; the user
does nothing for sure, and no call is assumed to succeed (every liveness property allows for
the abort of `VK_CHECK`). `FramePipeline` asks fairness of `Finish` only.

## The proofs

Every theorem below holds for every value of the constants that satisfies the modules' ASSUMEs:
any number of slots, images, frames in flight, effects, vertex buffers, threads, objects, handles,
buffers and messages. Each is proved from an inductive invariant (the property conjoined with what
it needs), one lemma per action or group of actions that leaves the same state alone; TLC checked
each invariant on the instance of the component's run first. `QueueLemmas` has the facts about
queues and remainders that several of these proofs use.

| Module | Theorems | Properties of the runs |
|---|---|---|
| `FrameLoop_proofs` | `Invariance`, `TypeCorrect`, `SlotsAreExclusive`, `FencesAreNeverLost`, `AcquireSemaphoresAreFree`, `CommandBuffersAreIntact`, `RefinesPipeline`, `ImagesInvariance`, `ShownFramesAreFinished`, `FramesDoNotTear`, `RenderSemaphoresAreFree`, `SettledWhenDestroyed` | `TypeOK`, `SlotExclusive`, `FenceNeverLost`, `AcquireSemaphoreFree`, `CommandBufferIntact`, `OnlyRenderedShown`, `NoTearing`, `RenderSemaphoreFree`, `SettledAtDestroy` |
| `RunLoop_proofs` | `RunUsesRing`, `RunInvariance`, `RunTypeCorrect`, `WindowIsKnown`, `CleanupComesLast`, `DrawsOnlyWhenShown` | `WindowKnown`, `CleanupAfterQuit`, `DrawsAsLastPolled` |
| `FrameCommands_proofs` | `OrderInvariance`, `CommandsTypeCorrect`, `FramesExecuteSerially`, `ScreenReadsInPeace`, `LayoutsMeetTheirUse`, `BackgroundsAreOwn`, `InterfacesAreOwn`, `RefinesShow` | `TypeOK`, `ExecutionIsSerial`, `NoWriteWhileRead`, `LayoutsAsNamed`, `BackgroundIsOwn`, `UiIsOwn`, `ImplementsShow` |
| `EngineLifecycle_proofs` | `Inductive`, `EngineTypeCorrect`, `NothingDangles`, `OwnersOutlive`, `CleanupIsComplete` | `TypeOK`, `UsesLive`, `ParentsOutlive`, `NothingLeft` |
| `SocketReceiver_proofs` | (the lemmas the next two share) | |
| `UdpSocket_proofs` | `Invariance`, `TypeCorrect`, `BuffersAreExclusive`, `HandlesHaveOneOwner`, `FlagsHaveHolders`, `DatagramsAreIntact`, `RefinesMailbox` | `TypeOK`, `ExclusiveBuffer`, `HandleOwnership`, `FlagHasHolder`, `ReturnedDatagramIntact`, `ImplementsMailbox` |
| `TcpSocket_proofs` | `Invariance`, `TypeCorrect`, `BuffersAreExclusive`, `HandlesHaveOneOwner`, `FlagsHaveHolders`, `StreamsArePreserved` | `TypeOK`, `ExclusiveBuffer`, `HandleOwnership`, `FlagHasHolder`, `StreamPreserved` |

### The frame ring

`SlotExclusive` holds because a batch is appended only when its slot is not queued, which is known
from the fence: a signalled fence means no queued batch (`QueuedUnsignalled`), a reset fence stays
reset until the submit (`FenceReset`), and between the wait and the submit nobody else queues the
slot (`SlotIdle`; `ImmediateIdle` for the immediate batch). `AcquireSemaphoreFree` needs that a
signalled or owed `swapchainSemaphore_` has a batch that has not started and will take it
(`SemaphoreHasTaker`): when the slot is not queued there is none. `CommandBufferIntact` needs that
the recorded image is the acquired one (`IndexAcquired`). Their conjunction is `IInv`.

`ImagesInv` adds where the images are. `PlaceInv`: each is available, acquired, presented, waiting
for the screen or shown, and in one of these once. `RenderInv`: a queued frame has a present,
and a presented image is rendered or its batch is still queued; a signalled `renderSemaphore_` has
a present that will take it, and that one is of an earlier frame than any batch still queued, so a
present is taken when its own rendering has signalled. `ScanInv`: an acquire's semaphore is
signalled for the image acquired with it, and only when the screen no longer reads it, so a batch
that runs writes an image that is not read.

`RenderSemaphoresAreFree` assumes `OrderedOrFew`: presents are taken in the order they were issued,
or there are no more images than slots. Without it the property is false (see the limits above).
In the second case the argument counts: the waiting presents are those of consecutive frames
(`RingInv`), two of one slot are a full turn of the ring apart, and a full turn of presents with
the batch that runs has more images than there are.

`SettledWhenDestroyed` has the same assumption. `vkDeviceWaitIdle` waits for the queue's batches
(`DeviceIdle`) and says nothing of fences, acquires or presents. With the queue empty every fence is
signalled (`FencesAreNeverLost`), and a signalled or owed `swapchainSemaphore_` would have a batch
that will take it. For the presents `SignalInv` is needed: each present has its `renderSemaphore_`
signalled or its batch still queued (`PresentHasSignal`), and of two presents of one slot the later
one's batch is still queued (`SignalForOne`), so no signal counts for two.

`RefinesPipeline` is the safety part of `ImplementsPipeline`: the ring's steps are the pipeline's
or stutters, since slots are in the queue in the order of their submission.

### The run loop

`RunUsesRing`: every step of the program is one of `FrameLoop`'s, or leaves the ring alone, so what
is proved of the ring holds of the program. `WindowKnown` is not inductive: it says nothing while
events wait. `WindowWillBeKnown` does. An event agrees with the window (`Agrees`) when it is no quit
and leaves `stopRendering_` as the window is; after every waiting event that does not agree there is
one that does, and if `stopRendering_` itself is wrong one that agrees waits. `WindowKnown` is the
case of an empty queue; `DrawsAsLastPolled` is the last part, for a draw that starts while minimised,
with any other events in the queue. `CleanupLast` gives `CleanupAfterQuit`, with `QuietInv`.

### The commands

`OrderInv` is what the barriers achieve. In a frame the commands execute in the order recorded but
for the blit and the rendering (`DoneInOrder`), and a frame begins when the one before it has
only its signal left (`Serial`): the first barrier of a frame waits for the last of the frame before,
and everything else in the frame waits for that first barrier. A frame whose first barrier has
executed has an image the screen does not read (`Unread`), because that barrier waits for the colour
output stage, which waits for the acquire. Each swapchain image is with a frame, presented, shown or
available (`HeldApart`, `ShownApart`). `ExecutionIsSerial` and `NoWriteWhileRead` follow.

`BackgroundInv`: between its dispatch and its blit a frame's background is in `drawImage_`. By
`Serial` no other frame is between these two commands, which is why one draw image serves any number
of frames. `LayoutInv` says which transition last touched each image. `VertexInv`: the buffers of
the frames in flight are consecutive in ImGui's ring, so a new frame's is none of theirs as long as
there are as many buffers as frames in flight: `InterfacesAreOwn` assumes
`FRAME_OVERLAP <= ImageCount`, which the code's 2 and 3 satisfy (`vk_engine.h:49`,
`vk_engine.cpp:537`). With one buffer for two frames TLC finds `UiIsOwn` violated: it is the
mutant of that property.

`RefinesShow` needs two facts more (`ScreenInv`). The frames that have signalled are the oldest of the
queue, because semaphore signals happen in the order of submission, so images are presented in the
order they were drawn in. One image at most is displayed, and the screen reads it, so by
`NoWriteWhileRead` what is on the screen stays while commands of other frames execute. Then the
commands and the completions are stutters; a signal is one too, since it moves its image from one
part of `Pending` to the end of the other, before it; `BuildUiAndDraw` appends a look, and `VBlank`
takes the first, which `BackgroundInv` and `VertexInv` say is what the image has.

### Start-up and clean-up

`init()` and `cleanup()` are one program of 77 steps: 49 of `init()` and 28 of `cleanup()`, whose
flush of the deletion queue (step 58) is followed by the 12 destructions of the deletors. Two tables
give each object the step that makes it and the step that destroys it (`MadeAt`, `GoneAt`), a third
each deletor the step that pushes it (`PushAt`). `IInv` says that at some step `t` what is left to
do is the rest of the program after `t`, that what exists is what the tables say exists then, less
what failed to be made, and that the deletors queued are those pushed by then. It is inductive
because each step is where the tables say (`Scheduled`), and flushing the full queue gives the 12
destructions in the reverse order of the pushes (`FlushCalls`). `UsesLive` and `ParentsOutlive` are
then comparisons of two lifetimes, and `NothingLeft` says which objects have no `GoneAt`. The module
has no parameter, so the theorems hold of what the run already exhausts; what they add is the reason:
everything rests on the order of the 77 steps, and a row of the tables says what a change of it breaks.

### The sockets

`ReceiverInv` is proved once for the actions of `SocketReceiver` (with `Sockets` and `Conns` apart),
and used for both classes. A call is on a live object, whose listener is live (`CallsOnLive`,
`ListenersLive`); at most one call uses a flag (`OneCallPerFlag`) and a set flag has one or is
left over from an error (`FlagHasHolder`); live objects have distinct handles and buffers, and
everything open or allocated is theirs (`HandlesOwned`, `BuffersOwned`); what a call has got is in
the buffer, or copied, until it returns (`DataInHand`). `ExclusiveBuffer` follows from one call per
flag and one flag per buffer. `ReturnedDatagramIntact` then needs only that a call's datagram is its own;
`StreamPreserved` that every handle's past, present and waiting chunks are its peer's stream
(`StreamInv`), where at most one call is between the kernel and its caller (`OneHolder`), and that
nothing waits, or will, on a handle whose end a call has got (`EndIsLast`).

`RefinesMailbox`: to the abstract mailbox a datagram is pending until the call returns, so the
kernel's write and the copy are stutters, and the return takes the oldest: there is one call per
handle, so the one in hand was the head.

### Only model-checked

- Liveness: `CallReturns`, `PresentedIsShown`, `QuitStopsEngine`, `ShownKeepsDrawing`, and the
  fairness of `ImplementsPipeline` (TLC checks the whole refinement, `RefinesPipeline` proves its
  safety part): fairness is about ENABLED, which this prover does not handle.

Assumptions about the world: the queue and the presentation engine behave as the external
actions say; `socket()` and `accept()` do not return descriptor 0, the value the code takes for
"no socket"; callers do not move or destroy a socket that is being received from, nor destroy
a listener before its connections.

## Not modelled

The pixels a shader computes. The builder's bindings and the pool sizes of the descriptors (one set
is ever allocated, of ten; `clear` and `clearDescriptors` have no caller). The contents of Vulkan
structures beyond layouts, stage masks and load operations: copies of arguments. The text of
addresses and errors. Winsock start-up: one call before `main()`. Shader files: file input. What
happens after an effect index out of range. A lost device during `vkDeviceWaitIdle`. The server,
which is empty.

## Plan

Done: the models of all components listed above (`FrameLoop`, `FramePipeline`, `RunLoop`,
`FrameCommands`, `PictureShow`, `SocketReceiver` with `UdpSocket`, `Mailbox` and `TcpSocket`,
`EngineLifecycle`), and the proof of every invariant, every action property and the safety part of
every refinement that the runs check. What is left is:

1. What joins the two models of the GPU: that a behaviour of `FrameCommands`, seen from the queue,
   starts and completes batches as `FrameLoop` says (a refinement of a queue specification they
   share).
2. `TcpSocket`: a mailbox of streams as its abstract specification, as `Mailbox` is for `UdpSocket`.
3. The liveness properties, should a prover for ENABLED become available.
