--------------------------- MODULE EngineLifecycle ---------------------------
(***************************************************************************)
(* What VulkanEngine creates in init() and destroys in cleanup()           *)
(* (vk_engine.cpp), call by call, with its DeletionQueue (vk_engine.h).    *)
(*                                                                         *)
(* An object is named for the member or local that holds it; what counts   *)
(* is only whether it exists.  A function is the sequence of its steps:    *)
(* create an object (get or allocate it, too), update one, push a deletor, *)
(* destroy an object, flush a queue.  What is allocated from a pool has no *)
(* destroy call: it goes with the pool.                                    *)
(* Creations the code checks (VK_CHECK, value()) end the program when they *)
(* fail; the others leave a handle that refers to nothing, and what comes  *)
(* of using it is undefined.                                               *)
(***************************************************************************)
EXTENDS Naturals, SequencesExt

VARIABLES
  phase,               (* "out", "init", "ready", "cleanup", "ended", "aborted" *)
  todo,                (* the steps left of the function under way *)
  live,                (* the objects that exist *)
  failed,              (* those an unchecked call failed to create *)
  deletors,            (* mainDeletionQueue_ *)
  loadedEngine,        (* it is not null *)
  isInitialized_

vars == <<phase, todo, live, failed, deletors, loadedEngine, isInitialized_>>

make(x) == [op |-> "create", on |-> x]
update(x) == [op |-> "update", on |-> x]
drop(x) == [op |-> "destroy", on |-> x]
push(d) == [op |-> "push", on |-> d]
flush == [op |-> "flush", on |-> "mainDeletionQueue_"]

Frame0 == {"commandPool_0", "renderFence_0", "renderSemaphore_0", "swapchainSemaphore_0"}
Frame1 == {"commandPool_1", "renderFence_1", "renderSemaphore_1", "swapchainSemaphore_1"}
Effects == {"gradient", "sky"}

DeviceObjects ==
  {"allocator", "swapchain", "swapchainViews", "drawImageView", "immCommandPool_",
   "immFence_", "descriptorPool", "drawImageDescriptorLayout_",
   "gradientPipelineLayout_", "gradientShader", "skyShader", "imguiPool", "imguiVulkan"}
  \cup Frame0 \cup Frame1 \cup Effects

(* What another object holds, and takes with it when it is destroyed.      *)
HeldObjects ==
  {"mainCommandBuffer_0", "mainCommandBuffer_1", "immCommandBuffer_",
   "drawImageDescriptors_", "swapchainImages_", "graphicsQueue_", "chosenGPU_"}

Holder(x) ==
  CASE x = "mainCommandBuffer_0" -> "commandPool_0"
    [] x = "mainCommandBuffer_1" -> "commandPool_1"
    [] x = "immCommandBuffer_" -> "immCommandPool_"
    [] x = "drawImageDescriptors_" -> "descriptorPool"
    [] x = "swapchainImages_" -> "swapchain"
    [] x = "graphicsQueue_" -> "device_"
    [] x = "chosenGPU_" -> "instance_"

Objects == DeviceObjects \cup HeldObjects \cup
  {"SDL", "window_", "instance_", "debugMessenger_", "surface_", "device_",
   "drawImage_", "imguiContext", "imguiSDL3"}

(* What must exist as long as an object does.  The SDL3 backend of ImGui   *)
(* is not counted on the window: it reads it only when a frame begins.     *)
Parents(x) ==
  CASE x = "window_" -> {"SDL"}
    [] x \in {"debugMessenger_", "device_"} -> {"instance_"}
    [] x = "surface_" -> {"instance_", "window_"}
    [] x = "swapchain" -> {"device_", "surface_"}
    [] x = "drawImage_" -> {"allocator"}
    [] x = "imguiSDL3" -> {"imguiContext"}
    [] x = "imguiVulkan" -> {"device_", "imguiPool", "imguiContext"}
    [] x \in DeviceObjects \ {"swapchain", "imguiVulkan"} -> {"device_"}
    [] x \in HeldObjects -> {Holder(x)}
    [] OTHER -> {}

(* What must exist to create an object.                                    *)
Needs(x) == Parents(x) \cup
  CASE x = "chosenGPU_" -> {"surface_"}
    [] x \in {"device_", "allocator", "swapchain"} -> {"instance_", "chosenGPU_"}
    [] x = "swapchainViews" -> {"swapchainImages_"}
    [] x = "drawImageView" -> {"drawImage_"}
    [] x = "drawImageDescriptors_" -> {"drawImageDescriptorLayout_"}
    [] x = "gradientPipelineLayout_" -> {"drawImageDescriptorLayout_"}
    [] x = "gradient" -> {"gradientPipelineLayout_", "gradientShader"}
    [] x = "sky" -> {"gradientPipelineLayout_", "skyShader"}
    [] x = "imguiSDL3" -> {"window_"}
    [] x = "imguiVulkan" -> {"instance_", "chosenGPU_", "graphicsQueue_"}
    [] OTHER -> {}

(* Objects whose creation the code does not check, or checks and goes on.  *)
Unchecked == {"SDL", "window_", "surface_", "drawImage_", "descriptorPool",
              "gradientShader", "skyShader", "imguiSDL3", "imguiVulkan"}

-------------------------------------------------------------------------------
(* init(), function by function.                                           *)

initVulkan ==
  << make("instance_"), make("debugMessenger_"), make("surface_"), make("chosenGPU_"),
     make("device_"), make("graphicsQueue_"), make("allocator"), push("allocator") >>

initSwapchain ==
  << make("swapchain"), make("swapchainImages_"), make("swapchainViews"),
     make("drawImage_"), make("drawImageView"), push("drawImage_") >>

initCommands ==
  << make("commandPool_0"), make("mainCommandBuffer_0"),
     make("commandPool_1"), make("mainCommandBuffer_1"),
     make("immCommandPool_"), make("immCommandBuffer_"), push("immCommandPool_") >>

initSyncStructures ==
  << make("renderFence_0"), make("swapchainSemaphore_0"), make("renderSemaphore_0"),
     make("renderFence_1"), make("swapchainSemaphore_1"), make("renderSemaphore_1"),
     make("immFence_"), push("immFence_") >>

initDescriptors ==
  << make("descriptorPool"), make("drawImageDescriptorLayout_"),
     make("drawImageDescriptors_"), update("drawImageDescriptors_"), push("descriptors") >>

initBackgroundPipelines ==
  << make("gradientPipelineLayout_"), make("gradientShader"), make("skyShader"),
     make("gradient"), make("sky"), drop("gradientShader"), drop("skyShader"),
     push("pipelines") >>

\* Mutant: the deletor of the Vulkan backend is not pushed.
initImguiNoDeletor ==
  << make("imguiPool"), make("imguiContext"), make("imguiSDL3"), make("imguiVulkan") >>

\* Mutant: the fonts texture, which the backend now makes itself, is made too.
initImguiFonts ==
  << make("imguiPool"), make("imguiContext"), make("imguiSDL3"), make("imguiVulkan"),
     make("fontsTexture"), push("imgui") >>

initImgui ==
  << make("imguiPool"), make("imguiContext"), make("imguiSDL3"), make("imguiVulkan"),
     push("imgui") >>

\* Mutant: the descriptors are made before the image view written to them.
initDescriptorsFirst ==
  << make("SDL"), make("window_") >> \o initVulkan \o initDescriptors \o initSwapchain
    \o initCommands \o initSyncStructures \o initBackgroundPipelines \o initImgui

initSteps ==
  << make("SDL"), make("window_") >> \o initVulkan \o initSwapchain
    \o initCommands \o initSyncStructures \o initDescriptors
    \o initBackgroundPipelines \o initImgui

(* The destroy calls of each deletor, in their order.                      *)
Deletors == {"allocator", "drawImage_", "immCommandPool_", "immFence_",
             "descriptors", "pipelines", "imgui"}

deletorCalls(d) ==
  CASE d = "drawImage_" -> << drop("drawImageView"), drop("drawImage_") >>
    [] d = "descriptors" -> << drop("descriptorPool"), drop("drawImageDescriptorLayout_") >>
    [] d = "pipelines" -> << drop("gradientPipelineLayout_"), drop("sky"), drop("gradient") >>
    [] d = "imgui" -> << drop("imguiVulkan"), drop("imguiPool") >>
    [] OTHER -> << drop(d) >>

-------------------------------------------------------------------------------
(* cleanup(), after vkDeviceWaitIdle.  The deletionQueue_ of a frame is    *)
(* always empty: nothing pushes there.                                     *)

destroySwapchain == << drop("swapchain"), drop("swapchainViews") >>

cleanupSteps ==
  << drop("commandPool_0"), drop("renderFence_0"), drop("renderSemaphore_0"),
     drop("swapchainSemaphore_0"),
     drop("commandPool_1"), drop("renderFence_1"), drop("renderSemaphore_1"),
     drop("swapchainSemaphore_1"), flush >>
  \o destroySwapchain
  \o << drop("surface_"), drop("device_"), drop("debugMessenger_"),
        drop("window_"), drop("instance_") >>

-------------------------------------------------------------------------------
Init ==
  /\ phase = "out"
  /\ todo = <<>> /\ deletors = <<>>
  /\ live = {} /\ failed = {}
  /\ loadedEngine = FALSE /\ isInitialized_ = FALSE

(* init(): the assertion passes only when no engine is loaded.             *)
StartInit ==
  /\ phase = "out"
  /\ ~loadedEngine
  /\ phase' = "init"
  /\ loadedEngine' = TRUE
  /\ todo' = initSteps
  /\ UNCHANGED <<live, failed, deletors, isInitialized_>>

Step == Head(todo)
Running(op) == todo # <<>> /\ Step.op = op

(* The objects a call is given: the set written by vkUpdateDescriptorSets  *)
(* is given the view of the draw image.                                    *)
Given(step) ==
  CASE step.op = "create" -> Needs(step.on)
    [] step.op = "update" -> {step.on, "device_", "drawImageView"}
    [] step.op = "destroy" -> {step.on}
    [] OTHER -> {}

(* The step uses a handle that refers to nothing: anything may follow, the *)
(* end of the program included.                                            *)
Dangling == todo # <<>> /\ ~(Given(Step) \subseteq live)

(* The objects a deletor reads from locals of the function that pushed it  *)
(* (captured by reference, vk_engine.cpp:496): the function has returned.  *)
DeadLocal == Running("destroy") /\ Step.on \in Effects

Create ==
  /\ Running("create")
  /\ live' = live \cup {Step.on}
  /\ todo' = Tail(todo)
  /\ UNCHANGED <<phase, failed, deletors, loadedEngine, isInitialized_>>

(* A creation fails and init() goes on.                                    *)
CreateUnnoticed ==
  /\ Running("create")
  /\ Step.on \in Unchecked
  /\ failed' = failed \cup {Step.on}
  /\ todo' = Tail(todo)
  /\ UNCHANGED <<phase, live, deletors, loadedEngine, isInitialized_>>

Push ==
  /\ Running("push")
  /\ deletors' = Append(deletors, Step.on)
  /\ todo' = Tail(todo)
  /\ UNCHANGED <<phase, live, failed, loadedEngine, isInitialized_>>

(* Changes nothing that is modelled, but uses what it is given.            *)
Update ==
  /\ Running("update")
  /\ todo' = Tail(todo)
  /\ UNCHANGED <<phase, live, failed, deletors, loadedEngine, isInitialized_>>

(* The object, and what it holds.                                          *)
GoneWith(x) == {x} \cup {y \in HeldObjects : Holder(y) = x}

Destroy ==
  /\ Running("destroy")
  /\ live' = live \ GoneWith(Step.on)
  /\ todo' = Tail(todo)
  /\ UNCHANGED <<phase, failed, deletors, loadedEngine, isInitialized_>>

(* The handle read is garbage and the driver takes it for nothing.         *)
DestroyGarbage ==
  /\ DeadLocal
  /\ todo' = Tail(todo)
  /\ UNCHANGED <<phase, live, failed, deletors, loadedEngine, isInitialized_>>

\* Mutant: the deletors are called first to last.
ForwardOrder(queue) == queue

flushOrder(queue) == Reverse(queue)

Flush ==
  /\ Running("flush")
  /\ todo' = FlattenSeq([i \in DOMAIN deletors |->
                           deletorCalls(flushOrder(deletors)[i])]) \o Tail(todo)
  /\ deletors' = <<>>
  /\ UNCHANGED <<phase, live, failed, loadedEngine, isInitialized_>>

(* A checked creation fails, or a handle to nothing is used.               *)
Abort ==
  /\ \/ Running("create") /\ Step.on \notin Unchecked
     \/ Dangling
     \/ DeadLocal
  /\ phase' = "aborted"
  /\ todo' = <<>>
  /\ UNCHANGED <<live, failed, deletors, loadedEngine, isInitialized_>>

InitReturns ==
  /\ phase = "init" /\ todo = <<>>
  /\ phase' = "ready"
  /\ isInitialized_' = TRUE
  /\ UNCHANGED <<todo, live, failed, deletors, loadedEngine>>

(* main() calls cleanup() once, when run() has returned.                   *)
StartCleanup ==
  /\ phase = "ready"
  /\ phase' = "cleanup"
  /\ todo' = IF isInitialized_ THEN cleanupSteps ELSE <<>>
  /\ UNCHANGED <<live, failed, deletors, loadedEngine, isInitialized_>>

CleanupReturns ==
  /\ phase = "cleanup" /\ todo = <<>>
  /\ phase' = "ended"
  /\ loadedEngine' = FALSE
  /\ UNCHANGED <<todo, live, failed, deletors, isInitialized_>>

Next == StartInit \/ Create \/ CreateUnnoticed \/ Update \/ Push \/ Destroy
        \/ DestroyGarbage \/ Flush \/ Abort \/ InitReturns \/ StartCleanup \/ CleanupReturns

Spec == Init /\ [][Next]_vars

-------------------------------------------------------------------------------
(* The types of the variables.                                             *)
TypeOK ==
  /\ phase \in {"out", "init", "ready", "cleanup", "ended", "aborted"}
  /\ \A i \in DOMAIN todo : todo[i].op \in {"create", "update", "destroy", "push", "flush"}
  /\ live \subseteq Objects
  /\ failed \subseteq Unchecked
  /\ deletors \in Seq(Deletors)
  /\ loadedEngine \in BOOLEAN
  /\ isInitialized_ \in BOOLEAN

(* As long as no unchecked creation has failed, every call of init() and   *)
(* cleanup() is given objects that exist: nothing is made from an object   *)
(* not yet made, no descriptor is written with a view not yet made, and    *)
(* nothing is destroyed twice, by cleanup() and by a deletor.  (That a     *)
(* deletor reads dead locals in place of two handles is DeadLocal.)        *)
UsesLive == failed = {} => ~Dangling

(* No object is destroyed before one that belongs to it: the device and    *)
(* the allocator outlive what was made from them, whatever order init()    *)
(* pushed the deletors in and wherever cleanup() flushes the queue.  The   *)
(* two pipelines are excepted: the deletor may miss them (see DeadLocal).  *)
ParentsOutlive == failed = {} =>
  \A x \in live \ Effects : Parents(x) \subseteq live

(* When cleanup() has returned everything init() made is gone, but for SDL *)
(* and for what ImGui keeps (neither is ever shut down) and for the two    *)
(* pipelines, whose handles the deletor no longer has.                     *)
NothingLeft == phase = "ended" =>
  live \subseteq {"SDL", "imguiContext", "imguiSDL3"} \cup Effects
===============================================================================
