-------------------------- MODULE EngineLifecycle_proofs ----------------------
(***************************************************************************)
(* That init() and cleanup() use nothing that does not exist, destroy      *)
(* nothing before what belongs to it, and leave nothing behind.  The       *)
(* program is one sequence of 77 steps, the flush of the deletion queue in *)
(* the middle: a table says at which of them each object is made and at    *)
(* which it is destroyed, and the invariant is that what lives is what the *)
(* table says, up to the creations that failed.                            *)
(***************************************************************************)
EXTENDS EngineLifecycle, QueueLemmas

(* Of the 77 steps, 49 are init()'s and 28 are cleanup()'s: 8 before the   *)
(* flush, the flush, 12 of the deletors and 7 after it.                    *)
InitLen == 49
FlushAt == 58
End == 77
Never == 78

(* The step that makes an object.                                          *)
MadeAt(x) ==
  CASE x = "SDL" -> 1 [] x = "window_" -> 2
    [] x = "instance_" -> 3 [] x = "debugMessenger_" -> 4 [] x = "surface_" -> 5
    [] x = "chosenGPU_" -> 6 [] x = "device_" -> 7 [] x = "graphicsQueue_" -> 8
    [] x = "allocator" -> 9
    [] x = "swapchain" -> 11 [] x = "swapchainImages_" -> 12 [] x = "swapchainViews" -> 13
    [] x = "drawImage_" -> 14 [] x = "drawImageView" -> 15
    [] x = "commandPool_0" -> 17 [] x = "mainCommandBuffer_0" -> 18
    [] x = "commandPool_1" -> 19 [] x = "mainCommandBuffer_1" -> 20
    [] x = "immCommandPool_" -> 21 [] x = "immCommandBuffer_" -> 22
    [] x = "renderFence_0" -> 24 [] x = "swapchainSemaphore_0" -> 25
    [] x = "renderSemaphore_0" -> 26
    [] x = "renderFence_1" -> 27 [] x = "swapchainSemaphore_1" -> 28
    [] x = "renderSemaphore_1" -> 29
    [] x = "immFence_" -> 30
    [] x = "descriptorPool" -> 32 [] x = "drawImageDescriptorLayout_" -> 33
    [] x = "drawImageDescriptors_" -> 34
    [] x = "gradientPipelineLayout_" -> 37 [] x = "gradientShader" -> 38
    [] x = "skyShader" -> 39 [] x = "gradient" -> 40 [] x = "sky" -> 41
    [] x = "imguiPool" -> 45 [] x = "imguiContext" -> 46
    [] x = "imguiSDL3" -> 47 [] x = "imguiVulkan" -> 48
    [] OTHER -> Never

(* The step that writes the descriptor set.                                *)
UpdatedAt == 35

(* The step that destroys it.                                              *)
DroppedAt(x) ==
  CASE x = "gradientShader" -> 42 [] x = "skyShader" -> 43
    [] x = "commandPool_0" -> 50 [] x = "renderFence_0" -> 51
    [] x = "renderSemaphore_0" -> 52 [] x = "swapchainSemaphore_0" -> 53
    [] x = "commandPool_1" -> 54 [] x = "renderFence_1" -> 55
    [] x = "renderSemaphore_1" -> 56 [] x = "swapchainSemaphore_1" -> 57
    [] x = "imguiVulkan" -> 59 [] x = "imguiPool" -> 60
    [] x = "gradientPipelineLayout_" -> 61 [] x = "sky" -> 62 [] x = "gradient" -> 63
    [] x = "descriptorPool" -> 64 [] x = "drawImageDescriptorLayout_" -> 65
    [] x = "immFence_" -> 66 [] x = "immCommandPool_" -> 67
    [] x = "drawImageView" -> 68 [] x = "drawImage_" -> 69 [] x = "allocator" -> 70
    [] x = "swapchain" -> 71 [] x = "swapchainViews" -> 72
    [] x = "surface_" -> 73 [] x = "device_" -> 74 [] x = "debugMessenger_" -> 75
    [] x = "window_" -> 76 [] x = "instance_" -> 77
    [] OTHER -> Never

(* The step with which it is gone: its own, or that of what holds it.      *)
GoneAt(x) == IF x \in HeldObjects THEN DroppedAt(Holder(x)) ELSE DroppedAt(x)

(* The deletors, and the steps that push them.                             *)
PushOrder == << "allocator", "drawImage_", "immCommandPool_", "immFence_",
                "descriptors", "pipelines", "imgui" >>
PushAt == << 10, 16, 23, 31, 36, 44, 49 >>

(* What the deletors call, last pushed first, and the rest of cleanup().   *)
flushed ==
  deletorCalls("imgui") \o deletorCalls("pipelines") \o deletorCalls("descriptors")
    \o deletorCalls("immFence_") \o deletorCalls("immCommandPool_")
    \o deletorCalls("drawImage_") \o deletorCalls("allocator")

destroyInstance ==
  << drop("surface_"), drop("device_"), drop("debugMessenger_"),
     drop("window_"), drop("instance_") >>

afterFlush == destroySwapchain \o destroyInstance

-------------------------------------------------------------------------------
(* The invariant.                                                          *)

Rest(s, n) == SubSeq(s, n + 1, Len(s))

Made(x, t) == MadeAt(x) <= t
Gone(x, t) == GoneAt(x) <= t

(* Nothing lives that the table says does not, but pipelines the deletor   *)
(* missed; and all it says lives, if every creation succeeded.             *)
LiveAt(t) ==
  /\ live \subseteq {x \in Objects : Made(x, t) /\ (Gone(x, t) => x \in Effects)}
  /\ failed = {} => {x \in Objects : Made(x, t) /\ ~Gone(x, t)} \subseteq live

PushedAt(t) ==
  \E k \in 0 .. 7 : /\ deletors = SubSeq(PushOrder, 1, k)
                    /\ \A j \in 1 .. 7 : PushAt[j] <= t <=> j <= k

Initializing(t) ==
  /\ phase = "init" /\ t \in 0 .. InitLen
  /\ todo = Rest(initSteps, t) /\ PushedAt(t)

BeforeFlush(t) ==
  /\ phase = "cleanup" /\ t \in InitLen .. FlushAt - 1
  /\ todo = Rest(cleanupSteps, t - InitLen) /\ deletors = PushOrder

AfterFlush(t) ==
  /\ phase = "cleanup" /\ t \in FlushAt .. End
  /\ todo = Rest(flushed \o afterFlush, t - FlushAt) /\ deletors = <<>>

Between(t) ==
  /\ todo = <<>>
  /\ \/ phase = "out" /\ t = 0 /\ deletors = <<>>
     \/ phase = "ready" /\ t = InitLen /\ deletors = PushOrder
     \/ phase = "ended" /\ t = End /\ deletors = <<>>
     \/ phase = "aborted" /\ deletors \in Seq(Deletors)

OnTime(t) ==
  /\ LiveAt(t)
  /\ Initializing(t) \/ BeforeFlush(t) \/ AfterFlush(t) \/ Between(t)

IInv ==
  /\ failed \subseteq Unchecked
  /\ loadedEngine \in BOOLEAN
  /\ isInitialized_ \in BOOLEAN /\ (phase = "ready" => isInitialized_)
  /\ \E t \in 0 .. End : OnTime(t)

-------------------------------------------------------------------------------
(* The tables are those of the code.                                       *)

initWindow == << make("SDL"), make("window_") >>
beforeFlush ==
  << drop("commandPool_0"), drop("renderFence_0"), drop("renderSemaphore_0"),
     drop("swapchainSemaphore_0"),
     drop("commandPool_1"), drop("renderFence_1"), drop("renderSemaphore_1"),
     drop("swapchainSemaphore_1"), flush >>

Names == Objects \cup Deletors \cup {"mainDeletionQueue_"}
Steps == [op : {"create", "update", "destroy", "push", "flush"}, on : Names]

(* The step is what the tables say happens at time t.                      *)
Timed(s, t) ==
  /\ s \in Steps
  /\ s.op \in {"create", "destroy"} => s.on \in Objects
  /\ s.op = "push" => \E j \in 1 .. 7 : s.on = PushOrder[j]
  /\ s.op = "flush" <=> t = FlushAt
  /\ \A x \in Objects : /\ MadeAt(x) = t <=> s = make(x)
                        /\ x \notin HeldObjects => (DroppedAt(x) = t <=> s = drop(x))
                        /\ x \in HeldObjects => s # drop(x)
  /\ s.op = "update" <=> t = UpdatedAt
  /\ s.op = "update" => s.on = "drawImageDescriptors_"
  /\ \A j \in 1 .. 7 : PushAt[j] = t <=> s = push(PushOrder[j])

(* The n steps of a sequence are those of the times after b.               *)
Scheduled(s, b, n) ==
  /\ Len(s) = n /\ s \in Seq(Steps)
  /\ \A i \in 1 .. n : Timed(s[i], b + i)

(* One sequence after another.                                             *)
LEMMA Joined ==
  ASSUME NEW s, NEW t, NEW b \in Nat, NEW n \in Nat, NEW m \in Nat,
         Scheduled(s, b, n), Scheduled(t, b + n, m)
  PROVE  Scheduled(s \o t, b, n + m)
<1>1. /\ Len(s) = n /\ s \in Seq(Steps) /\ Len(t) = m /\ t \in Seq(Steps)
  BY DEF Scheduled
<1>2. /\ Len(s \o t) = n + m /\ s \o t \in Seq(Steps)
      /\ \A i \in 1 .. n : (s \o t)[i] = s[i]
      /\ \A i \in 1 .. m : (s \o t)[n + i] = t[i]
  BY <1>1
<1>3. ASSUME NEW i \in 1 .. n + m
      PROVE  Timed((s \o t)[i], b + i)
  <2>1. CASE i \in 1 .. n
    BY <2>1, <1>2 DEF Scheduled
  <2>2. CASE i \notin 1 .. n
    <3>1. PICK j \in 1 .. m : i = n + j /\ b + i = (b + n) + j
      <4>1. i - n \in 1 .. m /\ i = n + (i - n) /\ b + i = (b + n) + (i - n)
        BY <2>2
      <4>2. QED
        BY <4>1
    <3>2. Timed(t[j], (b + n) + j)
      BY DEF Scheduled
    <3>3. QED
      BY <3>1, <3>2, <1>2
  <2>3. QED
    BY <2>1, <2>2
<1>4. QED
  BY <1>2, <1>3 DEF Scheduled

(* Every function of init() and cleanup() is on time.                      *)
LEMMA FunctionsScheduled ==
  /\ Scheduled(initWindow, 0, 2)
  /\ Scheduled(initVulkan, 2, 8)
  /\ Scheduled(initSwapchain, 10, 6)
  /\ Scheduled(initCommands, 16, 7)
  /\ Scheduled(initSyncStructures, 23, 8)
  /\ Scheduled(initDescriptors, 31, 5)
  /\ Scheduled(initBackgroundPipelines, 36, 8)
  /\ Scheduled(initImgui, 44, 5)
  /\ Scheduled(beforeFlush, 49, 9)
  /\ Scheduled(deletorCalls("imgui"), 58, 2)
  /\ Scheduled(deletorCalls("pipelines"), 60, 3)
  /\ Scheduled(deletorCalls("descriptors"), 63, 2)
  /\ Scheduled(deletorCalls("immFence_"), 65, 1)
  /\ Scheduled(deletorCalls("immCommandPool_"), 66, 1)
  /\ Scheduled(deletorCalls("drawImage_"), 67, 2)
  /\ Scheduled(deletorCalls("allocator"), 69, 1)
  /\ Scheduled(destroySwapchain, 70, 2)
  /\ Scheduled(destroyInstance, 72, 5)
<1> USE DEF Scheduled, Timed, make, update, drop, push, flush, Steps, Names, Objects, DeviceObjects,
        Frame0, Frame1, Effects, HeldObjects, Deletors, MadeAt, DroppedAt, PushAt,
        PushOrder, FlushAt, UpdatedAt, Never
<1>1. Scheduled(initWindow, 0, 2)
  BY DEF initWindow
<1>2. Scheduled(initVulkan, 2, 8)
  BY SMTT(60) DEF initVulkan
<1>3. Scheduled(initSwapchain, 10, 6)
  BY SMTT(60) DEF initSwapchain
<1>4. Scheduled(initCommands, 16, 7)
  BY SMTT(60) DEF initCommands
<1>5. Scheduled(initSyncStructures, 23, 8)
  BY SMTT(60) DEF initSyncStructures
<1>6. Scheduled(initDescriptors, 31, 5)
  BY SMTT(60) DEF initDescriptors
<1>7. Scheduled(initBackgroundPipelines, 36, 8)
  BY SMTT(60) DEF initBackgroundPipelines
<1>8. Scheduled(initImgui, 44, 5)
  BY SMTT(60) DEF initImgui
<1>9. Scheduled(beforeFlush, 49, 9)
  BY SMTT(60) DEF beforeFlush
<1>10. Scheduled(deletorCalls("imgui"), 58, 2)
  BY DEF deletorCalls
<1>11. Scheduled(deletorCalls("pipelines"), 60, 3)
  BY DEF deletorCalls
<1>12. Scheduled(deletorCalls("descriptors"), 63, 2)
  BY DEF deletorCalls
<1>13. Scheduled(deletorCalls("immFence_"), 65, 1)
  BY DEF deletorCalls
<1>14. Scheduled(deletorCalls("immCommandPool_"), 66, 1)
  BY DEF deletorCalls
<1>15. Scheduled(deletorCalls("drawImage_"), 67, 2)
  BY DEF deletorCalls
<1>16. Scheduled(deletorCalls("allocator"), 69, 1)
  BY DEF deletorCalls
<1>17. Scheduled(destroySwapchain, 70, 2)
  BY DEF destroySwapchain
<1>18. Scheduled(destroyInstance, 72, 5)
  BY DEF destroyInstance
<1> HIDE DEF Scheduled
<1>19. QED
  BY <1>1, <1>2, <1>3, <1>4, <1>5, <1>6, <1>7, <1>8, <1>9, <1>10, <1>11, <1>12, <1>13,
     <1>14, <1>15, <1>16, <1>17, <1>18

(* init() as a whole, ...                                                  *)
LEMMA InitScheduled == Scheduled(initSteps, 0, InitLen)
<1> DEFINE s2 == initWindow \o initVulkan
           s3 == s2 \o initSwapchain
           s4 == s3 \o initCommands
           s5 == s4 \o initSyncStructures
           s6 == s5 \o initDescriptors
           s7 == s6 \o initBackgroundPipelines
           s8 == s7 \o initImgui
<1>1. s8 = initSteps
  BY DEF initSteps, initWindow
<1>2. Scheduled(s2, 0, 10)
  BY FunctionsScheduled, Joined
<1> HIDE DEF s2
<1>3. Scheduled(s3, 0, 16)
  BY <1>2, FunctionsScheduled, Joined
<1> HIDE DEF s3
<1>4. Scheduled(s4, 0, 23)
  BY <1>3, FunctionsScheduled, Joined
<1> HIDE DEF s4
<1>5. Scheduled(s5, 0, 31)
  BY <1>4, FunctionsScheduled, Joined
<1> HIDE DEF s5
<1>6. Scheduled(s6, 0, 36)
  BY <1>5, FunctionsScheduled, Joined
<1> HIDE DEF s6
<1>7. Scheduled(s7, 0, 44)
  BY <1>6, FunctionsScheduled, Joined
<1> HIDE DEF s7
<1>8. Scheduled(s8, 0, 49)
  BY <1>7, FunctionsScheduled, Joined
<1> HIDE DEF s8
<1>9. QED
  BY <1>1, <1>8 DEF InitLen

(* ... the deletors, ...                                                   *)
LEMMA FlushedScheduled == Scheduled(flushed, FlushAt, 12)
<1> DEFINE s2 == deletorCalls("imgui") \o deletorCalls("pipelines")
           s3 == s2 \o deletorCalls("descriptors")
           s4 == s3 \o deletorCalls("immFence_")
           s5 == s4 \o deletorCalls("immCommandPool_")
           s6 == s5 \o deletorCalls("drawImage_")
           s7 == s6 \o deletorCalls("allocator")
<1>1. s7 = flushed
  BY DEF flushed
<1>2. Scheduled(s2, 58, 5)
  BY FunctionsScheduled, Joined
<1> HIDE DEF s2
<1>3. Scheduled(s3, 58, 7)
  BY <1>2, FunctionsScheduled, Joined
<1> HIDE DEF s3
<1>4. Scheduled(s4, 58, 8)
  BY <1>3, FunctionsScheduled, Joined
<1> HIDE DEF s4
<1>5. Scheduled(s5, 58, 9)
  BY <1>4, FunctionsScheduled, Joined
<1> HIDE DEF s5
<1>6. Scheduled(s6, 58, 11)
  BY <1>5, FunctionsScheduled, Joined
<1> HIDE DEF s6
<1>7. Scheduled(s7, 58, 12)
  BY <1>6, FunctionsScheduled, Joined
<1> HIDE DEF s7
<1>8. QED
  BY <1>1, <1>7 DEF FlushAt

(* The sequence u is s, of n steps, and then t, of m.                      *)
IsThen(u, s, n, t, m) ==
  /\ u \in Seq(Steps) /\ Len(u) = n + m
  /\ \A i \in 1 .. n : u[i] = s[i]
  /\ Rest(u, n) = t

(* A concatenation is its first part and then its second.                  *)
LEMMA SecondPart ==
  ASSUME NEW s, NEW t, NEW b, NEW c, NEW n \in Nat, NEW m \in Nat \ {0},
         Scheduled(s, b, n), Scheduled(t, c, m)
  PROVE  IsThen(s \o t, s, n, t, m)
<1>1. /\ Len(s) = n /\ s \in Seq(Steps) /\ Len(t) = m /\ t \in Seq(Steps)
  BY DEF Scheduled
<1>2. /\ s \o t \in Seq(Steps) /\ Len(s \o t) = n + m
      /\ \A i \in 1 .. n : (s \o t)[i] = s[i]
  BY <1>1
<1>3. /\ n + 1 \in Len(s) + 1 .. Len(s) + Len(t) /\ n + m \in Len(s) + 1 .. Len(s) + Len(t)
      /\ (n + 1) - Len(s) = 1 /\ (n + m) - Len(s) = Len(t)
  BY <1>1
<1>4. SubSeq(s \o t, n + 1, n + m) = SubSeq(t, 1, Len(t))
  BY <1>1, <1>3, SubSeqOfConcat2
<1>5. SubSeq(s \o t, n + 1, n + m) = t
  BY <1>1, <1>4, SubSeqFull
<1>6. QED
  BY <1>2, <1>5 DEF Rest, IsThen

(* ... and cleanup(), before the flush and after it.                       *)
LEMMA CleanupScheduled ==
  /\ Scheduled(flushed \o afterFlush, FlushAt, End - FlushAt)
  /\ cleanupSteps \in Seq(Steps) /\ Len(cleanupSteps) = 16
  /\ \A i \in 1 .. 9 : /\ Timed(cleanupSteps[i], InitLen + i)
                       /\ cleanupSteps[i] = flush <=> i = 9
  /\ Rest(cleanupSteps, 9) = afterFlush
<1>1. Scheduled(afterFlush, 70, 7)
  BY FunctionsScheduled, Joined DEF afterFlush
<1>2. Scheduled(flushed \o afterFlush, 58, 19)
  BY <1>1, FlushedScheduled, Joined DEF FlushAt
<1>3. cleanupSteps = beforeFlush \o afterFlush
  <2>1. cleanupSteps = (beforeFlush \o destroySwapchain) \o destroyInstance
    BY DEF cleanupSteps, beforeFlush, destroyInstance
  <2>2. /\ beforeFlush \in Seq(Steps)
        /\ destroySwapchain \in Seq(Steps) /\ destroyInstance \in Seq(Steps)
    BY FunctionsScheduled DEF Scheduled
  <2>3. (beforeFlush \o destroySwapchain) \o destroyInstance
          = beforeFlush \o (destroySwapchain \o destroyInstance)
    BY <2>2, ConcatAssociative
  <2>4. QED
    BY <2>1, <2>3 DEF afterFlush
<1>4. /\ cleanupSteps \in Seq(Steps) /\ Len(cleanupSteps) = 16
      /\ \A i \in 1 .. 9 : cleanupSteps[i] = beforeFlush[i]
      /\ Rest(cleanupSteps, 9) = afterFlush
  <2>1. IsThen(beforeFlush \o afterFlush, beforeFlush, 9, afterFlush, 7)
    BY <1>1, FunctionsScheduled, SecondPart
  <2>2. IsThen(cleanupSteps, beforeFlush, 9, afterFlush, 7)
    BY <1>3, <2>1
  <2>3. QED
    BY <2>2 DEF IsThen
<1>5. \A i \in 1 .. 9 : beforeFlush[i] = flush <=> i = 9
  BY DEF beforeFlush, flush, drop
<1>6. \A i \in 1 .. 9 : Timed(beforeFlush[i], 49 + i)
  BY FunctionsScheduled DEF Scheduled
<1>7. QED
  BY <1>2, <1>4, <1>5, <1>6 DEF InitLen, FlushAt, End

-------------------------------------------------------------------------------
(* The seven sequences of a flush, one after another.                      *)
LEMMA FlattenedSeven ==
  ASSUME NEW s, Len(s) = 7
  PROVE  FlattenSeq(s) = s[1] \o s[2] \o s[3] \o s[4] \o s[5] \o s[6] \o s[7]
<1> DEFINE f2 == s[1] \o s[2]
           f3 == f2 \o s[3]
           f4 == f3 \o s[4]
           f5 == f4 \o s[5]
           f6 == f5 \o s[6]
           f7 == f6 \o s[7]
           Flattens(f) == f = [i \in 1 .. 7 |-> IF i = 1 THEN s[i] ELSE f[i - 1] \o s[i]]
           w == << s[1], f2, f3, f4, f5, f6, f7 >>
           g == CHOOSE f : Flattens(f)
<1>1. Flattens(w)
  <2> DEFINE e == [i \in 1 .. 7 |-> IF i = 1 THEN s[i] ELSE w[i - 1] \o s[i]]
  <2>1. e[1] = s[1]
    OBVIOUS
  <2>2. e[2] = f2
    <3>1. e[2] = w[1] \o s[2]
      <4> HIDE DEF w
      <4>1. QED
        OBVIOUS
    <3>2. w[1] = s[1]
      <4> HIDE DEF f2, f3, f4, f5, f6, f7
      <4>1. QED
        OBVIOUS
    <3>3. QED
      BY <3>1, <3>2 DEF f2
  <2>3. e[3] = f3
    <3>1. e[3] = w[2] \o s[3]
      <4> HIDE DEF w
      <4>1. QED
        OBVIOUS
    <3>2. w[2] = f2
      <4> HIDE DEF f2, f3, f4, f5, f6, f7
      <4>1. QED
        OBVIOUS
    <3>3. QED
      BY <3>1, <3>2 DEF f3
  <2>4. e[4] = f4
    <3>1. e[4] = w[3] \o s[4]
      <4> HIDE DEF w
      <4>1. QED
        OBVIOUS
    <3>2. w[3] = f3
      <4> HIDE DEF f2, f3, f4, f5, f6, f7
      <4>1. QED
        OBVIOUS
    <3>3. QED
      BY <3>1, <3>2 DEF f4
  <2>5. e[5] = f5
    <3>1. e[5] = w[4] \o s[5]
      <4> HIDE DEF w
      <4>1. QED
        OBVIOUS
    <3>2. w[4] = f4
      <4> HIDE DEF f2, f3, f4, f5, f6, f7
      <4>1. QED
        OBVIOUS
    <3>3. QED
      BY <3>1, <3>2 DEF f5
  <2>6. e[6] = f6
    <3>1. e[6] = w[5] \o s[6]
      <4> HIDE DEF w
      <4>1. QED
        OBVIOUS
    <3>2. w[5] = f5
      <4> HIDE DEF f2, f3, f4, f5, f6, f7
      <4>1. QED
        OBVIOUS
    <3>3. QED
      BY <3>1, <3>2 DEF f6
  <2>7. e[7] = f7
    <3>1. e[7] = w[6] \o s[7]
      <4> HIDE DEF w
      <4>1. QED
        OBVIOUS
    <3>2. w[6] = f6
      <4> HIDE DEF f2, f3, f4, f5, f6, f7
      <4>1. QED
        OBVIOUS
    <3>3. QED
      BY <3>1, <3>2 DEF f7
  <2> HIDE DEF f2, f3, f4, f5, f6, f7
  <2>8. e = w
    <3>1. DOMAIN e = 1 .. 7 /\ e = [i \in 1 .. 7 |-> e[i]]
      OBVIOUS
    <3> HIDE DEF e
    <3>2. QED
      BY <3>1, <2>1, <2>2, <2>3, <2>4, <2>5, <2>6, <2>7
  <2>9. QED
    BY <2>8
<1>2. Flattens(g)
  BY <1>1
<1>3. FlattenSeq(s) = g[7]
  BY DEF FlattenSeq
<1> HIDE DEF g
<1>4. \A i \in 1 .. 7 : g[i] = IF i = 1 THEN s[i] ELSE g[i - 1] \o s[i]
  BY <1>2
<1>5. g[1] = s[1]
  BY <1>4
<1>6. g[2] = g[1] \o s[2]
  BY <1>4
<1>7. g[3] = g[2] \o s[3]
  BY <1>4
<1>8. g[4] = g[3] \o s[4]
  BY <1>4
<1>9. g[5] = g[4] \o s[5]
  BY <1>4
<1>10. g[6] = g[5] \o s[6]
  BY <1>4
<1>11. g[7] = g[6] \o s[7]
  BY <1>4
<1>12. QED
  BY <1>3, <1>5, <1>6, <1>7, <1>8, <1>9, <1>10, <1>11, Zenon

(* The flush of a full queue calls its deletors last to first.             *)
LEMMA FlushCalls ==
  FlattenSeq([i \in DOMAIN PushOrder |-> deletorCalls(flushOrder(PushOrder)[i])]) = flushed
<1> DEFINE calls == [i \in DOMAIN PushOrder |-> deletorCalls(flushOrder(PushOrder)[i])]
<1>1. /\ Len(PushOrder) = 7 /\ DOMAIN PushOrder = 1 .. 7
      /\ PushOrder[1] = "allocator" /\ PushOrder[2] = "drawImage_"
      /\ PushOrder[3] = "immCommandPool_" /\ PushOrder[4] = "immFence_"
      /\ PushOrder[5] = "descriptors" /\ PushOrder[6] = "pipelines" /\ PushOrder[7] = "imgui"
  BY DEF PushOrder
<1>2. \A i \in 1 .. 7 : calls[i] = deletorCalls(PushOrder[(7 - i) + 1])
  BY <1>1 DEF flushOrder, Reverse
<1>3. Len(calls) = 7
  BY <1>1
<1> HIDE DEF calls
<1>4. calls[1] = deletorCalls("imgui") /\ calls[2] = deletorCalls("pipelines")
  BY <1>1, <1>2
<1>5. calls[3] = deletorCalls("descriptors") /\ calls[4] = deletorCalls("immFence_")
  BY <1>1, <1>2
<1>6. calls[5] = deletorCalls("immCommandPool_") /\ calls[6] = deletorCalls("drawImage_")
  BY <1>1, <1>2
<1>7. calls[7] = deletorCalls("allocator")
  BY <1>1, <1>2
<1>8. FlattenSeq(calls) = calls[1] \o calls[2] \o calls[3] \o calls[4] \o calls[5]
                            \o calls[6] \o calls[7]
  BY <1>3, FlattenedSeven
<1>9. FlattenSeq(calls) = flushed
  BY <1>4, <1>5, <1>6, <1>7, <1>8 DEF flushed
<1>10. QED
  BY <1>9 DEF calls

-------------------------------------------------------------------------------
(* One step further along a sequence.                                      *)
LEMMA RestSteps ==
  ASSUME NEW s \in Seq(Steps), NEW n \in 0 .. Len(s)
  PROVE  /\ Rest(s, n) = <<>> <=> n = Len(s)
         /\ n # Len(s) => /\ Head(Rest(s, n)) = s[n + 1]
                          /\ Tail(Rest(s, n)) = Rest(s, n + 1)
<1>1. PICK k \in Nat : k = Len(s) /\ n \in 0 .. k
  OBVIOUS
<1>2. CASE n = k
  <2>1. SubSeq(s, n + 1, k) = <<>>
    BY <1>1, <1>2, SubSeqEmpty
  <2>2. QED
    BY <1>1, <1>2, <2>1 DEF Rest
<1>3. CASE n # k
  <2>1. n + 1 \in 1 .. Len(s) /\ k \in n + 1 .. Len(s)
    BY <1>1, <1>3
  <2>2. /\ Head(SubSeq(s, n + 1, k)) = s[n + 1]
        /\ Tail(SubSeq(s, n + 1, k)) = SubSeq(s, (n + 1) + 1, k)
    BY <2>1, HeadTailOfSubSeq
  <2>3. SubSeq(s, n + 1, k) # <<>>
    <3>1. SubSeq(s, n + 1, k) = << s[n + 1] >> \o SubSeq(s, (n + 1) + 1, k)
      BY <2>1, SubSeqRecursiveFirst
    <3>2. SubSeq(s, (n + 1) + 1, k) \in Seq(Steps)
      BY <1>1, <1>3
    <3>3. ASSUME NEW u \in Seq(Steps), NEW x
          PROVE  << x >> \o u # <<>>
      OBVIOUS
    <3>4. QED
      BY <3>1, <3>2, <3>3
  <2>4. QED
    BY <1>1, <1>3, <2>2, <2>3 DEF Rest
<1>4. QED
  BY <1>2, <1>3

(* Nothing is left out at the start.                                       *)
LEMMA RestOfAll ==
  ASSUME NEW s \in Seq(Steps)
  PROVE  Rest(s, 0) = s
BY SubSeqFull DEF Rest

(* The tables hold numbers.                                                *)
LEMMA TableTypes == \A x \in Objects : MadeAt(x) \in Nat /\ GoneAt(x) \in Nat
BY DEF Objects, DeviceObjects, HeldObjects, Frame0, Frame1, Effects, MadeAt, GoneAt, DroppedAt,
       Holder, Never

(* What holds objects is not held itself, and is neither of the pipelines. *)
LEMMA Holders == \A x \in HeldObjects : Holder(x) \in Objects \ (HeldObjects \cup Effects)
BY DEF Objects, DeviceObjects, HeldObjects, Frame0, Frame1, Effects, Holder

(* A lifetime lies within that of what the object is made from, and what   *)
(* belongs to it is gone before it.                                        *)
LEMMA Lifetimes ==
  \A x \in Objects :
    /\ MadeAt(x) < GoneAt(x) /\ MadeAt(x) <= InitLen
    /\ \A y \in Needs(x) :
         y \in Objects /\ MadeAt(y) < MadeAt(x) /\ MadeAt(x) < GoneAt(y)
    /\ \A p \in Parents(x) :
         p \in Objects /\ MadeAt(p) < MadeAt(x) /\ GoneAt(x) <= GoneAt(p)
<1> USE DEF Objects, DeviceObjects, HeldObjects, Frame0, Frame1, Effects, MadeAt, GoneAt,
        DroppedAt, Holder, Never, InitLen
<1>1. \A x \in Objects : MadeAt(x) < GoneAt(x) /\ MadeAt(x) <= InitLen
  OBVIOUS
<1>2. \A x \in Objects : \A p \in Parents(x) :
        p \in Objects /\ MadeAt(p) < MadeAt(x) /\ GoneAt(x) <= GoneAt(p)
  BY SMTT(60) DEF Parents
<1>3. \A x \in Objects : \A y \in Needs(x) \ Parents(x) :
        y \in Objects /\ MadeAt(y) < MadeAt(x) /\ MadeAt(x) < GoneAt(y)
  BY SMTT(60) DEF Needs
<1>4. \A x \in Objects : MadeAt(x) \in Nat /\ GoneAt(x) \in Nat
  BY TableTypes
<1> HIDE DEF Objects, MadeAt, GoneAt
<1>5. ASSUME NEW x \in Objects, NEW y \in Needs(x)
      PROVE  y \in Objects /\ MadeAt(y) < MadeAt(x) /\ MadeAt(x) < GoneAt(y)
  <2>1. CASE y \in Parents(x)
    <3>1. y \in Objects /\ MadeAt(y) < MadeAt(x) /\ GoneAt(x) <= GoneAt(y)
      BY <1>2, <2>1
    <3>2. QED
      BY <1>1, <1>4, <3>1
  <2>2. CASE y \notin Parents(x)
    BY <1>3, <1>5, <2>2
  <2>3. QED
    BY <2>1, <2>2
<1>6. QED
  BY <1>1, <1>2, <1>5

(* What is not an object of the table's end is gone at the end.            *)
LEMMA Survivors ==
  \A x \in Objects : GoneAt(x) > End => x \in {"SDL", "imguiContext", "imguiSDL3"}
BY DEF Objects, DeviceObjects, HeldObjects, Frame0, Frame1, Effects, GoneAt, DroppedAt, Holder,
       Never, End

(* The descriptor set, and the view written to it, exist when it is.       *)
LEMMA UpdateGiven ==
  \A x \in {"drawImageDescriptors_", "device_", "drawImageView"} :
    x \in Objects /\ MadeAt(x) < UpdatedAt /\ UpdatedAt < GoneAt(x)
BY DEF Objects, DeviceObjects, HeldObjects, Frame0, Frame1, Effects, MadeAt, GoneAt, DroppedAt,
       Holder, Never, UpdatedAt

-------------------------------------------------------------------------------
(* Of the tables, only the step due happens.                               *)
LEMMA TableSteps ==
  ASSUME NEW t \in 0 .. End - 1, Timed(Step, t + 1), NEW x \in Objects
  PROVE  /\ Made(x, t + 1) <=> Made(x, t) \/ (Step.op = "create" /\ Step.on = x)
         /\ Gone(x, t + 1) <=> Gone(x, t) \/ (Step.op = "destroy" /\ x \in GoneWith(Step.on))
<1>1. \A y \in Objects :
        /\ Step = make(y) <=> Step.op = "create" /\ Step.on = y
        /\ Step = drop(y) <=> Step.op = "destroy" /\ Step.on = y
  BY DEF Timed, Steps, make, drop
<1>2. MadeAt(x) = t + 1 <=> Step.op = "create" /\ Step.on = x
  BY <1>1 DEF Timed
<1>3. GoneAt(x) = t + 1 <=> Step.op = "destroy" /\ x \in GoneWith(Step.on)
  <2>1. CASE x \in HeldObjects
    <3>1. PICK h \in Objects \ HeldObjects : h = Holder(x)
      BY <2>1, Holders
    <3>2. GoneAt(x) = t + 1 <=> Step.op = "destroy" /\ Step.on = h
      BY <1>1, <2>1, <3>1 DEF GoneAt, Timed
    <3>3. ~(Step.op = "destroy" /\ Step.on = x)
      BY <1>1, <2>1 DEF Timed
    <3>4. x \in GoneWith(Step.on) <=> Step.on = x \/ Step.on = h
      BY <2>1, <3>1 DEF GoneWith
    <3>5. QED
      BY <3>2, <3>3, <3>4
  <2>2. CASE x \notin HeldObjects
    <3>1. GoneAt(x) = t + 1 <=> Step.op = "destroy" /\ Step.on = x
      BY <1>1, <2>2 DEF GoneAt, Timed
    <3>2. x \in GoneWith(Step.on) <=> Step.on = x
      BY <2>2 DEF GoneWith
    <3>3. QED
      BY <3>1, <3>2
  <2>3. QED
    BY <2>1, <2>2
<1>4. t \in Nat /\ MadeAt(x) \in Nat /\ GoneAt(x) \in Nat
  BY TableTypes DEF End
<1>5. QED
  BY <1>2, <1>3, <1>4 DEF Made, Gone

(* One step makes or destroys what the tables say, and only that.          *)
LEMMA LiveSteps ==
  ASSUME NEW t \in 0 .. End - 1, LiveAt(t), Timed(Step, t + 1),
         Create \/ CreateUnnoticed \/ Update \/ Push \/ Destroy \/ DestroyGarbage \/ Flush
  PROVE  LiveAt(t + 1)'
<1>1. \A x \in Objects :
        /\ Made(x, t + 1) <=> Made(x, t) \/ (Step.op = "create" /\ Step.on = x)
        /\ Gone(x, t + 1) <=> Gone(x, t) \/ (Step.op = "destroy" /\ x \in GoneWith(Step.on))
  BY TableSteps
<1>2. /\ live \subseteq {x \in Objects : Made(x, t) /\ (Gone(x, t) => x \in Effects)}
      /\ failed = {} => {x \in Objects : Made(x, t) /\ ~Gone(x, t)} \subseteq live
  BY DEF LiveAt
<1>3. Step.op \in {"create", "destroy"} => Step.on \in Objects
  BY DEF Timed
<1> SUFFICES /\ live' \subseteq {x \in Objects : Made(x, t + 1) /\ (Gone(x, t + 1) => x \in Effects)}
             /\ failed' = {} => {x \in Objects : Made(x, t + 1) /\ ~Gone(x, t + 1)} \subseteq live'
  BY DEF LiveAt, Made, Gone
<1>4. CASE Create
  <2>1. Step.op = "create" /\ live' = live \cup {Step.on} /\ failed' = failed
    BY <1>4 DEF Create, Running
  <2>2. Step.on \in Objects /\ MadeAt(Step.on) = t + 1
    BY <1>3, <2>1 DEF Timed, Steps, make
  <2>3. ~Gone(Step.on, t + 1)
    BY <2>2, Lifetimes, TableTypes DEF Gone
  <2>4. QED
    BY <1>1, <1>2, <2>1, <2>2, <2>3
<1>5. CASE CreateUnnoticed
  <2>1. Step.op = "create" /\ live' = live /\ failed' # {}
    BY <1>5 DEF CreateUnnoticed, Running
  <2>2. QED
    BY <1>1, <1>2, <2>1
<1>6. CASE Update \/ Push \/ Flush
  <2>1. Step.op \in {"update", "push", "flush"} /\ live' = live /\ failed' = failed
    BY <1>6 DEF Update, Push, Flush, Running
  <2>2. QED
    BY <1>1, <1>2, <2>1
<1>7. CASE Destroy
  <2>1. Step.op = "destroy" /\ live' = live \ GoneWith(Step.on) /\ failed' = failed
    BY <1>7 DEF Destroy, Running
  <2>2. QED
    BY <1>1, <1>2, <2>1
<1>8. CASE DestroyGarbage
  <2>1. Step.op = "destroy" /\ Step.on \in Effects /\ live' = live /\ failed' = failed
    BY <1>8 DEF DestroyGarbage, DeadLocal, Running
  <2>2. GoneWith(Step.on) = {Step.on}
    BY <2>1, Holders DEF GoneWith
  <2>3. QED
    BY <1>1, <1>2, <2>1, <2>2
<1>9. QED
  BY <1>4, <1>5, <1>6, <1>7, <1>8

(* What step is due, and that the next one is.                             *)
LEMMA DueDuringInit ==
  ASSUME NEW t, Initializing(t), todo # <<>>
  PROVE  /\ t \in 0 .. InitLen - 1 /\ Timed(Step, t + 1)
         /\ Tail(todo) = Rest(initSteps, t + 1)
<1>1. /\ initSteps \in Seq(Steps) /\ Len(initSteps) = InitLen
      /\ \A i \in 1 .. InitLen : Timed(initSteps[i], 0 + i)
  BY InitScheduled DEF Scheduled
<1>2. t \in 0 .. Len(initSteps) /\ todo = Rest(initSteps, t)
  BY <1>1 DEF Initializing
<1>3. t # Len(initSteps)
  BY <1>1, <1>2, RestSteps
<1>4. Step = initSteps[t + 1] /\ Tail(todo) = Rest(initSteps, t + 1)
  BY <1>1, <1>2, <1>3, RestSteps DEF Step
<1>5. t \in 0 .. InitLen - 1 /\ t + 1 \in 1 .. InitLen /\ 0 + (t + 1) = t + 1
  BY <1>1, <1>2, <1>3 DEF InitLen
<1>6. QED
  BY <1>1, <1>4, <1>5

(* So is the step that cleanup() takes before the flush, ...               *)
LEMMA DueBeforeFlush ==
  ASSUME NEW t, BeforeFlush(t)
  PROVE  /\ todo # <<>> /\ t \in InitLen .. FlushAt - 1 /\ Timed(Step, t + 1)
         /\ Tail(todo) = Rest(cleanupSteps, (t + 1) - InitLen)
         /\ Step = flush <=> t = FlushAt - 1
<1>1. t \in 49 .. 57 /\ todo = Rest(cleanupSteps, t - 49)
  BY DEF BeforeFlush, InitLen, FlushAt
<1>2. PICK n \in 0 .. 8 : t = 49 + n /\ n = t - 49 /\ (t + 1) - 49 = n + 1 /\ n + 1 \in 1 .. 9
                          /\ 49 + (n + 1) = t + 1 /\ (n + 1 = 9 <=> t = 57)
  <2>1. t - 49 \in 0 .. 8
    BY <1>1
  <2>2. QED
    BY <1>1, <2>1
<1>3. /\ cleanupSteps \in Seq(Steps) /\ n \in 0 .. Len(cleanupSteps) /\ n # Len(cleanupSteps)
      /\ Timed(cleanupSteps[n + 1], 49 + (n + 1))
      /\ cleanupSteps[n + 1] = flush <=> n + 1 = 9
  BY <1>2, CleanupScheduled DEF InitLen
<1>4. /\ todo # <<>> /\ Step = cleanupSteps[n + 1]
      /\ Tail(todo) = Rest(cleanupSteps, n + 1)
  BY <1>1, <1>2, <1>3, RestSteps DEF Step
<1>5. QED
  BY <1>1, <1>2, <1>3, <1>4 DEF InitLen, FlushAt

(* ... and the one it, or a deletor, takes from then on.                   *)
LEMMA DueAfterFlush ==
  ASSUME NEW t, AfterFlush(t)
  PROVE  /\ t \in FlushAt .. End
         /\ todo = <<>> => t = End
         /\ todo # <<>> => /\ t \in FlushAt .. End - 1 /\ Timed(Step, t + 1)
                           /\ Tail(todo) = Rest(flushed \o afterFlush, (t + 1) - FlushAt)
<1>1. PICK s : s = flushed \o afterFlush
  OBVIOUS
<1>2. /\ s \in Seq(Steps) /\ Len(s) = 19
      /\ \A i \in 1 .. 19 : Timed(s[i], 58 + i)
  <2>1. Scheduled(s, FlushAt, End - FlushAt)
    BY <1>1, CleanupScheduled
  <2>2. QED
    BY <2>1 DEF Scheduled, FlushAt, End
<1>3. t \in 58 .. 77 /\ todo = Rest(s, t - 58)
  BY <1>1 DEF AfterFlush, FlushAt, End
<1>4. PICK n \in 0 .. 19 : n = t - 58 /\ (t + 1) - 58 = n + 1 /\ (n = 19 <=> t = 77)
                           /\ 58 + (n + 1) = t + 1
  <2>1. t - 58 \in 0 .. 19
    BY <1>3
  <2>2. QED
    BY <1>3, <2>1
<1>5. CASE n = 19
  <2>1. n = Len(s) /\ n \in 0 .. Len(s) /\ t = 77
    BY <1>2, <1>4, <1>5
  <2>2. todo = <<>>
    <3>1. todo = Rest(s, n)
      BY <1>3, <1>4
    <3>2. Rest(s, n) = <<>>
      BY <1>2, <2>1, RestSteps
    <3>3. QED
      BY <3>1, <3>2
  <2>3. QED
    BY <2>1, <2>2 DEF FlushAt, End
<1>6. CASE n # 19
  <2>1. n + 1 \in 1 .. 19 /\ t \in 58 .. 76
    BY <1>3, <1>4, <1>6
  <2>2. /\ todo # <<>> /\ Step = s[n + 1] /\ Tail(todo) = Rest(s, n + 1)
    BY <1>2, <1>3, <1>4, <1>6, RestSteps DEF Step
  <2>3. Timed(Step, t + 1)
    BY <1>2, <1>4, <2>1, <2>2
  <2>4. Tail(todo) = Rest(flushed \o afterFlush, (t + 1) - 58)
    BY <1>1, <1>4, <2>2
  <2>5. QED
    BY <1>3, <2>1, <2>2, <2>3, <2>4 DEF FlushAt, End
<1>7. QED
  BY <1>5, <1>6

-------------------------------------------------------------------------------
(* No push is due after init().                                            *)
LEMMA NoPushAfterInit ==
  ASSUME NEW t \in Nat, t + 1 > InitLen
  PROVE  \A j \in 1 .. 7 : PushAt[j] # t + 1
BY DEF PushAt, InitLen

(* A push is due at the times of the table only.                           *)
LEMMA PushNotDue ==
  ASSUME NEW s, NEW t, Timed(s, t), \A j \in 1 .. 7 : PushAt[j] # t
  PROVE  s.op # "push"
<1>1. SUFFICES ASSUME s.op = "push"
               PROVE  FALSE
  OBVIOUS
<1>2. PICK j \in 1 .. 7 : s.on = PushOrder[j]
  BY <1>1 DEF Timed
<1>3. s = push(PushOrder[j])
  BY <1>1, <1>2 DEF Timed, Steps, push
<1>4. QED
  BY <1>2, <1>3 DEF Timed

(* The deletors are pushed in their order, each at its time.               *)
LEMMA PushTable ==
  /\ PushOrder \in Seq(Deletors) /\ Len(PushOrder) = 7
  /\ \A j \in 1 .. 7 : PushAt[j] \in Nat /\ PushAt[j] <= InitLen
  /\ \A i, j \in 1 .. 7 : i < j => PushAt[i] < PushAt[j]
  /\ PushAt[7] = InitLen
<1>1. PushOrder \in Seq(Deletors) /\ Len(PushOrder) = 7
  BY DEF PushOrder, Deletors
<1>2. /\ \A j \in 1 .. 7 : PushAt[j] \in Nat /\ PushAt[j] <= InitLen
      /\ \A i, j \in 1 .. 7 : i < j => PushAt[i] < PushAt[j]
      /\ PushAt[7] = InitLen
  BY DEF PushAt, InitLen
<1>3. QED
  BY <1>1, <1>2

(* A push that is due puts the next deletor of the table at the end.       *)
LEMMA PushOnTime ==
  ASSUME NEW t \in 0 .. InitLen - 1, PushedAt(t), Timed(Step, t + 1), Push
  PROVE  PushedAt(t + 1)'
<1>0. t \in Nat
  BY DEF InitLen
<1>1. PICK k \in 0 .. 7 : /\ deletors = SubSeq(PushOrder, 1, k)
                          /\ \A j \in 1 .. 7 : PushAt[j] <= t <=> j <= k
  BY DEF PushedAt
<1>2. Step.op = "push" /\ deletors' = Append(deletors, Step.on)
  BY DEF Push, Running
<1>3. PICK j \in 1 .. 7 : Step.on = PushOrder[j] /\ PushAt[j] = t + 1
  <2>1. PICK j \in 1 .. 7 : Step.on = PushOrder[j]
    BY <1>2 DEF Timed
  <2>2. Step = push(PushOrder[j])
    BY <1>2, <2>1 DEF Timed, Steps, push
  <2>3. QED
    BY <2>1, <2>2 DEF Timed
<1>4. j = k + 1
  <2>1. j > k
    BY <1>0, <1>1, <1>3
  <2>2. ASSUME k + 1 < j
        PROVE  FALSE
    <3>1. k + 1 \in 1 .. 7 /\ ~(k + 1 <= k) /\ k + 1 < j
      BY <2>2
    <3>2. PushAt[k + 1] < PushAt[j] /\ PushAt[k + 1] \in Nat
      BY <3>1, PushTable
    <3>3. PushAt[k + 1] <= t
      BY <1>0, <1>3, <3>2
    <3>4. QED
      BY <1>1, <3>1, <3>3
  <2>3. QED
    BY <2>1, <2>2
<1>5. \A i \in 1 .. 7 : PushAt[i] <= t + 1 <=> i <= k + 1
  <2>1. \A i \in 1 .. 7 : i < k + 1 => PushAt[i] <= t
    BY <1>1
  <2>2. \A i \in 1 .. 7 : i > k + 1 => PushAt[i] > t + 1
    BY <1>3, <1>4, PushTable
  <2>3. ASSUME NEW i \in 1 .. 7
        PROVE  PushAt[i] <= t + 1 <=> i <= k + 1
    <3>1. CASE i < k + 1
      <4>1. PushAt[i] <= t /\ PushAt[i] \in Nat
        BY <2>1, <3>1, PushTable
      <4>2. QED
        BY <1>0, <3>1, <4>1
    <3>2. CASE i = k + 1
      BY <1>0, <1>3, <1>4, <3>2
    <3>3. CASE i > k + 1
      <4>1. PushAt[i] > t + 1 /\ PushAt[i] \in Nat
        BY <2>2, <3>3, PushTable
      <4>2. QED
        BY <1>0, <3>3, <4>1
    <3>4. QED
      BY <3>1, <3>2, <3>3
  <2>4. QED
    BY <2>3
<1>6. deletors' = SubSeq(PushOrder, 1, k + 1)
  <2>1. k + 1 \in 1 .. Len(PushOrder) /\ PushOrder \in Seq(Deletors) /\ 1 \in 1 .. Len(PushOrder)
        /\ k + 1 \in 1 .. 7
    BY <1>4, PushTable
  <2>2. SubSeq(PushOrder, 1, k + 1) = SubSeq(PushOrder, 1, (k + 1) - 1) \o << PushOrder[k + 1] >>
    BY <2>1, SubSeqRecursiveSecond
  <2>3. (k + 1) - 1 = k
    OBVIOUS
  <2>4. deletors \in Seq(Deletors) /\ PushOrder[k + 1] \in Deletors
    BY <1>1, <2>1
  <2>5. Append(deletors, PushOrder[k + 1]) = deletors \o << PushOrder[k + 1] >>
    BY <2>4
  <2>6. QED
    BY <1>1, <1>2, <1>3, <1>4, <2>2, <2>3, <2>5
<1>7. QED
  BY <1>4, <1>5, <1>6 DEF PushedAt

(* At any other step no deletor is due.                                    *)
LEMMA OthersPushNothing ==
  ASSUME NEW t \in 0 .. InitLen - 1, PushedAt(t), Timed(Step, t + 1),
         Step.op # "push", deletors' = deletors
  PROVE  PushedAt(t + 1)'
<1>1. \A j \in 1 .. 7 : PushAt[j] # t + 1
  BY DEF Timed, push
<1>2. \A j \in 1 .. 7 : PushAt[j] <= t + 1 <=> PushAt[j] <= t
  <2>1. t \in Nat /\ \A j \in 1 .. 7 : PushAt[j] \in Nat
    BY PushTable DEF InitLen
  <2>2. QED
    BY <1>1, <2>1
<1>3. QED
  BY <1>2 DEF PushedAt

(* What init() has pushed is a queue of deletors, whole when it is done.   *)
LEMMA AllPushed ==
  /\ PushedAt(InitLen) => deletors = PushOrder
  /\ \A t \in Nat : PushedAt(t) => deletors \in Seq(Deletors)
<1>1. ASSUME PushedAt(InitLen)
      PROVE  deletors = PushOrder
  <2>1. PICK k \in 0 .. 7 : /\ deletors = SubSeq(PushOrder, 1, k)
                            /\ \A j \in 1 .. 7 : PushAt[j] <= InitLen <=> j <= k
    BY <1>1 DEF PushedAt
  <2>2. k = 7
    BY <2>1, PushTable DEF InitLen
  <2>3. SubSeq(PushOrder, 1, Len(PushOrder)) = PushOrder
    BY PushTable, SubSeqFull
  <2>4. QED
    BY <2>1, <2>2, <2>3, PushTable
<1>2. ASSUME NEW k \in 0 .. 7
      PROVE  SubSeq(PushOrder, 1, k) \in Seq(Deletors)
  <2>1. ASSUME NEW s \in Seq(Deletors), NEW n \in 0 .. Len(s)
        PROVE  SubSeq(s, 1, n) \in Seq(Deletors)
    OBVIOUS
  <2>2. k \in 0 .. Len(PushOrder) /\ PushOrder \in Seq(Deletors)
    BY PushTable
  <2>3. QED
    BY <2>1, <2>2
<1>3. QED
  BY <1>1, <1>2 DEF PushedAt

-------------------------------------------------------------------------------
(* The invariant holds at first, ...                                       *)
LEMMA InitOnTime == Init => IInv
<1>1. SUFFICES ASSUME Init
               PROVE  IInv
  OBVIOUS
<1>2. LiveAt(0)
  <2>1. \A x \in Objects : ~Made(x, 0)
    BY DEF Made, Objects, DeviceObjects, HeldObjects, Frame0, Frame1, Effects, MadeAt
  <2>2. QED
    BY <1>1, <2>1 DEF Init, LiveAt
<1>3. OnTime(0)
  BY <1>1, <1>2 DEF Init, OnTime, Between
<1>4. \E t \in 0 .. End : OnTime(t)
  <2>1. 0 \in 0 .. End
    BY DEF End
  <2>2. QED
    BY <1>3, <2>1
<1>5. QED
  BY <1>1, <1>4 DEF Init, IInv

(* ... and every step keeps it.                                            *)
LEMMA StartOnTime ==
  ASSUME NEW t \in 0 .. End, OnTime(t),
         StartInit \/ InitReturns \/ CleanupReturns \/ Abort,
         phase = "ready" => isInitialized_
  PROVE  OnTime(t)'
<1>1. LiveAt(t)'
  BY DEF OnTime, LiveAt, StartInit, InitReturns, CleanupReturns, Abort
<1>2. CASE StartInit
  <2>1. Between(t) /\ t = 0 /\ deletors = <<>>
    BY <1>2 DEF OnTime, StartInit, Initializing, BeforeFlush, AfterFlush, Between
  <2>2. PushedAt(0)'
    <3>1. SubSeq(PushOrder, 1, 0) = <<>>
      BY SubSeqEmpty
    <3>2. \A j \in 1 .. 7 : ~(PushAt[j] <= 0) /\ ~(j <= 0)
      BY DEF PushAt
    <3>3. QED
      BY <1>2, <2>1, <3>1, <3>2 DEF StartInit, PushedAt
  <2>3. todo' = Rest(initSteps, 0)
    BY <1>2, InitScheduled, RestOfAll DEF StartInit, Scheduled
  <2>4. Initializing(0)'
    BY <1>2, <2>2, <2>3 DEF StartInit, Initializing, InitLen
  <2>5. QED
    BY <1>1, <2>1, <2>4 DEF OnTime
<1>3. CASE InitReturns
  <2>1. Initializing(t)
    BY <1>3 DEF OnTime, InitReturns, BeforeFlush, AfterFlush, Between
  <2>2. t = InitLen
    <3>1. /\ initSteps \in Seq(Steps) /\ Len(initSteps) = InitLen
      BY InitScheduled DEF Scheduled
    <3>2. t \in 0 .. Len(initSteps) /\ Rest(initSteps, t) = <<>>
      BY <1>3, <2>1, <3>1 DEF Initializing, InitReturns
    <3>3. QED
      BY <3>1, <3>2, RestSteps
  <2>3. deletors' = PushOrder
    BY <1>3, <2>1, <2>2, AllPushed DEF Initializing, InitReturns
  <2>4. Between(t)'
    BY <1>3, <2>2, <2>3 DEF InitReturns, Between
  <2>5. QED
    BY <1>1, <2>4 DEF OnTime
<1>4. CASE CleanupReturns
  <2>1. phase = "cleanup" /\ todo = <<>>
    BY <1>4 DEF CleanupReturns
  <2>2. AfterFlush(t)
    BY <2>1, DueBeforeFlush DEF OnTime, Initializing, Between
  <2>3. t = End /\ deletors = <<>>
    BY <2>1, <2>2, DueAfterFlush DEF AfterFlush
  <2>4. Between(t)'
    BY <1>4, <2>3 DEF CleanupReturns, Between
  <2>5. QED
    BY <1>1, <2>4 DEF OnTime
<1>5. CASE Abort
  <2>1. deletors \in Seq(Deletors)
    <3>1. CASE Initializing(t)
      <4>1. t \in Nat /\ PushedAt(t)
        BY <3>1 DEF Initializing, InitLen
      <4>2. QED
        BY <4>1, AllPushed
    <3>2. CASE BeforeFlush(t) \/ AfterFlush(t) \/ Between(t)
      <4>1. deletors = PushOrder \/ deletors = <<>> \/ deletors \in Seq(Deletors)
        BY <3>2 DEF BeforeFlush, AfterFlush, Between
      <4>2. PushOrder \in Seq(Deletors) /\ <<>> \in Seq(Deletors)
        BY PushTable
      <4>3. QED
        BY <4>1, <4>2, Zenon
    <3>3. QED
      BY <3>1, <3>2 DEF OnTime
  <2>2. Between(t)'
    BY <1>5, <2>1 DEF Abort, Between
  <2>3. QED
    BY <1>1, <2>2 DEF OnTime
<1>6. QED
  BY <1>2, <1>3, <1>4, <1>5

(* The cleanup starts with every deletor in the queue.                     *)
LEMMA CleanupOnTime ==
  ASSUME NEW t \in 0 .. End, OnTime(t), StartCleanup, isInitialized_
  PROVE  OnTime(t)'
<1>1. LiveAt(t)'
  BY DEF OnTime, LiveAt, StartCleanup
<1>2. t = InitLen /\ deletors = PushOrder
  BY DEF OnTime, StartCleanup, Initializing, BeforeFlush, AfterFlush, Between
<1>3. todo' = Rest(cleanupSteps, 0)
  BY CleanupScheduled, RestOfAll DEF StartCleanup
<1>4. InitLen \in InitLen .. FlushAt - 1 /\ InitLen - InitLen = 0
  BY DEF InitLen, FlushAt
<1>5. BeforeFlush(t)'
  BY <1>2, <1>3, <1>4 DEF StartCleanup, BeforeFlush
<1>6. QED
  BY <1>1, <1>5 DEF OnTime

(* The steps of init() and cleanup().                                      *)
LEMMA StepOnTime ==
  ASSUME NEW t \in 0 .. End, OnTime(t),
         Create \/ CreateUnnoticed \/ Update \/ Push \/ Destroy \/ DestroyGarbage \/ Flush
  PROVE  t + 1 \in 0 .. End /\ OnTime(t + 1)'
<1>1. todo # <<>> /\ phase' = phase
  BY DEF Create, CreateUnnoticed, Update, Push, Destroy, DestroyGarbage, DeadLocal, Flush, Running
<1>2. ~Flush => todo' = Tail(todo)
  BY DEF Create, CreateUnnoticed, Update, Push, Destroy, DestroyGarbage
<1>3. ~Flush /\ ~Push => deletors' = deletors
  BY DEF Create, CreateUnnoticed, Update, Destroy, DestroyGarbage
<1>4. /\ Push => Step.op = "push"
      /\ Flush => Step.op = "flush"
      /\ ~Flush => Step.op # "flush"
      /\ ~Push => Step.op # "push"
  BY DEF Create, CreateUnnoticed, Update, Push, Destroy, DestroyGarbage, DeadLocal, Flush, Running
<1>5. Initializing(t) \/ BeforeFlush(t) \/ AfterFlush(t)
  BY <1>1 DEF OnTime, Between
<1>6. CASE Initializing(t)
  <2>1. t \in 0 .. InitLen - 1 /\ Timed(Step, t + 1) /\ Tail(todo) = Rest(initSteps, t + 1)
    BY <1>1, <1>6, DueDuringInit
  <2>2. t \in 0 .. End - 1 /\ t + 1 \in 0 .. End /\ t + 1 \in 0 .. InitLen /\ t + 1 # FlushAt
    BY <2>1 DEF InitLen, End, FlushAt
  <2>3. LiveAt(t + 1)'
    BY <2>1, <2>2, LiveSteps DEF OnTime
  <2>4. ~Flush
    BY <1>4, <2>1, <2>2 DEF Timed
  <2>5. PushedAt(t + 1)'
    <3>1. PushedAt(t)
      BY <1>6 DEF Initializing
    <3>2. CASE Push
      BY <2>1, <3>1, <3>2, PushOnTime
    <3>3. CASE ~Push
      BY <1>3, <1>4, <2>1, <2>4, <3>1, <3>3, OthersPushNothing
    <3>4. QED
      BY <3>2, <3>3
  <2>6. Initializing(t + 1)'
    BY <1>1, <1>2, <1>6, <2>1, <2>2, <2>4, <2>5 DEF Initializing
  <2>7. QED
    BY <2>2, <2>3, <2>6 DEF OnTime
<1>7. CASE BeforeFlush(t)
  <2>1. /\ t \in InitLen .. FlushAt - 1 /\ Timed(Step, t + 1)
        /\ Tail(todo) = Rest(cleanupSteps, (t + 1) - InitLen)
        /\ Step = flush <=> t = FlushAt - 1
    BY <1>7, DueBeforeFlush
  <2>2. t \in 0 .. End - 1 /\ t + 1 \in 0 .. End
    BY <2>1 DEF InitLen, End, FlushAt
  <2>3. LiveAt(t + 1)'
    BY <2>1, <2>2, LiveSteps DEF OnTime
  <2>4. ~Push
    <3>1. \A j \in 1 .. 7 : PushAt[j] # t + 1
      <4>1. t \in Nat /\ t + 1 > InitLen
        BY <2>1 DEF InitLen, FlushAt
      <4>2. QED
        BY <4>1, NoPushAfterInit
    <3>2. Step.op # "push"
      BY <2>1, <3>1, PushNotDue
    <3>3. QED
      BY <1>4, <3>2
  <2>5. Flush <=> t + 1 = FlushAt
    <3>1. Step.op = "flush" <=> t + 1 = FlushAt
      BY <2>1 DEF Timed
    <3>2. QED
      BY <1>4, <3>1
  <2>6. CASE t + 1 # FlushAt
    <3>1. t + 1 \in InitLen .. FlushAt - 1
      BY <2>1, <2>6 DEF InitLen, FlushAt
    <3>2. BeforeFlush(t + 1)'
      BY <1>1, <1>2, <1>3, <1>7, <2>1, <2>4, <2>5, <2>6, <3>1 DEF BeforeFlush
    <3>3. QED
      BY <2>2, <2>3, <3>2 DEF OnTime
  <2>7. CASE t + 1 = FlushAt
    <3>1. Flush /\ deletors = PushOrder
      BY <1>7, <2>5, <2>7 DEF BeforeFlush
    <3>2. Tail(todo) = afterFlush
      <4>1. (t + 1) - InitLen = 9
        BY <2>7 DEF InitLen, FlushAt
      <4>2. QED
        BY <2>1, <4>1, CleanupScheduled
    <3>3. todo' = flushed \o afterFlush /\ deletors' = <<>>
      BY <3>1, <3>2, FlushCalls DEF Flush
    <3>4. todo' = Rest(flushed \o afterFlush, 0)
      <4>1. PICK s : s = flushed \o afterFlush
        OBVIOUS
      <4>2. s \in Seq(Steps)
        BY <4>1, CleanupScheduled DEF Scheduled
      <4>3. QED
        BY <3>3, <4>1, <4>2, RestOfAll
    <3>5. AfterFlush(t + 1)'
      <4>1. FlushAt \in FlushAt .. End /\ FlushAt - FlushAt = 0
        BY DEF FlushAt, End
      <4>2. QED
        BY <1>1, <1>7, <2>7, <3>3, <3>4, <4>1 DEF AfterFlush, BeforeFlush
    <3>6. QED
      BY <2>2, <2>3, <3>5 DEF OnTime
  <2>8. QED
    BY <2>6, <2>7
<1>8. CASE AfterFlush(t)
  <2>1. /\ t \in FlushAt .. End - 1 /\ Timed(Step, t + 1)
        /\ Tail(todo) = Rest(flushed \o afterFlush, (t + 1) - FlushAt)
    BY <1>1, <1>8, DueAfterFlush
  <2>2. t \in 0 .. End - 1 /\ t + 1 \in 0 .. End /\ t + 1 \in FlushAt .. End /\ t + 1 # FlushAt
    BY <2>1 DEF End, FlushAt
  <2>3. LiveAt(t + 1)'
    BY <2>1, <2>2, LiveSteps DEF OnTime
  <2>4. ~Flush
    BY <1>4, <2>1, <2>2 DEF Timed
  <2>5. ~Push
    <3>1. \A j \in 1 .. 7 : PushAt[j] # t + 1
      <4>1. t \in Nat /\ t + 1 > InitLen
        BY <2>1 DEF InitLen, FlushAt, End
      <4>2. QED
        BY <4>1, NoPushAfterInit
    <3>2. Step.op # "push"
      BY <2>1, <3>1, PushNotDue
    <3>3. QED
      BY <1>4, <3>2
  <2>6. AfterFlush(t + 1)'
    BY <1>1, <1>2, <1>3, <1>8, <2>1, <2>2, <2>4, <2>5 DEF AfterFlush
  <2>7. QED
    BY <2>2, <2>3, <2>6 DEF OnTime
<1>9. QED
  BY <1>5, <1>6, <1>7, <1>8

(* The invariant, kept by every step.                                      *)
LEMMA NextOnTime == IInv /\ [Next]_vars => IInv'
<1>1. SUFFICES ASSUME IInv, [Next]_vars
               PROVE  IInv'
  OBVIOUS
<1>2. PICK t \in 0 .. End : OnTime(t)
  BY <1>1 DEF IInv
<1>3. /\ failed \subseteq Unchecked /\ loadedEngine \in BOOLEAN /\ isInitialized_ \in BOOLEAN
      /\ phase = "ready" => isInitialized_
  BY <1>1 DEF IInv
<1>4. failed' \subseteq Unchecked
  BY <1>1, <1>3 DEF Next, vars, StartInit, Create, CreateUnnoticed, Update, Push, Destroy,
     DestroyGarbage, Flush, Abort, InitReturns, StartCleanup, CleanupReturns
<1>5. loadedEngine' \in BOOLEAN /\ isInitialized_' \in BOOLEAN
  BY <1>1, <1>3 DEF Next, vars, StartInit, Create, CreateUnnoticed, Update, Push, Destroy,
     DestroyGarbage, Flush, Abort, InitReturns, StartCleanup, CleanupReturns
<1>6. phase' = "ready" => isInitialized_'
  BY <1>1, <1>3 DEF Next, vars, StartInit, Create, CreateUnnoticed, Update, Push, Destroy,
     DestroyGarbage, Flush, Abort, InitReturns, StartCleanup, CleanupReturns
<1>7. \E u \in 0 .. End : OnTime(u)'
  <2>1. CASE StartInit \/ InitReturns \/ CleanupReturns \/ Abort
    BY <1>2, <1>3, <2>1, StartOnTime
  <2>2. CASE StartCleanup
    BY <1>2, <1>3, <2>2, CleanupOnTime DEF StartCleanup
  <2>3. CASE Create \/ CreateUnnoticed \/ Update \/ Push \/ Destroy \/ DestroyGarbage \/ Flush
    BY <1>2, <2>3, StepOnTime
  <2>4. CASE UNCHANGED vars
    BY <1>2, <2>4 DEF vars, OnTime, LiveAt, Initializing, PushedAt, BeforeFlush, AfterFlush,
       Between
  <2>5. QED
    BY <1>1, <2>1, <2>2, <2>3, <2>4 DEF Next
<1>8. QED
  BY <1>4, <1>5, <1>6, <1>7 DEF IInv

(* At every step of init() and cleanup(), what is left to do, what exists  *)
(* and what the deletion queue holds are those of the tables.              *)
THEOREM Inductive == Spec => []IInv
BY InitOnTime, NextOnTime, PTL DEF Spec

-------------------------------------------------------------------------------
(* What the invariant says.                                                *)

(* Types.                                                                  *)
THEOREM EngineTypeCorrect == Spec => []TypeOK
<1>1. IInv => TypeOK
  <2>1. SUFFICES ASSUME IInv
                 PROVE  TypeOK
    OBVIOUS
  <2>2. PICK t \in 0 .. End : OnTime(t)
    BY <2>1 DEF IInv
  <2>3. phase \in {"out", "init", "ready", "cleanup", "ended", "aborted"}
    BY <2>2 DEF OnTime, Initializing, BeforeFlush, AfterFlush, Between
  <2>4. todo \in Seq(Steps)
    <3>1. ASSUME NEW s \in Seq(Steps), NEW n \in Nat
          PROVE  Rest(s, n) \in Seq(Steps)
      BY DEF Rest
    <3>2. initSteps \in Seq(Steps) /\ cleanupSteps \in Seq(Steps)
          /\ flushed \o afterFlush \in Seq(Steps)
      BY InitScheduled, CleanupScheduled DEF Scheduled
    <3>3. CASE Initializing(t)
      <4>1. t \in Nat /\ todo = Rest(initSteps, t)
        BY <3>3 DEF Initializing, InitLen
      <4>2. QED
        BY <3>1, <3>2, <4>1
    <3>4. CASE BeforeFlush(t)
      <4>1. t - InitLen \in Nat /\ todo = Rest(cleanupSteps, t - InitLen)
        BY <3>4 DEF BeforeFlush, InitLen, FlushAt
      <4>2. QED
        BY <3>1, <3>2, <4>1
    <3>5. CASE AfterFlush(t)
      <4>1. t - FlushAt \in Nat /\ todo = Rest(flushed \o afterFlush, t - FlushAt)
        BY <3>5 DEF AfterFlush, FlushAt, End
      <4>2. QED
        BY <3>1, <3>2, <4>1
    <3>6. CASE Between(t)
      BY <3>6 DEF Between
    <3>7. QED
      BY <2>2, <3>3, <3>4, <3>5, <3>6 DEF OnTime
  <2>5. \A i \in DOMAIN todo : todo[i].op \in {"create", "update", "destroy", "push", "flush"}
    <3>1. \A s \in Steps : s.op \in {"create", "update", "destroy", "push", "flush"}
      BY DEF Steps
    <3>2. \A i \in DOMAIN todo : todo[i] \in Steps
      BY <2>4
    <3>3. QED
      BY <3>1, <3>2
  <2>6. live \subseteq Objects
    BY <2>2 DEF OnTime, LiveAt
  <2>7. deletors \in Seq(Deletors)
    <3>1. CASE Initializing(t)
      <4>1. t \in Nat /\ PushedAt(t)
        BY <3>1 DEF Initializing, InitLen
      <4>2. QED
        BY <4>1, AllPushed
    <3>2. CASE BeforeFlush(t) \/ AfterFlush(t) \/ Between(t)
      <4>1. deletors = PushOrder \/ deletors = <<>> \/ deletors \in Seq(Deletors)
        BY <3>2 DEF BeforeFlush, AfterFlush, Between
      <4>2. PushOrder \in Seq(Deletors) /\ <<>> \in Seq(Deletors)
        BY PushTable
      <4>3. QED
        BY <4>1, <4>2, Zenon
    <3>3. QED
      BY <2>2, <3>1, <3>2 DEF OnTime
  <2>8. QED
    BY <2>1, <2>3, <2>5, <2>6, <2>7 DEF TypeOK, IInv
<1>2. QED
  BY Inductive, <1>1, PTL

(* As long as no unchecked creation has failed, init() makes nothing from  *)
(* what does not exist, nor writes a descriptor with it, and cleanup() and *)
(* the deletors destroy nothing that does not exist.                       *)
THEOREM NothingDangles == Spec => []UsesLive
<1>1. IInv => UsesLive
  <2>1. SUFFICES ASSUME IInv, failed = {}, todo # <<>>, NEW y \in Given(Step)
                 PROVE  y \in live
    BY DEF UsesLive, Dangling
  <2>2. PICK t \in 0 .. End : OnTime(t)
    BY <2>1 DEF IInv
  <2>3. t \in Nat /\ Timed(Step, t + 1)
    <3>1. t \in Nat
      BY DEF End
    <3>2. CASE Initializing(t)
      BY <2>1, <3>2, DueDuringInit
    <3>3. CASE BeforeFlush(t)
      BY <3>3, DueBeforeFlush
    <3>4. CASE AfterFlush(t)
      BY <2>1, <3>4, DueAfterFlush
    <3>5. QED
      BY <2>1, <2>2, <3>1, <3>2, <3>3, <3>4 DEF OnTime, Between
  <2>4. {x \in Objects : Made(x, t) /\ ~Gone(x, t)} \subseteq live
    BY <2>1, <2>2 DEF OnTime, LiveAt
  <2>5. SUFFICES y \in Objects /\ MadeAt(y) < t + 1 /\ t + 1 <= GoneAt(y)
    <3>1. ASSUME y \in Objects, MadeAt(y) < t + 1, t + 1 <= GoneAt(y)
          PROVE  Made(y, t) /\ ~Gone(y, t)
      BY <2>3, <3>1, TableTypes DEF Made, Gone
    <3>2. QED
      BY <2>4, <3>1
  <2>6. CASE Step.op = "create"
    <3>1. Step.on \in Objects /\ MadeAt(Step.on) = t + 1 /\ y \in Needs(Step.on)
      BY <2>1, <2>3, <2>6 DEF Timed, Steps, make, Given
    <3>2. y \in Objects /\ MadeAt(y) < t + 1 /\ t + 1 < GoneAt(y)
      BY <3>1, Lifetimes
    <3>3. QED
      BY <2>3, <3>2, TableTypes
  <2>7. CASE Step.op = "update"
    <3>1. t + 1 = UpdatedAt /\ y \in {"drawImageDescriptors_", "device_", "drawImageView"}
      BY <2>1, <2>3, <2>7 DEF Timed, Given
    <3>2. y \in Objects /\ MadeAt(y) < t + 1 /\ t + 1 < GoneAt(y)
      BY <3>1, UpdateGiven
    <3>3. QED
      BY <2>3, <3>2, TableTypes
  <2>8. CASE Step.op = "destroy"
    <3>1. Step = drop(Step.on) /\ Step.on \in Objects /\ y = Step.on
      BY <2>1, <2>3, <2>8 DEF Timed, Steps, drop, Given
    <3>2. Step.on \notin HeldObjects /\ DroppedAt(Step.on) = t + 1
      BY <2>3, <3>1 DEF Timed
    <3>3. GoneAt(y) = t + 1
      BY <3>1, <3>2 DEF GoneAt
    <3>4. MadeAt(y) < t + 1
      BY <3>1, <3>3, Lifetimes
    <3>5. QED
      BY <2>3, <3>1, <3>3, <3>4
  <2>9. QED
    BY <2>1, <2>6, <2>7, <2>8 DEF Given
<1>2. QED
  BY Inductive, <1>1, PTL

(* No object is destroyed before one that belongs to it.                   *)
THEOREM OwnersOutlive == Spec => []ParentsOutlive
<1>1. IInv => ParentsOutlive
  <2>1. SUFFICES ASSUME IInv, failed = {}, NEW x \in live \ Effects, NEW p \in Parents(x)
                 PROVE  p \in live
    BY DEF ParentsOutlive
  <2>2. PICK t \in 0 .. End : OnTime(t)
    BY <2>1 DEF IInv
  <2>3. /\ x \in Objects /\ Made(x, t) /\ ~Gone(x, t)
        /\ {y \in Objects : Made(y, t) /\ ~Gone(y, t)} \subseteq live
    BY <2>1, <2>2 DEF OnTime, LiveAt
  <2>4. p \in Objects /\ MadeAt(p) < MadeAt(x) /\ GoneAt(x) <= GoneAt(p)
    BY <2>3, Lifetimes
  <2>5. t \in Nat
    BY DEF End
  <2>6. Made(p, t) /\ ~Gone(p, t)
    BY <2>3, <2>4, <2>5, TableTypes DEF Made, Gone
  <2>7. QED
    BY <2>3, <2>4, <2>6
<1>2. QED
  BY Inductive, <1>1, PTL

(* When cleanup() has returned, what init() made is gone, whichever        *)
(* creations failed: but for SDL, for what ImGui keeps and for the two     *)
(* pipelines.                                                              *)
THEOREM CleanupIsComplete == Spec => []NothingLeft
<1>1. IInv => NothingLeft
  <2>1. SUFFICES ASSUME IInv, phase = "ended", NEW x \in live
                 PROVE  x \in {"SDL", "imguiContext", "imguiSDL3"} \cup Effects
    BY DEF NothingLeft
  <2>2. PICK t \in 0 .. End : OnTime(t)
    BY <2>1 DEF IInv
  <2>3. t = End
    BY <2>1, <2>2 DEF OnTime, Initializing, BeforeFlush, AfterFlush, Between
  <2>4. x \in Objects /\ (GoneAt(x) <= End => x \in Effects)
    BY <2>2, <2>3 DEF OnTime, LiveAt, Gone
  <2>5. GoneAt(x) > End => x \in {"SDL", "imguiContext", "imguiSDL3"}
    BY <2>4, Survivors
  <2>6. GoneAt(x) \in Nat
    BY <2>4, TableTypes
  <2>7. QED
    BY <2>4, <2>5, <2>6 DEF End
<1>2. QED
  BY Inductive, <1>1, PTL
===============================================================================
