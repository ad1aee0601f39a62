--------------------------- MODULE RunLoop_proofs ---------------------------
(***************************************************************************)
(* What RunLoop guarantees however many events the window system posts,    *)
(* and at whatever moments: the loop around draw() is a user of the frame  *)
(* ring like any other, it knows the window when it has handled every      *)
(* event, and it leaves nothing running when it cleans up.                 *)
(***************************************************************************)
EXTENDS RunLoop, FrameLoop_proofs

Events == {"quit", "minimized", "maximized", "restored"}

(* An event that says what the window now is.                              *)
Agrees(i) == events[i] # "quit" /\ (events[i] = "minimized" <=> minimised)

(* Once the events that wait are handled, run() will know the window: one  *)
(* that says otherwise has one behind it that agrees, and so has the flag. *)
WindowWillBeKnown ==
  /\ \A i \in DOMAIN events : events[i] # "quit" /\ ~Agrees(i) =>
       \E j \in DOMAIN events : j > i /\ Agrees(j)
  /\ ~(stopRendering_ <=> minimised) => \E i \in DOMAIN events : Agrees(i)

(* cleanup() is not under way before run() has returned, nor does run()    *)
(* return before a quit event.                                             *)
CleanupLast ==
  /\ pc \in {"destroy", "stopped"} => runPc = "returned"
  /\ runPc = "returned" => bQuit

(* The inductive invariant, FrameLoop's included.                          *)
RunInv ==
  /\ IInv
  /\ QuietInv
  /\ TypeOKRun
  /\ WindowWillBeKnown
  /\ CleanupLast
-------------------------------------------------------------------------------
(* Every step of the program is a step of the frame ring, or leaves it     *)
(* alone.                                                                  *)
LEMMA RunStepIsRingStep == NextRun => [Next]_vars
  BY DEF NextRun, WindowChanges, LoopTest, PollEvent, SleepAndContinue, StartDraw, DrawContinues,
         DrawReturns, Cleanup, Environment, Exited, Next, DrawStep, Terminated

(* What the loop and the window do when they do not post or poll.          *)
LEMMA LoopSteps ==
  ASSUME RunInv, [NextRun]_allVars
  PROVE  \/ WindowChanges \/ PollEvent
         \/ /\ UNCHANGED <<events, minimised, posted, stopRendering_, bQuit>>
            /\ runPc' \in {"loop", "poll", "check", "draw", "returned"}
<1>1. CASE LoopTest \/ SleepAndContinue \/ StartDraw \/ DrawReturns
  BY <1>1 DEF LoopTest, SleepAndContinue, StartDraw, DrawReturns, windowVars
<1>2. CASE DrawContinues \/ Cleanup \/ Environment \/ Exited \/ UNCHANGED allVars
  BY <1>2
  DEF DrawContinues, Cleanup, Environment, Exited, allVars, runVars, loopVars, windowVars, RunInv, TypeOKRun
<1> QED
  BY <1>1, <1>2 DEF NextRun

(* The variables of the loop keep their types.                             *)
LEMMA NextKeepsTypes == RunInv /\ [NextRun]_allVars /\ TypeOK' => TypeOKRun'
<1> SUFFICES ASSUME RunInv, [NextRun]_allVars, TypeOK' PROVE TypeOKRun'
  OBVIOUS
<1>1. TypeOKRun
  BY DEF RunInv
<1>2. CASE WindowChanges
  <2>1. PICK e \in Events : Post(e)
    BY <1>2 DEF WindowChanges, Events
  <2>2. events' \in Seq(Events) /\ posted' \in 0 .. MaxPosts
    BY <1>1, <2>1, MaxPostsAssumption DEF Post, TypeOKRun, Events
  <2>3. minimised' \in BOOLEAN /\ UNCHANGED <<runPc, bQuit, stopRendering_>>
    BY <1>1, <1>2 DEF WindowChanges, loopVars, TypeOKRun
  <2> QED
    BY <1>1, <2>2, <2>3 DEF TypeOKRun, Events
<1>3. CASE PollEvent
  <2>1. UNCHANGED <<minimised, posted>> /\ runPc' \in {"poll", "check"}
    BY <1>3 DEF PollEvent
  <2>2. CASE events = <<>>
    BY <1>1, <1>3, <2>1, <2>2 DEF PollEvent, TypeOKRun
  <2>3. CASE events # <<>>
    <3>1. Head(events) \in Events /\ Tail(events) \in Seq(Events)
      BY <1>1, <2>3 DEF TypeOKRun, Events
    <3>2. /\ events' = Tail(events) /\ bQuit' = QuitAfter(Head(events))
          /\ stopRendering_' = StoppedAfter(Head(events))
      BY <1>3, <2>3 DEF PollEvent
    <3>3. bQuit' \in BOOLEAN /\ stopRendering_' \in BOOLEAN
      BY <1>1, <3>1, <3>2 DEF QuitAfter, StoppedAfter, TypeOKRun, Events
    <3> QED
      BY <1>1, <2>1, <3>1, <3>2, <3>3 DEF TypeOKRun, Events
  <2> QED
    BY <2>2, <2>3
<1> QED
  BY <1>1, <1>2, <1>3, LoopSteps DEF TypeOKRun

(* An event posted says what the window has become, behind all others; an  *)
(* event polled leaves those behind it, or agrees itself.                  *)
LEMMA NextKeepsWindow == RunInv /\ [NextRun]_allVars => WindowWillBeKnown'
<1> SUFFICES ASSUME RunInv, [NextRun]_allVars PROVE WindowWillBeKnown'
  OBVIOUS
<1>1. WindowWillBeKnown /\ events \in Seq(Events) /\ minimised \in BOOLEAN /\ stopRendering_ \in BOOLEAN
  BY DEF RunInv, TypeOKRun, Events
<1>2. CASE WindowChanges
  <2>1. PICK e \in Events :
          /\ events' = Append(events, e)
          /\ stopRendering_' = stopRendering_
          /\ e = "quit" => minimised' = minimised
          /\ e # "quit" => (minimised' <=> e = "minimized") /\ minimised' \in BOOLEAN
    <3>1. UNCHANGED stopRendering_
      BY <1>2 DEF WindowChanges, loopVars
    <3>2. CASE ~minimised /\ minimised' = TRUE /\ Post("minimized")
      BY <3>1, <3>2 DEF Post, Events
    <3>3. CASE minimised /\ minimised' = FALSE /\ (Post("restored") \/ Post("maximized"))
      BY <3>1, <3>3 DEF Post, Events
    <3>4. CASE ~minimised /\ Post("maximized") /\ UNCHANGED minimised
      BY <1>1, <3>1, <3>4 DEF Post, Events
    <3>5. CASE Post("quit") /\ UNCHANGED minimised
      BY <3>1, <3>5 DEF Post, Events
    <3> QED
      BY <1>2, <3>2, <3>3, <3>4, <3>5 DEF WindowChanges
  <2>2. PICK n : /\ n = Len(events) + 1
                 /\ n \notin DOMAIN events /\ DOMAIN events' = DOMAIN events \cup {n}
                 /\ \A i \in DOMAIN events : events'[i] = events[i] /\ n > i /\ ~(i > n)
                 /\ events'[n] = e /\ ~(n > n)
    BY <1>1, <2>1
  <2>3. CASE e = "quit"
    <3>1. \A i \in DOMAIN events : Agrees(i)' <=> Agrees(i)
      BY <2>1, <2>2, <2>3 DEF Agrees
    <3> QED
      BY <1>1, <2>1, <2>2, <2>3, <3>1 DEF WindowWillBeKnown
  <2>4. CASE e # "quit"
    <3>1. Agrees(n)'
      BY <2>1, <2>2, <2>4 DEF Agrees
    <3> QED
      BY <2>2, <3>1 DEF WindowWillBeKnown
  <2> QED
    BY <2>3, <2>4
<1>3. CASE PollEvent /\ events # <<>>
  <2>1. /\ events' = Tail(events) /\ minimised' = minimised
        /\ stopRendering_' = StoppedAfter(Head(events))
    BY <1>3 DEF PollEvent
  <2>2. /\ 1 \in DOMAIN events /\ Head(events) = events[1] /\ events[1] \in Events
        /\ DOMAIN events = 1 .. Len(events) /\ Len(events) \in Nat
        /\ DOMAIN events' = 1 .. Len(events) - 1
        /\ \A i \in DOMAIN events' : events'[i] = events[i + 1]
    BY <1>1, <1>3, <2>1
  <2>3. \A j \in DOMAIN events : j # 1 => j - 1 \in DOMAIN events' /\ events'[j - 1] = events[j]
    BY <2>2
  <2>4. \A j \in DOMAIN events : j # 1 => (Agrees(j) <=> Agrees(j - 1)')
    BY <2>1, <2>3 DEF Agrees
  <2>5. ASSUME NEW i \in DOMAIN events', events'[i] # "quit", ~Agrees(i)'
        PROVE  \E j \in DOMAIN events' : j > i /\ Agrees(j)'
    <3>1. i \in Nat /\ i + 1 \in DOMAIN events /\ events[i + 1] # "quit" /\ ~Agrees(i + 1)
      BY <2>1, <2>2, <2>5 DEF Agrees
    <3>2. PICK j \in DOMAIN events : j > i + 1 /\ Agrees(j)
      BY <1>1, <3>1 DEF WindowWillBeKnown
    <3>3. j # 1 /\ j - 1 > i
      BY <2>2, <3>1, <3>2
    <3> QED
      BY <2>3, <2>4, <3>2, <3>3
  <2>6. ASSUME ~(stopRendering_' <=> minimised)
        PROVE  \E j \in DOMAIN events' : Agrees(j)'
    <3>1. \E j \in DOMAIN events : j # 1 /\ Agrees(j)
      <4>1. CASE events[1] = "quit"
        <5>1. stopRendering_' = stopRendering_ /\ ~Agrees(1)
          BY <2>1, <2>2, <4>1 DEF StoppedAfter, Agrees
        <5> QED
          BY <1>1, <2>6, <5>1 DEF WindowWillBeKnown
      <4>2. CASE events[1] # "quit"
        <5>1. stopRendering_' <=> events[1] = "minimized"
          BY <2>1, <2>2, <4>2 DEF StoppedAfter, Events
        <5>2. ~Agrees(1)
          BY <2>6, <5>1 DEF Agrees
        <5>3. PICK j \in DOMAIN events : j > 1 /\ Agrees(j)
          BY <1>1, <2>2, <4>2, <5>2 DEF WindowWillBeKnown
        <5> QED
          BY <2>2, <5>3
      <4> QED
        BY <4>1, <4>2
    <3> QED
      BY <2>3, <2>4, <3>1
  <2> QED
    BY <2>1, <2>5, <2>6 DEF WindowWillBeKnown
<1>4. CASE UNCHANGED <<events, minimised, stopRendering_>>
  BY <1>1, <1>4 DEF WindowWillBeKnown, Agrees
<1> QED
  BY <1>2, <1>3, <1>4, LoopSteps DEF PollEvent

(* cleanup() is called once run() has returned, and run() runs no more.    *)
LEMMA NextKeepsCleanupLast == RunInv /\ [NextRun]_allVars => CleanupLast'
<1> SUFFICES ASSUME RunInv, [NextRun]_allVars PROVE CleanupLast'
  OBVIOUS
<1>1. CleanupLast
  BY DEF RunInv
<1>2. CASE WindowChanges \/ UNCHANGED allVars \/ Exited
  BY <1>1, <1>2
  DEF CleanupLast, WindowChanges, Exited, Terminated, allVars, runVars, vars, engineVars, loopVars
<1>3. CASE LoopTest \/ PollEvent \/ SleepAndContinue
  BY <1>1, <1>3
  DEF CleanupLast, LoopTest, PollEvent, SleepAndContinue, QuitAfter, vars, engineVars
<1>4. CASE StartDraw \/ DrawReturns
  BY <1>4 DEF CleanupLast, StartDraw, Draw, DrawReturns, Present
<1>5. CASE DrawContinues
  BY <1>1, <1>5
  DEF CleanupLast, DrawContinues, WaitForFences, ResetFences, AcquireNextImage, Record, Submit,
      runVars, loopVars
<1>6. CASE Cleanup
  BY <1>1, <1>6 DEF CleanupLast, Cleanup, CleanupCalled, runVars, loopVars
<1>7. CASE Environment
  <2>1. UNCHANGED <<pc, runPc, bQuit>>
    BY <1>7
    DEF Environment, VkCheckFails, GpuBegin, GpuComplete, Display, PresentWait, VBlank, ScanoutEnds,
        AcquireSignal, engineVars, runVars, loopVars
  <2> QED
    BY <1>1, <2>1 DEF CleanupLast
<1> QED
  BY <1>2, <1>3, <1>4, <1>5, <1>6, <1>7 DEF NextRun

-------------------------------------------------------------------------------
(* The program uses the frame ring as FrameLoop lets any program: all that *)
(* is proved of the ring holds of it.                                      *)
THEOREM RunUsesRing == SpecRun => Spec
<1>1. InitRun => Init
  BY DEF InitRun
<1>2. [NextRun]_allVars => [Next]_vars
  BY RunStepIsRingStep DEF allVars
<1> QED
  BY <1>1, <1>2, PTL DEF SpecRun, Spec

(* The invariant holds in every reachable state of the program.            *)
THEOREM RunInvariance == SpecRun => []RunInv
<1>1. InitRun => RunInv
  <2> SUFFICES ASSUME InitRun PROVE RunInv
    OBVIOUS
  <2>1. IInv /\ QuietInv
    BY InitInv DEF InitRun, Init, QuietInv
  <2>2. TypeOKRun
    <3>1. TypeOK
      BY <2>1 DEF IInv
    <3>2. /\ runPc = "loop" /\ bQuit = FALSE /\ stopRendering_ = FALSE /\ events = <<>>
          /\ minimised = FALSE /\ posted = 0
      BY DEF InitRun
    <3>3. posted \in 0 .. MaxPosts /\ events \in Seq({"quit", "minimized", "maximized", "restored"})
      BY <3>2, MaxPostsAssumption
    <3> QED
      BY <3>1, <3>2, <3>3 DEF TypeOKRun
  <2>3. WindowWillBeKnown /\ CleanupLast
    BY DEF InitRun, Init, WindowWillBeKnown, CleanupLast
  <2> QED
    BY <2>1, <2>2, <2>3 DEF RunInv
<1>2. RunInv /\ [NextRun]_allVars => RunInv'
  <2> SUFFICES ASSUME RunInv, [NextRun]_allVars PROVE RunInv'
    OBVIOUS
  <2>1. [Next]_vars
    BY RunStepIsRingStep DEF allVars
  <2>2. IInv' /\ QuietInv'
    BY <2>1, NextKeepsInv, NextKeepsQuiet DEF RunInv
  <2>3. TypeOK'
    BY <2>2 DEF IInv
  <2> QED
    BY <2>2, <2>3, NextKeepsTypes, NextKeepsWindow, NextKeepsCleanupLast DEF RunInv
<1> QED
  BY <1>1, <1>2, PTL DEF SpecRun

(* Every variable of the program keeps its type.                           *)
THEOREM RunTypeCorrect == SpecRun => []TypeOKRun
<1>1. RunInv => TypeOKRun
  BY DEF RunInv
<1> QED
  BY <1>1, RunInvariance, PTL

(* With every event handled, run() draws exactly when the window shows.    *)
THEOREM WindowIsKnown == SpecRun => []WindowKnown
<1>1. RunInv => WindowKnown
  BY DEF RunInv, WindowWillBeKnown, WindowKnown
<1> QED
  BY <1>1, RunInvariance, PTL

(* cleanup() destroys only after a quit event, when run() has returned and *)
(* the queue executes nothing.                                             *)
THEOREM CleanupComesLast == SpecRun => []CleanupAfterQuit
<1>1. RunInv => CleanupAfterQuit
  BY DEF RunInv, QuietInv, CleanupLast, CleanupAfterQuit
<1> QED
  BY <1>1, RunInvariance, PTL

(* draw() is called with the window minimised only while the event that    *)
(* says so still waits, whatever else waits with it.                       *)
THEOREM DrawsOnlyWhenShown == SpecRun => DrawsAsLastPolled
<1>1. RunInv /\ [NextRun]_allVars =>
        [pc = "idle" /\ pc' = "wait" /\ minimised =>
           \E i \in DOMAIN events : events[i] = "minimized"]_allVars
  <2> SUFFICES ASSUME RunInv, NextRun, pc = "idle", pc' = "wait", minimised
               PROVE  \E i \in DOMAIN events : events[i] = "minimized"
    BY DEF allVars
  <2>1. ~stopRendering_
    BY DEF NextRun, WindowChanges, LoopTest, PollEvent, SleepAndContinue, StartDraw, DrawContinues,
           DrawReturns, Cleanup, Environment, Exited, Terminated, vars, engineVars, VkCheckFails,
           GpuBegin, GpuComplete, Display, PresentWait, VBlank, ScanoutEnds, AcquireSignal,
           WaitForFences, ResetFences, AcquireNextImage, Record, Submit, Present, DeviceWaitIdle, Destroy
  <2>2. PICK i \in DOMAIN events : Agrees(i)
    BY <2>1 DEF RunInv, WindowWillBeKnown
  <2> QED
    BY <2>2 DEF Agrees
<1> QED
  BY <1>1, RunInvariance, PTL DEF SpecRun, DrawsAsLastPolled
===============================================================================
