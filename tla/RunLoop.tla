------------------------------- MODULE RunLoop -------------------------------
(***************************************************************************)
(* The program around the frame ring: main() calls run(), which polls the  *)
(* window's events and draws, and then cleanup() (client_main.cpp,         *)
(* vk_engine.cpp).  The window system posts events whenever it likes, also *)
(* while draw() is under way.                                              *)
(*                                                                         *)
(* The draws are FrameLoop's: this module says when one is started.        *)
(***************************************************************************)
EXTENDS FrameLoop

CONSTANT MaxPosts     (* bound: how many events the window system posts *)

ASSUME MaxPostsAssumption == MaxPosts \in Nat

VARIABLES
  runPc,              (* where run() is; "returned" once it has *)
  bQuit,              (* the local of run() *)
  stopRendering_,
  events,             (* SDL's event queue *)
  minimised,          (* what the window really is *)
  posted              (* events posted so far *)

loopVars == <<runPc, bQuit, stopRendering_>>
windowVars == <<events, minimised, posted>>
runVars == <<loopVars, windowVars>>
allVars == <<vars, runVars>>

InitRun ==
  /\ Init
  /\ runPc = "loop"
  /\ bQuit = FALSE
  /\ stopRendering_ = FALSE
  /\ events = <<>>
  /\ minimised = FALSE
  /\ posted = 0

-------------------------------------------------------------------------------
(* The window system: a change of the window and the event that says so.   *)

Post(e) ==
  /\ Alive
  /\ posted < MaxPosts
  /\ posted' = posted + 1
  /\ events' = Append(events, e)

WindowChanges ==
  /\ \/ ~minimised /\ minimised' = TRUE /\ Post("minimized")
     \/ minimised /\ minimised' = FALSE /\ (Post("restored") \/ Post("maximized"))
     \/ ~minimised /\ Post("maximized") /\ UNCHANGED minimised
     \/ Post("quit") /\ UNCHANGED minimised
  /\ UNCHANGED <<vars, loopVars>>

-------------------------------------------------------------------------------
(* run()                                                                   *)

LoopTest ==
  /\ ~aborted
  /\ runPc = "loop"
  /\ runPc' = IF bQuit THEN "returned" ELSE "poll"
  /\ UNCHANGED <<vars, bQuit, stopRendering_, windowVars>>

\* Mutant: the flag is set by every event, so a later event clears it.
QuitIfLast(e) == e = "quit"

(* bQuit is set and never cleared: an event after the quit does not undo it. *)
QuitAfter(e) == bQuit \/ e = "quit"

\* Mutant: SDL_EVENT_WINDOW_RESTORED is not handled.
StoppedUnlessMaximized(e) ==
  CASE e = "minimized" -> TRUE
    [] e = "maximized" -> FALSE
    [] OTHER -> stopRendering_

StoppedAfter(e) ==
  CASE e = "minimized" -> TRUE
    [] e \in {"maximized", "restored"} -> FALSE
    [] OTHER -> stopRendering_

(* One turn of the inner loop: an event, or none and the loop ends.        *)
PollEvent ==
  /\ ~aborted
  /\ runPc = "poll"
  /\ IF events = <<>>
     THEN /\ runPc' = "check"
          /\ UNCHANGED <<bQuit, stopRendering_, events>>
     ELSE /\ bQuit' = QuitAfter(Head(events))
          /\ stopRendering_' = StoppedAfter(Head(events))
          /\ events' = Tail(events)
          /\ UNCHANGED runPc
  /\ UNCHANGED <<vars, minimised, posted>>

(* stopRendering_ : sleep and start over, without drawing.                 *)
SleepAndContinue ==
  /\ ~aborted
  /\ runPc = "check"
  /\ stopRendering_
  /\ runPc' = "loop"
  /\ UNCHANGED <<vars, bQuit, stopRendering_, windowVars>>

\* Mutant: stopRendering_ is not tested before draw().
DrawRegardless ==
  /\ runPc = "check"
  /\ Draw
  /\ runPc' = "draw"
  /\ UNCHANGED <<bQuit, stopRendering_, windowVars>>

(* The ImGui frame is built (its widgets change no state modelled here),   *)
(* then draw() is called.                                                  *)
StartDraw ==
  /\ runPc = "check"
  /\ ~stopRendering_
  /\ Draw
  /\ runPc' = "draw"
  /\ UNCHANGED <<bQuit, stopRendering_, windowVars>>

DrawReturns ==
  /\ Present
  /\ runPc' = "loop"
  /\ UNCHANGED <<bQuit, stopRendering_, windowVars>>

DrawContinues ==
  /\ WaitForFences \/ ResetFences \/ AcquireNextImage \/ Record \/ Submit
  /\ UNCHANGED runVars

(* main() calls cleanup() when run() has returned.                         *)
CleanupCalled == runPc = "returned"

Cleanup ==
  /\ CleanupCalled
  /\ DeviceWaitIdle \/ Destroy
  /\ UNCHANGED runVars

(* Nothing else is called from run(): immediateSubmit() has no caller.     *)
Environment ==
  /\ \/ VkCheckFails \/ GpuBegin \/ GpuComplete \/ Display
     \/ \E s \in Slots : AcquireSignal(s)
  /\ UNCHANGED runVars

Exited == Terminated /\ UNCHANGED runVars

NextRun ==
  \/ WindowChanges
  \/ LoopTest \/ PollEvent \/ SleepAndContinue
  \/ StartDraw \/ DrawContinues \/ DrawReturns
  \/ Cleanup
  \/ Environment
  \/ Exited

(* The program's one thread goes on unless a call blocks it; the queue and *)
(* the screen do as in FrameLoop.  The user does nothing for sure.         *)
FairnessRun ==
  /\ WF_allVars(LoopTest \/ PollEvent \/ SleepAndContinue \/ StartDraw
                  \/ DrawContinues \/ DrawReturns \/ Cleanup)
  /\ WF_allVars(GpuBegin /\ UNCHANGED runVars)
  /\ WF_allVars(GpuComplete /\ UNCHANGED runVars)
  /\ \A s \in Slots : WF_allVars(AcquireSignal(s) /\ UNCHANGED runVars)
  /\ WF_allVars(PresentWait /\ UNCHANGED runVars)
  /\ WF_allVars(VBlank /\ UNCHANGED runVars)
  /\ \A i \in Images : WF_allVars(ScanoutEnds(i) /\ UNCHANGED runVars)

SpecRun == InitRun /\ [][NextRun]_allVars
FairSpecRun == SpecRun /\ FairnessRun

-------------------------------------------------------------------------------
(* The types of the variables, FrameLoop's included.                       *)
TypeOKRun ==
  /\ TypeOK
  /\ runPc \in {"loop", "poll", "check", "draw", "returned"}
  /\ bQuit \in BOOLEAN
  /\ stopRendering_ \in BOOLEAN
  /\ events \in Seq({"quit", "minimized", "maximized", "restored"})
  /\ minimised \in BOOLEAN
  /\ posted \in 0 .. MaxPosts

(* With every event handled, run() draws exactly when the window shows.    *)
WindowKnown == events = <<>> => (stopRendering_ <=> minimised)

(* cleanup() destroys only when run() has returned because of a quit event *)
(* and the queue executes nothing.                                         *)
CleanupAfterQuit ==
  pc \in {"destroy", "stopped"} => bQuit /\ runPc = "returned" /\ graphicsQueue_ = <<>>

(* A quit event ends the program, by an orderly stop unless a check fails. *)
QuitStopsEngine ==
  (\E i \in DOMAIN events : events[i] = "quit") ~> (pc = "stopped" \/ aborted)

(* While the window stays shown and nobody quits, frames keep being drawn. *)
ShownKeepsDrawing ==
  <>[](~minimised /\ ~bQuit /\ Alive /\ \A i \in DOMAIN events : events[i] # "quit")
    => []<>(pc = "present")

(* draw() is called with the window minimised only while the event that    *)
(* says so still waits, posted after run() last polled (vk_engine.cpp:155):*)
(* none that was polled is forgotten, whatever else has been posted, and   *)
(* the test before draw() heeds them all.                                  *)
DrawsAsLastPolled ==
  [][pc = "idle" /\ pc' = "wait" /\ minimised =>
       \E i \in DOMAIN events : events[i] = "minimized"]_allVars

(* vk_engine.cpp:174, "do not draw if we are minimized": draw() is not     *)
(* called while the window is minimised.                                   *)
NoDrawWhileMinimised == [][pc = "idle" /\ pc' = "wait" => ~minimised]_allVars
===============================================================================
