---------------------------- MODULE FramePipeline ----------------------------
(***************************************************************************)
(* What the engine's frame ring promises to its user, without fences,      *)
(* semaphores or the swapchain: a bounded first-in first-out pipeline.     *)
(*                                                                         *)
(*   - a frame goes into the slots 0 .. FRAME_OVERLAP-1 in turn,           *)
(*   - a slot (and the one immediate-submit buffer) holds at most one      *)
(*     unfinished piece of work, so a slot is refilled only after what it  *)
(*     held is finished,                                                   *)
(*   - work finishes in the order it was submitted, and does finish,       *)
(*   - an orderly stop leaves nothing unfinished.                          *)
(*                                                                         *)
(* FrameLoop implements this module; the mapping is at its end.            *)
(***************************************************************************)
EXTENDS Naturals, Sequences

CONSTANTS
  FRAME_OVERLAP,   (* number of slots *)
  Imm              (* stands for the immediate-submit command buffer *)

VARIABLES
  status,          (* "up", "stopped" (orderly) or "aborted" *)
  next,            (* the slot the next frame goes into *)
  inFlight         (* slots (or Imm) submitted and not finished, in order *)

vars == <<status, next, inFlight>>

Unfinished == { inFlight[i] : i \in DOMAIN inFlight }

Init ==
  /\ status = "up"
  /\ next = 0
  /\ inFlight = <<>>

SubmitFrame ==
  /\ status = "up"
  /\ next \notin Unfinished
  /\ inFlight' = Append(inFlight, next)
  /\ next' = (next + 1) % FRAME_OVERLAP
  /\ UNCHANGED status

SubmitImmediate ==
  /\ status = "up"
  /\ Imm \notin Unfinished
  /\ inFlight' = Append(inFlight, Imm)
  /\ UNCHANGED <<status, next>>

Finish ==
  /\ status = "up"
  /\ inFlight # <<>>
  /\ inFlight' = Tail(inFlight)
  /\ UNCHANGED <<status, next>>

Stop ==
  /\ status = "up"
  /\ inFlight = <<>>
  /\ status' = "stopped"
  /\ UNCHANGED <<next, inFlight>>

Abort ==
  /\ status = "up"
  /\ status' = "aborted"
  /\ UNCHANGED <<next, inFlight>>

Next == SubmitFrame \/ SubmitImmediate \/ Finish \/ Stop \/ Abort

SafeSpec == Init /\ [][Next]_vars
Spec == SafeSpec /\ WF_vars(Finish)
===============================================================================
