----------------------------- MODULE PictureShow -----------------------------
(***************************************************************************)
(* What run() promises whoever looks at the screen, without frames in      *)
(* flight, images or barriers: every look that a turn of it asked draw()   *)
(* for appears, in the order asked, none twice and none left out; and what *)
(* appears is that look alone, never parts of two.                         *)
(*                                                                         *)
(* Undefined stands for what Vulkan leaves open where the layouts are not  *)
(* those named, NoUi for a picture that the interface is not drawn over.   *)
(***************************************************************************)
EXTENDS Sequences

CONSTANTS
  Looks,              (* what draw() may be asked for *)
  Undefined,
  NoUi

VARIABLES
  pending,            (* the looks asked for that have not appeared *)
  shown               (* the picture on the screen *)

vars == <<pending, shown>>

Pictures(look) == [background : {look, Undefined}, ui : {look, Undefined, NoUi}]

Init ==
  /\ pending = <<>>
  /\ shown = [background |-> Undefined, ui |-> Undefined]

Draw(look) ==
  /\ pending' = Append(pending, look)
  /\ UNCHANGED shown

Appear ==
  /\ pending # <<>>
  /\ shown' \in Pictures(Head(pending))
  /\ pending' = Tail(pending)

Next == Appear \/ \E look \in Looks : Draw(look)

Spec == Init /\ [][Next]_vars
===============================================================================
