---------------------------- MODULE MCFrameLoop ----------------------------
(***************************************************************************)
(* FrameLoop on small instances: the code's two slots, and a swapchain of  *)
(* two or three images (what FIFO presentation usually gives).             *)
(***************************************************************************)
EXTENDS FrameLoop, TLC

(* Images are only compared with one another.                              *)
ImageSymmetry == Permutations(Images)
=============================================================================
