-------------------------- MODULE MCFrameCommands --------------------------
(***************************************************************************)
(* FrameCommands with the code's two frames in flight, three vertex        *)
(* buffers and two effects.                                                *)
(***************************************************************************)
EXTENDS FrameCommands, TLC

(* The swapchain's images are only compared with one another.              *)
ImageSymmetry == Permutations(Images)
=============================================================================
