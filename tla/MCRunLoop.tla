------------------------------ MODULE MCRunLoop ------------------------------
(* RunLoop with the code's two slots, a swapchain of two images and up to    *)
(* MaxPosts window events at any moments.                                    *)
EXTENDS RunLoop
==============================================================================
