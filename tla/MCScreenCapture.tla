-------------------------- MODULE MCScreenCapture ---------------------------
(***************************************************************************)
(* Instances of ScreenCapture for TLC: two buffers, so that one is in the  *)
(* output while the next one is on its way.                                *)
(***************************************************************************)
EXTENDS ScreenCapture

CONSTANTS b1, b2

MCBuffers == {b1, b2}
Formats == {"BGRx"}
=============================================================================
