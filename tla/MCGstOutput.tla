---------------------------- MODULE MCGstOutput -----------------------------
(***************************************************************************)
(* Instance of GstOutput for TLC: a queue of two buffers, which fills up.  *)
(***************************************************************************)
EXTENDS GstOutput

CONSTANTS b1, b2, b3, b4, b5

MCBuffers == {b1, b2, b3, b4, b5}
=============================================================================
