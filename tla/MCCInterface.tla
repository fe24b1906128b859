---------------------------- MODULE MCCInterface ----------------------------
(***************************************************************************)
(* Instance of CInterface for TLC: one frame is freed while another one is *)
(* received.                                                               *)
(***************************************************************************)
EXTENDS CInterface

CONSTANTS b1, b2

MCBuffers == {b1, b2}
=============================================================================
