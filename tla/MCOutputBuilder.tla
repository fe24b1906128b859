-------------------------- MODULE MCOutputBuilder ---------------------------
(***************************************************************************)
(* Instance of OutputBuilder for TLC: every failure of build(), and queues *)
(* of one frame once it succeeds.                                          *)
(***************************************************************************)
EXTENDS OutputBuilder

CONSTANTS b1, b2, b3, b4

MCBuffers == {b1, b2, b3, b4}

\* The filter graph may hold back a frame, the codec too.
MCDepth == [s \in {"scaler", "encoder"} |-> 1]

\* A muxer that is not strict does not tell timestamps apart.
MCOneTime == {1000}

\* The time base of Matroska, whose muxer is not strict.
MCTimeBase == [num |-> 1, den |-> 1000]
=============================================================================
