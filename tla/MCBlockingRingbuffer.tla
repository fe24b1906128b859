----------------------- MODULE MCBlockingRingbuffer -----------------------
(***************************************************************************)
(* Instances of BlockingRingbuffer for TLC.  The vector is compacted after *)
(* more than CompactAt moves, so MaxFrames is large enough to compact more *)
(* than once and to leave discarded slots behind in between.               *)
(***************************************************************************)
EXTENDS BlockingRingbuffer

CONSTANTS p1, p2, c1, c2, owner

TwoProducers == {p1, p2}
TwoConsumers == {c1, c2}
=============================================================================
