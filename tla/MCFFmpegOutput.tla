--------------------------- MODULE MCFFmpegOutput ---------------------------
(***************************************************************************)
(* Small instances of FFmpegOutput for TLC.                                *)
(***************************************************************************)
EXTENDS FFmpegOutput, TLC

CONSTANTS b1, b2, b3, b4, b5

MCBuffers == {b1, b2, b3, b4, b5}

\* Enough for queues of one frame.
MCFewBuffers == {b1, b2, b3, b4}

\* The filter graph may hold back a frame, the codec too.
MCDepth == [s \in Stages |-> 1]

\* Neither holds back a frame.
MCNoDepth == [s \in Stages |-> 0]

\* Timestamps of a few frames in succession, two of them in one microsecond.
MCTimes == {1000 * i : i \in 1 .. 6} \cup {1500}

\* The time base of MPEG-TS, whose muxer is strict.
MCTimeBase == [num |-> 1, den |-> 90000]

\* Buffers differ by name only.
MCSymmetry == Permutations(Buffers)
=============================================================================
