-------------------------- MODULE MCPipeWireStream --------------------------
(***************************************************************************)
(* Instances of PipeWireStream for TLC.  Two buffers stand for the sixteen *)
(* of the code: one is queued or held while the other one moves.           *)
(***************************************************************************)
EXTENDS PipeWireStream

CONSTANTS b1, b2, c1, c2

OneBuffer == {b1}
TwoBuffers == {b1, b2}
OneClient == {c1}
TwoClients == {c1, c2}

\* What buildStreamParams() offers, one format standing for the four that can
\* be converted.
AllFormats == {"NV12", "BGRx"}
KnownFormats == {"BGRx"}
=============================================================================
