\* Every interleaving of the caller, both threads and the destructor, with
\* failures of any call, for a muxer that is strict about timestamps.
SPECIFICATION Spec

CONSTANTS
  b1 = b1
  b2 = b2
  b3 = b3
  b4 = b4
  b5 = b5
  Buffers <- MCBuffers
  Capacity = 2
  Depth <- MCDepth
  Times <- MCTimes
  Strict = TRUE
  TimeBase <- MCTimeBase

SYMMETRY MCSymmetry

INVARIANTS
  TypeOK
  LentAreHeld
  StreamNotStarved
  CalleesExist
  PipelineOrdered
PROPERTIES
  SinkSpec
