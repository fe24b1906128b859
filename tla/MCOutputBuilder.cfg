\* build() with failures, then the output with failures until its end.
SPECIFICATION FairSpec

CONSTANTS
  b1 = b1
  b2 = b2
  b3 = b3
  b4 = b4
  Buffers <- MCBuffers
  Capacity = 1
  Depth <- MCDepth
  Times <- MCOneTime
  Strict = FALSE
  TimeBase <- MCTimeBase
  IsDrmPrime = TRUE

INVARIANTS
  ObjectsInv
  FileIsCompleted
PROPERTIES
  OutputEnds
  FailureIsReported
