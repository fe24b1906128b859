\* A pipeline that is slow, fails, is moved and destroyed at any time.
SPECIFICATION FairSpec
CONSTANTS
  b1 = b1
  b2 = b2
  b3 = b3
  b4 = b4
  b5 = b5
  Buffers <- MCBuffers
  Capacity = 2
  Depth = 1
INVARIANTS
  FramesInv
  GivenUpOnce
PROPERTIES
  SinkSpec
  PushEnds
