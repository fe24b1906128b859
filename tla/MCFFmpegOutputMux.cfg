\* What a strict muxer gets when its unit of time is coarser than a microsecond.
SPECIFICATION Spec

CONSTANTS
  b1 = b1
  b2 = b2
  b3 = b3
  b4 = b4
  b5 = b5
  Buffers <- MCFewBuffers
  Capacity = 1
  Depth <- MCNoDepth
  Times <- MCTimes
  Strict = TRUE
  TimeBase <- MCTimeBase

PROPERTY
  OutputStrictlyMonotonic
