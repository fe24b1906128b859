\* A C program with frames of two buffers.
SPECIFICATION Spec
CONSTANTS
  b1 = b1
  b2 = b2
  Buffers <- MCBuffers
INVARIANTS
  FramesInv
PROPERTIES
  StreamSpec
