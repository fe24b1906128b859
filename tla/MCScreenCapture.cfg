\* The whole program with a stream that can do anything at any time.
SPECIFICATION FairSpec
CONSTANTS
  b1 = b1
  b2 = b2
  Main = Main
  Buffers <- MCBuffers
  PixelFormats <- Formats
  Convertible <- Formats
  SupportDmaBuf = TRUE
  MaxQueued = 2
INVARIANTS
  FramesInv
  OnlyMemoryMisfits
  OneOutput
  SharedWhileUsed
PROPERTIES
  StreamSpec
  SignalEnds
  LostStreamEnds
