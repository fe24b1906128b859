\* Which formats may be negotiated.
SPECIFICATION Spec
CONSTANTS
  b1 = b1
  b2 = b2
  c1 = c1
  c2 = c2
  Buffers <- OneBuffer
  Clients <- OneClient
  PixelFormats <- AllFormats
  Convertible <- KnownFormats
  SupportDmaBuf = FALSE
  MaxQueued = 2
INVARIANTS
  SuitableFormat
