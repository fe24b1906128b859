\* When nextEvent() throws.
SPECIFICATION Spec
CONSTANTS
  b1 = b1
  b2 = b2
  c1 = c1
  c2 = c2
  Buffers <- OneBuffer
  Clients <- OneClient
  PixelFormats <- KnownFormats
  Convertible <- KnownFormats
  SupportDmaBuf = FALSE
  MaxQueued = 2
PROPERTIES
  ThrowsOnlyAfterDisconnected
