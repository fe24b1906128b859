\* Two clients, every order of callbacks, calls, failures and destruction.
SPECIFICATION FairSpec
CONSTANTS
  b1 = b1
  b2 = b2
  c1 = c1
  c2 = c2
  Buffers <- TwoBuffers
  Clients <- TwoClients
  PixelFormats <- KnownFormats
  Convertible <- KnownFormats
  SupportDmaBuf = TRUE
  MaxQueued = 3
INVARIANTS
  TypeOK
  ReadableIffQueued
  FramesAreAnnounced
  BuffersAccountedFor
  UnusedWhenGone
PROPERTIES
  PromiseSpec
  DisconnectIsSeen
  DestructorEnds
