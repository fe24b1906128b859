\* Two producers and two consumers on a queue of two frames.  Without
\* symmetry, since EofReleases is a temporal property.
SPECIFICATION FairSpec
CONSTANTS
  p1 = p1
  p2 = p2
  c1 = c1
  c2 = c2
  owner = owner
  Producers <- TwoProducers
  Consumers <- TwoConsumers
  Closer <- owner
  Capacity = 2
  MinCompact = 3
  MaxFrames = 12
INVARIANTS
  TypeOK
  DeadSlotsBounded
  NoLostWakeup
PROPERTIES
  TakenInOrderAndFresh
  QueueSpec
  EofReleases
