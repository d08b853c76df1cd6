SPECIFICATION FairSpec
CONSTANTS
  k1 = k1
  k2 = k2
  NoOne = NoOne
  Consumers = {k1, k2}
  Eager = {k1}
  MaxFrames = 3
INVARIANTS
  ExactlyOnceInOrder
  NoLostWakeup
PROPERTIES
  ImplementsFeed
  StreamDrains
CHECK_DEADLOCK FALSE
