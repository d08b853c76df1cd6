SPECIFICATION FairSpec
CONSTANTS
  k1 = k1
  k2 = k2
  NoOne = NoOne
  Consumers = {k1}
  Eager = {k1}
  MaxFrames = 2
PROPERTIES
  CancelClosesIterator
CHECK_DEADLOCK FALSE
