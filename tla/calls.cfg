SPECIFICATION Spec
CONSTANTS
  MaxTries = 3
  MaxLines = 3
  MaxAgents = 4
  MaxPageSize = 2
  PageSizes = {0, 1, 2, 5}
INVARIANTS NoFailureAsSuccess ErrorKeepsServerCode RegisteredTwiceOnlyUnheard ChunksOnceInOrder EachLeaverHidesOne
PROPERTIES ChatEnds IterEnds
CHECK_DEADLOCK FALSE
