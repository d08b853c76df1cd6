SPECIFICATION FairSpec
CONSTANTS
  Callers = {c1, c2, c3}
  MaxTtl = 1
  MaxIssued = 4
  SyncThrow = FALSE
INVARIANTS
  OneRefreshAtATime
  RefreshTokenInSync
  NextCallRefreshesAgain
PROPERTIES
  ImplementsSharedToken
  TokensMoveForward
  WaitersSettle
