SPECIFICATION Spec
CONSTANTS
  Fetches = {f1}
  MaxStarts = 1
  MaxMails = 2
  MaxErrors = 0
  MaxHandled = 2
  PartialFetch = FALSE
INVARIANTS
  NoRedelivery
CHECK_DEADLOCK FALSE
