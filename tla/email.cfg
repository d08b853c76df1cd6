SPECIFICATION FairSpec
CONSTANTS
  Fetches = {f1, f2}
  MaxStarts = 2
  MaxMails = 2
  MaxErrors = 1
  MaxHandled = 1
  PartialFetch = FALSE
INVARIANTS
  RunningIsServed
  NoMailLost
PROPERTIES
  ImplementsInbox
  LastUidAdvances
  MailIsHandled
CHECK_DEADLOCK FALSE
