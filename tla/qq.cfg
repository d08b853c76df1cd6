SPECIFICATION Spec
CONSTANTS
  Callers = {c1, c2}
  MaxSessions = 3
  Lives = {3, 5}
  Margin = 3
  Delay = 1
INVARIANTS
  HeartbeatHasSession
  RunningHasSession
  TokenOutlivesRequest
