SPECIFICATION Spec
CONSTANTS
  Callers = {c1}
  MaxSessions = 2
  Lives = {3}
  Margin = 3
  Delay = 1
INVARIANTS
  GreetedHasHeartbeat
