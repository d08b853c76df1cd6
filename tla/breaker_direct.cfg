SPECIFICATION Spec
CONSTANTS
  a1 = a1
  a2 = a2
  Agents = {a1, a2}
  Calls = {c1, c2, c3}
  FailureThreshold = 3
  RecoveryTimeout = 2
  Queries <- MCQueries
  DirectOps = {"recordFailure", "recordSuccess", "reset"}
INVARIANTS
  SingleFlight
  ClosedBelowThreshold
  HalfOpenOnlyAfterTimeout
PROPERTIES
  ImplementsPromise
