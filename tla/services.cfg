SPECIFICATION RSpec
CONSTANTS
  a1 = a1
  Agents = {a1}
  Calls = {c1, c2}
  FailureThreshold = 2
  RecoveryTimeout = 1
  Queries <- MCQueries
  DirectOps = {}
  MaxRetries = 2
  InitialBackoff = 3
  MaxBackoff = 4
  Jitter = 20
  Rands = {0, 100}
INVARIANTS
  NoRetryableErrorEarly
