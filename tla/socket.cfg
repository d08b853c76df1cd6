SPECIFICATION Spec
CONSTANTS
  MaxClients = 3
  MaxStops = 2
INVARIANTS RunningHoldsConnection AckedOnItsSocket WebhooksDieWithStop
PROPERTIES StopCloses
CHECK_DEADLOCK FALSE
