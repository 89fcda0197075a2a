SPECIFICATION Spec
CONSTANTS
  a = a
  b = b
  Consumer <- MCConsumer
  Messages = 3
  Empty <- MCEmpty
  FailedCount = 2
  MaxFaults = 1
INVARIANTS
  NonBlocking
CHECK_DEADLOCK FALSE
