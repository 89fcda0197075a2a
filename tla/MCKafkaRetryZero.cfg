SPECIFICATION Spec
CONSTANTS
  a = a
  b = b
  Consumer <- MCConsumer
  Messages = 3
  Empty <- MCEmpty
  FailedCount = 0
  MaxFaults = 1
PROPERTIES
  SafeDefault
CHECK_DEADLOCK FALSE
