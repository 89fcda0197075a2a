SPECIFICATION Spec
CONSTANTS
  c1 = c1
  c2 = c2
  None = None
  MaxWorks = 3
  Context <- MCContext
  Origin <- MCOriginAlone
  PoolSize = 2
  MaxRows = 1
  MaxFaults = 0
INVARIANTS
  AbortLeavesNothing
CHECK_DEADLOCK FALSE
