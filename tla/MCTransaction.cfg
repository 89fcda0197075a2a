SPECIFICATION Spec
CONSTANTS
  c1 = c1
  c2 = c2
  None = None
  MaxWorks = 3
  Context <- MCContext
  Origin <- MCOrigin
  PoolSize = 2
  MaxRows = 1
  MaxFaults = 1
INVARIANTS
  TypeOK
  AllOrNothing
  ManagerOpen
  RequestsKeptApart
PROPERTIES
  EveryWorkEnds
CHECK_DEADLOCK FALSE
