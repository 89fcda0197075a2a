SPECIFICATION Spec
CONSTANTS
  i1 = i1
  i2 = i2
  r1 = r1
  r2 = r2
  ip = ip
  Instance <- MCInstance
  Request <- MCRequest
  Key <- MCKey
  Data <- MCData
  Absent = Absent
  MaxItems = 1
  DefaultTtl = 1
  Second = 2
  Limit = 2
  Window = 1
  MaxClock = 8
  MaxRequests = 4
  MaxFaults = 0
PROPERTIES
  TryAgainLater
CHECK_DEADLOCK FALSE
