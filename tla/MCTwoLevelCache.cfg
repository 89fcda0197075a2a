SPECIFICATION Spec
CONSTANTS
  i1 = i1
  i2 = i2
  f1 = f1
  f2 = f2
  k1 = k1
  k2 = k2
  d1 = d1
  d2 = d2
  Instance <- MCInstance
  Fiber <- MCFiber
  Key <- MCKey
  Data <- MCData
  Absent = Absent
  Values <- MCValues
  Marker = d1
  MaxItems = 1
  DefaultTtl = 1
  Second = 1
  OnceTtl = 1
  Ttls <- MCTtls
  Namespaces <- MCNamespaces
  MaxClock = 3
  MaxCalls = 3
  MaxFaults = 1
INVARIANTS
  CapacityBound
  StaleOnlyIfDisturbed
  OncePerMarker
PROPERTIES
  FlushClears

SYMMETRY MCSymmetry
CHECK_DEADLOCK FALSE
