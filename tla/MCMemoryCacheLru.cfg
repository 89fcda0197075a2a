SPECIFICATION LruSpec
CONSTANTS
  k1 = k1
  k2 = k2
  k3 = k3
  d1 = d1
  Key <- MCKey
  Data <- MCData
  Absent = Absent
  MaxItems = 2
  DefaultTtl = 2
  Second = 1
  Ttls <- MCTtls
  Namespaces <- MCNamespaces
  MaxClock = 3
PROPERTIES
  EvictsLeastRecentlyUsed
