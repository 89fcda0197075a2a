SPECIFICATION StoresSpec
CONSTANTS
  k1 = k1
  k2 = k2
  k3 = k3
  d1 = d1
  d2 = d2
  Key <- MCKey
  Data <- MCData
  Absent = Absent
  MaxItems = 2
  DefaultTtl = 2
  Second = 1
  Ttls <- MCTtls
  Namespaces <- MCNamespaces
  MaxClock = 3
  tA = tA
  tB = tB
  i1 = i1
  i2 = i2
  c1 = c1
  c2 = c2
  None = None
  Tenant <- MCTenant
  Id <- MCId
  Caller <- MCCaller
  TenantOf <- MCTenantOf
  Condition <- MCCondition
  Paging = {0, 2}
  MaxStray = 1
  PageNumbers = {0, 1, 2}
  PageLimits = {0, 1, 2}
  PageSize = 1
  MetaSize = 2
INVARIANTS
  TypeOK
  CapacityBound
  HoldsLastWrite
  TenantsKeptApart
  PageTellsTheRest
PROPERTIES
  EvictionIsLastResort
  ImplementsLossyMap
  BackOnlyIfAsked
  KeepsTenantStores
SYMMETRY MCSymmetry
