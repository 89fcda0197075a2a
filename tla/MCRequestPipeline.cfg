SPECIFICATION Spec
CONSTANTS
  r1 = r1
  r2 = r2
  t0 = t0
  t1 = t1
  t2 = t2
  u = u
  s = s
  e = e
  a = a
  b = b
  view = view
  edit = edit
  None = None
  Request <- MCRequest
  Tenant <- MCTenant
  User <- MCUser
  Session <- MCSession
  Role <- MCRole
  Perm <- MCPerm
  Employee <- MCEmployee
  Unit <- MCUnit
  DefaultTenant = t0
  Serves <- MCServes
  Token <- MCToken
  Target <- MCTarget
  Stored <- MCStored
  Initial <- MCInitial
  DefaultTtl = 1
  MaxChanges = 2
INVARIANTS
  OnlyWhatWasHeld
  AnswerHonest
PROPERTIES
  CaughtUp
  EveryRequestAnswered
CHECK_DEADLOCK FALSE
