SPECIFICATION AccessSpec
CONSTANTS
  i1 = i1
  i2 = i2
  r1 = r1
  r2 = r2
  ip = ip
  Instance <- MCInstance
  Request <- MCRequest
  Key <- MCKey
  Data <- MCData
  Absent = Absent
  MaxItems = 1
  DefaultTtl = 1
  Second = 2
  Limit = 2
  Window = 1
  MaxClock = 7
  MaxRequests = 4
  MaxFaults = 1
  None = None
  alice = alice
  k1 = k1
  k2 = k2
  User = {alice}
  Call <- MCCall
  MaxSession = 2
  MaxGen = 2
  MaxLost = 1
INVARIANTS
  ExactInSequence
  ForgottenWithWindow
  ChallengeResumable
  TemporaryNeverSuffices
PROPERTIES
  RefusalEarned
  SessionKept
SYMMETRY MCAccessSymmetry
CHECK_DEADLOCK FALSE
