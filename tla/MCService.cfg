SPECIFICATION ServiceSpec
CONSTANTS
  a = a
  b = b
  Consumer <- MCConsumer
  Messages = 3
  Empty <- MCEmpty
  FailedCount = 2
  MaxFaults = 2
  database = database
  host = host
  user = user
  x = x
  y = y
  HOST = HOST
  NESTED_HOST = NESTED_HOST
  USER = USER
  Unset = Unset
  Blank = Blank
  Bad = Bad
  Section <- MCSection
  Key <- MCKey
  Setting = {x, y, Bad}
  Required <- MCRequired
  Variable <- MCVariable
  PathOf <- MCPathOf
  Documents <- MCDocuments
  Environments <- MCEnvironments
  EnvFiles <- MCEnvFiles
  c1 = c1
  c2 = c2
  primary = primary
  replica = replica
  mongo = mongo
  Check = {c1, c2}
  Indicator <- MCIndicator
  NameOf <- MCNameOf
  Outcomes <- MCOutcomes
  j1 = j1
  j2 = j2
  core = core
  apis = apis
  aws = aws
  typo = typo
  All = All
  Job = {j1, j2}
  Package <- MCPackage
  PackageArgs = {All, apis, typo}
  Broken <- MCBroken
  Commit = {1, 2}
  VersionAt <- MCVersionAt
  Directories <- MCDirectories
  Order <- MCOrder
  Dependents = {apis}
INVARIANTS
  TypeOK
  NothingSkipped
  InOrder
  CopiesBounded
  ReloadLikeRestart
  EnvironmentWins
  FaultShown
  ExitZeroMeansAll
PROPERTIES
  DeadAfterAllAttempts
  PartitionDrains
  CheckEnds
  DependentsAfterCore
CHECK_DEADLOCK FALSE
