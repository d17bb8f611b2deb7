SPECIFICATION AuthSpec
CONSTANTS
  Parts <- SessionsOnly
  User = {alice}
  DirectoryUser = {}
  Request = {q1}
  AccessTtl = 2
  RefreshTtl = 2
  KeepReused = TRUE
  MaxEnds = 1
  MaxPairs = 2
  MaxTime = 2
  Person = {carol}
  PlatformAdmin = {}
  OrgOf <- OneOrg
  DeptOf <- NoDepartments
  NoDept = NoDept
  Role = {editor}
  Resource = {skill}
  App = {agentConfig}
  AgentConfig = agentConfig
  Caller = {c1}
  Bodies <- SmallBodies
  GrantActions <- GrantLists
  GrantTtl = 2
INVARIANT ReuseRevokesFamily
CHECK_DEADLOCK FALSE
