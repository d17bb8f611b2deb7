SPECIFICATION AuthSpec
CONSTANTS
  Parts <- BothParts
  User = {alice, bob}
  DirectoryUser = {alice, bob}
  Request = {q1, q2}
  AccessTtl = 2
  RefreshTtl = 2
  KeepReused = FALSE
  MaxEnds = 1
  MaxPairs = 3
  MaxTime = 3
  Person = {carol}
  PlatformAdmin = {}
  OrgOf <- OneOrg
  DeptOf <- NoDepartments
  NoDept = NoDept
  Role = {editor}
  Resource = {skill}
  App = {agentConfig}
  AgentConfig = agentConfig
  Caller = {c1, c2}
  Bodies <- SmallBodies
  GrantActions <- GrantLists
  GrantTtl = 2
INVARIANTS AuthTypeOK LoggedOutIsOut ShutEndsSessions OneLivePerFamily OneFounder
  DecisionsAgree StaleGrantsExpire
CHECK_DEADLOCK FALSE
SYMMETRY AuthSymmetry
