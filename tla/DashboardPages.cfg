SPECIFICATION Spec
CONSTANTS
  None = None
  MaxSent = 3
  MaxFaults = 1
  IDs = {i, j}
  Names = {a, b}
  Vals = {x, y}
  GroupNames = {i, j}
  EnvNames = {dev}
  Infos = {a, b}
  ClusterIDs = {c}
  Versions = {1, 2}
  Revisions = {r}
  Channels <- TwoChannels
  adm = adm
  mem = mem
  g = g
  h = h
  Accounts = {adm, mem}
  RoleGroups = {g, h}
  Home = Home
  Rights <- AdminAndMember
SYMMETRY PageSymmetry
INVARIANTS
  TypeOK
  RowsReachTheirRecords
  RowsShowTheirRecords
  EnvsOfTheirGroup
  EnvsShowTheServers
  VersionsOfTheChannel
  SessionOfOneAccount
  LoginLeadsBack
  ControlsAreAllowed
CHECK_DEADLOCK FALSE
