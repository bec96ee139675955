SPECIFICATION Spec

CONSTANTS
  Requests = {r1, r2}
  Names = {a, b}
  Pkgs = {p}
  Versions = {v1, v2}
  Configs = {c1}
  Overwrites = {}
  Channels = {"DEV", "BETA"}
  Keep = 2
  Linked = TRUE
  Crowded = FALSE
  MaxClock = 0
  MaxManage = 2
  None = None
  NoOverwrites = NoOverwrites
  c1 = c1
  c2 = c2

SYMMETRY Symmetry

PROPERTIES
  ImplementsHistory

INVARIANTS
  PutTakesEffect
  HistoryConsistent
  ListedOnce
  ClusterRunsListed

CHECK_DEADLOCK FALSE
