SPECIFICATION Spec

CONSTANTS
  Requests = {r1, r2, r3}
  Names = {a}
  Pkgs = {p}
  Versions = {v1}
  Configs = {c1}
  Overwrites <- OverEither
  Channels = {"DEV"}
  Keep = 2
  Linked = TRUE
  Crowded = FALSE
  MaxClock = 1
  MaxManage = 0
  None = None
  NoOverwrites = NoOverwrites
  c1 = c1
  c2 = c2

SYMMETRY Symmetry

INVARIANTS
  TypeOK
  PutTakesEffect
  HistoryConsistent
  ClusterRunsListed

CHECK_DEADLOCK FALSE
