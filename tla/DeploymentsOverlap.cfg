SPECIFICATION Spec

CONSTANTS
  Requests = {r1, r2, r3}
  Names = {a}
  Pkgs = {p}
  Versions = {v1, v2}
  Configs = {c1}
  Overwrites = {}
  Channels = {"DEV"}
  Keep = 2
  Linked = FALSE
  Crowded = FALSE
  MaxClock = 1
  MaxManage = 0
  None = None
  NoOverwrites = NoOverwrites
  c1 = c1
  c2 = c2

SYMMETRY Symmetry

INVARIANTS
  HistoryBounded

CHECK_DEADLOCK FALSE
