SPECIFICATION Spec

CONSTANTS
  Requests = {r1, r2, r3}
  Names = {a}
  Pkgs = {p}
  Versions = {v1}
  Configs = {c1}
  Overwrites = {}
  Channels = {"DEV"}
  Keep = 3
  Linked = FALSE
  Crowded = FALSE
  MaxClock = 0
  MaxManage = 0
  None = None
  NoOverwrites = NoOverwrites
  c1 = c1
  c2 = c2

PROPERTIES
  LatestIsRecorded

CHECK_DEADLOCK FALSE
