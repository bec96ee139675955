SPECIFICATION Spec

CONSTANTS
  p = p
  q = q
  p1 = p1
  p2 = p2
  Pkgs = {p, q}
  Revs = {p1, p2}
  PkgOf <- MCPkgOf
  Overs = {NoOver, Over}
  NoOver = NoOver

  Linked = TRUE
  None = None
  MaxSent = 3
  MaxFaults = 1

SYMMETRY RevSymmetry

INVARIANTS
  TypeOK
  EditorShowsSelection
  SettingsKept
  HistoryShownIsChosen
  RowAgrees

CHECK_DEADLOCK FALSE
