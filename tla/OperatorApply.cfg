SPECIFICATION Spec

CONSTANTS
  Workloads = {w1}
  Configs = {c1}
  Secrets = {}
  Owned = {c1}
  SelfNamed = {c1}
  Watched = {c1}
  UserLabels = {"none", "self", "other"}
  Images = {i1, i2}
  Orders = {o1, o2}
  Data = {d1}
  MaxEdits = 2
  MaxFaults = 1
  Refs <- MCRefs
  WorkloadKinds <- OneKind
  KindOf <- MCKindOf
  EmptyData = EmptyData
  None = None
  w1 = w1
  w2 = w2
  c1 = c1
  c2 = c2
  i1 = i1
  i2 = i2
  o1 = o1
  o2 = o2
  d1 = d1
  d2 = d2
  d3 = d3

SYMMETRY ValueSymmetry

INVARIANTS
  TypeOK
  AppliedWhenQuiet

CHECK_DEADLOCK FALSE
