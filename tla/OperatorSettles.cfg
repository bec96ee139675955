SPECIFICATION FairSpec

CONSTANTS
  Workloads = {w1}
  Configs = {c1}
  Secrets = {}
  Owned = {}
  SelfNamed = {}
  Watched = {c1}
  UserLabels = {"none", "self", "other"}
  Images = {i1}
  Orders = {o1, o2}
  Data = {d1, d2}
  MaxEdits = 1
  MaxFaults = 1
  Refs <- MCRefs
  WorkloadKinds <- OneKind
  KindOf <- MCKindOf
  EmptyData = EmptyData
  None = None
  w1 = w1
  w2 = w2
  c1 = c1
  c2 = c2
  i1 = i1
  i2 = i2
  o1 = o1
  o2 = o2
  d1 = d1
  d2 = d2
  d3 = d3

PROPERTIES
  Settles

CHECK_DEADLOCK FALSE
