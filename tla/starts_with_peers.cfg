SPECIFICATION Spec
CONSTANTS
  p1 = p1
  p2 = p2
  r1 = r1
  r2 = r2
  Pods <- MCPods
  Reports <- OneReport
  KindOf <- TrivyKind
  Locate <- MCLocate
  NoLabel = NoLabel
  NilLabels = NilLabels
  Found <- AnyFound
  MaxEvents = 1
  MaxVersions <- TwoVersions
PROPERTIES StartsWithPeers
CHECK_DEADLOCK FALSE
