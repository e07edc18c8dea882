SPECIFICATION FairSpec
CONSTANTS
  p1 = p1
  p2 = p2
  r1 = r1
  r2 = r2
  Pods <- MCPods
  Reports <- OneReport
  KindOf <- TrivyKind
  Locate <- MCLocate
  NoLabel = NoLabel
  NilLabels = NilLabels
  Found <- LegacyFound
  MaxEvents = 2
  MaxVersions <- ThreeVersions
INVARIANTS TypeOK NoReportForgotten
PROPERTIES OnlyOwnerServes OwnerServes FinalizerReleased
CHECK_DEADLOCK FALSE
