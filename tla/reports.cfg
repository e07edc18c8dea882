SPECIFICATION Spec
CONSTANTS
  p1 = p1
  p2 = p2
  r1 = r1
  r2 = r2
  Pods <- MCPods
  Reports <- TwoReports
  KindOf <- BothKinds
  Locate <- MCLocate
  NoLabel = NoLabel
  NilLabels = NilLabels
  Found <- AnyFound
  MaxEvents = 2
  MaxVersions <- FewerOfManifests
CONSTRAINT OneAtATime
INVARIANTS StaleSeriesRevisited NoLostScan ServesUnderItsLabel
PROPERTIES ExporterWritesOnlyItsOwn ManifestClearedOnShutdown
CHECK_DEADLOCK FALSE
