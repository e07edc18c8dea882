SPECIFICATION Spec
CONSTANTS
  n1 = n1
  n2 = n2
  n3 = n3
  cve1 = cve1
  cve2 = cve2
  i1 = i1
  i2 = i2
  Names <- MCNames
  NamesOf <- Apart
  Severities <- MCSeverities
  Contents <- MCContents
  Flags <- MCFlags
  Unset = Unset
  None = None
  MaxChanges = 4
INVARIANTS TypeOK SummaryMatchesReport AllCounted DetailsMatchReport ScoresMatchReport OneImagePerReport OneDetailVector LabelsAsAsked
CHECK_DEADLOCK FALSE
