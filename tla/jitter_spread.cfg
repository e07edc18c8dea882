SPECIFICATION Spec
CONSTANTS
  n1 = n1
  n2 = n2
  Names <- TwoNames
  Counts <- FewCounts
  None = None
  Never = Never
  RequeueDuration = 5
  JitterPercents <- Percents
  Backoff <- Backoffs
  MaxEvents = 2
SYMMETRY Alike
INVARIANTS SpreadBothWays
CHECK_DEADLOCK FALSE
