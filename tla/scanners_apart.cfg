SPECIFICATION Spec
CONSTANTS
  n1 = n1
  n2 = n2
  n3 = n3
  cve1 = cve1
  cve2 = cve2
  i1 = i1
  i2 = i2
  Names <- MCNames
  NamesOf <- Shared
  Severities <- MCSeverities
  Contents <- MCContents
  Flags <- OneFlag
  Unset = Unset
  None = None
  MaxChanges = 2
PROPERTIES ScannersApart
CHECK_DEADLOCK FALSE
