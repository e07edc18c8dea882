SPECIFICATION FairSpec
CONSTANTS
  n1 = n1
  Names <- OneName
  Me = me
  Other = other
  Cleared = cleared
  Missing = missing
  None = None
  MaxChanges = 3
INVARIANT TypeOK
PROPERTIES ReadsAreVersions HydratedReadsAdvance ApiReadsCease LabelSettles
CHECK_DEADLOCK FALSE
