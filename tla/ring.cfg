SPECIFICATION FairSpec
CONSTANTS
  ip1 = ip1
  ip2 = ip2
  key = key
  t1 = t1
  t2 = t2
  s1 = s1
  s2 = s2
  IPs <- MCIPs
  Keys <- MCKeys
  Callers <- MCCallers
  Slices <- MCSlices
  Contents <- MCContents
  Locate <- MCLocate
  Nobody = Nobody
  NoQuestion = NoQuestion
  Pending = Pending
  MaxChanges = 4
INVARIANTS TypeOK RingFollowsStore
PROPERTIES AnswersAreAtomic HandlerFinishes RingCatchesUp
CHECK_DEADLOCK FALSE
