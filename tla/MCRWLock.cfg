CONSTANTS
  t1 = t1
  t2 = t2
  t3 = t3
  Threads <- MCThreads
  NumCounters = 2
SPECIFICATION FairSpec
INVARIANTS
  TypeOK
  MutualExclusion
  CountersExact
  SumMissesNobody
PROPERTIES
  ImplementsLock
  AnnouncedEnters
