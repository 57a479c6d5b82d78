CONSTANTS
  t1 = t1
  t2 = t2
  t3 = t3
  Threads <- Three
  LeafSlots = 2
  InnerSlots = 2
  MaxNodes = 12
  Work <- SplitWork
SPECIFICATION FairSpec
INVARIANTS
  TypeOK
  LeavesLinked
  TreeVerified
  LocksExact
  SlotsStay
PROPERTIES
  ScansWhole
  ImplementsMap
  CallsEnd
