CONSTANTS
  t1 = t1
  t2 = t2
  t3 = t3
  Threads <- Three
  MaxKeys = 2
  Inf = 6
  Height = 3
  LevelOf <- Levels3
  Work <- InsertWork
  MaxInserts <- InsertBound
SPECIFICATION Spec
INVARIANTS
  TypeOK
  NodesFit
  KeysAscend
  NextHeaderExact
  ListsWhole
  ChildAligned
  TowersWhole
  ReadersExact
  WriterExact
  LockOrder
PROPERTIES
  WritesAlone
  HeadersFixed
  KeysStay
  ImplementsMap
