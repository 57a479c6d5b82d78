CONSTANTS
  t1 = t1
  t2 = t2
  t3 = t3
  Threads <- Three
  MaxKeys = 2
  Inf = 6
  Height = 3
  LevelOf <- Levels3
  Work <- ScanWork
  MaxInserts <- ScanBound
SPECIFICATION FairSpec
PROPERTIES
  ScansOrdered
  ScansComplete
  CallsEnd
