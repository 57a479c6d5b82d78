CONSTANTS
  t1 = t1
  t2 = t2
  t3 = t3
  Threads <- Three
  MaxKeys = 3
  Inf = 6
  Height = 3
  LevelOf <- Levels3
  Work <- ZeroWork
  MaxInserts <- ZeroBound
SPECIFICATION Spec
PROPERTIES
  ZeroSeparate
