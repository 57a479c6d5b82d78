CONSTANTS
  t1 = t1
  t2 = t2
  Threads <- Two
  Bg = Bg
  Work <- MainWork
  Loops <- MainLoops
  Levels <- MainLevels
  MaxNodes = 11
  MaxItems = 16
SPECIFICATION FairSpec
INVARIANTS
  TypeOK
  ListWhole
  IndexSound
PROPERTIES
  RemovedStays
  ImplementsMap
  CallsEnd
