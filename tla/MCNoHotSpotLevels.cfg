CONSTANTS
  t1 = t1
  t2 = t2
  Threads <- Two
  Bg = Bg
  Work <- LevelsWork
  Loops <- LevelsLoops
  Levels <- LevelsLevels
  MaxNodes = 3
  MaxItems = 4
SPECIFICATION Spec
INVARIANT LevelsCounted
