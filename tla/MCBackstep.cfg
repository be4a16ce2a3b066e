SPECIFICATION PathSpec
CONSTANTS
  NumSets = 1
  CacheWays = 2
  LineBytes = 2
  RamBytes = 8
  Program <- UndoProgram
  Behind <- SomeBehind
  Baremetal = TRUE
  UndoMax = 2
  TickMax = 7
PROPERTY BackstepVisible
