SPECIFICATION PipeSpec
CONSTANTS
  Insts <- SomeInsts
  Configs <- LargeTable
  BtbBuilt = 2
  BhtSize = 2
  HistoryMax = 2
  CounterMod = 16
  InstMax = 3
  SavedMax = 1
INVARIANT NeverThrows
