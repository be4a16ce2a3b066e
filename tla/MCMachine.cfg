SPECIFICATION McSpec
CONSTANTS
  NumSets = 1
  CacheWays = 2
  LineBytes = 2
  RamBytes = 8
  Program <- SomeProgram
  Behind <- SomeBehind
  Baremetal = TRUE
  UndoMax = 2
  TickMax = 5
  Devices = {"fb", "input", "rtc", "bad", "edge"}
  base_address <- SomeBase
  size <- SomeSize
  hole <- SomeHole
  read_only = {"rtc"}
  DramBase = 0
  DramSize = 3
  AddrMax = 25
  Widths = {1, 2, 4}
  ReqMax = 1
  Bytes = {"a"}
  FifoMax = 2
  Sessions = {"cli", "tui", "tui_batch"}
  QueueNum = 2
  IdxMod = 4
  WordMod = 8
  Heads = {h1, h2}
  NumSectors = 1
  Blocks = {"b0", "b1"}
  Requests <- SomeRequests
  Kinds = {"disk", "console"}
  UserKeys = {"pause", "run", "reboot", "quit", "modal", "click_pause"}
  Outcomes = {"retire", "poweroff", "reset", "exit", "ebreak", "trap", "novector"}
  Batch = TRUE
  KeyMax = 2
  RunUndoMax = 1
  CodeMax = 4
INVARIANTS
  MachineTypes
  OnlyBypassStale
  RouteExact
  LineExact
  NoLostCompletion
PROPERTIES
  BackstepRestores
  RxReported
  NotifyReturns
  InOrderOnce
  PauseHonoured
  Teardown
  RunResumes
