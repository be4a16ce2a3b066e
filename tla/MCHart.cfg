SPECIFICATION HartSpec
CONSTANTS
  p1 = p1  p2 = p2  f1 = f1  f2 = f2
  s1 = s1  s2 = s2
  Bare = Bare  None = None
  StatusWrites = {{}, {"SUM", "MXR"}, {"MPRV"}}
  Pages = {p1, p2}
  DataPages = {p1}
  Frames = {f1, f2}
  Dram = {f1, f2}
  Spaces = {s1, s2}
  Pcs = {"pc"}
  Identity <- MCIdentity
  LeafOf <- MCLeafOf
  Asid <- MCAsid
  PagesOf <- MCPagesOf
  TlbSet <- MCOne
  SoftIndex <- MCOne
  HighPerf = TRUE
  EpochMax = 2
  PteWrites <- MCPtes
  EntryMax = 2
  Insts <- SomeInsts
  Configs <- SomeConfigs
  BtbBuilt = 2
  BhtSize = 2
  HistoryMax = 2
  CounterMod = 16
  InstMax = 6
  SavedMax = 1
  CodeAddrs = {8, 9}
  DataAddrs = {1}
  Regs = {"x1"}
  PcReg = "pc"
  Vals = {0, 1}
  WatchMax = 2
  Code = {0, 1, 2}
  Vector = 2
  RegMod = 2
  Words = {"i", "j", "none", "ebreak"}
  Commands <- SomeCommands
  CmdMax = 3
CONSTRAINT Few
INVARIANTS
  TlbCoherent
  SoftCoherent
  DecodeCoherent
  Accounted
  StepReturns
  BreakpointsTransparent
  Answered
  StepStops
PROPERTIES
  OperandsReady
  NeverPassedTwice
  RegWatchPauses
