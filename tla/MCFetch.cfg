SPECIFICATION TrSpec
CONSTANTS
  p1 = p1  p2 = p2  f1 = f1  f2 = f2
  s1 = s1  s2 = s2
  Bare = Bare  None = None
  StatusWrites = {{}, {"SUM", "MXR"}, {"MPRV"}}
  Pages = {p1, p2}
  DataPages = {p1}
  Frames = {f1, f2}
  Dram = {f1, f2}
  Spaces = {s1, s2}
  Pcs = {"pc"}
  Identity <- MCIdentity
  LeafOf <- MCLeafOf
  Asid <- MCAsid
  PagesOf <- MCPagesOf
  TlbSet <- MCOne
  SoftIndex <- MCOne
  HighPerf = TRUE
  EpochMax = 2
  PteWrites <- MCPtes
  EntryMax = 2
INVARIANT SupervisorFetch
