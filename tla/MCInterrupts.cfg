SPECIFICATION McSpec
CONSTANTS
  HasS = TRUE
  MipWrites = {{"SEIP", "STIP"}, {"MTIP", "MEIP", "SSIP"}}
  VirtioIrqs = {1}
  UartIrqs = {3}
  RtcIrqs = {3}
  MaxPriority = 1
  Half = 2
  Divider = 2
  MaxStep = 4
  BatchSize = 3
INVARIANTS
  LineAccounted
  NoDrift
  SignalsConsistent
PROPERTY
  TimerFires
