SPECIFICATION TrapSpec
CONSTANTS
  HasS = TRUE
  HasU = TRUE
  DirectSbi = TRUE
  MipWrites = {{"SSIP"}}
  MstatusWrites = {{"SIE", "MPRV"}, {"SPP", "MPIE", "SPIE", "MIE"}}
  MieWrites = {{}, {"MTIP", "SEIP", "SSIP"}}
  DelegWrites = {{}, {"SEIP", "SSIP", "Fault"}}
  Lines = {"MTIP", "seip_external"}
INVARIANTS
  TrapTypeOK
  InterruptLegal
  Prompt
PROPERTY SupervisorConfined
