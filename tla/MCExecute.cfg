SPECIFICATION UnitSpec
CONSTANTS
  Units = {"vector", "memory", "decode", "integer", "reservation", "float"}
  IntBits = 8
  ByteBits = 2
  NRegs = 6
  VlenBytes = 8
  ImmBits = 3
  Patterns <- SomePatterns
  Instructions <- SomeInstructions
  Settings <- SomeSettings
  PageBytes = 8
  Pages = 3
  MemOps <- SomeMemOps
  DecodeRows <- SomeRows
  IntRows <- SomeIntRows
  Values <- SomeValues
  Pcs <- SomePcs
  Words = {w1, w2}
  Single <- SingleFormat
  Double <- DoubleFormat
  FpInstructions <- SomeFloatRows
  FloatValues <- SomeFloats
  FusedValues <- SomeFused
INVARIANTS
  DecompressExact
  DecodeExact
  StagesExact
  PathsAgree
  ScExact
  FloatExact
PROPERTIES
  VectorExact
  RestartTransparent
  RestartCompletes
