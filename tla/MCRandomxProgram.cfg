SPECIFICATION RandomxSpec
CONSTANTS
  ProgramSize = 4
  Registers = {a, b}
  HalfUnit = 2
  Fields = 4
  Latency = 8
  Regs = {5, 6, 7}
  Displaced = 5
  LookForward = 4
  MaxThrowaway = 1
  Draws = {1}
INVARIANTS
  TargetsAgree
  RoundingAgrees
  Decodable
  OperandsReady
PROPERTIES
  IterationEnds
