SPECIFICATION Spec
CONSTANTS
  reset = reset
  clk = clk
  wa = wa
  data = data
  Inputs = {reset, clk, wa, data}
  Low = Low
  High = High
  Null = Null
  MaxGates = 11
  MaxOutputs = 1
  Networks <- OneRegister
  InputOrder <- Declared
  MayFollow <- OneEdge
INVARIANTS
  Settled
  UpToDate
  Determined
PROPERTIES
  Converges
  ImplementsRegister
