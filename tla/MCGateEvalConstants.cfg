SPECIFICATION Spec
CONSTANTS
  in0 = in0
  Inputs = {in0}
  Low = Low
  High = High
  Null = Null
  MaxGates = 2
  MaxOutputs = 1
  Networks <- OnConstants
  InputOrder <- Declared
  MayFollow <- Anything
INVARIANT Settled
