SPECIFICATION Spec
CONSTANTS
  MaxGates = 6
  MaxOutputs = 1
  in0 = in0
  in1 = in1
  Inputs = {in0, in1}
  Low = Low
  High = High
  Null = Null
  InputOrder <- Declared
  GateNetworks <- LoweredNetworks
  Wirings <- HandWirings
INVARIANTS
  NoPlaceholderLeft
  GatesAgree
  VerdictIsRight
  ShortsAreConflicts
PROPERTIES
  Ends
