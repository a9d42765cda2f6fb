SPECIFICATION Spec
CONSTANTS
  MaxGates = 32
  MaxOutputs = 4
  in0 = in0
  in1 = in1
  in2 = in2
  in3 = in3
  in4 = in4
  in5 = in5
  Inputs = {in0, in1, in2, in3, in4, in5}
  Low = Low
  High = High
  Null = Null
  FrontEnds <- All
INVARIANTS
  PassesWellFormed
  FunctionKept
  Lowered
  AnalysisSound
PROPERTIES
  Terminates
