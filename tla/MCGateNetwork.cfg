SPECIFICATION Spec
CONSTANTS
  MaxGates = 3
  MaxOutputs = 1
  Inputs = {}
  Low = Low
  High = High
  Null = Null
INVARIANTS
  TypeOK
  UsesExact
  NoDeadRead
PROPERTIES
  ErasedForGood
CHECK_DEADLOCK FALSE
