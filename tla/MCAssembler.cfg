SPECIFICATION Spec
CONSTANTS
  Programs <- AllPrograms
  Junk <- AllJunk
  Limit = 69
  Null = Null
INVARIANTS
  AssemblesProgram
  RefusesOnlyDefects
  PassesAgree
  NothingDropped
PROPERTIES
  Returns
