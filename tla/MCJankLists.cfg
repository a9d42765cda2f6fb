SPECIFICATION Spec
CONSTANTS
  Programs <- NoPrograms
  Expressions <- NoPrograms
  Texts <- Lists
  MaxInt = 8
  Null = Null
INVARIANTS
  NothingLeft
