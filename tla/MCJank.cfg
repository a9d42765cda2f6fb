SPECIFICATION Spec
CONSTANTS
  Programs <- AllPrograms
  Expressions <- AllExpressions
  Texts <- AllTexts
  MaxInt = 8
  Null = Null
INVARIANTS
  ParsesAsWritten
  RefusesOnlyMistakes
  FollowsPrecedence
PROPERTIES
  Returns
