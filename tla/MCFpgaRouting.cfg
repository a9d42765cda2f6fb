SPECIFICATION Spec
CONSTANTS
  Rows = 4
  Cols = 2
  BusWidth = 3
  Resources <- GridCells
  a = a
  b = b
  g1 = g1
  g2 = g2
  Signals = {a, b, g1, g2}
  Clusters <- Small
  None = None
INVARIANTS
  TypeOK
  LanesExclusive
  Driven
  Realised
  CellsSuffice
  SearchComplete
  CostIsLanes
PROPERTIES
  Ends
