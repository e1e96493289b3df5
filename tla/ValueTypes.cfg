CONSTANTS
  x1 = x1
  x2 = x2
  x3 = x3
  v1 = v1
  v2 = v2
  w1 = w1
  w2 = w2
  c1 = c1
  c2 = c2
  c3 = c3
  ca = ca
  cb = cb
  cz = cz
  Cells = {x1, x2, x3}
  Numbers = {1, 2, 3}
  Datas = {v1, v2}
  Vals = {w1, w2}
  DefaultVal = w1
  Classes = {c1, c2, c3}
  Base = c1
  Holders = {v1, v2}
  Null = Null
  Memory <- Literal
  Nul = cz
  Outside = Outside
  Lengths = {0, 1, 2, 3, 14, 15}
  Arrays <- TwoArrays
  ViewWord = 16
  Types <- AllTypes
  Counts <- InBytes
  AllocWord <- WordSize16
  MaxScopes = 2
SPECIFICATION Spec
CHECK_DEADLOCK FALSE
SYMMETRY Symmetry
INVARIANTS StoragesAreTruthful InBounds LocksAreKept
PROPERTY CellsAreOptionals IsStrings
