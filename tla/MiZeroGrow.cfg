CONSTANTS
  Counts = {1}
  Elements = {3, 5, 7}
  BlockSizes = {2, 4, 8, 12}
  Alignments = {4}
  Offsets = {0}
  SizeMax = 10
SPECIFICATION Spec
CHECK_DEADLOCK FALSE
INVARIANTS GrownIsZero
