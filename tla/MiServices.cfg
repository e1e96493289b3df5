CONSTANTS
  t1 = t1
  t2 = t2
  p1 = p1
  p2 = p2
  p3 = p3
  Threads = {t1, t2}
  Main = Main
  Pages = {p1, p2, p3}
  Backing = Backing
  Extra = Extra
  None = None
  Abandoned = Abandoned
  MaxTag = 6
  SizeTable <- BinSizes
  SmallMax = 10
  Requests = {3, 13}
  Blocks = 2
  RetireCycles = 1
  Low = 10
  HugePages = 2
  Sizes = {3, 8}
  PageAlignments = {2, 4}
  Ranges <- InBlock
  MaxHeld = 2
  Slots = 1
  MaxFails = 1
  Words = 3
  WordBits = 2
  Lengths = {1, 3}
SPECIFICATION ServicesSpec
CHECK_DEADLOCK FALSE
SYMMETRY Symmetry
INVARIANTS FollowsMapped QueuesKeep OsKeepsMemory DataHasOneHolder MapFinds
PROPERTY IsAbandonedSet
