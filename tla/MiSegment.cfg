SPECIFICATION Spec
CONSTANTS
  NoThread = NoThread
  Threads = {t1, t2}
  Segments = {s1, s2}
  Slices = 6
  MaxOffset = 1
  Requests = {2, 3}
  HugeRequests = {6}
  Visits = 1
  PurgeDelay = "later"
  Recommit = TRUE
SYMMETRY Symmetry
CHECK_DEADLOCK FALSE
INVARIANTS
  SegmentsAreValid
  PagesAreKept
  AbandonedIsListed
