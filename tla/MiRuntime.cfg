CONSTANTS
  t1 = t1
  t2 = t2
  Threads = {t1, t2}
  NoThread = NoThread
  Fields = 2
  FieldBits = 2
  Blocks = 3
  Requests = {2, 3}
  Small = 1
  Retries = 1
  Recommit = TRUE
  Areas = {"a1", "a2", "a3"}
  NoArea = "none"
  MaxArenas = 2
  Spare = 1
  AreaBlocks = 1
  Kinds <- TheKinds
  Wanted <- TheAsks
  Reserved = 4
  MaxExtend = 3
  Slices = 2
  MapBytes = 2
  MapBits = 4
  Starters = {"loader", "other"}
  Loader = "loader"
  Iterations = 4
  Options = {"verbose", "show_errors", "other"}
  Environments <- TheEnvironments
  MaxSets = 1
  Lengths = {1, 3}
  Capacity = 5
  MaxMessages = 3
  MaxAdds = 2
  Counts = {1, 2}
  Elements = {0, 1, 5}
  BlockSizes = {2, 4, 8, 12}
  Alignments = {4, 8}
  Offsets = {0, 2}
  SizeMax = 10
  Streams = {4, 9}
  BlockWords = 2
  Width = 4
  MaxCarries = 1
  MaxWords = 34
  MaxKeys = 1
SPECIFICATION RuntimeSpec
CHECK_DEADLOCK FALSE
SYMMETRY Symmetry
INVARIANTS InuseIsHeld CommittedIsAccessible ArenasKeep ListsAreSound BlocksKeep ProcessKeeps OptionsResolve ReportsAreTrue NoWordAgain
