SPECIFICATION Spec
CONSTANTS
  Threads = {t1, t2}
  NoThread = NoThread
  Fields = 2
  FieldBits = 2
  Blocks = 3
  Requests = {2, 3}
  Small = 1
  Retries = 1
  Recommit = TRUE
INVARIANT PurgeIsDue
