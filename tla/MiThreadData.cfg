CONSTANTS
  Threads = {t1, t2}
  Main = Main
  Data = {d1, d2, d3}
  Null = Null
  Slots = 1
  MaxFails = 1
SPECIFICATION Spec
CHECK_DEADLOCK FALSE
INVARIANTS NoDataIsLost
