CONSTANTS
  t1 = t1  t2 = t2  t3 = t3
  h1 = h1  h2 = h2  h3 = h3
  p1 = p1  p2 = p2
  b1 = b1  b2 = b2  b3 = b3
  Threads = {t1, t2}
  NoThread = NoThread
  Main = NoThread
  Heaps = {h1, h2, h3}
  NoHeap = NoHeap
  OwnerOf <- ThreeHeaps
  Backing = {h1, h3}
  Pages = {p1}
  Blocks = {b1, b2}
  NoBlock = NoBlock
  PageOf <- OnePage2
  MaxExtend = 2
  Destroys = FALSE
SPECIFICATION FairSpec
PROPERTIES EveryCallReturns NoPageForgotten
