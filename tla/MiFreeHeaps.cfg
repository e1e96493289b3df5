CONSTANTS
  t1 = t1  t2 = t2  t3 = t3
  h1 = h1  h2 = h2  h3 = h3
  p1 = p1  p2 = p2
  b1 = b1  b2 = b2  b3 = b3
  Threads = {t1, t2, t3}
  NoThread = NoThread
  Main = t1
  Heaps = {h1, h2}
  NoHeap = NoHeap
  OwnerOf <- TwoHeaps
  Backing = {h1}
  Pages = {p1, p2}
  Blocks = {b1, b2, b3}
  NoBlock = NoBlock
  PageOf <- TwoPages
  MaxExtend = 2
  Destroys = TRUE
SPECIFICATION Spec
SYMMETRY BlockSymmetry
INVARIANTS LiveHasPage HeapStays HeapEmptied
