--------------------------- MODULE MCMiDelayedFree ---------------------------
(* Small processes: which thread has which heaps, and which block lies in  *)
(* which page.                                                             *)
EXTENDS MiDelayedFree, TLC

CONSTANTS t1, t2, t3, h1, h2, h3, p1, p2, b1, b2, b3

\* One heap, of t1; the other threads only free.
OneHeap == (h1 :> t1)
\* t1 has a backing heap and another one.
TwoHeaps == (h1 :> t1) @@ (h2 :> t1)
\* Every thread has its heap.
HeapEach == (h1 :> t1) @@ (h2 :> t2)
\* t1 has two heaps and t2 one.
ThreeHeaps == (h1 :> t1) @@ (h2 :> t1) @@ (h3 :> t2)

OnePage2 == (b1 :> p1) @@ (b2 :> p1)
OnePage3 == (b1 :> p1) @@ (b2 :> p1) @@ (b3 :> p1)
TwoPages == (b1 :> p1) @@ (b2 :> p1) @@ (b3 :> p2)

\* The blocks of p1 are interchangeable.
BlockSymmetry == Permutations({b1, b2})
=============================================================================
