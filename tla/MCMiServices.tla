---------------------------- MODULE MCMiServices ----------------------------
(* Two threads; three pages, segments or blocks of thread data, which share *)
(* their model values, so that one symmetry serves all parts; the first     *)
(* eight bins, of which the program uses a small one that skips a bin, a    *)
(* medium one and the huge one; ten pages and two huge ones of address      *)
(* space.                                                                   *)
EXTENDS MiServices, TLC

CONSTANTS t1, t2, p1, p2, p3

BinSizes == <<1, 2, 3, 4, 5, 6, 7, 8, 10, 12>>

InBlock == {<<1, 3>>}

Symmetry == Permutations(Pages)
=============================================================================
