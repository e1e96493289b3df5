---------------------------- MODULE MCValueTypes ----------------------------
(* Three cells, two values, two boxes, views or blocks; a literal of three   *)
(* characters, the first and the last of which are the same, and two arrays  *)
(* of two elements and of one, with a 4-bit size_t; types that take every    *)
(* path of SmartAllocate, and counts around every constant that a count or a *)
(* size is compared with, with a 16-bit size_t.  The kinds share their model *)
(* values, so that one symmetry serves all of them.                          *)
EXTENDS ValueTypes, TLC

CONSTANTS x1, x2, x3, v1, v2, w1, w2, c1, c2, c3, ca, cb, cz

Literal == <<ca, cb, ca, cz>>

TwoArrays == {[first |-> 1, size |-> 2], [first |-> 3, size |-> 1]}

Char == [sizeof |-> 1,    alignof |-> 1,  Align |-> 1]
U64  == [sizeof |-> 8,    alignof |-> 8,  Align |-> 8]
Page == [sizeof |-> 2048, alignof |-> 8,  Align |-> 8]
Simd == [sizeof |-> 32,   alignof |-> 32, Align |-> 64]

AllTypes == {Char, U64, Page, Simd}
WordSize16 == 65536

Boundaries == {0, 1, 8, 9, 127, 128, 129, 1023, 1024, 1025, 65535}

\* The counts that std::vector may ask for, at most max_size(), without those
\* for which is_small_alloc is right about the count and wrong about the size.
InBytes(T) ==
  {n \in Boundaries : /\ n <= (WordSize16 - 1) \div T.sizeof
                      /\ \/ n >= 1024 \/ n * T.sizeof <= 1024
                         \/ T.sizeof > 1024 \/ T.alignof > 8}

\* All of them, for a vector of 8-byte elements.
OneU64 == {U64}
Legal(T) == {n \in Boundaries : n <= (WordSize16 - 1) \div T.sizeof}

Symmetry == Permutations(Cells) \cup Permutations(Datas)
=============================================================================
