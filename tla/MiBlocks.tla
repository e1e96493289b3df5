------------------------------ MODULE MiBlocks ------------------------------
(***************************************************************************)
(* What the allocation functions of mimalloc make of the blocks of a page  *)
(* (alloc.c, alloc-aligned.c, alloc-posix.c): blocks that are zeroed,      *)
(* aligned inside a larger block, moved or resized in place, copied into,  *)
(* and, in builds with MI_PADDING, guarded by a padding that tells the     *)
(* exact size and is checked when the block is freed.                      *)
(*                                                                         *)
(* One block at a time: that blocks do not overlap is the matter of the    *)
(* modules of pages and segments.  Memory is counted in units of half a    *)
(* word; what a unit holds is what the program wrote, zero, or neither.    *)
(***************************************************************************)
EXTENDS Integers, FiniteSets

CONSTANTS
  Counts, Elements,  \* numbers and sizes of elements asked for, in units
  BlockSizes,        \* the block sizes of the pages, in units
  Alignments,        \* alignments asked for, in units
  Offsets,           \* offsets at which they are asked for
  SizeMax            \* bound: what a size_t can hold, plus one

VARIABLES
  padding,  \* built with MI_PADDING and MI_PADDING_CHECK
  p         \* the block, or NoBlock

vars == <<padding, p>>

Word == 2                 \* sizeof(intptr_t)
MI_MAX_ALIGN_SIZE == 4
MI_SMALL_SIZE_MAX == 12   \* bound: 128 words in the code
MI_MAX_ALIGN_GUARANTEE == 8 * MI_MAX_ALIGN_SIZE
AddressRange == 8        \* addresses count modulo the largest alignment
MI_PADDING_SIZE == IF padding THEN 2 ELSE 0

Below(n) == 0 .. n - 1
Smaller(m, n) == IF m < n THEN m ELSE n
PowerOfTwo(n) == n \in {1, 2, 4, 8, 16, 32}

NoBlock == [bs |-> 0]

\* As mi_bin has them: but for one word, block sizes are multiples of two
\* words, two words is one, and so are the multiples of four words up to what
\* is aligned by itself.
BlocksAssumption ==
  /\ Counts \subseteq Nat /\ Elements \subseteq Nat /\ Offsets \subseteq Nat
  /\ Alignments \subseteq Nat \ {0}
  /\ \A al \in Alignments : PowerOfTwo(al) => al <= AddressRange
  /\ BlockSizes \subseteq Nat \ {0} /\ 2 * Word \in BlockSizes
  /\ \A c \in BlockSizes : c = Word \/ c % (2 * Word) = 0
  /\ \A c \in BlockSizes : \A n \in 1 .. Smaller(c, MI_MAX_ALIGN_GUARANTEE) :
       n % (4 * Word) = 0 => n \in BlockSizes

Init == padding \in BOOLEAN /\ p = NoBlock

\* mi_count_size_overflow: the product, or nothing.
Total(count, size) ==
  IF count = 1 \/ count * size < SizeMax THEN {count * size} ELSE {}

---------------------------------------------------------------------------
\* Sizes and the padding.

UsableBlockSize(b) == b.bs - MI_PADDING_SIZE

\* mi_page_usable_size_of, mi_page_usable_aligned_size_of.
UsableSize(b) == UsableBlockSize(b) - b.delta - b.adjust

\* The units of the padding that mi_verify_padding looks at.
Verified(b) ==
  {UsableBlockSize(b) - b.delta + i : i \in Below(Smaller(b.delta, MI_MAX_ALIGN_SIZE))}

\* _mi_padding_shrink: the padding leaves room for n.
Shrink(b, n) ==
  IF ~padding \/ UsableBlockSize(b) - b.delta >= n THEN b
  ELSE [b EXCEPT !.delta = UsableBlockSize(b) - n]

\* The blocks that a page may give for n units: pages start at multiples of
\* their block size.  zeros: the units that are zero.
BlocksFor(n, zero) ==
  LET size == IF padding /\ n = 0 THEN Word ELSE n
      fits == {c \in BlockSizes : c >= size + MI_PADDING_SIZE}
  IN  IF fits = {} THEN {}
      ELSE LET bs == CHOOSE c \in fits : \A d \in fits : c <= d
               room == bs - MI_PADDING_SIZE
               delta == IF padding THEN room - size ELSE 0
           IN  {[bs |-> bs, at |-> (k * bs) % AddressRange, adjust |-> 0,
                 delta |-> delta,
                 fill |-> {size + i : i \in Below(Smaller(delta, MI_MAX_ALIGN_SIZE))},
                 zeros |-> IF zero THEN Below(room) ELSE {},
                 intact |-> {}, freed |-> FALSE] : k \in Below(AddressRange \div Word)}

\* The pointer inside b that has its offset aligned.
Adjust(b, n, al, offset) ==
  LET adjust == (al - ((b.at + offset) % al)) % al
      moved == [b EXCEPT !.adjust = adjust,
                         !.zeros = IF b.zeros = {} THEN {}
                                   ELSE Below(UsableBlockSize(b) - adjust)]
  IN  IF adjust = 0 THEN b ELSE Shrink(moved, adjust + n)

\* mi_heap_malloc_zero_aligned_at_fallback, below MI_ALIGNMENT_MAX.
Fallback(n, al, offset, zero) ==
  LET padsize == n + MI_PADDING_SIZE
  IN  IF offset = 0 /\ al <= padsize /\ padsize <= MI_MAX_ALIGN_GUARANTEE
           /\ padsize % al = 0
      THEN BlocksFor(n, zero)
      ELSE {Adjust(b, n, al, offset) : b \in BlocksFor(n + al - 1, zero)}

\* mi_heap_malloc_zero_aligned_at: the next small block, if it is aligned.
AlignedAt(n, al, offset, zero) ==
  LET padsize == n + MI_PADDING_SIZE
      small == padsize <= MI_SMALL_SIZE_MAX /\ al <= padsize
      chance == {b \in BlocksFor(n, zero) : (b.at + offset) % al = 0}
  IN  IF ~PowerOfTwo(al) THEN {}
      ELSE (IF small THEN chance ELSE {}) \cup Fallback(n, al, offset, zero)

\* mi_heap_malloc_aligned: small blocks are aligned by themselves.
Aligned(n, al) ==
  LET natural == IF padding THEN \/ al = Word
                                 \/ al = MI_MAX_ALIGN_SIZE /\ 2 * n > MI_MAX_ALIGN_SIZE
                            ELSE PowerOfTwo(n) /\ n >= al
  IN  IF ~PowerOfTwo(al) THEN {}
      ELSE IF natural /\ n <= MI_SMALL_SIZE_MAX THEN BlocksFor(n, FALSE)
      ELSE AlignedAt(n, al, 0, FALSE)

---------------------------------------------------------------------------
\* What the program has: it asked for req units, with an offset aligned, and
\* counts on what it wrote and on what it was told is zero.  clean: it has
\* asked for zeroed memory from the start; tail: what is behind req is zero;
\* grown: what a resizing function said is zero.
Given(b, req, al, offset, wrote, zeroed, grown, clean, tail) ==
  [bs |-> b.bs, at |-> b.at, adjust |-> b.adjust, delta |-> b.delta,
   fill |-> b.fill, zeros |-> b.zeros, intact |-> b.intact, freed |-> FALSE,
   req |-> req, al |-> al, offset |-> offset % al, wrote |-> wrote,
   zeroed |-> zeroed, grown |-> grown, clean |-> clean, tail |-> tail]

Holding == p # NoBlock /\ ~p.freed

\* mi_malloc, mi_zalloc, mi_calloc, mi_mallocn.
Malloc(count, size, zero) ==
  /\ p = NoBlock
  /\ \E n \in Total(count, size) : \E b \in BlocksFor(n, zero) :
       p' = Given(b, count * size, 1, 0, {}, IF zero THEN Below(count * size) ELSE {},
                  {}, zero, zero)
  /\ UNCHANGED padding

\* mi_malloc_aligned_at and its family; those without an offset but for
\* mi_malloc_aligned ask at offset 0.
MallocAligned(n, al, offset, zero) ==
  /\ p = NoBlock
  /\ \E b \in AlignedAt(n, al, offset, zero)
                \cup (IF offset = 0 /\ ~zero THEN Aligned(n, al) ELSE {}) :
       p' = Given(b, n, al, offset, {}, IF zero THEN Below(n) ELSE {}, {}, zero, zero)
  /\ UNCHANGED padding

\* mi_strdup of m characters, mi_strndup of at most n of them: characters
\* and the terminating zero.
Strndup(m, n) ==
  LET len == Smaller(m, n) IN
  /\ p = NoBlock
  /\ \E b \in BlocksFor(len + 1, FALSE) :
       p' = Given([b EXCEPT !.intact = Below(len), !.zeros = {len}], len + 1, 1, 0,
                  Below(len), {len}, {}, FALSE, FALSE)
  /\ UNCHANGED padding

\* The program writes all that it has asked for.
Write ==
  /\ Holding
  /\ p' = [p EXCEPT !.intact = Below(p.req), !.wrote = Below(p.req),
                    !.zeros = @ \ Below(p.req), !.zeroed = {}, !.grown = {}]
  /\ UNCHANGED padding

---------------------------------------------------------------------------
\* Resizing.

\* What the program counts on afterwards, where zero is said of what is
\* beyond `from'.
Resized(b, n, al, offset, zero, from) ==
  LET told == IF zero /\ p.clean THEN Below(n) \ Below(p.req) ELSE {}
  IN  Given(b, n, al, offset, p.wrote \cap Below(n),
            (p.zeroed \cap Below(n)) \cup (told \ Below(from)),
            (p.grown \cap Below(n)) \cup told, p.clean /\ zero,
            p.tail /\ b = p /\ n >= p.req)

InPlace(n, al, offset, zero) ==
  p' = Resized(p, n, al, offset, zero, IF p.tail THEN p.req ELSE n)

\* Into b: what is beyond the old block is zeroed, the rest is copied.
Move(b, n, al, offset, zero) ==
  LET size == UsableSize(p)
      start == IF size >= Word THEN size - Word ELSE 0
      copied == Below(Smaller(n, size))
      cleared == IF zero /\ n > size THEN Below(n) \ Below(start)
                 ELSE IF n = 0 THEN {0} ELSE {}
  IN  p' = Resized([b EXCEPT !.intact = p.intact \cap copied,
                             !.zeros = (cleared \ copied) \cup (p.zeros \cap copied)],
                   n, al, offset, zero, IF p.tail THEN p.req ELSE size)

\* _mi_heap_realloc_zero, for mi_realloc, mi_reallocn, mi_rezalloc, ...; when
\* there is no memory, p stays.
Realloc(count, size, zero) ==
  /\ Holding
  /\ \E n \in Total(count, size) :
       LET old == UsableSize(p) IN
       IF n <= old /\ n >= old \div 2 /\ n > 0 THEN InPlace(n, 1, 0, zero)
       ELSE \E b \in BlocksFor(n, FALSE) : Move(b, n, 1, 0, zero)
  /\ UNCHANGED padding

\* mi_heap_realloc_zero_aligned_at.
ReallocAlignedAt(n, al, offset, zero) ==
  /\ Holding /\ al > Word
  /\ LET old == UsableSize(p) IN
     IF n <= old /\ n >= old - old \div 2 /\ (p.at + p.adjust + offset) % al = 0
     THEN InPlace(n, al, offset, zero)
     ELSE \E b \in AlignedAt(n, al, offset, FALSE) : Move(b, n, al, offset, zero)
  /\ UNCHANGED padding

\* mi_heap_realloc_zero_aligned: at the offset at which p was aligned.
ReallocAligned(n, al, zero) ==
  Holding /\ ReallocAlignedAt(n, al, (p.at + p.adjust) % al, zero)

\* mi_expand.
Expand(n) ==
  /\ Holding /\ ~padding
  /\ n <= UsableSize(p)
  /\ InPlace(n, p.al, p.offset, FALSE)
  /\ UNCHANGED padding

---------------------------------------------------------------------------
\* mi_free by the owner, and the end of mi_reallocf without memory.
Free == Holding /\ p' = NoBlock /\ UNCHANGED padding

\* What is left of b in a list of freed blocks, after units of it were written.
Freed(b, written) ==
  [bs |-> b.bs, delta |-> b.delta, fill |-> b.fill \ written, freed |-> TRUE]

\* Mutant of FreeMt: the padding stays as it is.
FreeMtKeepsPadding ==
  /\ Holding
  /\ p' = Freed(p, Below(UsableBlockSize(p) - p.delta) \cup Below(Word))
  /\ UNCHANGED padding

\* _mi_free_block_mt: the block is filled, and holds the next of a list.
FreeMt ==
  /\ Holding
  /\ LET b == Shrink(p, Word) IN
     p' = Freed(b, Below(UsableBlockSize(b) - b.delta) \cup Below(Word))
  /\ UNCHANGED padding

\* _mi_free_delayed_block.
FreeDelayed == p # NoBlock /\ p.freed /\ p' = NoBlock /\ UNCHANGED padding

Next ==
  \/ \E count \in Counts, size \in Elements, zero \in BOOLEAN :
       Malloc(count, size, zero) \/ Realloc(count, size, zero)
  \/ \E n \in Elements :
       \/ Expand(n)
       \/ \E m \in Elements : Strndup(m, n)
       \/ \E al \in Alignments, zero \in BOOLEAN :
            \/ ReallocAligned(n, al, zero)
            \/ \E offset \in Offsets : \/ MallocAligned(n, al, offset, zero)
                                       \/ ReallocAlignedAt(n, al, offset, zero)
  \/ Write \/ Free \/ FreeMt \/ FreeDelayed

Spec == Init /\ [][Next]_vars

---------------------------------------------------------------------------
\* The block has room for what was asked, aligned as it was asked; what the
\* program wrote is there after any resizing, and what it was given as zero
\* is zero; and a free of the block, by whatever thread, reports no write
\* over its end.
BlocksKeep ==
  p # NoBlock =>
    /\ \A i \in Verified(p) : i \in p.fill
    /\ ~p.freed => /\ p.req <= UsableSize(p)
                   /\ (p.at + p.adjust + p.offset) % p.al = 0
                   /\ p.wrote \subseteq p.intact
                   /\ p.zeroed \subseteq p.zeros

\* "with extra memory initialized to zero", of memory "originally allocated
\* with zero initialization too" (mimalloc-doc.h:138 and 647): however often
\* such a block is resized, what it grows by is zero.
GrownIsZero == Holding => p.grown \subseteq p.zeros
=============================================================================
