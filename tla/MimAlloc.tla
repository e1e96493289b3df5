------------------------------ MODULE MimAlloc ------------------------------
(***************************************************************************)
(* MimAllocator<T, Align>: the standard allocator over mimalloc that Vec,  *)
(* Str, OveralignedVec and Box allocate from.  A type is what the          *)
(* templates see of it: its size, its alignment and the alignment asked    *)
(* for.  The choice between the three entry points of mimalloc is made     *)
(* from these and from the element count; what the block can hold and how  *)
(* it is aligned is what that entry point promises.                        *)
(***************************************************************************)
EXTENDS Naturals

CONSTANTS
  Types,      \* the instances: records [sizeof, alignof, Align]
  Counts(_),  \* the element counts the program asks for, of each type
  Slots,      \* the blocks the program may hold at a time
  WordSize,   \* size_t counts modulo this
  NoBlock     \* an empty slot

MimAllocAssumption ==
  /\ WordSize \in Nat \ {0}
  /\ \A T \in Types :
       /\ T.sizeof \in Nat \ {0} /\ T.alignof \in Nat \ {0}
       /\ T.Align >= T.alignof                \* static_assert, line 162
       /\ T.Align \in {1, 2, 4, 8, 16, 32, 64, 128}
       /\ Counts(T) \subseteq 0 .. (WordSize - 1) \div T.sizeof   \* max_size()

VARIABLES
  held,       \* slot -> the block in it: its type, its count, the usable size
              \* and the alignment of its address
  asserted    \* the assertions of MimAllocator.cpp that have failed

vars == <<held, asserted>>

mi_small_count == 128
mi_align_minimum == 8
smallAllocMax == 8 * mi_small_count
PTRDIFF_MAX == (WordSize - 1) \div 2

Init == held = [s \in Slots |-> NoBlock] /\ asserted = {}

---------------------------------------------------------------------------
\* The entry points of mimalloc: [usable, align], or nothing when it fails.

mi_malloc(size) ==
  {[usable |-> size, align |-> IF size > 8 THEN 16 ELSE 8] :
     ok \in {x \in {TRUE} : size <= PTRDIFF_MAX}}

\* Looks the size up in pages_free_direct, which ends at MI_SMALL_SIZE_MAX:
\* beyond it the page that is found is not one of that size.
mi_malloc_small(size) ==
  IF size <= 1024 THEN mi_malloc(size) ELSE {[usable |-> 0, align |-> 8]}

mi_aligned_alloc(align, size) ==
  {[usable |-> size, align |-> align] :
     ok \in {x \in {TRUE} : size <= PTRDIFF_MAX}}

---------------------------------------------------------------------------
\* is_small_alloc<T>(n), which is given the count.
IsSmallAlloc(T, n) == T.sizeof <= smallAllocMax /\ n < smallAllocMax

\* The default argument of AlignedMimAllocatorBase.
NotOveraligned(T) == T.alignof <= mi_align_minimum

Size(T, n) == (T.sizeof * n) % WordSize

\* SmartAllocate: the blocks it may return, and what it asserts.
Blocks(T, n) ==
  IF ~NotOveraligned(T) THEN mi_aligned_alloc(T.Align, Size(T, n))
  ELSE IF IsSmallAlloc(T, n) THEN mi_malloc_small(Size(T, n))
  ELSE mi_malloc(Size(T, n))

Asserts(T, n) ==
  IF NotOveraligned(T) /\ IsSmallAlloc(T, n) /\ ~(Size(T, n) <= smallAllocMax)
  THEN {"size <= smallAllocMax"} ELSE {}

---------------------------------------------------------------------------
\* allocate(n).  Without a block it returns null and nothing is held.
Allocate(s, T, n) ==
  /\ held[s] = NoBlock
  /\ \E b \in Blocks(T, n) :
       held' = [held EXCEPT ![s] = [type |-> T, count |-> n,
                                    usable |-> b.usable, align |-> b.align]]
  /\ asserted' = asserted \cup Asserts(T, n)

\* deallocate(p, n): mi_free finds the size itself.
Deallocate(s) ==
  /\ held[s] # NoBlock
  /\ held' = [held EXCEPT ![s] = NoBlock]
  /\ UNCHANGED asserted

Next ==
  \E s \in Slots :
    \/ \E T \in Types : \E n \in Counts(T) : Allocate(s, T, n)
    \/ Deallocate(s)

Spec == Init /\ [][Next]_vars

---------------------------------------------------------------------------
\* What an allocator owes to a container: the block of n elements has room
\* for n elements, which std::vector writes without asking again, and is as
\* aligned as the allocator's Align parameter requires ("Alignment
\* requirement must be >= alignof(T).", MimAllocator.hpp:163).
EnoughRoom ==
  \A s \in Slots : held[s] # NoBlock =>
    /\ held[s].usable >= held[s].count * held[s].type.sizeof
    /\ held[s].align >= held[s].type.Align

\* $raw_assert(size <= smallAllocMax) of AllocateSmall (MimAllocator.cpp:42)
\* holds in every call the header makes.
AssertionsHold == asserted = {}
=============================================================================
