-------------------------------- MODULE MiOs --------------------------------
(***************************************************************************)
(* The operating system layer of mimalloc (os.c over prim.c): memory that  *)
(* is mapped for a caller, aligned by mapping more and trimming, aligned   *)
(* at an offset, or made of huge pages; and the ranges inside it that are  *)
(* committed, decommitted, reset and protected, rounded to pages inwards   *)
(* or outwards.                                                            *)
(*                                                                         *)
(* The system itself (mmap, munmap, mprotect, madvise, and VirtualAlloc    *)
(* and VirtualFree) is external: it maps a free range of its choice, or    *)
(* nothing, and forgets the contents of the pages it is told about.        *)
(* Addresses are pages; ranges inside a block are in units, two to a page. *)
(***************************************************************************)
EXTENDS Integers, FiniteSets

CONSTANTS
  Low,         \* bound: pages of the address space, from 1
  HugePages,   \* bound: huge pages in the area above it
  Sizes,       \* sizes asked for, in units
  Alignments,  \* alignments asked for, in pages
  Ranges,      \* the ranges of a block that are committed and so on: <<at, size>>
  MaxHeld      \* bound: blocks held at a time

OsAssumption ==
  /\ Low \in Nat /\ HugePages \in Nat
  /\ Sizes \subseteq Nat \ {0} /\ Alignments \subseteq Nat \ {0}
  /\ Ranges \subseteq Nat \X Nat

VARIABLES
  system,         \* "unix", "unix debug" (a debug build) or "windows"
  prot,           \* protection of each page: "unmapped", "none" or "rw"
  data,           \* the units that still hold what was written to them
  held,           \* the blocks that callers hold
  mi_huge_start   \* the first huge page that nobody has claimed

vars == <<system, prot, data, held, mi_huge_start>>

HugeSize == 2   \* MI_HUGE_OS_PAGE_SIZE in pages
Top == Low + HugePages * HugeSize

must_free_whole == system = "windows"

\* What _mi_prim_decommit says of a range it has released.
needs_recommit == system # "unix"

AlignUp(n, al) == ((n + al - 1) \div al) * al
AlignDown(n, al) == (n \div al) * al
Interval(p, n) == p .. (p + n - 1)
Units(pages) == UNION {{2 * p, 2 * p + 1} : p \in pages}
RangeUnits(h, r) == Interval(2 * h.p + r[1], r[2])

\* _mi_os_good_alloc_size: in units, to a page or to a larger granule.
GoodSize(size) == AlignUp(size, IF size < 8 THEN 2 ELSE 4)
GoodPages(size) == GoodSize(size) \div 2

Init ==
  /\ system \in {"unix", "unix debug", "windows"}
  /\ prot = [p \in 1 .. Top |-> "unmapped"]
  /\ data = {}
  /\ held = {}
  /\ mi_huge_start = 1

---------------------------------------------------------------------------
\* The system.

\* Where n pages can be mapped.
Placed(n) ==
  {p \in 1 .. Low : /\ p + n - 1 <= Low
                    /\ \A q \in Interval(p, n) : prot[q] = "unmapped"}

\* munmap of any pages.
UnmappedUnix(got, base, n) == got \ Interval(base, n)

\* VirtualFree of a whole block, by an address in it: the code asks for its
\* start if need be (within a segment's size, beyond which no block here goes).
UnmappedWindows(got, base) == IF base \in got THEN {} ELSE got

Unmapped(got, base, n) ==
  IF must_free_whole THEN UnmappedWindows(got, base) ELSE UnmappedUnix(got, base, n)

---------------------------------------------------------------------------
\* Allocation.

\* Memory that has been mapped for a caller: p and what is mapped for it,
\* the base that its memid remembers.
Region(p, base, got) == [p |-> p, base |-> base, got |-> got]

\* mi_os_prim_alloc_aligned: n pages where the system happens to align them;
\* otherwise those are given back, more are mapped, and what is around the
\* aligned part is unmapped, or kept where only whole blocks can be freed.
Aligned(n, al) ==
  LET over == n + al
      trim(b) ==
        LET q == AlignUp(b, al)
            pre == q - b
            post == over - pre - n
        IN  IF must_free_whole THEN Region(q, b, Interval(b, over))
            ELSE Region(q, q, (Interval(b, over) \ Interval(b, pre))
                                \ Interval(q + n, post))
  IN  {Region(b, b, Interval(b, n)) : b \in {c \in Placed(n) : c % al = 0}}
        \cup (IF \A c \in Placed(n) : c % al = 0 THEN {}
              ELSE {trim(b) : b \in Placed(over)})

\* A block of the caller's: what it asked for, its memid, which units it may
\* use, which of them it has written and counts on, and which are lost on it:
\* handed out as committed when they are not.
Hold(kind, r, p, size, use, lost) ==
  held' = held \cup {[kind |-> kind, p |-> p, size |-> size, base |-> r.base,
                      got |-> r.got, usable |-> use, expect |-> use, lost |-> lost]}

\* The pages of r that are committed become accessible, and the caller
\* writes to what it may use.
Map(r, committed, use) ==
  /\ prot' = [q \in 1 .. Top |-> IF q \in committed THEN "rw"
                                 ELSE IF q \in r.got THEN "none" ELSE prot[q]]
  /\ data' = data \cup use

\* _mi_os_alloc; its memid has no base.
Alloc(size) ==
  /\ Cardinality(held) < MaxHeld
  /\ \E p \in Placed(GoodPages(size)) :
       LET r == Region(p, 0, Interval(p, GoodPages(size)))
           use == Interval(2 * p, size)
       IN  Map(r, r.got, use) /\ Hold("OS", r, p, size, use, {})
  /\ UNCHANGED <<system, mi_huge_start>>

\* The aligned part of memory that cannot be trimmed is committed by a call of
\* its own, which may be refused: the code does not look.
CommitRefused(r, n, commit) ==
  commit /\ must_free_whole /\ r.got # Interval(r.p, n)

\* _mi_os_alloc_aligned.
AllocAligned(size, al, commit) ==
  LET n == GoodPages(size)
  IN  /\ Cardinality(held) < MaxHeld
      /\ \E r \in Aligned(n, al), fails \in BOOLEAN :
           LET use == IF commit THEN Interval(2 * r.p, size) ELSE {}
               lost == IF fails THEN use ELSE {}
               open == IF commit /\ ~fails THEN Interval(r.p, n) ELSE {}
           IN  /\ fails => CommitRefused(r, n, commit)
               /\ Map(r, open, use \ lost)
               /\ Hold("OS", r, r.p, size, use, lost)
      /\ UNCHANGED <<system, mi_huge_start>>

\* _mi_os_alloc_aligned_at_offset: more in front, decommitted again when it
\* is more than a page.  Its callers ask for whole segments, whose sizes and
\* alignments are multiples of the largest granule.
AllocAlignedAtOffset(size, al, offset, commit) ==
  LET extra == AlignUp(offset, al) - offset
      n == GoodPages(size + 2 * extra)
  IN  /\ Cardinality(held) < MaxHeld
      /\ 0 < offset /\ 2 * offset <= size
      /\ size % 4 = 0 /\ size >= 8 /\ (2 * extra) % 4 = 0
      /\ \E r \in Aligned(n, al), fails \in BOOLEAN :
           LET p == r.p + extra
               use == IF commit THEN Interval(2 * p, size) ELSE {}
               lost == IF fails THEN use ELSE {}
               front == IF extra > 1 /\ needs_recommit
                        THEN Interval(r.p, extra) ELSE {}
               open == IF commit /\ ~fails THEN Interval(r.p, n) \ front ELSE {}
           IN  /\ fails => CommitRefused(r, n, commit)
               /\ Map(r, open, use \ lost)
               /\ Hold("OS", r, p, size, use, lost)
      /\ UNCHANGED <<system, mi_huge_start>>

\* _mi_os_alloc_huge_os_pages: claims n huge pages of the area and maps them
\* one at a time; stops at the first that is refused, that comes elsewhere
\* and is given back, or after which the time is up.
AllocHuge(n) ==
  LET start == Low + 1 + (mi_huge_start - 1) * HugeSize
  IN  /\ Cardinality(held) < MaxHeld
      /\ mi_huge_start + n <= HugePages + 1
      /\ mi_huge_start' = mi_huge_start + n
      /\ \E page \in 0 .. n :
           IF page = 0 THEN UNCHANGED <<prot, data, held>>
           ELSE LET r == Region(start, 0, Interval(start, page * HugeSize))
                    use == Units(r.got)
                IN  /\ Map(r, r.got, use)
                    /\ Hold("OS_HUGE", r, start, 2 * page * HugeSize, use, {})
      /\ UNCHANGED system

---------------------------------------------------------------------------
\* _mi_os_free_ex.

\* The pages left mapped of what the block had.
LeftOf(h) ==
  LET base == IF h.base = 0 THEN h.p ELSE h.base
      csize == GoodPages(h.size) + (h.p - base)
  IN  IF h.kind = "OS_HUGE"
      THEN h.got \ Interval(base, AlignDown(csize, HugeSize))
      ELSE Unmapped(h.got, base, csize)

\* With munmap, the pages behind a block that has been sized wrongly belong
\* to somebody else.
Beyond(h) ==
  LET base == IF h.base = 0 THEN h.p ELSE h.base
      csize == GoodPages(h.size) + (h.p - base)
  IN  IF must_free_whole THEN {} ELSE Interval(base, csize) \ h.got

Free(h) ==
  LET gone == (h.got \ LeftOf(h)) \cup Beyond(h)
  IN  /\ prot' = [q \in 1 .. Top |-> IF q \in gone THEN "unmapped" ELSE prot[q]]
      /\ data' = data \ (Units(gone) \cup h.expect)
      /\ held' = held \ {h}
      /\ UNCHANGED <<system, mi_huge_start>>

---------------------------------------------------------------------------
\* Ranges of a block.  mi_os_page_align_areax rounds them to pages.

Inwards(h, r) ==
  AlignUp(2 * h.p + r[1], 2) \div 2 .. (2 * h.p + r[1] + r[2]) \div 2 - 1

Outwards(h, r) ==
  (2 * h.p + r[1]) \div 2 .. AlignUp(2 * h.p + r[1] + r[2], 2) \div 2 - 1

Within(h, r) == h.kind = "OS" /\ r[1] + r[2] <= h.size

Becomes(h, use, expect, lost) ==
  held' = (held \ {h}) \cup {[h EXCEPT !.usable = use, !.expect = expect, !.lost = lost]}

Protected(pages, how) ==
  prot' = [q \in 1 .. Top |-> IF q \in pages THEN how ELSE prot[q]]

\* _mi_os_commit, and what the caller then writes.
Commit(h, r) ==
  /\ Within(h, r)
  /\ Protected(Outwards(h, r), "rw")
  /\ Becomes(h, h.usable \cup RangeUnits(h, r), h.expect \cup RangeUnits(h, r),
             h.lost \ RangeUnits(h, r))
  /\ data' = data \cup RangeUnits(h, r)
  /\ UNCHANGED <<system, mi_huge_start>>

\* Mutant of Decommit: the pages that straddle the ends of the range too.
DecommitOutwards(h, r) ==
  /\ Within(h, r)
  /\ IF needs_recommit THEN Protected(Outwards(h, r), "none")
                       ELSE UNCHANGED prot
  /\ data' = data \ Units(Outwards(h, r))
  /\ Becomes(h, IF needs_recommit THEN h.usable \ RangeUnits(h, r)
                                  ELSE h.usable, h.expect \ RangeUnits(h, r), h.lost)
  /\ UNCHANGED <<system, mi_huge_start>>

\* _mi_os_decommit, and _mi_os_purge_ex where purging decommits.
Decommit(h, r) ==
  /\ Within(h, r)
  /\ IF needs_recommit THEN Protected(Inwards(h, r), "none")
                       ELSE UNCHANGED prot
  /\ data' = data \ Units(Inwards(h, r))
  /\ Becomes(h, IF needs_recommit THEN h.usable \ RangeUnits(h, r)
                                  ELSE h.usable, h.expect \ RangeUnits(h, r), h.lost)
  /\ UNCHANGED <<system, mi_huge_start>>

\* _mi_os_reset, and _mi_os_purge_ex where it does not decommit: the pages
\* stay accessible, and the system may forget them.
Reset(h, r) ==
  /\ Within(h, r)
  /\ data' \in {data, data \ Units(Inwards(h, r))}
  /\ Becomes(h, h.usable, h.expect \ RangeUnits(h, r), h.lost)
  /\ UNCHANGED <<system, prot, mi_huge_start>>

\* _mi_os_protect; the range was accessible.
Protect(h, r) ==
  /\ Within(h, r)
  /\ RangeUnits(h, r) \subseteq h.usable
  /\ Protected(Inwards(h, r), "none")
  /\ Becomes(h, h.usable \ RangeUnits(h, r), h.expect, h.lost)
  /\ UNCHANGED <<system, data, mi_huge_start>>

\* _mi_os_unprotect, of what has been protected: it lets nothing be used
\* outside the pages inside the range.
Unprotect(h, r) ==
  /\ Within(h, r)
  /\ Units(Inwards(h, r)) \cap (h.expect \ h.usable) # {}
  /\ Protected(Inwards(h, r), "rw")
  /\ Becomes(h, h.usable \cup (Units(Inwards(h, r)) \cap RangeUnits(h, r)), h.expect,
             h.lost)
  /\ UNCHANGED <<system, data, mi_huge_start>>

Next ==
  \/ \E size \in Sizes :
       \/ Alloc(size)
       \/ \E al \in Alignments, commit \in BOOLEAN :
            \/ AllocAligned(size, al, commit)
            \/ \E offset \in 1 .. 4 : AllocAlignedAtOffset(size, al, offset, commit)
  \/ \E n \in 1 .. HugePages : AllocHuge(n)
  \/ \E h \in held :
       \/ Free(h)
       \/ \E r \in Ranges : \/ Commit(h, r) \/ Decommit(h, r) \/ Reset(h, r)
                            \/ Protect(h, r) \/ Unprotect(h, r)

Spec == Init /\ [][Next]_vars

---------------------------------------------------------------------------
\* What is mapped is what the blocks in use have: an allocation leaves
\* nothing behind of what it mapped to align, and a free unmaps the block,
\* the part in front of it included, and nothing of another.
MappedIsHeld ==
  /\ {q \in 1 .. Top : prot[q] # "unmapped"} = UNION {h.got : h \in held}
  /\ \A g, h \in held : g # h => g.got \cap h.got = {}

\* The caller of each block can access what it was given or committed, and
\* finds there what it wrote, whatever was decommitted, reset, protected or
\* freed around it.  Lost units are left out: the commit of the aligned part
\* was refused and nobody looked (os.c:261).
UsableIsIntact ==
  \A h \in held :
    /\ \A u \in h.usable \ h.lost : prot[u \div 2] = "rw"
    /\ h.expect \subseteq data \cup h.lost

OsKeepsMemory == MappedIsHeld /\ UsableIsIntact
=============================================================================
