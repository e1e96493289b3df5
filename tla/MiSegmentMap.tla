---------------------------- MODULE MiSegmentMap ----------------------------
(***************************************************************************)
(* The map of segments (segment-map.c): a bit for each place where a       *)
(* segment may start, in words that all threads change with compare-and-   *)
(* swap, and the search for the segment that a pointer points into.        *)
(* Places are numbered from 1, as no segment starts at the null pointer;   *)
(* a huge segment reaches over several of them.                            *)
(***************************************************************************)
EXTENDS Integers, FiniteSets, FiniteSetsExt

CONSTANTS
  Threads,
  Words,       \* MI_SEGMENT_MAP_WSIZE
  WordBits,    \* MI_INTPTR_BITS
  Lengths      \* the places that a segment takes

MiSegmentMapAssumption ==
  Words \in Nat \ {0} /\ WordBits \in Nat \ {0} /\ Lengths \subseteq Nat \ {0}

VARIABLES
  mi_segment_map,  \* word -> the bits that are 1
  owned,           \* thread -> the segments it has, from when they are mapped
                   \* until they are unmapped: <<first place, length>>
  op               \* thread -> what it is doing

vars == <<mi_segment_map, owned, op>>

Places == 1 .. Words * WordBits - 1
Index(place) == place \div WordBits
Bit(place) == place % WordBits
Extent(s) == s[1] .. s[1] + s[2] - 1
Mapped == UNION {owned[t] : t \in Threads}
Idle == [at |-> "idle"]

Init ==
  /\ mi_segment_map = [w \in 0 .. Words - 1 |-> {}]
  /\ owned = [t \in Threads |-> {}]
  /\ op = [t \in Threads |-> Idle]

Becomes(t, r) == op' = [op EXCEPT ![t] = r]

\* A thread maps a segment, and marks it.
Alloc(t, s) ==
  /\ op[t] = Idle
  /\ Extent(s) \subseteq Places
  /\ \A o \in Mapped : Extent(s) \cap Extent(o) = {}
  /\ owned' = [owned EXCEPT ![t] = @ \cup {s}]
  /\ Becomes(t, [at |-> "update", segment |-> s, set |-> TRUE,
                 mask |-> mi_segment_map[Index(s[1])]])
  /\ UNCHANGED mi_segment_map

\* mi_segment_os_free clears the mark before it unmaps the segment.
Free(t, s) ==
  /\ op[t] = Idle /\ s \in owned[t]
  /\ Becomes(t, [at |-> "update", segment |-> s, set |-> FALSE,
                 mask |-> mi_segment_map[Index(s[1])]])
  /\ UNCHANGED <<mi_segment_map, owned>>

Unmap(t) ==
  /\ op[t].at = "unmap"
  /\ owned' = [owned EXCEPT ![t] = @ \ {op[t].segment}]
  /\ Becomes(t, Idle)
  /\ UNCHANGED mi_segment_map

\* Mutant of Update: a store of the word with the bit changed.
UpdateStores(t) ==
  LET r == op[t]
      w == Index(r.segment[1])
      b == Bit(r.segment[1])
  IN  /\ r.at = "update"
      /\ mi_segment_map' = [mi_segment_map EXCEPT ![w] = IF r.set THEN r.mask \cup {b}
                                                                 ELSE r.mask \ {b}]
      /\ Becomes(t, IF r.set THEN Idle ELSE [at |-> "unmap", segment |-> r.segment])
      /\ UNCHANGED owned

\* _mi_segment_map_allocated_at and _mi_segment_map_freed_at, after the first
\* load: the compare-and-swap, or its failure, which loads again.
Update(t) ==
  LET r == op[t]
      w == Index(r.segment[1])
      b == Bit(r.segment[1])
  IN  /\ r.at = "update"
      /\ \/ /\ mi_segment_map[w] = r.mask
            /\ mi_segment_map' = [mi_segment_map EXCEPT ![w] = IF r.set THEN @ \cup {b}
                                                                       ELSE @ \ {b}]
            /\ Becomes(t, IF r.set THEN Idle ELSE [at |-> "unmap", segment |-> r.segment])
         \/ /\ Becomes(t, [r EXCEPT !.mask = mi_segment_map[w]])
            /\ UNCHANGED mi_segment_map
      /\ UNCHANGED owned

---------------------------------------------------------------------------
\* _mi_segment_of any pointer.

Answer(t, p, start) == Becomes(t, [at |-> "answer", p |-> p, start |-> start])
NoStart == 0

\* There is a mark below p.
Found(t, p, start) == Becomes(t, [at |-> "reach", p |-> p, start |-> start])

\* The word of p: the first place of a segment, or the last mark below it.
Lookup(t, p) ==
  LET mask == mi_segment_map[Index(p)]
      lobits == {b \in mask : b < Bit(p)}
  IN  /\ op[t] = Idle
      /\ IF Bit(p) \in mask THEN Answer(t, p, p)
         ELSE IF lobits # {} THEN Found(t, p, Index(p) * WordBits + Max(lobits))
         ELSE IF Index(p) = 0 THEN Answer(t, p, NoStart)
         ELSE Becomes(t, [at |-> "down", p |-> p, w |-> Index(p) - 1])
      /\ UNCHANGED <<mi_segment_map, owned>>

\* The words below it, as long as they are not empty: the search ends at the
\* first empty word, with nothing, or at word 0.
LookDown(t) ==
  LET r == op[t]
      lomask == mi_segment_map[r.w]
  IN  /\ r.at = "down"
      /\ IF lomask # {} /\ r.w > 0 THEN Becomes(t, [r EXCEPT !.w = @ - 1])
         ELSE IF lomask = {} THEN Answer(t, r.p, NoStart)
         ELSE Found(t, r.p, r.w * WordBits + Max(lomask))
      /\ UNCHANGED <<mi_segment_map, owned>>

\* The header at the mark is read: does the segment reach as far as p?  One of
\* another thread may have no cookie yet.  It may also have been unmapped since
\* the word was loaded; the pointer is lost then, to a fault or to whatever the
\* memory says.
Reach(t) ==
  LET r == op[t]
      there == {s \in Mapped : s[1] = r.start}
  IN  /\ r.at = "reach"
      /\ \/ there = {} /\ Becomes(t, [at |-> "lost", p |-> r.p])
         \/ \E s \in there :
              \/ r.p \in Extent(s) /\ Answer(t, r.p, r.start)
              \/ r.p \notin Extent(s) /\ Answer(t, r.p, NoStart)
              \/ s \notin owned[t] /\ Answer(t, r.p, NoStart)
      /\ UNCHANGED <<mi_segment_map, owned>>

\* mi_is_in_heap_region returns.
Return(t) ==
  /\ op[t].at \in {"answer", "lost"}
  /\ Becomes(t, Idle)
  /\ UNCHANGED <<mi_segment_map, owned>>

Next ==
  \E t \in Threads :
    \/ \E s \in Places \X Lengths : Alloc(t, s) \/ Free(t, s)
    \/ Update(t) \/ Unmap(t)
    \/ \E p \in Places : Lookup(t, p)
    \/ LookDown(t) \/ Reach(t) \/ Return(t)

Spec == Init /\ [][Next]_vars

---------------------------------------------------------------------------
\* Segments that are being marked or unmarked.
Changing == {op[t].segment : t \in {u \in Threads : op[u].at \in {"update", "unmap"}}}

\* The map has the bits of the segments that are in use, and no others: no
\* update of a word undoes that of another thread, whatever compare-and-swap
\* fails.  And a thread that asks for the segment of a pointer into one of its
\* own never gets another.  If the pointer points into the word the segment
\* starts in, it gets the segment, and reads no header of anybody else's.
\* Further in it may get nothing or be lost, whatever the code ("reliably find",
\* segment-map.c:9) and the manual (mimalloc-doc.h:410) say: the search stops at
\* the first empty word or at word 0, and trusts the mark that it finds there.
MapFinds ==
  /\ \A s \in Mapped \ Changing : Bit(s[1]) \in mi_segment_map[Index(s[1])]
  /\ \A p \in Places : Bit(p) \in mi_segment_map[Index(p)] => \E s \in Mapped : s[1] = p
  /\ \A t \in Threads : \A s \in owned[t] :
       op[t].at \in {"answer", "lost"} /\ op[t].p \in Extent(s) =>
         /\ op[t].at = "answer" => op[t].start \in {s[1], NoStart}
         /\ Index(op[t].p) = Index(s[1]) =>
              op[t].at = "answer" /\ op[t].start = s[1]
=============================================================================
