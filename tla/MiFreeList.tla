----------------------------- MODULE MiFreeList -----------------------------
(***************************************************************************)
(* The free lists of a page of mimalloc (page.c, alloc.c), linked through  *)
(* the free blocks themselves: free, which the owner takes blocks from,    *)
(* local_free, where it puts them, and the list in xthread_free, where     *)
(* other threads do, by a compare-and-swap of its head.  What is free      *)
(* nobody else counts: the owner finds out by walking the lists, and so do *)
(* the check for a double free and the visitor of the blocks in use.       *)
(*                                                                         *)
(* The flag next to the head in xthread_free is MiDelayedFree's, and a     *)
(* page whose blocks are all free stays.                                   *)
(***************************************************************************)
EXTENDS Naturals, Sequences, FiniteSets

CONSTANTS
  Threads,    \* the threads but the owner
  Reserved,   \* reserved, the blocks that the page has room for
  MaxExtend,  \* how many of them are put on the free list at a time
  Slices,     \* MI_MAX_SLICES
  MapBytes, MapBits \* of a word of the map of free blocks

VARIABLES
  secure,       \* built with MI_SECURE >= 3
  next,         \* block -> the next field in it; Data where the program wrote
  free, local_free,
  xthread_free, \* the head in it
  capacity, used, free_is_zero,
  holds,        \* the blocks the program has
  written,      \* those it has ever had
  freeing       \* thread -> the block it frees and the head it has read

vars ==
  <<secure, next, free, local_free, xthread_free, capacity, used,
    free_is_zero, holds, written, freeing>>

lists == <<next, free, local_free, xthread_free>>

Null == 0
Data == Reserved + 1
Idle == [block |-> Null, head |-> Null, linked |-> FALSE]

Init ==
  /\ secure \in BOOLEAN /\ free_is_zero \in BOOLEAN
  /\ next = [b \in 1 .. Reserved |-> Null]
  /\ free = Null /\ local_free = Null /\ xthread_free = Null
  /\ capacity = 0 /\ used = 0
  /\ holds = {} /\ written = {}
  /\ freeing = [t \in Threads |-> Idle]

\* The blocks of a list; one that goes in circles or into what the program
\* wrote does not end.
List(link, head) ==
  LET Walk[n \in 0 .. Reserved + 1] ==
        IF n = 0 THEN <<head>>
        ELSE LET l == Walk[n - 1]
             IN  IF l[Len(l)] \in {Null, Data} THEN l ELSE Append(l, link[l[Len(l)]])
      walked == Walk[Reserved + 1]
  IN  IF walked[Len(walked)] = Null THEN SubSeq(walked, 1, Len(walked) - 1)
      ELSE [walked EXCEPT ![Len(walked)] = Data]

\* The same, as a set.
Listed(link, head) ==
  LET l == List(link, head) IN {l[i] : i \in DOMAIN l}

InList(head, b) == b \in Listed(next, head)

\* Two lists, the first one put before the second.
Joined(link, first, second) ==
  LET l == List(link, first) IN [link EXCEPT ![l[Len(l)]] = second]

-----------------------------------------------------------------------------
(* The owner.                                                              *)

\* _mi_page_free_collect: the list of the other threads is taken as a whole,
\* counted and put before local_free, and that becomes the free list if
\* there is none, or goes before it.
Collected(force) ==
  LET taken == List(next, xthread_free)
      link == IF taken = <<>> THEN next ELSE Joined(next, xthread_free, local_free)
      local == IF taken = <<>> THEN local_free ELSE xthread_free
      moves == local # Null /\ (free = Null \/ force)
  IN  [link |-> IF moves /\ free # Null THEN Joined(link, local, free) ELSE link,
       free |-> IF moves THEN local ELSE free,
       local |-> IF moves THEN Null ELSE local,
       used |-> used - Len(taken),
       zero |-> free_is_zero /\ ~moves]

Becomes(c) ==
  /\ free' = c.free /\ local_free' = c.local /\ xthread_free' = Null
  /\ used' = c.used /\ free_is_zero' = c.zero

\* The orders in which n new blocks are put on the list: one after the other,
\* or slice by slice as chance has it, each slice from its start.
Orders(n) ==
  LET shifts == {k \in 0 .. n : 2 ^ k <= n /\ 2 ^ k <= Slices}
      count == 2 ^ (CHOOSE k \in shifts : k + 1 \notin shifts)
      SliceOf(i) == IF (i - 1) \div (n \div count) < count THEN (i - 1) \div (n \div count) ELSE count - 1
  IN  {o \in [1 .. n -> 1 .. n] :
         /\ \A i, j \in 1 .. n : i < j =>
              o[i] # o[j] /\ (SliceOf(o[i]) = SliceOf(o[j]) => o[i] < o[j])
         /\ ~secure \/ n < 2 => \A i \in 1 .. n : o[i] = i}

\* mi_page_extend_free, with the free list that the page has by then.
Extended(link, head) ==
  LET room == Reserved - capacity
      n == IF room > MaxExtend THEN MaxExtend ELSE room
  IN  \E o \in Orders(n) :
        /\ next' = [b \in DOMAIN link |->
                      IF b \notin capacity + 1 .. capacity + n THEN link[b]
                      ELSE LET i == CHOOSE j \in 1 .. n : o[j] = b - capacity
                           IN  IF i = n THEN head ELSE capacity + o[i + 1]]
        /\ free' = capacity + o[1]
        /\ capacity' = capacity + n

\* mi_page_queue_find_free_ex and mi_find_free_page, when the page is looked
\* at: collect, and extend if that gives nothing.
Find ==
  LET c == Collected(FALSE)
      grows == c.free = Null /\ capacity < Reserved
  IN  /\ local_free' = c.local /\ xthread_free' = Null
      /\ used' = c.used /\ free_is_zero' = c.zero
      /\ IF grows THEN Extended(c.link, Null)
         ELSE next' = c.link /\ free' = c.free /\ UNCHANGED capacity
      /\ UNCHANGED <<secure, holds, written, freeing>>

\* A secure build extends the first page by chance, and collects nothing.
Grow ==
  /\ secure /\ capacity < Reserved
  /\ Extended(next, free)
  /\ UNCHANGED <<secure, local_free, xthread_free, used, free_is_zero, holds,
                 written, freeing>>

\* _mi_page_malloc.
Malloc ==
  /\ free # Null
  /\ used' = used + 1
  /\ free' = next[free]
  /\ next' = [next EXCEPT ![free] = Data]
  /\ holds' = holds \cup {free} /\ written' = written \cup {free}
  /\ UNCHANGED <<secure, local_free, xthread_free, capacity, free_is_zero, freeing>>

\* mi_check_is_double_free: what the program wrote may look like a link.
IsDoubleFree(b) == InList(free, b) \/ InList(local_free, b) \/ InList(xthread_free, b)

\* _mi_free_block, by the owner.
FreeLocal(b) ==
  /\ b \in holds
  /\ holds' = holds \ {b}
  /\ IF IsDoubleFree(b)
     THEN UNCHANGED <<next, local_free, used>>
     ELSE /\ next' = [next EXCEPT ![b] = local_free]
          /\ local_free' = b
          /\ used' = used - 1
  /\ UNCHANGED <<secure, free, xthread_free, capacity, free_is_zero, written, freeing>>

\* mi_heap_area_visit_blocks: the places, from 0, of the blocks in use by a
\* map of the free ones, a word of which has a bit for each of its bytes.
Visited(c) ==
  LET free_at == {b - 1 : b \in Listed(c.link, c.free)}
      free_map == [w \in 0 .. Reserved \div MapBytes |->
                     {i - w * MapBytes : i \in {j \in free_at : j \div MapBytes = w}}]
  IN  IF c.used = 0 THEN {}
      ELSE IF capacity = 1 THEN {0}
      ELSE {i \in 0 .. capacity - 1 :
              /\ free_map[i \div MapBytes] # 0 .. MapBits - 1
              /\ i % MapBytes \notin free_map[i \div MapBytes]}

\* What a visit finds, when all is collected.
Visits == Collected(TRUE)

\* The visit itself changes nothing else; mi_collect does as much.
Visit ==
  /\ Becomes(Visits) /\ next' = Visits.link
  /\ UNCHANGED <<secure, capacity, holds, written, freeing>>

-----------------------------------------------------------------------------
(* Another thread frees a block: _mi_free_block_mt.                        *)

FreeRemote(t, b) ==
  /\ freeing[t] = Idle /\ b \in holds
  /\ holds' = holds \ {b}
  /\ freeing' = [freeing EXCEPT ![t] = [Idle EXCEPT !.block = b, !.head = xthread_free]]
  /\ UNCHANGED <<secure, lists, capacity, used, free_is_zero, written>>

Link(t) ==
  /\ freeing[t] # Idle /\ ~freeing[t].linked
  /\ next' = [next EXCEPT ![freeing[t].block] = freeing[t].head]
  /\ freeing' = [freeing EXCEPT ![t].linked = TRUE]
  /\ UNCHANGED <<secure, free, local_free, xthread_free, capacity, used, free_is_zero,
                 holds, written>>

\* Mutant of Cas: the head is stored, whatever it is by now.
CasStores(t) ==
  /\ freeing[t].linked
  /\ xthread_free' = freeing[t].block /\ freeing' = [freeing EXCEPT ![t] = Idle]
  /\ UNCHANGED <<secure, next, free, local_free, capacity, used, free_is_zero,
                 holds, written>>

\* Where the head is another one by now, it is linked to that.
Cas(t) ==
  /\ freeing[t].linked
  /\ IF xthread_free = freeing[t].head
     THEN xthread_free' = freeing[t].block /\ freeing' = [freeing EXCEPT ![t] = Idle]
     ELSE /\ freeing' = [freeing EXCEPT ![t].head = xthread_free, ![t].linked = FALSE]
          /\ UNCHANGED xthread_free
  /\ UNCHANGED <<secure, next, free, local_free, capacity, used, free_is_zero,
                 holds, written>>

Next ==
  \/ Find \/ Grow \/ Malloc \/ Visit
  \/ \E b \in 1 .. Reserved : FreeLocal(b)
  \/ \E t \in Threads :
       \/ \E b \in 1 .. Reserved : FreeRemote(t, b)
       \/ Link(t) \/ Cas(t)

Spec == Init /\ [][Next]_vars

---------------------------------------------------------------------------
\* Every block is on one list, once, or with the program, or with a thread
\* that frees it, and used counts those that the owner does not know to be
\* free.
BlocksAreListed ==
  LET all == List(next, free) \o List(next, local_free) \o List(next, xthread_free)
      listed == {all[i] : i \in DOMAIN all}
      inFlight == {freeing[t].block : t \in Threads} \ {Null}
  IN  /\ Len(all) = Cardinality(listed)
      /\ listed \cap (holds \cup inFlight) = {}
      /\ listed \cup holds \cup inFlight = 1 .. capacity
      /\ used = Cardinality(holds) + Cardinality(inFlight) + Len(List(next, xthread_free))

\* While the page says that its free blocks are zero, none of them has been
\* written to; mi_zalloc then clears no more than the link.
FreeIsZero ==
  free_is_zero => Listed(next, free) \cap written = {}

\* A visitor is shown the blocks in use, those that are about to be freed
\* included, and none that is free.
VisitsAreExact ==
  {i + 1 : i \in Visited(Visits)} = holds \cup ({freeing[t].block : t \in Threads} \ {Null})

ListsAreSound == BlocksAreListed /\ FreeIsZero /\ VisitsAreExact
=============================================================================
