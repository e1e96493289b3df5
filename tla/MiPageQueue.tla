---------------------------- MODULE MiPageQueue ----------------------------
(***************************************************************************)
(* The page queues of the heaps of one thread (page-queue.c, page.c and    *)
(* heap.c of mimalloc): a heap keeps its pages in one queue per size       *)
(* class, the pages without a free block in a queue of their own, and, to  *)
(* find a page for a small block at once, an array with the first page of  *)
(* the queue for every size.  Only the owner touches the queues, so each   *)
(* of its operations is one step; other threads free blocks in between     *)
(* (how they do is MiDelayedFree), and where the code allows for one that  *)
(* comes in the middle of an operation, so does the step.                  *)
(*                                                                         *)
(* Sizes are in words.  A list of pages is a sequence.                     *)
(***************************************************************************)
EXTENDS Naturals, Sequences, FiniteSets, FiniteSetsExt

CONSTANTS
  Pages,       \* the pages there is room for
  Backing,     \* the backing heap of the thread
  Extra,       \* a second heap, made by mi_heap_new
  None,        \* no page
  Abandoned,   \* in place of the heap of an abandoned page
  SizeTable,   \* the block sizes of bins 1, 2, ... (init.c)
  SmallMax,    \* MI_SMALL_SIZE_MAX, 128 in the code
  Requests,    \* the sizes the program asks for
  Blocks,      \* the blocks of a page (a huge page has one)
  RetireCycles \* 16 or 4 in the code

Heaps == {Backing, Extra}
MediumMax == SizeTable[Len(SizeTable)]
BIN_HUGE == Len(SizeTable) + 1
BIN_FULL == Len(SizeTable) + 2
Bins == 0 .. BIN_FULL

ASSUME MiPageQueueAssumption ==
  /\ Backing # Extra /\ None \notin Pages /\ Abandoned \notin Heaps
  /\ \A b \in 1 .. 8 : SizeTable[b] = b
  /\ SmallMax \in 1 .. MediumMax /\ \E b \in 1 .. Len(SizeTable) : SizeTable[b] = SmallMax
  /\ Requests \subseteq 1 .. MediumMax + 1
  /\ Blocks \in Nat \ {0} /\ RetireCycles \in Nat \ {0}

VARIABLES
  page,   \* Pages -> size: xblock_size; heap; in_full; used; remote: blocks in
          \* xthread_free; expire: retire_expire
  heap,   \* Heaps -> alive; pages: the queues; page_count; direct:
          \* pages_free_direct; retired_min, retired_max; delayed: the pages
          \* with a block in thread_delayed_free
  failed  \* the assertions that have failed

vars == <<page, heap, failed>>

---------------------------------------------------------------------------
\* Bins.

HighestBit(w) == CHOOSE b \in 0 .. w : 2 ^ b <= w /\ w < 2 ^ (b + 1)

\* mi_bin, with MI_ALIGN2W: sizes up to 8 words are rounded to double words,
\* larger ones have four bins for each power of two.
mi_bin ==
  [w \in 0 .. MediumMax + 2 |->
     IF w <= 1 THEN 1
     ELSE IF w <= 8 THEN ((w + 1) \div 2) * 2
     ELSE IF w > MediumMax THEN BIN_HUGE
     ELSE LET b == HighestBit(w - 1)
          IN  (4 * b) + (((w - 1) \div 2 ^ (b - 2)) % 4) - 3]

\* The block_size of each queue (MI_PAGE_QUEUES_EMPTY).
BlockSize ==
  [b \in Bins |-> IF b = 0 THEN 1
                  ELSE IF b <= Len(SizeTable) THEN SizeTable[b]
                  ELSE IF b = BIN_HUGE THEN MediumMax + 1 ELSE MediumMax + 2]

IsSpecial(b) == BlockSize[b] > MediumMax

NoPage == [size |-> 0, heap |-> None, in_full |-> FALSE, used |-> 0,
           remote |-> 0, expire |-> 0]

\* _mi_heap_empty.
EmptyHeap == [alive |-> TRUE,
              pages |-> [b \in Bins |-> <<>>],
              page_count |-> 0,
              direct |-> [w \in 0 .. SmallMax |-> None],
              retired_min |-> BIN_FULL,
              retired_max |-> 0,
              delayed |-> <<>>]

Init ==
  /\ page = [p \in Pages |-> NoPage]
  /\ heap = [h \in Heaps |-> [EmptyHeap EXCEPT !.alive = (h = Backing)]]
  /\ failed = {}

---------------------------------------------------------------------------
\* The queues.  An operator takes the state m of the thread, a record of the
\* three variables, to the state after it.

First(s) == IF s = <<>> THEN None ELSE Head(s)
Without(s, p) == SelectSeq(s, LAMBDA x : x # p)
Check(m, ok, what) == IF ok THEN m ELSE [m EXCEPT !.failed = @ \cup {what}]

\* mi_page_queue_of.
QueueOf(m, p) ==
  IF m.page[p].in_full THEN BIN_FULL ELSE mi_bin[m.page[p].size]

\* The least size that is served by bin b.
Start ==
  [b \in Bins |->
     IF BlockSize[b] <= 1 THEN 0
     ELSE LET prev  == Max({k \in 0 .. b - 1 :
                              k = 0 \/ mi_bin[BlockSize[k]] # mi_bin[BlockSize[b]]})
          IN  Min({1 + BlockSize[prev], BlockSize[b]})]

\* mi_heap_queue_first_update.
FirstUpdate(m, h, b) ==
  LET size  == BlockSize[b]
      first == First(m.heap[h].pages[b])
  IN  IF size > SmallMax \/ m.heap[h].direct[size] = first THEN m
      ELSE [m EXCEPT !.heap[h].direct =
              [w \in 0 .. SmallMax |-> IF w \in Start[b] .. size THEN first
                                       ELSE @[w]]]

\* mi_page_queue_remove.
Remove(m, b, p) ==
  LET h == m.page[p].heap
      n == [m EXCEPT !.heap[h].pages[b] = Without(@, p),
                     !.heap[h].page_count = @ - 1,
                     !.page[p].in_full = FALSE]
  IN  IF First(m.heap[h].pages[b]) = p THEN FirstUpdate(n, h, b) ELSE n

\* mi_page_queue_push.
Push(m, h, b, p) ==
  FirstUpdate([m EXCEPT !.heap[h].pages[b] = <<p>> \o @,
                        !.heap[h].page_count = @ + 1,
                        !.page[p].in_full = (b = BIN_FULL)], h, b)

\* Mutant of EnqueueFrom: the flag stays as it was.
EnqueueFromKeepsFlag(m, to, from, p) ==
  LET h == m.page[p].heap
      left == [m EXCEPT !.heap[h].pages[from] = Without(@, p)]
      n == IF First(m.heap[h].pages[from]) = p THEN FirstUpdate(left, h, from)
                                               ELSE left
      t == [n EXCEPT !.heap[h].pages[to] = Append(@, p)]
  IN  IF n.heap[h].pages[to] = <<>> THEN FirstUpdate(t, h, to) ELSE t

\* mi_page_queue_enqueue_from: to the end of the other queue.
EnqueueFrom(m, to, from, p) ==
  LET h == m.page[p].heap
      left == [m EXCEPT !.heap[h].pages[from] = Without(@, p)]
      n == IF First(m.heap[h].pages[from]) = p THEN FirstUpdate(left, h, from)
                                               ELSE left
      t == [n EXCEPT !.heap[h].pages[to] = Append(@, p),
                     !.page[p].in_full = (to = BIN_FULL)]
  IN  IF n.heap[h].pages[to] = <<>> THEN FirstUpdate(t, h, to) ELSE t

\* _mi_page_queue_append, and the counts that mi_heap_absorb keeps.
AppendQueue(m, b) ==
  LET pq   == m.heap[Backing].pages[b]
      more == m.heap[Extra].pages[b]
      Move(p, pages) == [pages EXCEPT ![p].heap = Backing]
      n == [m EXCEPT !.page = FoldSet(Move, @, {more[i] : i \in DOMAIN more}),
                     !.heap[Backing].pages[b] = @ \o more,
                     !.heap[Backing].page_count = @ + Len(more),
                     !.heap[Extra].page_count = @ - Len(more)]
  IN  IF more = <<>> THEN m ELSE IF pq = <<>> THEN FirstUpdate(n, Backing, b) ELSE n

---------------------------------------------------------------------------
\* Pages.

Room(p, m) == IF m.page[p].size > MediumMax THEN 1 ELSE Blocks

\* _mi_page_free_collect: what other threads freed is free now.  Whether the
\* blocks lie in free, in local_free or beyond the capacity is left open.
FreeCollect(m, p) ==
  [m EXCEPT !.page[p].used = @ - m.page[p].remote, !.page[p].remote = 0]

\* mi_page_immediate_available after that, or after mi_page_extend_free.
Available(m, p) == m.page[p].used < Room(p, m)

\* _mi_page_free.
FreePage(m, b, p) == [Remove(m, b, p) EXCEPT !.page[p] = NoPage]

\* _mi_page_retire.
Retire(m, p) ==
  LET b == QueueOf(m, p)
      h == m.page[p].heap
  IN  IF m.page[p].size <= MediumMax /\ ~IsSpecial(b) /\ m.heap[h].pages[b] = <<p>>
      THEN [m EXCEPT !.page[p].expire = 1 + RetireCycles,
                     !.heap[h].retired_min = Min({@, b}),
                     !.heap[h].retired_max = Max({@, b})]
      ELSE FreePage(m, b, p)

\* _mi_page_unfull.
Unfull(m, p) == EnqueueFrom(m, mi_bin[m.page[p].size], BIN_FULL, p)

\* _mi_free_block by the owner.
FreeBlock(m, p) ==
  LET n == [m EXCEPT !.page[p].used = @ - 1]
  IN  IF n.page[p].used = 0 THEN Retire(n, p)
      ELSE IF n.page[p].in_full THEN Unfull(n, p) ELSE n

\* _mi_heap_delayed_free_partial and _all: the list is taken, and each block
\* freed by _mi_free_delayed_block, in whichever heap its page is now.
DelayedFree(m, h) ==
  LET list == m.heap[h].delayed
      After[i \in 0 .. Len(list)] ==
        IF i = 0 THEN [m EXCEPT !.heap[h].delayed = <<>>]
        ELSE FreeBlock(FreeCollect(After[i - 1], list[i]), list[i])
  IN  After[Len(list)]

\* _mi_heap_collect_retired looks at the first pages from retired_min to
\* retired_max.
CollectRetired(m, h, force) ==
  LET bins == m.heap[h].retired_min .. m.heap[h].retired_max
      Visit(n, b) ==
        LET p == First(n.heap[h].pages[b])
        IN  IF p = None \/ n.page[p].expire = 0 THEN n
            ELSE IF n.page[p].used # 0 THEN [n EXCEPT !.page[p].expire = 0]
            ELSE IF force \/ n.page[p].expire = 1 THEN FreePage(n, b, p)
            ELSE [n EXCEPT !.page[p].expire = @ - 1,
                           !.heap[h].retired_min = Min({@, b}),
                           !.heap[h].retired_max = Max({@, b})]
      After[b \in 0 .. BIN_FULL] ==
        LET n == IF b = 0 THEN [m EXCEPT !.heap[h].retired_min = BIN_FULL,
                                         !.heap[h].retired_max = 0]
                          ELSE After[b - 1]
        IN  IF b \in bins THEN Visit(n, b) ELSE n
  IN  After[BIN_FULL]

\* A block of p is in the delayed list of a heap.
IsDelayed(m, p) ==
  \E h \in Heaps : \E i \in DOMAIN m.heap[h].delayed : m.heap[h].delayed[i] = p

\* How many blocks of p the program holds.
Live(m, p) ==
  m.page[p].used - m.page[p].remote - (IF IsDelayed(m, p) THEN 1 ELSE 0)

\* What another thread does when it frees a block of p: the first one goes
\* to the heap, the rest to the page.
FreedElsewhere(m, p) ==
  IF Live(m, p) = 0 THEN m
  ELSE IF m.page[p].heap = Abandoned \/ IsDelayed(m, p)
  THEN [m EXCEPT !.page[p].remote = @ + 1]
  ELSE [m EXCEPT !.heap[m.page[p].heap].delayed = <<p>> \o @]

\* If others free blocks of p in the middle of an operation of the owner, it
\* matters when these are two: one of them goes to the page.
FreedLate(m, p) == FreedElsewhere(FreedElsewhere(m, p), p)

\* mi_page_to_full, which collects once more, "in case another thread freed
\* just before": late is a page for which one did, or None.
ToFull(m, b, p, late) ==
  LET n == EnqueueFrom(m, BIN_FULL, b, p)
  IN  FreeCollect(IF p = late THEN FreedLate(n, p) ELSE n, p)

---------------------------------------------------------------------------
\* Finding a page.  A result is [m, found], where found may be None.

\* mi_page_queue_find_free_ex, as far as its loop.
Search(m, h, b, late) ==
  LET q == m.heap[h].pages[b]
      After[i \in 0 .. Len(q)] ==
        IF i = 0 THEN [m |-> m, found |-> None]
        ELSE LET r == After[i - 1]
                 n == FreeCollect(r.m, q[i])
             IN  IF r.found # None THEN r
                 ELSE IF Available(n, q[i])
                 THEN [m |-> Check([n EXCEPT !.page[q[i]].expire = 0],
                                   First(n.heap[h].pages[b]) = q[i],
                                   "pq->first == page"),
                       found |-> q[i]]
                 ELSE [m |-> ToFull(n, b, q[i], late), found |-> None]
  IN  After[Len(q)]

\* One page of an abandoned segment that mi_segment_reclaim takes over, into
\* the heap that asks.
ReclaimPage(m, h, p) ==
  LET n == FreeCollect([m EXCEPT !.page[p].heap = h], p)
  IN  IF n.page[p].used = 0 THEN [n EXCEPT !.page[p] = NoPage]
      ELSE Push(n, h, mi_bin[n.page[p].size], p)

AbandonedPages(m) == {p \in Pages : m.page[p].heap = Abandoned}

Orders(S) ==
  {s \in [1 .. Cardinality(S) -> S] : \A p \in S : \E i \in DOMAIN s : s[i] = p}

\* The states after any of these sets of abandoned pages was reclaimed into h,
\* in any order.
Reclaimed(m, h, sets) ==
  LET All(s) == LET After[i \in 0 .. Len(s)] ==
                      IF i = 0 THEN m ELSE ReclaimPage(After[i - 1], h, s[i])
                IN  After[Len(s)]
  IN  {All(s) : s \in UNION {Orders(S) : S \in sets}}

\* mi_page_fresh_alloc: the segments may reclaim any abandoned pages into the
\* heap that asks, one of mi_heap_new too: they do not look at its no_reclaim.
\* There is a new page, or not.
Fresh(m, h, b) ==
  UNION {{[m |-> n, found |-> None]} \cup
         {[m |-> Push([n EXCEPT !.page[p] = [NoPage EXCEPT !.size = BlockSize[b],
                                                           !.heap = h]], h, b, p),
           found |-> p] : p \in {p \in Pages : n.page[p] = NoPage}}
         : n \in Reclaimed(m, h, SUBSET AbandonedPages(m))}

\* mi_page_queue_find_free_ex, once, and as its first try.
FindOnce(m, h, b, late) ==
  LET r == Search(m, h, b, late)
  IN  IF r.found # None THEN {r} ELSE Fresh(CollectRetired(r.m, h, FALSE), h, b)

FindFreeEx(m, h, b, late) ==
  UNION {IF r.found = None THEN FindOnce(r.m, h, b, late) ELSE {r} :
           r \in FindOnce(m, h, b, late)}

\* mi_find_free_page.
FindFreePage(m, h, b, late) ==
  LET p == First(m.heap[h].pages[b])
      n == FreeCollect(m, p)
  IN  IF p = None THEN FindFreeEx(m, h, b, late)
      ELSE IF Available(n, p)
      THEN {[m |-> [n EXCEPT !.page[p].expire = 0], found |-> p]}
      ELSE FindFreeEx(n, h, b, late)

\* mi_find_page.
FindPage(m, h, w, late) ==
  IF w > MediumMax THEN Fresh(m, h, BIN_HUGE) ELSE FindFreePage(m, h, mi_bin[w], late)

---------------------------------------------------------------------------
\* Whole heaps.

\* mi_heap_visit_pages with a visitor that may take the page it is given out
\* of its queue.
VisitPages(m, h, Visit(_, _, _)) ==
  LET Queue(n, b) ==
        LET q == n.heap[h].pages[b]
            After[i \in 0 .. Len(q)] == IF i = 0 THEN n
                                        ELSE Visit(After[i - 1], b, q[i])
        IN  After[Len(q)]
      After[b \in Bins] == Queue(IF b = 0 THEN m ELSE After[b - 1], b)
  IN  IF m.heap[h].page_count = 0 THEN m ELSE After[BIN_FULL]

\* _mi_page_abandon.
AbandonPage(m, b, p) == [Remove(m, b, p) EXCEPT !.page[p].heap = Abandoned]

\* mi_heap_page_collect.
CollectPage(m, b, p) ==
  LET n == FreeCollect(m, p)
  IN  IF n.page[p].used = 0 THEN FreePage(n, b, p) ELSE n

CollectOrAbandonPage(m, b, p) ==
  LET n == FreeCollect(m, p)
  IN  IF n.page[p].used = 0 THEN FreePage(n, b, p) ELSE AbandonPage(n, b, p)

\* _mi_abandoned_collect: pages of which others freed every block are freed.
AbandonedCollect(m, h) ==
  Reclaimed(m, h, SUBSET {p \in AbandonedPages(m) : Live(m, p) = 0})

\* mi_heap_collect_ex, normal and forced: the main thread, when it is forced,
\* first reclaims whatever is abandoned.
Collected(m, h, force) ==
  UNION {AbandonedCollect(VisitPages(CollectRetired(DelayedFree(n, h), h, force),
                                     h, CollectPage), h) :
           n \in IF force /\ h = Backing
                 THEN Reclaimed(m, h, {{}, AbandonedPages(m)}) ELSE {m}}

\* mi_heap_collect_ex at the end of the thread.
Abandon(m) ==
  LET n == VisitPages(CollectRetired(DelayedFree(m, Backing), Backing, TRUE),
                      Backing, CollectOrAbandonPage)
  IN  AbandonedCollect(Check(n, n.heap[Backing].page_count = 0,
                             "heap->page_count==0"), Backing)

\* mi_heap_reset_pages: the direct array is cleared to null.
ResetPages(m, h) ==
  [m EXCEPT !.heap[h].pages = EmptyHeap.pages, !.heap[h].direct = EmptyHeap.direct,
            !.heap[h].delayed = <<>>, !.heap[h].page_count = 0]

\* mi_heap_absorb; late is a page that others free blocks of between the two
\* visits to the delayed list, or None.
Absorb(m, late) ==
  LET start == DelayedFree(m, Extra)
      freed == IF late # None /\ start.page[late].heap = Extra
               THEN FreedLate(start, late) ELSE start
      After[b \in Bins] == AppendQueue(IF b = 0 THEN freed ELSE After[b - 1], b)
      all == After[BIN_FULL]
  IN  IF m.heap[Extra].page_count = 0 THEN m
      ELSE ResetPages(DelayedFree(Check(all, all.heap[Extra].page_count = 0,
                                        "from->page_count == 0"), Extra), Extra)

\* mi_heap_delete and mi_heap_free of the second heap.
Deleted(m, late) == [Absorb(m, late) EXCEPT !.heap[Extra] =
                       [EmptyHeap EXCEPT !.alive = FALSE]]

---------------------------------------------------------------------------
State == [page |-> page, heap |-> heap, failed |-> failed]

Becomes(m) == page' = m.page /\ heap' = m.heap /\ failed' = m.failed

\* The pages others may free blocks of during an operation on heap h.
Late(h) == {None} \cup {p \in Pages : page[p].heap = h /\ page[p].used > 1}

\* _mi_page_malloc takes a block of the page it is given.
Take(r) ==
  IF r.found = None THEN r.m
  ELSE [r.m EXCEPT !.page[r.found].used = @ + 1]

\* mi_heap_malloc_small: the page for the size has a block in its free list.
MallocSmall(h, w) ==
  LET p == heap[h].direct[w]
  IN  /\ heap[h].alive /\ w <= SmallMax
      /\ p # None /\ Available(State, p)
      /\ Becomes(Take([m |-> State, found |-> p]))

\* _mi_malloc_generic: when there is no page, it collects by force and looks
\* once more.
MallocGeneric(h, w) ==
  /\ heap[h].alive
  /\ \E found \in {UNION {FindPage(DelayedFree(State, h), h, w, late) : late \in Late(h)}} :
       \/ \E r \in found : r.found # None /\ Becomes(Take(r))
       \/ \E m \in UNION {Collected(f.m, h, TRUE) : f \in {g \in found : g.found = None}} :
            \E r \in FindPage(m, h, w, None) : Becomes(Take(r))

\* mi_free by the owner.
Free(p) ==
  /\ page[p].heap \in Heaps /\ Live(State, p) > 0
  /\ Becomes(FreeBlock(State, p))

\* mi_free by another thread.
FreeElsewhere(p) ==
  /\ page[p] # NoPage /\ Live(State, p) > 0
  /\ Becomes(FreedElsewhere(State, p))

\* mi_heap_collect.
Collect(h, force) ==
  /\ heap[h].alive
  /\ \E n \in Collected(State, h, force) : Becomes(n)

\* mi_heap_new.
NewHeap ==
  /\ ~heap[Extra].alive
  /\ Becomes([State EXCEPT !.heap[Extra] = EmptyHeap])

\* mi_heap_delete.
Delete ==
  /\ heap[Extra].alive
  /\ \E late \in Late(Extra) : Becomes(Deleted(State, late))

\* mi_heap_destroy: the blocks are gone with the pages.
Destroy ==
  /\ heap[Extra].alive
  /\ LET Gone(m, b, p) == [m EXCEPT !.page[p] = NoPage]
         n == VisitPages(State, Extra, Gone)
     IN  Becomes([n EXCEPT !.heap[Extra] = [EmptyHeap EXCEPT !.alive = FALSE]])

\* _mi_heap_done; the next thread starts with an empty heap.
ThreadDone ==
  LET m == IF heap[Extra].alive THEN Deleted(State, None) ELSE State
  IN  \E n \in Abandon(m) : Becomes([n EXCEPT !.heap[Backing] = EmptyHeap])

Next ==
  \/ \E h \in Heaps : \/ \E w \in Requests : MallocSmall(h, w) \/ MallocGeneric(h, w)
                      \/ \E force \in BOOLEAN : Collect(h, force)
  \/ \E p \in Pages : Free(p) \/ FreeElsewhere(p)
  \/ NewHeap \/ Delete \/ Destroy \/ ThreadDone

Spec == Init /\ [][Next]_vars

---------------------------------------------------------------------------
\* "For each small size ... it points directly to the page for that size"
\* (page-queue.c:160): whatever was pushed, removed, filled, emptied,
\* reclaimed or absorbed, every entry of the array names the first page of
\* the queue for its size, or none when that queue is empty.  A stale entry
\* hands out blocks of a page that is freed, of another size or of another
\* thread.
DirectMatches ==
  \A h \in Heaps : heap[h].alive =>
    \A w \in 0 .. SmallMax :
      heap[h].direct[w] = First(heap[h].pages[mi_bin[w]])

\* Every page of a heap is in exactly one of its queues, once: the one of
\* its size, or the full one when its flag says so; no queue holds any other
\* page; page_count, without which a collection passes over the heap, is
\* their number; and no assertion of page.c or heap.c about this fails.
QueuesAreSound ==
  /\ failed = {}
  /\ \A h \in Heaps :
       LET q == heap[h].pages
           mine == {p \in Pages : page[p].heap = h}
       IN  /\ \A b \in Bins : \A i \in DOMAIN q[b] :
                q[b][i] \in mine /\ b = QueueOf(State, q[b][i])
           /\ \A p \in mine : \E i \in DOMAIN q[QueueOf(State, p)] :
                q[QueueOf(State, p)][i] = p
           /\ heap[h].page_count = Cardinality(mine)
           /\ heap[h].page_count =
                Cardinality(UNION {{b} \X DOMAIN q[b] : b \in Bins})
=============================================================================
