------------------------ MODULE MiDelayedFree_proofs ------------------------
(***************************************************************************)
(* Proofs about the delayed-free protocol, for any number of threads,      *)
(* heaps, page areas and blocks.                                           *)
(*                                                                         *)
(* The inductive invariant IInv has these parts: what a page header is     *)
(* (Headers), where a thread may be and with which heap (Control), which   *)
(* heap and which flag a page has (Belongs, AtHand, Refusals, OneWriter),  *)
(* how a block finds its way home while heaps are given up and pages       *)
(* change heaps (RouteInv), where the blocks are that are on no list of    *)
(* their page (BlockInv), and who knows of those (SomeoneKnows).  Every    *)
(* action has a lemma that it preserves IInv.                              *)
(***************************************************************************)
EXTENDS MiDelayedFree, FiniteSetTheorems, TLAPS

\* A program that calls mi_heap_destroy allocates from one thread, which does
\* not end; one that does not call it has any number of threads that allocate,
\* end and reclaim.  Without this the theorems below are false of the code:
\* mi_heap_destroy frees what an ended thread left and its heap reclaimed, live
\* blocks included, because no_reclaim of mi_heap_new_in_arena is read by nobody
\* (heap.c:221, segment.c:1353).
DestroysAlone == Destroys => \A h \in Heaps : OwnerOf[h] = Main

-----------------------------------------------------------------------------
(* Page headers.                                                           *)

\* The blocks of a page that are on none of its lists.
Out(q) == q.cap \ (q.free \cup q.local \cup q.tfree)

\* The three lists of a page share no block, and used counts the blocks that
\* the owner does not see as free.
Sound(q, p) ==
  /\ q \in Page
  /\ q.cap \subseteq BlocksOf(p)
  /\ q.free \cup q.local \cup q.tfree \subseteq q.cap
  /\ q.free \cap q.local = {}
  /\ q.tfree \cap (q.free \cup q.local) = {}
  /\ q.used = Cardinality(q.cap \ (q.free \cup q.local))

Headers ==
  /\ page \in [Pages -> Page]
  /\ \A p \in Pages :
       /\ Sound(page[p], p)
       /\ page[p].state = "none" => page[p] = NoPage
       /\ page[p].state # "none" => page[p].cap # {}

\* A page of the full queue has a block outside.
FullInUse == \A p \in Pages : page[p].state = "full" => page[p].used > 0

-----------------------------------------------------------------------------
(* Threads.                                                                *)

\* The variables that are not page headers.
Types ==
  /\ delayed \in [Heaps -> SUBSET Blocks]
  /\ alive \in SUBSET Heaps
  /\ live \in SUBSET Blocks
  /\ origin \in [Blocks -> Heaps \cup {NoHeap}]
  /\ pc \in [Threads -> Locations]
  /\ job \in [Threads -> Jobs]
  /\ heap \in [Threads -> Heaps \cup {NoHeap}]
  /\ blk \in [Threads -> Blocks \cup {NoBlock}]
  /\ hand \in [Threads -> SUBSET Blocks]
  /\ again \in [Threads -> BOOLEAN]
  /\ todo \in [Threads -> SUBSET Pages]

\* The jobs a thread may have where it is.
JobFits(l, j) ==
  /\ l \in {"idle", "mt", "read", "push", "reset", "gone"} <=> j = "none"
  /\ l \in {"take", "drain", "settle"} => j \notin {"retry", "destroy"}
  /\ l \in {"find", "tofull", "fresh"} => j \in {"malloc", "retry", "other"}
  /\ l \in {"tofull", "fresh"} => j # "other"
  /\ l = "all" => j \in {"force", "oom"}
  /\ l \in {"flag", "collect"} => j \in {"force", "oom", "malloc", "retry"}
  /\ l = "visit" => j \in {"normal", "force", "oom", "abandon"}
  /\ l = "never" => j = "abandon"
  /\ l \in {"absorb", "aflag"} => j = "delete"
  /\ l = "destroy" <=> j = "destroy"

\* A thread in a call on a heap has the use of it; one that is freeing has a
\* block; and a thread that has ended has no heap, least of all its own.
Control ==
  \A t \in Threads :
    /\ JobFits(pc[t], job[t])
    /\ job[t] # "none" => heap[t] \in alive /\ OwnerOf[heap[t]] = t
    /\ pc[t] \in {"mt", "read", "push", "reset", "settle"} => blk[t] \in Blocks
    /\ pc[t] \notin {"drain", "settle"} => hand[t] = {}
    /\ job[t] \in {"delete", "drop", "destroy"} => heap[t] \notin Backing
    /\ job[t] = "abandon" =>
         /\ t # Main
         /\ heap[t] \in Backing
         /\ \A h \in alive \ {heap[t]} : OwnerOf[h] # t
    /\ pc[t] = "gone" =>
         /\ t # Main
         /\ \A h \in alive : OwnerOf[h] # t
         /\ \A g, h \in Backing : OwnerOf[g] = t /\ OwnerOf[h] = t => g = h
    /\ pc[t] # "gone" => \A h \in Backing : OwnerOf[h] = t => h \in alive
    /\ pc[t] = "destroy" => Destroys
    /\ pc[t] \in {"tofull", "flag", "collect", "aflag"} =>
         \A p, q \in todo[t] : p = q

-----------------------------------------------------------------------------
(* Which heap a page belongs to.                                           *)

Belongs ==
  \A p \in Pages :
    /\ page[p].state = "abandoned" =>
         page[p].heap = NoHeap /\ page[p].thread = NoThread /\ page[p].flag = "never"
    /\ page[p].state \in {"queue", "full", "reclaim"} =>
         page[p].heap \in alive /\ page[p].thread = OwnerOf[page[p].heap]

\* The pages a thread has at hand.
AtHandOf(t) ==
  \A p \in Pages :
    /\ pc[t] \in {"flag", "collect"} /\ p \in todo[t] =>
         page[p].state = "reclaim" /\ page[p].heap = heap[t]
    /\ pc[t] = "visit" /\ p \in todo[t] => page[p].heap = heap[t]
    /\ pc[t] = "tofull" /\ p \in todo[t] => page[p].state = "full" /\ page[p].heap = heap[t]
    /\ pc[t] = "aflag" /\ p \in todo[t] =>
         page[p].heap \in Backing /\ OwnerOf[page[p].heap] = t
    /\ job[t] = "drop" => page[p].heap # heap[t]
    /\ job[t] = "abandon" /\ pc[t] = "visit" /\ page[p].heap = heap[t] => p \in todo[t]
AtHand == \A t \in Threads : AtHandOf(t)

\* Delayed frees are refused for good only by a thread that ends, until the
\* page is taken over; one that has begun to drain its heap refuses them all.
Refusals ==
  \A t \in Threads : \A p \in Pages :
    /\ page[p].flag = "never" /\ page[p].thread = t =>
         (pc[t] = "flag" /\ p \in todo[t]) \/ job[t] = "abandon"
    /\ job[t] = "abandon" /\ pc[t] # "never" /\ page[p].heap = heap[t] =>
         page[p].flag = "never"

\* One thread at a time is on its way to the heap of a page, and the flag
\* says so.
OneWriter ==
  \A t \in Threads : pc[t] \in {"read", "push", "reset"} =>
    /\ page[PageOf[blk[t]]].flag = "freeing"
    /\ \A u \in Threads \ {t} :
         pc[u] \in {"read", "push", "reset"} => PageOf[blk[u]] # PageOf[blk[t]]

-----------------------------------------------------------------------------
(* Where the blocks on their way are, and whose they are.                  *)

\* The heap h is being given up, and its thread has moved p to its first heap.
Moved(h, p) ==
  /\ heap[OwnerOf[h]] = h
  /\ job[OwnerOf[h]] \in {"delete", "drop"}
  /\ page[p].heap \in Backing
  /\ OwnerOf[page[p].heap] = OwnerOf[h]

\* The heap h is being destroyed, and p is no page any more.
Doomed(h, p) ==
  /\ heap[OwnerOf[h]] = h
  /\ job[OwnerOf[h]] = "destroy"
  /\ page[p] = NoPage

\* A delayed block lies in a page of the heap whose list it is in.
Routed(h, b) ==
  page[PageOf[b]].heap = h \/ Moved(h, PageOf[b]) \/ Doomed(h, PageOf[b])
DelayedRoute == \A h \in Heaps : \A b \in delayed[h] : Routed(h, b)

\* So does a block its thread is about to free, and that page is its own.
AtHome(t, b) == page[PageOf[b]].heap = heap[t] \/ Moved(heap[t], PageOf[b])
HandRoute ==
  \A t \in Threads :
    /\ \A b \in hand[t] : AtHome(t, b)
    /\ pc[t] = "settle" => page[PageOf[blk[t]]].thread = t

\* A stranger pushes on the heap of the page, or on the one the page has just
\* been taken from, whose thread then waits for the stranger.
Expected(t) ==
  /\ heap[t] \in alive
  /\ \/ page[PageOf[blk[t]]].heap = heap[t]
     \/ \E u \in Threads : /\ pc[u] = "aflag"
                           /\ PageOf[blk[t]] \in todo[u]
                           /\ heap[u] = heap[t]
PushRoute == \A t \in Threads : pc[t] = "push" => Expected(t)

\* Nothing is left in the list of a heap that is gone or about to go.
NoneLeft ==
  /\ \A h \in Heaps \ alive : delayed[h] = {}
  /\ \A t \in Threads :
       /\ job[t] \in {"abandon", "drop"} /\ pc[t] \in {"drain", "settle"} /\ ~ again[t] =>
            delayed[heap[t]] = {}
       /\ job[t] = "abandon" /\ pc[t] = "visit" => delayed[heap[t]] = {}

\* A block the program holds, or that is on its way, is on no list of its page.
LiveOut == \A b \in live : b \in Out(page[PageOf[b]])
DelayedOut ==
  \A h \in Heaps : \A b \in delayed[h] : b \in Out(page[PageOf[b]]) \/ Doomed(h, PageOf[b])
HandOut == \A t \in Threads : \A b \in hand[t] : b \in Out(page[PageOf[b]])
CarriedOut ==
  \A t \in Threads : \A b \in Blocks : Carries(t, b) => b \in Out(page[PageOf[b]])

\* A block just pushed is not freed before its thread has lowered the flag.
Unsettled(b) ==
  /\ b \in Out(page[PageOf[b]])
  /\ b \notin live
  /\ \A u \in Threads : ~ Carries(u, b)
SentOut ==
  \A t \in Threads : \A b \in Blocks : pc[t] = "reset" /\ blk[t] = b => Unsettled(b)

\* A block on no list of its page is with the program or on its way.
NoneLost ==
  ~ Destroys => \A b \in Blocks : b \in Out(page[PageOf[b]]) =>
    \/ b \in live
    \/ \E h \in Heaps : b \in delayed[h]
    \/ \E t \in Threads : b \in hand[t]
    \/ \E t \in Threads : Carries(t, b)

\* It is in one place.
OnePlace ==
  /\ \A b \in live : \A h \in Heaps : b \notin delayed[h]
  /\ \A b \in live : \A t \in Threads : b \notin hand[t] /\ ~ Carries(t, b)
  /\ \A h \in Heaps : \A b \in delayed[h] :
       /\ \A g \in Heaps \ {h} : b \notin delayed[g]
       /\ \A t \in Threads : b \notin hand[t] /\ ~ Carries(t, b)
  /\ \A t, u \in Threads : \A b \in hand[t] :
       ~ Carries(u, b) /\ (u # t => b \notin hand[u])
  /\ \A t, u \in Threads : \A b \in Blocks : Carries(t, b) /\ Carries(u, b) => t = u

\* While a heap is destroyed no block of it is with the program.
DestroyInv ==
  Destroys =>
    /\ \A b \in live : origin[b] = page[PageOf[b]].heap
    /\ \A p \in Pages : page[p].state # "abandoned"
    /\ \A t \in Threads : job[t] = "destroy" =>
         /\ \A b \in live : page[PageOf[b]].heap # heap[t]
         /\ \A u \in Threads : pc[u] = "mt" => page[PageOf[blk[u]]].heap # heap[t]

\* What is known of the pages, of the threads, of the heaps' lists, and of the
\* blocks on no list of their page.
PageInv == Headers /\ FullInUse /\ Belongs /\ AtHand /\ Refusals /\ OneWriter
RouteInv == DelayedRoute /\ HandRoute /\ PushRoute /\ NoneLeft
BlockInv ==
  LiveOut /\ DelayedOut /\ HandOut /\ CarriedOut /\ SentOut /\ NoneLost /\ OnePlace

IInv ==
  Types /\ Control /\ PageInv /\ RouteInv /\ BlockInv /\ DestroyInv /\ SomeoneKnows

-----------------------------------------------------------------------------
(* What the operations on a page header do to it.                          *)

SameTag(q, r) ==
  r.state = q.state /\ r.heap = q.heap /\ r.thread = q.thread /\ r.flag = q.flag

\* Any set of blocks is finite.
LEMMA SubsetsFinite ==
  ASSUME NEW S \in SUBSET Blocks
  PROVE  IsFiniteSet(S) /\ Cardinality(S) \in Nat
  BY Assumption, FS_Subset, FS_CardinalityType

\* Every block lies in its page area.
LEMMA PageAreas == \A b \in Blocks : PageOf[b] \in Pages /\ b \in BlocksOf(PageOf[b])
  BY Assumption DEF BlocksOf

\* A cleared header is sound, and nothing is outside its lists.
LEMMA NoPageSound ==
  ASSUME NEW p \in Pages
  PROVE  Sound(NoPage, p) /\ Out(NoPage) = {}
  BY FS_EmptySet DEF Sound, Out, NoPage, Page, States, Flags

\* _mi_page_free_collect moves no block off the lists of the page.
LEMMA CollectSound ==
  ASSUME NEW p \in Pages, NEW q, Sound(q, p), NEW force \in BOOLEAN
  PROVE  LET r == Collect(q, force) IN
         /\ Sound(r, p) /\ SameTag(q, r)
         /\ r.cap = q.cap /\ r.tfree = {} /\ Out(r) = Out(q)
<1> DEFINE r == Collect(q, force)
           U == q.cap \ (q.free \cup q.local)
<1>1. /\ q \in Page /\ q.cap \subseteq Blocks /\ q.tfree \subseteq U
      /\ q.used = Cardinality(U)
  BY DEF Sound, Page
<1>2. IsFiniteSet(U) /\ Cardinality(U) \in Nat /\ U \cap q.tfree = q.tfree
  BY <1>1, SubsetsFinite
<1>3. Cardinality(U \ q.tfree) = Cardinality(U) - Cardinality(q.tfree)
  BY <1>2, FS_Difference
<1>4. Cardinality(q.tfree) \in Nat /\ Cardinality(U \ q.tfree) \in Nat
  BY <1>1, SubsetsFinite
<1>5. /\ r.state = q.state /\ r.heap = q.heap /\ r.thread = q.thread /\ r.flag = q.flag
      /\ r.cap = q.cap /\ r.tfree = {} /\ r.used = q.used - Cardinality(q.tfree)
      /\ r.free \cup r.local = q.free \cup q.local \cup q.tfree
      /\ r.free \cap r.local = {}
      /\ r.free \subseteq Blocks /\ r.local \subseteq Blocks
      /\ DOMAIN r = DOMAIN q
  BY <1>1 DEF Collect, Page, Sound
<1>6. r.cap \ (r.free \cup r.local) = U \ q.tfree
  BY <1>5
<1>7. r \in Page
  BY <1>1, <1>3, <1>4 DEF Collect, Page
<1>8. QED
  BY <1>1, <1>3, <1>5, <1>6, <1>7 DEF Sound, SameTag, Out

\* _mi_page_malloc puts one block outside.
LEMMA PopSound ==
  ASSUME NEW p \in Pages, NEW q, Sound(q, p), NEW b \in q.free
  PROVE  LET r == Pop(q, b) IN
         /\ Sound(r, p) /\ SameTag(q, r) /\ r.cap = q.cap /\ r.tfree = q.tfree
         /\ b \in BlocksOf(p) /\ b \notin Out(q) /\ Out(r) = Out(q) \cup {b}
<1> DEFINE r == Pop(q, b)
           U == q.cap \ (q.free \cup q.local)
<1>1. /\ q \in Page /\ U \subseteq Blocks /\ b \notin U /\ b \in q.cap
      /\ b \notin q.local /\ b \notin q.tfree /\ q.used = Cardinality(U)
      /\ b \in BlocksOf(p)
  BY DEF Sound, Page
<1>2. Cardinality(U \cup {b}) = Cardinality(U) + 1
  BY <1>1, SubsetsFinite, FS_AddElement
<1>3. /\ SameTag(q, r) /\ r.cap = q.cap /\ r.tfree = q.tfree /\ r.local = q.local
      /\ r.free = q.free \ {b} /\ r.used = q.used + 1 /\ r \in Page
  <2>1. r = [q EXCEPT !.free = q.free \ {b}, !.used = q.used + 1]
    BY DEF Pop
  <2>2. q.used + 1 \in Nat /\ q.free \ {b} \in SUBSET Blocks
    BY <1>1 DEF Page
  <2>3. QED
    BY <1>1, <2>1, <2>2 DEF Page, SameTag
<1>4. r.cap \ (r.free \cup r.local) = U \cup {b}
  BY <1>1, <1>3
<1>5. Sound(r, p)
  BY <1>1, <1>2, <1>3, <1>4 DEF Sound
<1>6. QED
  BY <1>1, <1>3, <1>5 DEF Out

\* mi_page_extend_free adds free blocks that were none before.
LEMMA ExtendSound ==
  ASSUME NEW p \in Pages, NEW q, Sound(q, p), NEW new \in Extensions(q, p)
  PROVE  LET r == Extend(q, new) IN
         /\ Sound(r, p) /\ SameTag(q, r) /\ r.tfree = q.tfree /\ Out(r) = Out(q)
         /\ r.cap = q.cap \cup new /\ r.free = q.free \cup new /\ new \subseteq BlocksOf(p)
         /\ new \cap q.cap = {}
<1> DEFINE r == Extend(q, new)
<1>1. /\ q \in Page /\ new \subseteq BlocksOf(p) /\ new \cap q.cap = {}
      /\ new \subseteq Blocks
  BY DEF Sound, Extensions, BlocksOf
<1>2. /\ SameTag(q, r) /\ r.cap = q.cap \cup new /\ r.tfree = q.tfree /\ r.local = q.local
      /\ r.free = q.free \cup new /\ r.used = q.used /\ r \in Page
  BY <1>1 DEF Extend, Page, SameTag
<1>3. r.cap \ (r.free \cup r.local) = q.cap \ (q.free \cup q.local)
  BY <1>1, <1>2 DEF Sound
<1>4. Sound(r, p)
  BY <1>1, <1>2, <1>3 DEF Sound
<1>5. QED
  BY <1>1, <1>2, <1>4 DEF Out, Sound

\* _mi_free_block takes one block back, and gives the page back only when it
\* was the last one outside.
LEMMA FreeBlockSound ==
  ASSUME NEW p \in Pages, NEW q, Sound(q, p), NEW b \in Out(q), NEW sole \in BOOLEAN
  PROVE  LET r == FreeBlock(q, b, sole) IN
         /\ Sound(r, p)
         /\ \/ r = NoPage /\ Out(q) = {b}
            \/ /\ r.state = "queue" /\ r.heap = q.heap /\ r.thread = q.thread
               /\ r.flag = q.flag /\ r.cap = q.cap /\ r.tfree = q.tfree
               /\ Out(r) = Out(q) \ {b}
<1> DEFINE U == q.cap \ (q.free \cup q.local)
           f == [q EXCEPT !.local = @ \cup {b}, !.used = @ - 1]
           r == FreeBlock(q, b, sole)
<1>1. /\ q \in Page /\ U \subseteq Blocks /\ b \in U /\ b \in q.cap
      /\ b \notin q.free /\ b \notin q.local /\ b \notin q.tfree
      /\ q.used = Cardinality(U)
  BY DEF Sound, Page, Out
<1>2. IsFiniteSet(U) /\ Cardinality(U) \in Nat /\ IsFiniteSet(U \ {b})
      /\ Cardinality(U \ {b}) \in Nat
  BY <1>1, SubsetsFinite
<1>3. Cardinality(U \ {b}) = Cardinality(U) - 1
  BY <1>1, <1>2, FS_RemoveElement
<1>4. /\ f \in Page /\ SameTag(q, f) /\ f.cap = q.cap /\ f.tfree = q.tfree
      /\ f.free = q.free /\ f.local = q.local \cup {b} /\ f.used = q.used - 1
  BY <1>1, <1>2, <1>3 DEF Page, SameTag
<1>5. f.cap \ (f.free \cup f.local) = U \ {b}
  BY <1>1, <1>4
<1>6. Sound(f, p) /\ Out(f) = Out(q) \ {b}
  BY <1>1, <1>3, <1>4, <1>5 DEF Sound, Out
<1>7. CASE f.used = 0 /\ f.state = "queue" /\ sole
  BY <1>4, <1>6, <1>7 DEF FreeBlock, SameTag
<1>8. CASE f.used = 0 /\ ~ (f.state = "queue" /\ sole)
  <2>1. U \ {b} = {}
    BY <1>2, <1>3, <1>4, <1>8, <1>1, FS_EmptySet
  <2>2. r = NoPage
    BY <1>8 DEF FreeBlock
  <2>3. Out(q) = {b}
    BY <2>1 DEF Out
  <2>4. QED
    BY <2>2, <2>3, NoPageSound
<1>9. CASE f.used # 0
  <2>1. r = [f EXCEPT !.state = "queue"]
    BY <1>9 DEF FreeBlock
  <2>2. /\ r \in Page /\ r.state = "queue" /\ r.heap = f.heap /\ r.thread = f.thread
        /\ r.flag = f.flag /\ r.cap = f.cap /\ r.tfree = f.tfree /\ r.free = f.free
        /\ r.local = f.local /\ r.used = f.used
    BY <2>1, <1>4 DEF Page, States
  <2>3. Sound(r, p) /\ Out(r) = Out(f)
    BY <2>2, <1>6 DEF Sound, Out
  <2>4. QED
    BY <2>2, <2>3, <1>4, <1>6 DEF SameTag
<1>10. QED
  BY <1>7, <1>8, <1>9

\* A collected page: it is given back if it is empty.
LEMMA EmptyHasNoneOut ==
  ASSUME NEW p \in Pages, NEW q, Sound(q, p), q.used = 0
  PROVE  Out(q) = {}
<1>1. q.cap \ (q.free \cup q.local) \in SUBSET Blocks
  BY DEF Sound, Page
<1>2. QED
  BY <1>1, SubsetsFinite, FS_EmptySet DEF Sound, Out

\* mi_heap_page_collect gives back an empty page and changes no block.
LEMMA CollectPageSound ==
  ASSUME NEW p \in Pages, NEW q, Sound(q, p), NEW j \in Jobs
  PROVE  LET r == CollectPage(q, j) IN
         /\ Sound(r, p)
         /\ \/ r = NoPage /\ Out(q) = {}
            \/ /\ r.cap = q.cap /\ r.tfree = {} /\ Out(r) = Out(q) /\ r.flag = q.flag
               /\ r.used > 0
               /\ \/ j # "abandon" /\ SameTag(q, r)
                  \/ /\ j = "abandon" /\ r.state = "abandoned"
                     /\ r.heap = NoHeap /\ r.thread = NoThread
<1> DEFINE c == Collect(q, j # "normal")
           r == CollectPage(q, j)
<1>1. /\ Sound(c, p) /\ SameTag(q, c)
      /\ c.cap = q.cap /\ c.tfree = {} /\ Out(c) = Out(q)
  BY CollectSound
<1>2. CASE c.used = 0
  BY <1>1, <1>2, EmptyHasNoneOut, NoPageSound DEF CollectPage
<1>3. CASE c.used # 0
  <2>1. c \in Page /\ c.used > 0
    BY <1>1, <1>3 DEF Sound, Page
  <2>2. CASE j # "abandon"
    BY <1>1, <1>3, <2>1, <2>2 DEF CollectPage, SameTag
  <2>3. CASE j = "abandon"
    <3>1. r = [c EXCEPT !.state = "abandoned", !.heap = NoHeap, !.thread = NoThread]
      BY <1>3, <2>3 DEF CollectPage
    <3>2. /\ r \in Page /\ r.state = "abandoned" /\ r.heap = NoHeap /\ r.thread = NoThread
          /\ r.flag = c.flag /\ r.cap = c.cap /\ r.tfree = c.tfree /\ r.free = c.free
          /\ r.local = c.local /\ r.used = c.used
      BY <3>1, <2>1 DEF Page, States
    <3>3. Sound(r, p) /\ Out(r) = Out(c)
      BY <3>2, <1>1 DEF Sound, Out
    <3>4. QED
      BY <3>2, <3>3, <1>1, <2>1, <2>3 DEF SameTag
  <2>4. QED
    BY <2>2, <2>3
<1>4. QED
  BY <1>2, <1>3

-----------------------------------------------------------------------------
(* What follows from the invariant.                                        *)

\* The named parts of the invariant.
LEMMA Parts ==
  IInv => /\ Types /\ Control /\ Headers /\ FullInUse /\ Belongs /\ AtHand /\ Refusals
          /\ OneWriter /\ DelayedRoute /\ HandRoute /\ PushRoute /\ NoneLeft
          /\ LiveOut /\ DelayedOut /\ HandOut /\ CarriedOut /\ SentOut /\ NoneLost
          /\ OnePlace /\ DestroyInv /\ SomeoneKnows
  BY DEF IInv, PageInv, RouteInv, BlockInv

\* The fields of a cleared header.
LEMMA NoPageFields ==
  /\ NoPage.state = "none" /\ NoPage.heap = NoHeap /\ NoPage.thread = NoThread
  /\ NoPage.flag = "use" /\ NoPage.tfree = {} /\ NoPage.cap = {} /\ NoPage.free = {}
  /\ NoPage.local = {} /\ NoPage.used = 0 /\ NoPage \in Page
  BY DEF NoPage, Page, States, Flags

\* The header of a page says the same thing in several ways.
LEMMA PageFacts ==
  ASSUME IInv, NEW p \in Pages
  PROVE  /\ page[p] \in Page
         /\ page[p].state = "none" <=> page[p] = NoPage
         /\ page[p].state \in {"none", "abandoned"} <=> page[p].heap = NoHeap
         /\ page[p].state \in {"none", "abandoned"} <=> page[p].thread = NoThread
         /\ page[p].state \notin {"none", "abandoned"} =>
              /\ page[p].state \in {"queue", "full", "reclaim"}
              /\ page[p].heap \in alive /\ page[p].heap \in Heaps
              /\ page[p].thread \in Threads /\ page[p].thread = OwnerOf[page[p].heap]
         /\ Out(page[p]) # {} => page[p] # NoPage
<1>1. page[p] \in Page /\ (page[p].state = "none" => page[p] = NoPage)
  BY DEF IInv, PageInv, Headers
<1>2. /\ page[p].state = "abandoned" => page[p].heap = NoHeap /\ page[p].thread = NoThread
      /\ page[p].state \in {"queue", "full", "reclaim"} =>
           page[p].heap \in alive /\ page[p].thread = OwnerOf[page[p].heap]
  BY DEF IInv, PageInv, Belongs
<1>3. alive \subseteq Heaps
  BY DEF IInv, Types
<1>4. page[p].state \in {"none", "abandoned", "queue", "full", "reclaim"}
  BY <1>1 DEF Page, States
<1>5. QED
  BY <1>1, <1>2, <1>3, <1>4, NoPageFields, NoPageSound, Assumption

\* The pages of the heap a thread works on are the thread's.
LEMMA OwnPages ==
  ASSUME IInv, NEW t \in Threads, job[t] # "none"
  PROVE  /\ heap[t] \in alive /\ heap[t] \in Heaps /\ OwnerOf[heap[t]] = t
         /\ \A p \in Pages : page[p].heap = heap[t] =>
              page[p].thread = t /\ page[p].state \in {"queue", "full", "reclaim"}
<1>1. heap[t] \in alive /\ OwnerOf[heap[t]] = t /\ alive \subseteq Heaps
  BY DEF IInv, Types, Control
<1>2. QED
  BY <1>1, PageFacts, Assumption

\* The page a stranger is at on its way to the heap belongs to a heap.
LEMMA WriterFacts ==
  ASSUME IInv, NEW t \in Threads, pc[t] \in {"read", "push", "reset"}
  PROVE  /\ blk[t] \in Blocks /\ PageOf[blk[t]] \in Pages
         /\ page[PageOf[blk[t]]].flag = "freeing"
         /\ page[PageOf[blk[t]]].state \in {"queue", "full", "reclaim"}
         /\ page[PageOf[blk[t]]].heap \in alive
<1>1. blk[t] \in Blocks /\ PageOf[blk[t]] \in Pages
  BY PageAreas DEF IInv, Control
<1>2. page[PageOf[blk[t]]].flag = "freeing"
  BY DEF IInv, PageInv, OneWriter
<1>3. page[PageOf[blk[t]]].state \notin {"none", "abandoned"}
  BY <1>1, <1>2, PageFacts, NoPageFields DEF IInv, PageInv, Belongs
<1>4. QED
  BY <1>1, <1>2, <1>3, PageFacts

\* A block outside the lists of its page lies in a page.
LEMMA OutsideFacts ==
  ASSUME IInv, NEW b \in Blocks, b \in Out(page[PageOf[b]])
  PROVE  PageOf[b] \in Pages /\ page[PageOf[b]] # NoPage
  BY PageAreas, NoPageSound

-----------------------------------------------------------------------------
(* What a step of one thread leaves alone.                                 *)

Others(t) ==
  \A u \in Threads \ {t} :
    /\ pc'[u] = pc[u] /\ job'[u] = job[u] /\ heap'[u] = heap[u] /\ blk'[u] = blk[u]
    /\ hand'[u] = hand[u] /\ again'[u] = again[u] /\ todo'[u] = todo[u]

\* A heap being given up stays so while there are delayed blocks of it.
GivesUp(t) ==
  hand'[t] # {} \/ delayed'[heap[t]] # {} =>
    /\ job[t] \in {"delete", "drop"} => heap'[t] = heap[t] /\ job'[t] \in {"delete", "drop"}
    /\ job[t] = "destroy" => heap'[t] = heap[t] /\ job'[t] = "destroy"

\* The memory of a heap is given back when no page belongs to it.
AliveKept == \A h \in alive \ alive' : \A p \in Pages : page'[p].heap # h

\* Pages keep their heaps, or are given back.
HeapsKept ==
  \A p \in Pages :
    \/ page'[p] = NoPage
    \/ page[p] # NoPage /\ page'[p].heap = page[p].heap /\ page'[p].thread = page[p].thread

\* And their flags.
TagsKept ==
  \A p \in Pages :
    \/ page'[p] = NoPage
    \/ /\ page'[p].heap = page[p].heap /\ page'[p].thread = page[p].thread
       /\ page'[p].flag = page[p].flag /\ page[p] # NoPage
       /\ \/ page'[p].state = page[p].state
          \/ {page'[p].state, page[p].state} \subseteq {"queue", "full", "reclaim"}

\* A delayed block that is delayed before and after the step is still where
\* it should be.
LEMMA RoutedStill ==
  ASSUME NEW t \in Threads, IInv, Others(t), GivesUp(t), HeapsKept, DelayedOut',
         NEW h \in Heaps, NEW b \in delayed[h], b \in delayed'[h]
  PROVE  Routed(h, b)'
<1>1. /\ b \in Blocks /\ PageOf[b] \in Pages /\ OwnerOf[h] \in Threads
  BY PageAreas, Assumption DEF IInv, Types
<1>2. Routed(h, b)
  BY DEF IInv, RouteInv, DelayedRoute
<1>3. b \in Out(page'[PageOf[b]]) \/ Doomed(h, PageOf[b])'
  BY DEF DelayedOut
<1>4. heap[OwnerOf[h]] = h =>
        /\ job[OwnerOf[h]] \in {"delete", "drop"} =>
             heap'[OwnerOf[h]] = h /\ job'[OwnerOf[h]] \in {"delete", "drop"}
        /\ job[OwnerOf[h]] = "destroy" =>
             heap'[OwnerOf[h]] = h /\ job'[OwnerOf[h]] = "destroy"
  BY <1>1 DEF Others, GivesUp
<1>5. CASE Doomed(h, PageOf[b])'
  BY <1>5 DEF Routed
<1>6. CASE b \in Out(page'[PageOf[b]])
  <2>1. page[PageOf[b]] # NoPage /\ page'[PageOf[b]].heap = page[PageOf[b]].heap
    BY <1>1, <1>6, NoPageSound DEF HeapsKept
  <2>2. QED
    BY <1>2, <1>4, <2>1 DEF Routed, Moved, Doomed
<1>7. QED
  BY <1>3, <1>5, <1>6

\* A block at hand stays at home while no page leaves its heap.
LEMMA AtHomeStill ==
  ASSUME NEW t \in Threads, IInv, Others(t), GivesUp(t), HeapsKept, HandOut',
         NEW u \in Threads, NEW b \in hand[u], b \in hand'[u], heap'[u] = heap[u]
  PROVE  AtHome(u, b)'
<1>1. /\ b \in Blocks /\ PageOf[b] \in Pages
  BY PageAreas DEF IInv, Types
<1>2. AtHome(u, b)
  BY DEF IInv, RouteInv, HandRoute
<1>3. page'[PageOf[b]].heap = page[PageOf[b]].heap
  BY <1>1, NoPageSound DEF HeapsKept, HandOut
<1>4. hand[u] # {}
  OBVIOUS
<1>5. job[u] # "none" /\ heap[u] \in Heaps /\ OwnerOf[heap[u]] = u
  BY <1>4, OwnPages DEF IInv, Control, JobFits
<1>6. job[u] \in {"delete", "drop"} => job'[u] \in {"delete", "drop"}
  BY DEF Others, GivesUp
<1>7. QED
  BY <1>2, <1>3, <1>5, <1>6 DEF AtHome, Moved

\* The page of a block a thread has taken from its hand stays its own.
LEMMA SettlesStill ==
  ASSUME NEW t \in Threads, IInv, HeapsKept, CarriedOut',
         NEW u \in Threads, pc[u] = "settle", pc'[u] = "settle", blk'[u] = blk[u]
  PROVE  page'[PageOf[blk'[u]]].thread = u
<1>1. blk[u] \in Blocks /\ PageOf[blk[u]] \in Pages
  BY PageAreas DEF IInv, Control
<1>2. page[PageOf[blk[u]]].thread = u
  BY DEF IInv, RouteInv, HandRoute
<1>3. blk[u] \in Out(page'[PageOf[blk[u]]])
  BY <1>1 DEF CarriedOut, Carries
<1>4. QED
  BY <1>1, <1>2, <1>3, NoPageSound DEF HeapsKept

\* A stranger is still expected at the heap it is about to push on.
LEMMA ExpectedStill ==
  ASSUME NEW t \in Threads, IInv, Others(t), HeapsKept, CarriedOut', AliveKept, Control',
         pc[t] = "aflag" =>
           \/ pc'[t] = "aflag" /\ todo'[t] = todo[t] /\ heap'[t] = heap[t]
           \/ \A p \in todo[t] : page[p].flag # "freeing",
         NEW u \in Threads, pc[u] = "push", pc'[u] = "push",
         heap'[u] = heap[u], blk'[u] = blk[u]
  PROVE  Expected(u)'
<1>1. blk[u] \in Blocks /\ PageOf[blk[u]] \in Pages
  BY PageAreas DEF IInv, Control
<1>2. Expected(u)
  BY DEF IInv, RouteInv, PushRoute
<1>3. blk[u] \in Out(page'[PageOf[blk[u]]])
  BY <1>1 DEF CarriedOut, Carries
<1>4. page'[PageOf[blk[u]]].heap = page[PageOf[blk[u]]].heap
  BY <1>1, <1>3, NoPageSound DEF HeapsKept
<1>5. \A w \in Threads : pc[w] = "aflag" /\ PageOf[blk[u]] \in todo[w] =>
        pc'[w] = "aflag" /\ todo'[w] = todo[w] /\ heap'[w] = heap[w]
  BY WriterFacts DEF Others
<1>6. \A w \in Threads : pc'[w] = "aflag" => heap'[w] \in alive'
  BY DEF Control, JobFits
<1>7. QED
  BY <1>1, <1>2, <1>4, <1>5, <1>6 DEF Expected, AliveKept

\* The routes of all blocks survive a step that pushes none.
LEMMA RoutesKept ==
  ASSUME NEW t \in Threads, IInv, Others(t), GivesUp(t), HeapsKept, BlockInv',
         AliveKept, Control',
         \A h \in Heaps : delayed'[h] \subseteq delayed[h],
         hand'[t] \subseteq hand[t],
         hand'[t] # {} => heap'[t] = heap[t],
         pc[t] = "aflag" =>
           \/ pc'[t] = "aflag" /\ todo'[t] = todo[t] /\ heap'[t] = heap[t]
           \/ \A p \in todo[t] : page[p].flag # "freeing",
         pc'[t] \notin {"settle", "push"}
  PROVE  DelayedRoute' /\ HandRoute' /\ PushRoute'
<1>1. DelayedRoute'
  BY RoutedStill DEF DelayedRoute, BlockInv
<1>2. HandRoute'
  <2>1. ASSUME NEW u \in Threads, NEW b \in hand'[u]
        PROVE  AtHome(u, b)'
    <3>1. b \in hand[u] /\ heap'[u] = heap[u]
      BY <2>1 DEF Others
    <3>2. QED
      BY <3>1, AtHomeStill DEF BlockInv
  <2>2. ASSUME NEW u \in Threads, pc'[u] = "settle"
        PROVE  page'[PageOf[blk'[u]]].thread = u
    BY <2>2, SettlesStill DEF Others, BlockInv
  <2>3. QED
    BY <2>1, <2>2 DEF HandRoute
<1>3. PushRoute'
  <2>1. ASSUME NEW u \in Threads, pc'[u] = "push"
        PROVE  Expected(u)'
    BY <2>1, ExpectedStill DEF Others, BlockInv
  <2>2. QED
    BY <2>1 DEF PushRoute
<1>4. QED
  BY <1>1, <1>2, <1>3

\* Pages belong where they did when no tag changes.
LEMMA BelongsStill ==
  ASSUME IInv, TagsKept, AliveKept
  PROVE  Belongs'
<1> SUFFICES ASSUME NEW p \in Pages
    PROVE  /\ page'[p].state = "abandoned" =>
                page'[p].heap = NoHeap /\ page'[p].thread = NoThread /\ page'[p].flag = "never"
           /\ page'[p].state \in {"queue", "full", "reclaim"} =>
                page'[p].heap \in alive' /\ page'[p].thread = OwnerOf[page'[p].heap]
  BY DEF Belongs
<1>1. /\ page[p].state = "abandoned" =>
           page[p].heap = NoHeap /\ page[p].thread = NoThread /\ page[p].flag = "never"
      /\ page[p].state \in {"queue", "full", "reclaim"} =>
           page[p].heap \in alive /\ page[p].thread = OwnerOf[page[p].heap]
  BY DEF IInv, PageInv, Belongs
<1>2. QED
  BY <1>1, NoPageFields DEF TagsKept, AliveKept

\* Nor does a step that changes no tag change what is refused.
LEMMA RefusalsStill ==
  ASSUME NEW t \in Threads, IInv, Others(t), TagsKept,
         pc[t] = "flag" => pc'[t] = "flag" /\ todo'[t] = todo[t],
         job[t] = "abandon" => job'[t] = "abandon" /\ heap'[t] = heap[t],
         job'[t] = "abandon" /\ pc'[t] # "never" =>
           job[t] = "abandon" /\ pc[t] # "never" /\ heap'[t] = heap[t]
  PROVE  Refusals'
<1> SUFFICES ASSUME NEW u \in Threads, NEW p \in Pages
    PROVE  /\ page'[p].flag = "never" /\ page'[p].thread = u =>
                (pc'[u] = "flag" /\ p \in todo'[u]) \/ job'[u] = "abandon"
           /\ job'[u] = "abandon" /\ pc'[u] # "never" /\ page'[p].heap = heap'[u] =>
                page'[p].flag = "never"
  BY DEF Refusals
<1>1. /\ page[p].flag = "never" /\ page[p].thread = u =>
           (pc[u] = "flag" /\ p \in todo[u]) \/ job[u] = "abandon"
      /\ job[u] = "abandon" /\ pc[u] # "never" /\ page[p].heap = heap[u] =>
           page[p].flag = "never"
  BY DEF IInv, PageInv, Refusals
<1>2. /\ pc[u] = "flag" => pc'[u] = "flag" /\ todo'[u] = todo[u]
      /\ job[u] = "abandon" => job'[u] = "abandon" /\ heap'[u] = heap[u]
      /\ job'[u] = "abandon" /\ pc'[u] # "never" =>
           job[u] = "abandon" /\ pc[u] # "never" /\ heap'[u] = heap[u]
  BY DEF Others
<1>3. job[u] # "none" => heap[u] \in Heaps
  BY OwnPages
<1>4. CASE page'[p] = NoPage
  BY <1>2, <1>3, <1>4, NoPageFields, Assumption
<1>5. CASE page'[p] # NoPage
  BY <1>1, <1>2, <1>5 DEF TagsKept
<1>6. QED
  BY <1>4, <1>5

\* The one writer of a page stays the one.
LEMMA OneWriterStill ==
  ASSUME NEW t \in Threads, IInv, Others(t), TagsKept, CarriedOut', SentOut',
         pc'[t] \in {"read", "push", "reset"} =>
           pc[t] \in {"read", "push", "reset"} /\ blk'[t] = blk[t]
  PROVE  OneWriter'
<1>1. \A u \in Threads : pc'[u] \in {"read", "push", "reset"} =>
        pc[u] \in {"read", "push", "reset"} /\ blk'[u] = blk[u]
  BY DEF Others
<1>2. ASSUME NEW u \in Threads, pc'[u] \in {"read", "push", "reset"}
      PROVE  page'[PageOf[blk'[u]]].flag = "freeing"
  <2>1. /\ page[PageOf[blk[u]]].flag = "freeing" /\ PageOf[blk[u]] \in Pages
        /\ blk'[u] = blk[u] /\ blk[u] \in Blocks
    BY <1>1, <1>2, WriterFacts
  <2>2. blk[u] \in Out(page'[PageOf[blk[u]]])
    BY <1>2, <2>1 DEF CarriedOut, Carries, SentOut, Unsettled
  <2>3. QED
    BY <2>1, <2>2, NoPageSound DEF TagsKept
<1>3. \A u, w \in Threads : u # w /\ pc[u] \in {"read", "push", "reset"}
                                  /\ pc[w] \in {"read", "push", "reset"} =>
        PageOf[blk[w]] # PageOf[blk[u]]
  BY DEF IInv, PageInv, OneWriter
<1>4. QED
  BY <1>1, <1>2, <1>3 DEF OneWriter

\* What a step that changes no tag preserves.
LEMMA TagsStill ==
  ASSUME NEW t \in Threads, IInv, Others(t), TagsKept, BlockInv', AliveKept,
         pc[t] = "flag" => pc'[t] = "flag" /\ todo'[t] = todo[t],
         job[t] = "abandon" => job'[t] = "abandon" /\ heap'[t] = heap[t],
         job'[t] = "abandon" /\ pc'[t] # "never" =>
           job[t] = "abandon" /\ pc[t] # "never" /\ heap'[t] = heap[t],
         pc'[t] \in {"read", "push", "reset"} =>
           pc[t] \in {"read", "push", "reset"} /\ blk'[t] = blk[t]
  PROVE  Belongs' /\ Refusals' /\ OneWriter' /\ HeapsKept
<1>1. HeapsKept
  BY DEF HeapsKept, TagsKept
<1>2. QED
  BY <1>1, BelongsStill, RefusalsStill, OneWriterStill DEF BlockInv

-----------------------------------------------------------------------------
(* Blocks that do not move.                                                *)

\* t carries the same block, or none, before and after the step.
SameLoad(t) ==
  /\ pc[t] \in {"mt", "read", "push", "settle"} <=> pc'[t] \in {"mt", "read", "push", "settle"}
  /\ pc[t] \in {"mt", "read", "push", "settle"} => blk'[t] = blk[t]
  /\ pc'[t] = "reset" => pc[t] = "reset" /\ blk'[t] = blk[t]

\* A thread carries the same block while its load is the same.
LEMMA CarriesStill ==
  ASSUME NEW t \in Threads, Others(t), SameLoad(t)
  PROVE  \A u \in Threads : \A b \in Blocks : Carries(u, b)' <=> Carries(u, b)
<1> SUFFICES ASSUME NEW u \in Threads, NEW b \in Blocks
    PROVE  Carries(u, b)' <=> Carries(u, b)
  OBVIOUS
<1>1. CASE u = t
  BY <1>1 DEF SameLoad, Carries
<1>2. CASE u # t
  BY <1>2 DEF Others, Carries
<1>3. QED
  BY <1>1, <1>2

\* A page gone with its heap stays gone while the heap is destroyed.
LEMMA DoomedStill ==
  ASSUME NEW t \in Threads, IInv, Others(t), GivesUp(t), NEW h \in Heaps, NEW p \in Pages,
         page[p] = NoPage => page'[p] = NoPage, delayed'[h] # {},
         Doomed(h, p)
  PROVE  Doomed(h, p)'
<1>1. OwnerOf[h] \in Threads
  BY Assumption
<1>2. QED
  BY <1>1 DEF Others, GivesUp, Doomed

\* No block moves when the blocks outside the lists are the same.
LEMMA BlocksStill ==
  ASSUME NEW t \in Threads, IInv, Others(t), GivesUp(t), SameLoad(t),
         \A p \in Pages : Out(page'[p]) = Out(page[p]),
         \A p \in Pages : page[p] = NoPage => page'[p] = NoPage,
         live' = live, delayed' = delayed, hand' = hand
  PROVE  BlockInv'
<1>1. \A u \in Threads : \A b \in Blocks : Carries(u, b)' <=> Carries(u, b)
  BY CarriesStill
<1>2. \A b \in Blocks : Out(page'[PageOf[b]]) = Out(page[PageOf[b]])
  BY PageAreas
<1>3. /\ LiveOut /\ DelayedOut /\ HandOut /\ CarriedOut /\ SentOut /\ NoneLost /\ OnePlace
      /\ live \subseteq Blocks
      /\ \A h \in Heaps : delayed[h] \subseteq Blocks
      /\ \A u \in Threads : hand[u] \subseteq Blocks
  BY Parts DEF Types
<1>4. LiveOut'
  BY <1>2, <1>3 DEF LiveOut
<1>5. DelayedOut'
  <2> SUFFICES ASSUME NEW h \in Heaps, NEW b \in delayed[h]
      PROVE  b \in Out(page'[PageOf[b]]) \/ Doomed(h, PageOf[b])'
    BY DEF DelayedOut
  <2>1. b \in Blocks /\ PageOf[b] \in Pages
    BY <1>3, PageAreas
  <2>2. b \in Out(page[PageOf[b]]) \/ Doomed(h, PageOf[b])
    BY <1>3 DEF DelayedOut
  <2>3. QED
    BY <1>2, <2>1, <2>2, DoomedStill
<1>6. HandOut'
  BY <1>2, <1>3 DEF HandOut
<1>7. CarriedOut'
  BY <1>1, <1>2, <1>3 DEF CarriedOut
<1>8. SentOut'
  <2> SUFFICES ASSUME NEW u \in Threads, NEW b \in Blocks, pc'[u] = "reset", blk'[u] = b
      PROVE  Unsettled(b)'
    BY DEF SentOut
  <2>1. pc[u] = "reset" /\ blk[u] = b
    BY DEF Others, SameLoad
  <2>2. QED
    BY <1>1, <1>2, <1>3, <2>1 DEF SentOut, Unsettled
<1>9. NoneLost'
  <2> SUFFICES ASSUME ~ Destroys, NEW b \in Blocks, b \in Out(page'[PageOf[b]])
      PROVE  \/ b \in live
             \/ \E h \in Heaps : b \in delayed[h]
             \/ \E u \in Threads : b \in hand[u]
             \/ \E u \in Threads : Carries(u, b)'
    BY DEF NoneLost
  <2>1. b \in Out(page[PageOf[b]])
    BY <1>2
  <2>2. QED
    BY <1>1, <1>3, <2>1 DEF NoneLost
<1>10. OnePlace'
  BY <1>1, <1>3 DEF OnePlace
<1>11. QED
  BY <1>4, <1>5, <1>6, <1>7, <1>8, <1>9, <1>10 DEF BlockInv

-----------------------------------------------------------------------------
(* What strangers freed is still known of.                                 *)

Known(p) ==
  \/ Pending(p)
  \/ \E t \in Threads : \/ pc[t] = "settle" /\ PageOf[blk[t]] = p
                        \/ pc[t] = "collect" /\ p \in todo[t]

\* SomeoneKnows survives a step that raises no flag and pushes no block.
LEMMA KnowsStill ==
  ASSUME NEW t \in Threads, IInv, Others(t),
         \A p \in Pages : Pending(p) => Pending(p)',
         \A p \in Pages :
           \/ page'[p] = NoPage
           \/ /\ page'[p].flag = page[p].flag
              /\ \/ page'[p].tfree = {}
                 \/ /\ page'[p].tfree = page[p].tfree
                    /\ ~ (pc[t] = "settle" /\ PageOf[blk[t]] = p)
                    /\ ~ (pc[t] = "collect" /\ p \in todo[t])
  PROVE  SomeoneKnows'
<1> SUFFICES ASSUME NEW p \in Pages
    PROVE  /\ page'[p].flag \in {"freeing", "no"} => Pending(p)'
           /\ page'[p].tfree # {} /\ page'[p].flag = "use" => Known(p)'
  BY DEF SomeoneKnows, Known
<1>1. /\ page[p].flag \in {"freeing", "no"} => Pending(p)
      /\ page[p].tfree # {} /\ page[p].flag = "use" => Known(p)
  BY DEF IInv, SomeoneKnows, Known
<1>2. CASE page'[p] = NoPage
  BY <1>2, NoPageFields
<1>3. CASE page'[p] # NoPage
  <2>1. page'[p].flag \in {"freeing", "no"} => Pending(p)'
    BY <1>1, <1>3
  <2>2. ASSUME page'[p].tfree # {}, page'[p].flag = "use"
        PROVE  Known(p)'
    <3>1. page[p].tfree # {} /\ page[p].flag = "use" /\ Known(p)
      BY <1>1, <1>3, <2>2
    <3>2. /\ ~ (pc[t] = "settle" /\ PageOf[blk[t]] = p)
          /\ ~ (pc[t] = "collect" /\ p \in todo[t])
      BY <1>3, <2>2
    <3>3. QED
      BY <3>1, <3>2 DEF Known, Others
  <2>3. QED
    BY <2>1, <2>2
<1>4. QED
  BY <1>2, <1>3

\* Blocks on their way stay so if no list loses one and no stranger arrives.
LEMMA PendingStill ==
  ASSUME NEW t \in Threads, Others(t), delayed' = delayed, hand' = hand,
         pc[t] \in {"read", "push"} => pc'[t] \in {"read", "push"} /\ blk'[t] = blk[t]
  PROVE  \A p \in Pages : Pending(p) => Pending(p)'
<1> SUFFICES ASSUME NEW p \in Pages, NEW b \in BlocksOf(p),
                    \/ \E h \in Heaps : b \in delayed[h]
                    \/ \E u \in Threads : \/ b \in hand[u]
                                          \/ Carries(u, b) /\ pc[u] \in {"read", "push"}
    PROVE  \/ \E h \in Heaps : b \in delayed[h]
           \/ \E u \in Threads : \/ b \in hand[u]
                                 \/ Carries(u, b)' /\ pc'[u] \in {"read", "push"}
  BY DEF Pending
<1>1. \A u \in Threads : Carries(u, b) /\ pc[u] \in {"read", "push"} =>
        Carries(u, b)' /\ pc'[u] \in {"read", "push"}
  BY DEF Others, Carries
<1>2. QED
  BY <1>1

-----------------------------------------------------------------------------
(* Steps that only take a thread from one place in a call to another.      *)

\* A step that changes no page and no list.
LEMMA ControlStep ==
  ASSUME NEW t \in Threads, IInv, Others(t), GivesUp(t), Types', Control', AtHand', NoneLeft',
         page' = page, delayed' = delayed, live' = live, hand' = hand, blk' = blk,
         origin' = origin,
         \A h \in alive \ alive' : \A p \in Pages : page[p].heap # h,
         pc[t] \notin {"mt", "read", "push", "reset", "settle", "flag", "aflag", "collect"},
         pc'[t] \notin {"mt", "read", "push", "reset", "settle"},
         hand[t] # {} => heap'[t] = heap[t],
         job[t] = "abandon" =>
           \/ job'[t] = "abandon" /\ heap'[t] = heap[t]
           \/ \A p \in Pages : page[p].thread # t,
         job'[t] = "abandon" /\ pc'[t] # "never" =>
           \/ job[t] = "abandon" /\ pc[t] # "never" /\ heap'[t] = heap[t]
           \/ \A p \in Pages : page[p].heap = heap'[t] => page[p].flag = "never",
         job'[t] = "destroy" =>
           job[t] = "destroy" /\ heap'[t] = heap[t]
  PROVE  IInv'
<1>1. Headers' /\ FullInUse'
  BY DEF IInv, PageInv, Headers, FullInUse
<1>2. HeapsKept /\ AliveKept
  BY NoPageFields DEF HeapsKept, AliveKept
<1>3. SameLoad(t)
  BY DEF SameLoad
<1>4. BlockInv'
  BY <1>3, BlocksStill
<1>5. DelayedRoute' /\ HandRoute' /\ PushRoute'
  BY <1>2, <1>4, RoutesKept
<1>6. Belongs'
  BY DEF IInv, PageInv, Belongs
<1>7. OneWriter'
  <2>1. \A u \in Threads : pc'[u] \in {"read", "push", "reset"} =>
          pc[u] \in {"read", "push", "reset"} /\ blk'[u] = blk[u]
    BY DEF Others
  <2>2. QED
    BY <2>1 DEF IInv, PageInv, OneWriter
<1>8. Refusals'
  <2> SUFFICES ASSUME NEW u \in Threads, NEW p \in Pages
      PROVE  /\ page[p].flag = "never" /\ page[p].thread = u =>
                  (pc'[u] = "flag" /\ p \in todo'[u]) \/ job'[u] = "abandon"
             /\ job'[u] = "abandon" /\ pc'[u] # "never" /\ page[p].heap = heap'[u] =>
                  page[p].flag = "never"
    BY DEF Refusals
  <2>1. /\ page[p].flag = "never" /\ page[p].thread = u =>
             (pc[u] = "flag" /\ p \in todo[u]) \/ job[u] = "abandon"
        /\ job[u] = "abandon" /\ pc[u] # "never" /\ page[p].heap = heap[u] =>
             page[p].flag = "never"
    BY DEF IInv, PageInv, Refusals
  <2>2. CASE u = t
    BY <2>1, <2>2
  <2>3. CASE u # t
    BY <2>1, <2>3 DEF Others
  <2>4. QED
    BY <2>2, <2>3
<1>9. DestroyInv'
  <2>1. \A u \in Threads : job'[u] = "destroy" => job[u] = "destroy" /\ heap'[u] = heap[u]
    BY DEF Others
  <2>2. \A u \in Threads : pc'[u] = "mt" => pc[u] = "mt"
    BY DEF Others
  <2>3. QED
    BY <2>1, <2>2 DEF IInv, DestroyInv
<1>10. SomeoneKnows'
  <2>1. \A p \in Pages : Pending(p) => Pending(p)'
    BY PendingStill
  <2>2. QED
    BY <2>1, KnowsStill
<1>11. QED
  BY <1>1, <1>4, <1>5, <1>6, <1>7, <1>8, <1>9, <1>10 DEF IInv, PageInv, RouteInv

\* MallocGeneric preserves the invariant.
LEMMA MallocGenericKeeps ==
  ASSUME NEW t \in Threads, NEW h \in Heaps, IInv, MallocGeneric(t, h)
  PROVE  IInv'
<1>1. PICK j \in {"malloc", "other"} : Call(t, "take", j, h)
  BY DEF MallocGeneric
<1> USE DEF Call, MallocGeneric, Mine, shared, locals
<1>2. Others(t) /\ Types'
  BY <1>1 DEF IInv, Types, Others, Locations, Jobs
<1>3. Control'
  BY <1>1 DEF IInv, Types, Control, JobFits
<1>4. AtHand' /\ NoneLeft'
  BY <1>1 DEF IInv, Types, PageInv, RouteInv, AtHand, AtHandOf, NoneLeft
<1>5. job[t] = "none" /\ hand[t] = {}
  BY DEF IInv, Control, JobFits
<1>6. QED
  BY <1>1, <1>2, <1>3, <1>4, <1>5, ControlStep DEF GivesUp, IInv, Types

\* HeapCollect preserves the invariant.
LEMMA HeapCollectKeeps ==
  ASSUME NEW t \in Threads, NEW h \in Heaps, NEW j \in {"normal", "force"}, IInv,
         HeapCollect(t, h, j)
  PROVE  IInv'
<1> USE DEF Call, HeapCollect, Mine, shared, locals
<1>1. Others(t) /\ Types'
  BY DEF IInv, Types, Others, Locations, Jobs
<1>2. Control'
  BY DEF IInv, Types, Control, JobFits
<1>3. AtHand' /\ NoneLeft'
  BY DEF IInv, Types, PageInv, RouteInv, AtHand, AtHandOf, NoneLeft
<1>4. job[t] = "none" /\ hand[t] = {}
  BY DEF IInv, Control, JobFits
<1>5. QED
  BY <1>1, <1>2, <1>3, <1>4, ControlStep DEF GivesUp, IInv, Types

\* NotFound preserves the invariant.
LEMMA NotFoundKeeps ==
  ASSUME NEW t \in Threads, IInv, NotFound(t)
  PROVE  IInv'
<1> USE DEF Goto, NotFound, shared
<1>1. Others(t) /\ Types'
  BY DEF IInv, Types, Others, Locations
<1>2. Control'
  BY DEF IInv, Types, Control, JobFits
<1>3. AtHand' /\ NoneLeft'
  BY DEF IInv, Types, PageInv, RouteInv, AtHand, AtHandOf, NoneLeft
<1>4. job[t] \in {"malloc", "retry"} /\ hand[t] = {}
  BY DEF IInv, Control, JobFits
<1>5. QED
  BY <1>1, <1>2, <1>3, <1>4, ControlStep DEF GivesUp, IInv, Types

\* NoneAbandoned preserves the invariant.
LEMMA NoneAbandonedKeeps ==
  ASSUME NEW t \in Threads, IInv, NoneAbandoned(t)
  PROVE  IInv'
<1> USE DEF Goto, NoneAbandoned, shared
<1>1. Others(t) /\ Types'
  BY DEF IInv, Types, Others, Locations
<1>2. Control'
  BY DEF IInv, Types, Control, JobFits
<1>3. AtHand' /\ NoneLeft'
  BY DEF IInv, Types, PageInv, RouteInv, AtHand, AtHandOf, NoneLeft
<1>4. job[t] \in {"force", "oom"} /\ hand[t] = {}
  BY DEF IInv, Control, JobFits
<1>5. QED
  BY <1>1, <1>2, <1>3, <1>4, ControlStep DEF GivesUp, IInv, Types

\* NoMemory preserves the invariant.
LEMMA NoMemoryKeeps ==
  ASSUME NEW t \in Threads, IInv, NoMemory(t)
  PROVE  IInv'
<1> USE DEF Goto, Return, NoMemory, shared
<1>1. Others(t) /\ Types'
  BY DEF IInv, Types, Others, Locations, Jobs
<1>2. Control'
  BY DEF IInv, Types, Control, JobFits
<1>3. AtHand' /\ NoneLeft'
  BY DEF IInv, Types, PageInv, RouteInv, AtHand, AtHandOf, NoneLeft
<1>4. job[t] \in {"malloc", "retry"} /\ hand[t] = {}
  BY DEF IInv, Control, JobFits
<1>5. QED
  BY <1>1, <1>2, <1>3, <1>4, ControlStep DEF GivesUp, IInv, Types

\* AllNever preserves the invariant.
LEMMA AllNeverKeeps ==
  ASSUME NEW t \in Threads, IInv, AllNever(t)
  PROVE  IInv'
<1> USE DEF Goto, AllNever, shared
<1>1. Others(t) /\ Types'
  BY DEF IInv, Types, Others, Locations
<1>2. Control'
  BY DEF IInv, Types, Control, JobFits
<1>3. AtHand' /\ NoneLeft'
  BY DEF IInv, Types, PageInv, RouteInv, AtHand, AtHandOf, NoneLeft
<1>4. job[t] = "abandon" /\ hand[t] = {}
  BY DEF IInv, Control, JobFits
<1>5. QED
  BY <1>1, <1>2, <1>3, <1>4, ControlStep DEF GivesUp, IInv, Types, PagesOf

\* ThreadDone preserves the invariant.
LEMMA ThreadDoneKeeps ==
  ASSUME NEW t \in Threads, NEW h \in Heaps, IInv, ThreadDone(t, h)
  PROVE  IInv'
<1> USE DEF Call, ThreadDone, Mine, shared
<1>1. Others(t) /\ Types'
  BY DEF IInv, Types, Others, Locations, Jobs
<1>2. Control'
  BY DEF IInv, Types, Control, JobFits
<1>3. AtHand' /\ NoneLeft'
  BY DEF IInv, Types, PageInv, RouteInv, AtHand, AtHandOf, NoneLeft
<1>4. job[t] = "none" /\ hand[t] = {}
  BY DEF IInv, Control, JobFits
<1>5. QED
  BY <1>1, <1>2, <1>3, <1>4, ControlStep DEF GivesUp, IInv, Types

\* Absorbed preserves the invariant.
LEMMA AbsorbedKeeps ==
  ASSUME NEW t \in Threads, IInv, Absorbed(t)
  PROVE  IInv'
<1> USE DEF Call, Absorbed, shared, PagesOf
<1>1. Others(t) /\ Types'
  BY DEF IInv, Types, Others, Locations, Jobs
<1>2. job[t] = "delete" /\ hand[t] = {} /\ heap[t] \in Heaps
  BY OwnPages DEF IInv, Control, JobFits
<1>3. Control'
  BY <1>2 DEF IInv, Types, Control, JobFits
<1>4. AtHand' /\ NoneLeft'
  BY <1>2 DEF IInv, Types, PageInv, RouteInv, AtHand, AtHandOf, NoneLeft
<1>5. QED
  BY <1>1, <1>3, <1>4, <1>2, ControlStep DEF GivesUp, IInv, Types

\* HeapNew preserves the invariant.
LEMMA HeapNewKeeps ==
  ASSUME NEW t \in Threads, NEW h \in Heaps, IInv, HeapNew(t, h)
  PROVE  IInv'
<1>1. delayed[h] = {} /\ delayed' = delayed
  BY DEF HeapNew, IInv, Types, RouteInv, NoneLeft
<1> USE DEF HeapNew, locals
<1>2. Others(t) /\ Types'
  BY <1>1 DEF IInv, Types, Others
<1>3. Control'
  BY DEF IInv, Types, Control, JobFits
<1>4. AtHand' /\ NoneLeft'
  BY <1>1 DEF IInv, Types, PageInv, RouteInv, AtHand, AtHandOf, NoneLeft
<1>5. job[t] = "none" /\ hand[t] = {}
  BY DEF IInv, Control, JobFits
<1>6. QED
  BY <1>1, <1>2, <1>3, <1>4, <1>5, ControlStep DEF GivesUp, IInv, Types

\* ThreadInit preserves the invariant.
LEMMA ThreadInitKeeps ==
  ASSUME NEW t \in Threads, NEW h \in Heaps, IInv, ThreadInit(t, h)
  PROVE  IInv'
<1>1. h \notin alive /\ delayed[h] = {} /\ delayed' = delayed
  BY DEF ThreadInit, IInv, Types, RouteInv, NoneLeft, Control
<1> USE DEF ThreadInit, Goto
<1>2. Others(t) /\ Types'
  BY <1>1 DEF IInv, Types, Others, Locations
<1>3. Control'
  BY DEF IInv, Types, Control, JobFits
<1>4. AtHand' /\ NoneLeft'
  BY <1>1 DEF IInv, Types, PageInv, RouteInv, AtHand, AtHandOf, NoneLeft
<1>5. job[t] = "none" /\ hand[t] = {}
  BY DEF IInv, Control, JobFits
<1>6. QED
  BY <1>1, <1>2, <1>3, <1>4, <1>5, ControlStep DEF GivesUp, IInv, Types

\* Drained preserves the invariant.
LEMMA DrainedKeeps ==
  ASSUME NEW t \in Threads, IInv, Drained(t)
  PROVE  IInv'
<1> USE DEF Goto, Return, Drained
<1>1. Others(t) /\ Types'
  BY DEF IInv, Types, Others, Locations, Jobs, PagesOf
<1>2. job[t] \notin {"none", "retry", "destroy"} /\ hand[t] = {}
  BY DEF IInv, Control, JobFits
<1>3. heap[t] \in alive /\ heap[t] \in Heaps
  BY <1>2, OwnPages
<1>4. job[t] = "drop" /\ ~ again[t] =>
        delayed[heap[t]] = {} /\ \A p \in Pages : page[p].heap # heap[t]
  BY DEF IInv, RouteInv, NoneLeft, PageInv, AtHand, AtHandOf
<1>5. Control'
  BY <1>2, <1>3, Assumption DEF IInv, Types, Control, JobFits
<1>6. AtHand'
  BY <1>2 DEF IInv, Types, PageInv, AtHand, AtHandOf, PagesOf
<1>7. NoneLeft'
  BY <1>2, <1>4 DEF IInv, Types, RouteInv, NoneLeft
<1>8. QED
  BY <1>1, <1>2, <1>3, <1>4, <1>5, <1>6, <1>7, ControlStep DEF GivesUp, IInv, Types

\* HeapDelete preserves the invariant.
LEMMA HeapDeleteKeeps ==
  ASSUME NEW t \in Threads, NEW h \in Heaps, IInv, HeapDelete(t, h)
  PROVE  IInv'
<1> USE DEF Call, HeapDelete, Mine, PagesOf
<1>1. Others(t) /\ Types'
  BY DEF IInv, Types, Others, Locations, Jobs
<1>2. job[t] = "none" /\ hand[t] = {}
  BY DEF IInv, Control, JobFits
<1>3. PagesOf(h) = {} => delayed[h] = {}
  <2>1. SUFFICES ASSUME PagesOf(h) = {}, NEW b \in delayed[h] PROVE FALSE
    OBVIOUS
  <2>2. Routed(h, b) /\ PageOf[b] \in Pages
    BY PageAreas DEF IInv, Types, RouteInv, DelayedRoute
  <2>3. QED
    BY <1>2, <2>1, <2>2 DEF Routed, Moved, Doomed
<1>4. Control'
  BY <1>2, Assumption DEF IInv, Types, Control, JobFits
<1>5. AtHand'
  BY <1>2 DEF IInv, Types, PageInv, AtHand, AtHandOf
<1>6. NoneLeft'
  BY <1>2, <1>3 DEF IInv, Types, RouteInv, NoneLeft
<1>7. QED
  BY <1>1, <1>2, <1>4, <1>5, <1>6, ControlStep DEF GivesUp, IInv, Types

\* A thread that ends has nothing left in its heap.
LEMMA VisitedKeeps ==
  ASSUME NEW t \in Threads, IInv, Visited(t)
  PROVE  IInv'
<1> USE DEF Goto, Return, Call, Visited
<1>1. Others(t) /\ Types'
  BY DEF IInv, Types, Others, Locations, Jobs
<1>2. job[t] \in {"normal", "force", "oom", "abandon"} /\ hand[t] = {}
  BY DEF IInv, Control, JobFits
<1>3. heap[t] \in alive /\ heap[t] \in Heaps /\ OwnerOf[heap[t]] = t
  BY <1>2, OwnPages
<1>4. job[t] = "abandon" =>
        /\ delayed[heap[t]] = {}
        /\ \A p \in Pages : page[p].heap # heap[t]
        /\ \A h \in alive \ {heap[t]} : OwnerOf[h] # t
  BY DEF IInv, RouteInv, NoneLeft, PageInv, AtHand, AtHandOf, Control
<1>5. job[t] = "abandon" => \A p \in Pages : page[p].thread # t
  BY <1>4, PageFacts, Assumption
<1>6. Control'
  BY <1>2, <1>3, <1>4, Assumption DEF IInv, Types, Control, JobFits
<1>7. AtHand'
  BY <1>2 DEF IInv, Types, PageInv, AtHand, AtHandOf
<1>8. NoneLeft'
  BY <1>2, <1>4 DEF IInv, Types, RouteInv, NoneLeft
<1>9. QED
  BY <1>1, <1>2, <1>3, <1>4, <1>5, <1>6, <1>7, <1>8, ControlStep DEF GivesUp, IInv, Types

-----------------------------------------------------------------------------
(* Steps that set the flag of a page.                                      *)

\* A page whose flag is set.
LEMMA FlagSet ==
  ASSUME IInv, NEW p \in Pages, NEW f \in Flags, page[p] # NoPage,
         page' = [page EXCEPT ![p].flag = f]
  PROVE  /\ Headers' /\ FullInUse' /\ HeapsKept
         /\ page'[p].flag = f
         /\ \A q \in Pages \ {p} : page'[q] = page[q]
         /\ \A q \in Pages :
              /\ page'[q].state = page[q].state /\ page'[q].heap = page[q].heap
              /\ page'[q].thread = page[q].thread /\ page'[q].tfree = page[q].tfree
              /\ Out(page'[q]) = Out(page[q])
              /\ page[q] = NoPage => page'[q] = NoPage
<1>1. PICK r : r = [page[p] EXCEPT !.flag = f]
  OBVIOUS
<1>2. page[p] \in Page /\ Sound(page[p], p) /\ page \in [Pages -> Page]
  BY DEF IInv, PageInv, Headers
<1>3. /\ r.state = page[p].state /\ r.heap = page[p].heap /\ r.thread = page[p].thread
      /\ r.flag = f /\ r.free = page[p].free /\ r.local = page[p].local
      /\ r.tfree = page[p].tfree /\ r.cap = page[p].cap /\ r.used = page[p].used /\ r \in Page
  BY <1>1, <1>2 DEF Page
<1>4. Sound(r, p) /\ Out(r) = Out(page[p])
  BY <1>2, <1>3 DEF Sound, Out
<1>5. page' = [page EXCEPT ![p] = r]
  BY <1>1, <1>2
<1>6. page' \in [Pages -> Page] /\ \A q \in Pages : page'[q] = IF q = p THEN r ELSE page[q]
  BY <1>2, <1>3, <1>5
<1>7. Headers'
  BY <1>3, <1>4, <1>6 DEF IInv, PageInv, Headers
<1>8. FullInUse'
  BY <1>3, <1>6 DEF IInv, PageInv, FullInUse
<1>9. HeapsKept
  BY <1>3, <1>6 DEF HeapsKept
<1>10. QED
  BY <1>3, <1>4, <1>6, <1>7, <1>8, <1>9


\* What a step that sets the flag of a page preserves.
LEMMA FlagStep ==
  ASSUME NEW t \in Threads, IInv, Others(t), GivesUp(t), SameLoad(t), Types', Control',
         NEW p \in Pages, NEW f \in Flags, page[p] # NoPage,
         page' = [page EXCEPT ![p].flag = f],
         page[p].state = "abandoned" => f = "never",
         delayed' = delayed, alive' = alive, live' = live, origin' = origin, hand' = hand,
         hand[t] = {}, job' = job, job[t] # "destroy",
         pc[t] = "aflag" => \A q \in todo[t] : page[q].flag # "freeing",
         pc'[t] \notin {"settle", "push", "mt"}
  PROVE  /\ Headers' /\ FullInUse' /\ Belongs' /\ BlockInv' /\ DestroyInv'
         /\ DelayedRoute' /\ HandRoute' /\ PushRoute'
<1>1. /\ Headers' /\ FullInUse' /\ HeapsKept
      /\ \A q \in Pages :
           /\ page'[q].state = page[q].state /\ page'[q].heap = page[q].heap
           /\ page'[q].thread = page[q].thread
           /\ Out(page'[q]) = Out(page[q])
           /\ page[q] = NoPage => page'[q] = NoPage
  BY FlagSet
<1>2. BlockInv'
  BY <1>1, BlocksStill
<1>3. DelayedRoute' /\ HandRoute' /\ PushRoute'
  BY <1>1, <1>2, RoutesKept DEF AliveKept
<1>4. Belongs'
  BY <1>1 DEF IInv, PageInv, Belongs
<1>5. DestroyInv'
  <2>1. \A u \in Threads : job[u] = "destroy" => heap'[u] = heap[u]
    BY DEF Others
  <2>2. \A u \in Threads : pc'[u] = "mt" => pc[u] = "mt" /\ blk'[u] = blk[u]
    BY DEF Others
  <2>3. \A b \in live : page'[PageOf[b]].heap = page[PageOf[b]].heap
    BY <1>1, PageAreas DEF IInv, Types
  <2>4. QED
    BY <1>1, <2>1, <2>2, <2>3 DEF IInv, DestroyInv
<1>6. QED
  BY <1>1, <1>2, <1>3, <1>4, <1>5

\* NeverDelayed preserves the invariant.
LEMMA NeverDelayedKeeps ==
  ASSUME NEW t \in Threads, NEW p \in Pages, IInv, NeverDelayed(t, p)
  PROVE  IInv'
<1> USE DEF NeverDelayed, locals, PagesOf
<1>1. Others(t) /\ Types' /\ Control'
  BY DEF IInv, Types, Others, Control
<1>2. job[t] = "abandon" /\ hand[t] = {}
  BY DEF IInv, Control, JobFits
<1>3. page[p].thread = t /\ page[p] # NoPage /\ page[p].state # "abandoned"
  BY <1>2, OwnPages, PageFacts
<1>4. /\ page'[p].flag = "never" /\ \A q \in Pages \ {p} : page'[q] = page[q]
      /\ \A q \in Pages :
           /\ page'[q].state = page[q].state /\ page'[q].heap = page[q].heap
           /\ page'[q].thread = page[q].thread
  BY <1>3, FlagSet DEF Flags
<1>5. /\ Headers' /\ FullInUse' /\ Belongs' /\ BlockInv' /\ DestroyInv'
      /\ DelayedRoute' /\ HandRoute' /\ PushRoute'
  BY <1>1, <1>2, <1>3, FlagStep DEF Flags, GivesUp, SameLoad
<1>6. AtHand'
  BY <1>4 DEF IInv, PageInv, AtHand, AtHandOf
<1>7. Refusals'
  BY <1>2, <1>3, <1>4 DEF IInv, PageInv, Refusals
<1>8. OneWriter'
  BY <1>4, WriterFacts DEF IInv, PageInv, OneWriter
<1>9. NoneLeft'
  BY DEF IInv, RouteInv, NoneLeft
<1>10. SomeoneKnows'
  <2>1. \A q \in Pages : Pending(q) => Pending(q)'
    BY <1>1, PendingStill
  <2>2. \A q \in Pages \ {p} : Known(q) => Known(q)'
    BY <2>1 DEF Known
  <2>3. QED
    BY <1>4, <2>1, <2>2 DEF IInv, SomeoneKnows, Known
<1>11. QED
  BY <1>1, <1>5, <1>6, <1>7, <1>8, <1>9, <1>10 DEF IInv, PageInv, RouteInv

\* ReclaimFlag preserves the invariant.
LEMMA ReclaimFlagKeeps ==
  ASSUME NEW t \in Threads, NEW p \in Pages, IInv, ReclaimFlag(t, p)
  PROVE  IInv'
<1> USE DEF ReclaimFlag, Goto
<1>1. Others(t) /\ Types'
  BY DEF IInv, Types, Others, Locations
<1>2. job[t] \in {"force", "oom", "malloc", "retry"} /\ hand[t] = {}
  BY DEF IInv, Control, JobFits
<1>3. Control'
  BY DEF IInv, Types, Control, JobFits
<1>4. /\ page[p].state = "reclaim" /\ page[p].heap = heap[t]
      /\ page[p].thread = t /\ page[p] # NoPage
  BY <1>2, OwnPages, PageFacts DEF IInv, PageInv, AtHand, AtHandOf
<1>5. /\ page'[p].flag = "use" /\ \A q \in Pages \ {p} : page'[q] = page[q]
      /\ \A q \in Pages :
           /\ page'[q].state = page[q].state /\ page'[q].heap = page[q].heap
           /\ page'[q].thread = page[q].thread /\ page'[q].tfree = page[q].tfree
  BY <1>4, FlagSet DEF Flags
<1>6. /\ Headers' /\ FullInUse' /\ Belongs' /\ BlockInv' /\ DestroyInv'
      /\ DelayedRoute' /\ HandRoute' /\ PushRoute'
  <2>1. GivesUp(t) /\ SameLoad(t) /\ pc'[t] = "collect"
    BY <1>2 DEF GivesUp, SameLoad, IInv, Types
  <2>2. QED
    BY <1>1, <1>2, <1>3, <1>4, <2>1, FlagStep DEF Flags
<1>7. AtHand'
  BY <1>5 DEF IInv, Types, PageInv, AtHand, AtHandOf
<1>8. Refusals'
  <2>1. \A q \in todo[t] : q = p
    BY DEF IInv, Control
  <2>2. \A u \in Threads : job[u] = "abandon" => heap[u] # page[p].heap
    BY <1>2, <1>4, OwnPages
  <2>3. QED
    BY <1>2, <1>4, <1>5, <2>1, <2>2 DEF IInv, Types, PageInv, Refusals
<1>9. OneWriter'
  BY <1>5, WriterFacts DEF IInv, Types, PageInv, OneWriter
<1>10. NoneLeft'
  BY <1>2 DEF IInv, Types, RouteInv, NoneLeft
<1>11. SomeoneKnows'
  <2>1. \A q \in Pages : Pending(q) => Pending(q)'
    BY <1>1, PendingStill
  <2>2. \A q \in Pages : Known(q) => Known(q)'
    BY <2>1 DEF Known, IInv, Types
  <2>3. Known(p)'
    BY DEF Known, IInv, Types
  <2>4. QED
    BY <1>5, <2>1, <2>2, <2>3 DEF IInv, SomeoneKnows, Known
<1>12. QED
  BY <1>1, <1>3, <1>6, <1>7, <1>8, <1>9, <1>10, <1>11 DEF IInv, PageInv, RouteInv

\* AbsorbFlag preserves the invariant.
LEMMA AbsorbFlagKeeps ==
  ASSUME NEW t \in Threads, NEW p \in Pages, IInv, AbsorbFlag(t, p)
  PROVE  IInv'
<1> USE DEF AbsorbFlag, Goto
<1>1. Others(t) /\ Types'
  BY DEF IInv, Types, Others, Locations
<1>2. job[t] = "delete" /\ hand[t] = {}
  BY DEF IInv, Control, JobFits
<1>3. Control'
  BY DEF IInv, Types, Control, JobFits
<1>4. page[p].heap \in Backing /\ OwnerOf[page[p].heap] = t
  BY DEF IInv, PageInv, AtHand, AtHandOf
<1>5. page[p] # NoPage /\ page[p].state # "abandoned" /\ page[p].thread = t
  BY <1>4, PageFacts, Assumption
<1>6. PICK f \in Flags : f = IF page[p].flag = "never" THEN page[p].flag ELSE "use"
  BY DEF Flags
<1>7. page' = [page EXCEPT ![p].flag = f]
  BY <1>6
<1>8. /\ page'[p].flag = f /\ \A q \in Pages \ {p} : page'[q] = page[q]
      /\ \A q \in Pages :
           /\ page'[q].state = page[q].state /\ page'[q].heap = page[q].heap
           /\ page'[q].thread = page[q].thread /\ page'[q].tfree = page[q].tfree
  BY <1>5, <1>7, FlagSet
<1>9. \A q \in todo[t] : q = p
  BY DEF IInv, Control
<1>10. /\ Headers' /\ FullInUse' /\ Belongs' /\ BlockInv' /\ DestroyInv'
       /\ DelayedRoute' /\ HandRoute' /\ PushRoute'
  <2>1. GivesUp(t) /\ SameLoad(t) /\ pc'[t] = "absorb"
    BY <1>2 DEF GivesUp, SameLoad, IInv, Types
  <2>2. /\ delayed' = delayed /\ alive' = alive /\ live' = live /\ origin' = origin
        /\ hand' = hand /\ job' = job
        /\ \A q \in todo[t] : page[q].flag # "freeing"
    BY <1>9
  <2> HIDE DEF AbsorbFlag
  <2>3. QED
    BY <1>1, <1>2, <1>3, <1>5, <1>7, <2>1, <2>2, FlagStep
<1>11. AtHand'
  BY <1>8 DEF IInv, Types, PageInv, AtHand, AtHandOf
<1>12. Refusals'
  <2>1. \A u \in Threads : job[u] = "abandon" => u # t
    BY <1>2
  <2>2. \A u \in Threads : job[u] = "abandon" => heap[u] # page[p].heap
    BY <1>5, <2>1, OwnPages
  <2>3. QED
    BY <1>2, <1>5, <1>6, <1>8, <2>2 DEF IInv, Types, PageInv, Refusals
<1>13. OneWriter'
  BY <1>8, WriterFacts DEF IInv, Types, PageInv, OneWriter
<1>14. NoneLeft'
  BY <1>2 DEF IInv, Types, RouteInv, NoneLeft
<1>15. SomeoneKnows'
  <2>1. \A q \in Pages : Pending(q) => Pending(q)'
    BY <1>1, PendingStill
  <2>2. \A q \in Pages : Known(q) => Known(q)'
    BY <2>1 DEF Known, IInv, Types
  <2>3. page[p].flag # "freeing" /\ page[p].flag \in Flags
    BY PageFacts DEF Page
  <2>4. QED
    BY <1>6, <1>8, <2>1, <2>2, <2>3 DEF IInv, SomeoneKnows, Known, Flags
<1>16. QED
  BY <1>1, <1>3, <1>10, <1>11, <1>12, <1>13, <1>14, <1>15 DEF IInv, PageInv, RouteInv

\* ResetFlag preserves the invariant.
LEMMA ResetFlagKeeps ==
  ASSUME NEW t \in Threads, IInv, ResetFlag(t)
  PROVE  IInv'
<1> USE DEF ResetFlag, Return
<1>1. Others(t) /\ Types'
  BY DEF IInv, Types, Others, Locations, Jobs
<1>2. job[t] = "none" /\ hand[t] = {} /\ job' = job
  BY DEF IInv, Types, Control, JobFits
<1>3. Control'
  BY <1>2 DEF IInv, Types, Control, JobFits
<1>4. PICK p \in Pages : p = PageOf[blk[t]]
  BY WriterFacts
<1>5. page[p].flag = "freeing" /\ page[p] # NoPage /\ page[p].state # "abandoned"
      /\ page[p].heap \in alive
  BY <1>4, WriterFacts, NoPageFields
<1>6. /\ page'[p].flag = "no" /\ \A q \in Pages \ {p} : page'[q] = page[q]
      /\ \A q \in Pages :
           /\ page'[q].state = page[q].state /\ page'[q].heap = page[q].heap
           /\ page'[q].thread = page[q].thread /\ page'[q].tfree = page[q].tfree
  BY <1>4, <1>5, FlagSet DEF Flags
<1>7. /\ Headers' /\ FullInUse' /\ Belongs' /\ BlockInv' /\ DestroyInv'
      /\ DelayedRoute' /\ HandRoute' /\ PushRoute'
  <2>1. GivesUp(t) /\ SameLoad(t) /\ pc'[t] = "idle"
    BY <1>2 DEF GivesUp, SameLoad, IInv, Types
  <2>2. QED
    BY <1>1, <1>2, <1>3, <1>4, <1>5, <2>1, FlagStep DEF Flags
<1>8. AtHand'
  BY <1>2, <1>6 DEF IInv, Types, PageInv, AtHand, AtHandOf
<1>9. Refusals'
  BY <1>2, <1>5, <1>6 DEF IInv, Types, PageInv, Refusals
<1>10. OneWriter'
  BY <1>4, <1>6, WriterFacts DEF IInv, Types, PageInv, OneWriter
<1>11. NoneLeft'
  BY <1>2 DEF IInv, Types, RouteInv, NoneLeft
<1>12. SomeoneKnows'
  <2>1. \A q \in Pages : Pending(q) => Pending(q)'
    BY <1>1, PendingStill
  <2>2. \A q \in Pages : Known(q) => Known(q)'
    BY <2>1 DEF Known, IInv, Types
  <2>3. QED
    BY <1>5, <1>6, <2>1, <2>2 DEF IInv, SomeoneKnows, Known
<1>13. QED
  BY <1>1, <1>3, <1>7, <1>8, <1>9, <1>10, <1>11, <1>12 DEF IInv, PageInv, RouteInv

-----------------------------------------------------------------------------
(* Blocks that come back, and blocks that are handed out.                  *)

\* Block b, of the program or at hand with t, comes to a list of its page.
LEMMA BlockReturns ==
  ASSUME NEW t \in Threads, IInv, Others(t), GivesUp(t), NEW b \in Blocks,
         \/ b \in live /\ SameLoad(t)
         \/ Carries(t, b) /\ pc'[t] \notin {"mt", "read", "push", "settle", "reset"},
         \A p \in Pages : Out(page'[p]) = Out(page[p]) \ {b},
         \A p \in Pages : page[p] = NoPage => page'[p] = NoPage,
         live' = live \ {b}, delayed' = delayed, hand' = hand
  PROVE  BlockInv'
<1>1. /\ LiveOut /\ DelayedOut /\ HandOut /\ CarriedOut /\ SentOut /\ NoneLost /\ OnePlace
      /\ live \subseteq Blocks
      /\ \A h \in Heaps : delayed[h] \subseteq Blocks
      /\ \A u \in Threads : hand[u] \subseteq Blocks
  BY Parts DEF Types
<1>2. /\ \A h \in Heaps : b \notin delayed[h]
      /\ \A u \in Threads : b \notin hand[u]
      /\ \A u \in Threads : u # t => ~ Carries(u, b)
      /\ b \in live => ~ Carries(t, b)
  BY <1>1 DEF OnePlace
<1>3. \A u \in Threads : \A c \in Blocks : Carries(u, c)' <=> Carries(u, c) /\ c # b
  <2> SUFFICES ASSUME NEW u \in Threads, NEW c \in Blocks
      PROVE  Carries(u, c)' <=> Carries(u, c) /\ c # b
    OBVIOUS
  <2>1. CASE u # t
    BY <1>2, <2>1 DEF Others, Carries
  <2>2. CASE u = t /\ b \in live /\ SameLoad(t)
    BY <1>2, <2>2 DEF SameLoad, Carries
  <2>3. CASE u = t /\ Carries(t, b) /\ pc'[t] \notin {"mt", "read", "push", "settle", "reset"}
    BY <2>3 DEF Carries
  <2>4. QED
    BY <2>1, <2>2, <2>3
<1>4. \A c \in Blocks : c # b => (c \in Out(page'[PageOf[c]]) <=> c \in Out(page[PageOf[c]]))
  BY PageAreas
<1>5. LiveOut'
  BY <1>1, <1>4 DEF LiveOut
<1>6. DelayedOut'
  <2> SUFFICES ASSUME NEW h \in Heaps, NEW c \in delayed[h]
      PROVE  c \in Out(page'[PageOf[c]]) \/ Doomed(h, PageOf[c])'
    BY DEF DelayedOut
  <2>1. c \in Blocks /\ PageOf[c] \in Pages /\ c # b
    BY <1>1, <1>2, PageAreas
  <2>2. c \in Out(page[PageOf[c]]) \/ Doomed(h, PageOf[c])
    BY <1>1 DEF DelayedOut
  <2>3. QED
    BY <1>4, <2>1, <2>2, DoomedStill
<1>7. HandOut'
  BY <1>1, <1>2, <1>4 DEF HandOut
<1>8. CarriedOut'
  BY <1>1, <1>3, <1>4 DEF CarriedOut
<1>9. SentOut'
  <2> SUFFICES ASSUME NEW u \in Threads, NEW c \in Blocks, pc'[u] = "reset", blk'[u] = c
      PROVE  Unsettled(c)'
    BY DEF SentOut
  <2>1. pc[u] = "reset" /\ blk[u] = c
    BY DEF Others, SameLoad
  <2>2. Unsettled(c)
    BY <1>1, <2>1 DEF SentOut
  <2>3. c # b
    BY <2>2 DEF Unsettled
  <2>4. QED
    BY <1>3, <1>4, <2>2, <2>3 DEF Unsettled
<1>10. NoneLost'
  <2> SUFFICES ASSUME ~ Destroys, NEW c \in Blocks, c \in Out(page'[PageOf[c]])
      PROVE  \/ c \in live'
             \/ \E h \in Heaps : c \in delayed[h]
             \/ \E u \in Threads : c \in hand[u]
             \/ \E u \in Threads : Carries(u, c)'
    BY DEF NoneLost
  <2>1. c \in Out(page[PageOf[c]]) /\ c # b
    BY PageAreas
  <2>2. QED
    BY <1>1, <1>3, <2>1 DEF NoneLost
<1>11. OnePlace'
  BY <1>1, <1>3 DEF OnePlace
<1>12. QED
  BY <1>5, <1>6, <1>7, <1>8, <1>9, <1>10, <1>11 DEF BlockInv

\* Block b of page p is popped from a list and given to the program.
LEMMA BlockIsHandedOut ==
  ASSUME NEW t \in Threads, IInv, Others(t), GivesUp(t), SameLoad(t),
         NEW b \in Blocks, NEW p \in Pages, p = PageOf[b],
         b \notin Out(page[p]), Out(page'[p]) = Out(page[p]) \cup {b},
         \A q \in Pages \ {p} : page'[q] = page[q],
         \A h \in Heaps : ~ Doomed(h, p),
         live' = live \cup {b}, delayed' = delayed, hand' = hand
  PROVE  BlockInv'
<1>1. /\ LiveOut /\ DelayedOut /\ HandOut /\ CarriedOut /\ SentOut /\ NoneLost /\ OnePlace
      /\ live \subseteq Blocks
      /\ \A h \in Heaps : delayed[h] \subseteq Blocks
      /\ \A u \in Threads : hand[u] \subseteq Blocks
  BY Parts DEF Types
<1>2. /\ \A h \in Heaps : b \notin delayed[h]
      /\ \A u \in Threads : b \notin hand[u] /\ ~ Carries(u, b)
      /\ b \notin live
  BY <1>1 DEF LiveOut, DelayedOut, HandOut, CarriedOut
<1>3. \A u \in Threads : \A c \in Blocks : Carries(u, c)' <=> Carries(u, c)
  BY CarriesStill
<1>4. /\ \A c \in Blocks : c # b => (c \in Out(page'[PageOf[c]]) <=> c \in Out(page[PageOf[c]]))
      /\ b \in Out(page'[PageOf[b]])
  BY PageAreas
<1>5. LiveOut'
  BY <1>1, <1>4 DEF LiveOut
<1>6. DelayedOut'
  <2> SUFFICES ASSUME NEW h \in Heaps, NEW c \in delayed[h]
      PROVE  c \in Out(page'[PageOf[c]]) \/ Doomed(h, PageOf[c])'
    BY DEF DelayedOut
  <2>1. c \in Blocks /\ PageOf[c] \in Pages /\ c # b
    BY <1>1, <1>2, PageAreas
  <2>2. c \in Out(page[PageOf[c]]) \/ Doomed(h, PageOf[c])
    BY <1>1 DEF DelayedOut
  <2>3. QED
    BY <1>4, <2>1, <2>2, DoomedStill
<1>7. HandOut'
  BY <1>1, <1>2, <1>4 DEF HandOut
<1>8. CarriedOut'
  BY <1>1, <1>3, <1>4 DEF CarriedOut
<1>9. SentOut'
  <2> SUFFICES ASSUME NEW u \in Threads, NEW c \in Blocks, pc'[u] = "reset", blk'[u] = c
      PROVE  Unsettled(c)'
    BY DEF SentOut
  <2>1. pc[u] = "reset" /\ blk[u] = c
    BY DEF Others, SameLoad
  <2>2. Unsettled(c)
    BY <1>1, <2>1 DEF SentOut
  <2>3. c # b
    BY <2>2 DEF Unsettled
  <2>4. QED
    BY <1>3, <1>4, <2>2, <2>3 DEF Unsettled
<1>10. NoneLost'
  <2> SUFFICES ASSUME ~ Destroys, NEW c \in Blocks, c \in Out(page'[PageOf[c]])
      PROVE  \/ c \in live'
             \/ \E h \in Heaps : c \in delayed[h]
             \/ \E u \in Threads : c \in hand[u]
             \/ \E u \in Threads : Carries(u, c)'
    BY DEF NoneLost
  <2>1. c \in Out(page[PageOf[c]]) \/ c = b
    BY <1>4
  <2>2. QED
    BY <1>1, <1>3, <2>1 DEF NoneLost
<1>11. OnePlace'
  BY <1>1, <1>2, <1>3 DEF OnePlace
<1>12. QED
  BY <1>5, <1>6, <1>7, <1>8, <1>9, <1>10, <1>11 DEF BlockInv

-----------------------------------------------------------------------------
(* Steps that rearrange the lists of pages, or give pages back.            *)

\* What a step that moves no block and changes no tag preserves.
LEMMA CalmStep ==
  ASSUME NEW t \in Threads, IInv, Others(t), GivesUp(t), Types', Control', TagsKept, BlockInv',
         delayed' = delayed, alive' = alive, hand' = hand,
         hand'[t] # {} => heap'[t] = heap[t],
         pc[t] \notin {"aflag", "flag"}, pc'[t] \notin {"read", "push", "reset", "settle"},
         job[t] = "abandon" => job'[t] = "abandon" /\ heap'[t] = heap[t],
         job'[t] = "abandon" =>
           job[t] = "abandon" /\ pc[t] # "never" /\ heap'[t] = heap[t]
  PROVE  /\ Belongs' /\ Refusals' /\ OneWriter'
         /\ DelayedRoute' /\ HandRoute' /\ PushRoute'
<1>1. AliveKept
  BY DEF AliveKept
<1>2. Belongs' /\ Refusals' /\ OneWriter' /\ HeapsKept
  BY <1>1, TagsStill
<1>3. QED
  BY <1>1, <1>2, RoutesKept

\* One page of the thread, or an abandoned one, changes.
LEMMA OnePageTags ==
  ASSUME IInv, NEW p \in Pages, page[p] # NoPage, NEW r,
         Sound(r, p), page' = [page EXCEPT ![p] = r],
         \/ r = NoPage
         \/ /\ r.heap = page[p].heap /\ r.thread = page[p].thread /\ r.flag = page[p].flag
            /\ r.cap # {}
            /\ r.state = page[p].state \/ {r.state, page[p].state} \subseteq {"queue", "full", "reclaim"},
         r.state = "full" => r.used > 0
  PROVE  /\ TagsKept /\ Headers' /\ FullInUse'
         /\ page'[p] = r /\ \A q \in Pages \ {p} : page'[q] = page[q]
<1>1. page \in [Pages -> Page] /\ r \in Page
  BY DEF IInv, PageInv, Headers, Sound
<1>2. page' \in [Pages -> Page] /\ \A q \in Pages : page'[q] = IF q = p THEN r ELSE page[q]
  BY <1>1
<1>3. TagsKept
  BY <1>2, NoPageFields DEF TagsKept
<1>4. Headers'
  BY <1>2, NoPageFields, PageFacts DEF IInv, PageInv, Headers
<1>5. FullInUse'
  BY <1>2 DEF IInv, PageInv, FullInUse
<1>6. QED
  BY <1>2, <1>3, <1>4, <1>5

\* What other threads have at hand is not touched by t, which only gives
\* its own and abandoned pages other heaps.
LEMMA OthersAtHand ==
  ASSUME NEW t \in Threads, IInv, Others(t),
         \A q \in Pages :
           \/ page'[q].heap = page[q].heap /\ page'[q].state = page[q].state
           \/ /\ page[q].thread \in {t, NoThread}
              /\ \/ page'[q].heap = NoHeap
                 \/ page'[q].heap \in Heaps /\ OwnerOf[page'[q].heap] = t
  PROVE  \A u \in Threads \ {t} : AtHandOf(u)'
<1> SUFFICES ASSUME NEW u \in Threads \ {t}, NEW q \in Pages
    PROVE  /\ pc[u] \in {"flag", "collect"} /\ q \in todo[u] =>
                page'[q].state = "reclaim" /\ page'[q].heap = heap[u]
           /\ pc[u] = "visit" /\ q \in todo[u] => page'[q].heap = heap[u]
           /\ pc[u] = "tofull" /\ q \in todo[u] =>
                page'[q].state = "full" /\ page'[q].heap = heap[u]
           /\ pc[u] = "aflag" /\ q \in todo[u] =>
                page'[q].heap \in Backing /\ OwnerOf[page'[q].heap] = u
           /\ job[u] = "drop" => page'[q].heap # heap[u]
           /\ job[u] = "abandon" /\ pc[u] = "visit" /\ page'[q].heap = heap[u] => q \in todo[u]
  BY DEF AtHandOf, Others
<1>1. AtHandOf(u)
  BY Parts DEF AtHand
<1>2. job[u] # "none" =>
        /\ heap[u] \in Heaps /\ OwnerOf[heap[u]] = u
        /\ page[q].heap = heap[u] => page[q].thread = u
  BY OwnPages
<1>3. JobFits(pc[u], job[u])
  BY DEF IInv, Control
<1>4. CASE page'[q].heap = page[q].heap /\ page'[q].state = page[q].state
  BY <1>1, <1>4 DEF AtHandOf
<1>5. CASE page[q].thread \in {t, NoThread}
           /\ \/ page'[q].heap = NoHeap
              \/ page'[q].heap \in Heaps /\ OwnerOf[page'[q].heap] = t
  <2>1. job[u] # "none" => page[q].heap # heap[u] /\ page'[q].heap # heap[u]
    BY <1>2, <1>5, Assumption
  <2>2. pc[u] = "aflag" /\ q \in todo[u] => page[q].thread = u
    BY <1>1, PageFacts, Assumption DEF AtHandOf
  <2>3. QED
    BY <1>1, <1>3, <1>5, <2>1, <2>2, Assumption DEF AtHandOf, JobFits
<1>6. QED
  BY <1>4, <1>5

\* A step that hands out no block keeps what is known of mi_heap_destroy.
LEMMA DestroyStill ==
  ASSUME NEW t \in Threads, IInv, Others(t), TagsKept, BlockInv', Types',
         live' \subseteq live, origin' = origin,
         job'[t] = "destroy" => job[t] = "destroy" /\ heap'[t] = heap[t],
         pc'[t] = "mt" => pc[t] = "mt" /\ blk'[t] = blk[t]
  PROVE  DestroyInv'
<1>1. \A u \in Threads : /\ job'[u] = "destroy" => job[u] = "destroy" /\ heap'[u] = heap[u]
                         /\ pc'[u] = "mt" => pc[u] = "mt" /\ blk'[u] = blk[u]
  BY DEF Others
<1>2. \A b \in live' : page'[PageOf[b]].heap = page[PageOf[b]].heap
  BY PageAreas, NoPageSound DEF TagsKept, BlockInv, LiveOut, Types
<1>3. ASSUME NEW u \in Threads, pc'[u] = "mt"
      PROVE  page'[PageOf[blk'[u]]].heap = page[PageOf[blk[u]]].heap
  <2>1. blk[u] \in Blocks /\ blk'[u] = blk[u]
    BY <1>1, <1>3 DEF IInv, Control
  <2>2. blk[u] \in Out(page'[PageOf[blk[u]]])
    BY <1>3, <2>1 DEF BlockInv, CarriedOut, Carries
  <2>3. QED
    BY <2>1, <2>2, PageAreas, NoPageSound DEF TagsKept
<1>4. \A p \in Pages : page'[p].state = "abandoned" => page[p].state = "abandoned"
  BY NoPageFields DEF TagsKept
<1>5. QED
  BY <1>1, <1>2, <1>3, <1>4 DEF IInv, DestroyInv

\* A step of a thread at pages of its own, or at abandoned ones, whose lists
\* change or which are given back.
LEMMA OwnPagesStep ==
  ASSUME NEW t \in Threads, IInv, Others(t), GivesUp(t), Types', Control', BlockInv',
         DestroyInv', TagsKept, Headers', FullInUse',
         \A q \in Pages : page'[q] # page[q] =>
           /\ page[q].thread \in {t, NoThread}
           /\ page'[q].tfree \in {{}, page[q].tfree},
         \A q \in Pages :
           /\ pc[t] = "settle" /\ PageOf[blk[t]] = q => page'[q].tfree = {}
           /\ pc[t] = "collect" /\ q \in todo[t] => page'[q].tfree = {},
         pc[t] \notin {"read", "push"},
         AtHandOf(t)',
         delayed' = delayed, alive' = alive, hand' = hand,
         job'[t] \in {"abandon", "drop"} =>
           /\ job'[t] = job[t] /\ heap'[t] = heap[t] /\ again'[t] = again[t]
           /\ pc'[t] \in {"drain", "settle"} <=> pc[t] \in {"drain", "settle"}
           /\ pc'[t] = "visit" <=> pc[t] = "visit",
         hand[t] # {} => heap'[t] = heap[t],
         pc[t] \notin {"aflag", "flag"}, pc'[t] \notin {"read", "push", "reset", "settle"},
         job[t] = "abandon" => job'[t] = "abandon" /\ pc[t] # "never"
  PROVE  IInv'
<1>1. /\ Belongs' /\ Refusals' /\ OneWriter'
      /\ DelayedRoute' /\ HandRoute' /\ PushRoute'
  BY CalmStep
<1>2. AtHand'
  <2>1. \A q \in Pages :
          \/ page'[q].heap = page[q].heap /\ page'[q].state = page[q].state
          \/ /\ page[q].thread \in {t, NoThread}
             /\ \/ page'[q].heap = NoHeap
                \/ page'[q].heap \in Heaps /\ OwnerOf[page'[q].heap] = t
    BY PageFacts, NoPageFields DEF TagsKept
  <2>2. \A u \in Threads \ {t} : AtHandOf(u)'
    BY <2>1, OthersAtHand
  <2>3. QED
    BY <2>2 DEF AtHand
<1>3. NoneLeft'
  <2>1. \A u \in Threads : job'[u] \in {"abandon", "drop"} =>
          /\ job'[u] = job[u] /\ heap'[u] = heap[u] /\ again'[u] = again[u]
          /\ pc'[u] \in {"drain", "settle"} <=> pc[u] \in {"drain", "settle"}
          /\ pc'[u] = "visit" <=> pc[u] = "visit"
    BY DEF Others
  <2>2. QED
    BY <2>1, Parts DEF NoneLeft
<1>4. SomeoneKnows'
  <2>1. \A q \in Pages : Pending(q) => Pending(q)'
    BY PendingStill
  <2>2. \A q \in Pages :
           \/ page'[q] = NoPage
           \/ /\ page'[q].flag = page[q].flag
              /\ \/ page'[q].tfree = {}
                 \/ /\ page'[q].tfree = page[q].tfree
                    /\ ~ (pc[t] = "settle" /\ PageOf[blk[t]] = q)
                    /\ ~ (pc[t] = "collect" /\ q \in todo[t])
    BY DEF TagsKept
  <2>3. QED
    BY <2>1, <2>2, KnowsStill
<1>5. QED
  BY <1>1, <1>2, <1>3, <1>4 DEF IInv, PageInv, RouteInv

\* mi_free by the owner of the page.
LEMMA FreeOwnKeeps ==
  ASSUME NEW t \in Threads, NEW b \in Blocks, IInv, Free(t, b), page[PageOf[b]].thread = t
  PROVE  IInv'
<1>1. /\ pc[t] = "idle" /\ b \in live /\ live' = live \ {b}
      /\ page' = [page EXCEPT ![PageOf[b]] = FreeBlock(page[PageOf[b]], b, Sole(PageOf[b]))]
      /\ UNCHANGED <<pc, blk, delayed, alive, origin, job, heap, hand, again, todo>>
  BY PageAreas DEF Free
<1>2. PICK p \in Pages : p = PageOf[b]
  BY PageAreas
<1>3. b \in Out(page[p]) /\ page[p].thread = t
  BY <1>1, <1>2, Parts DEF LiveOut
<1>4. page[p] # NoPage /\ page[p].state \in {"queue", "full", "reclaim"}
  BY <1>3, PageFacts, Assumption
<1>5. PICK s \in BOOLEAN : s = Sole(p)
  BY DEF Sole
<1>6. PICK r : r = FreeBlock(page[p], b, s)
  OBVIOUS
<1>7. Sound(page[p], p) /\ page[p].cap # {}
  BY <1>4, Parts DEF Headers
<1>8. /\ Sound(r, p)
      /\ \/ r = NoPage /\ Out(page[p]) = {b}
         \/ /\ r.state = "queue" /\ r.heap = page[p].heap /\ r.thread = page[p].thread
            /\ r.flag = page[p].flag /\ r.cap = page[p].cap /\ r.tfree = page[p].tfree
            /\ Out(r) = Out(page[p]) \ {b}
  BY <1>3, <1>6, <1>7, FreeBlockSound
<1>9. /\ TagsKept /\ Headers' /\ FullInUse'
      /\ page'[p] = r /\ \A q \in Pages \ {p} : page'[q] = page[q]
  <2>1. page' = [page EXCEPT ![p] = r]
    BY <1>1, <1>2, <1>5, <1>6
  <2>2. QED
    BY <1>4, <1>7, <1>8, <2>1, OnePageTags, NoPageFields
<1>10. Others(t) /\ Types' /\ Control' /\ GivesUp(t) /\ SameLoad(t)
  BY <1>1 DEF IInv, Types, Control, Others, GivesUp, SameLoad
<1>11. job[t] = "none"
  BY <1>1 DEF IInv, Control, JobFits
<1>12. \A q \in Pages : q # p => b \notin Out(page[q])
  <2>1. \A q \in Pages : Out(page[q]) \subseteq BlocksOf(q)
    BY Parts DEF Headers, Sound, Out
  <2>2. QED
    BY <1>2, <2>1 DEF BlocksOf
<1>13. BlockInv'
  <2>1. \A q \in Pages : Out(page'[q]) = Out(page[q]) \ {b}
    BY <1>8, <1>9, <1>12, NoPageSound
  <2>2. QED
    BY <1>1, <1>4, <1>9, <1>10, <2>1, BlockReturns
<1>14. DestroyInv'
  BY <1>1, <1>9, <1>10, <1>13, DestroyStill
<1>15. AtHandOf(t)'
  BY <1>1, <1>11 DEF AtHandOf
<1>16. \A q \in Pages : page'[q] # page[q] =>
         page[q].thread \in {t, NoThread} /\ page'[q].tfree \in {{}, page[q].tfree}
  BY <1>3, <1>8, <1>9, NoPageFields
<1>17. QED
  BY <1>1, <1>9, <1>10, <1>11, <1>13, <1>14, <1>15, <1>16, OwnPagesStep

\* Settle preserves the invariant.
LEMMA SettleKeeps ==
  ASSUME NEW t \in Threads, IInv, Settle(t)
  PROVE  IInv'
<1>1. /\ pc[t] = "settle" /\ pc' = [pc EXCEPT ![t] = "drain"]
      /\ blk' = [blk EXCEPT ![t] = NoBlock]
      /\ page' = [page EXCEPT ![PageOf[blk[t]]] =
                    FreeBlock(Collect(page[PageOf[blk[t]]], FALSE), blk[t], Sole(PageOf[blk[t]]))]
      /\ UNCHANGED <<delayed, alive, live, origin, job, heap, hand, again, todo>>
  BY PageAreas DEF Settle, Goto, IInv, Control
<1>2. PICK b \in Blocks, p \in Pages : b = blk[t] /\ p = PageOf[b]
  BY <1>1, PageAreas DEF IInv, Control
<1>3. Carries(t, b) /\ b \in Out(page[p]) /\ page[p].thread = t
  BY <1>1, <1>2, Parts DEF CarriedOut, Carries, HandRoute
<1>4. page[p] # NoPage /\ page[p].state \in {"queue", "full", "reclaim"}
  BY <1>3, PageFacts, Assumption
<1>5. PICK s \in BOOLEAN : s = Sole(p)
  BY DEF Sole
<1>6. PICK c : c = Collect(page[p], FALSE)
  OBVIOUS
<1>7. PICK r : r = FreeBlock(c, b, s)
  OBVIOUS
<1>8. Sound(page[p], p) /\ page[p].cap # {}
  BY <1>4, Parts DEF Headers
<1>9. /\ Sound(c, p) /\ SameTag(page[p], c)
      /\ c.cap = page[p].cap /\ c.tfree = {} /\ Out(c) = Out(page[p])
  BY <1>6, <1>8, CollectSound
<1>10. /\ Sound(r, p)
      /\ \/ r = NoPage /\ Out(page[p]) = {b}
         \/ /\ r.state = "queue" /\ r.heap = page[p].heap /\ r.thread = page[p].thread
            /\ r.flag = page[p].flag /\ r.cap = page[p].cap /\ r.tfree = {}
            /\ Out(r) = Out(page[p]) \ {b}
  <2>1. /\ Sound(r, p)
        /\ \/ r = NoPage /\ Out(c) = {b}
           \/ /\ r.state = "queue" /\ r.heap = c.heap /\ r.thread = c.thread
              /\ r.flag = c.flag /\ r.cap = c.cap /\ r.tfree = c.tfree
              /\ Out(r) = Out(c) \ {b}
    <3>1. b \in Out(c) /\ Sound(c, p)
      BY <1>3, <1>9
    <3>2. QED
      BY <3>1, <1>7, FreeBlockSound
  <2>2. QED
    BY <1>9, <2>1 DEF SameTag
<1>11. /\ TagsKept /\ Headers' /\ FullInUse'
       /\ page'[p] = r /\ \A q \in Pages \ {p} : page'[q] = page[q]
  <2>1. page' = [page EXCEPT ![p] = r]
    BY <1>1, <1>2, <1>5, <1>6, <1>7
  <2>2. QED
    BY <1>4, <1>8, <1>10, <2>1, OnePageTags, NoPageFields
<1>12. Others(t) /\ Types' /\ GivesUp(t)
  BY <1>1 DEF IInv, Types, Others, GivesUp, Locations
<1>13. Control'
  BY <1>1 DEF IInv, Types, Control, JobFits
<1>14. pc'[t] = "drain"
  BY <1>1 DEF IInv, Types
<1>15. BlockInv'
  <2>1. \A q \in Pages : Out(page[q]) \subseteq BlocksOf(q)
    BY Parts DEF Headers, Sound, Out
  <2>2. \A q \in Pages : Out(page'[q]) = Out(page[q]) \ {b}
    BY <1>2, <1>10, <1>11, <2>1, NoPageSound DEF BlocksOf
  <2>3. live' = live \ {b}
    BY <1>1, <1>3, Parts DEF OnePlace
  <2>4. \A q \in Pages : page[q] = NoPage => page'[q] = NoPage
    BY <1>4, <1>11
  <2>5. QED
    BY <1>1, <1>3, <1>12, <1>14, <2>2, <2>3, <2>4, BlockReturns
<1>16. DestroyInv'
  BY <1>1, <1>11, <1>12, <1>14, <1>15, DestroyStill
<1>17. AtHandOf(t)'
  <2>1. ASSUME NEW q \in Pages, job[t] = "drop"
        PROVE  page'[q].heap # heap[t]
    <3>1. page[q].heap # heap[t] /\ heap[t] \in Heaps
      BY <2>1, OwnPages, Parts DEF AtHand, AtHandOf
    <3>2. page'[q].heap \in {page[q].heap, NoHeap}
      BY <1>10, <1>11, NoPageFields
    <3>3. QED
      BY <3>1, <3>2, Assumption
  <2>2. QED
    BY <1>1, <1>14, <2>1 DEF AtHandOf
<1>18. page'[p].tfree = {}
  BY <1>10, <1>11, NoPageFields
<1>19. QED
  BY <1>1, <1>2, <1>3, <1>11, <1>12, <1>13, <1>14, <1>15, <1>16, <1>17, <1>18, OwnPagesStep

\* A step of a thread that collects a page of its own, or an abandoned one,
\* and gives it back if it is empty.
LEMMA CollectStep ==
  ASSUME NEW t \in Threads, IInv, Others(t), GivesUp(t), SameLoad(t), Types', Control',
         NEW p \in Pages, page[p] # NoPage, page[p].thread \in {t, NoThread},
         NEW r, Sound(r, p), page' = [page EXCEPT ![p] = r],
         Out(r) = Out(page[p]), r.tfree = {},
         \/ r = NoPage
         \/ /\ r.heap = page[p].heap /\ r.thread = page[p].thread /\ r.flag = page[p].flag
            /\ r.cap # {}
            /\ r.state = page[p].state \/ {r.state, page[p].state} \subseteq {"queue", "full", "reclaim"},
         r.state = "full" => r.used > 0,
         AtHandOf(t)',
         pc[t] = "collect" => todo[t] = {p},
         pc[t] \notin {"read", "push", "reset", "settle", "mt", "aflag", "flag"},
         pc'[t] \notin {"read", "push", "reset", "settle", "mt"},
         UNCHANGED <<delayed, alive, live, origin, hand>>,
         job'[t] \in {"abandon", "drop"} =>
           /\ job'[t] = job[t] /\ heap'[t] = heap[t] /\ again'[t] = again[t]
           /\ pc'[t] \in {"drain", "settle"} <=> pc[t] \in {"drain", "settle"}
           /\ pc'[t] = "visit" <=> pc[t] = "visit",
         job'[t] = "destroy" => job[t] = "destroy" /\ heap'[t] = heap[t],
         hand[t] # {} => heap'[t] = heap[t],
         job[t] = "abandon" => job'[t] = "abandon" /\ pc[t] # "never"
  PROVE  IInv'
<1>1. /\ TagsKept /\ Headers' /\ FullInUse'
      /\ page'[p] = r /\ \A q \in Pages \ {p} : page'[q] = page[q]
  BY OnePageTags
<1>2. /\ \A q \in Pages : Out(page'[q]) = Out(page[q])
      /\ \A q \in Pages : page[q] = NoPage => page'[q] = NoPage
  BY <1>1
<1>3. BlockInv'
  BY <1>2, BlocksStill
<1>4. DestroyInv'
  BY <1>1, <1>3, DestroyStill
<1>5. \A q \in Pages : page'[q] # page[q] =>
        page[q].thread \in {t, NoThread} /\ page'[q].tfree \in {{}, page[q].tfree}
  BY <1>1
<1>6. QED
  BY <1>1, <1>3, <1>4, <1>5, OwnPagesStep

\* The page a thread is taking over is collected.
LEMMA ReclaimCollectKeeps ==
  ASSUME NEW t \in Threads, NEW p \in Pages, IInv, ReclaimCollect(t, p)
  PROVE  IInv'
<1>1. /\ pc[t] = "collect" /\ p \in todo[t]
      /\ pc'[t] \in {"all", "find"} /\ (pc'[t] = "all" <=> job[t] \in {"force", "oom"})
      /\ \A u \in Threads \ {t} : pc'[u] = pc[u] /\ todo'[u] = todo[u]
      /\ todo'[t] = {}
      /\ UNCHANGED <<delayed, alive, live, origin, job, heap, blk, hand, again>>
  BY DEF ReclaimCollect, Goto, IInv, Types
<1>2. PICK c : c = Collect(page[p], FALSE)
  OBVIOUS
<1>3. PICK r : r = IF c.used = 0 THEN NoPage ELSE [c EXCEPT !.state = "queue"]
  OBVIOUS
<1>4. page' = [page EXCEPT ![p] = r]
  BY <1>2, <1>3 DEF ReclaimCollect, IInv, PageInv, Headers
<1>5. /\ page[p].state = "reclaim" /\ page[p].heap = heap[t]
      /\ job[t] \in {"force", "oom", "malloc", "retry"} /\ todo[t] = {p}
  BY <1>1, Parts DEF AtHand, AtHandOf, Control, JobFits
<1>6. page[p] # NoPage /\ page[p].thread = t
  BY <1>5, OwnPages, NoPageFields
<1>7. Sound(page[p], p) /\ page[p].cap # {}
  BY <1>6, PageFacts, Parts DEF Headers
<1>8. /\ Sound(c, p) /\ SameTag(page[p], c)
      /\ c.cap = page[p].cap /\ c.tfree = {} /\ Out(c) = Out(page[p])
  BY <1>2, <1>7, CollectSound
<1>9. /\ Sound(r, p) /\ Out(r) = Out(page[p]) /\ r.tfree = {}
      /\ \/ r = NoPage
         \/ /\ r.state = "queue" /\ r.heap = page[p].heap /\ r.thread = page[p].thread
            /\ r.flag = page[p].flag /\ r.cap # {}
  <2>1. CASE c.used = 0
    BY <1>3, <1>8, <2>1, EmptyHasNoneOut, NoPageSound, NoPageFields
  <2>2. CASE c.used # 0
    <3>1. c \in Page
      BY <1>8 DEF Sound
    <3>2. /\ r.state = "queue" /\ r.heap = c.heap /\ r.thread = c.thread /\ r.flag = c.flag
          /\ r.cap = c.cap /\ r.tfree = c.tfree /\ r.free = c.free /\ r.local = c.local
          /\ r.used = c.used /\ r \in Page
      BY <1>3, <2>2, <3>1 DEF Page, States
    <3>3. Sound(r, p) /\ Out(r) = Out(c)
      BY <1>8, <3>2 DEF Sound, Out
    <3>4. QED
      BY <1>7, <1>8, <3>2, <3>3 DEF SameTag
  <2>3. QED
    BY <2>1, <2>2
<1>10. Others(t) /\ GivesUp(t) /\ SameLoad(t)
  BY <1>1 DEF Others, GivesUp, SameLoad
<1>11. Types'
  BY DEF ReclaimCollect, Goto, IInv, Types, Locations
<1>12. Control'
  BY <1>1, <1>5, <1>10 DEF IInv, Control, JobFits, Others
<1>13. AtHandOf(t)'
  BY <1>1, <1>5 DEF AtHandOf
<1>14. QED
  BY <1>1, <1>4, <1>5, <1>6, <1>9, <1>10, <1>11, <1>12, <1>13, CollectStep, NoPageFields

\* mi_page_to_full, when the page is in the full queue.
LEMMA PendingInUse ==
  ASSUME IInv, NEW p \in Pages, Pending(p), ~ \E h \in Heaps : Doomed(h, p)
  PROVE  Out(page[p]) # {}
<1>1. /\ LiveOut /\ DelayedOut /\ HandOut /\ CarriedOut
  BY Parts
<1>2. PICK b \in BlocksOf(p) :
        \/ \E h \in Heaps : b \in delayed[h]
        \/ \E t \in Threads : b \in hand[t] \/ Carries(t, b)
  BY DEF Pending
<1>3. b \in Blocks /\ PageOf[b] = p
  BY DEF BlocksOf
<1>4. QED
  BY <1>1, <1>2, <1>3 DEF DelayedOut, HandOut, CarriedOut

\* mi_page_to_full, when the page is in the full queue already.
LEMMA ToFullKeeps ==
  ASSUME NEW t \in Threads, NEW p \in Pages, IInv, ToFull(t, p)
  PROVE  IInv'
<1>1. /\ pc[t] = "tofull" /\ p \in todo[t] /\ pc'[t] = "find" /\ todo'[t] = {}
      /\ \A u \in Threads \ {t} : pc'[u] = pc[u] /\ todo'[u] = todo[u]
      /\ UNCHANGED <<delayed, alive, live, origin, job, heap, blk, hand, again>>
  BY DEF ToFull, Goto, IInv, Types
<1>2. PICK c : c = Collect(page[p], FALSE)
  OBVIOUS
<1>3. page' = [page EXCEPT ![p] = c]
  BY <1>2 DEF ToFull, IInv, PageInv, Headers
<1>4. /\ page[p].state = "full" /\ page[p].heap = heap[t]
      /\ job[t] \in {"malloc", "retry"} /\ todo[t] = {p}
  BY <1>1, Parts DEF AtHand, AtHandOf, Control, JobFits
<1>5. page[p] # NoPage /\ page[p].thread = t
  BY <1>4, OwnPages, NoPageFields
<1>6. Sound(page[p], p) /\ page[p].cap # {} /\ page[p].used > 0
  BY <1>4, <1>5, PageFacts, Parts DEF Headers, FullInUse
<1>7. /\ Sound(c, p) /\ SameTag(page[p], c)
      /\ c.cap = page[p].cap /\ c.tfree = {} /\ Out(c) = Out(page[p])
  BY <1>2, <1>6, CollectSound
<1>8. c.used > 0
  <2>1. CASE page[p].tfree = {}
    <3>1. page[p] \in Page /\ page[p].used \in Nat /\ c.used = page[p].used - Cardinality({})
      BY <1>2, <1>6, <2>1 DEF Collect, Sound, Page
    <3>2. QED
      BY <1>6, <3>1, FS_EmptySet
  <2>2. CASE page[p].tfree # {}
    <3>1. Out(page[p]) # {}
      <4>1. ~ \E h \in Heaps : Doomed(h, p)
        BY <1>5 DEF Doomed
      <4>2. page[p].flag \in {"freeing", "no", "use"}
        BY <1>1, <1>4, <1>5, <1>6, Parts DEF Refusals, Sound, Page, Flags
      <4>3. \A u \in Threads : ~ (pc[u] = "settle" /\ PageOf[blk[u]] = p)
        BY <1>1, <1>5, Parts DEF HandRoute
      <4>4. \A u \in Threads : ~ (pc[u] = "collect" /\ p \in todo[u])
        BY <1>4, Parts DEF AtHand, AtHandOf
      <4>5. Pending(p)
        BY <2>2, <4>2, <4>3, <4>4, Parts DEF SomeoneKnows
      <4>6. QED
        BY <4>1, <4>5, PendingInUse
    <3>2. Out(c) # {} /\ Sound(c, p) /\ c.used \in Nat
      BY <1>7, <3>1 DEF Sound, Page
    <3>3. QED
      BY <3>2, EmptyHasNoneOut
  <2>3. QED
    BY <2>1, <2>2
<1>9. Others(t) /\ GivesUp(t) /\ SameLoad(t)
  BY <1>1 DEF Others, GivesUp, SameLoad
<1>10. Types'
  BY DEF ToFull, Goto, IInv, Types, Locations
<1>11. Control'
  BY <1>1, <1>4, <1>9 DEF IInv, Control, JobFits, Others
<1>12. AtHandOf(t)'
  BY <1>1, <1>4 DEF AtHandOf
<1>13. QED
  BY <1>1, <1>3, <1>4, <1>5, <1>6, <1>7, <1>8, <1>9, <1>10, <1>11, <1>12, CollectStep DEF SameTag

\* A page of the queue without a free block moves to the full queue.
LEMMA MovedToFullKeeps ==
  ASSUME NEW t \in Threads, NEW p \in Pages, IInv, pc[t] = "find", job[t] # "other",
         p \in Queued(heap[t]),
         LET q == Collect(page[p], FALSE)
         IN  /\ q.free = {}
             /\ q.cap = BlocksOf(p)
             /\ page' = [page EXCEPT ![p] = [q EXCEPT !.state = "full"]],
         todo' = [todo EXCEPT ![t] = {p}], Goto(t, "tofull"),
         UNCHANGED <<live, origin, job, heap, delayed, alive, blk, hand, again>>
  PROVE  IInv'
<1>1. /\ pc'[t] = "tofull" /\ todo'[t] = {p} /\ job[t] \in {"malloc", "retry"}
      /\ \A u \in Threads \ {t} : pc'[u] = pc[u] /\ todo'[u] = todo[u]
  BY Parts DEF Goto, Types, Control, JobFits
<1>2. PICK c : c = Collect(page[p], FALSE)
  OBVIOUS
<1>3. PICK r : r = [c EXCEPT !.state = "full"]
  OBVIOUS
<1>4. page' = [page EXCEPT ![p] = r] /\ c.free = {}
  BY <1>2, <1>3
<1>5. page[p].state = "queue" /\ page[p].heap = heap[t]
  BY DEF Queued, PagesOf
<1>6. page[p] # NoPage /\ page[p].thread = t
  BY <1>1, <1>5, OwnPages, NoPageFields
<1>7. Sound(page[p], p) /\ page[p].cap # {}
  BY <1>6, PageFacts, Parts DEF Headers
<1>8. /\ Sound(c, p) /\ SameTag(page[p], c)
      /\ c.cap = page[p].cap /\ c.tfree = {} /\ Out(c) = Out(page[p])
  BY <1>2, <1>7, CollectSound
<1>9. c.used > 0
  <2>1. c.local = {}
    BY <1>2, <1>4, <1>7 DEF Collect, Sound, Page
  <2>2. Out(c) # {} /\ c.used \in Nat
    BY <1>4, <1>7, <1>8, <2>1 DEF Out, Sound, Page
  <2>3. QED
    BY <1>8, <2>2, EmptyHasNoneOut
<1>10. /\ Sound(r, p) /\ Out(r) = Out(page[p]) /\ r.tfree = {} /\ r.used > 0
       /\ r.state = "full" /\ r.heap = page[p].heap /\ r.thread = page[p].thread
       /\ r.flag = page[p].flag /\ r.cap # {}
  <2>1. c \in Page
    BY <1>8 DEF Sound
  <2>2. /\ r.state = "full" /\ r.heap = c.heap /\ r.thread = c.thread /\ r.flag = c.flag
        /\ r.cap = c.cap /\ r.tfree = c.tfree /\ r.free = c.free /\ r.local = c.local
        /\ r.used = c.used /\ r \in Page
    BY <1>3, <2>1 DEF Page, States
  <2>3. Sound(r, p) /\ Out(r) = Out(c)
    BY <1>8, <2>2 DEF Sound, Out
  <2>4. QED
    BY <1>7, <1>8, <1>9, <2>2, <2>3 DEF SameTag
<1>11. Others(t) /\ GivesUp(t) /\ SameLoad(t)
  BY <1>1 DEF Others, GivesUp, SameLoad
<1>12. Types'
  BY DEF Goto, IInv, Types, Locations
<1>13. Control'
  BY <1>1, <1>11 DEF IInv, Control, JobFits, Others
<1>14. AtHandOf(t)'
  <2>1. page'[p] = r
    BY <1>4, Parts DEF Headers
  <2>2. QED
    BY <1>1, <1>5, <1>10, <2>1 DEF AtHandOf
<1>15. QED
  BY <1>1, <1>4, <1>5, <1>6, <1>10, <1>11, <1>12, <1>13, <1>14, CollectStep

\* A page of an ended thread is looked at.
LEMMA CheckAbandonedKeeps ==
  ASSUME NEW t \in Threads, NEW p \in Pages, IInv, CheckAbandoned(t, p)
  PROVE  IInv'
<1>1. /\ pc[t] \in {"fresh", "visit"} /\ page[p].state = "abandoned"
      /\ UNCHANGED <<delayed, alive, live, origin, locals>>
  BY DEF CheckAbandoned
<1>2. PICK c : c = Collect(page[p], FALSE)
  OBVIOUS
<1>3. PICK r : r = IF c.used = 0 THEN NoPage ELSE c
  OBVIOUS
<1>4. page' = [page EXCEPT ![p] = r]
  BY <1>2, <1>3 DEF CheckAbandoned, IInv, PageInv, Headers
<1>5. page[p] # NoPage /\ page[p].thread = NoThread /\ page[p].heap = NoHeap
  BY <1>1, NoPageFields, Parts DEF Belongs
<1>6. Sound(page[p], p) /\ page[p].cap # {}
  BY <1>5, PageFacts, Parts DEF Headers
<1>7. /\ Sound(c, p) /\ SameTag(page[p], c)
      /\ c.cap = page[p].cap /\ c.tfree = {} /\ Out(c) = Out(page[p])
  BY <1>2, <1>6, CollectSound
<1>8. /\ Sound(r, p) /\ Out(r) = Out(page[p]) /\ r.tfree = {}
      /\ r = NoPage \/ r = c
      /\ r.heap = NoHeap
  BY <1>3, <1>5, <1>7, EmptyHasNoneOut, NoPageSound, NoPageFields DEF SameTag
<1>9. Others(t) /\ GivesUp(t) /\ SameLoad(t)
  BY <1>1 DEF locals, Others, GivesUp, SameLoad
<1>10. Types' /\ Control'
  BY <1>1, Parts DEF locals, Types, Control
<1>11. AtHandOf(t)'
  <2>1. \A q \in Pages : page'[q] = IF q = p THEN r ELSE page[q]
    BY <1>4, Parts DEF Headers
  <2>2. AtHandOf(t) /\ JobFits(pc[t], job[t])
    BY Parts DEF AtHand, Control
  <2>3. job[t] # "none" => heap[t] \in Heaps
    BY OwnPages
  <2>4. pc'[t] = pc[t] /\ job'[t] = job[t] /\ heap'[t] = heap[t] /\ todo'[t] = todo[t]
    BY <1>1 DEF locals
  <2>5. \A q \in Pages : page'[q].heap = page[q].heap
    BY <1>5, <1>8, <2>1
  <2>6. QED
    BY <1>1, <2>2, <2>4, <2>5 DEF AtHandOf
<1>12. pc'[t] = pc[t] /\ job'[t] = job[t] /\ heap'[t] = heap[t] /\ again'[t] = again[t]
  BY <1>1 DEF locals
<1>13. UNCHANGED <<delayed, alive, live, origin, hand>>
  BY <1>1 DEF locals
<1>14. \/ r = NoPage /\ r.state = "none"
       \/ /\ r.heap = page[p].heap /\ r.thread = page[p].thread /\ r.flag = page[p].flag
          /\ r.cap # {} /\ r.state = page[p].state /\ r.state # "full"
  BY <1>1, <1>6, <1>7, <1>8, NoPageFields DEF SameTag
<1>15. QED
  BY <1>1, <1>4, <1>5, <1>8, <1>9, <1>10, <1>11, <1>12, <1>13, <1>14, CollectStep

\* mi_heap_page_collect on a page of a heap that stays.
LEMMA VisitPageStays ==
  ASSUME NEW t \in Threads, NEW p \in Pages, IInv, VisitPage(t, p), job[t] # "abandon"
  PROVE  IInv'
<1>1. /\ pc[t] = "visit" /\ p \in todo[t] /\ todo'[t] = todo[t] \ {p}
      /\ \A u \in Threads \ {t} : todo'[u] = todo[u]
      /\ UNCHANGED <<delayed, alive, live, origin, pc, job, heap, blk, hand, again>>
  BY DEF VisitPage, IInv, Types
<1>2. /\ job[t] \in {"normal", "force", "oom"} /\ job[t] \in Jobs
      /\ page[p].heap = heap[t]
  BY <1>1, Parts DEF Control, JobFits, AtHand, AtHandOf, Types
<1>3. PICK j \in Jobs : j = job[t] /\ j # "abandon"
  BY <1>2
<1>4. PICK r : r = CollectPage(page[p], j)
  OBVIOUS
<1>5. page' = [page EXCEPT ![p] = r]
  BY <1>3, <1>4 DEF VisitPage, IInv, PageInv, Headers
<1>6. /\ page[p] # NoPage /\ page[p].thread = t /\ heap[t] \in Heaps
      /\ page[p].state \in {"queue", "full", "reclaim"}
  BY <1>2, OwnPages, NoPageFields
<1>7. Sound(page[p], p) /\ page[p].cap # {}
  BY <1>6, PageFacts, Parts DEF Headers
<1>8. /\ Sound(r, p)
      /\ \/ r = NoPage /\ Out(page[p]) = {}
         \/ /\ r.cap = page[p].cap /\ r.tfree = {} /\ Out(r) = Out(page[p])
            /\ r.used > 0 /\ SameTag(page[p], r)
  BY <1>3, <1>4, <1>7, CollectPageSound
<1>9. /\ Out(r) = Out(page[p]) /\ r.tfree = {}
      /\ \/ r = NoPage /\ r.state = "none" /\ r.heap = NoHeap
         \/ /\ r.heap = page[p].heap /\ r.thread = page[p].thread /\ r.flag = page[p].flag
            /\ r.cap # {} /\ r.used > 0 /\ r.state = page[p].state
  BY <1>7, <1>8, NoPageSound, NoPageFields DEF SameTag
<1>10. Others(t) /\ GivesUp(t) /\ SameLoad(t)
  BY <1>1 DEF Others, GivesUp, SameLoad
<1>11. Types'
  BY DEF VisitPage, IInv, Types
<1>12. Control'
  BY <1>1, Parts DEF Control
<1>13. AtHandOf(t)'
  <2>1. \A q \in Pages \ {p} : page'[q] = page[q]
    BY <1>5, Parts DEF Headers
  <2>2. AtHandOf(t)
    BY Parts DEF AtHand
  <2>3. QED
    BY <1>1, <1>2, <2>1, <2>2 DEF AtHandOf
<1>14. QED
  BY <1>1, <1>2, <1>5, <1>6, <1>8, <1>9, <1>10, <1>11, <1>12, <1>13, CollectStep

\* The thread ends: a page in use is abandoned.
LEMMA VisitPageAbandons ==
  ASSUME NEW t \in Threads, NEW p \in Pages, IInv, DestroysAlone,
         VisitPage(t, p), job[t] = "abandon"
  PROVE  IInv'
<1>1. /\ pc[t] = "visit" /\ p \in todo[t] /\ todo'[t] = todo[t] \ {p}
      /\ \A u \in Threads \ {t} : todo'[u] = todo[u]
      /\ UNCHANGED <<delayed, alive, live, origin, pc, job, heap, blk, hand, again>>
  BY DEF VisitPage, IInv, Types
<1>2. /\ page[p].heap = heap[t] /\ page[p].flag = "never" /\ delayed[heap[t]] = {}
      /\ t # Main /\ heap[t] \in Backing /\ hand[t] = {}
  BY <1>1, Parts DEF Control, AtHand, AtHandOf, Refusals, NoneLeft
<1>3. PICK j \in Jobs : j = "abandon"
  BY DEF Jobs
<1>4. PICK r : r = CollectPage(page[p], j)
  OBVIOUS
<1>5. page' = [page EXCEPT ![p] = r]
  BY <1>3, <1>4 DEF VisitPage, IInv, PageInv, Headers
<1>6. /\ page[p] # NoPage /\ page[p].thread = t /\ heap[t] \in Heaps /\ heap[t] \in alive
      /\ OwnerOf[heap[t]] = t
      /\ page[p].state \in {"queue", "full", "reclaim"}
  BY <1>2, OwnPages, NoPageFields
<1>7. Sound(page[p], p) /\ page[p].cap # {}
  BY <1>6, PageFacts, Parts DEF Headers
<1>8. /\ Sound(r, p)
      /\ \/ r = NoPage /\ Out(page[p]) = {}
         \/ /\ r.cap = page[p].cap /\ r.tfree = {} /\ Out(r) = Out(page[p])
            /\ r.flag = page[p].flag
            /\ r.used > 0 /\ r.state = "abandoned" /\ r.heap = NoHeap /\ r.thread = NoThread
  BY <1>3, <1>4, <1>7, CollectPageSound
<1>9. /\ Out(r) = Out(page[p]) /\ r.tfree = {} /\ r.heap = NoHeap /\ r.thread = NoThread
      /\ \/ r = NoPage /\ r.state = "none"
         \/ r.flag = "never" /\ r.cap # {} /\ r.state = "abandoned"
  BY <1>2, <1>7, <1>8, NoPageSound, NoPageFields
<1>10. \A q \in Pages : page'[q] = IF q = p THEN r ELSE page[q]
  BY <1>5, Parts DEF Headers
<1>11. Others(t) /\ GivesUp(t) /\ SameLoad(t)
  BY <1>1 DEF Others, GivesUp, SameLoad
<1>12. Types'
  BY DEF VisitPage, IInv, Types
<1>13. Control'
  BY <1>1, Parts DEF Control
<1>14. Headers' /\ FullInUse'
  <2>1. page' \in [Pages -> Page]
    BY <1>5, <1>8, Parts DEF Headers, Sound
  <2>2. Headers'
    BY <1>8, <1>9, <1>10, <2>1, Parts DEF Headers
  <2>3. FullInUse'
    BY <1>9, <1>10, Parts DEF FullInUse
  <2>4. QED
    BY <2>2, <2>3
<1>15. BlockInv'
  BY <1>1, <1>6, <1>9, <1>10, <1>11, BlocksStill
<1>16. Belongs'
  BY <1>1, <1>9, <1>10, Parts DEF Belongs
<1>17. AtHand'
  <2>1. \A q \in Pages :
          \/ page'[q].heap = page[q].heap /\ page'[q].state = page[q].state
          \/ page[q].thread \in {t, NoThread} /\ page'[q].heap = NoHeap
    BY <1>6, <1>9, <1>10
  <2>2. \A u \in Threads \ {t} : AtHandOf(u)'
    BY <1>11, <2>1, OthersAtHand
  <2>3. AtHandOf(t)
    BY Parts DEF AtHand
  <2>4. AtHandOf(t)'
    BY <1>1, <1>6, <1>9, <1>10, <2>3, Assumption DEF AtHandOf
  <2>5. QED
    BY <2>2, <2>4 DEF AtHand
<1>18. Refusals'
  <2> SUFFICES ASSUME NEW u \in Threads, NEW q \in Pages
      PROVE  /\ page'[q].flag = "never" /\ page'[q].thread = u =>
                  (pc'[u] = "flag" /\ q \in todo'[u]) \/ job'[u] = "abandon"
             /\ job'[u] = "abandon" /\ pc'[u] # "never" /\ page'[q].heap = heap'[u] =>
                  page'[q].flag = "never"
    BY DEF Refusals
  <2>1. /\ page[q].flag = "never" /\ page[q].thread = u =>
             (pc[u] = "flag" /\ q \in todo[u]) \/ job[u] = "abandon"
        /\ job[u] = "abandon" /\ pc[u] # "never" /\ page[q].heap = heap[u] =>
             page[q].flag = "never"
    BY Parts DEF Refusals
  <2>2. CASE q = p
    <3>1. job[u] # "none" => heap[u] \in Heaps
      BY OwnPages
    <3>2. page'[q].heap = NoHeap /\ page'[q].thread = NoThread
      BY <1>9, <1>10, <2>2
    <3>3. QED
      BY <1>1, <3>1, <3>2, Assumption
  <2>3. CASE q # p
    BY <1>1, <1>10, <2>1, <2>3
  <2>4. QED
    BY <2>2, <2>3
<1>19. \A u \in Threads : pc[u] \in {"read", "push", "reset"} => PageOf[blk[u]] # p
  BY <1>2, WriterFacts
<1>20. OneWriter'
  <2>1. \A u \in Threads : pc[u] \in {"read", "push", "reset"} =>
          page'[PageOf[blk[u]]] = page[PageOf[blk[u]]]
    BY <1>10, <1>19, WriterFacts
  <2>2. QED
    BY <1>1, <2>1, Parts DEF OneWriter
<1>21. DelayedRoute'
  <2> SUFFICES ASSUME NEW h \in Heaps, NEW b \in delayed[h]
      PROVE  Routed(h, b)'
    BY <1>1 DEF DelayedRoute
  <2>1. Routed(h, b) /\ b \in Blocks /\ PageOf[b] \in Pages /\ OwnerOf[h] \in Threads
    BY PageAreas, Assumption, Parts DEF DelayedRoute, Types
  <2>2. PageOf[b] # p
    BY <1>2, <1>6, <2>1 DEF Routed, Moved, Doomed
  <2>3. page'[PageOf[b]] = page[PageOf[b]]
    BY <1>10, <2>1, <2>2
  <2>4. QED
    BY <1>1, <2>1, <2>3 DEF Routed, Moved, Doomed
<1>22. HandRoute'
  <2>1. ASSUME NEW u \in Threads, NEW b \in hand[u]
        PROVE  AtHome(u, b)'
    <3>1. AtHome(u, b) /\ PageOf[b] \in Pages /\ u # t
      BY <1>2, PageAreas, Parts DEF HandRoute, Types
    <3>2. job[u] # "none"
      BY Parts DEF Control, JobFits
    <3>3. OwnerOf[heap[u]] = u
      BY <3>2, OwnPages
    <3>4. PageOf[b] # p
      BY <1>2, <1>6, <3>1, <3>3 DEF AtHome, Moved
    <3>5. page'[PageOf[b]] = page[PageOf[b]]
      BY <1>10, <3>1, <3>4
    <3>6. QED
      BY <1>1, <3>1, <3>5 DEF AtHome, Moved
  <2>2. ASSUME NEW u \in Threads, pc[u] = "settle"
        PROVE  page'[PageOf[blk[u]]].thread = u
    <3>1. page[PageOf[blk[u]]].thread = u /\ PageOf[blk[u]] \in Pages
      BY <2>2, PageAreas, Parts DEF HandRoute, Control
    <3>2. PageOf[blk[u]] # p
      BY <1>1, <1>6, <2>2, <3>1
    <3>3. QED
      BY <1>10, <3>1, <3>2
  <2>3. QED
    BY <1>1, <2>1, <2>2 DEF HandRoute
<1>23. PushRoute'
  <2> SUFFICES ASSUME NEW u \in Threads, pc[u] = "push"
      PROVE  Expected(u)'
    BY <1>1 DEF PushRoute
  <2>1. Expected(u) /\ page'[PageOf[blk[u]]] = page[PageOf[blk[u]]]
    BY <1>10, <1>19, WriterFacts, Parts DEF PushRoute
  <2>2. \A w \in Threads : pc[w] = "aflag" => todo'[w] = todo[w]
    BY <1>1
  <2>3. QED
    BY <1>1, <2>1, <2>2 DEF Expected
<1>24. NoneLeft'
  BY <1>1, Parts DEF NoneLeft
<1>25. DestroyInv'
  BY <1>2, <1>6 DEF DestroysAlone, DestroyInv
<1>26. SomeoneKnows'
  <2>1. \A q \in Pages : Pending(q) => Pending(q)'
    BY <1>1, <1>11, PendingStill
  <2>2. \A q \in Pages :
           \/ page'[q] = NoPage
           \/ /\ page'[q].flag = page[q].flag
              /\ \/ page'[q].tfree = {}
                 \/ /\ page'[q].tfree = page[q].tfree
                    /\ ~ (pc[t] = "settle" /\ PageOf[blk[t]] = q)
                    /\ ~ (pc[t] = "collect" /\ q \in todo[t])
    BY <1>1, <1>2, <1>9, <1>10
  <2>3. QED
    BY <1>11, <2>1, <2>2, KnowsStill
<1>27. QED
  BY <1>12, <1>13, <1>14, <1>15, <1>16, <1>17, <1>18, <1>20, <1>21, <1>22, <1>23, <1>24,
     <1>25, <1>26 DEF IInv, PageInv, RouteInv

-----------------------------------------------------------------------------
(* Blocks that are handed out.                                             *)

\* The program gets block b of a page of the thread's.
LEMMA HandStep ==
  ASSUME NEW t \in Threads, IInv, Others(t), GivesUp(t), SameLoad(t), Types', Control',
         NEW p \in Pages, page[p] # NoPage, page[p].thread = t,
         NEW r, Sound(r, p), page' = [page EXCEPT ![p] = r],
         r.state = page[p].state, r.state # "full", r.cap # {},
         r.heap = page[p].heap, r.thread = page[p].thread, r.flag = page[p].flag,
         r.tfree \in {{}, page[p].tfree},
         NEW b \in BlocksOf(p), b \notin Out(page[p]), Out(r) = Out(page[p]) \cup {b},
         live' = live \cup {b},
         Destroys => origin' = [origin EXCEPT ![b] = page[p].heap],
         UNCHANGED <<delayed, alive, hand>>,
         hand[t] = {}, pc[t] \in {"idle", "find"}, pc'[t] = "idle", job[t] # "abandon",
         job'[t] = "none"
  PROVE  IInv'
<1>1. /\ TagsKept /\ Headers' /\ FullInUse'
      /\ page'[p] = r /\ \A q \in Pages \ {p} : page'[q] = page[q]
  BY OnePageTags
<1>2. b \in Blocks /\ p = PageOf[b]
  BY DEF BlocksOf
<1>3. BlockInv'
  <2>1. \A h \in Heaps : ~ Doomed(h, p)
    BY DEF Doomed
  <2>2. QED
    BY <1>1, <1>2, <2>1, BlockIsHandedOut
<1>4. DestroyInv'
  <2> SUFFICES ASSUME Destroys
      PROVE  /\ \A c \in live' : origin'[c] = page'[PageOf[c]].heap
             /\ \A q \in Pages : page'[q].state # "abandoned"
             /\ \A u \in Threads : job'[u] = "destroy" =>
                  /\ \A c \in live' : page'[PageOf[c]].heap # heap'[u]
                  /\ \A w \in Threads : pc'[w] = "mt" => page'[PageOf[blk'[w]]].heap # heap'[u]
    BY DEF DestroyInv
  <2>1. /\ \A c \in live : origin[c] = page[PageOf[c]].heap
        /\ \A q \in Pages : page[q].state # "abandoned"
        /\ \A u \in Threads : job[u] = "destroy" =>
             /\ \A c \in live : page[PageOf[c]].heap # heap[u]
             /\ \A w \in Threads : pc[w] = "mt" => page[PageOf[blk[w]]].heap # heap[u]
    BY Parts DEF DestroyInv
  <2>2. \A q \in Pages : page'[q].heap = page[q].heap /\ page'[q].state = page[q].state
    BY <1>1
  <2>3. live \subseteq Blocks /\ origin \in [Blocks -> Heaps \cup {NoHeap}]
    BY Parts DEF Types
  <2>4. \A u \in Threads : job'[u] = "destroy" =>
          u # t /\ job[u] = "destroy" /\ heap'[u] = heap[u] /\ page[p].heap # heap[u]
    <3>1. \A u \in Threads : u # t /\ job[u] = "destroy" => page[p].heap # heap[u]
      BY OwnPages
    <3>2. QED
      BY <3>1 DEF Others
  <2>5. \A w \in Threads : pc'[w] = "mt" => pc[w] = "mt" /\ blk'[w] = blk[w] /\ blk[w] \in Blocks
    BY Parts DEF Others, Control
  <2>6. \A c \in live' : origin'[c] = page'[PageOf[c]].heap
    BY <1>2, <2>1, <2>2, <2>3, PageAreas
  <2>7. \A u \in Threads : job'[u] = "destroy" =>
                  /\ \A c \in live' : page'[PageOf[c]].heap # heap'[u]
                  /\ \A w \in Threads : pc'[w] = "mt" => page'[PageOf[blk'[w]]].heap # heap'[u]
    BY <1>2, <2>1, <2>2, <2>3, <2>4, <2>5, PageAreas
  <2>8. QED
    BY <2>1, <2>2, <2>6, <2>7
<1>5. AtHandOf(t)'
  BY DEF AtHandOf
<1>6. \A q \in Pages : page'[q] # page[q] =>
        page[q].thread \in {t, NoThread} /\ page'[q].tfree \in {{}, page[q].tfree}
  BY <1>1
<1>7. QED
  BY <1>1, <1>3, <1>4, <1>5, <1>6, OwnPagesStep

\* The fast path of mi_malloc.
LEMMA MallocFastKeeps ==
  ASSUME NEW t \in Threads, NEW h \in Heaps, IInv, MallocFast(t, h)
  PROVE  IInv'
<1>1. PICK p \in Queued(h) : \E b \in page[p].free : Hand(h, p, page[p], b)
  BY DEF MallocFast
<1>2. PICK b \in page[p].free : Hand(h, p, page[p], b)
  BY <1>1
<1>3. /\ pc[t] = "idle" /\ h \in alive /\ OwnerOf[h] = t
      /\ UNCHANGED <<delayed, alive, pc, job, heap, blk, hand, again, todo>>
  BY DEF MallocFast, Mine, locals
<1>4. PICK r : r = Pop(page[p], b)
  OBVIOUS
<1>5. /\ p \in Pages /\ page[p].heap = h /\ page[p].state = "queue"
  BY DEF Queued, PagesOf
<1>6. page[p] # NoPage /\ page[p].thread = t
  BY <1>3, <1>5, PageFacts, NoPageFields
<1>7. Sound(page[p], p) /\ page[p].cap # {}
  BY <1>5, Parts DEF Headers
<1>8. /\ Sound(r, p) /\ SameTag(page[p], r) /\ r.cap = page[p].cap
      /\ r.tfree = page[p].tfree
      /\ b \in BlocksOf(p) /\ b \notin Out(page[p]) /\ Out(r) = Out(page[p]) \cup {b}
  BY <1>4, <1>5, <1>7, PopSound
<1>9. page' = [page EXCEPT ![p] = r] /\ live' = live \cup {b}
      /\ origin' = IF Destroys THEN [origin EXCEPT ![b] = h] ELSE origin
  BY <1>4, <1>2 DEF Hand
<1>10. Others(t) /\ GivesUp(t) /\ SameLoad(t)
  BY <1>3 DEF Others, GivesUp, SameLoad
<1>11. b \in Blocks
  BY <1>8 DEF BlocksOf
<1>12. Types' /\ Control'
  BY <1>3, <1>9, <1>11, Parts DEF Types, Control
<1>13. job[t] = "none" /\ hand[t] = {}
  BY <1>3, Parts DEF Control, JobFits
<1>14. QED
  BY <1>3, <1>5, <1>6, <1>7, <1>8, <1>9, <1>10, <1>12, <1>13, HandStep DEF SameTag

\* A search ends with a block of page p.
LEMMA FoundStep ==
  ASSUME NEW t \in Threads, IInv, pc[t] = "find", job[t] # "other", Return(t),
         NEW p \in Queued(heap[t]), NEW q, Sound(q, p), SameTag(page[p], q), q.cap # {},
         q.tfree = {}, Out(q) = Out(page[p]), NEW b \in q.free, Hand(heap[t], p, q, b),
         UNCHANGED <<todo, delayed, alive, blk, hand, again>>
  PROVE  IInv'
<1>1. /\ pc'[t] = "idle" /\ job'[t] = "none" /\ job[t] \in {"malloc", "retry"} /\ hand[t] = {}
      /\ \A u \in Threads \ {t} : pc'[u] = pc[u] /\ job'[u] = job[u] /\ heap'[u] = heap[u]
  BY Parts DEF Return, Types, Control, JobFits
<1>2. PICK r : r = Pop(q, b)
  OBVIOUS
<1>3. /\ p \in Pages /\ page[p].heap = heap[t] /\ page[p].state = "queue"
  BY DEF Queued, PagesOf
<1>4. page[p] # NoPage /\ page[p].thread = t
  BY <1>1, <1>3, OwnPages, NoPageFields
<1>5. /\ Sound(r, p) /\ SameTag(q, r) /\ r.cap = q.cap
      /\ r.tfree = q.tfree
      /\ b \in BlocksOf(p) /\ b \notin Out(q) /\ Out(r) = Out(q) \cup {b}
  BY <1>2, <1>3, PopSound
<1>6. page' = [page EXCEPT ![p] = r] /\ live' = live \cup {b}
      /\ origin' = IF Destroys THEN [origin EXCEPT ![b] = heap[t]] ELSE origin
  BY <1>2 DEF Hand
<1>7. Others(t) /\ GivesUp(t) /\ SameLoad(t)
  BY <1>1 DEF Others, GivesUp, SameLoad
<1>8. b \in Blocks
  BY <1>5 DEF BlocksOf
<1>9. Types'
  BY <1>6, <1>8, Parts DEF Types, Return, Locations, Jobs
<1>10. Control'
  BY <1>1, <1>7, Parts DEF Control, JobFits, Others
<1>11. /\ r.state = page[p].state /\ r.heap = page[p].heap /\ r.thread = page[p].thread
       /\ r.flag = page[p].flag /\ r.cap # {} /\ r.tfree = {} /\ r.state # "full"
       /\ b \notin Out(page[p]) /\ Out(r) = Out(page[p]) \cup {b}
  BY <1>3, <1>5 DEF SameTag
<1>12. QED
  BY <1>1, <1>3, <1>4, <1>5, <1>6, <1>7, <1>9, <1>10, <1>11, HandStep

\* FindInPage preserves the invariant.
LEMMA FindInPageKeeps ==
  ASSUME NEW t \in Threads, NEW p \in Pages, IInv, FindInPage(t, p)
  PROVE  IInv'
<1>1. PICK c : c = Collect(page[p], FALSE)
  OBVIOUS
<1>2. /\ pc[t] = "find" /\ job[t] # "other" /\ p \in Queued(heap[t])
      /\ UNCHANGED <<delayed, alive, blk, hand, again>>
  BY DEF FindInPage
<1>3. page[p].state = "queue"
  BY <1>2 DEF Queued
<1>4. Sound(page[p], p) /\ page[p].cap # {}
  BY <1>3, Parts DEF Headers
<1>5. /\ Sound(c, p) /\ SameTag(page[p], c)
      /\ c.cap = page[p].cap /\ c.tfree = {} /\ Out(c) = Out(page[p])
  BY <1>1, <1>4, CollectSound
<1>6. CASE /\ \E b \in c.free : Hand(heap[t], p, c, b)
           /\ Return(t)
           /\ UNCHANGED todo
  BY <1>2, <1>4, <1>5, <1>6, FoundStep
<1>7. CASE /\ \E new \in Extensions(c, p) : \E b \in new :
                Hand(heap[t], p, Extend(c, new), b)
           /\ Return(t)
           /\ UNCHANGED todo
  <2>1. PICK new \in Extensions(c, p) : \E b \in new : Hand(heap[t], p, Extend(c, new), b)
    BY <1>7
  <2>2. PICK b \in new : Hand(heap[t], p, Extend(c, new), b)
    BY <2>1
  <2>3. PICK e : e = Extend(c, new)
    OBVIOUS
  <2>4. /\ Sound(e, p) /\ SameTag(c, e) /\ e.tfree = c.tfree /\ Out(e) = Out(c)
        /\ e.cap = c.cap \cup new /\ e.free = c.free \cup new
    BY <1>5, <2>3, ExtendSound
  <2>5. SameTag(page[p], e) /\ e.cap # {} /\ b \in e.free
    BY <1>4, <1>5, <2>2, <2>4 DEF SameTag
  <2>6. QED
    BY <1>2, <1>5, <1>7, <2>2, <2>3, <2>4, <2>5, FoundStep
<1>8. CASE /\ c.free = {}
           /\ c.cap = BlocksOf(p)
           /\ page' = [page EXCEPT ![p] = [c EXCEPT !.state = "full"]]
           /\ todo' = [todo EXCEPT ![t] = {p}]
           /\ Goto(t, "tofull")
           /\ UNCHANGED <<live, origin, job, heap>>
  BY <1>1, <1>2, <1>8, MovedToFullKeeps
<1>9. QED
  BY <1>1, <1>6, <1>7, <1>8 DEF FindInPage

\* An allocation of another size class gives empty pages back.
LEMMA FindOtherKeeps ==
  ASSUME NEW t \in Threads, IInv, FindOther(t)
  PROVE  IInv'
<1>1. PICK expired \in SUBSET {p \in Queued(heap[t]) : page[p].used = 0} :
        page' = [p \in Pages |-> IF p \in expired THEN NoPage ELSE page[p]]
  BY DEF FindOther
<1>2. /\ pc[t] = "find" /\ pc'[t] = "idle" /\ job[t] = "other" /\ job'[t] = "none"
      /\ hand[t] = {}
      /\ \A u \in Threads \ {t} : pc'[u] = pc[u] /\ job'[u] = job[u] /\ heap'[u] = heap[u]
      /\ UNCHANGED <<delayed, alive, live, origin, blk, hand, again, todo>>
  BY Parts DEF FindOther, Return, Types, Control, JobFits
<1>3. \A q \in expired : /\ q \in Pages /\ page[q].thread = t /\ page[q].used = 0
                         /\ page[q] # NoPage
  BY <1>1, <1>2, OwnPages, NoPageFields DEF Queued, PagesOf
<1>4. \A q \in Pages : page'[q] = page[q] \/ (page'[q] = NoPage /\ q \in expired)
  BY <1>1
<1>5. \A q \in expired : Out(page[q]) = {}
  BY <1>3, EmptyHasNoneOut, Parts DEF Headers
<1>6. Others(t) /\ GivesUp(t) /\ SameLoad(t)
  BY <1>2 DEF Others, GivesUp, SameLoad
<1>7. Types'
  BY Parts DEF FindOther, Types, Return, Locations, Jobs
<1>8. Control'
  BY <1>2, <1>6, Parts DEF Control, JobFits, Others
<1>9. TagsKept
  BY <1>4, NoPageFields DEF TagsKept
<1>10. Headers' /\ FullInUse'
  <2>1. page' \in [Pages -> Page]
    BY <1>1, NoPageFields, Parts DEF Headers
  <2>2. QED
    BY <1>4, <2>1, NoPageSound, NoPageFields, Parts DEF Headers, FullInUse
<1>11. BlockInv'
  BY <1>2, <1>4, <1>5, <1>6, NoPageSound, BlocksStill
<1>12. DestroyInv'
  BY <1>2, <1>6, <1>7, <1>9, <1>11, DestroyStill
<1>13. AtHandOf(t)'
  BY <1>2 DEF AtHandOf
<1>14. \A q \in Pages : page'[q] # page[q] =>
         page[q].thread \in {t, NoThread} /\ page'[q].tfree \in {{}, page[q].tfree}
  BY <1>3, <1>4, NoPageFields
<1>15. QED
  BY <1>2, <1>6, <1>7, <1>8, <1>9, <1>10, <1>11, <1>12, <1>13, <1>14, OwnPagesStep

\* A free area becomes a page, and its first block goes to the program.
LEMMA FreshKeeps ==
  ASSUME NEW t \in Threads, NEW p \in Pages, IInv, DestroysAlone, Fresh(t, p)
  PROVE  IInv'
<1>1. PICK n : n = [NoPage EXCEPT !.state = "queue", !.heap = heap[t], !.thread = t]
  OBVIOUS
<1>2. PICK new \in Extensions(n, p) : \E b \in new : Hand(heap[t], p, Extend(n, new), b)
  BY <1>1 DEF Fresh
<1>3. PICK b \in new : Hand(heap[t], p, Extend(n, new), b)
  BY <1>2
<1>4. PICK e : e = Extend(n, new)
  OBVIOUS
<1>5. PICK r : r = Pop(e, b)
  OBVIOUS
<1>6. /\ pc[t] = "fresh" /\ pc'[t] = "idle" /\ job[t] \in {"malloc", "retry"}
      /\ job'[t] = "none" /\ hand[t] = {}
      /\ \A u \in Threads \ {t} : pc'[u] = pc[u] /\ job'[u] = job[u] /\ heap'[u] = heap[u]
      /\ UNCHANGED <<delayed, alive, blk, hand, again, todo>>
  BY Parts DEF Fresh, Return, Types, Control, JobFits
<1>7. page[p] = NoPage
  BY PageFacts DEF Fresh
<1>8. heap[t] \in alive /\ heap[t] \in Heaps /\ OwnerOf[heap[t]] = t
  BY <1>6, OwnPages
<1>9. /\ Sound(n, p) /\ Out(n) = {} /\ n.state = "queue" /\ n.heap = heap[t] /\ n.thread = t
      /\ n.flag = "use" /\ n.tfree = {}
  <2>1. n \in Page /\ n.state = "queue" /\ n.heap = heap[t] /\ n.thread = t
        /\ n.flag = "use" /\ n.tfree = {} /\ n.free = {} /\ n.local = {} /\ n.cap = {}
        /\ n.used = 0
    BY <1>1, <1>8 DEF NoPage, Page, States, Flags
  <2>2. QED
    BY <2>1, FS_EmptySet DEF Sound, Out
<1>10. /\ Sound(e, p) /\ SameTag(n, e) /\ e.tfree = {} /\ Out(e) = {} /\ b \in e.free
       /\ e.cap # {}
  BY <1>3, <1>4, <1>9, ExtendSound
<1>11. /\ Sound(r, p) /\ SameTag(e, r) /\ r.cap = e.cap /\ r.tfree = e.tfree
       /\ b \in BlocksOf(p) /\ Out(r) = Out(e) \cup {b}
  BY <1>5, <1>10, PopSound
<1>12. /\ r.state = "queue" /\ r.heap = heap[t] /\ r.thread = t /\ r.flag = "use"
       /\ r.tfree = {} /\ r.cap # {} /\ Out(r) = {b}
       /\ b \in Blocks /\ PageOf[b] = p
  BY <1>9, <1>10, <1>11 DEF SameTag, BlocksOf
<1>13. /\ page' = [page EXCEPT ![p] = r] /\ live' = live \cup {b}
       /\ origin' = IF Destroys THEN [origin EXCEPT ![b] = heap[t]] ELSE origin
  BY <1>3, <1>4, <1>5 DEF Hand
<1>14. /\ page' \in [Pages -> Page]
       /\ \A q \in Pages : page'[q] = IF q = p THEN r ELSE page[q]
  BY <1>11, <1>13, Parts DEF Headers, Sound
<1>15. Others(t) /\ GivesUp(t) /\ SameLoad(t)
  BY <1>6 DEF Others, GivesUp, SameLoad
<1>16. Types'
  <2>1. live' \in SUBSET Blocks /\ origin' \in [Blocks -> Heaps \cup {NoHeap}]
    BY <1>8, <1>12, <1>13, Parts DEF Types
  <2>2. QED
    BY <2>1, Parts DEF Fresh, Return, Types, Locations, Jobs
<1>17. Control'
  BY <1>6, <1>15, Parts DEF Control, JobFits, Others
<1>18. \A h \in Heaps, q \in Pages : ~ Doomed(h, q)
  <2> SUFFICES ASSUME NEW h \in Heaps, NEW q \in Pages, Doomed(h, q) PROVE FALSE
    OBVIOUS
  <2>1. OwnerOf[h] \in Threads /\ job[OwnerOf[h]] = "destroy"
    BY Assumption DEF Doomed
  <2>2. Destroys
    BY <2>1, Parts DEF Control, JobFits
  <2>3. OwnerOf[h] = t
    BY <1>8, <2>2 DEF DestroysAlone
  <2>4. QED
    BY <1>6, <2>1, <2>3
<1>19. \A c \in Blocks : PageOf[c] = p =>
         /\ c \notin live
         /\ \A h \in Heaps : c \notin delayed[h]
         /\ \A u \in Threads : c \notin hand[u] /\ ~ Carries(u, c)
         /\ \A u \in Threads : ~ (pc[u] = "reset" /\ blk[u] = c)
  <2>1. Out(page[p]) = {}
    BY <1>7, NoPageSound
  <2>2. QED
    BY <1>18, <2>1, Parts DEF LiveOut, DelayedOut, HandOut, CarriedOut, SentOut, Unsettled
<1>20. Headers' /\ FullInUse'
  BY <1>11, <1>12, <1>14, Parts DEF Headers, FullInUse
<1>21. Belongs'
  BY <1>6, <1>8, <1>12, <1>14, Parts DEF Belongs
<1>22. \A u \in Threads \ {t} : job[u] # "none" => heap[t] # heap[u] /\ heap[u] \in Heaps
  BY <1>8, OwnPages
<1>23. AtHand'
  <2>1. AtHandOf(t)'
    BY <1>6 DEF AtHandOf
  <2>2. ASSUME NEW u \in Threads \ {t}
        PROVE  AtHandOf(u)'
    <3>1. AtHandOf(u) /\ JobFits(pc[u], job[u])
      BY Parts DEF AtHand, Control
    <3>2. /\ pc'[u] = pc[u] /\ job'[u] = job[u] /\ heap'[u] = heap[u] /\ todo'[u] = todo[u]
      BY <1>6
    <3>3. job[u] # "none" => heap[t] # heap[u] /\ heap[u] \in Heaps
      BY <1>22
    <3>4. ~ (pc[u] \in {"flag", "collect", "visit", "tofull", "aflag"} /\ p \in todo[u])
      BY <1>7, <3>1, <3>3, NoPageFields, Assumption DEF AtHandOf, JobFits
    <3>5. QED
      BY <1>12, <1>14, <3>1, <3>2, <3>3, <3>4 DEF AtHandOf, JobFits
  <2>3. QED
    BY <2>1, <2>2 DEF AtHand
<1>24. Refusals'
  <2> SUFFICES ASSUME NEW u \in Threads, NEW q \in Pages
      PROVE  /\ page'[q].flag = "never" /\ page'[q].thread = u =>
                  (pc'[u] = "flag" /\ q \in todo'[u]) \/ job'[u] = "abandon"
             /\ job'[u] = "abandon" /\ pc'[u] # "never" /\ page'[q].heap = heap'[u] =>
                  page'[q].flag = "never"
    BY DEF Refusals
  <2>1. /\ page[q].flag = "never" /\ page[q].thread = u =>
             (pc[u] = "flag" /\ q \in todo[u]) \/ job[u] = "abandon"
        /\ job[u] = "abandon" /\ pc[u] # "never" /\ page[q].heap = heap[u] =>
             page[q].flag = "never"
    BY Parts DEF Refusals
  <2>2. CASE q = p
    BY <1>6, <1>12, <1>14, <1>22, <2>2
  <2>3. CASE q # p
    BY <1>6, <1>14, <2>1, <2>3
  <2>4. QED
    BY <2>2, <2>3
<1>25. \A u \in Threads : pc[u] \in {"read", "push", "reset"} =>
         u # t /\ page'[PageOf[blk[u]]] = page[PageOf[blk[u]]]
  BY <1>6, <1>7, <1>14, WriterFacts, NoPageFields
<1>26. OneWriter'
  BY <1>6, <1>25, Parts DEF OneWriter
<1>27. \A h \in Heaps : \A c \in delayed[h] :
         /\ page'[PageOf[c]] = page[PageOf[c]]
         /\ Routed(h, c) /\ OwnerOf[h] \in Threads
  BY <1>14, <1>19, PageAreas, Assumption, Parts DEF Types, DelayedRoute
<1>28. DelayedRoute'
  BY <1>6, <1>27 DEF DelayedRoute, Routed, Moved, Doomed
<1>29. HandRoute'
  <2>1. ASSUME NEW u \in Threads, NEW c \in hand[u]
        PROVE  AtHome(u, c)'
    <3>1. AtHome(u, c) /\ PageOf[c] \in Pages /\ u # t /\ page'[PageOf[c]] = page[PageOf[c]]
      BY <1>6, <1>14, <1>19, PageAreas, Parts DEF HandRoute, Types
    <3>2. job[u] # "none"
      BY Parts DEF Control, JobFits
    <3>3. OwnerOf[heap[u]] = u
      BY <3>2, OwnPages
    <3>4. QED
      BY <1>6, <3>1, <3>3 DEF AtHome, Moved
  <2>2. ASSUME NEW u \in Threads, pc'[u] = "settle"
        PROVE  page'[PageOf[blk[u]]].thread = u
    <3>1. u # t /\ pc[u] = "settle"
      BY <1>6, <2>2
    <3>2. blk[u] \in Blocks /\ PageOf[blk[u]] \in Pages /\ PageOf[blk[u]] # p
      BY <1>19, <3>1, PageAreas, Parts DEF Control, Carries
    <3>3. QED
      BY <1>14, <3>1, <3>2, Parts DEF HandRoute
  <2>3. QED
    BY <1>6, <2>1, <2>2 DEF HandRoute
<1>30. PushRoute'
  <2> SUFFICES ASSUME NEW u \in Threads, pc'[u] = "push"
      PROVE  Expected(u)'
    BY DEF PushRoute
  <2>1. u # t /\ pc[u] = "push" /\ Expected(u) /\ page'[PageOf[blk[u]]] = page[PageOf[blk[u]]]
    BY <1>6, <1>25, Parts DEF PushRoute
  <2>2. \A w \in Threads : pc[w] = "aflag" => pc'[w] = "aflag" /\ heap'[w] = heap[w]
    BY <1>6
  <2>3. QED
    BY <1>6, <2>1, <2>2 DEF Expected
<1>31. NoneLeft'
  BY <1>6, Parts DEF NoneLeft
<1>32. BlockInv'
  <2>1. b \notin Out(page[p])
    BY <1>7, NoPageSound
  <2>2. Out(page'[p]) = Out(page[p]) \cup {b} /\ \A q \in Pages \ {p} : page'[q] = page[q]
    BY <1>7, <1>12, <1>14, NoPageSound
  <2>3. QED
    BY <1>6, <1>12, <1>13, <1>15, <1>18, <2>1, <2>2, BlockIsHandedOut
<1>33. DestroyInv'
  <2> SUFFICES ASSUME Destroys
      PROVE  /\ \A c \in live' : origin'[c] = page'[PageOf[c]].heap
             /\ \A q \in Pages : page'[q].state # "abandoned"
             /\ \A u \in Threads : job'[u] # "destroy"
    BY DEF DestroyInv
  <2>1. /\ \A c \in live : origin[c] = page[PageOf[c]].heap
        /\ \A q \in Pages : page[q].state # "abandoned"
    BY Parts DEF DestroyInv
  <2>2. live \subseteq Blocks /\ origin \in [Blocks -> Heaps \cup {NoHeap}]
    BY Parts DEF Types
  <2>3. \A c \in live' : origin'[c] = page'[PageOf[c]].heap
    BY <1>12, <1>13, <1>14, <1>19, <2>1, <2>2, PageAreas
  <2>4. \A u \in Threads : job'[u] # "destroy"
    <3>1. \A u \in Threads : job[u] # "none" => OwnerOf[heap[u]] = u /\ heap[u] \in Heaps
      BY OwnPages
    <3>2. \A u \in Threads : job[u] # "none" => u = t
      BY <1>8, <3>1 DEF DestroysAlone
    <3>3. QED
      BY <1>6, <3>2
  <2>5. QED
    BY <1>12, <1>14, <2>1, <2>3, <2>4
<1>34. SomeoneKnows'
  <2>1. \A q \in Pages : Pending(q) => Pending(q)'
    BY <1>6, <1>15, PendingStill
  <2>2. \A q \in Pages :
           /\ page'[q].flag = page[q].flag
           /\ \/ page'[q].tfree = {}
              \/ /\ page'[q].tfree = page[q].tfree
                 /\ ~ (pc[t] = "settle" /\ PageOf[blk[t]] = q)
                 /\ ~ (pc[t] = "collect" /\ q \in todo[t])
    BY <1>6, <1>7, <1>12, <1>14, NoPageFields
  <2>3. QED
    BY <1>15, <2>1, <2>2, KnowsStill
<1>35. QED
  BY <1>16, <1>17, <1>20, <1>21, <1>23, <1>24, <1>26, <1>28, <1>29, <1>30, <1>31, <1>32,
     <1>33, <1>34 DEF IInv, PageInv, RouteInv

-----------------------------------------------------------------------------
(* Blocks on their way.                                                    *)

\* The block b is in one place.
OnlyAt(b) ==
  \/ /\ b \in live
     /\ \A h \in Heaps : b \notin delayed[h]
     /\ \A u \in Threads : b \notin hand[u] /\ ~ Carries(u, b)
  \/ /\ b \notin live
     /\ \E h \in Heaps : b \in delayed[h] /\ \A g \in Heaps \ {h} : b \notin delayed[g]
     /\ \A u \in Threads : b \notin hand[u] /\ ~ Carries(u, b)
  \/ /\ b \notin live
     /\ \A h \in Heaps : b \notin delayed[h]
     /\ \E t \in Threads : b \in hand[t] /\ \A u \in Threads \ {t} : b \notin hand[u]
     /\ \A u \in Threads : ~ Carries(u, b)
  \/ /\ b \notin live
     /\ \A h \in Heaps : b \notin delayed[h]
     /\ \A u \in Threads : b \notin hand[u]
     /\ \E t \in Threads : Carries(t, b) /\ \A u \in Threads \ {t} : ~ Carries(u, b)

\* b is where it was.
Stays(b) ==
  /\ b \in live' <=> b \in live
  /\ \A h \in Heaps : b \in delayed'[h] <=> b \in delayed[h]
  /\ \A u \in Threads : b \in hand'[u] <=> b \in hand[u]
  /\ \A u \in Threads : Carries(u, b)' <=> Carries(u, b)

\* The blocks of M move from one place to another, outside of their pages.
LEMMA BlocksMove ==
  ASSUME NEW t \in Threads, IInv, Others(t), GivesUp(t), Types', SentOut',
         \A p \in Pages : Out(page'[p]) = Out(page[p]),
         \A p \in Pages : page[p] = NoPage => page'[p] = NoPage,
         NEW M \in SUBSET Blocks,
         \A b \in M : b \in Out(page[PageOf[b]]) /\ OnlyAt(b)',
         \A b \in Blocks \ M : Stays(b)
  PROVE  BlockInv'
<1>1. /\ LiveOut /\ DelayedOut /\ HandOut /\ CarriedOut /\ NoneLost /\ OnePlace
      /\ live' \subseteq Blocks
      /\ \A h \in Heaps : delayed'[h] \subseteq Blocks
      /\ \A u \in Threads : hand'[u] \subseteq Blocks
  BY Parts DEF Types
<1>2. \A b \in Blocks : Out(page'[PageOf[b]]) = Out(page[PageOf[b]])
  BY PageAreas
<1>3. LiveOut'
  BY <1>1, <1>2 DEF LiveOut, Stays
<1>4. DelayedOut'
  <2> SUFFICES ASSUME NEW h \in Heaps, NEW b \in delayed'[h]
      PROVE  b \in Out(page'[PageOf[b]]) \/ Doomed(h, PageOf[b])'
    BY DEF DelayedOut
  <2>1. b \in Blocks /\ PageOf[b] \in Pages
    BY <1>1, PageAreas
  <2>2. b \in Out(page[PageOf[b]]) \/ Doomed(h, PageOf[b])
    BY <1>1, <2>1 DEF DelayedOut, Stays
  <2>3. QED
    BY <1>2, <2>1, <2>2, DoomedStill
<1>5. HandOut'
  BY <1>1, <1>2 DEF HandOut, Stays
<1>6. CarriedOut'
  BY <1>1, <1>2 DEF CarriedOut, Stays
<1>7. NoneLost'
  <2> SUFFICES ASSUME ~ Destroys, NEW b \in Blocks, b \in Out(page'[PageOf[b]])
      PROVE  \/ b \in live'
             \/ \E h \in Heaps : b \in delayed'[h]
             \/ \E u \in Threads : b \in hand'[u]
             \/ \E u \in Threads : Carries(u, b)'
    BY DEF NoneLost
  <2>1. CASE b \in M
    BY <2>1 DEF OnlyAt
  <2>2. CASE b \notin M
    BY <1>1, <1>2, <2>2 DEF NoneLost, Stays
  <2>3. QED
    BY <2>1, <2>2
<1>8. OnePlace'
  <2>1. ASSUME NEW b \in Blocks
        PROVE  /\ b \in live' =>
                    /\ \A h \in Heaps : b \notin delayed'[h]
                    /\ \A u \in Threads : b \notin hand'[u] /\ ~ Carries(u, b)'
               /\ \A h \in Heaps : b \in delayed'[h] =>
                    /\ \A g \in Heaps \ {h} : b \notin delayed'[g]
                    /\ \A u \in Threads : b \notin hand'[u] /\ ~ Carries(u, b)'
               /\ \A w, u \in Threads : b \in hand'[w] =>
                    ~ Carries(u, b)' /\ (u # w => b \notin hand'[u])
               /\ \A w, u \in Threads : Carries(w, b)' /\ Carries(u, b)' => w = u
    <3>1. CASE b \in M
      <4>1. OnlyAt(b)'
        BY <3>1
      <4>2. QED
        BY <4>1 DEF OnlyAt
    <3>2. CASE b \notin M
      <4>1. Stays(b)
        BY <3>2
      <4>2. /\ b \in live =>
                    /\ \A h \in Heaps : b \notin delayed[h]
                    /\ \A u \in Threads : b \notin hand[u] /\ ~ Carries(u, b)
            /\ \A h \in Heaps : b \in delayed[h] =>
                    /\ \A g \in Heaps \ {h} : b \notin delayed[g]
                    /\ \A u \in Threads : b \notin hand[u] /\ ~ Carries(u, b)
            /\ \A w, u \in Threads : b \in hand[w] =>
                    ~ Carries(u, b) /\ (u # w => b \notin hand[u])
            /\ \A w, u \in Threads : Carries(w, b) /\ Carries(u, b) => w = u
        BY <1>1 DEF OnePlace
      <4>3. QED
        BY <4>1, <4>2 DEF Stays
    <3>3. QED
      BY <3>1, <3>2
  <2>2. QED
    BY <1>1, <2>1 DEF OnePlace
<1>9. QED
  BY <1>3, <1>4, <1>5, <1>6, <1>7, <1>8 DEF BlockInv

\* Nothing happens to pages, and threads keep what they have at hand.
LEMMA SamePages ==
  ASSUME NEW t \in Threads, IInv, Others(t), page' = page, alive' = alive, job' = job,
         todo' = todo, heap'[t] = heap[t] \/ job[t] = "none",
         pc[t] \notin {"flag", "collect", "visit", "tofull", "aflag", "never"},
         pc'[t] \notin {"flag", "collect", "visit", "tofull", "aflag", "never"},
         pc'[t] \in {"read", "push", "reset"} =>
           pc[t] \in {"read", "push", "reset"} /\ blk'[t] = blk[t]
  PROVE  PageInv'
<1>1. Headers' /\ FullInUse' /\ Belongs'
  BY Parts DEF Headers, FullInUse, Belongs
<1>2. AtHand'
  <2>1. ASSUME NEW u \in Threads
        PROVE  AtHandOf(u)'
    <3>1. AtHandOf(u)
      BY Parts DEF AtHand
    <3>2. QED
      BY <3>1 DEF AtHandOf, Others
  <2>2. QED
    BY <2>1 DEF AtHand
<1>3. Refusals'
  <2> SUFFICES ASSUME NEW u \in Threads, NEW q \in Pages
      PROVE  /\ page[q].flag = "never" /\ page[q].thread = u =>
                  (pc'[u] = "flag" /\ q \in todo[u]) \/ job[u] = "abandon"
             /\ job[u] = "abandon" /\ pc'[u] # "never" /\ page[q].heap = heap'[u] =>
                  page[q].flag = "never"
    BY DEF Refusals
  <2>1. /\ page[q].flag = "never" /\ page[q].thread = u =>
             (pc[u] = "flag" /\ q \in todo[u]) \/ job[u] = "abandon"
        /\ job[u] = "abandon" /\ pc[u] # "never" /\ page[q].heap = heap[u] =>
             page[q].flag = "never"
    BY Parts DEF Refusals
  <2>2. QED
    BY <2>1 DEF Others
<1>4. OneWriter'
  <2>1. \A u \in Threads : pc'[u] \in {"read", "push", "reset"} =>
          pc[u] \in {"read", "push", "reset"} /\ blk'[u] = blk[u]
    BY DEF Others
  <2>2. QED
    BY <2>1, Parts DEF OneWriter
<1>5. QED
  BY <1>1, <1>2, <1>3, <1>4 DEF PageInv

\* mi_free by a thread that does not own the page.
LEMMA FreeOtherKeeps ==
  ASSUME NEW t \in Threads, NEW b \in Blocks, IInv, Free(t, b), page[PageOf[b]].thread # t
  PROVE  IInv'
<1>1. /\ pc[t] = "idle" /\ b \in live /\ live' = live \ {b}
      /\ blk' = [blk EXCEPT ![t] = b] /\ pc' = [pc EXCEPT ![t] = "mt"]
      /\ UNCHANGED <<page, delayed, alive, origin, job, heap, hand, again, todo>>
  BY DEF Free, Goto
<1>2. pc'[t] = "mt" /\ blk'[t] = b /\ job[t] = "none" /\ hand[t] = {}
  BY <1>1, Parts DEF Types, Control, JobFits
<1>3. Others(t) /\ GivesUp(t) /\ Types'
  BY <1>1, Parts DEF Others, GivesUp, Types, Locations
<1>4. Control'
  BY <1>1, <1>2, <1>3, Parts DEF Control, JobFits, Others
<1>5. PageInv'
  BY <1>1, <1>2, <1>3, SamePages
<1>6. b \in Out(page[PageOf[b]])
  BY <1>1, Parts DEF LiveOut
<1>7. /\ \A h \in Heaps : b \notin delayed[h]
      /\ \A u \in Threads : b \notin hand[u] /\ ~ Carries(u, b)
  BY <1>1, Parts DEF OnePlace
<1>8. BlockInv'
  <2>1. \A u \in Threads : \A c \in Blocks : Carries(u, c)' <=> Carries(u, c) \/ (u = t /\ c = b)
    <3> SUFFICES ASSUME NEW u \in Threads, NEW c \in Blocks
        PROVE  Carries(u, c)' <=> Carries(u, c) \/ (u = t /\ c = b)
      OBVIOUS
    <3>1. CASE u = t
      BY <1>1, <1>2, <3>1 DEF Carries
    <3>2. CASE u # t
      BY <1>3, <3>2 DEF Others, Carries
    <3>3. QED
      BY <3>1, <3>2
  <2>2. OnlyAt(b)'
    BY <1>1, <1>7, <2>1 DEF OnlyAt
  <2>3. \A c \in Blocks \ {b} : Stays(c)
    BY <1>1, <2>1 DEF Stays
  <2>4. SentOut'
    <3> SUFFICES ASSUME NEW u \in Threads, NEW c \in Blocks, pc'[u] = "reset", blk'[u] = c
        PROVE  Unsettled(c)'
      BY DEF SentOut
    <3>1. pc[u] = "reset" /\ blk[u] = c
      BY <1>2, <1>3 DEF Others
    <3>2. Unsettled(c)
      BY <3>1, Parts DEF SentOut
    <3>3. QED
      BY <1>1, <2>1, <3>2 DEF Unsettled
  <2>5. /\ {b} \in SUBSET Blocks
        /\ \A c \in {b} : c \in Out(page[PageOf[c]]) /\ OnlyAt(c)'
        /\ \A p \in Pages : Out(page'[p]) = Out(page[p]) /\ (page[p] = NoPage => page'[p] = NoPage)
    BY <1>1, <1>6, <2>2
  <2>6. QED
    BY <1>3, <2>3, <2>4, <2>5, BlocksMove
<1>9. DelayedRoute' /\ HandRoute' /\ PushRoute'
  BY <1>1, <1>2, <1>3, <1>4, <1>8, NoPageFields, RoutesKept DEF AliveKept, HeapsKept
<1>10. NoneLeft'
  <2>1. \A u \in Threads : job[u] \in {"abandon", "drop"} => pc'[u] = pc[u]
    BY <1>2, <1>3 DEF Others
  <2>2. QED
    BY <1>1, <2>1, Parts DEF NoneLeft
<1>11. DestroyInv'
  <2>1. \A u \in Threads : pc'[u] = "mt" => (u = t /\ blk'[u] = b) \/ (pc[u] = "mt" /\ blk'[u] = blk[u])
    BY <1>2, <1>3 DEF Others
  <2>2. QED
    BY <1>1, <2>1, Parts DEF DestroyInv
<1>12. SomeoneKnows'
  <2>1. \A q \in Pages : Pending(q) => Pending(q)'
    BY <1>1, <1>3, PendingStill
  <2>2. QED
    BY <1>1, <1>3, <2>1, KnowsStill
<1>13. QED
  BY <1>3, <1>4, <1>5, <1>8, <1>9, <1>10, <1>11, <1>12 DEF IInv, RouteInv

\* The first stranger raises the flag of the page.
LEMMA RaiseFlagKeeps ==
  ASSUME NEW t \in Threads, IInv, pc[t] = "mt", page[PageOf[blk[t]]].flag = "use",
         page' = [page EXCEPT ![PageOf[blk[t]]].flag = "freeing"], Goto(t, "read"),
         UNCHANGED <<blk, delayed, alive, live, origin, job, heap, hand, again, todo>>
  PROVE  IInv'
<1>1. PICK b \in Blocks, p \in Pages : b = blk[t] /\ p = PageOf[b]
  BY PageAreas, Parts DEF Control
<1>2. /\ pc'[t] = "read" /\ job[t] = "none" /\ hand[t] = {} /\ Carries(t, b)
      /\ \A u \in Threads \ {t} : pc'[u] = pc[u]
  BY <1>1, Parts DEF Types, Goto, Control, JobFits, Carries
<1>3. page[p] # NoPage /\ b \in Out(page[p])
  BY <1>1, <1>2, OutsideFacts, Parts DEF CarriedOut
<1>4. page' = [page EXCEPT ![p].flag = "freeing"] /\ page[p].flag = "use"
  BY <1>1
<1>5. page[p].state # "abandoned"
  BY <1>4, Parts DEF Belongs
<1>6. Others(t) /\ GivesUp(t) /\ SameLoad(t)
  BY <1>2 DEF Others, GivesUp, SameLoad
<1>7. /\ page'[p].flag = "freeing"
      /\ \A q \in Pages \ {p} : page'[q] = page[q]
      /\ \A q \in Pages :
           /\ page'[q].state = page[q].state /\ page'[q].heap = page[q].heap
           /\ page'[q].thread = page[q].thread /\ page'[q].tfree = page[q].tfree
      /\ Headers'
  BY <1>3, <1>4, FlagSet DEF Flags
<1>8. Types' /\ Control'
  <2>1. Types'
    BY <1>7, Parts DEF Types, Goto, Locations
  <2>2. QED
    BY <1>2, <2>1, Parts DEF Control, JobFits
<1>9. /\ Headers' /\ FullInUse' /\ Belongs' /\ BlockInv' /\ DestroyInv'
      /\ DelayedRoute' /\ HandRoute' /\ PushRoute'
  BY <1>2, <1>3, <1>4, <1>5, <1>6, <1>8, FlagStep DEF Flags
<1>10. AtHand'
  <2>1. ASSUME NEW u \in Threads
        PROVE  AtHandOf(u)'
    <3>1. AtHandOf(u)
      BY Parts DEF AtHand
    <3>2. QED
      BY <1>2, <1>7, <3>1 DEF AtHandOf
  <2>2. QED
    BY <2>1 DEF AtHand
<1>11. Refusals'
  <2> SUFFICES ASSUME NEW u \in Threads, NEW q \in Pages
      PROVE  /\ page'[q].flag = "never" /\ page'[q].thread = u =>
                  (pc'[u] = "flag" /\ q \in todo[u]) \/ job[u] = "abandon"
             /\ job[u] = "abandon" /\ pc'[u] # "never" /\ page'[q].heap = heap[u] =>
                  page'[q].flag = "never"
    BY DEF Refusals
  <2>1. /\ page[q].flag = "never" /\ page[q].thread = u =>
             (pc[u] = "flag" /\ q \in todo[u]) \/ job[u] = "abandon"
        /\ job[u] = "abandon" /\ pc[u] # "never" /\ page[q].heap = heap[u] =>
             page[q].flag = "never"
    BY Parts DEF Refusals
  <2>2. CASE q = p
    BY <1>2, <1>4, <1>7, <2>1, <2>2
  <2>3. CASE q # p
    BY <1>2, <1>7, <2>1, <2>3
  <2>4. QED
    BY <2>2, <2>3
<1>12. OneWriter'
  <2>1. ASSUME NEW u \in Threads \ {t}, pc[u] \in {"read", "push", "reset"}
        PROVE  /\ PageOf[blk[u]] # p
               /\ page'[PageOf[blk[u]]].flag = "freeing"
               /\ \A w \in Threads \ {u} :
                    w # t /\ pc[w] \in {"read", "push", "reset"} => PageOf[blk[w]] # PageOf[blk[u]]
    BY <1>4, <1>7, <2>1, WriterFacts, Parts DEF OneWriter
  <2>2. QED
    BY <1>1, <1>2, <1>7, <2>1 DEF OneWriter
<1>13. NoneLeft'
  <2>1. \A u \in Threads : job[u] \in {"abandon", "drop"} => pc'[u] = pc[u]
    BY <1>2
  <2>2. QED
    BY <2>1, Parts DEF NoneLeft
<1>14. SomeoneKnows'
  <2>1. \A q \in Pages : Pending(q) => Pending(q)'
    BY <1>2, <1>6, PendingStill
  <2>2. Pending(p)'
    <3>1. b \in BlocksOf(p) /\ Carries(t, b)'
      BY <1>1, <1>2 DEF BlocksOf, Carries
    <3>2. QED
      BY <1>2, <3>1 DEF Pending
  <2>3. ASSUME NEW q \in Pages \ {p}
        PROVE  /\ page'[q].flag \in {"freeing", "no"} => Pending(q)'
               /\ page'[q].tfree # {} /\ page'[q].flag = "use" => Known(q)'
    <3>1. /\ page[q].flag \in {"freeing", "no"} => Pending(q)
          /\ page[q].tfree # {} /\ page[q].flag = "use" => Known(q)
      BY Parts DEF SomeoneKnows, Known
    <3>2. Known(q) => Known(q)'
      BY <1>2, <2>1 DEF Known
    <3>3. QED
      BY <1>7, <2>1, <3>1, <3>2
  <2>4. QED
    BY <1>7, <2>2, <2>3 DEF SomeoneKnows, Known
<1>15. QED
  BY <1>8, <1>9, <1>10, <1>11, <1>12, <1>13, <1>14 DEF IInv, PageInv, RouteInv

\* Any other stranger pushes on the list of the page.
LEMMA PushOnPageKeeps ==
  ASSUME NEW t \in Threads, IInv, pc[t] = "mt", page[PageOf[blk[t]]].flag # "use",
         page' = [page EXCEPT ![PageOf[blk[t]]].tfree = @ \cup {blk[t]}],
         blk' = [blk EXCEPT ![t] = NoBlock], Goto(t, "idle"),
         UNCHANGED <<delayed, alive, live, origin, job, heap, hand, again, todo>>
  PROVE  IInv'
<1>1. PICK b \in Blocks, p \in Pages : b = blk[t] /\ p = PageOf[b]
  BY PageAreas, Parts DEF Control
<1>2. /\ pc'[t] = "idle" /\ job[t] = "none" /\ hand[t] = {} /\ Carries(t, b)
      /\ \A u \in Threads \ {t} : pc'[u] = pc[u] /\ blk'[u] = blk[u]
  BY <1>1, Parts DEF Types, Goto, Control, JobFits, Carries
<1>3. page[p] # NoPage /\ b \in Out(page[p])
  BY <1>1, <1>2, OutsideFacts, Parts DEF CarriedOut
<1>4. Sound(page[p], p) /\ page[p].cap # {} /\ page[p] \in Page
  BY <1>3, PageFacts, Parts DEF Headers
<1>5. PICK r : r = [page[p] EXCEPT !.tfree = page[p].tfree \cup {b}]
  OBVIOUS
<1>6. /\ SameTag(page[p], r) /\ r.cap = page[p].cap /\ r.free = page[p].free
      /\ r.local = page[p].local /\ r.used = page[p].used
      /\ r.tfree = page[p].tfree \cup {b} /\ r \in Page
  BY <1>4, <1>5 DEF Page, SameTag
<1>7. Sound(r, p) /\ Out(r) = Out(page[p]) \ {b}
  BY <1>3, <1>4, <1>6 DEF Sound, Out
<1>8. page' = [page EXCEPT ![p] = r]
  BY <1>1, <1>4, <1>5, Parts DEF Headers
<1>9. /\ TagsKept /\ Headers' /\ FullInUse'
      /\ page'[p] = r /\ \A q \in Pages \ {p} : page'[q] = page[q]
  <2>1. r.state = "full" => r.used > 0
    BY <1>6, Parts DEF SameTag, FullInUse
  <2>2. QED
    BY <1>3, <1>4, <1>6, <1>7, <1>8, <2>1, OnePageTags DEF SameTag
<1>10. Others(t) /\ GivesUp(t) /\ Types'
  BY <1>2, Parts DEF Others, GivesUp, Types, Goto, Locations
<1>11. Control'
  BY <1>2, <1>10, Parts DEF Control, JobFits
<1>12. BlockInv'
  <2>1. \A q \in Pages : Out(page[q]) \subseteq BlocksOf(q)
    BY Parts DEF Headers, Sound, Out
  <2>2. \A q \in Pages \ {p} : b \notin Out(page[q])
    BY <1>1, <2>1 DEF BlocksOf
  <2>3. \A q \in Pages : Out(page'[q]) = Out(page[q]) \ {b}
    BY <1>7, <1>9, <2>2
  <2>4. live' = live \ {b}
    BY <1>2, Parts DEF OnePlace
  <2>5. \A q \in Pages : page[q] = NoPage => page'[q] = NoPage
    BY <1>3, <1>9
  <2>6. QED
    BY <1>2, <1>10, <2>3, <2>4, <2>5, BlockReturns
<1>13. DestroyInv'
  BY <1>2, <1>9, <1>10, <1>12, DestroyStill
<1>14. /\ Belongs' /\ Refusals' /\ OneWriter'
       /\ DelayedRoute' /\ HandRoute' /\ PushRoute'
  BY <1>2, <1>9, <1>10, <1>11, <1>12, CalmStep
<1>15. AtHand'
  <2>1. \A q \in Pages : page'[q].heap = page[q].heap /\ page'[q].state = page[q].state
    BY <1>6, <1>9 DEF SameTag
  <2>2. ASSUME NEW u \in Threads
        PROVE  AtHandOf(u)'
    <3>1. AtHandOf(u)
      BY Parts DEF AtHand
    <3>2. QED
      BY <1>2, <2>1, <3>1 DEF AtHandOf
  <2>3. QED
    BY <2>2 DEF AtHand
<1>16. NoneLeft'
  <2>1. \A u \in Threads : job[u] \in {"abandon", "drop"} => pc'[u] = pc[u]
    BY <1>2
  <2>2. QED
    BY <2>1, Parts DEF NoneLeft
<1>17. SomeoneKnows'
  <2>1. \A q \in Pages : Pending(q) => Pending(q)'
    BY <1>2, <1>10, PendingStill
  <2>2. ASSUME NEW q \in Pages
        PROVE  /\ page'[q].flag \in {"freeing", "no"} => Pending(q)'
               /\ page'[q].tfree # {} /\ page'[q].flag = "use" => Known(q)'
    <3>1. /\ page[q].flag \in {"freeing", "no"} => Pending(q)
          /\ page[q].tfree # {} /\ page[q].flag = "use" => Known(q)
      BY Parts DEF SomeoneKnows, Known
    <3>2. Known(q) => Known(q)'
      BY <1>2, <2>1 DEF Known
    <3>3. CASE q = p
      BY <1>1, <1>6, <1>9, <2>1, <3>1, <3>3 DEF SameTag
    <3>4. CASE q # p
      BY <1>9, <2>1, <3>1, <3>2, <3>4
    <3>5. QED
      BY <3>3, <3>4
  <2>3. QED
    BY <2>2 DEF SomeoneKnows, Known
<1>18. QED
  BY <1>9, <1>10, <1>11, <1>12, <1>13, <1>14, <1>15, <1>16, <1>17 DEF IInv, PageInv, RouteInv

\* FreeMt preserves the invariant.
LEMMA FreeMtKeeps ==
  ASSUME NEW t \in Threads, IInv, FreeMt(t)
  PROVE  IInv'
<1>1. pc[t] = "mt" /\ UNCHANGED <<delayed, alive, live, origin, job, heap, hand, again, todo>>
  BY DEF FreeMt
<1>2. CASE page[PageOf[blk[t]]].flag = "use"
  BY <1>1, <1>2, RaiseFlagKeeps DEF FreeMt
<1>3. CASE page[PageOf[blk[t]]].flag # "use"
  BY <1>1, <1>3, PushOnPageKeeps DEF FreeMt
<1>4. QED
  BY <1>2, <1>3

\* The stranger reads the heap of the page.
LEMMA ReadHeapKeeps ==
  ASSUME NEW t \in Threads, IInv, ReadHeap(t)
  PROVE  IInv'
<1>1. PICK b \in Blocks, p \in Pages : b = blk[t] /\ p = PageOf[b]
  BY PageAreas, Parts DEF ReadHeap, Control
<1>2. /\ pc[t] = "read" /\ pc'[t] = "push" /\ job[t] = "none" /\ hand[t] = {}
      /\ heap'[t] = page[p].heap
      /\ \A u \in Threads \ {t} : pc'[u] = pc[u] /\ heap'[u] = heap[u]
      /\ UNCHANGED <<page, delayed, alive, live, origin, job, blk, hand, again, todo>>
  BY <1>1, Parts DEF ReadHeap, shared, Goto, Types, Control, JobFits
<1>3. page[p].heap \in alive /\ page[p].heap \in Heaps
  BY <1>1, <1>2, WriterFacts, Parts DEF Types
<1>4. Others(t) /\ GivesUp(t) /\ SameLoad(t)
  BY <1>2 DEF Others, GivesUp, SameLoad
<1>5. Types'
  BY <1>1, <1>3, Parts DEF ReadHeap, shared, Types, Goto, Locations
<1>6. Control'
  BY <1>2, <1>4, Parts DEF Control, JobFits, Others
<1>7. PageInv'
  BY <1>2, <1>4, SamePages
<1>8. BlockInv'
  BY <1>2, <1>4, BlocksStill
<1>9. HeapsKept /\ AliveKept
  BY <1>2, NoPageFields DEF HeapsKept, AliveKept
<1>10. DelayedRoute'
  BY <1>2, <1>4, <1>8, <1>9, RoutedStill DEF DelayedRoute, BlockInv
<1>11. HandRoute'
  <2>1. ASSUME NEW u \in Threads, NEW c \in hand[u]
        PROVE  AtHome(u, c)'
    BY <1>2, <1>4, <1>8, <1>9, AtHomeStill DEF BlockInv
  <2>2. ASSUME NEW u \in Threads, pc'[u] = "settle"
        PROVE  page'[PageOf[blk'[u]]].thread = u
    BY <1>2, <1>4, <1>8, <1>9, <2>2, SettlesStill DEF BlockInv
  <2>3. QED
    BY <1>2, <2>1, <2>2 DEF HandRoute
<1>12. PushRoute'
  <2>1. Expected(t)'
    BY <1>1, <1>2, <1>3 DEF Expected
  <2>2. ASSUME NEW u \in Threads \ {t}, pc'[u] = "push"
        PROVE  Expected(u)'
    BY <1>2, <1>4, <1>6, <1>8, <1>9, <2>2, ExpectedStill DEF BlockInv
  <2>3. QED
    BY <2>1, <2>2 DEF PushRoute
<1>13. NoneLeft'
  <2>1. \A u \in Threads : job[u] \in {"abandon", "drop"} => pc'[u] = pc[u] /\ heap'[u] = heap[u]
    BY <1>2
  <2>2. QED
    BY <1>2, <2>1, Parts DEF NoneLeft
<1>14. DestroyInv'
  <2>1. \A u \in Threads : /\ job[u] = "destroy" => heap'[u] = heap[u]
                           /\ pc'[u] = "mt" => pc[u] = "mt"
    BY <1>2
  <2>2. QED
    BY <1>2, <2>1, Parts DEF DestroyInv
<1>15. SomeoneKnows'
  <2>1. \A q \in Pages : Pending(q) => Pending(q)'
    BY <1>2, <1>4, PendingStill
  <2>2. QED
    BY <1>2, <1>4, <2>1, KnowsStill
<1>16. QED
  BY <1>5, <1>6, <1>7, <1>8, <1>10, <1>11, <1>12, <1>13, <1>14, <1>15 DEF IInv, RouteInv

\* The stranger pushes the block on the list of the heap.
LEMMA PushDelayedKeeps ==
  ASSUME NEW t \in Threads, IInv, PushDelayed(t)
  PROVE  IInv'
<1>1. PICK b \in Blocks, p \in Pages : b = blk[t] /\ p = PageOf[b]
  BY PageAreas, Parts DEF PushDelayed, Control
<1>2. /\ pc[t] = "push" /\ pc'[t] = "reset" /\ job[t] = "none" /\ hand[t] = {}
      /\ \A u \in Threads \ {t} : pc'[u] = pc[u]
      /\ UNCHANGED <<page, alive, live, origin, job, heap, blk, hand, again, todo>>
  BY <1>1, Parts DEF PushDelayed, Goto, Types, Control, JobFits
<1>3. Expected(t) /\ heap[t] \in alive /\ heap[t] \in Heaps
  BY <1>2, Parts DEF PushRoute, Expected, Types
<1>4. \A h \in Heaps : delayed'[h] = IF h = heap[t] THEN delayed[h] \cup {b} ELSE delayed[h]
  BY <1>1 DEF PushDelayed
<1>5. Carries(t, b) /\ b \in Out(page[p]) /\ page[p].flag = "freeing"
  BY <1>1, <1>2, WriterFacts, Parts DEF Carries, CarriedOut
<1>6. page[p] # NoPage
  BY <1>5, NoPageFields
<1>7. Others(t) /\ GivesUp(t)
  BY <1>2 DEF Others, GivesUp
<1>8. Types'
  BY <1>1, Parts DEF PushDelayed, Types, Goto, Locations
<1>9. Control'
  BY <1>2, Parts DEF Control, JobFits
<1>10. PageInv'
  BY <1>2, <1>7, SamePages
<1>11. /\ b \notin live
       /\ \A h \in Heaps : b \notin delayed[h]
       /\ \A u \in Threads : b \notin hand[u] /\ (u # t => ~ Carries(u, b))
  BY <1>5, Parts DEF OnePlace
<1>12. \A u \in Threads : \A c \in Blocks : Carries(u, c)' <=> Carries(u, c) /\ c # b
  <2> SUFFICES ASSUME NEW u \in Threads, NEW c \in Blocks
      PROVE  Carries(u, c)' <=> Carries(u, c) /\ c # b
    OBVIOUS
  <2>1. CASE u = t
    BY <1>1, <1>2, <2>1 DEF Carries
  <2>2. CASE u # t
    BY <1>2, <1>11, <2>2 DEF Carries
  <2>3. QED
    BY <2>1, <2>2
<1>13. SentOut'
  <2> SUFFICES ASSUME NEW u \in Threads, NEW c \in Blocks, pc'[u] = "reset", blk[u] = c
      PROVE  Unsettled(c)'
    BY <1>2 DEF SentOut
  <2>1. CASE u = t
    BY <1>1, <1>2, <1>5, <1>11, <1>12, <2>1 DEF Unsettled
  <2>2. CASE u # t
    <3>1. Unsettled(c)
      BY <1>2, <2>2, Parts DEF SentOut
    <3>2. QED
      BY <1>2, <1>12, <3>1 DEF Unsettled
  <2>3. QED
    BY <2>1, <2>2
<1>14. BlockInv'
  <2>1. OnlyAt(b)'
    BY <1>2, <1>3, <1>4, <1>11, <1>12 DEF OnlyAt
  <2>2. \A c \in Blocks \ {b} : Stays(c)
    BY <1>2, <1>4, <1>12 DEF Stays
  <2>3. /\ {b} \in SUBSET Blocks
        /\ \A c \in {b} : c \in Out(page[PageOf[c]]) /\ OnlyAt(c)'
        /\ \A q \in Pages : Out(page'[q]) = Out(page[q]) /\ (page[q] = NoPage => page'[q] = NoPage)
    BY <1>1, <1>2, <1>5, <2>1
  <2>4. QED
    BY <1>7, <1>8, <1>13, <2>2, <2>3, BlocksMove
<1>15. HeapsKept /\ AliveKept
  BY <1>2, NoPageFields DEF HeapsKept, AliveKept
<1>16. DelayedRoute'
  <2>1. Routed(heap[t], b)'
    <3>1. CASE page[p].heap = heap[t]
      BY <1>1, <1>2, <3>1 DEF Routed
    <3>2. CASE \E u \in Threads : pc[u] = "aflag" /\ p \in todo[u] /\ heap[u] = heap[t]
      <4>1. PICK u \in Threads : pc[u] = "aflag" /\ p \in todo[u] /\ heap[u] = heap[t]
        BY <3>2
      <4>2. /\ job[u] = "delete" /\ OwnerOf[heap[u]] = u
            /\ page[p].heap \in Backing /\ OwnerOf[page[p].heap] = u
        BY <4>1, Parts DEF Control, JobFits, AtHand, AtHandOf
      <4>3. QED
        BY <1>1, <1>2, <4>1, <4>2 DEF Routed, Moved
    <3>3. QED
      BY <1>1, <1>3, <3>1, <3>2 DEF Expected
  <2>2. ASSUME NEW h \in Heaps, NEW c \in delayed[h]
        PROVE  Routed(h, c)'
    <3>1. Routed(h, c)
      BY Parts DEF DelayedRoute
    <3>2. QED
      BY <1>2, <3>1 DEF Routed, Moved, Doomed
  <2>3. ASSUME NEW h \in Heaps, NEW c \in delayed'[h]
        PROVE  Routed(h, c)'
    <3>1. c \in delayed[h] \/ (h = heap[t] /\ c = b)
      BY <1>4
    <3>2. CASE c \in delayed[h]
      BY <2>2, <3>2
    <3>3. CASE h = heap[t] /\ c = b
      BY <1>2, <2>1, <3>3 DEF Routed, Moved, Doomed
    <3>4. QED
      BY <3>1, <3>2, <3>3
  <2>4. QED
    BY <2>3 DEF DelayedRoute
<1>17. HandRoute'
  <2>1. ASSUME NEW u \in Threads, NEW c \in hand[u]
        PROVE  AtHome(u, c)'
    BY <1>2, <1>7, <1>14, <1>15, AtHomeStill DEF BlockInv
  <2>2. ASSUME NEW u \in Threads, pc'[u] = "settle"
        PROVE  page'[PageOf[blk'[u]]].thread = u
    BY <1>2, <1>7, <1>14, <1>15, <2>2, SettlesStill DEF BlockInv
  <2>3. QED
    BY <1>2, <2>1, <2>2 DEF HandRoute
<1>18. PushRoute'
  <2>1. ASSUME NEW u \in Threads, pc'[u] = "push"
        PROVE  Expected(u)'
    BY <1>2, <1>7, <1>9, <1>14, <1>15, <2>1, ExpectedStill DEF BlockInv
  <2>2. QED
    BY <2>1 DEF PushRoute
<1>19. NoneLeft'
  <2>1. ASSUME NEW u \in Threads,
               \/ job[u] = "drop" /\ pc[u] \in {"drain", "settle"}
               \/ job[u] = "abandon" /\ pc[u] \in {"drain", "settle", "visit"}
        PROVE  heap[u] # heap[t]
    <3>1. CASE page[p].heap = heap[t]
      BY <1>5, <2>1, <3>1, Parts DEF AtHand, AtHandOf, Refusals
    <3>2. CASE \E w \in Threads : pc[w] = "aflag" /\ p \in todo[w] /\ heap[w] = heap[t]
      <4>1. \A w \in Threads : job[w] # "none" => OwnerOf[heap[w]] = w
        BY OwnPages
      <4>2. \A w \in Threads : pc[w] = "aflag" => job[w] = "delete"
        BY Parts DEF Control, JobFits
      <4>3. QED
        BY <2>1, <3>2, <4>1, <4>2
    <3>3. QED
      BY <1>1, <1>3, <3>1, <3>2 DEF Expected
  <2>2. \A u \in Threads : job[u] \in {"abandon", "drop"} => pc'[u] = pc[u] /\ heap[u] \in Heaps
    BY <1>2, OwnPages
  <2>3. QED
    BY <1>2, <1>3, <1>4, <2>1, <2>2, Parts DEF NoneLeft
<1>20. DestroyInv'
  <2>1. \A u \in Threads : pc'[u] = "mt" => pc[u] = "mt"
    BY <1>2
  <2>2. QED
    BY <1>2, <2>1, Parts DEF DestroyInv
<1>21. SomeoneKnows'
  <2>1. ASSUME NEW q \in Pages, Pending(q)
        PROVE  Pending(q)'
    <3>1. PICK c \in BlocksOf(q) :
            \/ \E h \in Heaps : c \in delayed[h]
            \/ \E u \in Threads : c \in hand[u] \/ (Carries(u, c) /\ pc[u] \in {"read", "push"})
      BY <2>1 DEF Pending
    <3>2. \/ \E h \in Heaps : c \in delayed'[h]
          \/ \E u \in Threads : c \in hand'[u] \/ (Carries(u, c)' /\ pc'[u] \in {"read", "push"})
      <4>1. CASE c = b
        BY <1>3, <1>4, <4>1
      <4>2. CASE c # b
        <5>1. \A u \in Threads : Carries(u, c) => u # t
          BY <1>1, <4>2 DEF Carries
        <5>2. \A u \in Threads : Carries(u, c) => Carries(u, c)'
          BY <1>12, <4>2 DEF BlocksOf
        <5>3. QED
          BY <1>2, <1>4, <3>1, <5>1, <5>2
      <4>3. QED
        BY <4>1, <4>2
    <3>3. QED
      BY <3>2 DEF Pending
  <2>2. QED
    BY <1>2, <1>7, <2>1, KnowsStill
<1>22. QED
  BY <1>8, <1>9, <1>10, <1>14, <1>16, <1>17, <1>18, <1>19, <1>20, <1>21 DEF IInv, RouteInv

\* The thread of a heap takes the delayed blocks over.
LEMMA TakeDelayedKeeps ==
  ASSUME NEW t \in Threads, IInv, TakeDelayed(t)
  PROVE  IInv'
<1>1. PICK k \in Heaps : k = heap[t]
  BY OwnPages, Parts DEF TakeDelayed, Control, JobFits
<1>2. /\ pc[t] = "take" /\ pc'[t] = "drain" /\ job[t] \notin {"none", "destroy"} /\ hand[t] = {}
      /\ \A u \in Threads \ {t} : pc'[u] = pc[u] /\ hand'[u] = hand[u] /\ again'[u] = again[u]
      /\ hand'[t] = delayed[k] /\ again'[t] = FALSE
      /\ UNCHANGED <<page, alive, live, origin, job, heap, blk, todo>>
  BY <1>1, Parts DEF TakeDelayed, Goto, Types, Control, JobFits
<1>3. \A h \in Heaps : delayed'[h] = IF h = k THEN {} ELSE delayed[h]
  BY <1>1, Parts DEF TakeDelayed, Types
<1>4. Others(t) /\ GivesUp(t)
  BY <1>2 DEF Others, GivesUp
<1>5. Types'
  BY <1>1, Parts DEF TakeDelayed, Types, Goto, Locations
<1>6. Control'
  BY <1>2, Parts DEF Control, JobFits
<1>7. PageInv'
  BY <1>2, <1>4, SamePages
<1>8. \A u \in Threads : \A c \in Blocks : Carries(u, c)' <=> Carries(u, c)
  BY <1>2 DEF Carries
<1>9. \A c \in delayed[k] : c \in Blocks /\ c \in Out(page[PageOf[c]])
  BY <1>1, <1>2, Parts, Assumption DEF Types, DelayedOut, Doomed, Control
<1>10. BlockInv'
  <2>1. ASSUME NEW c \in delayed[k]
        PROVE  OnlyAt(c)'
    <3>1. /\ c \in Blocks /\ c \notin live
          /\ \A g \in Heaps \ {k} : c \notin delayed[g]
          /\ \A u \in Threads : c \notin hand[u] /\ ~ Carries(u, c)
      BY <1>9, Parts DEF OnePlace
    <3>2. QED
      BY <1>2, <1>3, <1>8, <3>1 DEF OnlyAt
  <2>2. ASSUME NEW c \in Blocks \ delayed[k]
        PROVE  Stays(c)
    BY <1>2, <1>3, <1>8 DEF Stays
  <2>3. SentOut'
    <3>1. \A u \in Threads : pc'[u] = "reset" => pc[u] = "reset"
      BY <1>2
    <3>2. QED
      BY <1>2, <1>8, <3>1, Parts DEF SentOut, Unsettled
  <2>4. /\ delayed[k] \in SUBSET Blocks
        /\ \A q \in Pages : Out(page'[q]) = Out(page[q]) /\ (page[q] = NoPage => page'[q] = NoPage)
    BY <1>2, <1>9
  <2>5. QED
    BY <1>4, <1>5, <1>9, <2>1, <2>2, <2>3, <2>4, BlocksMove
<1>11. HeapsKept /\ AliveKept
  BY <1>2, NoPageFields DEF HeapsKept, AliveKept
<1>12. DelayedRoute'
  <2>1. ASSUME NEW h \in Heaps, NEW c \in delayed'[h]
        PROVE  Routed(h, c)'
    <3>1. Routed(h, c)
      BY <1>3, Parts DEF DelayedRoute
    <3>2. QED
      BY <1>2, <3>1 DEF Routed, Moved, Doomed
  <2>2. QED
    BY <2>1 DEF DelayedRoute
<1>13. HandRoute'
  <2>1. ASSUME NEW u \in Threads, NEW c \in hand'[u]
        PROVE  AtHome(u, c)'
    <3>1. CASE u = t
      <4>1. Routed(k, c) /\ OwnerOf[k] = t
        BY <1>1, <1>2, <3>1, OwnPages, Parts DEF DelayedRoute
      <4>2. QED
        BY <1>1, <1>2, <3>1, <4>1 DEF Routed, Moved, Doomed, AtHome
    <3>2. CASE u # t
      <4>1. AtHome(u, c)
        BY <1>2, <3>2, Parts DEF HandRoute
      <4>2. QED
        BY <1>2, <4>1 DEF AtHome, Moved
    <3>3. QED
      BY <3>1, <3>2
  <2>2. ASSUME NEW u \in Threads, pc'[u] = "settle"
        PROVE  page'[PageOf[blk'[u]]].thread = u
    BY <1>2, <1>4, <1>10, <1>11, <2>2, SettlesStill DEF BlockInv
  <2>3. QED
    BY <2>1, <2>2 DEF HandRoute
<1>14. PushRoute'
  <2>1. ASSUME NEW u \in Threads, pc'[u] = "push"
        PROVE  Expected(u)'
    BY <1>2, <1>4, <1>6, <1>10, <1>11, <2>1, ExpectedStill DEF BlockInv
  <2>2. QED
    BY <2>1 DEF PushRoute
<1>15. NoneLeft'
  <2>1. \A u \in Threads \ {t} : pc'[u] = pc[u] /\ again'[u] = again[u] /\ hand'[u] = hand[u]
    BY <1>2
  <2>2. \A h \in Heaps : delayed'[h] \in {{}, delayed[h]}
    BY <1>3
  <2>3. \A u \in Threads : job[u] # "none" => heap[u] \in Heaps
    BY OwnPages
  <2>4. delayed'[heap[t]] = {}
    BY <1>1, <1>3
  <2>5. \A h \in Heaps \ alive : delayed'[h] = {}
    BY <2>2, Parts DEF NoneLeft
  <2>6. ASSUME NEW u \in Threads
        PROVE  /\ job[u] \in {"abandon", "drop"} /\ pc'[u] \in {"drain", "settle"} /\ ~ again'[u] =>
                    delayed'[heap[u]] = {}
               /\ job[u] = "abandon" /\ pc'[u] = "visit" => delayed'[heap[u]] = {}
    <3>1. CASE u = t
      BY <2>4, <3>1
    <3>2. CASE u # t
      BY <2>1, <2>2, <2>3, <3>2, Parts DEF NoneLeft
    <3>3. QED
      BY <3>1, <3>2
  <2>7. QED
    BY <1>2, <2>5, <2>6 DEF NoneLeft
<1>16. DestroyInv'
  <2>1. \A u \in Threads : pc'[u] = "mt" => pc[u] = "mt"
    BY <1>2
  <2>2. QED
    BY <1>2, <2>1, Parts DEF DestroyInv
<1>17. SomeoneKnows'
  <2>1. ASSUME NEW q \in Pages, Pending(q)
        PROVE  Pending(q)'
    <3>1. PICK c \in BlocksOf(q) :
            \/ \E h \in Heaps : c \in delayed[h]
            \/ \E u \in Threads : c \in hand[u] \/ (Carries(u, c) /\ pc[u] \in {"read", "push"})
      BY <2>1 DEF Pending
    <3>2. \/ \E h \in Heaps : c \in delayed'[h]
          \/ \E u \in Threads : c \in hand'[u] \/ (Carries(u, c)' /\ pc'[u] \in {"read", "push"})
      <4>1. CASE \E h \in Heaps : c \in delayed[h]
        BY <1>2, <1>3, <4>1
      <4>2. CASE \E u \in Threads : c \in hand[u] \/ (Carries(u, c) /\ pc[u] \in {"read", "push"})
        BY <1>2, <1>8, <4>2 DEF BlocksOf
      <4>3. QED
        BY <3>1, <4>1, <4>2
    <3>3. QED
      BY <3>2 DEF Pending
  <2>2. QED
    BY <1>2, <1>4, <2>1, KnowsStill
<1>18. QED
  BY <1>5, <1>6, <1>7, <1>10, <1>12, <1>13, <1>14, <1>15, <1>16, <1>17 DEF IInv, RouteInv

\* A block whose page is being pushed to goes back on the list of the heap.
LEMMA DrainLaterKeeps ==
  ASSUME NEW t \in Threads, NEW b \in Blocks, IInv, DrainLater(t, b)
  PROVE  IInv'
<1>1. PICK k \in Heaps : k = heap[t]
  BY OwnPages, Parts DEF DrainLater, Control, JobFits
<1>2. /\ pc[t] = "drain" /\ job[t] \notin {"none", "retry", "destroy"} /\ b \in hand[t]
      /\ \A u \in Threads \ {t} : hand'[u] = hand[u] /\ again'[u] = again[u]
      /\ hand'[t] = hand[t] \ {b} /\ again'[t] = TRUE
      /\ UNCHANGED <<page, alive, live, origin, pc, job, heap, blk, todo>>
  BY Parts DEF DrainLater, Types, Control, JobFits
<1>3. \A h \in Heaps : delayed'[h] = IF h = k THEN delayed[h] \cup {b} ELSE delayed[h]
  BY <1>1, Parts DEF DrainLater, Types
<1>4. Others(t) /\ GivesUp(t)
  BY <1>2 DEF Others, GivesUp
<1>5. Types'
  BY <1>1, Parts DEF DrainLater, Types
<1>6. Control'
  BY <1>2, Parts DEF Control
<1>7. PageInv'
  BY <1>2, <1>4, SamePages
<1>8. \A u \in Threads : \A c \in Blocks : Carries(u, c)' <=> Carries(u, c)
  BY <1>2 DEF Carries
<1>9. b \in Out(page[PageOf[b]]) /\ AtHome(t, b)
  BY <1>2, Parts DEF HandOut, HandRoute
<1>10. BlockInv'
  <2>1. OnlyAt(b)'
    <3>1. /\ b \notin live
          /\ \A h \in Heaps : b \notin delayed[h]
          /\ \A u \in Threads : ~ Carries(u, b) /\ (u # t => b \notin hand[u])
      BY <1>2, Parts DEF OnePlace
    <3>2. QED
      BY <1>2, <1>3, <1>8, <3>1 DEF OnlyAt
  <2>2. ASSUME NEW c \in Blocks \ {b}
        PROVE  Stays(c)
    BY <1>2, <1>3, <1>8 DEF Stays
  <2>3. SentOut'
    BY <1>2, <1>8, Parts DEF SentOut, Unsettled
  <2>4. /\ {b} \in SUBSET Blocks
        /\ \A c \in {b} : c \in Out(page[PageOf[c]]) /\ OnlyAt(c)'
        /\ \A q \in Pages : Out(page'[q]) = Out(page[q]) /\ (page[q] = NoPage => page'[q] = NoPage)
    BY <1>2, <1>9, <2>1
  <2>5. QED
    BY <1>4, <1>5, <2>2, <2>3, <2>4, BlocksMove
<1>11. HeapsKept /\ AliveKept
  BY <1>2, NoPageFields DEF HeapsKept, AliveKept
<1>12. DelayedRoute'
  <2>1. OwnerOf[k] = t
    BY <1>1, <1>2, OwnPages
  <2>2. ASSUME NEW h \in Heaps, NEW c \in delayed'[h]
        PROVE  Routed(h, c)'
    <3>1. CASE c \in delayed[h]
      <4>1. Routed(h, c)
        BY <3>1, Parts DEF DelayedRoute
      <4>2. QED
        BY <1>2, <4>1 DEF Routed, Moved, Doomed
    <3>2. CASE h = k /\ c = b
      BY <1>1, <1>2, <1>9, <3>2 DEF AtHome, Routed, Moved
    <3>3. QED
      BY <1>3, <3>1, <3>2
  <2>3. QED
    BY <2>2 DEF DelayedRoute
<1>13. HandRoute'
  <2>1. ASSUME NEW u \in Threads, NEW c \in hand'[u]
        PROVE  AtHome(u, c)'
    <3>1. AtHome(u, c)
      BY <1>2, Parts DEF HandRoute
    <3>2. QED
      BY <1>2, <3>1 DEF AtHome, Moved
  <2>2. QED
    BY <1>2, <2>1, Parts DEF HandRoute
<1>14. PushRoute'
  <2>1. ASSUME NEW u \in Threads, pc[u] = "push"
        PROVE  Expected(u)'
    <3>1. Expected(u)
      BY <2>1, Parts DEF PushRoute
    <3>2. QED
      BY <1>2, <3>1 DEF Expected
  <2>2. QED
    BY <1>2, <2>1 DEF PushRoute
<1>15. NoneLeft'
  <2>1. k \in alive /\ \A u \in Threads \ {t} : job[u] # "none" => heap[u] \in Heaps /\ heap[u] # k
    BY <1>1, <1>2, OwnPages
  <2>2. \A h \in Heaps \ alive : delayed'[h] = {}
    BY <1>3, <2>1, Parts DEF NoneLeft
  <2>3. ASSUME NEW u \in Threads
        PROVE  /\ job[u] \in {"abandon", "drop"} /\ pc[u] \in {"drain", "settle"} /\ ~ again'[u] =>
                    delayed'[heap[u]] = {}
               /\ job[u] = "abandon" /\ pc[u] = "visit" => delayed'[heap[u]] = {}
    <3>1. CASE u = t
      BY <1>2, <3>1
    <3>2. CASE u # t
      BY <1>2, <1>3, <2>1, <3>2, Parts DEF NoneLeft
    <3>3. QED
      BY <3>1, <3>2
  <2>4. QED
    BY <1>2, <2>2, <2>3 DEF NoneLeft
<1>16. DestroyInv'
  BY <1>2, Parts DEF DestroyInv
<1>17. SomeoneKnows'
  <2>1. ASSUME NEW q \in Pages, Pending(q)
        PROVE  Pending(q)'
    <3>1. PICK c \in BlocksOf(q) :
            \/ \E h \in Heaps : c \in delayed[h]
            \/ \E u \in Threads : c \in hand[u] \/ (Carries(u, c) /\ pc[u] \in {"read", "push"})
      BY <2>1 DEF Pending
    <3>2. \/ \E h \in Heaps : c \in delayed'[h]
          \/ \E u \in Threads : c \in hand'[u] \/ (Carries(u, c)' /\ pc'[u] \in {"read", "push"})
      <4>1. CASE c = b
        BY <1>3, <4>1
      <4>2. CASE c # b
        BY <1>2, <1>3, <1>8, <3>1, <4>2 DEF BlocksOf
      <4>3. QED
        BY <4>1, <4>2
    <3>3. QED
      BY <3>2 DEF Pending
  <2>2. QED
    BY <1>2, <1>4, <2>1, KnowsStill
<1>18. QED
  BY <1>5, <1>6, <1>7, <1>10, <1>12, <1>13, <1>14, <1>15, <1>16, <1>17 DEF IInv, RouteInv

\* A block leaves the hand of the thread, and the page takes delayed frees
\* again.
LEMMA DrainBlockKeeps ==
  ASSUME NEW t \in Threads, NEW b \in Blocks, IInv, DrainBlock(t, b)
  PROVE  IInv'
<1>1. PICK p \in Pages : p = PageOf[b]
  BY PageAreas
<1>2. /\ pc[t] = "drain" /\ pc'[t] = "settle" /\ job[t] \notin {"none", "retry", "destroy"}
      /\ b \in hand[t] /\ hand'[t] = hand[t] \ {b} /\ blk'[t] = b
      /\ \A u \in Threads \ {t} : pc'[u] = pc[u] /\ blk'[u] = blk[u] /\ hand'[u] = hand[u]
      /\ UNCHANGED <<delayed, alive, live, origin, job, heap, again, todo>>
  BY Parts DEF DrainBlock, Goto, Types, Control, JobFits
<1>3. page[p].flag # "freeing"
  BY <1>1 DEF DrainBlock
<1>4. PICK f \in Flags : f = IF page[p].flag = "never" THEN "never" ELSE "use"
  BY DEF Flags
<1>5. page' = [page EXCEPT ![p].flag = f]
  BY <1>1, <1>4, Parts DEF DrainBlock, Headers
<1>6. b \in Out(page[p]) /\ AtHome(t, b)
  BY <1>1, <1>2, Parts DEF HandOut, HandRoute
<1>7. page[p] # NoPage
  BY <1>6, NoPageSound
<1>8. page[p].thread = t
  BY <1>1, <1>2, <1>6, <1>7, OwnPages, PageFacts, Assumption DEF AtHome, Moved
<1>9. page[p].state # "abandoned"
  BY <1>8, Parts, Assumption DEF Belongs
<1>10. /\ page'[p].flag = f
       /\ \A q \in Pages \ {p} : page'[q] = page[q]
       /\ \A q \in Pages :
            /\ page'[q].state = page[q].state /\ page'[q].heap = page[q].heap
            /\ page'[q].thread = page[q].thread /\ page'[q].tfree = page[q].tfree
            /\ Out(page'[q]) = Out(page[q])
            /\ page[q] = NoPage => page'[q] = NoPage
       /\ Headers' /\ FullInUse' /\ HeapsKept
  BY <1>5, <1>7, FlagSet
<1>11. Others(t) /\ GivesUp(t)
  BY <1>2 DEF Others, GivesUp
<1>12. Types'
  BY Parts DEF DrainBlock, Goto, Types, Locations
<1>13. Control'
  BY <1>2, Parts DEF Control, JobFits
<1>14. Belongs' /\ AliveKept
  BY <1>2, <1>9, <1>10, Parts DEF Belongs, AliveKept
<1>15. AtHand'
  <2>1. ASSUME NEW u \in Threads
        PROVE  AtHandOf(u)'
    <3>1. AtHandOf(u)
      BY Parts DEF AtHand
    <3>2. QED
      BY <1>2, <1>10, <3>1 DEF AtHandOf
  <2>2. QED
    BY <2>1 DEF AtHand
<1>16. Refusals'
  <2> SUFFICES ASSUME NEW u \in Threads, NEW q \in Pages
      PROVE  /\ page'[q].flag = "never" /\ page'[q].thread = u =>
                  (pc'[u] = "flag" /\ q \in todo[u]) \/ job[u] = "abandon"
             /\ job[u] = "abandon" /\ pc'[u] # "never" /\ page'[q].heap = heap[u] =>
                  page'[q].flag = "never"
    BY <1>2 DEF Refusals
  <2>1. /\ page[q].flag = "never" /\ page[q].thread = u =>
             (pc[u] = "flag" /\ q \in todo[u]) \/ job[u] = "abandon"
        /\ job[u] = "abandon" /\ pc[u] # "never" /\ page[q].heap = heap[u] =>
             page[q].flag = "never"
    BY Parts DEF Refusals
  <2>2. page'[q].flag = "never" <=> page[q].flag = "never"
    BY <1>4, <1>10
  <2>3. QED
    BY <1>2, <1>10, <2>1, <2>2
<1>17. \A u \in Threads : pc[u] \in {"read", "push", "reset"} =>
         u # t /\ page'[PageOf[blk[u]]] = page[PageOf[blk[u]]]
  BY <1>2, <1>3, <1>10, WriterFacts
<1>18. OneWriter'
  BY <1>2, <1>17, Parts DEF OneWriter
<1>19. /\ b \notin live
       /\ \A h \in Heaps : b \notin delayed[h]
       /\ \A u \in Threads : ~ Carries(u, b) /\ (u # t => b \notin hand[u])
  BY <1>2, Parts DEF OnePlace
<1>20. \A u \in Threads : \A c \in Blocks : Carries(u, c)' <=> Carries(u, c) \/ (u = t /\ c = b)
  <2> SUFFICES ASSUME NEW u \in Threads, NEW c \in Blocks
      PROVE  Carries(u, c)' <=> Carries(u, c) \/ (u = t /\ c = b)
    OBVIOUS
  <2>1. CASE u = t
    BY <1>2, <2>1 DEF Carries
  <2>2. CASE u # t
    BY <1>2, <2>2 DEF Carries
  <2>3. QED
    BY <2>1, <2>2
<1>21. BlockInv'
  <2>1. OnlyAt(b)'
    BY <1>2, <1>19, <1>20 DEF OnlyAt
  <2>2. ASSUME NEW c \in Blocks \ {b}
        PROVE  Stays(c)
    BY <1>2, <1>20 DEF Stays
  <2>3. SentOut'
    <3> SUFFICES ASSUME NEW u \in Threads, NEW c \in Blocks, pc'[u] = "reset", blk'[u] = c
        PROVE  Unsettled(c)'
      BY DEF SentOut
    <3>1. pc[u] = "reset" /\ blk[u] = c
      BY <1>2
    <3>2. Unsettled(c) /\ PageOf[c] # p
      BY <1>3, <3>1, WriterFacts, Parts DEF SentOut
    <3>3. c # b
      BY <1>1, <3>2
    <3>4. QED
      BY <1>2, <1>10, <1>20, <3>2, <3>3, PageAreas DEF Unsettled
  <2>4. /\ {b} \in SUBSET Blocks
        /\ \A c \in {b} : c \in Out(page[PageOf[c]]) /\ OnlyAt(c)'
    BY <1>1, <1>6, <2>1
  <2>5. QED
    BY <1>10, <1>11, <1>12, <2>2, <2>3, <2>4, BlocksMove
<1>22. DelayedRoute'
  BY <1>2, <1>10, <1>11, <1>21, RoutedStill DEF DelayedRoute, BlockInv
<1>23. HandRoute'
  <2>1. ASSUME NEW u \in Threads, NEW c \in hand'[u]
        PROVE  AtHome(u, c)'
    BY <1>2, <1>10, <1>11, <1>21, AtHomeStill DEF BlockInv
  <2>2. ASSUME NEW u \in Threads, pc'[u] = "settle"
        PROVE  page'[PageOf[blk'[u]]].thread = u
    <3>1. CASE u = t
      BY <1>1, <1>2, <1>8, <1>10, <3>1
    <3>2. CASE u # t
      BY <1>2, <1>10, <1>11, <1>21, <2>2, <3>2, SettlesStill DEF BlockInv
    <3>3. QED
      BY <3>1, <3>2
  <2>3. QED
    BY <2>1, <2>2 DEF HandRoute
<1>24. PushRoute'
  <2>1. ASSUME NEW u \in Threads, pc[u] = "push"
        PROVE  Expected(u)'
    BY <1>2, <1>10, <1>11, <1>13, <1>14, <1>21, <2>1, ExpectedStill DEF BlockInv
  <2>2. QED
    BY <1>2, <2>1 DEF PushRoute
<1>25. NoneLeft'
  BY <1>2, Parts DEF NoneLeft
<1>26. DestroyInv'
  <2>1. \A u \in Threads : pc'[u] = "mt" => pc[u] = "mt" /\ blk'[u] = blk[u] /\ blk[u] \in Blocks
    BY <1>2, Parts DEF Control
  <2>2. \A c \in Blocks : page'[PageOf[c]].heap = page[PageOf[c]].heap
    BY <1>10, PageAreas
  <2>3. QED
    BY <1>2, <1>10, <2>1, <2>2, Parts DEF DestroyInv, Types
<1>27. SomeoneKnows'
  <2>1. ASSUME NEW q \in Pages \ {p}, Pending(q)
        PROVE  Pending(q)'
    <3>1. PICK c \in BlocksOf(q) :
            \/ \E h \in Heaps : c \in delayed[h]
            \/ \E u \in Threads : c \in hand[u] \/ (Carries(u, c) /\ pc[u] \in {"read", "push"})
      BY <2>1 DEF Pending
    <3>2. c # b /\ c \in Blocks
      BY <1>1 DEF BlocksOf
    <3>3. \/ \E h \in Heaps : c \in delayed'[h]
          \/ \E u \in Threads : c \in hand'[u] \/ (Carries(u, c)' /\ pc'[u] \in {"read", "push"})
      BY <1>2, <1>20, <3>1, <3>2
    <3>4. QED
      BY <3>3 DEF Pending
  <2>2. ASSUME NEW q \in Pages
        PROVE  /\ page'[q].flag \in {"freeing", "no"} => Pending(q)'
               /\ page'[q].tfree # {} /\ page'[q].flag = "use" => Known(q)'
    <3>1. CASE q = p
      BY <1>1, <1>2, <1>4, <1>10, <3>1 DEF Known
    <3>2. CASE q # p
      <4>1. /\ page[q].flag \in {"freeing", "no"} => Pending(q)
            /\ page[q].tfree # {} /\ page[q].flag = "use" => Known(q)
        BY Parts DEF SomeoneKnows, Known
      <4>2. Known(q) => Known(q)'
        BY <1>2, <2>1, <3>2 DEF Known
      <4>3. QED
        BY <1>10, <2>1, <3>2, <4>1, <4>2
    <3>3. QED
      BY <3>1, <3>2
  <2>3. QED
    BY <2>2 DEF SomeoneKnows, Known
<1>28. QED
  BY <1>10, <1>12, <1>13, <1>14, <1>15, <1>16, <1>18, <1>21, <1>22, <1>23, <1>24, <1>25,
     <1>26, <1>27 DEF IInv, PageInv, RouteInv

-----------------------------------------------------------------------------
(* Pages that change heaps.                                                *)

\* A page of an ended thread gets a heap of t.
LEMMA ReclaimKeeps ==
  ASSUME NEW t \in Threads, NEW p \in Pages, IInv, Reclaim(t, p)
  PROVE  IInv'
<1>1. /\ pc[t] \in {"fresh", "all"} /\ pc'[t] = "flag" /\ todo'[t] = {p}
      /\ job[t] \in {"malloc", "retry", "force", "oom"} /\ hand[t] = {}
      /\ \A u \in Threads \ {t} : pc'[u] = pc[u] /\ todo'[u] = todo[u]
      /\ UNCHANGED <<delayed, alive, live, origin, job, heap, blk, hand, again>>
  BY Parts DEF Reclaim, Goto, Types, Control, JobFits
<1>2. heap[t] \in alive /\ heap[t] \in Heaps /\ OwnerOf[heap[t]] = t
  BY <1>1, OwnPages
<1>3. /\ page[p].state = "abandoned" /\ page[p].flag = "never" /\ page[p].thread = NoThread
      /\ page[p].heap = NoHeap
  BY Parts DEF Reclaim, Belongs
<1>4. ~ Destroys
  BY <1>3, Parts DEF DestroyInv
<1>5. /\ page[p] # NoPage /\ Sound(page[p], p) /\ page[p].cap # {} /\ page[p] \in Page
  BY <1>3, NoPageFields, PageFacts, Parts DEF Headers
<1>6. PICK r : r = [page[p] EXCEPT !.state = "reclaim", !.heap = heap[t], !.thread = t]
  OBVIOUS
<1>7. /\ r.state = "reclaim" /\ r.heap = heap[t] /\ r.thread = t /\ r.flag = "never"
      /\ r.tfree = page[p].tfree /\ r.cap = page[p].cap /\ r.free = page[p].free
      /\ r.local = page[p].local /\ r.used = page[p].used /\ r \in Page
  BY <1>2, <1>3, <1>5, <1>6 DEF Page, States
<1>8. Sound(r, p) /\ Out(r) = Out(page[p])
  BY <1>5, <1>7 DEF Sound, Out
<1>9. page' = [page EXCEPT ![p] = r]
  BY <1>5, <1>6, Parts DEF Reclaim, Headers
<1>10. /\ page' \in [Pages -> Page]
       /\ \A q \in Pages : page'[q] = IF q = p THEN r ELSE page[q]
  BY <1>7, <1>9, Parts DEF Headers
<1>11. Others(t) /\ GivesUp(t) /\ SameLoad(t)
  BY <1>1 DEF Others, GivesUp, SameLoad
<1>12. Types'
  BY Parts DEF Reclaim, Types, Goto, Locations
<1>13. Control'
  <2>1. JobFits("flag", job[t])
    BY <1>1 DEF JobFits
  <2>2. \A u \in Threads \ {t} : pc'[u] = pc[u] /\ todo'[u] = todo[u]
    BY <1>1
  <2>3. QED
    BY <1>1, <2>1, <2>2, Parts DEF Control
<1>14. Headers' /\ FullInUse'
  BY <1>5, <1>7, <1>8, <1>10, Parts DEF Headers, FullInUse
<1>15. Belongs'
  BY <1>1, <1>2, <1>7, <1>10, Parts DEF Belongs
<1>16. \A u \in Threads \ {t} : job[u] # "none" => heap[t] # heap[u] /\ heap[u] \in Heaps
  BY <1>2, OwnPages
<1>17. AtHand'
  <2>1. \A q \in Pages :
          \/ page'[q].heap = page[q].heap /\ page'[q].state = page[q].state
          \/ /\ page[q].thread \in {t, NoThread}
             /\ page'[q].heap \in Heaps /\ OwnerOf[page'[q].heap] = t
    BY <1>2, <1>3, <1>7, <1>10
  <2>2. \A u \in Threads \ {t} : AtHandOf(u)'
    BY <1>11, <2>1, OthersAtHand
  <2>3. AtHandOf(t)'
    BY <1>1, <1>7, <1>10 DEF AtHandOf
  <2>4. QED
    BY <2>2, <2>3 DEF AtHand
<1>18. Refusals'
  <2> SUFFICES ASSUME NEW u \in Threads, NEW q \in Pages
      PROVE  /\ page'[q].flag = "never" /\ page'[q].thread = u =>
                  (pc'[u] = "flag" /\ q \in todo'[u]) \/ job[u] = "abandon"
             /\ job[u] = "abandon" /\ pc'[u] # "never" /\ page'[q].heap = heap[u] =>
                  page'[q].flag = "never"
    BY <1>1 DEF Refusals
  <2>1. /\ page[q].flag = "never" /\ page[q].thread = u =>
             (pc[u] = "flag" /\ q \in todo[u]) \/ job[u] = "abandon"
        /\ job[u] = "abandon" /\ pc[u] # "never" /\ page[q].heap = heap[u] =>
             page[q].flag = "never"
    BY Parts DEF Refusals
  <2>2. CASE q = p
    BY <1>1, <1>7, <1>10, <2>2
  <2>3. CASE q # p
    BY <1>1, <1>10, <2>1, <2>3
  <2>4. QED
    BY <2>2, <2>3
<1>19. \A u \in Threads : pc[u] \in {"read", "push", "reset"} =>
         u # t /\ page'[PageOf[blk[u]]] = page[PageOf[blk[u]]]
  BY <1>1, <1>3, <1>10, WriterFacts
<1>20. OneWriter'
  BY <1>1, <1>19, Parts DEF OneWriter
<1>21. BlockInv'
  BY <1>1, <1>5, <1>8, <1>10, <1>11, BlocksStill
<1>22. \A h \in Heaps : \A c \in delayed[h] : Routed(h, c) /\ page'[PageOf[c]] = page[PageOf[c]]
  <2> SUFFICES ASSUME NEW h \in Heaps, NEW c \in delayed[h]
      PROVE  Routed(h, c) /\ page'[PageOf[c]] = page[PageOf[c]]
    OBVIOUS
  <2>1. Routed(h, c) /\ PageOf[c] \in Pages
    BY PageAreas, Parts DEF DelayedRoute, Types
  <2>2. PageOf[c] # p
    BY <1>3, <1>5, <2>1, Assumption DEF Routed, Moved, Doomed
  <2>3. QED
    BY <1>10, <2>1, <2>2
<1>23. DelayedRoute'
  BY <1>1, <1>22 DEF DelayedRoute, Routed, Moved, Doomed
<1>24. HandRoute'
  <2>1. ASSUME NEW u \in Threads, NEW c \in hand[u]
        PROVE  AtHome(u, c)'
    <3>1. AtHome(u, c) /\ PageOf[c] \in Pages
      BY PageAreas, Parts DEF HandRoute, Types
    <3>2. job[u] # "none"
      BY Parts DEF Control, JobFits
    <3>3. heap[u] \in Heaps
      BY <3>2, OwnPages
    <3>4. PageOf[c] # p
      BY <1>3, <3>1, <3>3, Assumption DEF AtHome, Moved
    <3>5. page'[PageOf[c]] = page[PageOf[c]]
      BY <1>10, <3>1, <3>4
    <3>6. QED
      BY <1>1, <3>1, <3>5 DEF AtHome, Moved
  <2>2. ASSUME NEW u \in Threads, pc'[u] = "settle"
        PROVE  page'[PageOf[blk[u]]].thread = u
    <3>1. pc[u] = "settle"
      BY <1>1, <2>2
    <3>2. page[PageOf[blk[u]]].thread = u /\ PageOf[blk[u]] \in Pages
      BY <3>1, PageAreas, Parts DEF HandRoute, Control
    <3>3. PageOf[blk[u]] # p
      BY <1>3, <3>2, Assumption
    <3>4. QED
      BY <1>10, <3>2, <3>3
  <2>3. QED
    BY <1>1, <2>1, <2>2 DEF HandRoute
<1>25. PushRoute'
  <2>1. ASSUME NEW u \in Threads, pc'[u] = "push"
        PROVE  Expected(u)'
    <3>1. pc[u] = "push"
      BY <1>1, <2>1
    <3>2. Expected(u) /\ page'[PageOf[blk[u]]] = page[PageOf[blk[u]]]
      BY <1>19, <3>1, Parts DEF PushRoute
    <3>3. \A w \in Threads : pc[w] = "aflag" => pc'[w] = "aflag" /\ todo'[w] = todo[w]
      BY <1>1
    <3>4. QED
      BY <1>1, <3>2, <3>3 DEF Expected
  <2>2. QED
    BY <2>1 DEF PushRoute
<1>26. NoneLeft'
  <2>1. \A u \in Threads : job[u] \in {"abandon", "drop"} => pc'[u] = pc[u]
    BY <1>1
  <2>2. QED
    BY <1>1, <2>1, Parts DEF NoneLeft
<1>27. DestroyInv'
  BY <1>4 DEF DestroyInv
<1>28. SomeoneKnows'
  <2>1. \A q \in Pages : Pending(q) => Pending(q)'
    BY <1>1, <1>11, PendingStill
  <2>2. \A q \in Pages :
           /\ page'[q].flag = page[q].flag /\ page'[q].tfree = page[q].tfree
           /\ ~ (pc[t] = "settle" /\ PageOf[blk[t]] = q)
           /\ ~ (pc[t] = "collect" /\ q \in todo[t])
    BY <1>1, <1>3, <1>7, <1>10
  <2>3. QED
    BY <1>11, <2>1, <2>2, KnowsStill
<1>29. QED
  BY <1>12, <1>13, <1>14, <1>15, <1>17, <1>18, <1>20, <1>21, <1>23, <1>24, <1>25, <1>26,
     <1>27, <1>28 DEF IInv, PageInv, RouteInv

\* A page of a heap being deleted goes to the first heap of the thread.
LEMMA AbsorbKeeps ==
  ASSUME NEW t \in Threads, NEW p \in Pages, IInv, Absorb(t, p)
  PROVE  IInv'
<1>1. PICK g \in Backing :
        /\ OwnerOf[g] = t
        /\ page' = [page EXCEPT ![p].heap = g]
        /\ origin' = [b \in Blocks |-> IF PageOf[b] = p /\ origin[b] = heap[t]
                                      THEN g ELSE origin[b]]
  BY DEF Absorb
<1>2. /\ pc[t] = "absorb" /\ pc'[t] = "aflag" /\ todo'[t] = {p} /\ page[p].heap = heap[t]
      /\ job[t] = "delete" /\ hand[t] = {}
      /\ \A u \in Threads \ {t} : pc'[u] = pc[u] /\ todo'[u] = todo[u]
      /\ UNCHANGED <<delayed, alive, live, job, heap, blk, hand, again>>
  BY Parts DEF Absorb, PagesOf, Goto, Types, Control, JobFits
<1>3. /\ heap[t] \in Heaps /\ heap[t] \notin Backing /\ OwnerOf[heap[t]] = t
      /\ page[p].thread = t /\ page[p].state \in {"queue", "full", "reclaim"}
  BY <1>2, OwnPages, Parts DEF Control
<1>4. g \in alive /\ g \in Heaps
  BY <1>1, <1>2, Assumption, Parts DEF Control
<1>5. /\ page[p] # NoPage /\ Sound(page[p], p) /\ page[p].cap # {} /\ page[p] \in Page
  BY <1>3, NoPageFields, PageFacts, Parts DEF Headers
<1>6. PICK r : r = [page[p] EXCEPT !.heap = g]
  OBVIOUS
<1>7. /\ r.state = page[p].state /\ r.heap = g /\ r.thread = t /\ r.flag = page[p].flag
      /\ r.tfree = page[p].tfree /\ r.cap = page[p].cap /\ r.free = page[p].free
      /\ r.local = page[p].local /\ r.used = page[p].used /\ r \in Page
  BY <1>3, <1>4, <1>5, <1>6 DEF Page
<1>8. Sound(r, p) /\ Out(r) = Out(page[p])
  BY <1>5, <1>7 DEF Sound, Out
<1>9. page' = [page EXCEPT ![p] = r]
  BY <1>1, <1>5, <1>6, Parts DEF Headers
<1>10. /\ page' \in [Pages -> Page]
       /\ \A q \in Pages : page'[q] = IF q = p THEN r ELSE page[q]
  BY <1>7, <1>9, Parts DEF Headers
<1>11. Others(t) /\ GivesUp(t) /\ SameLoad(t)
  BY <1>2 DEF Others, GivesUp, SameLoad
<1>12. Types'
  <2>1. origin' \in [Blocks -> Heaps \cup {NoHeap}]
    BY <1>1, <1>4, Parts DEF Types
  <2>2. QED
    BY <2>1, Parts DEF Absorb, Types, Goto, Locations
<1>13. Control'
  <2>1. JobFits("aflag", job[t])
    BY <1>2 DEF JobFits
  <2>2. QED
    BY <1>2, <2>1, Parts DEF Control
<1>14. Headers' /\ FullInUse'
  BY <1>3, <1>5, <1>7, <1>8, <1>10, Parts DEF Headers, FullInUse
<1>15. Belongs'
  BY <1>1, <1>2, <1>3, <1>4, <1>7, <1>10, Parts DEF Belongs
<1>16. \A u \in Threads \ {t} : job[u] # "none" =>
         heap[u] # heap[t] /\ heap[u] # g /\ heap[u] \in Heaps
  BY <1>1, <1>3, OwnPages
<1>17. AtHand'
  <2>1. \A q \in Pages :
          \/ page'[q].heap = page[q].heap /\ page'[q].state = page[q].state
          \/ /\ page[q].thread \in {t, NoThread}
             /\ page'[q].heap \in Heaps /\ OwnerOf[page'[q].heap] = t
    BY <1>1, <1>3, <1>4, <1>7, <1>10
  <2>2. \A u \in Threads \ {t} : AtHandOf(u)'
    BY <1>11, <2>1, OthersAtHand
  <2>3. AtHandOf(t)'
    BY <1>1, <1>2, <1>7, <1>10 DEF AtHandOf
  <2>4. QED
    BY <2>2, <2>3 DEF AtHand
<1>18. Refusals'
  <2> SUFFICES ASSUME NEW u \in Threads, NEW q \in Pages
      PROVE  /\ page'[q].flag = "never" /\ page'[q].thread = u =>
                  (pc'[u] = "flag" /\ q \in todo'[u]) \/ job[u] = "abandon"
             /\ job[u] = "abandon" /\ pc'[u] # "never" /\ page'[q].heap = heap[u] =>
                  page'[q].flag = "never"
    BY <1>2 DEF Refusals
  <2>1. /\ page[q].flag = "never" /\ page[q].thread = u =>
             (pc[u] = "flag" /\ q \in todo[u]) \/ job[u] = "abandon"
        /\ job[u] = "abandon" /\ pc[u] # "never" /\ page[q].heap = heap[u] =>
             page[q].flag = "never"
    BY Parts DEF Refusals
  <2>2. CASE q = p
    BY <1>2, <1>3, <1>7, <1>10, <1>16, <2>1, <2>2
  <2>3. CASE q # p
    BY <1>2, <1>10, <2>1, <2>3
  <2>4. QED
    BY <2>2, <2>3
<1>19. OneWriter'
  <2>1. \A u \in Threads : pc[u] \in {"read", "push", "reset"} =>
          page'[PageOf[blk[u]]].flag = page[PageOf[blk[u]]].flag
    BY <1>7, <1>10, WriterFacts
  <2>2. \A u \in Threads : pc'[u] \in {"read", "push", "reset"} => pc[u] = pc'[u]
    BY <1>2
  <2>3. QED
    BY <1>2, <2>1, <2>2, Parts DEF OneWriter
<1>20. BlockInv'
  BY <1>2, <1>5, <1>8, <1>10, <1>11, BlocksStill
<1>21. DelayedRoute'
  <2> SUFFICES ASSUME NEW h \in Heaps, NEW c \in delayed[h]
      PROVE  Routed(h, c)'
    BY <1>2 DEF DelayedRoute
  <2>1. Routed(h, c) /\ PageOf[c] \in Pages
    BY PageAreas, Parts DEF DelayedRoute, Types
  <2>2. CASE PageOf[c] # p
    <3>1. page'[PageOf[c]] = page[PageOf[c]]
      BY <1>10, <2>1, <2>2
    <3>2. QED
      BY <1>2, <2>1, <3>1 DEF Routed, Moved, Doomed
  <2>3. CASE PageOf[c] = p
    <3>1. h = heap[t]
      BY <1>2, <1>3, <1>5, <2>1, <2>3 DEF Routed, Moved, Doomed
    <3>2. QED
      BY <1>1, <1>2, <1>3, <1>7, <1>10, <2>3, <3>1 DEF Routed, Moved
  <2>4. QED
    BY <2>2, <2>3
<1>22. HandRoute'
  <2>1. ASSUME NEW u \in Threads, NEW c \in hand[u]
        PROVE  AtHome(u, c)'
    <3>1. AtHome(u, c) /\ PageOf[c] \in Pages /\ u # t
      BY <1>2, PageAreas, Parts DEF HandRoute, Types
    <3>2. job[u] # "none"
      BY Parts DEF Control, JobFits
    <3>3. heap[u] # heap[t] /\ OwnerOf[heap[u]] = u
      BY <1>16, <3>1, <3>2, OwnPages
    <3>4. PageOf[c] # p
      BY <1>2, <1>3, <3>1, <3>3 DEF AtHome, Moved
    <3>5. page'[PageOf[c]] = page[PageOf[c]]
      BY <1>10, <3>1, <3>4
    <3>6. QED
      BY <1>2, <3>1, <3>5 DEF AtHome, Moved
  <2>2. ASSUME NEW u \in Threads, pc'[u] = "settle"
        PROVE  page'[PageOf[blk[u]]].thread = u
    <3>1. pc[u] = "settle"
      BY <1>2, <2>2
    <3>2. page[PageOf[blk[u]]].thread = u /\ PageOf[blk[u]] \in Pages
      BY <3>1, PageAreas, Parts DEF HandRoute, Control
    <3>3. QED
      BY <1>3, <1>7, <1>10, <3>2
  <2>3. QED
    BY <1>2, <2>1, <2>2 DEF HandRoute
<1>23. PushRoute'
  <2>1. ASSUME NEW u \in Threads, pc[u] = "push"
        PROVE  Expected(u)'
    <3>1. Expected(u) /\ PageOf[blk[u]] \in Pages
      BY <2>1, WriterFacts, Parts DEF PushRoute
    <3>2. \A w \in Threads : pc[w] = "aflag" => pc'[w] = "aflag" /\ todo'[w] = todo[w]
      BY <1>2
    <3>3. CASE PageOf[blk[u]] # p
      BY <1>2, <1>10, <3>1, <3>2, <3>3 DEF Expected
    <3>4. CASE PageOf[blk[u]] = p
      <4>1. CASE heap[u] = heap[t]
        BY <1>2, <3>1, <3>4, <4>1 DEF Expected
      <4>2. CASE heap[u] # heap[t]
        BY <1>2, <3>1, <3>2, <3>4, <4>2 DEF Expected
      <4>3. QED
        BY <4>1, <4>2
    <3>5. QED
      BY <3>3, <3>4
  <2>2. \A u \in Threads : pc'[u] = "push" => pc[u] = "push"
    BY <1>2
  <2>3. QED
    BY <2>1, <2>2 DEF PushRoute
<1>24. NoneLeft'
  <2>1. \A u \in Threads : job[u] \in {"abandon", "drop"} => pc'[u] = pc[u]
    BY <1>2
  <2>2. QED
    BY <1>2, <2>1, Parts DEF NoneLeft
<1>25. DestroyInv'
  <2> SUFFICES ASSUME Destroys
      PROVE  /\ \A c \in live : origin'[c] = page'[PageOf[c]].heap
             /\ \A q \in Pages : page'[q].state # "abandoned"
             /\ \A u \in Threads : job[u] = "destroy" =>
                  /\ \A c \in live : page'[PageOf[c]].heap # heap[u]
                  /\ \A w \in Threads : pc'[w] = "mt" => page'[PageOf[blk[w]]].heap # heap[u]
    BY <1>2 DEF DestroyInv
  <2>1. /\ \A c \in live : origin[c] = page[PageOf[c]].heap
        /\ \A q \in Pages : page[q].state # "abandoned"
        /\ \A u \in Threads : job[u] = "destroy" =>
             /\ \A c \in live : page[PageOf[c]].heap # heap[u]
             /\ \A w \in Threads : pc[w] = "mt" => page[PageOf[blk[w]]].heap # heap[u]
    BY Parts DEF DestroyInv
  <2>2. \A q \in Pages : page'[q].heap = IF q = p THEN g ELSE page[q].heap
    BY <1>7, <1>10
  <2>3. \A c \in live : c \in Blocks /\ PageOf[c] \in Pages
    BY PageAreas, Parts DEF Types
  <2>4. \A c \in live : origin'[c] = page'[PageOf[c]].heap
    BY <1>1, <1>2, <2>1, <2>2, <2>3
  <2>5. \A u \in Threads : job[u] = "destroy" => heap[u] # g
    BY <1>2, <1>16
  <2>6. \A w \in Threads : pc'[w] = "mt" => pc[w] = "mt" /\ PageOf[blk[w]] \in Pages
    BY <1>2, PageAreas, Parts DEF Control
  <2>7. \A q \in Pages : page'[q].state # "abandoned"
    BY <1>7, <1>10, <2>1
  <2>8. QED
    BY <2>1, <2>2, <2>3, <2>4, <2>5, <2>6, <2>7
<1>26. SomeoneKnows'
  <2>1. \A q \in Pages : Pending(q) => Pending(q)'
    BY <1>2, <1>11, PendingStill
  <2>2. \A q \in Pages :
           /\ page'[q].flag = page[q].flag /\ page'[q].tfree = page[q].tfree
           /\ ~ (pc[t] = "settle" /\ PageOf[blk[t]] = q)
           /\ ~ (pc[t] = "collect" /\ q \in todo[t])
    BY <1>2, <1>7, <1>10
  <2>3. QED
    BY <1>11, <2>1, <2>2, KnowsStill
<1>27. QED
  BY <1>12, <1>13, <1>14, <1>15, <1>17, <1>18, <1>19, <1>20, <1>21, <1>22, <1>23, <1>24,
     <1>25, <1>26 DEF IInv, PageInv, RouteInv

-----------------------------------------------------------------------------
(* mi_heap_destroy.                                                        *)

\* The program gives up its blocks of the heap.
LEMMA HeapDestroyKeeps ==
  ASSUME NEW t \in Threads, NEW h \in Heaps, IInv, HeapDestroy(t, h)
  PROVE  IInv'
<1>1. /\ pc[t] = "idle" /\ pc'[t] = "destroy" /\ job[t] = "none" /\ job'[t] = "destroy"
      /\ heap'[t] = h /\ h \in alive /\ OwnerOf[h] = t /\ h \notin Backing /\ hand[t] = {}
      /\ \A u \in Threads : pc[u] = "mt" => page[PageOf[blk[u]]].heap # h
      /\ live' = {b \in live : origin[b] # h} /\ Destroys
      /\ \A u \in Threads \ {t} : pc'[u] = pc[u] /\ job'[u] = job[u] /\ heap'[u] = heap[u]
      /\ UNCHANGED <<page, delayed, alive, origin, blk, hand, again, todo>>
  BY Parts DEF HeapDestroy, Mine, Call, Types, Control, JobFits
<1>2. Others(t) /\ GivesUp(t) /\ SameLoad(t)
  BY <1>1 DEF Others, GivesUp, SameLoad
<1>3. Types'
  <2>1. live' \in SUBSET Blocks
    BY <1>1, Parts DEF Types
  <2>2. QED
    BY <2>1, Parts DEF HeapDestroy, Call, Types, Locations, Jobs
<1>4. Control'
  <2>1. JobFits("destroy", "destroy")
    BY DEF JobFits
  <2>2. QED
    BY <1>1, <2>1, Parts DEF Control
<1>5. Headers' /\ FullInUse' /\ HeapsKept /\ AliveKept /\ TagsKept
  BY <1>1, NoPageFields, Parts DEF Headers, FullInUse, HeapsKept, AliveKept, TagsKept
<1>6. Belongs'
  BY <1>1, Parts DEF Belongs
<1>7. AtHand'
  <2>1. AtHandOf(t)'
    BY <1>1 DEF AtHandOf
  <2>2. ASSUME NEW u \in Threads \ {t}
        PROVE  AtHandOf(u)'
    <3>1. AtHandOf(u)
      BY Parts DEF AtHand
    <3>2. QED
      BY <1>1, <3>1 DEF AtHandOf
  <2>3. QED
    BY <2>1, <2>2 DEF AtHand
<1>8. \A u \in Threads : \A c \in Blocks : Carries(u, c)' <=> Carries(u, c)
  BY <1>2, CarriesStill
<1>9. BlockInv'
  <2>1. live' \subseteq live
    BY <1>1
  <2>2. LiveOut' /\ HandOut'
    BY <1>1, <2>1, Parts DEF LiveOut, HandOut
  <2>3. DelayedOut'
    <3>1. \A g \in Heaps, q \in Pages : Doomed(g, q) => Doomed(g, q)'
      BY <1>1, Assumption DEF Doomed
    <3>2. QED
      BY <1>1, <3>1, PageAreas, Parts DEF DelayedOut, Types
  <2>4. CarriedOut'
    BY <1>1, <1>8, Parts DEF CarriedOut
  <2>5. SentOut'
    <3>1. \A u \in Threads : pc'[u] = "reset" => pc[u] = "reset"
      BY <1>1
    <3>2. QED
      BY <1>1, <1>8, <2>1, <3>1, Parts DEF SentOut, Unsettled
  <2>6. NoneLost'
    BY <1>1 DEF NoneLost
  <2>7. OnePlace'
    <3>1. live \subseteq Blocks /\ \A g \in Heaps : delayed[g] \subseteq Blocks
      BY Parts DEF Types
    <3>2. \A u \in Threads : hand[u] \subseteq Blocks
      BY Parts DEF Types
    <3>3. QED
      BY <1>1, <1>8, <2>1, <3>1, <3>2, Parts DEF OnePlace
  <2>8. QED
    BY <2>2, <2>3, <2>4, <2>5, <2>6, <2>7 DEF BlockInv
<1>10. Refusals' /\ OneWriter'
  BY <1>1, <1>2, <1>5, <1>9, TagsStill
<1>11. DelayedRoute' /\ HandRoute' /\ PushRoute'
  BY <1>1, <1>2, <1>4, <1>5, <1>9, RoutesKept
<1>12. NoneLeft'
  <2>1. \A u \in Threads : job'[u] \in {"abandon", "drop"} =>
          job[u] = job'[u] /\ pc'[u] = pc[u] /\ heap'[u] = heap[u]
    BY <1>1
  <2>2. QED
    BY <1>1, <2>1, Parts DEF NoneLeft
<1>13. DestroyInv'
  <2>1. /\ \A b \in live : origin[b] = page[PageOf[b]].heap
        /\ \A q \in Pages : page[q].state # "abandoned"
        /\ \A u \in Threads : job[u] = "destroy" =>
             /\ \A b \in live : page[PageOf[b]].heap # heap[u]
             /\ \A w \in Threads : pc[w] = "mt" => page[PageOf[blk[w]]].heap # heap[u]
    BY <1>1, Parts DEF DestroyInv
  <2>2. \A w \in Threads : pc'[w] = "mt" => pc[w] = "mt"
    BY <1>1
  <2>3. \A b \in live' : b \in live /\ page[PageOf[b]].heap # h
    BY <1>1, <2>1
  <2>4. \A u \in Threads : job'[u] = "destroy" =>
          /\ \A b \in live' : page[PageOf[b]].heap # heap'[u]
          /\ \A w \in Threads : pc'[w] = "mt" => page[PageOf[blk[w]]].heap # heap'[u]
    BY <1>1, <2>1, <2>2, <2>3
  <2>5. QED
    BY <1>1, <2>1, <2>3, <2>4 DEF DestroyInv
<1>14. SomeoneKnows'
  <2>1. \A q \in Pages : Pending(q) => Pending(q)'
    BY <1>1, <1>2, PendingStill
  <2>2. QED
    BY <1>1, <1>2, <2>1, KnowsStill
<1>15. QED
  BY <1>3, <1>4, <1>5, <1>6, <1>7, <1>9, <1>10, <1>11, <1>12, <1>13, <1>14
     DEF IInv, PageInv, RouteInv

\* A page of the heap is given back with what is in it.
LEMMA DestroyPageKeeps ==
  ASSUME NEW t \in Threads, NEW p \in Pages, IInv, DestroyPage(t, p)
  PROVE  IInv'
<1>1. /\ pc[t] = "destroy" /\ job[t] = "destroy" /\ page[p].heap = heap[t]
      /\ page[p].flag # "freeing" /\ page' = [page EXCEPT ![p] = NoPage]
      /\ heap[t] \notin Backing /\ hand[t] = {} /\ Destroys
      /\ UNCHANGED <<delayed, alive, live, origin, pc, job, heap, blk, hand, again, todo>>
  BY Parts DEF DestroyPage, PagesOf, locals, Control, JobFits
<1>2. /\ page[p] # NoPage /\ page[p].thread = t /\ heap[t] \in Heaps /\ OwnerOf[heap[t]] = t
  BY <1>1, OwnPages, NoPageFields
<1>3. /\ TagsKept /\ Headers' /\ FullInUse'
      /\ page'[p] = NoPage /\ \A q \in Pages \ {p} : page'[q] = page[q]
  BY <1>1, <1>2, NoPageSound, NoPageFields, OnePageTags
<1>4. Others(t) /\ GivesUp(t)
  BY <1>1 DEF Others, GivesUp
<1>5. Types' /\ Control'
  BY <1>1, Parts DEF Types, Control
<1>6. \A c \in Blocks : PageOf[c] = p =>
        /\ c \notin live
        /\ \A h \in Heaps : c \in delayed[h] => h = heap[t]
        /\ \A u \in Threads : c \notin hand[u] /\ ~ Carries(u, c)
        /\ \A u \in Threads : ~ (pc[u] = "reset" /\ blk[u] = c)
  <2> SUFFICES ASSUME NEW c \in Blocks, PageOf[c] = p
      PROVE  /\ c \notin live
             /\ \A h \in Heaps : c \in delayed[h] => h = heap[t]
             /\ \A u \in Threads : c \notin hand[u] /\ ~ Carries(u, c)
             /\ \A u \in Threads : ~ (pc[u] = "reset" /\ blk[u] = c)
    OBVIOUS
  <2>1. c \notin live
    BY <1>1, Parts DEF DestroyInv
  <2>2. ASSUME NEW h \in Heaps, c \in delayed[h]
        PROVE  h = heap[t]
    BY <1>1, <1>2, <2>2, Parts DEF DelayedRoute, Routed, Moved, Doomed
  <2>3. ASSUME NEW u \in Threads, c \in hand[u]
        PROVE  FALSE
    <3>1. AtHome(u, c) /\ job[u] # "none" /\ u # t
      BY <1>1, <2>3, Parts DEF HandRoute, Control, JobFits
    <3>2. heap[u] # heap[t]
      BY <1>2, <3>1, OwnPages
    <3>3. QED
      BY <1>1, <3>1, <3>2 DEF AtHome, Moved
  <2>4. \A u \in Threads : pc[u] \in {"read", "push", "reset"} => blk[u] # c
    BY <1>1, WriterFacts
  <2>5. \A u \in Threads : pc[u] = "mt" => blk[u] # c
    BY <1>1, Parts DEF DestroyInv
  <2>6. \A u \in Threads : pc[u] = "settle" => blk[u] # c
    BY <1>1, <1>2, Parts DEF HandRoute
  <2>7. QED
    BY <2>1, <2>2, <2>3, <2>4, <2>5, <2>6 DEF Carries
<1>7. BlockInv'
  <2>1. \A u \in Threads : \A c \in Blocks : Carries(u, c)' <=> Carries(u, c)
    BY <1>1 DEF Carries
  <2>2. \A c \in Blocks : PageOf[c] # p => page'[PageOf[c]] = page[PageOf[c]]
    BY <1>3, PageAreas
  <2>3. /\ live \subseteq Blocks
        /\ \A h \in Heaps : delayed[h] \subseteq Blocks
        /\ \A u \in Threads : hand[u] \subseteq Blocks
    BY Parts DEF Types
  <2>4. LiveOut'
    BY <1>1, <1>6, <2>2, <2>3, Parts DEF LiveOut
  <2>5. DelayedOut'
    <3> SUFFICES ASSUME NEW h \in Heaps, NEW c \in delayed[h]
        PROVE  c \in Out(page'[PageOf[c]]) \/ Doomed(h, PageOf[c])'
      BY <1>1 DEF DelayedOut
    <3>1. c \in Blocks /\ PageOf[c] \in Pages /\ (c \in Out(page[PageOf[c]]) \/ Doomed(h, PageOf[c]))
      BY <2>3, PageAreas, Parts DEF DelayedOut
    <3>2. CASE PageOf[c] = p
      BY <1>1, <1>2, <1>3, <1>6, <3>1, <3>2 DEF Doomed
    <3>3. CASE PageOf[c] # p
      BY <1>1, <2>2, <3>1, <3>3 DEF Doomed
    <3>4. QED
      BY <3>2, <3>3
  <2>6. HandOut'
    BY <1>1, <1>6, <2>2, <2>3, Parts DEF HandOut
  <2>7. CarriedOut'
    BY <1>6, <2>1, <2>2, Parts DEF CarriedOut
  <2>8. SentOut'
    <3> SUFFICES ASSUME NEW u \in Threads, NEW c \in Blocks, pc[u] = "reset", blk[u] = c
        PROVE  Unsettled(c)'
      BY <1>1 DEF SentOut
    <3>1. Unsettled(c) /\ PageOf[c] # p
      BY <1>6, Parts DEF SentOut
    <3>2. QED
      BY <1>1, <2>1, <2>2, <3>1 DEF Unsettled
  <2>9. NoneLost'
    BY <1>1 DEF NoneLost
  <2>10. OnePlace'
    BY <1>1, <2>1, <2>3, Parts DEF OnePlace
  <2>11. QED
    BY <2>4, <2>5, <2>6, <2>7, <2>8, <2>9, <2>10 DEF BlockInv
<1>8. DestroyInv'
  BY <1>1, <1>3, <1>4, <1>5, <1>7, DestroyStill
<1>9. AtHandOf(t)'
  BY <1>1 DEF AtHandOf
<1>10. \A q \in Pages : page'[q] # page[q] =>
         page[q].thread \in {t, NoThread} /\ page'[q].tfree \in {{}, page[q].tfree}
  BY <1>2, <1>3, NoPageFields
<1>11. QED
  BY <1>1, <1>3, <1>4, <1>5, <1>7, <1>8, <1>9, <1>10, OwnPagesStep

\* The heap is given back.
LEMMA DestroyedKeeps ==
  ASSUME NEW t \in Threads, IInv, Destroyed(t)
  PROVE  IInv'
<1>1. PICK k \in Heaps : k = heap[t]
  BY OwnPages, Parts DEF Destroyed, Control, JobFits
<1>2. /\ pc[t] = "destroy" /\ pc'[t] = "idle" /\ job[t] = "destroy" /\ job'[t] = "none"
      /\ hand[t] = {} /\ alive' = alive \ {k} /\ Destroys /\ k \notin Backing
      /\ \A p \in Pages : page[p].heap # k
      /\ \A u \in Threads \ {t} : pc'[u] = pc[u] /\ job'[u] = job[u] /\ heap'[u] = heap[u]
      /\ UNCHANGED <<page, live, origin, blk, hand, again, todo>>
  BY <1>1, Parts DEF Destroyed, PagesOf, Return, Types, Control, JobFits
<1>3. \A h \in Heaps : delayed'[h] = IF h = k THEN {} ELSE delayed[h]
  BY <1>1, Parts DEF Destroyed, Types
<1>4. Others(t) /\ GivesUp(t) /\ SameLoad(t)
  BY <1>1, <1>2, <1>3 DEF Others, GivesUp, SameLoad
<1>5. Types'
  BY Parts DEF Destroyed, Types, Return, Locations, Jobs
<1>6. \A u \in Threads \ {t} : job[u] # "none" => heap[u] # k
  BY <1>1, <1>2, OwnPages
<1>7. Control'
  <2>1. JobFits("idle", "none")
    BY DEF JobFits
  <2>2. QED
    BY <1>2, <1>6, <2>1, Parts DEF Control
<1>8. Headers' /\ FullInUse' /\ HeapsKept /\ AliveKept /\ TagsKept
  BY <1>2, NoPageFields, Parts DEF Headers, FullInUse, HeapsKept, AliveKept, TagsKept
<1>9. Belongs'
  BY <1>2, Parts DEF Belongs
<1>10. AtHand'
  <2>1. AtHandOf(t)'
    BY <1>2 DEF AtHandOf
  <2>2. ASSUME NEW u \in Threads \ {t}
        PROVE  AtHandOf(u)'
    <3>1. AtHandOf(u)
      BY Parts DEF AtHand
    <3>2. QED
      BY <1>2, <3>1 DEF AtHandOf
  <2>3. QED
    BY <2>1, <2>2 DEF AtHand
<1>11. \A u \in Threads : \A c \in Blocks : Carries(u, c)' <=> Carries(u, c)
  BY <1>4, CarriesStill
<1>12. BlockInv'
  <2>1. LiveOut' /\ HandOut'
    BY <1>2, Parts DEF LiveOut, HandOut
  <2>2. DelayedOut'
    <3> SUFFICES ASSUME NEW h \in Heaps, NEW c \in delayed'[h]
        PROVE  c \in Out(page'[PageOf[c]]) \/ Doomed(h, PageOf[c])'
      BY DEF DelayedOut
    <3>1. c \in delayed[h] /\ h # k /\ OwnerOf[h] \in Threads
      BY <1>3, Assumption
    <3>2. c \in Out(page[PageOf[c]]) \/ Doomed(h, PageOf[c])
      BY <3>1, Parts DEF DelayedOut
    <3>3. Doomed(h, PageOf[c]) => Doomed(h, PageOf[c])'
      BY <1>1, <1>2, <3>1 DEF Doomed
    <3>4. QED
      BY <1>2, <3>2, <3>3
  <2>3. CarriedOut'
    BY <1>2, <1>11, Parts DEF CarriedOut
  <2>4. SentOut'
    <3>1. \A u \in Threads : pc'[u] = "reset" => pc[u] = "reset"
      BY <1>2
    <3>2. QED
      BY <1>2, <1>11, <3>1, Parts DEF SentOut, Unsettled
  <2>5. NoneLost'
    BY <1>2 DEF NoneLost
  <2>6. OnePlace'
    <3>1. live \subseteq Blocks /\ \A h \in Heaps : delayed[h] \subseteq Blocks
      BY Parts DEF Types
    <3>2. \A u \in Threads : hand[u] \subseteq Blocks
      BY Parts DEF Types
    <3>3. \A h \in Heaps : delayed'[h] \subseteq delayed[h]
      BY <1>3
    <3>4. QED
      BY <1>2, <1>11, <3>1, <3>2, <3>3, Parts DEF OnePlace
  <2>7. QED
    BY <2>1, <2>2, <2>3, <2>4, <2>5, <2>6 DEF BlockInv
<1>13. Refusals' /\ OneWriter'
  BY <1>2, <1>4, <1>8, <1>12, TagsStill
<1>14. DelayedRoute' /\ HandRoute' /\ PushRoute'
  <2>1. \A h \in Heaps : delayed'[h] \subseteq delayed[h]
    BY <1>3
  <2>2. QED
    BY <1>2, <1>4, <1>7, <1>8, <1>12, <2>1, RoutesKept
<1>15. NoneLeft'
  <2>1. \A u \in Threads : job'[u] \in {"abandon", "drop"} =>
          job[u] = job'[u] /\ pc'[u] = pc[u] /\ heap'[u] = heap[u] /\ heap[u] \in Heaps
    BY <1>2, OwnPages
  <2>2. QED
    BY <1>2, <1>3, <2>1, Parts DEF NoneLeft
<1>16. DestroyInv'
  BY <1>2, <1>4, <1>5, <1>8, <1>12, DestroyStill
<1>17. SomeoneKnows'
  <2>1. ASSUME NEW q \in Pages, page[q] # NoPage, Pending(q)
        PROVE  Pending(q)'
    <3>1. PICK c \in BlocksOf(q) :
            \/ \E h \in Heaps : c \in delayed[h]
            \/ \E u \in Threads : c \in hand[u] \/ (Carries(u, c) /\ pc[u] \in {"read", "push"})
      BY <2>1 DEF Pending
    <3>2. c \in Blocks /\ PageOf[c] = q
      BY DEF BlocksOf
    <3>3. c \notin delayed[k]
      <4>1. OwnerOf[k] = t
        BY <1>1, <1>2, OwnPages
      <4>2. QED
        BY <1>1, <1>2, <2>1, <3>2, <4>1, Parts DEF DelayedRoute, Routed, Moved, Doomed
    <3>4. \/ \E h \in Heaps : c \in delayed'[h]
          \/ \E u \in Threads : c \in hand'[u] \/ (Carries(u, c)' /\ pc'[u] \in {"read", "push"})
      BY <1>2, <1>3, <1>11, <3>1, <3>2, <3>3
    <3>5. QED
      BY <3>4 DEF Pending
  <2>2. ASSUME NEW q \in Pages
        PROVE  /\ page'[q].flag \in {"freeing", "no"} => Pending(q)'
               /\ page'[q].tfree # {} /\ page'[q].flag = "use" => Known(q)'
    <3>1. CASE page[q] = NoPage
      BY <1>2, <3>1, NoPageFields
    <3>2. CASE page[q] # NoPage
      <4>1. /\ page[q].flag \in {"freeing", "no"} => Pending(q)
            /\ page[q].tfree # {} /\ page[q].flag = "use" => Known(q)
        BY Parts DEF SomeoneKnows, Known
      <4>2. Known(q) => Known(q)'
        BY <1>2, <2>1, <3>2 DEF Known
      <4>3. QED
        BY <1>2, <2>1, <3>2, <4>1, <4>2
    <3>3. QED
      BY <3>1, <3>2
  <2>3. QED
    BY <2>2 DEF SomeoneKnows, Known
<1>18. QED
  BY <1>5, <1>7, <1>8, <1>9, <1>10, <1>12, <1>13, <1>14, <1>15, <1>16, <1>17
     DEF IInv, PageInv, RouteInv

-----------------------------------------------------------------------------
(* The invariant.                                                          *)

\* Initially.
LEMMA InitIInv == Init => IInv
<1> SUFFICES ASSUME Init PROVE IInv
  OBVIOUS
<1> USE DEF Init
<1>1. Types
  BY Assumption DEF Types, Locations, Jobs
<1>2. \A p \in Pages : page[p] = NoPage
  OBVIOUS
<1>3. Headers /\ FullInUse
  <2>1. \A p \in Pages : Sound(NoPage, p)
    BY NoPageSound
  <2>2. page \in [Pages -> Page]
    BY NoPageFields
  <2>3. FullInUse
    BY <1>2, NoPageFields DEF FullInUse
  <2>4. QED
    BY <1>2, <2>1, <2>2, <2>3, NoPageFields DEF Headers
<1>4. Control
  BY <1>1 DEF Control, JobFits
<1>5. \A p \in Pages : page[p].heap = NoHeap /\ page[p].thread = NoThread
                        /\ page[p].flag = "use" /\ page[p].state = "none"
                        /\ page[p].tfree = {}
  BY <1>2, NoPageFields
<1>6. Belongs /\ AtHand /\ Refusals /\ OneWriter
  BY <1>5 DEF Belongs, AtHand, AtHandOf, Refusals, OneWriter
<1>7. RouteInv
  BY DEF RouteInv, DelayedRoute, HandRoute, PushRoute, NoneLeft
<1>8. \A p \in Pages : Out(page[p]) = {}
  BY <1>2, NoPageFields DEF Out
<1>9. \A t \in Threads : \A b \in Blocks : ~ Carries(t, b)
  BY DEF Carries
<1>10. NoneLost
  BY <1>8, PageAreas DEF NoneLost
<1>11. LiveOut /\ DelayedOut /\ HandOut /\ CarriedOut /\ SentOut /\ OnePlace
  BY <1>9 DEF LiveOut, DelayedOut, HandOut, CarriedOut, SentOut, OnePlace
<1>12. DestroyInv
  BY <1>5 DEF DestroyInv
<1>13. SomeoneKnows
  BY <1>5 DEF SomeoneKnows
<1>14. QED
  BY <1>1, <1>3, <1>4, <1>6, <1>7, <1>10, <1>11, <1>12, <1>13
  DEF IInv, PageInv, BlockInv

\* Steps of the rest of the program.
LEMMA Stuttering == ASSUME IInv, UNCHANGED vars PROVE IInv'
<1> USE DEF vars, shared, locals
<1>1. Types' /\ Control'
  BY Parts DEF Types, Control
<1>2. Headers' /\ FullInUse' /\ Belongs' /\ Refusals' /\ OneWriter'
  BY Parts DEF Headers, FullInUse, Belongs, Refusals, OneWriter
<1>3. AtHand'
  BY Parts DEF AtHand, AtHandOf
<1>4. DelayedRoute' /\ HandRoute'
  BY Parts DEF DelayedRoute, HandRoute, Routed, AtHome, Moved, Doomed
<1>5. PushRoute' /\ NoneLeft'
  BY Parts DEF PushRoute, NoneLeft, Expected
<1>6. LiveOut' /\ DelayedOut' /\ HandOut'
  BY Parts DEF LiveOut, DelayedOut, HandOut, Doomed
<1>7. CarriedOut' /\ SentOut'
  BY Parts DEF CarriedOut, SentOut, Carries, Unsettled
<1>8. NoneLost' /\ OnePlace'
  BY Parts DEF NoneLost, OnePlace, Carries
<1>9. DestroyInv'
  BY Parts DEF DestroyInv
<1>10. SomeoneKnows'
  BY Parts DEF SomeoneKnows, Pending, Carries
<1>11. QED
  BY <1>1, <1>2, <1>3, <1>4, <1>5, <1>6, <1>7, <1>8, <1>9, <1>10
  DEF IInv, PageInv, RouteInv, BlockInv

\* Every step.
LEMMA NextIInv == ASSUME DestroysAlone, IInv, [Next]_vars PROVE IInv'
<1>1. ASSUME NEW t \in Threads, CallFree(t) PROVE IInv'
  <2>1. PICK b \in Blocks : Free(t, b)
    BY <1>1 DEF CallFree
  <2>2. QED
    BY <2>1, FreeOwnKeeps, FreeOtherKeeps
<1>2. ASSUME NEW t \in Threads, CallHeap(t) PROVE IInv'
  BY <1>2, MallocFastKeeps, MallocGenericKeeps, HeapCollectKeeps, ThreadDoneKeeps,
     ThreadInitKeeps, HeapNewKeeps, HeapDeleteKeeps, HeapDestroyKeeps DEF CallHeap
<1>3. ASSUME NEW t \in Threads, StepFree(t) PROVE IInv'
  BY <1>3, FreeMtKeeps, ReadHeapKeeps, PushDelayedKeeps, ResetFlagKeeps DEF StepFree
<1>4. ASSUME NEW t \in Threads, StepDrain(t) PROVE IInv'
  BY <1>4, TakeDelayedKeeps, SettleKeeps, DrainedKeeps, DrainBlockKeeps, DrainLaterKeeps
  DEF StepDrain
<1>5. ASSUME NEW t \in Threads, StepFind(t) PROVE IInv'
  BY <1>5, NotFoundKeeps, FindOtherKeeps, NoMemoryKeeps, FindInPageKeeps, ToFullKeeps,
     FreshKeeps DEF StepFind
<1>6. ASSUME NEW t \in Threads, StepReclaim(t) PROVE IInv'
  BY <1>6, NoneAbandonedKeeps, ReclaimKeeps, ReclaimFlagKeeps, ReclaimCollectKeeps
  DEF StepReclaim
<1>7. ASSUME NEW t \in Threads, StepHeap(t) PROVE IInv'
  BY <1>7, VisitedKeeps, AllNeverKeeps, AbsorbedKeeps, DestroyedKeeps, VisitPageStays,
     VisitPageAbandons, NeverDelayedKeeps, AbsorbKeeps, AbsorbFlagKeeps, DestroyPageKeeps
  DEF StepHeap
<1>8. ASSUME NEW t \in Threads, NEW p \in Pages, CheckAbandoned(t, p) PROVE IInv'
  BY <1>8, CheckAbandonedKeeps
<1>9. CASE UNCHANGED vars
  BY <1>9, Stuttering
<1>10. QED
  BY <1>1, <1>2, <1>3, <1>4, <1>5, <1>6, <1>7, <1>8, <1>9 DEF Next, Step

\* The inductive invariant is an invariant of the protocol.
THEOREM IInvariant == ASSUME DestroysAlone PROVE Spec => []IInv
<1>1. Init => IInv
  BY InitIInv
<1>2. IInv /\ [Next]_vars => IInv'
  BY NextIInv
<1>3. QED
  BY <1>1, <1>2, PTL DEF Spec

-----------------------------------------------------------------------------
(* What it says of the program.                                            *)

\* Type correctness.
THEOREM TypeCorrect == ASSUME DestroysAlone PROVE Spec => []TypeOK
<1>1. IInv => TypeOK
  BY Parts DEF TypeOK, Types, Headers
<1>2. QED
  BY <1>1, IInvariant, PTL

\* A free list of a page and a block the program holds, or a thread carries,
\* or a heap's list holds, have nothing in common.
LEMMA PlacesApart ==
  ASSUME IInv, ~ Destroys, NEW b \in Blocks, NEW x \in Places, NEW y \in Places,
         IsAt(b, x), IsAt(b, y)
  PROVE  x = y
<1> DEFINE q == page[PageOf[b]]
<1>1. PageOf[b] \in Pages /\ Sound(q, PageOf[b])
  BY Parts, PageAreas DEF Headers
<1>2. /\ q.free \cap q.local = {} /\ q.tfree \cap (q.free \cup q.local) = {}
      /\ Out(q) \cap (q.free \cup q.local \cup q.tfree) = {}
  BY <1>1 DEF Sound, Out
<1>3. \A h \in Heaps : ~ Doomed(h, PageOf[b])
  <2>1. SUFFICES ASSUME NEW h \in Heaps, job[OwnerOf[h]] = "destroy" PROVE FALSE
    BY DEF Doomed
  <2>2. OwnerOf[h] \in Threads
    BY Assumption
  <2>3. pc[OwnerOf[h]] = "destroy"
    BY <2>1, <2>2, Parts DEF Control, JobFits
  <2>4. QED
    BY <2>2, <2>3, Parts DEF Control
<1>4. /\ b \in live => b \in Out(q)
      /\ \A h \in Heaps : b \in delayed[h] => b \in Out(q)
      /\ \A t \in Threads : b \in hand[t] \/ Carries(t, b) => b \in Out(q)
  BY <1>3, Parts DEF LiveOut, DelayedOut, HandOut, CarriedOut
<1>5. /\ b \in live => \A h \in Heaps : b \notin delayed[h]
      /\ b \in live => \A t \in Threads : b \notin hand[t] /\ ~ Carries(t, b)
      /\ \A h, g \in Heaps : b \in delayed[h] /\ b \in delayed[g] => h = g
      /\ \A h \in Heaps : b \in delayed[h] =>
           \A t \in Threads : b \notin hand[t] /\ ~ Carries(t, b)
      /\ \A t, u \in Threads : b \in hand[t] => ~ Carries(u, b) /\ (b \in hand[u] => t = u)
      /\ \A t, u \in Threads : Carries(t, b) /\ Carries(u, b) => t = u
  BY Parts DEF OnePlace
<1>6. ASSUME NEW z \in Places
      PROVE  /\ z = <<z[1], z[2]>>
             /\ \/ z[1] \in {"live", "free", "local", "tfree"} /\ z[2] = NoHeap
                \/ z[1] = "delayed" /\ z[2] \in Heaps
                \/ z[1] \in {"hand", "carried"} /\ z[2] \in Threads
  BY DEF Places
<1>7. x[1] = y[1] /\ x[2] = y[2]
  <2>1. CASE x[1] \in {"free", "local", "tfree"}
    BY <2>1, <1>2, <1>4, <1>6 DEF IsAt
  <2>2. CASE x[1] = "live"
    BY <2>2, <1>2, <1>4, <1>5, <1>6 DEF IsAt
  <2>3. CASE x[1] = "delayed"
    BY <2>3, <1>2, <1>4, <1>5, <1>6 DEF IsAt
  <2>4. CASE x[1] \in {"hand", "carried"}
    BY <2>4, <1>2, <1>4, <1>5, <1>6 DEF IsAt
  <2>5. QED
    BY <1>6, <2>1, <2>2, <2>3, <2>4
<1>8. QED
  BY <1>6, <1>7

\* What is in a place is a block of a page, and each block of a page is in one.
LEMMA PlacesCover ==
  ASSUME IInv, ~ Destroys, NEW b \in Blocks
  PROVE  b \in page[PageOf[b]].cap <=> \E x \in Places : IsAt(b, x)
<1> DEFINE q == page[PageOf[b]]
<1>1. PageOf[b] \in Pages /\ Sound(q, PageOf[b])
  BY Parts, PageAreas DEF Headers
<1>2. ASSUME NEW x \in Places, IsAt(b, x) PROVE b \in q.cap
  <2>1. CASE b \in q.free \cup q.local \cup q.tfree
    BY <2>1, <1>1 DEF Sound
  <2>2. CASE b \notin q.free \cup q.local \cup q.tfree
    <3>1. \A h \in Heaps : ~ Doomed(h, PageOf[b])
      <4>1. SUFFICES ASSUME NEW h \in Heaps, job[OwnerOf[h]] = "destroy" PROVE FALSE
        BY DEF Doomed
      <4>2. OwnerOf[h] \in Threads
        BY Assumption
      <4>3. pc[OwnerOf[h]] = "destroy"
        BY <4>1, <4>2, Parts DEF Control, JobFits
      <4>4. QED
        BY <4>2, <4>3, Parts DEF Control
    <3>2. \/ b \in live
          \/ \E h \in Heaps : b \in delayed[h]
          \/ \E t \in Threads : b \in hand[t] \/ Carries(t, b)
      BY <1>2, <2>2 DEF IsAt, Places
    <3>3. b \in Out(q)
      BY <3>1, <3>2, Parts DEF LiveOut, DelayedOut, HandOut, CarriedOut
    <3>4. QED
      BY <3>3 DEF Out
  <2>3. QED
    BY <2>1, <2>2
<1>3. ASSUME b \in q.cap PROVE \E x \in Places : IsAt(b, x)
  <2>1. CASE b \in q.free
    <3>1. IsAt(b, <<"free", NoHeap>>) /\ <<"free", NoHeap>> \in Places
      BY <2>1 DEF IsAt, Places
    <3>2. QED
      BY <3>1
  <2>2. CASE b \in q.local
    <3>1. IsAt(b, <<"local", NoHeap>>) /\ <<"local", NoHeap>> \in Places
      BY <2>2 DEF IsAt, Places
    <3>2. QED
      BY <3>1
  <2>3. CASE b \in q.tfree
    <3>1. IsAt(b, <<"tfree", NoHeap>>) /\ <<"tfree", NoHeap>> \in Places
      BY <2>3 DEF IsAt, Places
    <3>2. QED
      BY <3>1
  <2>4. CASE b \in live
    <3>1. IsAt(b, <<"live", NoHeap>>) /\ <<"live", NoHeap>> \in Places
      BY <2>4 DEF IsAt, Places
    <3>2. QED
      BY <3>1
  <2>5. ASSUME NEW h \in Heaps, b \in delayed[h] PROVE \E x \in Places : IsAt(b, x)
    <3>1. IsAt(b, <<"delayed", h>>) /\ <<"delayed", h>> \in Places
      BY <2>5 DEF IsAt, Places
    <3>2. QED
      BY <3>1
  <2>6. ASSUME NEW t \in Threads, b \in hand[t] PROVE \E x \in Places : IsAt(b, x)
    <3>1. IsAt(b, <<"hand", t>>) /\ <<"hand", t>> \in Places
      BY <2>6 DEF IsAt, Places
    <3>2. QED
      BY <3>1
  <2>7. ASSUME NEW t \in Threads, Carries(t, b) PROVE \E x \in Places : IsAt(b, x)
    <3>1. IsAt(b, <<"carried", t>>) /\ <<"carried", t>> \in Places
      BY <2>7 DEF IsAt, Places
    <3>2. QED
      BY <3>1
  <2>8. QED
    BY <1>3, <2>1, <2>2, <2>3, <2>4, <2>5, <2>6, <2>7, Parts DEF NoneLost, Out
<1>4. QED
  BY <1>2, <1>3

\* No block is handed out twice, and none is lost, in a program that does not
\* call mi_heap_destroy (which loses blocks on purpose).
THEOREM BlockPlaces == ASSUME ~ Destroys PROVE Spec => []BlockInOnePlace
<1>1. DestroysAlone
  BY DEF DestroysAlone
<1>2. IInv => BlockInOnePlace
  <2> SUFFICES ASSUME IInv PROVE BlockInOnePlace
    OBVIOUS
  <2>1. ASSUME NEW b \in Blocks, NEW x \in Places, IsAt(b, x), NEW y \in Places \ {x}
        PROVE  ~ IsAt(b, y)
    BY <2>1, PlacesApart
  <2>2. QED
    BY <2>1, PlacesCover DEF BlockInOnePlace
<1>3. QED
  BY <1>1, <1>2, IInvariant, PTL

\* Under the same condition as all that follows (DestroysAlone), page->used is
\* exact for its owner.
THEOREM UsedIsExact == ASSUME DestroysAlone PROVE Spec => []UsedExact
<1>1. IInv => UsedExact
  BY Parts DEF UsedExact, Headers, Sound, FullInUse
<1>2. QED
  BY <1>1, IInvariant, PTL

\* A page stays a page while a stranger frees into it, and one stranger at a
\* time is on its way to the heap of the page.
THEOREM PageStaysPut == ASSUME DestroysAlone PROVE Spec => []PageStays
<1>1. IInv => PageStays
  <2> SUFFICES ASSUME IInv, NEW t \in Threads,
                      pc[t] \in {"mt", "read", "push", "reset"}
               PROVE  /\ page[PageOf[blk[t]]].state # "none"
                      /\ pc[t] \in {"read", "push", "reset"} =>
                           /\ page[PageOf[blk[t]]].flag = "freeing"
                           /\ \A u \in Threads \ {t} :
                                pc[u] \in {"read", "push", "reset"} =>
                                  PageOf[blk[u]] # PageOf[blk[t]]
    BY DEF PageStays
  <2>1. CASE pc[t] = "mt"
    <3>1. blk[t] \in Blocks /\ Carries(t, blk[t])
      BY <2>1, Parts DEF Control, Carries
    <3>2. blk[t] \in Out(page[PageOf[blk[t]]])
      BY <3>1, Parts DEF CarriedOut
    <3>3. QED
      BY <2>1, <3>1, <3>2, OutsideFacts, PageFacts
  <2>2. CASE pc[t] \in {"read", "push", "reset"}
    BY <2>2, WriterFacts, Parts DEF OneWriter
  <2>3. QED
    BY <2>1, <2>2
<1>2. QED
  BY <1>1, IInvariant, PTL

\* The heap a stranger read from the page is valid when it pushes on its list.
THEOREM HeapStaysPut == ASSUME DestroysAlone PROVE Spec => []HeapStays
<1>1. IInv => HeapStays
  BY Parts DEF HeapStays, PushRoute, Expected
<1>2. QED
  BY <1>1, IInvariant, PTL

\* What strangers free into a page is found again.
THEOREM SomeoneAlwaysKnows == ASSUME DestroysAlone PROVE Spec => []SomeoneKnows
<1>1. IInv => SomeoneKnows
  BY Parts
<1>2. QED
  BY <1>1, IInvariant, PTL

\* No heap's list has a block of an abandoned page.
THEOREM AbandonedIsUnreferenced ==
  ASSUME DestroysAlone PROVE Spec => []AbandonedUnreferenced
<1>1. IInv => AbandonedUnreferenced
  <2> SUFFICES ASSUME IInv, NEW p \in Pages, page[p].state = "abandoned"
               PROVE  page[p].flag = "never" /\ ~ Pending(p)
    BY DEF AbandonedUnreferenced
  <2>1. /\ page[p].flag = "never" /\ page[p].heap = NoHeap /\ page[p].thread = NoThread
        /\ page[p] # NoPage
    BY Parts, NoPageFields DEF Belongs
  <2>2. ASSUME NEW b \in BlocksOf(p), NEW h \in Heaps, b \in delayed[h] PROVE FALSE
    <3>1. b \in Blocks /\ PageOf[b] = p
      BY DEF BlocksOf
    <3>2. Routed(h, b)
      BY <2>2, Parts DEF DelayedRoute
    <3>3. QED
      BY <2>1, <3>1, <3>2, Assumption DEF Routed, Moved, Doomed
  <2>3. ASSUME NEW b \in BlocksOf(p), NEW t \in Threads, b \in hand[t] PROVE FALSE
    <3>1. b \in Blocks /\ PageOf[b] = p
      BY DEF BlocksOf
    <3>2. AtHome(t, b) /\ pc[t] \in {"drain", "settle"}
      BY <2>3, Parts DEF HandRoute, Control
    <3>3. job[t] # "none"
      BY <3>2, Parts DEF Control, JobFits
    <3>4. QED
      BY <2>1, <3>1, <3>2, <3>3, OwnPages, Assumption DEF AtHome, Moved
  <2>4. ASSUME NEW b \in BlocksOf(p), NEW t \in Threads, Carries(t, b),
               pc[t] \in {"read", "push"} PROVE FALSE
    <3>1. b \in Blocks /\ PageOf[b] = p /\ blk[t] = b
      BY <2>4 DEF BlocksOf, Carries
    <3>2. QED
      BY <2>1, <2>4, <3>1, WriterFacts
  <2>5. QED
    BY <2>1, <2>2, <2>3, <2>4 DEF Pending
<1>2. QED
  BY <1>1, IInvariant, PTL

\* Nothing is left in a heap that is given back, and a page is its heap's
\* thread's.
THEOREM HeapIsEmptied == ASSUME DestroysAlone PROVE Spec => []HeapEmptied
<1>1. IInv => HeapEmptied
  <2> SUFFICES ASSUME IInv PROVE HeapEmptied
    OBVIOUS
  <2>1. \A p \in Pages : page[p].heap # NoHeap =>
          page[p].heap \in alive /\ OwnerOf[page[p].heap] = page[p].thread
    BY PageFacts
  <2>2. \A h \in Heaps \ alive : delayed[h] = {}
    BY Parts DEF NoneLeft
  <2>3. \A h \in Heaps \ alive : PagesOf(h) = {}
    BY <2>1, Assumption DEF PagesOf
  <2>4. QED
    BY <2>1, <2>2, <2>3 DEF HeapEmptied
<1>2. QED
  BY <1>1, IInvariant, PTL

\* The memory under a block the program holds is still a page's: with any
\* number of threads in a program that does not call mi_heap_destroy, and in
\* one that does if only one thread allocates.  (With two it is not so: see
\* DestroysAlone.)
THEOREM LiveKeepsPage == ASSUME DestroysAlone PROVE Spec => []LiveHasPage
<1>1. IInv => LiveHasPage
  BY Parts DEF LiveHasPage, LiveOut, Out
<1>2. QED
  BY <1>1, IInvariant, PTL
=============================================================================
