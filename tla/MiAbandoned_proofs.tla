-------------------------- MODULE MiAbandoned_proofs --------------------------
(***************************************************************************)
(* Proofs about the lists of abandoned segments, for any number of threads *)
(* and segments and any bound on the tag.                                  *)
(*                                                                         *)
(* The segments on `abandoned', those on `abandoned_visited', and those    *)
(* that one thread moves from the second to the first are lists apart from *)
(* each other (Lists): links stay within a list, no two lead to one        *)
(* segment, and none leads to the head.  So a pop that succeeds leaves no  *)
(* way to what it took.  A thread that pops may still read it; the count   *)
(* of readers keeps the memory (Counted, Safe).                            *)
(***************************************************************************)
EXTENDS MiAbandoned, FiniteSetTheorems, TLAPS

Segs == Segments \cup {Null}

\* Where a thread has a segment of its own, or moves the visited ones; where
\* it has overwritten the link of the last of them; where it counts as a
\* reader; and where it relies on the head that it has loaded.
Having == {"await", "release", "push", "push link", "push swap",
           "visit", "visit link", "visit swap", "clear", "popped"}
MovingOn == {"place", "place swap", "walk", "join", "join link", "join swap"}
Joining == {"join link", "join swap"}
Inside == {"load", "read", "take", "leave"}
Comparing == {"push link", "push swap", "place swap", "join link", "join swap",
              "read", "take"}

Locations == Having \cup MovingOn \cup Inside \cup {"idle", "revisit", "grab", "enter"}

Locals == [segment: Segs, ts: Tagged, anext: Segs, first: Segs, last: Segs, force: BOOLEAN]

\* The type of every variable.
Types ==
  /\ abandoned \in Tagged
  /\ visited \in Segs
  /\ readers \in Nat
  /\ abandoned_next \in [Segments -> Segs]
  /\ thread_id \in [Segments -> Threads \cup {NoThread}]
  /\ mapped \in SUBSET Segments
  /\ pc \in [Threads -> Locations]
  /\ local \in [Threads -> Locals]

\* The variables of a thread at l.
Fits(l, r) ==
  /\ l \in Having => r.segment # Null
  /\ l \notin Having \cup {"leave"} => r.segment = Null
  /\ l \in MovingOn => r.first # Null /\ r.last # Null
  /\ l \notin MovingOn => r.first = Null
  /\ l = "place swap" => r.ts.ptr = Null
  /\ l \in {"read", "take"} => r.ts.ptr # Null

\* What a thread knows of the shared variables.  When the tag is still the
\* one it loaded, so is the head, and the link behind the head.
Knows(t) ==
  /\ pc[t] \in Comparing => /\ local[t].ts.tag =< abandoned.tag
                            /\ local[t].ts.tag = abandoned.tag => local[t].ts = abandoned
  /\ pc[t] = "push swap" => abandoned_next[local[t].segment] = local[t].ts.ptr
  /\ pc[t] = "visit swap" => abandoned_next[local[t].segment] = local[t].anext
  /\ pc[t] = "join" => abandoned_next[local[t].last] = Null
  /\ pc[t] = "join swap" => abandoned_next[local[t].last] = local[t].ts.ptr
  /\ pc[t] = "take" /\ local[t].ts = abandoned =>
       local[t].anext = abandoned_next[abandoned.ptr]

\* The segment of a thread is its alone.
Held ==
  \A t \in Threads : local[t].segment # Null =>
    /\ local[t].segment \in mapped
    /\ thread_id[local[t].segment] = NoThread
    /\ \A u \in Threads : local[u].segment = local[t].segment => u = t

\* abandoned_readers counts the readers.
Readers == {t \in Threads : pc[t] \in Inside}
Counted == IsFiniteSet(Readers) /\ readers = Cardinality(Readers)

\* Nobody reads a segment that is about to be given back.
Safe ==
  \A u \in Threads : pc[u] = "read" =>
    /\ local[u].ts.ptr \in mapped
    /\ \A t \in Threads : pc[t] = "release" => local[t].segment # local[u].ts.ptr

\* The link from s, as long as it is one: not while a thread writes into it
\* where the moved segments shall end.
Link(s) ==
  IF \E t \in Threads : pc[t] \in Joining /\ local[t].last = s THEN Null
  ELSE abandoned_next[s]

\* X is a list with head h, or contains it.
List(X, h) ==
  /\ X \in SUBSET mapped
  /\ \A s \in X : thread_id[s] = NoThread /\ \A t \in Threads : local[t].segment # s
  /\ h # Null => h \in X
  /\ \A s \in X : Link(s) # Null => Link(s) \in X /\ Link(s) # h
  /\ \A s, r \in X : Link(s) = Link(r) => s = r \/ Link(s) = Null

\* L is the list abandoned, V is abandoned_visited, M[t] is what t moves.
Lists(L, V, M) ==
  /\ List(L, abandoned.ptr) /\ List(V, visited)
  /\ \A t \in Threads : List(M[t], local[t].first)
  /\ \A t \in Threads : local[t].first # Null => local[t].last \in M[t]
  /\ L \cap V = {}
  /\ \A t \in Threads : M[t] \cap (L \cup V) = {}
  /\ \A t, u \in Threads : t # u => M[t] \cap M[u] = {}

IInv ==
  /\ Types
  /\ \A t \in Threads : Fits(pc[t], local[t])
  /\ \A t \in Threads : Knows(t)
  /\ Held /\ Counted /\ Safe
  /\ \E L \in SUBSET Segments, V \in SUBSET Segments, M \in [Threads -> SUBSET Segments] :
       Lists(L, V, M)

-----------------------------------------------------------------------------
(* A step of t: the others stay where they are.                            *)

Moves(t) ==
  /\ pc' \in [Threads -> Locations]
  /\ local' \in [Threads -> Locals]
  /\ \A u \in Threads \ {t} : pc'[u] = pc[u] /\ local'[u] = local[u]
  /\ Fits(pc'[t], local'[t])

\* How a step of t changes its place and its variables.
LEMMA GotoSet ==
  ASSUME Types, NEW t \in Threads, NEW l \in Locations, NEW r \in Locals, Fits(l, r),
         Goto(t, l), Set(t, r)
  PROVE  Moves(t) /\ pc'[t] = l /\ local'[t] = r
  BY DEF Types, Goto, Set, Moves

LEMMA GotoOnly ==
  ASSUME Types, NEW t \in Threads, NEW l \in Locations, Fits(l, local[t]),
         Goto(t, l), UNCHANGED local
  PROVE  Moves(t) /\ pc'[t] = l /\ local'[t] = local[t]
  BY DEF Types, Goto, Moves

\* The variables of a thread that does nothing.
LEMMA NoLocalFits ==
  ASSUME MiAbandonedAssumption PROVE NoLocal \in Locals
  BY DEF MiAbandonedAssumption, NoLocal, Locals, Segs, Tagged

LEMMA QuitMoves ==
  ASSUME MiAbandonedAssumption, Types, NEW t \in Threads, Quit(t)
  PROVE  Moves(t) /\ pc'[t] = "idle" /\ local'[t] = NoLocal
<1>1. Fits("idle", NoLocal)
  BY DEF Fits, NoLocal, Having, MovingOn
<1>2. QED
  BY <1>1, NoLocalFits, GotoSet DEF Quit, Locations

\* The parts of the invariant, for one thread.
LEMMA Typed ==
  ASSUME IInv, NEW t \in Threads
  PROVE  /\ Types /\ pc[t] \in Locations /\ local[t] \in Locals
         /\ Fits(pc[t], local[t]) /\ Knows(t)
         /\ abandoned \in Tagged /\ abandoned.ptr \in Segs /\ visited \in Segs
         /\ local[t].segment \in Segs /\ local[t].ts \in Tagged /\ local[t].ts.ptr \in Segs
         /\ local[t].anext \in Segs /\ local[t].first \in Segs /\ local[t].last \in Segs
         /\ local[t].force \in BOOLEAN
<1>1. Types /\ pc[t] \in Locations /\ local[t] \in Locals
  BY DEF IInv, Types
<1>2. Fits(pc[t], local[t]) /\ Knows(t)
  BY DEF IInv
<1>3. abandoned \in Tagged /\ abandoned.ptr \in Segs /\ visited \in Segs
  BY <1>1 DEF Types, Tagged, Segs
<1>4. PICK r \in Locals : r = local[t]
  BY <1>1
<1>5. /\ r.segment \in Segs /\ r.ts \in Tagged /\ r.anext \in Segs /\ r.first \in Segs
      /\ r.last \in Segs /\ r.force \in BOOLEAN
  BY DEF Locals
<1>6. r.ts.ptr \in Segs
  BY <1>5 DEF Tagged, Segs
<1>7. QED
  BY <1>1, <1>2, <1>3, <1>4, <1>5, <1>6

\* Types and Fits survive a step of one thread.
LEMMA MovesTyped ==
  ASSUME Types, NEW t \in Threads, Moves(t),
         abandoned' \in Tagged, visited' \in Segs, readers' \in Nat,
         abandoned_next' \in [Segments -> Segs],
         thread_id' \in [Segments -> Threads \cup {NoThread}], mapped' \in SUBSET Segments
  PROVE  Types'
  BY DEF Types, Moves, Locals, Segs, Tagged, Locations, Having, MovingOn, Inside

LEMMA MovesFit ==
  ASSUME IInv, NEW t \in Threads, Moves(t)
  PROVE  \A u \in Threads : Fits(pc[u], local[u])'
<1>1. ASSUME NEW u \in Threads PROVE Fits(pc'[u], local'[u])
  BY DEF IInv, Moves
<1>2. QED
  BY <1>1 DEF Fits, Having, MovingOn

-----------------------------------------------------------------------------
(* The lists.                                                              *)

\* A list survives when its links and owners do.
LEMMA ListStill ==
  ASSUME NEW X, NEW h, List(X, h), X \in SUBSET mapped',
         \A s \in X : Link(s)' = Link(s) /\ thread_id'[s] = NoThread,
         \A s \in X : \A t \in Threads : local'[t].segment # s
  PROVE  List(X, h)'
  BY DEF List

\* Which links are overwritten depends on the threads that join.
LEMMA LinkIs ==
  ASSUME NEW s
  PROVE  /\ (\A t \in Threads : pc[t] \in Joining => local[t].last # s) =>
              Link(s) = abandoned_next[s]
         /\ (\E t \in Threads : pc[t] \in Joining /\ local[t].last = s) => Link(s) = Null
         /\ (\A t \in Threads : pc'[t] \in Joining => local'[t].last # s) =>
              Link(s)' = abandoned_next'[s]
         /\ (\E t \in Threads : pc'[t] \in Joining /\ local'[t].last = s) => Link(s)' = Null
  BY DEF Link

\* A step of t that neither begins nor ends to join.
LEMMA LinkStill ==
  ASSUME NEW t \in Threads, Moves(t), pc'[t] \in Joining <=> pc[t] \in Joining,
         local'[t].last = local[t].last \/ pc[t] \notin Joining,
         NEW s, abandoned_next'[s] = abandoned_next[s]
  PROVE  Link(s)' = Link(s)
<1>1. (\E u \in Threads : pc'[u] \in Joining /\ local'[u].last = s)
        <=> (\E u \in Threads : pc[u] \in Joining /\ local[u].last = s)
  BY DEF Moves
<1>2. QED
  BY <1>1, LinkIs

\* The last segment that a thread moves is that thread's alone, and its link
\* is there to read until the thread overwrites it.
LEMMA LastIsOwn ==
  ASSUME IInv, NEW t \in Threads, NEW u \in Threads, t # u,
         local[t].first # Null, local[u].first # Null
  PROVE  local[t].last # local[u].last
  BY DEF IInv, Lists

LEMMA LinkOfLast ==
  ASSUME IInv, NEW t \in Threads, pc[t] \in MovingOn \ Joining
  PROVE  Link(local[t].last) = abandoned_next[local[t].last]
<1>1. ASSUME NEW u \in Threads, pc[u] \in Joining PROVE local[u].last # local[t].last
  <2>1. local[t].first # Null /\ local[u].first # Null /\ t # u
    BY <1>1, Typed DEF Fits, MovingOn, Joining
  <2>2. QED
    BY <2>1, LastIsOwn
<1>2. QED
  BY <1>1, LinkIs

\* A segment that t may write to: its own, one it owns, or one without memory.
Mine(t, s) == s = local[t].segment \/ s \notin mapped \/ thread_id[s] = t

\* Such a segment is on no list, and no other thread knows of it.
LEMMA MineIsLoose ==
  ASSUME MiAbandonedAssumption, IInv, NEW t \in Threads, NEW s, Mine(t, s),
         NEW L, NEW V, NEW M, Lists(L, V, M)
  PROVE  /\ s \notin L /\ s \notin V /\ \A u \in Threads : s \notin M[u]
         /\ \A u \in Threads \ {t} : local[u].segment = s => s = Null
         /\ \A u \in Threads : local[u].first # Null => local[u].last # s
<1>1. NoThread # t
  BY DEF MiAbandonedAssumption
<1>2. ASSUME NEW X, NEW h, List(X, h) PROVE s \notin X
  BY <1>1, <1>2 DEF Mine, List
<1>3. s \notin L /\ s \notin V /\ \A u \in Threads : s \notin M[u]
  BY <1>2 DEF Lists
<1>4. ASSUME NEW u \in Threads \ {t}, local[u].segment = s, s # Null PROVE FALSE
  BY <1>1, <1>4 DEF Mine, IInv, Held
<1>5. ASSUME NEW u \in Threads, local[u].first # Null PROVE local[u].last # s
  BY <1>3, <1>5 DEF Lists
<1>6. QED
  BY <1>3, <1>4, <1>5

-----------------------------------------------------------------------------
(* Steps that change no head: t writes to s, which is its own.             *)

Touches(t, s) ==
  /\ Mine(t, s)
  /\ \A r \in Segments : r # s => /\ abandoned_next'[r] = abandoned_next[r]
                                  /\ thread_id'[r] = thread_id[r]
                                  /\ r \in mapped' <=> r \in mapped

\* How the lists survive.
LEMMA TouchedLists ==
  ASSUME MiAbandonedAssumption, IInv, NEW t \in Threads, NEW s, Moves(t), Touches(t, s),
         NEW L \in SUBSET Segments, NEW V \in SUBSET Segments,
         NEW M \in [Threads -> SUBSET Segments], Lists(L, V, M),
         abandoned' = abandoned, visited' = visited,
         \A r \in Segments : r # s => Link(r)' = Link(r),
         local'[t].segment \in {s, Null},
         local'[t].first = local[t].first,
         local[t].first # Null => local'[t].last \in M[t]
  PROVE  Lists(L, V, M)'
<1>1. ASSUME NEW X \in SUBSET Segments, NEW h, List(X, h), s \notin X PROVE List(X, h)'
  <2>1. \A r \in X : r # s /\ r \in mapped /\ r \in mapped'
    BY <1>1 DEF List, Touches
  <2>2. \A r \in X : Link(r)' = Link(r) /\ thread_id'[r] = NoThread
    BY <1>1, <2>1 DEF List, Touches
  <2>3. ASSUME NEW r \in X, NEW u \in Threads PROVE local'[u].segment # r
    <3>1. CASE u = t
      BY <1>1, <2>1, <3>1 DEF MiAbandonedAssumption
    <3>2. CASE u # t
      BY <1>1, <3>2 DEF List, Moves
    <3>3. QED
      BY <3>1, <3>2
  <2>4. QED
    BY <1>1, <2>1, <2>2, <2>3, ListStill
<1>2. s \notin L /\ s \notin V /\ \A u \in Threads : s \notin M[u]
  BY MineIsLoose DEF Touches
<1>3. List(L, abandoned.ptr)' /\ List(V, visited)'
  <2>1. PICK h, g : h = abandoned.ptr /\ g = visited
    OBVIOUS
  <2>2. List(L, h)' /\ List(V, g)'
    BY <1>1, <1>2, <2>1 DEF Lists
  <2>3. abandoned'.ptr = h /\ visited' = g
    BY <2>1
  <2>4. QED
    BY <2>2, <2>3 DEF List
<1>4. \A u \in Threads : local'[u].first = local[u].first
  BY DEF Moves
<1>5. ASSUME NEW u \in Threads PROVE List(M[u], local[u].first)'
  <2>1. PICK h : h = local[u].first
    OBVIOUS
  <2>2. List(M[u], h) /\ M[u] \in SUBSET Segments
    BY <2>1 DEF Lists
  <2>3. List(M[u], h)'
    BY <1>1, <1>2, <2>2
  <2>4. local'[u].first = h
    BY <1>4, <2>1
  <2>5. QED
    BY <2>3, <2>4 DEF List
<1>6. \A u \in Threads : local'[u].first # Null => local'[u].last \in M[u]
  BY <1>4 DEF Lists, Moves
<1>7. QED
  BY <1>3, <1>5, <1>6 DEF Lists

\* How Held survives.
LEMMA TouchedHeld ==
  ASSUME MiAbandonedAssumption, IInv, NEW t \in Threads, NEW s, Moves(t), Touches(t, s),
         local'[t].segment \in {s, Null},
         local'[t].segment # Null => s \in mapped' /\ thread_id'[s] = NoThread
  PROVE  Held'
<1>1. \A u \in Threads \ {t} : local[u].segment = s => s = Null
  BY MineIsLoose DEF Touches, IInv
<1>2. ASSUME NEW u \in Threads, local'[u].segment # Null
      PROVE  /\ local'[u].segment \in mapped' /\ thread_id'[local'[u].segment] = NoThread
             /\ \A v \in Threads : local'[v].segment = local'[u].segment => v = u
  <2>1. CASE u = t
    BY <1>1, <1>2, <2>1 DEF Moves
  <2>2. CASE u # t
    <3>1. local'[u] = local[u]
      BY <2>2 DEF Moves
    <3>2. /\ local[u].segment # s /\ local[u].segment \in mapped
          /\ thread_id[local[u].segment] = NoThread
          /\ \A v \in Threads : local[v].segment = local[u].segment => v = u
      BY <1>1, <1>2, <2>2, <3>1 DEF IInv, Held
    <3>3. local[u].segment \in mapped' /\ thread_id'[local[u].segment] = NoThread
      BY <3>2 DEF Touches, IInv, Types
    <3>4. ASSUME NEW v \in Threads, local'[v].segment = local[u].segment PROVE v = u
      BY <1>2, <3>1, <3>2, <3>4 DEF Moves
    <3>5. QED
      BY <3>1, <3>3, <3>4
  <2>3. QED
    BY <2>1, <2>2
<1>3. QED
  BY <1>2 DEF Held

\* What another thread knows survives when the heads and links it relies on do.
LEMMA KnowsStill ==
  ASSUME IInv, NEW u \in Threads, pc'[u] = pc[u], local'[u] = local[u],
         abandoned' = abandoned,
         \A r \in Segments :
           \/ abandoned_next'[r] = abandoned_next[r]
           \/ /\ local[u].segment # r /\ abandoned.ptr # r
              /\ local[u].first # Null => local[u].last # r
  PROVE  Knows(u)'
<1>1. Fits(pc[u], local[u]) /\ Knows(u) /\ local[u].segment \in Segs /\ local[u].last \in Segs
      /\ abandoned.ptr \in Segs
  BY Typed
<1>2. pc[u] \in {"push swap", "visit swap"} =>
        abandoned_next'[local[u].segment] = abandoned_next[local[u].segment]
  BY <1>1 DEF Fits, Having, Segs
<1>3. pc[u] \in {"join", "join swap"} =>
        abandoned_next'[local[u].last] = abandoned_next[local[u].last]
  BY <1>1 DEF Fits, MovingOn, Segs
<1>4. pc[u] = "take" /\ local[u].ts = abandoned =>
        abandoned_next'[abandoned.ptr] = abandoned_next[abandoned.ptr]
  BY <1>1 DEF Fits, Segs
<1>5. QED
  BY <1>1, <1>2, <1>3, <1>4 DEF Knows, Comparing

\* Such a step preserves the invariant.
LEMMA TouchStep ==
  ASSUME MiAbandonedAssumption, IInv, NEW t \in Threads, NEW s, Moves(t), Touches(t, s),
         abandoned' = abandoned, visited' = visited, readers' \in Nat,
         abandoned_next' \in [Segments -> Segs],
         thread_id' \in [Segments -> Threads \cup {NoThread}], mapped' \in SUBSET Segments,
         \A r \in Segments : r # s => Link(r)' = Link(r),
         local'[t].segment \in {s, Null},
         local'[t].segment # Null => s \in mapped' /\ thread_id'[s] = NoThread,
         local'[t].first = local[t].first,
         local[t].first # Null =>
           \/ local'[t].last = local[t].last
           \/ local'[t].last = Link(local[t].last) /\ local'[t].last # Null,
         Knows(t)', Counted', Safe'
  PROVE  IInv'
<1>1. PICK L \in SUBSET Segments, V \in SUBSET Segments, M \in [Threads -> SUBSET Segments] :
        Lists(L, V, M)
  BY DEF IInv
<1>2. local[t].first # Null => local'[t].last \in M[t]
  BY <1>1 DEF Lists, List
<1>3. Lists(L, V, M)'
  BY <1>1, <1>2, TouchedLists
<1>4. Held'
  BY TouchedHeld
<1>5. ASSUME NEW u \in Threads \ {t} PROVE Knows(u)'
  <2>1. /\ s \notin L
        /\ local[u].segment = s => s = Null
        /\ local[u].first # Null => local[u].last # s
    BY <1>1, MineIsLoose DEF Touches
  <2>2. abandoned.ptr = s => s = Null
    BY <1>1, <2>1 DEF Lists, List
  <2>3. ASSUME NEW r \in Segments, abandoned_next'[r] # abandoned_next[r]
        PROVE  /\ local[u].segment # r /\ abandoned.ptr # r
               /\ local[u].first # Null => local[u].last # r
    BY <2>1, <2>2, <2>3 DEF Touches, MiAbandonedAssumption
  <2>4. pc'[u] = pc[u] /\ local'[u] = local[u]
    BY DEF Moves
  <2>5. QED
    BY <2>3, <2>4, KnowsStill
<1>6. \A u \in Threads : Knows(u)'
  BY <1>5
<1>7. Types'
  BY MovesTyped DEF IInv, Types
<1>8. \A u \in Threads : Fits(pc[u], local[u])'
  BY MovesFit
<1>9. QED
  BY <1>3, <1>4, <1>6, <1>7, <1>8 DEF IInv

-----------------------------------------------------------------------------
(* Steps that change no shared variable.                                   *)

\* The tag is a number.
LEMMA TagsCompare ==
  ASSUME MiAbandonedAssumption, IInv PROVE abandoned.tag =< abandoned.tag
<1>1. PICK n \in 0 .. MaxTag : n = abandoned.tag
  BY Typed DEF IInv, Types, Tagged
<1>2. n \in Nat
  BY DEF MiAbandonedAssumption
<1>3. n =< n
  BY <1>2
<1>4. QED
  BY <1>1, <1>3

\* The count survives when t stays a reader or none.
LEMMA CountedStill ==
  ASSUME IInv, NEW t \in Threads, Moves(t), readers' = readers,
         pc'[t] \in Inside <=> pc[t] \in Inside
  PROVE  Counted'
<1>1. Readers' = Readers
  BY DEF Readers, Moves
<1>2. QED
  BY <1>1 DEF IInv, Counted

\* Safe survives when t neither reads nor gives memory back.
LEMMA SafeStill ==
  ASSUME IInv, NEW t \in Threads, Moves(t), mapped \subseteq mapped',
         pc'[t] \notin {"read", "release"}
  PROVE  Safe'
  BY DEF IInv, Safe, Moves

\* A step that changes only the variables of one thread.
LEMMA QuietStep ==
  ASSUME MiAbandonedAssumption, IInv, NEW t \in Threads, Moves(t), UNCHANGED shared,
         pc'[t] \in Joining <=> pc[t] \in Joining,
         pc'[t] \in Inside <=> pc[t] \in Inside,
         local'[t].segment \in {local[t].segment, Null},
         local'[t].first = local[t].first,
         \/ local'[t].last = local[t].last
         \/ local[t].first = Null /\ pc[t] \notin Joining
         \/ /\ pc[t] = "walk" /\ local'[t].last = abandoned_next[local[t].last]
            /\ local'[t].last # Null,
         Knows(t)', Safe'
  PROVE  IInv'
<1> DEFINE s == local[t].segment
<1>1. UNCHANGED <<abandoned, visited, readers, abandoned_next, thread_id, mapped>>
  BY DEF shared
<1>2. Touches(t, s)
  BY <1>1 DEF Touches, Mine
<1>3. \A r : Link(r)' = Link(r)
  <2>1. local'[t].last = local[t].last \/ pc[t] \notin Joining
    BY DEF Joining
  <2>2. QED
    BY <1>1, <2>1, LinkStill
<1>4. s # Null => s \in mapped' /\ thread_id'[s] = NoThread
  BY <1>1 DEF IInv, Held
<1>5. Counted'
  BY <1>1, CountedStill
<1>6. local[t].first # Null =>
        \/ local'[t].last = local[t].last
        \/ local'[t].last = Link(local[t].last) /\ local'[t].last # Null
  BY LinkOfLast DEF MovingOn, Joining
<1>7. /\ readers' \in Nat /\ abandoned_next' \in [Segments -> Segs]
      /\ thread_id' \in [Segments -> Threads \cup {NoThread}] /\ mapped' \in SUBSET Segments
  BY <1>1 DEF IInv, Types
<1>8. QED
  BY <1>1, <1>2, <1>3, <1>4, <1>5, <1>6, <1>7, TouchStep

\* A thread that goes where it relies on nothing.
LEMMA IdleStep ==
  ASSUME MiAbandonedAssumption, IInv, NEW t \in Threads, Moves(t), UNCHANGED shared,
         pc[t] \notin MovingOn, pc'[t] \notin MovingOn,
         pc'[t] \notin {"push link", "push swap", "visit swap", "read", "take", "release"},
         pc'[t] \in Inside <=> pc[t] \in Inside,
         local'[t].segment \in {local[t].segment, Null}
  PROVE  IInv'
<1>1. Knows(t)'
  BY DEF Knows, Comparing, MovingOn
<1>2. Safe'
  BY SafeStill DEF shared
<1>3. local[t].first = Null /\ local'[t].first = Null
  BY Typed DEF Fits, Moves
<1>4. QED
  BY <1>1, <1>2, <1>3, QuietStep DEF Joining, MovingOn

\* AwaitReaders preserves the invariant.
LEMMA AwaitReadersKeeps ==
  ASSUME MiAbandonedAssumption, IInv, NEW t \in Threads, AwaitReaders(t) PROVE IInv'
<1>1. pc[t] = "await" /\ Fits("await", local[t]) /\ UNCHANGED local
  BY Typed DEF AwaitReaders, At
<1>2. Fits("release", local[t]) /\ "release" \in Locations
  BY <1>1 DEF Fits, Having, MovingOn, Locations
<1>3. Moves(t) /\ pc'[t] = "release" /\ local'[t] = local[t]
  BY <1>2, GotoOnly, Typed DEF AwaitReaders
<1>4. Readers = {}
  BY FS_EmptySet DEF IInv, Counted, AwaitReaders
<1>5. Safe'
  BY <1>3, <1>4 DEF Safe, Moves, Readers, Inside
<1>6. Knows(t)'
  BY <1>3 DEF Knows, Comparing
<1>7. QED
  BY <1>1, <1>3, <1>5, <1>6, QuietStep DEF AwaitReaders, Joining, Inside

\* The head that a thread loads: what the tag then stands for.
LEMMA LoadStep ==
  ASSUME MiAbandonedAssumption, IInv, NEW t \in Threads, NEW l \in {"push link", "join link"},
         Goto(t, l), Set(t, [local[t] EXCEPT !.ts = abandoned]), UNCHANGED shared,
         \/ l = "push link" /\ pc[t] \in {"push", "push swap"}
         \/ l = "join link" /\ pc[t] \in {"join", "join swap"}
  PROVE  IInv'
<1>1. PICK r \in Locals : r = local[t]
  BY Typed
<1>2. PICK s \in Locals : s = [r EXCEPT !.ts = abandoned]
  BY <1>1, Typed DEF Locals
<1>3. /\ s.segment = r.segment /\ s.first = r.first /\ s.last = r.last /\ s.ts = abandoned
  BY <1>2 DEF Locals
<1>4. Fits(l, s) /\ l \in Locations
  BY <1>1, <1>3, Typed DEF Fits, Having, MovingOn, Locations
<1>5. Moves(t) /\ pc'[t] = l /\ local'[t] = s
  BY <1>1, <1>2, <1>4, GotoSet, Typed
<1>6. UNCHANGED <<abandoned, visited, readers, abandoned_next, thread_id, mapped>>
  BY DEF shared
<1>7. Knows(t)'
  BY <1>3, <1>5, <1>6, TagsCompare DEF Knows
<1>8. Safe'
  BY <1>5, <1>6, SafeStill
<1>9. \A x : Link(x)' = Link(x)
  <2>1. CASE pc[t] # "join"
    BY <2>1, <1>1, <1>3, <1>5, <1>6, LinkStill DEF Joining
  <2>2. CASE pc[t] = "join"
    <3>0. PICK last : last = local[t].last
      OBVIOUS
    <3>1. Link(last) = Null
      BY <2>2, <3>0, LinkOfLast, Typed DEF Knows, MovingOn, Joining
    <3>2. Link(last)' = Null
      <4>1. pc'[t] \in Joining /\ local'[t].last = last
        BY <1>1, <1>3, <1>5, <2>2, <3>0 DEF Joining
      <4>2. QED
        BY <4>1 DEF Link
    <3>3. ASSUME NEW x, x # last PROVE Link(x)' = Link(x)
      <4>1. (\E u \in Threads : pc'[u] \in Joining /\ local'[u].last = x)
              <=> (\E u \in Threads : pc[u] \in Joining /\ local[u].last = x)
        BY <1>1, <1>3, <1>5, <2>2, <3>0, <3>3 DEF Moves, Joining
      <4>2. QED
        BY <1>6, <4>1, LinkIs
    <3>4. QED
      BY <3>1, <3>2, <3>3
  <2>3. QED
    BY <2>1, <2>2
<1>10. Touches(t, local[t].segment)
  BY <1>6 DEF Touches, Mine
<1>11. Counted'
  BY <1>5, <1>6, CountedStill DEF Inside
<1>12. local[t].segment # Null => /\ local[t].segment \in mapped'
                                  /\ thread_id'[local[t].segment] = NoThread
  BY <1>6 DEF IInv, Held
<1>13. /\ readers' \in Nat /\ abandoned_next' \in [Segments -> Segs]
       /\ thread_id' \in [Segments -> Threads \cup {NoThread}] /\ mapped' \in SUBSET Segments
  BY <1>6 DEF IInv, Types
<1>14. QED
  BY <1>1, <1>3, <1>5, <1>6, <1>7, <1>8, <1>9, <1>10, <1>11, <1>12, <1>13, TouchStep

\* PushLoad preserves the invariant.
LEMMA PushLoadKeeps ==
  ASSUME MiAbandonedAssumption, IInv, NEW t \in Threads, PushLoad(t) PROVE IInv'
  BY LoadStep DEF PushLoad, At

\* PushAgain preserves the invariant.
LEMMA PushAgainKeeps ==
  ASSUME MiAbandonedAssumption, IInv, NEW t \in Threads, PushAgain(t) PROVE IInv'
  BY LoadStep DEF PushAgain, At

\* JoinLoad preserves the invariant.
LEMMA JoinLoadKeeps ==
  ASSUME MiAbandonedAssumption, IInv, NEW t \in Threads, JoinLoad(t) PROVE IInv'
  BY LoadStep DEF JoinLoad, At

\* JoinAgain preserves the invariant.
LEMMA JoinAgainKeeps ==
  ASSUME MiAbandonedAssumption, IInv, NEW t \in Threads, JoinAgain(t) PROVE IInv'
  BY LoadStep DEF JoinAgain, At

\* A thread loads abandoned_visited.
LEMMA VisitStep ==
  ASSUME MiAbandonedAssumption, IInv, NEW t \in Threads, pc[t] \in {"visit", "visit swap"},
         Goto(t, "visit link"), Set(t, [local[t] EXCEPT !.anext = visited]), UNCHANGED shared
  PROVE  IInv'
<1>1. PICK r \in Locals : r = local[t]
  BY Typed
<1>2. PICK s \in Locals : s = [r EXCEPT !.anext = visited]
  BY <1>1, Typed DEF Locals
<1>3. s.segment = r.segment /\ s.first = r.first /\ s.last = r.last
  BY <1>2 DEF Locals
<1>4. Fits("visit link", s) /\ "visit link" \in Locations
  BY <1>1, <1>3, Typed DEF Fits, Having, MovingOn, Locations
<1>5. Moves(t) /\ pc'[t] = "visit link" /\ local'[t] = s
  BY <1>1, <1>2, <1>4, GotoSet, Typed
<1>6. QED
  BY <1>1, <1>3, <1>5, IdleStep DEF MovingOn, Inside

\* VisitLoad preserves the invariant.
LEMMA VisitLoadKeeps ==
  ASSUME MiAbandonedAssumption, IInv, NEW t \in Threads, VisitLoad(t) PROVE IInv'
  BY VisitStep DEF VisitLoad, At

\* A thread stops without a segment.
LEMMA QuitStep ==
  ASSUME MiAbandonedAssumption, IInv, NEW t \in Threads, Quit(t), UNCHANGED shared,
         pc[t] \notin MovingOn, pc[t] \notin Inside
  PROVE  IInv'
<1>1. Moves(t) /\ pc'[t] = "idle" /\ local'[t] = NoLocal
  BY QuitMoves, Typed
<1>2. NoLocal.segment = Null
  BY DEF NoLocal
<1>3. QED
  BY <1>1, <1>2, IdleStep DEF MovingOn, Inside

\* Collect preserves the invariant.
LEMMA CollectKeeps ==
  ASSUME MiAbandonedAssumption, IInv, NEW t \in Threads, Collect(t) PROVE IInv'
<1>1. PICK s : s = Forced
  OBVIOUS
<1>2. s \in Locals /\ s.segment = Null /\ s.first = Null
  BY <1>1, NoLocalFits DEF Forced, NoLocal, Locals
<1>3. Fits("revisit", s) /\ "revisit" \in Locations
  BY <1>2 DEF Fits, Having, MovingOn, Locations
<1>4. Moves(t) /\ pc'[t] = "revisit" /\ local'[t] = s
  BY <1>1, <1>2, <1>3, GotoSet, Typed DEF Collect
<1>5. QED
  BY <1>2, <1>4, IdleStep DEF Collect, At, MovingOn, Inside

\* RevisitNothing preserves the invariant.
LEMMA RevisitNothingKeeps ==
  ASSUME MiAbandonedAssumption, IInv, NEW t \in Threads, RevisitNothing(t) PROVE IInv'
  BY QuitStep DEF RevisitNothing, RevisitFalse, At, MovingOn, Inside

\* A thread goes on without a change to its variables.
LEMMA GoesOn ==
  ASSUME MiAbandonedAssumption, IInv, NEW t \in Threads, NEW l, Goto(t, l),
         UNCHANGED <<shared, local>>,
         \/ pc[t] = "revisit" /\ l = "grab"
         \/ pc[t] = "idle" /\ l \in {"revisit", "enter"}
         \/ pc[t] = "popped" /\ l \in {"await", "visit"}
  PROVE  IInv'
<1>1. Fits(l, local[t]) /\ l \in Locations
  BY Typed DEF Fits, Having, MovingOn, Locations
<1>2. Moves(t) /\ pc'[t] = l /\ local'[t] = local[t]
  BY <1>1, GotoOnly, Typed
<1>3. QED
  BY <1>2, IdleStep DEF MovingOn, Inside

\* RevisitCheck preserves the invariant.
LEMMA RevisitCheckKeeps ==
  ASSUME MiAbandonedAssumption, IInv, NEW t \in Threads, RevisitCheck(t) PROVE IInv'
  BY GoesOn DEF RevisitCheck, At

\* PopCheck preserves the invariant.
LEMMA PopCheckKeeps ==
  ASSUME MiAbandonedAssumption, IInv, NEW t \in Threads, PopCheck(t) PROVE IInv'
  BY GoesOn DEF PopCheck, At

\* PlaceLoad preserves the invariant.
LEMMA PlaceLoadKeeps ==
  ASSUME MiAbandonedAssumption, IInv, NEW t \in Threads, PlaceLoad(t) PROVE IInv'
<1>1. PICK r \in Locals : r = local[t]
  BY Typed
<1>2. PICK s \in Locals : s = [r EXCEPT !.ts = abandoned]
  BY <1>1, Typed DEF Locals
<1>3. s.segment = r.segment /\ s.first = r.first /\ s.last = r.last /\ s.ts = abandoned
  BY <1>2 DEF Locals
<1>4. PICK l : l = IF abandoned.ptr = Null THEN "place swap" ELSE "walk"
  OBVIOUS
<1>5. Fits(l, s) /\ l \in Locations
  BY <1>1, <1>3, <1>4, Typed DEF PlaceLoad, At, Fits, Having, MovingOn, Locations
<1>6. Moves(t) /\ pc'[t] = l /\ local'[t] = s
  BY <1>1, <1>2, <1>4, <1>5, GotoSet, Typed DEF PlaceLoad
<1>7. Knows(t)'
  BY <1>3, <1>4, <1>6, TagsCompare DEF PlaceLoad, shared, Knows
<1>8. Safe'
  BY <1>4, <1>6, SafeStill DEF PlaceLoad, shared
<1>9. QED
  BY <1>1, <1>3, <1>4, <1>6, <1>7, <1>8, QuietStep DEF PlaceLoad, At, Joining, Inside

\* Walk preserves the invariant.
LEMMA WalkKeeps ==
  ASSUME MiAbandonedAssumption, IInv, NEW t \in Threads, Walk(t) PROVE IInv'
<1>1. PICK r \in Locals : r = local[t]
  BY Typed
<1>2. PICK next : next = abandoned_next[r.last]
  OBVIOUS
<1>3. CASE next = Null /\ Goto(t, "join") /\ UNCHANGED local
  <2>1. Fits("join", local[t]) /\ "join" \in Locations
    BY Typed DEF Walk, At, Fits, Having, MovingOn, Locations
  <2>2. Moves(t) /\ pc'[t] = "join" /\ local'[t] = local[t]
    BY <1>3, <2>1, GotoOnly, Typed
  <2>3. Knows(t)'
    BY <1>1, <1>2, <1>3, <2>2 DEF Walk, shared, Knows, Comparing
  <2>4. Safe'
    BY <2>2, SafeStill DEF Walk, shared
  <2>5. QED
    BY <2>2, <2>3, <2>4, QuietStep DEF Walk, At, Joining, Inside
<1>4. CASE next # Null /\ Set(t, [r EXCEPT !.last = next]) /\ UNCHANGED pc
  <2>1. next \in Segs
    <3>1. r.last \in Segments
      BY <1>1, Typed DEF Walk, At, Fits, MovingOn, Segs
    <3>2. QED
      BY <1>2, <3>1 DEF IInv, Types
  <2>2. PICK s \in Locals : s = [r EXCEPT !.last = next]
    BY <2>1 DEF Locals
  <2>3. s.segment = r.segment /\ s.first = r.first /\ s.last = next
    BY <2>2 DEF Locals
  <2>4. Fits("walk", s) /\ "walk" \in Locations
    BY <1>1, <1>4, <2>3, Typed DEF Walk, At, Fits, Having, MovingOn, Locations
  <2>5. Goto(t, "walk")
    BY <1>4, Typed DEF Walk, At, Goto, Types
  <2>6. Moves(t) /\ pc'[t] = "walk" /\ local'[t] = s
    BY <1>4, <2>2, <2>4, <2>5, GotoSet, Typed
  <2>7. Knows(t)'
    BY <2>6 DEF Knows, Comparing
  <2>8. Safe'
    BY <2>6, SafeStill DEF Walk, shared
  <2>9. QED
    BY <1>1, <1>2, <1>4, <2>3, <2>6, <2>7, <2>8, QuietStep DEF Walk, At, Joining, Inside
<1>5. QED
  BY <1>1, <1>2, <1>3, <1>4 DEF Walk

-----------------------------------------------------------------------------
(* The pop.                                                                *)

\* The head of the list can be read.
LEMMA HeadIsSafe ==
  ASSUME IInv, abandoned.ptr # Null
  PROVE  /\ abandoned.ptr \in mapped
         /\ \A t \in Threads : local[t].segment # abandoned.ptr
<1>1. PICK L \in SUBSET Segments, V \in SUBSET Segments, M \in [Threads -> SUBSET Segments] :
        Lists(L, V, M)
  BY DEF IInv
<1>2. QED
  BY <1>1 DEF Lists, List

\* PopLoad, and PopAgain after it.
LEMMA PopStep ==
  ASSUME MiAbandonedAssumption, IInv, NEW t \in Threads, pc[t] \in {"load", "take"},
         Goto(t, IF abandoned.ptr = Null THEN "leave" ELSE "read"),
         Set(t, [NoLocal EXCEPT !.ts = abandoned]), UNCHANGED shared
  PROVE  IInv'
<1>1. PICK s \in Locals : s = [NoLocal EXCEPT !.ts = abandoned]
  BY NoLocalFits, Typed DEF Locals
<1>2. s.segment = Null /\ s.first = Null /\ s.ts = abandoned
  BY <1>1, NoLocalFits DEF Locals, NoLocal
<1>3. PICK l : l = IF abandoned.ptr = Null THEN "leave" ELSE "read"
  OBVIOUS
<1>4. Fits(l, s) /\ l \in Locations
  BY <1>2, <1>3 DEF Fits, Having, MovingOn, Inside, Locations
<1>5. Moves(t) /\ pc'[t] = l /\ local'[t] = s
  BY <1>1, <1>3, <1>4, GotoSet, Typed
<1>6. UNCHANGED <<abandoned, visited, readers, abandoned_next, thread_id, mapped>>
  BY DEF shared
<1>7. Knows(t)'
  BY <1>2, <1>3, <1>5, <1>6, TagsCompare DEF Knows
<1>8. Safe'
  <2>1. \A u \in Threads : pc'[u] = "release" => pc[u] = "release" /\ local'[u] = local[u]
    BY <1>3, <1>5 DEF Moves
  <2>2. ASSUME NEW u \in Threads, pc'[u] = "read"
        PROVE  /\ local'[u].ts.ptr \in mapped
               /\ \A v \in Threads : pc'[v] = "release" => local'[v].segment # local'[u].ts.ptr
    <3>1. CASE u = t
      BY <1>2, <1>3, <1>5, <2>1, <2>2, <3>1, HeadIsSafe
    <3>2. CASE u # t
      BY <1>5, <2>1, <2>2, <3>2 DEF Moves, IInv, Safe
    <3>3. QED
      BY <3>1, <3>2
  <2>3. QED
    BY <1>6, <2>2 DEF Safe
<1>9. local[t].first = Null /\ pc[t] \notin Joining
  BY Typed DEF Fits, MovingOn, Joining
<1>10. QED
  BY <1>2, <1>3, <1>5, <1>7, <1>8, <1>9, QuietStep DEF Joining, Inside

\* PopLoad preserves the invariant.
LEMMA PopLoadKeeps ==
  ASSUME MiAbandonedAssumption, IInv, NEW t \in Threads, PopLoad(t) PROVE IInv'
  BY PopStep DEF PopLoad, At

\* PopAgain preserves the invariant.
LEMMA PopAgainKeeps ==
  ASSUME MiAbandonedAssumption, IInv, NEW t \in Threads, PopAgain(t) PROVE IInv'
  BY PopStep DEF PopAgain, At

\* PopRead preserves the invariant.
LEMMA PopReadKeeps ==
  ASSUME MiAbandonedAssumption, IInv, NEW t \in Threads, PopRead(t) PROVE IInv'
<1>1. PICK r \in Locals : r = local[t]
  BY Typed
<1>2. PICK next : next = abandoned_next[r.ts.ptr]
  OBVIOUS
<1>3. next \in Segs
  <2>1. r.ts.ptr \in Segments
    BY <1>1, Typed DEF PopRead, At, Fits, Segs
  <2>2. QED
    BY <1>2, <2>1 DEF IInv, Types
<1>4. PICK s \in Locals : s = [r EXCEPT !.anext = next]
  BY <1>3 DEF Locals
<1>5. s.segment = r.segment /\ s.first = r.first /\ s.last = r.last /\ s.ts = r.ts /\ s.anext = next
  BY <1>4 DEF Locals
<1>6. Fits("take", s) /\ "take" \in Locations
  BY <1>1, <1>5, Typed DEF PopRead, At, Fits, Having, MovingOn, Inside, Locations
<1>7. Moves(t) /\ pc'[t] = "take" /\ local'[t] = s
  BY <1>1, <1>2, <1>4, <1>6, GotoSet, Typed DEF PopRead
<1>8. Knows(t)'
  BY <1>1, <1>2, <1>5, <1>7, Typed DEF PopRead, At, shared, Knows, Comparing
<1>9. Safe'
  BY <1>7, SafeStill DEF PopRead, shared
<1>10. QED
  BY <1>1, <1>5, <1>7, <1>8, <1>9, QuietStep DEF PopRead, At, Joining, Inside

\* PopEnter preserves the invariant.
LEMMA PopEnterKeeps ==
  ASSUME MiAbandonedAssumption, IInv, NEW t \in Threads, PopEnter(t) PROVE IInv'
<1>1. Fits("load", local[t]) /\ "load" \in Locations
  BY Typed DEF PopEnter, At, Fits, Having, MovingOn, Inside, Locations
<1>2. Moves(t) /\ pc'[t] = "load" /\ local'[t] = local[t]
  BY <1>1, GotoOnly, Typed DEF PopEnter
<1>3. Counted'
  <2>1. Readers' = Readers \cup {t} /\ t \notin Readers
    BY <1>2 DEF PopEnter, At, Readers, Moves, Inside
  <2>2. IsFiniteSet(Readers \cup {t}) /\ Cardinality(Readers \cup {t}) = Cardinality(Readers) + 1
    BY <2>1, FS_AddElement DEF IInv, Counted
  <2>3. QED
    BY <2>1, <2>2 DEF IInv, Counted, PopEnter
<1>4. Safe'
  BY <1>2, SafeStill DEF PopEnter
<1>5. Knows(t)'
  BY <1>2 DEF Knows, Comparing
<1>6. \A x : Link(x)' = Link(x)
  BY <1>2, LinkStill DEF PopEnter, At, Joining
<1>7. Touches(t, local[t].segment)
  BY DEF Touches, Mine, PopEnter
<1>8. local[t].segment # Null => /\ local[t].segment \in mapped'
                                 /\ thread_id'[local[t].segment] = NoThread
  BY DEF IInv, Held, PopEnter
<1>9. readers' \in Nat
  BY DEF IInv, Types, PopEnter
<1>10. /\ abandoned_next' \in [Segments -> Segs]
       /\ thread_id' \in [Segments -> Threads \cup {NoThread}] /\ mapped' \in SUBSET Segments
  BY DEF IInv, Types, PopEnter
<1>11. QED
  BY <1>2, <1>3, <1>4, <1>5, <1>6, <1>7, <1>8, <1>9, <1>10, TouchStep DEF PopEnter

\* PopLeave preserves the invariant.
LEMMA PopLeaveKeeps ==
  ASSUME MiAbandonedAssumption, IInv, NEW t \in Threads, PopLeave(t) PROVE IInv'
<1>1. PICK x \in Segs : x = local[t].segment
  BY Typed
<1>2. PICK s : s = [NoLocal EXCEPT !.segment = x]
  OBVIOUS
<1>3. s \in Locals /\ s.segment = x /\ s.first = Null
  BY <1>2, NoLocalFits DEF Locals, NoLocal
<1>4. Moves(t) /\ pc'[t] \in {"idle", "clear"} /\ local'[t].segment = x /\ local'[t].first = Null
  <2>1. CASE x = Null
    BY <1>1, <2>1, QuitMoves, Typed DEF PopLeave, NoLocal
  <2>2. CASE x # Null
    <3>1. Fits("clear", s) /\ "clear" \in Locations
      BY <1>3, <2>2 DEF Fits, Having, MovingOn, Locations
    <3>2. Goto(t, "clear") /\ Set(t, s)
      BY <1>1, <1>2, <2>2 DEF PopLeave
    <3>3. QED
      BY <1>3, <3>1, <3>2, GotoSet, Typed
  <2>3. QED
    BY <2>1, <2>2
<1>5. Counted'
  <2>1. Readers' = Readers \ {t} /\ t \in Readers
    BY <1>4 DEF PopLeave, At, Readers, Moves, Inside
  <2>2. /\ IsFiniteSet(Readers \ {t})
        /\ Cardinality(Readers \ {t}) = Cardinality(Readers) - 1
    BY <2>1, FS_RemoveElement DEF IInv, Counted
  <2>3. QED
    BY <2>1, <2>2 DEF IInv, Counted, PopLeave
<1>6. readers' \in Nat
  <2>1. IsFiniteSet(Readers') /\ readers' = Cardinality(Readers')
    BY <1>5 DEF Counted
  <2>2. QED
    BY <2>1, FS_CardinalityType
<1>7. Safe'
  BY <1>4, SafeStill DEF PopLeave
<1>8. Knows(t)'
  BY <1>4 DEF Knows, Comparing
<1>9. \A y : Link(y)' = Link(y)
  BY <1>4, LinkStill DEF PopLeave, At, Joining
<1>10. Touches(t, x)
  BY <1>1 DEF Touches, Mine, PopLeave
<1>11. x # Null => x \in mapped' /\ thread_id'[x] = NoThread
  BY <1>1 DEF IInv, Held, PopLeave
<1>12. /\ abandoned_next' \in [Segments -> Segs]
       /\ thread_id' \in [Segments -> Threads \cup {NoThread}] /\ mapped' \in SUBSET Segments
  BY DEF IInv, Types, PopLeave
<1>13. local[t].first = Null
  BY Typed DEF PopLeave, At, Fits, MovingOn
<1>14. QED
  BY <1>4, <1>5, <1>6, <1>7, <1>8, <1>9, <1>10, <1>11, <1>12, <1>13, TouchStep DEF PopLeave

-----------------------------------------------------------------------------
(* Steps that write to a segment of the thread.                            *)

\* A step of a thread that writes to a segment of its own.
LEMMA WriteStep ==
  ASSUME MiAbandonedAssumption, IInv, NEW t \in Threads, NEW s, Moves(t), Touches(t, s),
         UNCHANGED <<abandoned, visited, readers>>,
         abandoned_next' \in [Segments -> Segs],
         thread_id' \in [Segments -> Threads \cup {NoThread}], mapped' \in SUBSET Segments,
         pc[t] \notin MovingOn, pc'[t] \notin MovingOn,
         pc[t] \notin Inside, pc'[t] \notin Inside,
         local'[t].segment \in {s, Null},
         local'[t].segment # Null => s \in mapped' /\ thread_id'[s] = NoThread,
         Knows(t)', Safe'
  PROVE  IInv'
<1>1. local[t].first = Null /\ local'[t].first = Null
  BY Typed DEF Fits, Moves
<1>2. ASSUME NEW r \in Segments, r # s PROVE Link(r)' = Link(r)
  BY <1>2, LinkStill DEF Touches, Joining, MovingOn
<1>3. Counted'
  BY CountedStill
<1>4. readers' \in Nat
  BY DEF IInv, Types
<1>5. QED
  BY <1>1, <1>2, <1>3, <1>4, TouchStep

\* Alloc preserves the invariant.
LEMMA AllocKeeps ==
  ASSUME MiAbandonedAssumption, IInv, NEW t \in Threads, NEW s \in Segments, Alloc(t, s)
  PROVE  IInv'
<1>1. Moves(t) /\ pc'[t] = "idle" /\ local'[t] = local[t] /\ pc[t] = "idle"
  BY Typed DEF Alloc, At, Moves, Types
<1>2. Touches(t, s)
  BY DEF Alloc, Touches, Mine, IInv, Types
<1>3. local'[t].segment = Null
  BY <1>1, Typed DEF Fits, Having
<1>4. Knows(t)'
  BY <1>1 DEF Knows, Comparing
<1>5. Safe'
  BY <1>1, SafeStill DEF Alloc
<1>6. /\ abandoned_next' \in [Segments -> Segs]
      /\ thread_id' \in [Segments -> Threads \cup {NoThread}] /\ mapped' \in SUBSET Segments
  BY DEF IInv, Types, Alloc, Segs
<1>7. QED
  BY <1>1, <1>2, <1>3, <1>4, <1>5, <1>6, WriteStep DEF Alloc, MovingOn, Inside

\* Free, and Abandon up to the push: the thread gives up a segment it owns.
LEMMA GiveUpStep ==
  ASSUME MiAbandonedAssumption, IInv, NEW t \in Threads, NEW s \in Segments,
         NEW l \in {"await", "push"}, pc[t] = "idle", s \in mapped, thread_id[s] = t,
         thread_id' = [thread_id EXCEPT ![s] = NoThread],
         Goto(t, l), Set(t, [NoLocal EXCEPT !.segment = s]),
         abandoned_next' \in {abandoned_next, [abandoned_next EXCEPT ![s] = Null]},
         UNCHANGED <<abandoned, visited, readers, mapped>>
  PROVE  IInv'
<1>1. PICK r : r = [NoLocal EXCEPT !.segment = s]
  OBVIOUS
<1>2. r \in Locals /\ r.segment = s /\ r.first = Null
  BY <1>1, NoLocalFits DEF Locals, NoLocal, Segs
<1>3. Fits(l, r) /\ l \in Locations
  BY <1>2 DEF Fits, Having, MovingOn, Locations, MiAbandonedAssumption
<1>4. Moves(t) /\ pc'[t] = l /\ local'[t] = r
  BY <1>1, <1>2, <1>3, GotoSet, Typed
<1>5. Touches(t, s)
  BY DEF Touches, Mine, IInv, Types
<1>6. Knows(t)'
  BY <1>4 DEF Knows, Comparing
<1>7. Safe'
  BY <1>4, SafeStill
<1>8. /\ abandoned_next' \in [Segments -> Segs]
      /\ thread_id' \in [Segments -> Threads \cup {NoThread}] /\ mapped' \in SUBSET Segments
      /\ s \in mapped' /\ thread_id'[s] = NoThread
  BY DEF IInv, Types, Segs
<1>9. QED
  BY <1>2, <1>4, <1>5, <1>6, <1>7, <1>8, WriteStep DEF MovingOn, Inside

\* Free preserves the invariant.
LEMMA FreeKeeps ==
  ASSUME MiAbandonedAssumption, IInv, NEW t \in Threads, NEW s \in Segments, Free(t, s)
  PROVE  IInv'
  BY GiveUpStep DEF Free, At

\* Abandon preserves the invariant.
LEMMA AbandonKeeps ==
  ASSUME MiAbandonedAssumption, IInv, NEW t \in Threads, NEW s \in Segments, Abandon(t, s)
  PROVE  IInv'
  BY GiveUpStep DEF Abandon, At

\* Release preserves the invariant.
LEMMA ReleaseKeeps ==
  ASSUME MiAbandonedAssumption, IInv, NEW t \in Threads, Release(t) PROVE IInv'
<1>1. PICK s : s = local[t].segment
  OBVIOUS
<1>2. Moves(t) /\ pc'[t] = "idle" /\ local'[t] = NoLocal /\ NoLocal.segment = Null
  BY QuitMoves, Typed DEF Release, NoLocal
<1>3. Touches(t, s)
  BY <1>1 DEF Release, Touches, Mine
<1>4. Knows(t)'
  BY <1>2 DEF Knows, Comparing
<1>5. Safe'
  BY <1>1, <1>2 DEF Release, At, IInv, Safe, Moves
<1>6. /\ abandoned_next' \in [Segments -> Segs]
      /\ thread_id' \in [Segments -> Threads \cup {NoThread}] /\ mapped' \in SUBSET Segments
  BY DEF IInv, Types, Release
<1>7. QED
  BY <1>2, <1>3, <1>4, <1>5, <1>6, WriteStep DEF Release, At, MovingOn, Inside

\* The links that PushLink, VisitLink and PopClear write.
LEMMA LinkStep ==
  ASSUME MiAbandonedAssumption, IInv, NEW t \in Threads, NEW next \in Segs, NEW l,
         \/ pc[t] = "push link" /\ l = "push swap" /\ next = local[t].ts.ptr
         \/ pc[t] = "visit link" /\ l = "visit swap" /\ next = local[t].anext
         \/ pc[t] = "clear" /\ l = "popped",
         abandoned_next' = [abandoned_next EXCEPT ![local[t].segment] = next],
         Goto(t, l), UNCHANGED <<abandoned, visited, readers, thread_id, mapped, local>>
  PROVE  IInv'
<1>1. PICK s : s = local[t].segment
  OBVIOUS
<1>2. s \in Segments /\ s \in mapped /\ thread_id[s] = NoThread
  BY <1>1, Typed DEF Fits, Having, Segs, IInv, Held
<1>3. Fits(l, local[t]) /\ l \in Locations
  BY Typed DEF Fits, Having, MovingOn, Locations
<1>4. Moves(t) /\ pc'[t] = l /\ local'[t] = local[t]
  BY <1>3, GotoOnly, Typed
<1>5. Touches(t, s)
  BY <1>1 DEF Touches, Mine, IInv, Types
<1>6. /\ abandoned_next' \in [Segments -> Segs] /\ abandoned_next'[s] = next
      /\ thread_id' \in [Segments -> Threads \cup {NoThread}] /\ mapped' \in SUBSET Segments
  BY <1>1, <1>2 DEF IInv, Types, Segs
<1>7. Knows(t)'
  <2>1. Knows(t)
    BY Typed
  <2>2. QED
    BY <1>1, <1>4, <1>6, <2>1 DEF Knows, Comparing
<1>8. Safe'
  BY <1>4, SafeStill
<1>9. QED
  BY <1>1, <1>2, <1>4, <1>5, <1>6, <1>7, <1>8, WriteStep DEF MovingOn, Inside

\* PushLink preserves the invariant.
LEMMA PushLinkKeeps ==
  ASSUME MiAbandonedAssumption, IInv, NEW t \in Threads, PushLink(t) PROVE IInv'
  BY Typed, LinkStep DEF PushLink, At

\* VisitLink preserves the invariant.
LEMMA VisitLinkKeeps ==
  ASSUME MiAbandonedAssumption, IInv, NEW t \in Threads, VisitLink(t) PROVE IInv'
  BY Typed, LinkStep DEF VisitLink, At

\* PopClear preserves the invariant.
LEMMA PopClearKeeps ==
  ASSUME MiAbandonedAssumption, IInv, NEW t \in Threads, PopClear(t) PROVE IInv'
<1>1. Null \in Segs
  BY DEF Segs
<1>2. QED
  BY <1>1, LinkStep DEF PopClear, At

\* Popped preserves the invariant.
LEMMA PoppedKeeps ==
  ASSUME MiAbandonedAssumption, IInv, NEW t \in Threads, Popped(t) PROVE IInv'
<1>1. PICK s : s = local[t].segment
  OBVIOUS
<1>2. CASE thread_id' = [thread_id EXCEPT ![s] = t] /\ Quit(t)
  <2>1. Moves(t) /\ pc'[t] = "idle" /\ local'[t] = NoLocal /\ NoLocal.segment = Null
    BY <1>2, QuitMoves, Typed DEF NoLocal
  <2>2. Touches(t, s)
    BY <1>1, <1>2 DEF Popped, Touches, Mine, IInv, Types
  <2>3. Knows(t)'
    BY <2>1 DEF Knows, Comparing
  <2>4. Safe'
    BY <2>1, SafeStill DEF Popped
  <2>5. /\ abandoned_next' \in [Segments -> Segs]
        /\ thread_id' \in [Segments -> Threads \cup {NoThread}] /\ mapped' \in SUBSET Segments
    BY <1>2 DEF IInv, Types, Popped
  <2>6. QED
    BY <2>1, <2>2, <2>3, <2>4, <2>5, WriteStep DEF Popped, At, MovingOn, Inside
<1>3. CASE (Goto(t, "await") \/ Goto(t, "visit")) /\ UNCHANGED <<thread_id, local>>
  BY <1>3, GoesOn DEF Popped, At, shared
<1>4. QED
  BY <1>1, <1>2, <1>3 DEF Popped

-----------------------------------------------------------------------------
(* Steps that change a list.                                               *)

\* The segments of X stay on a list: they keep links and owners.
Stays(X) ==
  /\ X \in SUBSET mapped'
  /\ \A s \in X : Link(s)' = Link(s) /\ thread_id'[s] = NoThread
  /\ \A s \in X : \A t \in Threads : local'[t].segment # s

\* s can be on a list.
Loose(s) ==
  s \in mapped' /\ thread_id'[s] = NoThread /\ \A t \in Threads : local'[t].segment # s

\* A segment is pushed in front of a list.
LEMMA PushedList ==
  ASSUME NEW X, NEW h, List(X, h), Stays(X), NEW x, x \notin X, x # Null,
         Loose(x), Link(x)' = h
  PROVE  List(X \cup {x}, x)'
<1>1. ASSUME NEW s \in X \cup {x}, Link(s)' # Null
      PROVE  Link(s)' \in X /\ Link(s)' # x
  BY <1>1 DEF Stays, List
<1>2. ASSUME NEW s \in X \cup {x}, NEW r \in X \cup {x}, Link(s)' = Link(r)'
      PROVE  s = r \/ Link(s)' = Null
  BY <1>2 DEF Stays, List
<1>3. /\ X \cup {x} \in SUBSET mapped'
      /\ \A s \in X \cup {x} : /\ thread_id'[s] = NoThread
                               /\ \A t \in Threads : local'[t].segment # s
  BY DEF Stays, Loose
<1>4. QED
  BY <1>1, <1>2, <1>3 DEF List

\* The head is taken off a list.
LEMMA PoppedList ==
  ASSUME NEW X, NEW h, List(X, h), h # Null, Stays(X \ {h}), NEW g, g = Link(h)
  PROVE  List(X \ {h}, g)'
<1>1. ASSUME NEW s \in X \ {h}, Link(s)' # Null
      PROVE  Link(s)' \in X \ {h} /\ Link(s)' # g
  BY <1>1 DEF Stays, List
<1>2. ASSUME NEW s \in X \ {h}, NEW r \in X \ {h}, Link(s)' = Link(r)'
      PROVE  s = r \/ Link(s)' = Null
  BY <1>2 DEF Stays, List
<1>3. g # Null => g \in X \ {h}
  BY DEF List
<1>4. QED
  BY <1>1, <1>2, <1>3 DEF List, Stays

\* One list is put in front of another: its last segment is linked to h.
LEMMA JoinedLists ==
  ASSUME NEW X, NEW h, List(X, h), NEW Y, NEW g, List(Y, g), g # Null, X \cap Y = {},
         NEW last \in Y, Link(last)' = h, Stays(X), Stays(Y \ {last}), Loose(last)
  PROVE  List(X \cup Y, g)'
<1>1. ASSUME NEW s \in X \cup Y, Link(s)' # Null
      PROVE  Link(s)' \in X \cup Y /\ Link(s)' # g
  BY <1>1 DEF Stays, List
<1>2. ASSUME NEW s \in X \cup Y, NEW r \in X \cup Y, Link(s)' = Link(r)', Link(s)' # Null
      PROVE  s = r
  <2>1. ASSUME NEW x \in X PROVE Link(x)' # Null => Link(x)' \in X /\ Link(x)' # h
    BY DEF Stays, List
  <2>2. ASSUME NEW x \in Y \ {last} PROVE Link(x)' # Null => Link(x)' \in Y
    BY DEF Stays, List
  <2>3. h # Null => h \in X
    BY DEF List
  <2>4. CASE s \in X /\ r \in X
    BY <1>2, <2>4 DEF Stays, List
  <2>5. CASE s \in Y \ {last} /\ r \in Y \ {last}
    BY <1>2, <2>5 DEF Stays, List
  <2>6. QED
    BY <1>2, <2>1, <2>2, <2>3, <2>4, <2>5
<1>3. /\ X \cup Y \in SUBSET mapped'
      /\ \A s \in X \cup Y : /\ thread_id'[s] = NoThread
                             /\ \A t \in Threads : local'[t].segment # s
  BY DEF Stays, Loose
<1>4. QED
  BY <1>1, <1>2, <1>3 DEF List

\* When nothing is written and t takes no segment of X, X stays.
LEMMA StaysPut ==
  ASSUME NEW t \in Threads, Moves(t), UNCHANGED <<thread_id, mapped>>,
         NEW X, NEW h, List(X, h), NEW Y, Y \subseteq X,
         \A s \in Y : Link(s)' = Link(s), \A s \in Y : local'[t].segment # s
  PROVE  Stays(Y)
  BY DEF Stays, List, Moves

LEMMA StaysList ==
  ASSUME NEW X, NEW h, List(X, h), Stays(X) PROVE List(X, h)'
  BY ListStill DEF Stays

\* The lists after a step of t: B, W, and what the threads move.
LEMMA ListsAfter ==
  ASSUME NEW t \in Threads, Moves(t),
         NEW L \in SUBSET Segments, NEW V \in SUBSET Segments,
         NEW M \in [Threads -> SUBSET Segments], Lists(L, V, M),
         NEW B, NEW W, NEW N \in [Threads -> SUBSET Segments],
         List(B, abandoned.ptr)', List(W, visited)',
         List(N[t], local[t].first)', local'[t].first # Null => local'[t].last \in N[t],
         \A u \in Threads \ {t} : N[u] = M[u] /\ Stays(M[u]),
         B \cap W = {}, N[t] \cap (B \cup W) = {},
         \A u \in Threads \ {t} : M[u] \cap (B \cup W \cup N[t]) = {}
  PROVE  Lists(B, W, N)'
<1>1. ASSUME NEW u \in Threads \ {t}
      PROVE  /\ List(N[u], local[u].first)'
             /\ local'[u].first # Null => local'[u].last \in N[u]
  <2>1. PICK h : h = local[u].first
    OBVIOUS
  <2>2. List(M[u], h) /\ (local[u].first # Null => local[u].last \in M[u])
    BY <2>1 DEF Lists
  <2>3. List(M[u], h)'
    BY <2>2, StaysList
  <2>4. local'[u] = local[u]
    BY DEF Moves
  <2>5. QED
    BY <2>1, <2>2, <2>3, <2>4 DEF List
<1>2. \A u \in Threads : List(N[u], local[u].first)'
  BY <1>1
<1>3. \A u \in Threads : local'[u].first # Null => local'[u].last \in N[u]
  BY <1>1
<1>4. \A u \in Threads : N[u] \cap (B \cup W) = {}
  OBVIOUS
<1>5. ASSUME NEW u \in Threads, NEW v \in Threads, u # v PROVE N[u] \cap N[v] = {}
  <2>1. M[u] \cap M[v] = {}
    BY <1>5 DEF Lists
  <2>2. QED
    BY <1>5, <2>1
<1>6. QED
  BY <1>2, <1>3, <1>4, <1>5 DEF Lists

\* Where t is at the end of such a step.
LEMMA SwapStep ==
  ASSUME MiAbandonedAssumption, IInv, NEW t \in Threads, Moves(t),
         NEW x \in Segs, Swap(local[t].ts, x), pc[t] \in Comparing,
         UNCHANGED <<visited, readers, abandoned_next, thread_id, mapped>>,
         pc'[t] \in {"idle", "enter", "leave"},
         pc'[t] \in Inside <=> pc[t] \in Inside,
         Held',
         NEW L \in SUBSET Segments, NEW M \in [Threads -> SUBSET Segments],
         NEW V \in SUBSET Segments, Lists(L, V, M)'
  PROVE  IInv'
<1>1. PICK n \in 0 .. MaxTag : n = abandoned.tag
  BY Typed DEF IInv, Types, Tagged
<1>2. n + 1 \in 0 .. MaxTag /\ n \in Nat
  BY <1>1 DEF Swap, MiAbandonedAssumption
<1>3. abandoned'.tag = n + 1 /\ abandoned' \in Tagged
  BY <1>1, <1>2 DEF Swap, Tagged, Segs
<1>4. ASSUME NEW u \in Threads PROVE Knows(u)'
  <2>1. CASE u = t
    BY <2>1 DEF Knows, Comparing
  <2>2. CASE u # t
    <3>1. Knows(u) /\ pc'[u] = pc[u] /\ local'[u] = local[u]
      BY <2>2, Typed DEF Moves
    <3>2. pc[u] \in Comparing => local'[u].ts.tag # n + 1 /\ local'[u].ts.tag =< n + 1
      <4>1. local[u].ts \in Tagged
        BY Typed
      <4>2. PICK m \in 0 .. MaxTag : m = local[u].ts.tag
        BY <4>1 DEF Tagged
      <4>3. m \in Nat
        BY DEF MiAbandonedAssumption
      <4>4. pc[u] \in Comparing => m =< n
        BY <1>1, <3>1, <4>2 DEF Knows
      <4>5. m =< n => m # n + 1 /\ m =< n + 1
        BY <1>2, <4>3
      <4>6. QED
        BY <3>1, <4>2, <4>4, <4>5
    <3>3. pc[u] \in Comparing => local'[u].ts # abandoned'
      BY <1>3, <3>2
    <3>4. QED
      BY <1>3, <3>1, <3>2, <3>3 DEF Knows, Comparing
  <2>3. QED
    BY <2>1, <2>2
<1>5. Types'
  BY <1>3, MovesTyped DEF IInv, Types
<1>6. \A u \in Threads : Fits(pc[u], local[u])'
  BY MovesFit
<1>7. Counted' /\ Safe'
  BY CountedStill, SafeStill
<1>8. QED
  BY <1>4, <1>5, <1>6, <1>7 DEF IInv

\* Held survives when a thread gives its segment up.
LEMMA HeldDropped ==
  ASSUME IInv, NEW t \in Threads, Moves(t), UNCHANGED <<thread_id, mapped>>,
         local'[t].segment = Null
  PROVE  Held'
  BY DEF IInv, Held, Moves

\* PushSwap preserves the invariant.
LEMMA PushSwapKeeps ==
  ASSUME MiAbandonedAssumption, IInv, NEW t \in Threads, PushSwap(t) PROVE IInv'
<1>1. PICK x : x = local[t].segment
  OBVIOUS
<1>2. /\ pc[t] = "push swap" /\ x \in Segments /\ x # Null /\ x \in mapped
      /\ thread_id[x] = NoThread /\ \A u \in Threads \ {t} : local[u].segment # x
  BY <1>1, Typed DEF PushSwap, At, Fits, Having, Segs, IInv, Held
<1>3. Moves(t) /\ pc'[t] = "idle" /\ local'[t] = NoLocal
      /\ NoLocal.segment = Null /\ NoLocal.first = Null
  BY QuitMoves, Typed DEF PushSwap, NoLocal
<1>4. PICK h : h = abandoned.ptr
  OBVIOUS
<1>5. abandoned_next[x] = h /\ abandoned'.ptr = x
  BY <1>1, <1>2, <1>4, Typed DEF PushSwap, Swap, Knows
<1>6. PICK L \in SUBSET Segments, V \in SUBSET Segments, M \in [Threads -> SUBSET Segments] :
        Lists(L, V, M)
  BY DEF IInv
<1>7. /\ x \notin L /\ x \notin V /\ \A u \in Threads : x \notin M[u]
      /\ \A u \in Threads : local[u].first # Null => local[u].last # x
  <2>1. Mine(t, x)
    BY <1>1 DEF Mine
  <2>2. QED
    BY <1>6, <2>1, MineIsLoose
<1>8. \A s : Link(s)' = Link(s)
  BY <1>2, <1>3, LinkStill DEF PushSwap, Joining
<1>9. Link(x)' = h
  <2>1. \A u \in Threads : pc[u] \in Joining => local[u].last # x
    BY <1>7, Typed DEF Fits, MovingOn, Joining
  <2>2. QED
    BY <1>5, <1>8, <2>1, LinkIs
<1>10. ASSUME NEW X \in SUBSET Segments, NEW g, List(X, g) PROVE Stays(X)
  <2>1. \A s \in X : local'[t].segment # s
    BY <1>3 DEF MiAbandonedAssumption
  <2>2. QED
    BY <1>3, <1>8, <1>10, <2>1, StaysPut DEF PushSwap
<1>11. List(L \cup {x}, abandoned.ptr)'
  <2>1. List(L, h)
    BY <1>4, <1>6 DEF Lists
  <2>2. Stays(L)
    BY <1>10, <2>1
  <2>3. \A u \in Threads : local'[u].segment # x
    BY <1>2, <1>3 DEF Moves
  <2>4. Loose(x)
    BY <1>2, <2>3 DEF PushSwap, Loose
  <2>5. List(L \cup {x}, x)'
    BY <1>2, <1>7, <1>9, <2>1, <2>2, <2>4, PushedList
  <2>6. QED
    BY <1>5, <2>5 DEF List
<1>12. Lists(L \cup {x}, V, M)'
  <2>1. PICK g : g = visited
    OBVIOUS
  <2>2. List(V, g)'
    BY <1>6, <1>10, <2>1, StaysList DEF Lists
  <2>3. List(V, visited)'
    BY <2>1, <2>2 DEF List, PushSwap
  <2>4. \A u \in Threads : Stays(M[u])
    BY <1>6, <1>10 DEF Lists
  <2>5. local[t].first = Null
    BY <1>2, Typed DEF Fits, MovingOn
  <2>6. List(M[t], local[t].first)'
    <3>1. List(M[t], Null)
      BY <1>6, <2>5 DEF Lists
    <3>2. List(M[t], Null)'
      BY <2>4, <3>1, StaysList
    <3>3. QED
      BY <1>3, <3>2 DEF List
  <2>7. /\ (L \cup {x}) \cap V = {}
        /\ \A u \in Threads : M[u] \cap (L \cup {x} \cup V) = {}
        /\ \A u \in Threads \ {t} : M[u] \cap M[t] = {}
    BY <1>6, <1>7 DEF Lists
  <2>8. QED
    BY <1>3, <1>6, <1>11, <2>3, <2>4, <2>6, <2>7, ListsAfter
<1>13. Held'
  BY <1>3, HeldDropped DEF PushSwap
<1>14. QED
  <2>1. x \in Segs /\ Swap(local[t].ts, x)
    BY <1>1, <1>2 DEF PushSwap, Segs
  <2>2. QED
    BY <1>2, <1>3, <1>12, <1>13, <2>1, SwapStep DEF PushSwap, Comparing, Inside

\* A step that leaves the head of abandoned alone.
LEMMA TurnStep ==
  ASSUME MiAbandonedAssumption, IInv, NEW t \in Threads, Moves(t),
         abandoned' = abandoned, visited' \in Segs, UNCHANGED <<readers, thread_id, mapped>>,
         abandoned_next' \in [Segments -> Segs],
         \A u \in Threads \ {t} : \A r \in Segments :
           \/ abandoned_next'[r] = abandoned_next[r]
           \/ /\ local[u].segment # r /\ abandoned.ptr # r
              /\ local[u].first # Null => local[u].last # r,
         Knows(t)', pc'[t] \notin {"read", "release"},
         pc'[t] \in Inside <=> pc[t] \in Inside,
         Held',
         NEW L \in SUBSET Segments, NEW V \in SUBSET Segments,
         NEW M \in [Threads -> SUBSET Segments], Lists(L, V, M)'
  PROVE  IInv'
<1>1. ASSUME NEW u \in Threads \ {t} PROVE Knows(u)'
  <2>1. pc'[u] = pc[u] /\ local'[u] = local[u]
    BY DEF Moves
  <2>2. QED
    BY <2>1, KnowsStill
<1>2. \A u \in Threads : Knows(u)'
  BY <1>1
<1>3. Types'
  BY MovesTyped DEF IInv, Types
<1>4. \A u \in Threads : Fits(pc[u], local[u])'
  BY MovesFit
<1>5. Counted' /\ Safe'
  BY CountedStill, SafeStill
<1>6. QED
  BY <1>2, <1>3, <1>4, <1>5 DEF IInv

\* VisitSwap preserves the invariant.
LEMMA VisitSwapKeeps ==
  ASSUME MiAbandonedAssumption, IInv, NEW t \in Threads, VisitSwap(t) PROVE IInv'
<1>1. PICK x : x = local[t].segment
  OBVIOUS
<1>2. /\ pc[t] = "visit swap" /\ x \in Segments /\ x # Null /\ x \in mapped
      /\ thread_id[x] = NoThread /\ \A u \in Threads \ {t} : local[u].segment # x
  BY <1>1, Typed DEF VisitSwap, At, Fits, Having, Segs, IInv, Held
<1>3. CASE Goto(t, "visit link") /\ Set(t, [local[t] EXCEPT !.anext = visited])
           /\ UNCHANGED visited
  BY <1>2, <1>3, VisitStep DEF VisitSwap, shared
<1>4. CASE visited = local[t].anext /\ visited' = x /\ Quit(t)
  <2>1. Moves(t) /\ pc'[t] = "idle" /\ local'[t] = NoLocal
        /\ NoLocal.segment = Null /\ NoLocal.first = Null
    BY <1>4, QuitMoves, Typed DEF NoLocal
  <2>2. PICK h, g : h = visited /\ g = abandoned.ptr
    OBVIOUS
  <2>3. abandoned_next[x] = h
    BY <1>1, <1>2, <1>4, <2>2, Typed DEF Knows
  <2>4. PICK L \in SUBSET Segments, V \in SUBSET Segments, M \in [Threads -> SUBSET Segments] :
          Lists(L, V, M)
    BY DEF IInv
  <2>5. /\ x \notin L /\ x \notin V /\ \A u \in Threads : x \notin M[u]
        /\ \A u \in Threads : local[u].first # Null => local[u].last # x
    <3>1. Mine(t, x)
      BY <1>1 DEF Mine
    <3>2. QED
      BY <2>4, <3>1, MineIsLoose
  <2>6. \A s : Link(s)' = Link(s)
    BY <1>2, <2>1, LinkStill DEF VisitSwap, Joining
  <2>7. Link(x)' = h
    <3>1. \A u \in Threads : pc[u] \in Joining => local[u].last # x
      BY <2>5, Typed DEF Fits, MovingOn, Joining
    <3>2. QED
      BY <2>3, <2>6, <3>1, LinkIs
  <2>8. ASSUME NEW X \in SUBSET Segments, NEW y, List(X, y) PROVE Stays(X)
    <3>1. \A s \in X : local'[t].segment # s
      BY <2>1 DEF MiAbandonedAssumption
    <3>2. QED
      BY <2>1, <2>6, <2>8, <3>1, StaysPut DEF VisitSwap
  <2>9. List(V \cup {x}, visited)'
    <3>1. List(V, h) /\ Stays(V)
      BY <2>2, <2>4, <2>8 DEF Lists
    <3>2. \A u \in Threads : local'[u].segment # x
      BY <1>2, <2>1 DEF Moves
    <3>3. Loose(x)
      BY <1>2, <3>2 DEF VisitSwap, Loose
    <3>4. List(V \cup {x}, x)'
      BY <1>2, <2>5, <2>7, <3>1, <3>3, PushedList
    <3>5. QED
      BY <1>4, <3>4 DEF List
  <2>10. Lists(L, V \cup {x}, M)'
    <3>1. List(L, g)'
      BY <2>2, <2>4, <2>8, StaysList DEF Lists
    <3>2. List(L, abandoned.ptr)'
      BY <2>2, <3>1 DEF List, VisitSwap
    <3>3. \A u \in Threads : Stays(M[u])
      BY <2>4, <2>8 DEF Lists
    <3>4. local[t].first = Null
      BY <1>2, Typed DEF Fits, MovingOn
    <3>5. List(M[t], local[t].first)'
      <4>1. List(M[t], Null)
        BY <2>4, <3>4 DEF Lists
      <4>2. List(M[t], Null)'
        BY <3>3, <4>1, StaysList
      <4>3. QED
        BY <2>1, <4>2 DEF List
    <3>6. /\ L \cap (V \cup {x}) = {}
          /\ \A u \in Threads : M[u] \cap (L \cup (V \cup {x})) = {}
          /\ \A u \in Threads \ {t} : M[u] \cap M[t] = {}
      BY <2>4, <2>5 DEF Lists
    <3>7. QED
      BY <2>1, <2>4, <2>9, <3>2, <3>3, <3>5, <3>6, ListsAfter
  <2>11. Held'
    BY <2>1, HeldDropped DEF VisitSwap
  <2>12. Knows(t)'
    BY <2>1 DEF Knows, Comparing
  <2>13. visited' \in Segs /\ abandoned_next' \in [Segments -> Segs]
    BY <1>2, <1>4 DEF VisitSwap, Segs, IInv, Types
  <2>14. QED
    BY <1>2, <2>1, <2>4, <2>10, <2>11, <2>12, <2>13, TurnStep DEF VisitSwap, Inside
<1>5. QED
  BY <1>1, <1>3, <1>4 DEF VisitSwap

\* Grab preserves the invariant.
LEMMA GrabKeeps ==
  ASSUME MiAbandonedAssumption, IInv, NEW t \in Threads, Grab(t) PROVE IInv'
<1>1. PICK r \in Locals : r = local[t]
  BY Typed
<1>2. PICK h, g : h = visited /\ g = abandoned.ptr
  OBVIOUS
<1>3. PICK s \in Locals : s = [r EXCEPT !.first = h, !.last = h]
  BY <1>2, Typed DEF Locals
<1>4. s.segment = r.segment /\ s.first = h /\ s.last = h
  BY <1>3 DEF Locals
<1>5. Fits("place", s) /\ "place" \in Locations /\ r.segment = Null /\ h # Null
  BY <1>1, <1>2, <1>4, Typed DEF Grab, At, Fits, Having, MovingOn, Locations
<1>6. Moves(t) /\ pc'[t] = "place" /\ local'[t] = s
  BY <1>1, <1>2, <1>3, <1>5, GotoSet, Typed DEF Grab
<1>7. PICK L \in SUBSET Segments, V \in SUBSET Segments, M \in [Threads -> SUBSET Segments] :
        Lists(L, V, M)
  BY DEF IInv
<1>8. \A x : Link(x)' = Link(x)
  BY <1>6, LinkStill DEF Grab, At, Joining
<1>9. ASSUME NEW X \in SUBSET Segments, NEW y, List(X, y) PROVE Stays(X)
  <2>1. \A x \in X : local'[t].segment # x
    BY <1>4, <1>5, <1>6 DEF MiAbandonedAssumption
  <2>2. QED
    BY <1>6, <1>8, <1>9, <2>1, StaysPut DEF Grab
<1>10. PICK N \in [Threads -> SUBSET Segments] : N = [M EXCEPT ![t] = V]
  OBVIOUS
<1>11. Lists(L, {}, N)'
  <2>1. List(L, g)'
    BY <1>2, <1>7, <1>9, StaysList DEF Lists
  <2>2. List(L, abandoned.ptr)'
    BY <1>2, <2>1 DEF List, Grab
  <2>3. List({}, visited)'
    BY DEF List, Grab
  <2>4. List(V, h)'
    BY <1>2, <1>7, <1>9, StaysList DEF Lists
  <2>5. List(N[t], local[t].first)'
    BY <1>4, <1>6, <1>10, <2>4 DEF List
  <2>6. local'[t].last \in N[t]
    BY <1>2, <1>4, <1>5, <1>6, <1>7, <1>10 DEF Lists, List
  <2>7. \A u \in Threads \ {t} : N[u] = M[u] /\ Stays(M[u])
    BY <1>7, <1>9, <1>10 DEF Lists
  <2>8. /\ L \cap {} = {}
        /\ N[t] \cap (L \cup {}) = {}
        /\ \A u \in Threads \ {t} : M[u] \cap (L \cup {} \cup N[t]) = {}
    BY <1>7, <1>10 DEF Lists
  <2>9. QED
    BY <1>6, <1>7, <2>2, <2>3, <2>5, <2>6, <2>7, <2>8, ListsAfter
<1>12. Held'
  BY <1>4, <1>5, <1>6, HeldDropped DEF Grab
<1>13. Knows(t)'
  BY <1>6 DEF Knows, Comparing
<1>14. visited' \in Segs /\ abandoned_next' \in [Segments -> Segs]
  BY DEF Grab, Segs, IInv, Types
<1>15. {} \in SUBSET Segments
  OBVIOUS
<1>16. QED
  BY <1>6, <1>11, <1>12, <1>13, <1>14, <1>15, TurnStep DEF Grab, At, Inside

\* JoinLink preserves the invariant.
LEMMA JoinLinkKeeps ==
  ASSUME MiAbandonedAssumption, IInv, NEW t \in Threads, JoinLink(t) PROVE IInv'
<1>1. PICK x : x = local[t].last
  OBVIOUS
<1>2. pc[t] = "join link" /\ local[t].first # Null /\ x \in Segments
  BY <1>1, Typed DEF JoinLink, At, Fits, MovingOn, Segs
<1>3. Fits("join swap", local[t]) /\ "join swap" \in Locations
  BY <1>2, Typed DEF Fits, Having, MovingOn, Locations
<1>4. Moves(t) /\ pc'[t] = "join swap" /\ local'[t] = local[t]
  BY <1>3, GotoOnly, Typed DEF JoinLink
<1>5. PICK L \in SUBSET Segments, V \in SUBSET Segments, M \in [Threads -> SUBSET Segments] :
        Lists(L, V, M)
  BY DEF IInv
<1>6. ASSUME NEW s \in Segments PROVE Link(s)' = Link(s)
  <2>1. CASE s = x
    <3>1. Link(s) = Null
      BY <1>1, <1>2, <2>1, LinkIs DEF Joining
    <3>2. pc'[t] \in Joining /\ local'[t].last = s
      BY <1>1, <1>4, <2>1 DEF Joining
    <3>3. QED
      BY <3>1, <3>2, LinkIs
  <2>2. CASE s # x
    <3>1. abandoned_next'[s] = abandoned_next[s]
      BY <1>1, <2>2 DEF JoinLink, IInv, Types
    <3>2. QED
      BY <1>2, <1>4, <3>1, LinkStill DEF Joining
  <2>3. QED
    BY <2>1, <2>2
<1>7. local[t].segment = Null
  BY <1>2, Typed DEF Fits, Having
<1>8. ASSUME NEW X \in SUBSET Segments, NEW y, List(X, y) PROVE Stays(X)
  <2>1. \A s \in X : Link(s)' = Link(s) /\ local'[t].segment # s
    BY <1>4, <1>6, <1>7 DEF MiAbandonedAssumption
  <2>2. QED
    BY <1>4, <1>8, <2>1, StaysPut DEF JoinLink
<1>9. Lists(L, V, M)'
  <2>1. PICK h, g, f : h = visited /\ g = abandoned.ptr /\ f = local[t].first
    OBVIOUS
  <2>2. List(L, g)' /\ List(V, h)' /\ List(M[t], f)'
    BY <1>5, <1>8, <2>1, StaysList DEF Lists
  <2>3. List(L, abandoned.ptr)' /\ List(V, visited)' /\ List(M[t], local[t].first)'
    BY <1>4, <2>1, <2>2 DEF List, JoinLink
  <2>4. /\ local'[t].last \in M[t]
        /\ \A u \in Threads \ {t} : Stays(M[u])
        /\ L \cap V = {} /\ M[t] \cap (L \cup V) = {}
    BY <1>2, <1>4, <1>5, <1>8 DEF Lists
  <2>5. \A u \in Threads \ {t} : M[u] \cap (L \cup V \cup M[t]) = {}
    BY <1>5 DEF Lists
  <2>6. QED
    BY <1>4, <1>5, <2>3, <2>4, <2>5, ListsAfter
<1>10. Held'
  BY <1>4, <1>7, HeldDropped DEF JoinLink
<1>11. abandoned_next' \in [Segments -> Segs] /\ abandoned_next'[x] = local[t].ts.ptr
  BY <1>1, <1>2, Typed DEF JoinLink, IInv, Types
<1>12. Knows(t)'
  <2>1. Knows(t)
    BY Typed
  <2>2. QED
    BY <1>1, <1>2, <1>4, <1>11, <2>1 DEF JoinLink, Knows, Comparing
<1>13. ASSUME NEW u \in Threads \ {t}, NEW r \in Segments
       PROVE  \/ abandoned_next'[r] = abandoned_next[r]
              \/ /\ local[u].segment # r /\ abandoned.ptr # r
                 /\ local[u].first # Null => local[u].last # r
  <2>1. CASE r # x
    BY <1>1, <2>1 DEF JoinLink, IInv, Types
  <2>2. CASE r = x
    <3>1. x \in M[t]
      BY <1>1, <1>2, <1>5 DEF Lists
    <3>2. local[u].segment # x
      BY <1>5, <3>1 DEF Lists, List
    <3>3. abandoned.ptr # x
      <4>1. x \notin L /\ x # Null
        BY <1>2, <1>5, <3>1 DEF Lists, MiAbandonedAssumption
      <4>2. QED
        BY <1>5, <4>1 DEF Lists, List
    <3>4. local[u].first # Null => local[u].last # x
      BY <1>1, <1>2, LastIsOwn
    <3>5. QED
      BY <2>2, <3>2, <3>3, <3>4
  <2>3. QED
    BY <2>1, <2>2
<1>14. visited' \in Segs
  BY Typed DEF JoinLink
<1>15. QED
  BY <1>2, <1>4, <1>9, <1>10, <1>11, <1>12, <1>13, <1>14, TurnStep DEF JoinLink, Inside

\* The end of a move: nothing is left to be moved.
LEMMA RevisitTrueMoves ==
  ASSUME MiAbandonedAssumption, IInv, NEW t \in Threads, RevisitTrue(t)
  PROVE  /\ Moves(t) /\ pc'[t] \in {"idle", "enter"} /\ local'[t] = NoLocal
         /\ local'[t].segment = Null /\ local'[t].first = Null
<1>1. Fits("enter", NoLocal) /\ "enter" \in Locations /\ NoLocal.segment = Null
      /\ NoLocal.first = Null
  BY DEF Fits, Having, MovingOn, Locations, NoLocal
<1>2. CASE local[t].force
  BY <1>1, <1>2, QuitMoves, Typed DEF RevisitTrue
<1>3. CASE ~ local[t].force
  BY <1>1, <1>3, NoLocalFits, GotoSet, Typed DEF RevisitTrue
<1>4. QED
  BY <1>2, <1>3

\* The empty list.
LEMMA EmptyList == List({}, Null) /\ List({}, Null)'
  BY DEF List

\* PlaceSwap preserves the invariant.
LEMMA PlaceSwapKeeps ==
  ASSUME MiAbandonedAssumption, IInv, NEW t \in Threads, PlaceSwap(t) PROVE IInv'
<1>1. PICK h, f : h = visited /\ f = local[t].first
  OBVIOUS
<1>2. /\ pc[t] = "place swap" /\ f \in Segs /\ f # Null /\ local[t].segment = Null
      /\ local[t].ts.ptr = Null
  BY <1>1, Typed DEF PlaceSwap, At, Fits, MovingOn, Having
<1>3. CASE Swap(local[t].ts, f) /\ RevisitTrue(t)
  <2>1. /\ Moves(t) /\ pc'[t] \in {"idle", "enter"} /\ local'[t] = NoLocal
        /\ local'[t].segment = Null /\ local'[t].first = Null
    BY <1>3, RevisitTrueMoves
  <2>2. PICK L \in SUBSET Segments, V \in SUBSET Segments, M \in [Threads -> SUBSET Segments] :
          Lists(L, V, M)
    BY DEF IInv
  <2>3. \A s : Link(s)' = Link(s)
    BY <1>2, <2>1, LinkStill DEF PlaceSwap, Joining
  <2>4. ASSUME NEW X \in SUBSET Segments, NEW y, List(X, y) PROVE Stays(X)
    <3>1. \A s \in X : local'[t].segment # s
      BY <2>1 DEF MiAbandonedAssumption
    <3>2. QED
      BY <2>1, <2>3, <2>4, <3>1, StaysPut DEF PlaceSwap
  <2>5. PICK N \in [Threads -> SUBSET Segments] : N = [M EXCEPT ![t] = {}]
    OBVIOUS
  <2>6. Lists(M[t], V, N)'
    <3>1. List(M[t], f)' /\ List(V, h)'
      BY <1>1, <2>2, <2>4, StaysList DEF Lists
    <3>2. List(M[t], abandoned.ptr)' /\ List(V, visited)'
      BY <1>1, <1>3, <3>1 DEF List, Swap, PlaceSwap
    <3>3. List(N[t], local[t].first)'
      BY <2>1, <2>5, EmptyList DEF List
    <3>4. /\ M[t] \cap V = {} /\ N[t] = {}
          /\ \A u \in Threads \ {t} : N[u] = M[u] /\ Stays(M[u])
          /\ \A u \in Threads \ {t} : M[u] \cap (M[t] \cup V \cup N[t]) = {}
      BY <2>2, <2>4, <2>5 DEF Lists
    <3>5. QED
      BY <2>1, <2>2, <3>2, <3>3, <3>4, ListsAfter
  <2>7. Held'
    BY <2>1, HeldDropped DEF PlaceSwap
  <2>8. QED
    BY <1>2, <1>3, <2>1, <2>6, <2>7, SwapStep DEF PlaceSwap, Comparing, Inside
<1>4. CASE abandoned # local[t].ts /\ Goto(t, "walk") /\ UNCHANGED <<abandoned, local>>
  <2>1. Fits("walk", local[t]) /\ "walk" \in Locations
    BY <1>2, Typed DEF Fits, Having, MovingOn, Locations
  <2>2. Moves(t) /\ pc'[t] = "walk" /\ local'[t] = local[t]
    BY <1>4, <2>1, GotoOnly, Typed
  <2>3. Knows(t)'
    BY <2>2 DEF Knows, Comparing
  <2>4. Safe'
    BY <2>2, SafeStill DEF PlaceSwap
  <2>5. QED
    BY <1>2, <1>4, <2>2, <2>3, <2>4, QuietStep DEF PlaceSwap, shared, Joining, Inside
<1>5. QED
  BY <1>1, <1>3, <1>4 DEF PlaceSwap

\* JoinSwap preserves the invariant.
LEMMA JoinSwapKeeps ==
  ASSUME MiAbandonedAssumption, IInv, NEW t \in Threads, JoinSwap(t) PROVE IInv'
<1>1. PICK h, f, x, g : /\ h = visited /\ f = local[t].first
                        /\ x = local[t].last /\ g = abandoned.ptr
  OBVIOUS
<1>2. /\ pc[t] = "join swap" /\ f \in Segs /\ f # Null /\ x \in Segments
      /\ local[t].segment = Null /\ local[t].ts = abandoned /\ abandoned_next[x] = g
  BY <1>1, Typed DEF JoinSwap, Swap, At, Fits, MovingOn, Having, Segs, Knows
<1>3. /\ Moves(t) /\ pc'[t] \in {"idle", "enter"} /\ local'[t] = NoLocal
      /\ local'[t].segment = Null /\ local'[t].first = Null
  BY RevisitTrueMoves DEF JoinSwap
<1>4. PICK L \in SUBSET Segments, V \in SUBSET Segments, M \in [Threads -> SUBSET Segments] :
        Lists(L, V, M)
  BY DEF IInv
<1>5. ASSUME NEW s, s # x PROVE Link(s)' = Link(s)
  <2>1. (\E u \in Threads : pc'[u] \in Joining /\ local'[u].last = s)
          <=> (\E u \in Threads : pc[u] \in Joining /\ local[u].last = s)
    BY <1>1, <1>2, <1>3, <1>5 DEF Moves, Joining
  <2>2. QED
    BY <2>1, LinkIs DEF JoinSwap
<1>6. Link(x)' = g
  <2>1. ASSUME NEW u \in Threads, pc'[u] \in Joining PROVE local'[u].last # x
    <3>1. u # t /\ pc[u] \in Joining /\ local'[u] = local[u]
      BY <1>3, <2>1 DEF Moves, Joining
    <3>2. local[u].first # Null
      BY <3>1, Typed DEF Fits, MovingOn, Joining
    <3>3. QED
      BY <1>1, <1>2, <3>1, <3>2, LastIsOwn
  <2>2. QED
    BY <1>2, <2>1, LinkIs DEF JoinSwap
<1>7. ASSUME NEW X \in SUBSET Segments, NEW y, List(X, y), NEW Y, Y \subseteq X, x \notin Y
      PROVE  Stays(Y)
  <2>1. \A s \in Y : Link(s)' = Link(s) /\ local'[t].segment # s
    BY <1>3, <1>5, <1>7 DEF MiAbandonedAssumption
  <2>2. QED
    BY <1>3, <1>7, <2>1, StaysPut DEF JoinSwap
<1>8. PICK N \in [Threads -> SUBSET Segments] : N = [M EXCEPT ![t] = {}]
  OBVIOUS
<1>9. /\ x \in M[t] /\ List(M[t], f) /\ List(L, g) /\ List(V, h)
      /\ L \cap V = {} /\ L \cap M[t] = {} /\ M[t] \cap V = {}
  BY <1>1, <1>2, <1>4 DEF Lists
<1>10. List(L \cup M[t], abandoned.ptr)'
  <2>1. PICK Y : Y = M[t]
    OBVIOUS
  <2>2. List(Y, f) /\ x \in Y /\ L \cap Y = {} /\ List(L, g)
    BY <1>9, <2>1
  <2>3. Y \in SUBSET Segments /\ x \notin L
    BY <2>1, <2>2
  <2>4. Stays(L) /\ Stays(Y \ {x})
    BY <1>7, <2>2, <2>3
  <2>5. x \in mapped /\ thread_id[x] = NoThread /\ \A u \in Threads : local[u].segment # x
    BY <2>2 DEF List
  <2>6. \A u \in Threads : local'[u].segment # x
    BY <1>2, <1>3, <2>5 DEF Moves, MiAbandonedAssumption
  <2>7. Loose(x)
    BY <2>5, <2>6 DEF JoinSwap, Loose
  <2>8. List(L \cup Y, f)'
    BY <1>2, <1>6, <2>2, <2>4, <2>7, JoinedLists
  <2>9. QED
    BY <1>1, <2>1, <2>8 DEF List, Swap, JoinSwap
<1>11. Lists(L \cup M[t], V, N)'
  <2>1. List(V, h)'
    BY <1>7, <1>9, StaysList
  <2>2. List(V, visited)'
    BY <1>1, <2>1 DEF List, JoinSwap
  <2>3. List(N[t], local[t].first)'
    BY <1>3, <1>8, EmptyList DEF List
  <2>4. ASSUME NEW u \in Threads \ {t} PROVE N[u] = M[u] /\ Stays(M[u])
    <3>1. x \notin M[u] /\ List(M[u], local[u].first)
      BY <1>4, <1>9 DEF Lists
    <3>2. PICK y : y = local[u].first
      OBVIOUS
    <3>3. QED
      BY <1>7, <1>8, <3>1, <3>2
  <2>5. /\ (L \cup M[t]) \cap V = {} /\ N[t] = {}
        /\ \A u \in Threads \ {t} : M[u] \cap (L \cup M[t] \cup V \cup N[t]) = {}
    BY <1>4, <1>8 DEF Lists
  <2>6. QED
    BY <1>3, <1>4, <1>10, <2>2, <2>3, <2>4, <2>5, ListsAfter
<1>12. Held'
  BY <1>3, HeldDropped DEF JoinSwap
<1>13. QED
  BY <1>1, <1>2, <1>3, <1>11, <1>12, SwapStep DEF JoinSwap, Comparing, Inside

\* PopTake preserves the invariant.
LEMMA PopTakeKeeps ==
  ASSUME MiAbandonedAssumption, IInv, NEW t \in Threads, PopTake(t) PROVE IInv'
<1>1. PICK h, x, n : h = visited /\ x = abandoned.ptr /\ n = local[t].anext
  OBVIOUS
<1>2. /\ pc[t] = "take" /\ local[t].ts = abandoned /\ x # Null /\ x \in Segments
      /\ n \in Segs /\ n = abandoned_next[x] /\ local[t].first = Null
  BY <1>1, Typed DEF PopTake, Swap, At, Fits, MovingOn, Segs, Knows
<1>3. PICK s : s = [NoLocal EXCEPT !.segment = x]
  OBVIOUS
<1>4. s \in Locals /\ s.segment = x /\ s.first = Null
  BY <1>2, <1>3, NoLocalFits DEF Locals, NoLocal, Segs
<1>5. Fits("leave", s) /\ "leave" \in Locations
  BY <1>4 DEF Fits, Having, MovingOn, Inside, Locations
<1>6. Moves(t) /\ pc'[t] = "leave" /\ local'[t] = s
  BY <1>1, <1>2, <1>3, <1>4, <1>5, GotoSet, Typed DEF PopTake
<1>7. PICK L \in SUBSET Segments, V \in SUBSET Segments, M \in [Threads -> SUBSET Segments] :
        Lists(L, V, M)
  BY DEF IInv
<1>8. /\ x \in L /\ List(L, x) /\ List(V, h)
      /\ L \cap V = {} /\ \A u \in Threads : M[u] \cap L = {}
  BY <1>1, <1>2, <1>7 DEF Lists, List
<1>9. \A y : Link(y)' = Link(y)
  BY <1>2, <1>6, LinkStill DEF PopTake, Joining
<1>10. n = Link(x)
  <2>1. ASSUME NEW u \in Threads, pc[u] \in Joining PROVE local[u].last # x
    <3>1. local[u].first # Null
      BY <2>1, Typed DEF Fits, MovingOn, Joining
    <3>2. QED
      BY <1>7, <1>8, <3>1 DEF Lists
  <2>2. QED
    BY <1>2, <2>1, LinkIs
<1>11. ASSUME NEW X \in SUBSET Segments, NEW y, List(X, y), NEW Y, Y \subseteq X, x \notin Y
       PROVE  Stays(Y)
  <2>1. \A z \in Y : Link(z)' = Link(z) /\ local'[t].segment # z
    BY <1>4, <1>6, <1>9, <1>11
  <2>2. QED
    BY <1>6, <1>11, <2>1, StaysPut DEF PopTake
<1>12. List(L \ {x}, abandoned.ptr)'
  <2>1. Stays(L \ {x})
    BY <1>8, <1>11
  <2>2. List(L \ {x}, n)'
    BY <1>2, <1>8, <1>10, <2>1, PoppedList
  <2>3. QED
    BY <1>1, <2>2 DEF List, Swap, PopTake
<1>13. Lists(L \ {x}, V, M)'
  <2>1. Stays(V) /\ List(V, h)'
    BY <1>8, <1>11, StaysList
  <2>2. List(V, visited)'
    BY <1>1, <2>1 DEF List, PopTake
  <2>3. ASSUME NEW u \in Threads PROVE Stays(M[u])
    <3>1. x \notin M[u] /\ List(M[u], local[u].first)
      BY <1>7, <1>8 DEF Lists
    <3>2. PICK y : y = local[u].first
      OBVIOUS
    <3>3. QED
      BY <1>11, <3>1, <3>2
  <2>4. List(M[t], local[t].first)'
    <3>1. List(M[t], Null)
      BY <1>2, <1>7 DEF Lists
    <3>2. List(M[t], Null)'
      BY <2>3, <3>1, StaysList
    <3>3. QED
      BY <1>4, <1>6, <3>2 DEF List
  <2>5. /\ (L \ {x}) \cap V = {}
        /\ \A u \in Threads : M[u] \cap ((L \ {x}) \cup V) = {}
        /\ \A u \in Threads \ {t} : M[u] \cap M[t] = {}
    BY <1>7 DEF Lists
  <2>6. QED
    BY <1>4, <1>6, <1>7, <1>12, <2>2, <2>3, <2>4, <2>5, ListsAfter
<1>14. Held'
  <2>1. x \in mapped /\ thread_id[x] = NoThread /\ \A u \in Threads : local[u].segment # x
    BY <1>8 DEF List
  <2>2. QED
    BY <1>4, <1>6, <2>1 DEF IInv, Held, Moves, PopTake
<1>15. QED
  BY <1>1, <1>2, <1>6, <1>13, <1>14, SwapStep DEF PopTake, Comparing, Inside

-----------------------------------------------------------------------------
(* The invariant.                                                          *)

\* Initially.
LEMMA InitIInv == ASSUME MiAbandonedAssumption, Init PROVE IInv
<1>1. Types
  BY NoLocalFits DEF Init, Types, Tagged, Segs, Locations, MiAbandonedAssumption
<1>2. \A t \in Threads : Fits(pc[t], local[t]) /\ Knows(t)
  BY DEF Init, Fits, Knows, NoLocal, Having, MovingOn, Comparing
<1>3. Held /\ Safe
  BY DEF Init, Held, Safe, NoLocal
<1>4. Counted
  <2>1. Readers = {}
    BY DEF Init, Readers, Inside
  <2>2. QED
    BY <2>1, FS_EmptySet DEF Init, Counted
<1>5. PICK M \in [Threads -> SUBSET Segments] : M = [t \in Threads |-> {}]
  OBVIOUS
<1>6. Lists({}, {}, M)
  BY <1>5 DEF Init, Lists, List, NoLocal
<1>7. QED
  BY <1>1, <1>2, <1>3, <1>4, <1>6 DEF IInv

\* A step that changes nothing.
LEMMA Unmoved == ASSUME IInv, UNCHANGED vars PROVE IInv'
<1>1. UNCHANGED <<abandoned, visited, readers, abandoned_next, thread_id, mapped>>
      /\ UNCHANGED <<pc, local>>
  BY DEF vars
<1>2. Types' /\ Held' /\ Safe'
  BY <1>1 DEF IInv, Types, Held, Safe
<1>3. \A t \in Threads : Fits(pc[t], local[t])' /\ Knows(t)'
  BY <1>1 DEF IInv, Fits, Knows
<1>4. Counted'
  BY <1>1 DEF IInv, Counted, Readers
<1>5. PICK L \in SUBSET Segments, V \in SUBSET Segments, M \in [Threads -> SUBSET Segments] :
        Lists(L, V, M)
  BY DEF IInv
<1>6. Lists(L, V, M)'
  BY <1>1, <1>5 DEF Lists, List, Link
<1>7. QED
  BY <1>2, <1>3, <1>4, <1>6 DEF IInv

\* Every step.
LEMMA NextIInv == ASSUME MiAbandonedAssumption, IInv, [Next]_vars PROVE IInv'
<1>1. CASE UNCHANGED vars
  BY <1>1, Unmoved
<1>2. ASSUME NEW t \in Threads, NEW s \in Segments, Alloc(t, s) \/ Free(t, s) \/ Abandon(t, s)
      PROVE  IInv'
  BY <1>2, AllocKeeps, FreeKeeps, AbandonKeeps
<1>3. ASSUME NEW t \in Threads,
             \/ AwaitReaders(t) \/ Release(t)
             \/ PushLoad(t) \/ PushLink(t) \/ PushSwap(t) \/ PushAgain(t)
             \/ VisitLoad(t) \/ VisitLink(t) \/ VisitSwap(t)
      PROVE  IInv'
  BY <1>3, AwaitReadersKeeps, ReleaseKeeps, PushLoadKeeps, PushLinkKeeps, PushSwapKeeps,
     PushAgainKeeps, VisitLoadKeeps, VisitLinkKeeps, VisitSwapKeeps
<1>4. ASSUME NEW t \in Threads,
             \/ Collect(t) \/ RevisitNothing(t) \/ RevisitCheck(t) \/ Grab(t)
             \/ PlaceLoad(t) \/ PlaceSwap(t) \/ Walk(t)
             \/ JoinLoad(t) \/ JoinLink(t) \/ JoinSwap(t) \/ JoinAgain(t)
      PROVE  IInv'
  BY <1>4, CollectKeeps, RevisitNothingKeeps, RevisitCheckKeeps, GrabKeeps, PlaceLoadKeeps,
     PlaceSwapKeeps, WalkKeeps, JoinLoadKeeps, JoinLinkKeeps, JoinSwapKeeps, JoinAgainKeeps
<1>5. ASSUME NEW t \in Threads,
             \/ PopCheck(t) \/ PopEnter(t) \/ PopLoad(t) \/ PopRead(t)
             \/ PopTake(t) \/ PopAgain(t) \/ PopLeave(t) \/ PopClear(t) \/ Popped(t)
      PROVE  IInv'
  BY <1>5, PopCheckKeeps, PopEnterKeeps, PopLoadKeeps, PopReadKeeps, PopTakeKeeps,
     PopAgainKeeps, PopLeaveKeeps, PopClearKeeps, PoppedKeeps
<1>6. QED
  BY <1>1, <1>2, <1>3, <1>4, <1>5 DEF Next

\* What the invariant is for.
LEMMA IInvFollows == ASSUME IInv PROVE FollowsMapped
<1>1. ASSUME NEW t \in Threads, pc[t] \in {"walk", "join link"} PROVE local[t].last \in mapped
  <2>1. local[t].first # Null
    BY <1>1, Typed DEF Fits, MovingOn
  <2>2. QED
    BY <2>1 DEF IInv, Lists, List
<1>2. QED
  BY <1>1 DEF FollowsMapped, IInv, Safe, Held

\* The invariant holds in every state.
THEOREM Invariant == ASSUME MiAbandonedAssumption PROVE Spec => []IInv
<1>1. Init => IInv
  BY InitIInv
<1>2. IInv /\ [Next]_vars => IInv'
  BY NextIInv
<1>3. QED
  BY <1>1, <1>2, PTL DEF Spec

-----------------------------------------------------------------------------
(* What it says of the program.                                            *)

\* What a thread holds, reads or writes behind has memory: nobody reads a
\* segment that another thread has given back (mi_abandoned_pop, segment.c 1174
\* to 1204, against _mi_abandoned_await_readers, 1165).
THEOREM Follows == ASSUME MiAbandonedAssumption PROVE Spec => []FollowsMapped
<1>1. IInv => FollowsMapped
  BY IInvFollows
<1>2. QED
  BY <1>1, Invariant, PTL

\* The links of a list never lead to its head, and no two lead to one segment,
\* even while a thread links the segments it moves to those on `abandoned'.
ListsApart ==
  \E L \in SUBSET Segments, V \in SUBSET Segments, M \in [Threads -> SUBSET Segments] :
    Lists(L, V, M)

\* A segment is on one list at most, and whoever holds one has it off all of
\* them, the links included.
THEOREM Apart == ASSUME MiAbandonedAssumption PROVE Spec => []ListsApart
<1>1. IInv => ListsApart
  BY DEF IInv, ListsApart
<1>2. QED
  BY <1>1, Invariant, PTL

\* A pop that succeeds leaves the list as it stands behind the head at that
\* moment, whatever was popped and pushed since the link was read.
PopIsExact ==
  \A t \in Threads : PopTake(t) => abandoned'.ptr = abandoned_next[abandoned.ptr]

\* Every pop that succeeds is such a pop: no two states of `abandoned' have one
\* tag (mi_tagged_segment, segment.c 1068), as long as it does not come round.
THEOREM Exact == ASSUME MiAbandonedAssumption PROVE Spec => [][PopIsExact]_vars
<1>1. ASSUME IInv, NEW t \in Threads, PopTake(t)
      PROVE  abandoned'.ptr = abandoned_next[abandoned.ptr]
  BY <1>1, Typed DEF PopTake, Swap, At, Knows
<1>2. IInv => PopIsExact
  BY <1>1 DEF PopIsExact
<1>3. QED
  BY <1>2, Invariant, PTL
=============================================================================
