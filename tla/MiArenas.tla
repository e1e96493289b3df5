------------------------------ MODULE MiArenas -------------------------------
(***************************************************************************)
(* The arenas of mimalloc (arena.c): the array that threads add arenas to  *)
(* and look for memory in, without a lock; the arenas a program hands in   *)
(* or reserves, and those reserved when an allocation finds no room.       *)
(*                                                                         *)
(* How blocks are claimed inside one arena is MiArena's part: here that is *)
(* one step, which may fail when another thread is there too.  Arenas are  *)
(* of one size.                                                            *)
(***************************************************************************)
EXTENDS Integers, Sequences, FiniteSets, FiniteSetsExt

CONSTANTS
  Threads, None,
  Areas,       \* pieces of memory that an arena can be made of
  MaxArenas,   \* MI_MAX_ARENAS
  Spare,       \* how many of them allocations leave alone, 4
  AreaBlocks,  \* block_count of each arena
  Kinds,       \* the arenas that are made: memkind, exclusive, is_large, numa_node
  Asks         \* what is asked for: blocks, node, large, req

\* What the code takes for granted of an arena and of what is asked for.
ArenasAssumption ==
  /\ IsFiniteSet(Threads)
  /\ None \notin Areas
  /\ Kinds \subseteq [memkind : {"EXTERNAL", "OS"}, exclusive : BOOLEAN,
                      is_large : BOOLEAN, numa_node : Int]
  /\ Asks \subseteq [blocks : Nat \ {0}, node : Int, large : BOOLEAN, req : Nat]
  /\ MaxArenas \in Nat

VARIABLES
  mi_arenas, mi_arena_count,
  belongs,  \* area -> "nobody", or its memkind: "EXTERNAL", "OS"
  claims,   \* thread -> what it has allocated, with what was asked for
  pc, local,
  exited

vars == <<mi_arenas, mi_arena_count, belongs, claims, pc, local, exited>>

AnyNode == -1
NoId == 0   \* _mi_arena_id_none
IdOf(index) == index + 1
IndexOf(id) == id - 1

NoKind == [memkind |-> "OS", exclusive |-> FALSE, is_large |-> FALSE, numa_node |-> AnyNode]
NoAsk == [blocks |-> 0, node |-> AnyNode, large |-> FALSE, req |-> NoId]
NoArena == [area |-> None, kind |-> NoKind]
NoClaim == [id |-> NoId, area |-> None, ask |-> NoAsk]
NoLocal == [ask |-> NoAsk,
            left |-> <<>>,      \* the arenas to try: an index and match_numa_node
            arena |-> NoArena, index |-> 0,
            met |-> FALSE]      \* history: another thread was at it as well

Init ==
  /\ mi_arenas = [i \in 0 .. MaxArenas - 1 |-> NoArena]
  /\ mi_arena_count = 0
  /\ belongs = [a \in Areas |-> "nobody"]
  /\ claims = [t \in Threads |-> NoClaim]
  /\ pc = [t \in Threads |-> "idle"]
  /\ local = [t \in Threads |-> NoLocal]
  /\ exited = FALSE

At(t, p) == pc[t] = p
Goto(t, p) == pc' = [pc EXCEPT ![t] = p]
Quit(t) == Goto(t, "idle") /\ local' = [local EXCEPT ![t] = NoLocal]
Keep(t, r) == local' = [local EXCEPT ![t] = r]
IsOs(memkind) == memkind = "OS"

\* A thread begins; the ones that are under way and it have met.
Busy == {u \in Threads : ~At(u, "idle")}
Meet(t, r) ==
  local' = [u \in Threads |->
              IF u = t THEN r ELSE IF u \in Busy THEN [local[u] EXCEPT !.met = TRUE]
              ELSE local[u]]
Begin(t, p, r) ==
  /\ At(t, "idle") /\ ~exited
  /\ Goto(t, p)
  /\ Meet(t, [r EXCEPT !.met = Busy # {}])
  /\ UNCHANGED <<mi_arenas, mi_arena_count, exited>>

---------------------------------------------------------------------------
(* Adding an arena.                                                        *)

\* mi_manage_os_memory_ex: the program hands in memory of its own; or
\* mi_reserve_os_memory_ex and mi_reserve_huge_os_pages_at_ex: it is the
\* system's.
Add(t, a, kind) ==
  /\ belongs[a] = "nobody"
  /\ Begin(t, "meta", [NoLocal EXCEPT !.arena = [area |-> a, kind |-> kind]])
  /\ belongs' = [belongs EXCEPT ![a] = kind.memkind]
  /\ UNCHANGED claims

\* Where an addition that failed leads: the caller frees what it got from
\* the system; the description stays allocated.
Failed(t) ==
  LET a == local[t].arena.area IN
  /\ belongs' = [belongs EXCEPT ![a] = "nobody"]
  /\ IF local[t].ask = NoAsk THEN Quit(t)
     ELSE Goto(t, "os") /\ Keep(t, [local[t] EXCEPT !.arena = NoArena])

\* mi_arena_meta_zalloc: from the system, which may fail.  The static area is
\* asked first, but for memory aligned to MI_ALIGNMENT_MAX, which is more than
\* it has, so that it never gives any.
MetaAlloc(t) ==
  /\ At(t, "meta")
  /\ \/ Goto(t, "add") /\ UNCHANGED <<belongs, local>>
     \/ Failed(t)
  /\ UNCHANGED <<mi_arenas, mi_arena_count, claims, exited>>

\* mi_arena_add: a place in the array, ...
Increment(t) ==
  /\ At(t, "add")
  /\ mi_arena_count' = mi_arena_count + 1
  /\ Keep(t, [local[t] EXCEPT !.index = mi_arena_count])
  /\ Goto(t, IF mi_arena_count >= MaxArenas THEN "decrement" ELSE "publish")
  /\ UNCHANGED <<mi_arenas, belongs, claims, exited>>

\* Mutant of Decrement: the count stays.
DecrementForgets(t) ==
  /\ At(t, "decrement")
  /\ Failed(t)
  /\ UNCHANGED <<mi_arenas, mi_arena_count, claims, exited>>

\* ... there was none, ...
Decrement(t) ==
  /\ At(t, "decrement")
  /\ mi_arena_count' = mi_arena_count - 1
  /\ Failed(t)
  /\ UNCHANGED <<mi_arenas, claims, exited>>

\* ... or it is filled.  An arena reserved for an allocation is tried next.
Publish(t) ==
  LET r == local[t] IN
  /\ At(t, "publish")
  /\ mi_arenas' = [mi_arenas EXCEPT ![r.index] = r.arena]
  /\ IF r.ask = NoAsk THEN Quit(t)
     ELSE /\ Goto(t, "try")
          /\ Keep(t, [r EXCEPT !.left = <<<<r.index, TRUE>>>>])
  /\ UNCHANGED <<mi_arena_count, belongs, claims, exited>>

---------------------------------------------------------------------------
(* Allocation.                                                             *)

\* _mi_arena_alloc_aligned.
Alloc(t, ask) ==
  /\ claims[t] = NoClaim
  /\ Begin(t, "load", [NoLocal EXCEPT !.ask = ask])
  /\ UNCHANGED <<belongs, claims>>

\* The arenas to try, among the first of them: the one asked for, or those
\* of the thread's NUMA node, and then the others.
Candidates(max, ask) ==
  LET all(match) == [i \in 1 .. max |-> <<i - 1, match>>]
  IN  IF ask.req # NoId
      THEN IF IndexOf(ask.req) < max THEN <<<<IndexOf(ask.req), TRUE>>>> ELSE <<>>
      ELSE all(TRUE) \o (IF ask.node >= 0 THEN all(FALSE) ELSE <<>>)

\* mi_arena_try_alloc looks at the count once.
LoadCount(t) ==
  LET r == local[t] IN
  /\ At(t, "load")
  /\ Keep(t, [r EXCEPT !.left = Candidates(mi_arena_count, r.ask)])
  /\ Goto(t, "try")
  /\ UNCHANGED <<mi_arenas, mi_arena_count, belongs, claims, exited>>

\* mi_arena_id_is_suitable and the rest of what mi_arena_try_alloc_at_id asks.
IdSuitable(id, exclusive, req) == (~exclusive /\ req = NoId) \/ id = req
NumaSuitable(kind, node) == node < 0 \/ kind.numa_node < 0 \/ kind.numa_node = node
Suits(i, match, ask) ==
  LET kind == mi_arenas[i].kind IN
  /\ mi_arenas[i] # NoArena
  /\ kind.is_large => ask.large
  /\ IdSuitable(IdOf(i), kind.exclusive, ask.req)
  /\ ask.req = NoId => match = NumaSuitable(kind, ask.node)

HasRoom(i, ask) ==
  LET here == {t \in Threads : claims[t].id = IdOf(i)}
  IN  MapThenSumSet(LAMBDA t : claims[t].ask.blocks, here) + ask.blocks <= AreaBlocks

\* One arena is tried.  A count that another thread has raised for a moment
\* can lead past the array.  What is read there is not defined: a null pointer
\* is passed over, and with anything else a thread goes no further here.
Try(t) ==
  LET r == local[t]
      i == Head(r.left)[1]
  IN  /\ At(t, "try") /\ r.left # <<>>
      /\ IF i >= MaxArenas
         THEN /\ \/ Keep(t, [r EXCEPT !.left = Tail(@)]) /\ UNCHANGED pc
                 \/ Goto(t, "outside") /\ UNCHANGED local
              /\ UNCHANGED claims
         ELSE LET fits == Suits(i, Head(r.left)[2], r.ask) /\ HasRoom(i, r.ask) IN
              \/ /\ fits
                 /\ claims' = [claims EXCEPT ![t] =
                      [id |-> IdOf(i), area |-> mi_arenas[i].area, ask |-> r.ask]]
                 /\ Quit(t)
              \/ /\ ~fits \/ r.met
                 /\ Keep(t, [r EXCEPT !.left = Tail(@)])
                 /\ UNCHANGED <<pc, claims>>
      /\ UNCHANGED <<mi_arenas, mi_arena_count, belongs, exited>>

\* None is left.  mi_arena_reserve, once: not for a specific arena, nor
\* while preloading or with the option off, nor when few places are left, nor
\* for more than an arena would hold; and the system may have no memory.
TryReserve(t) ==
  LET r == local[t] IN
  /\ At(t, "try") /\ r.left = <<>>
  /\ \/ /\ Goto(t, "os") /\ UNCHANGED <<local, belongs>>
     \/ /\ r.ask.req = NoId /\ r.arena = NoArena
        /\ mi_arena_count <= MaxArenas - Spare
        /\ r.ask.blocks <= AreaBlocks
        /\ \E a \in Areas :
             /\ belongs[a] = "nobody"
             /\ belongs' = [belongs EXCEPT ![a] = "OS"]
             /\ \E large \in {FALSE, r.ask.large} :
                  Keep(t, [r EXCEPT !.arena =
                             [area |-> a, kind |-> [NoKind EXCEPT !.is_large = large]]])
        /\ Goto(t, "meta")
  /\ UNCHANGED <<mi_arenas, mi_arena_count, claims, exited>>

\* The end: memory straight from the system, or nothing, for a specific
\* arena always.
FromOs(t) ==
  /\ At(t, "os")
  /\ Quit(t)
  /\ UNCHANGED <<mi_arenas, mi_arena_count, belongs, claims, exited>>

\* _mi_arena_free of blocks in an arena, which is found by its id.
Free(t) ==
  LET c == claims[t] IN
  /\ c # NoClaim
  /\ mi_arenas[IndexOf(c.id)] # NoArena
  /\ At(t, "idle") /\ ~exited
  /\ Meet(t, NoLocal)
  /\ claims' = [claims EXCEPT ![t] = NoClaim]
  /\ UNCHANGED <<mi_arenas, mi_arena_count, belongs, pc, exited>>

\* _mi_arena_unsafe_destroy_all, when the process ends: what is the system's
\* is given back, and the count is lowered to the last arena of the rest, which
\* it does not count any more.
UnsafeDestroyAll ==
  LET owned == {i \in 0 .. mi_arena_count - 1 :
                  mi_arenas[i] # NoArena /\ IsOs(belongs[mi_arenas[i].area])}
      rest == {i \in 0 .. mi_arena_count - 1 : mi_arenas[i] # NoArena} \ owned
  IN  /\ ~exited /\ \A t \in Threads : At(t, "idle")
      /\ mi_arenas' = [i \in DOMAIN mi_arenas |-> IF i \in owned THEN NoArena ELSE mi_arenas[i]]
      /\ belongs' = [a \in Areas |-> IF \E i \in owned : mi_arenas[i].area = a
                                     THEN "nobody" ELSE belongs[a]]
      /\ mi_arena_count' = IF rest = {} THEN 0 ELSE CHOOSE i \in rest : \A j \in rest : j <= i
      /\ exited' = TRUE
      /\ UNCHANGED <<claims, pc, local>>

Next ==
  \/ \E t \in Threads :
       \/ \E a \in Areas, kind \in Kinds : Add(t, a, kind)
       \/ MetaAlloc(t) \/ Increment(t) \/ Decrement(t) \/ Publish(t)
       \/ \E ask \in Asks : Alloc(t, ask)
       \/ LoadCount(t) \/ Try(t) \/ TryReserve(t) \/ FromOs(t)
       \/ Free(t)
  \/ UnsafeDestroyAll

Spec == Init /\ [][Next]_vars

---------------------------------------------------------------------------
Published == {i \in DOMAIN mi_arenas : mi_arenas[i] # NoArena}
Adding == {local[t].arena.area : t \in {u \in Threads : ~At(u, "idle")}} \ {None}

\* An area is in one arena at most; memory of the system that is in none, and
\* that no thread is about to add, has been given back, at the end all of it.
AreasAreKept ==
  /\ \A i, j \in Published : mi_arenas[i].area = mi_arenas[j].area => i = j
  /\ \A a \in Areas : belongs[a] # "nobody" <=>
       a \in {mi_arenas[i].area : i \in Published} \cup Adding
  /\ exited => \A a \in Areas : belongs[a] # "OS"

\* What was allocated can be freed: its id leads to the arena it is in.  It is
\* in an exclusive arena, or in large pages, only as asked for.
ClaimsSuit ==
  \A t \in Threads : LET c == claims[t]
                          a == mi_arenas[IndexOf(c.id)] IN
    c # NoClaim =>
      /\ ~exited => a.area = c.area
      /\ a.kind.exclusive => c.ask.req = c.id
      /\ c.ask.req # NoId => c.ask.req = c.id
      /\ a.kind.is_large => c.ask.large

\* An allocation that no other thread disturbs is given up, or left to the
\* system, only when no arena that suits it, of whatever NUMA node, has room.
FallsBackLast ==
  \A t \in Threads : LET r == local[t] IN
    At(t, "os") /\ ~r.met =>
      \A i \in Published :
        Suits(i, TRUE, r.ask) \/ Suits(i, FALSE, r.ask) => ~HasRoom(i, r.ask)

\* No allocation looks behind the array, unless it met a thread that has raised
\* the count beyond it for a moment.  Until the end the count is beyond it only
\* while such a thread is about to lower it, and takes in every arena.
WalksInside ==
  /\ \A t \in Threads : At(t, "outside") => local[t].met
  /\ ~exited => /\ mi_arena_count > MaxArenas => \E t \in Threads : At(t, "decrement")
                /\ \A i \in Published : i < mi_arena_count

ArenasKeep == AreasAreKept /\ ClaimsSuit /\ FallsBackLast /\ WalksInside
=============================================================================
