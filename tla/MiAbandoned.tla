----------------------------- MODULE MiAbandoned -----------------------------
(***************************************************************************)
(* The two lock-free lists of abandoned segments (segment.c, 1033 to 1205): *)
(* `abandoned' with a tag in its head, because segments are popped from    *)
(* it, and `abandoned_visited', which is only pushed on and taken as a     *)
(* whole.  A thread that pops counts itself in abandoned_readers, and      *)
(* whoever gives the memory of a segment back waits until there are none.  *)
(*                                                                         *)
(* Each step is one access to shared memory; accesses are sequentially     *)
(* consistent.  The code orders them with acquire and release, and leaves  *)
(* the count of readers relaxed.                                           *)
(***************************************************************************)
EXTENDS Naturals, FiniteSets

CONSTANTS
  Threads, NoThread,
  Segments, Null,
  MaxTag        \* bound on the successful updates of `abandoned'

MiAbandonedAssumption ==
  NoThread \notin Threads /\ Null \notin Segments /\ MaxTag \in Nat

VARIABLES
  abandoned,        \* head and tag of the list that is popped from
  visited,          \* abandoned_visited
  readers,          \* abandoned_readers
  abandoned_next,   \* segment -> the one behind it
  thread_id,        \* segment -> its owner
  mapped,           \* the segments that have memory
  pc, local         \* where a thread is, and its variables

shared == <<abandoned, visited, readers, abandoned_next, thread_id, mapped>>
vars == <<abandoned, visited, readers, abandoned_next, thread_id, mapped, pc, local>>

Tagged == [ptr: Segments \cup {Null}, tag: 0 .. MaxTag]
NoLocal == [segment |-> Null, ts |-> [ptr |-> Null, tag |-> 0], anext |-> Null,
            first |-> Null, last |-> Null, force |-> FALSE]

Init ==
  /\ abandoned = [ptr |-> Null, tag |-> 0]
  /\ visited = Null
  /\ readers = 0
  /\ abandoned_next = [s \in Segments |-> Null]
  /\ thread_id = [s \in Segments |-> NoThread]
  /\ mapped = {}
  /\ pc = [t \in Threads |-> "idle"]
  /\ local = [t \in Threads |-> NoLocal]

At(t, at) == pc[t] = at
Goto(t, at) == pc' = [pc EXCEPT ![t] = at]
Set(t, r) == local' = [local EXCEPT ![t] = r]
Quit(t) == Goto(t, "idle") /\ Set(t, NoLocal)

\* Mutant of Swap: the head is stored, whatever it is by now.
SwapStores(ts, s) ==
  /\ abandoned.tag < MaxTag
  /\ abandoned' = [ptr |-> s, tag |-> abandoned.tag + 1]

\* A compare-and-swap of `abandoned' to s: mi_tagged_segment counts the tag up.
Swap(ts, s) ==
  /\ abandoned = ts
  /\ abandoned.tag < MaxTag
  /\ abandoned' = [ptr |-> s, tag |-> ts.tag + 1]

-----------------------------------------------------------------------------
(* Segments outside of the lists.                                          *)

\* mi_segment_os_alloc.
Alloc(t, s) ==
  /\ At(t, "idle") /\ s \notin mapped
  /\ mapped' = mapped \cup {s}
  /\ thread_id' = [thread_id EXCEPT ![s] = t]
  /\ abandoned_next' = [abandoned_next EXCEPT ![s] = Null]
  /\ UNCHANGED <<abandoned, visited, readers, pc, local>>

\* mi_segment_os_free, called for a segment the thread owns.
Free(t, s) ==
  /\ At(t, "idle") /\ s \in mapped /\ thread_id[s] = t
  /\ thread_id' = [thread_id EXCEPT ![s] = NoThread]
  /\ Goto(t, "await") /\ Set(t, [NoLocal EXCEPT !.segment = s])
  /\ UNCHANGED <<abandoned, visited, readers, abandoned_next, mapped>>

\* Mutant: the readers are not waited for.
AwaitNobody(t) == At(t, "await") /\ Goto(t, "release") /\ UNCHANGED <<shared, local>>

\* _mi_abandoned_await_readers sees that there are none ...
AwaitReaders(t) ==
  /\ At(t, "await") /\ readers = 0
  /\ Goto(t, "release")
  /\ UNCHANGED <<shared, local>>

\* ... and _mi_arena_free gives the memory back.
Release(t) ==
  /\ At(t, "release")
  /\ mapped' = mapped \ {local[t].segment}
  /\ Quit(t)
  /\ UNCHANGED <<abandoned, visited, readers, abandoned_next, thread_id>>

\* mi_segment_abandon up to the push.
Abandon(t, s) ==
  /\ At(t, "idle") /\ s \in mapped /\ thread_id[s] = t
  /\ thread_id' = [thread_id EXCEPT ![s] = NoThread]
  /\ abandoned_next' = [abandoned_next EXCEPT ![s] = Null]
  /\ Goto(t, "push") /\ Set(t, [NoLocal EXCEPT !.segment = s])
  /\ UNCHANGED <<abandoned, visited, readers, mapped>>

-----------------------------------------------------------------------------
(* mi_abandoned_push and mi_abandoned_visited_push.                        *)

PushLoad(t) ==
  /\ At(t, "push")
  /\ Goto(t, "push link") /\ Set(t, [local[t] EXCEPT !.ts = abandoned])
  /\ UNCHANGED shared

PushLink(t) ==
  /\ At(t, "push link")
  /\ abandoned_next' = [abandoned_next EXCEPT ![local[t].segment] = local[t].ts.ptr]
  /\ Goto(t, "push swap")
  /\ UNCHANGED <<abandoned, visited, readers, thread_id, mapped, local>>

PushSwap(t) ==
  /\ At(t, "push swap")
  /\ Swap(local[t].ts, local[t].segment)
  /\ Quit(t)
  /\ UNCHANGED <<visited, readers, abandoned_next, thread_id, mapped>>

\* A compare-and-swap fails and loads the new value; the weak form may fail
\* although nothing has changed.
PushAgain(t) ==
  /\ At(t, "push swap")
  /\ Goto(t, "push link") /\ Set(t, [local[t] EXCEPT !.ts = abandoned])
  /\ UNCHANGED shared

VisitLoad(t) ==
  /\ At(t, "visit")
  /\ Goto(t, "visit link") /\ Set(t, [local[t] EXCEPT !.anext = visited])
  /\ UNCHANGED shared

VisitLink(t) ==
  /\ At(t, "visit link")
  /\ abandoned_next' = [abandoned_next EXCEPT ![local[t].segment] = local[t].anext]
  /\ Goto(t, "visit swap")
  /\ UNCHANGED <<abandoned, visited, readers, thread_id, mapped, local>>

VisitSwap(t) ==
  /\ At(t, "visit swap")
  /\ \/ visited = local[t].anext /\ visited' = local[t].segment /\ Quit(t)
     \/ /\ Goto(t, "visit link") /\ Set(t, [local[t] EXCEPT !.anext = visited])
        /\ UNCHANGED visited
  /\ UNCHANGED <<abandoned, readers, abandoned_next, thread_id, mapped>>

-----------------------------------------------------------------------------
(* mi_abandoned_visited_revisit.  A thread that comes from a pop returns to *)
(* it if there was something to move and gives up if not; _mi_abandoned_-   *)
(* collect calls it as well, by force, and pops afterwards in any case.     *)

Forced == [NoLocal EXCEPT !.force = TRUE]
RevisitTrue(t) ==
  IF local[t].force THEN Quit(t) ELSE Goto(t, "enter") /\ Set(t, NoLocal)
RevisitFalse(t) == Quit(t)

Collect(t) == At(t, "idle") /\ Goto(t, "revisit") /\ Set(t, Forced) /\ UNCHANGED shared

\* The list is empty at a glance, or by the time it is taken.
RevisitNothing(t) ==
  /\ At(t, "revisit") \/ At(t, "grab")
  /\ visited = Null
  /\ RevisitFalse(t)
  /\ UNCHANGED shared

RevisitCheck(t) ==
  /\ At(t, "revisit") /\ visited # Null
  /\ Goto(t, "grab")
  /\ UNCHANGED <<shared, local>>

Grab(t) ==
  /\ At(t, "grab") /\ visited # Null
  /\ visited' = Null
  /\ Goto(t, "place") /\ Set(t, [local[t] EXCEPT !.first = visited, !.last = visited])
  /\ UNCHANGED <<abandoned, readers, abandoned_next, thread_id, mapped>>

PlaceLoad(t) ==
  /\ At(t, "place")
  /\ Set(t, [local[t] EXCEPT !.ts = abandoned])
  /\ Goto(t, IF abandoned.ptr = Null THEN "place swap" ELSE "walk")
  /\ UNCHANGED shared

\* `abandoned' is empty and becomes the visited list, if it still is.
PlaceSwap(t) ==
  /\ At(t, "place swap")
  /\ \/ Swap(local[t].ts, local[t].first) /\ RevisitTrue(t)
     \/ abandoned # local[t].ts /\ Goto(t, "walk") /\ UNCHANGED <<abandoned, local>>
  /\ UNCHANGED <<visited, readers, abandoned_next, thread_id, mapped>>

Walk(t) ==
  LET next == abandoned_next[local[t].last] IN
  /\ At(t, "walk")
  /\ IF next = Null THEN Goto(t, "join") /\ UNCHANGED local
     ELSE Set(t, [local[t] EXCEPT !.last = next]) /\ UNCHANGED pc
  /\ UNCHANGED shared

JoinLoad(t) ==
  /\ At(t, "join")
  /\ Goto(t, "join link") /\ Set(t, [local[t] EXCEPT !.ts = abandoned])
  /\ UNCHANGED shared

JoinLink(t) ==
  /\ At(t, "join link")
  /\ abandoned_next' = [abandoned_next EXCEPT ![local[t].last] = local[t].ts.ptr]
  /\ Goto(t, "join swap")
  /\ UNCHANGED <<abandoned, visited, readers, thread_id, mapped, local>>

JoinSwap(t) ==
  /\ At(t, "join swap")
  /\ Swap(local[t].ts, local[t].first)
  /\ RevisitTrue(t)
  /\ UNCHANGED <<visited, readers, abandoned_next, thread_id, mapped>>

JoinAgain(t) ==
  /\ At(t, "join swap")
  /\ Goto(t, "join link") /\ Set(t, [local[t] EXCEPT !.ts = abandoned])
  /\ UNCHANGED shared

-----------------------------------------------------------------------------
(* mi_abandoned_pop.                                                       *)

PopCheck(t) ==
  /\ At(t, "idle")
  /\ Goto(t, IF abandoned.ptr = Null THEN "revisit" ELSE "enter")
  /\ UNCHANGED <<shared, local>>

PopEnter(t) ==
  /\ At(t, "enter")
  /\ readers' = readers + 1
  /\ Goto(t, "load")
  /\ UNCHANGED <<abandoned, visited, abandoned_next, thread_id, mapped, local>>

PopLoad(t) ==
  /\ At(t, "load")
  /\ Goto(t, IF abandoned.ptr = Null THEN "leave" ELSE "read")
  /\ Set(t, [NoLocal EXCEPT !.ts = abandoned])
  /\ UNCHANGED shared

PopRead(t) ==
  /\ At(t, "read")
  /\ Goto(t, "take") /\ Set(t, [local[t] EXCEPT !.anext = abandoned_next[local[t].ts.ptr]])
  /\ UNCHANGED shared

PopTake(t) ==
  /\ At(t, "take")
  /\ Swap(local[t].ts, local[t].anext)
  /\ Goto(t, "leave") /\ Set(t, [NoLocal EXCEPT !.segment = local[t].ts.ptr])
  /\ UNCHANGED <<visited, readers, abandoned_next, thread_id, mapped>>

PopAgain(t) ==
  /\ At(t, "take")
  /\ Goto(t, IF abandoned.ptr = Null THEN "leave" ELSE "read")
  /\ Set(t, [NoLocal EXCEPT !.ts = abandoned])
  /\ UNCHANGED shared

PopLeave(t) ==
  /\ At(t, "leave")
  /\ readers' = readers - 1
  /\ IF local[t].segment = Null THEN Quit(t)
     ELSE Goto(t, "clear") /\ Set(t, [NoLocal EXCEPT !.segment = local[t].segment])
  /\ UNCHANGED <<abandoned, visited, abandoned_next, thread_id, mapped>>

PopClear(t) ==
  /\ At(t, "clear")
  /\ abandoned_next' = [abandoned_next EXCEPT ![local[t].segment] = Null]
  /\ Goto(t, "popped")
  /\ UNCHANGED <<abandoned, visited, readers, thread_id, mapped, local>>

\* What mi_segment_try_reclaim and _mi_abandoned_collect do with a segment:
\* keep it, free it, or look at it again later.
Popped(t) ==
  LET s == local[t].segment IN
  /\ At(t, "popped")
  /\ \/ thread_id' = [thread_id EXCEPT ![s] = t] /\ Quit(t)
     \/ Goto(t, "await") /\ UNCHANGED <<thread_id, local>>
     \/ Goto(t, "visit") /\ UNCHANGED <<thread_id, local>>
  /\ UNCHANGED <<abandoned, visited, readers, abandoned_next, mapped>>

-----------------------------------------------------------------------------
Next ==
  \E t \in Threads :
    \/ \E s \in Segments : Alloc(t, s) \/ Free(t, s) \/ Abandon(t, s)
    \/ AwaitReaders(t) \/ Release(t)
    \/ PushLoad(t) \/ PushLink(t) \/ PushSwap(t) \/ PushAgain(t)
    \/ VisitLoad(t) \/ VisitLink(t) \/ VisitSwap(t)
    \/ Collect(t) \/ RevisitNothing(t) \/ RevisitCheck(t) \/ Grab(t)
    \/ PlaceLoad(t) \/ PlaceSwap(t) \/ Walk(t)
    \/ JoinLoad(t) \/ JoinLink(t) \/ JoinSwap(t) \/ JoinAgain(t)
    \/ PopCheck(t) \/ PopEnter(t) \/ PopLoad(t) \/ PopRead(t)
    \/ PopTake(t) \/ PopAgain(t) \/ PopLeave(t) \/ PopClear(t) \/ Popped(t)

Spec == Init /\ [][Next]_vars

-----------------------------------------------------------------------------
(* The segments behind s, those from a to b, and the set the lists stand   *)
(* for: what a thread has taken off the visited list and not yet put back  *)
(* is still a part of it.                                                  *)

Behind(s) ==
  LET reach[n \in Nat] ==
        IF n = 0 THEN {s}
        ELSE reach[n - 1] \cup {abandoned_next[x] : x \in reach[n - 1] \ {Null}}
  IN  reach[Cardinality(Segments)] \ {Null}

Moving(t) ==
  IF local[t].first = Null THEN {}
  ELSE IF pc[t] \in {"join link", "join swap"}
       THEN Behind(local[t].first) \ Behind(abandoned_next[local[t].last])
  ELSE Behind(local[t].first)

Listed == Behind(abandoned.ptr) \cup Behind(visited) \cup UNION {Moving(t) : t \in Threads}

Kept(t) == {s \in mapped : thread_id[s] = t} \cup ({local[t].segment} \ {Null})

\* The two lists with everything in flight are one set: no step loses a
\* segment, brings one back, or gives one to two threads, however the
\* compare-and-swaps of pushes and pops interleave, and although a segment
\* may have been popped and pushed again between two reads of the head.
A == INSTANCE AbandonedSet WITH listed <- Listed, kept <- [t \in Threads |-> Kept(t)]
SetStep == [A!Next]_<<Listed, [t \in Threads |-> Kept(t)]>>

\* A thread that follows the list reads and writes segments that have memory:
\* the one it reads in a pop may be popped and freed by another thread, but
\* not released before it has left (segment.c:1195).
FollowsMapped ==
  \A t \in Threads :
    /\ pc[t] = "read" => local[t].ts.ptr \in mapped
    /\ pc[t] \in {"walk", "join link"} => local[t].last \in mapped
    /\ local[t].segment # Null => local[t].segment \in mapped

=============================================================================
