----------------------------- MODULE MiServices -----------------------------
(***************************************************************************)
(* Parts of mimalloc under the pages and segments, side by side: the lists *)
(* of abandoned segments, the page queues of a thread, the operating       *)
(* system layer, the data of threads, and the map of segments.  They share *)
(* no state, so a run of the allocator does to each what a run does that   *)
(* uses only that one.  This module picks one of them and runs its module; *)
(* what is claimed of each is stated in that module.  The page queues are  *)
(* extended and not instantiated, so that TLC computes their tables once.  *)
(***************************************************************************)
EXTENDS MiPageQueue

CONSTANTS
  Threads, Main,   \* the threads, and the main one
  MaxTag,                                               \* see MiAbandoned
  Low, HugePages, Sizes, PageAlignments, Ranges, MaxHeld,   \* see MiOs
  Slots, MaxFails,                                      \* see MiThreads
  Words, WordBits, Lengths                              \* see MiSegmentMap

VARIABLES
  part,   \* the one that runs
  abandoned, visited, readers, abandoned_next, thread_id, mapped, pc, local,
  system, prot, data, held, mi_huge_start,
  td_cache, given, memid, td, at, slot, thread_count, refused,
  mi_segment_map, owned, op

A == INSTANCE MiAbandoned WITH Segments <- Pages, NoThread <- None, Null <- None

O == INSTANCE MiOs WITH Alignments <- PageAlignments

T == INSTANCE MiThreads WITH
  Data <- Pages, Null <- None, mapped <- given, i <- slot, failed <- refused

M == INSTANCE MiSegmentMap

ASSUME MiServicesAssumption ==
  /\ A!MiAbandonedAssumption /\ O!OsAssumption
  /\ T!MiThreadsAssumption /\ M!MiSegmentMapAssumption

abandonedVars ==
  <<abandoned, visited, readers, abandoned_next, thread_id, mapped, pc, local>>
osVars == <<system, prot, data, held, mi_huge_start>>
threadVars == <<td_cache, given, memid, td, at, slot, thread_count, refused>>
mapVars == <<mi_segment_map, owned, op>>

everything == <<part, vars, abandonedVars, osVars, threadVars, mapVars>>

ServicesInit ==
  /\ part \in {"abandoned", "queues", "os", "threads", "map"}
  /\ Init /\ A!Init /\ O!Init /\ T!Init /\ M!Init
  /\ part # "os" => system = "unix"

\* Only the state of the part that runs changes.
Others ==
  /\ IF part = "abandoned" THEN TRUE ELSE UNCHANGED abandonedVars
  /\ IF part = "queues" THEN TRUE ELSE UNCHANGED vars
  /\ IF part = "os" THEN TRUE ELSE UNCHANGED osVars
  /\ IF part = "threads" THEN TRUE ELSE UNCHANGED threadVars
  /\ IF part = "map" THEN TRUE ELSE UNCHANGED mapVars
  /\ UNCHANGED part

AbandonedLists == part = "abandoned" /\ A!Next /\ Others
PageQueues == part = "queues" /\ Next /\ Others
Os == part = "os" /\ O!Next /\ Others
ThreadData == part = "threads" /\ T!Next /\ Others
SegmentMap == part = "map" /\ M!Next /\ Others

ServicesNext ==
  AbandonedLists \/ PageQueues \/ Os \/ ThreadData \/ SegmentMap

ServicesSpec == ServicesInit /\ [][ServicesNext]_everything

---------------------------------------------------------------------------
\* The lists of abandoned segments never follow a pointer into memory that
\* has been given back.
FollowsMapped == A!FollowsMapped

\* To the threads they are a set that segments are put in and taken from
\* (AbandonedSet): none is lost and none is taken twice.
IsAbandonedSet == [][part = "abandoned" => A!SetStep]_abandonedVars

\* pages_free_direct names the first page of the queue for every size, and
\* each page is in the one queue it belongs to.
QueuesKeep == DirectMatches /\ QueuesAreSound

\* The layer over the operating system maps what is held, and the ranges
\* that are committed stay accessible and keep their contents.
OsKeepsMemory == O!OsKeepsMemory

\* The data of a thread is with one thread, or in one slot of the cache.
DataHasOneHolder == T!DataHasOneHolder

\* The map has a bit for each segment in use; a thread finds a segment of its
\* own from a pointer into the word it starts in, and never finds another.
MapFinds == M!MapFinds
=============================================================================
