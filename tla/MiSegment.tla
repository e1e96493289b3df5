------------------------------ MODULE MiSegment ------------------------------
(***************************************************************************)
(* The segments of mimalloc (segment.c): large areas of memory that are    *)
(* cut into slices.  Runs of slices are spans; a span is a page in use or  *)
(* it is free, and the free spans of the segments a thread owns are in the *)
(* span queues of that thread.  The module has the spans, the masks that   *)
(* say which slices are committed and which are to be purged, and the life *)
(* of a segment from its allocation over its abandonment to its release.   *)
(*                                                                         *)
(* Only the owner of a segment touches it, so that each call of an owner   *)
(* is one step.  The list of abandoned segments is a set here; what makes  *)
(* it one is the subject of MiAbandoned.  A commit area is one slice       *)
(* (MI_COMMIT_SIZE = MI_SEGMENT_SLICE_SIZE), so that a mask is a set of    *)
(* slices.  The slices in the middle of a span whose fields the code       *)
(* leaves undetermined hold a value that no test in the code accepts.      *)
(***************************************************************************)
EXTENDS Naturals, FiniteSets, SequencesExt

CONSTANTS
  Threads,      \* the threads that allocate
  NoThread,     \* segment->thread_id of an abandoned segment
  Segments,     \* the places a segment may be allocated at
  Slices,       \* MI_SLICES_PER_SEGMENT
  MaxOffset,    \* MI_MAX_SLICE_OFFSET
  Requests,     \* the sizes of the pages asked for, in slices
  HugeRequests, \* the sizes of the pages that get a segment of their own
  Visits,       \* after how many visits a segment is reclaimed in any case, 3
  PurgeDelay,   \* mi_option_purge_delay: "never", "now" or "later"
  Recommit      \* whether _mi_os_purge leaves memory to be committed again

info_slices == 1

ASSUME MiSegmentAssumption ==
  /\ NoThread \notin Threads
  /\ Slices \in Nat /\ Slices > info_slices
  /\ MaxOffset \in 0 .. Slices
  /\ Requests \subseteq 1 .. Slices - info_slices
  /\ HugeRequests \subseteq Nat \ {0}
  /\ Visits \in Nat
  /\ PurgeDelay \in {"never", "now", "later"}
  /\ Recommit \in BOOLEAN

VARIABLES
  segment,    \* the segments, see Segment below
  spans,      \* thread -> its span queues: triples of bin, segment and slice
  abandoned,  \* the segments in the lists abandoned and abandoned_visited
  request     \* thread -> the page it is looking for, see Request

vars == <<segment, spans, abandoned, request>>

Entries == 0 .. Slices     \* one more than there are slices, for huge pages

\* xblock_size of a slice: 0 in a free span, 1 inside a page or while a span
\* is on its way from one state to another, larger at the start of a page.
Slice == [slice_count: Nat, slice_offset: Entries,
          xblock: {"free", "inner", "page", "undetermined"}]
Undetermined == [slice_count |-> 0, slice_offset |-> 0, xblock |-> "undetermined"]

Segment == [kind: {"none", "normal", "huge"}, thread_id: Threads \cup {NoThread},
            slices: [Entries -> Slice], slice_entries: Entries,
            used: Nat, abandoned: Nat, abandoned_visits: Nat,
            commit: SUBSET Entries, purge: SUBSET Entries, purge_expire: BOOLEAN,
            heapless: SUBSET Entries,   \* the pages whose xheap is NULL
            intact: SUBSET Entries]     \* slices of pages not wiped since

NoSegment == [kind |-> "none", thread_id |-> NoThread,
              slices |-> [i \in Entries |-> Undetermined], slice_entries |-> 0,
              used |-> 0, abandoned |-> 0, abandoned_visits |-> 0,
              commit |-> {}, purge |-> {}, purge_expire |-> FALSE,
              heapless |-> {}, intact |-> {}]

\* A thread in _mi_segment_page_alloc looks in its queues, or needs a segment.
Request == [at: {"idle", "find", "segment"}, slices: {0} \cup Requests]
NoRequest == [at |-> "idle", slices |-> 0]

\* What a call finds when it compares purge_expire with the clock: not yet,
\* at most mi_option_purge_extend_delay ago, or longer ago.  A time set by the
\* call itself is in the future.
Clock(g) == IF g.purge_expire THEN {"early", "expired", "long expired"} ELSE {"early"}

-----------------------------------------------------------------------------
(* Spans.                                                                  *)

Bsr(n) == CHOOSE k \in 0 .. n : 2^k <= n /\ n < 2^(k + 1)

\* mi_slice_bin8: exact up to 8 slices, then four bins to a power of two.
SliceBin(n) ==
  IF n <= 1 THEN n
  ELSE LET s == Bsr(n - 1)
       IN  IF s <= 2 THEN n ELSE 4 * s + (((n - 1) \div 2^(s - 2)) % 4) - 4
Bins == [n \in Entries |-> SliceBin(n)]

Span(i, n) == i .. i + n - 1
IsUsed(g, i) == g.slices[i].xblock \in {"inner", "page"}
IsFree(g, i) == g.slices[i].xblock = "free"
IsAbandoned(g) == g.thread_id = NoThread

\* The slices where the loops over a segment stop: from the first, always
\* slice_count further.
Starts(g) ==
  LET walk[i \in Nat] ==
        IF i >= g.slice_entries THEN {}
        ELSE {i} \cup (IF g.slices[i].slice_count = 0 THEN {}
                       ELSE walk[i + g.slices[i].slice_count])
  IN  walk[0]

PagesOf(g) == {i \in Starts(g) \ {0} : IsUsed(g, i)}
FreeOf(g) == {i \in Starts(g) : IsFree(g, i)}
Queued(s, g, i) == <<Bins[g.slices[i].slice_count], s, i>>

QueuedOf(s, g) == {Queued(s, g, i) : i \in IF g.kind = "huge" THEN {} ELSE FreeOf(g)}

\* A thread at work on a segment: the segment and the thread's span queues.
\* mi_span_queue_delete leaves a span alone that is in no queue.
Delete(w, s, i) ==
  [w EXCEPT !.q = @ \ {Queued(s, w.g, i)}, !.g.slices[i].xblock = "inner"]

-----------------------------------------------------------------------------
(* Commit and purge.                                                       *)

\* mi_segment_purge of the slices M.
Purge(g, M, e) ==
  IF PurgeDelay = "never" \/ g.kind = "huge" THEN g
  ELSE LET wiped == IF M \cap g.commit = {} THEN {} ELSE M
       IN  [g EXCEPT !.commit = IF Recommit THEN @ \ wiped ELSE @,
                     !.intact = @ \ wiped,
                     !.purge = @ \ M]

\* mi_segment_try_purge: all the runs of the purge mask.
TryPurge(g, force, e) ==
  IF PurgeDelay = "never" \/ g.purge = {} \/ (~force /\ e = "early") THEN g
  ELSE Purge([g EXCEPT !.purge_expire = FALSE, !.purge = {}], g.purge, e)

\* mi_segment_schedule_purge: in time, at once, or with what has been
\* waiting for too long.
SchedulePurge(g, M, e) ==
  IF PurgeDelay = "never" THEN g
  ELSE IF PurgeDelay = "now" THEN Purge(g, M, e)
  ELSE LET p == [g EXCEPT !.purge = @ \cup (M \cap g.commit)]
       IN  IF g.purge_expire /\ e = "long expired" THEN TryPurge(p, TRUE, e)
           ELSE [p EXCEPT !.purge_expire = TRUE]

\* Mutant: the delayed purge of what is used again stays scheduled.
CommitKeepsPurge(g, M) == [g EXCEPT !.commit = @ \cup M]

\* mi_segment_commit: a purge that is due in M is called off, and the others
\* wait a bit longer.
Commit(g, M) ==
  [g EXCEPT !.commit = @ \cup M,
            !.purge = @ \ M,
            !.purge_expire = @ \/ g.purge \cap M # {}]

\* mi_segment_ensure_committed fails if the system gives no memory.
CanCommit(g, M, commits) == commits \/ M \subseteq g.commit

-----------------------------------------------------------------------------
(* Making and freeing spans.                                               *)

\* mi_segment_span_free.
SpanFree(w, s, i, n, allowPurge, e) ==
  LET f == [k \in Entries |->
              IF k = i THEN [slice_count |-> n, slice_offset |-> 0, xblock |-> "free"]
              ELSE IF k = i + n - 1
                   THEN [slice_count |-> 0, slice_offset |-> n - 1, xblock |-> "free"]
              ELSE IF k \in Span(i, n) THEN Undetermined
              ELSE w.g.slices[k]]
      g == [w.g EXCEPT !.slices = f]
      p == IF allowPurge THEN SchedulePurge(g, Span(i, n), e) ELSE g
  IN  [w EXCEPT !.g = p,
                !.q = IF IsAbandoned(g) THEN @ ELSE @ \cup {Queued(s, g, i)}]

\* The span before slice i, found through the offset of its last slice, and
\* the span after the one at i, where they are free.
FreePrev(g, i) ==
  {p \in {i - 1 - g.slices[i - 1].slice_offset : x \in {1} \cap 1 .. i} : IsFree(g, p)}
FreeNext(g, i) ==
  {n \in {i + g.slices[i].slice_count} : n < g.slice_entries /\ IsFree(g, n)}

\* Mutant: only the span behind is merged.
CoalesceNextOnly(w, s, i, e) ==
  LET merge == FreeNext(w.g, i)
      stop  == Max({k + w.g.slices[k].slice_count : k \in merge \cup {i}})
      v     == [w EXCEPT !.q = @ \ {Queued(s, w.g, k) : k \in merge}]
  IN  IF w.g.kind = "huge"
      THEN [w EXCEPT !.g.slices[i].xblock = "free", !.at = i]
      ELSE [SpanFree(v, s, i, stop - i, TRUE, e) EXCEPT !.at = i]

\* mi_segment_span_free_coalesce: the span at i becomes free, together with
\* its free neighbours.  `at' is where the span starts that it ends up in.
Coalesce(w, s, i, e) ==
  LET merge == FreePrev(w.g, i) \cup FreeNext(w.g, i)
      start == Min(merge \cup {i})
      stop  == Max({k + w.g.slices[k].slice_count : k \in merge \cup {i}})
      v     == [w EXCEPT !.q = @ \ {Queued(s, w.g, k) : k \in merge}]
  IN  IF w.g.kind = "huge"
      THEN [w EXCEPT !.g.slices[i].xblock = "free", !.at = i]
      ELSE [SpanFree(v, s, start, stop - start, TRUE, e) EXCEPT !.at = start]

\* mi_segment_span_allocate, once the slices are committed: a page of n
\* slices at i.  The first MaxOffset slices and the last one lead back to it.
SpanAllocate(g, i, n) ==
  LET extra == Min({n - 1, MaxOffset, g.slice_entries - i - 1})
      last  == Min({i + n - 1, g.slice_entries})
      back(k) == [slice_count |-> 0, slice_offset |-> k - i, xblock |-> "inner"]
  IN  [g EXCEPT
         !.slices = [k \in Entries |->
            IF k = i THEN [slice_count |-> n, slice_offset |-> 0, xblock |-> "page"]
            ELSE IF k \in i + 1 .. i + extra \/ (k = last /\ last > i) THEN back(k)
            ELSE IF k \in Span(i, n) THEN Undetermined
            ELSE @[k]],
         !.used = @ + 1,
         !.intact = @ \cup (Span(i, n) \cap Entries)]

\* mi_segment_slice_split: what is beyond n slices is a span of its own.
Split(w, s, i, n, e) ==
  LET left == w.g.slices[i].slice_count - n
  IN  IF left = 0 THEN w
      ELSE [SpanFree(w, s, i + n, left, FALSE, e) EXCEPT !.g.slices[i].slice_count = n]

\* mi_segment_page_clear.
PageClear(w, s, i, e) ==
  LET c == Coalesce([w EXCEPT !.g.slices[i].xblock = "inner",
                              !.g.intact = @ \ Span(i, w.g.slices[i].slice_count)],
                    s, i, e)
  IN  [c EXCEPT !.g.used = @ - 1, !.g.heapless = @ \ {i}]

-----------------------------------------------------------------------------
(* Segments.                                                               *)

\* mi_segment_free: the free spans leave the queues and the memory goes back
\* to the arena.
SegmentFree(w, s) ==
  [w EXCEPT !.g = NoSegment, !.q = @ \ QueuedOf(s, w.g)]

\* mi_segment_abandon, without the push on the list.
SegmentAbandon(w, s, e) ==
  [w EXCEPT !.g = [TryPurge(w.g, FALSE, e) EXCEPT
                     !.thread_id = NoThread, !.abandoned_visits = 1],
            !.q = @ \ QueuedOf(s, w.g)]

\* mi_segment_check_free: the pages of F turn out to be all free.  upto[i] is
\* after the slices before i.
CheckFree(w, s, F, e) ==
  LET upto[i \in Nat] ==
        IF i <= info_slices THEN w
        ELSE LET v == upto[i - 1]
             IN  IF i - 1 \notin F THEN v
                 ELSE [PageClear(v, s, i - 1, e) EXCEPT !.g.abandoned = @ - 1]
  IN  upto[w.g.slice_entries]

\* One span in the loop of mi_segment_reclaim: `at' is where the loop is.
ReclaimSpan(w, s, i, F, e) ==
  LET r == IF ~IsUsed(w.g, i) THEN Coalesce(w, s, i, e)
           ELSE LET v == [w EXCEPT !.g.abandoned = @ - 1, !.g.heapless = @ \ {i}]
                IN  IF i \in F THEN PageClear(v, s, i, e) ELSE [v EXCEPT !.at = i]
  IN  [r EXCEPT !.at = @ + r.g.slices[r.at].slice_count]

\* mi_segment_reclaim: t takes the segment over.  Pages that are all free by
\* now are freed, and a segment without pages as well.
Reclaim(w, s, t, F, e) ==
  LET upto[i \in Nat] ==
        IF i <= info_slices
        THEN [w EXCEPT !.g.thread_id = t, !.g.abandoned_visits = 0, !.at = info_slices]
        ELSE LET v == upto[i - 1]
             IN  IF v.at = i - 1 THEN ReclaimSpan(v, s, i - 1, F, e) ELSE v
      r == upto[w.g.slice_entries]
  IN  IF r.g.used = 0 THEN SegmentFree(r, s) ELSE r

-----------------------------------------------------------------------------
Init ==
  /\ segment = [s \in Segments |-> NoSegment]
  /\ spans = [t \in Threads |-> {}]
  /\ abandoned = {}
  /\ request = [t \in Threads |-> NoRequest]

Work(t, s) == [g |-> segment[s], q |-> spans[t], at |-> 0]
Done(t, s, w) ==
  /\ segment' = [segment EXCEPT ![s] = w.g]
  /\ spans' = [spans EXCEPT ![t] = w.q]
Ask(t, at, n) == request' = [request EXCEPT ![t] = [at |-> at, slices |-> n]]
Stop(t) == request' = [request EXCEPT ![t] = NoRequest]

\* t starts to look for a page of n slices, or looks again.
Looks(t, n) == request[t] \in {NoRequest, [at |-> "find", slices |-> n]}

\* The spans of the first queue, from the bin of n up, that has one with n
\* slices: the bins of larger spans hold spans of several sizes.
Fits(t, n) ==
  {x \in spans[t] : x[1] >= Bins[n] /\ segment[x[2]].slices[x[3]].slice_count >= n}
BestFits(t, n) == {x \in Fits(t, n) : \A y \in Fits(t, n) : x[1] <= y[1]}

\* mi_segments_page_find_and_allocate finds a span: what it does not need is
\* split off, and put back if the memory cannot be committed.
PageAlloc(t, n, commits) ==
  /\ Looks(t, n)
  /\ \E x \in BestFits(t, n) : \E e \in Clock(segment[x[2]]) :
       LET s == x[2]
           i == x[3]
           w == Split(Delete(Work(t, s), s, i), s, i, n, e)
       IN  IF CanCommit(w.g, Span(i, n), commits)
           THEN LET g == SpanAllocate(Commit(w.g, Span(i, n)), i, n)
                IN  Done(t, s, [w EXCEPT !.g = TryPurge(g, FALSE, e)]) /\ Stop(t)
           ELSE Done(t, s, Coalesce(w, s, i, e)) /\ Ask(t, "segment", n)
  /\ UNCHANGED abandoned

\* It finds none.
PageMiss(t, n) ==
  /\ Looks(t, n)
  /\ BestFits(t, n) = {}
  /\ Ask(t, "segment", n)
  /\ UNCHANGED <<segment, spans, abandoned>>

\* mi_segment_try_reclaim visits one abandoned segment s.  The pages of F are
\* all free when it is checked, those of R when it is reclaimed; `right' tells
\* whether it has a page of the right block size with room.
TryReclaim(t, s, F, R, right, e) ==
  LET n == request[t].slices
      v == CheckFree([Work(t, s) EXCEPT !.g.abandoned_visits = @ + 1], s, F, e)
      hasPage == right \/ \E i \in FreeOf(v.g) : v.g.slices[i].slice_count >= n
      r == Reclaim(v, s, t, R, e)
  IN  /\ request[t].at = "segment"
      /\ s \in abandoned
      /\ right => PagesOf(v.g) # {}
      /\ \/ /\ v.g.used = 0 \/ (~hasPage /\ v.g.abandoned_visits > Visits)
            /\ Done(t, s, r)
            /\ abandoned' = abandoned \ {s}
            /\ UNCHANGED request
         \/ /\ v.g.used # 0 /\ hasPage
            /\ Done(t, s, r)
            /\ abandoned' = abandoned \ {s}
            /\ \/ right /\ PagesOf(v.g) \ R # {} /\ Stop(t)  \* the page is in its queue
               \/ r.g.kind # "none" /\ (right => R # {}) /\ Ask(t, "find", n)
               \/ r.g.kind = "none" /\ UNCHANGED request
         \/ /\ v.g.used # 0 /\ ~hasPage /\ v.g.abandoned_visits <= Visits
            /\ R = {}
            /\ Done(t, s, [v EXCEPT !.g = TryPurge(v.g, TRUE, e)])
            /\ UNCHANGED <<abandoned, request>>

\* _mi_abandoned_collect visits one abandoned segment, on behalf of
\* mi_heap_collect, by force or not.
AbandonedCollect(t, s, F, force, e) ==
  LET v == CheckFree(Work(t, s), s, F, e) IN
  /\ request[t] = NoRequest
  /\ s \in abandoned
  /\ IF v.g.used = 0
     THEN Done(t, s, Reclaim(v, s, t, {}, e)) /\ abandoned' = abandoned \ {s}
     ELSE Done(t, s, [v EXCEPT !.g = TryPurge(v.g, force, e)]) /\ UNCHANGED abandoned
  /\ UNCHANGED request

\* _mi_abandoned_reclaim_all, one segment.
AbandonedReclaim(t, s, R, e) ==
  /\ request[t] = NoRequest
  /\ s \in abandoned
  /\ Done(t, s, Reclaim(Work(t, s), s, t, R, e))
  /\ abandoned' = abandoned \ {s}
  /\ UNCHANGED request

\* mi_segment_alloc: memory at s whose slices are committed or not, with the
\* first of them for the segment itself.
NewSegment(t, kind, n, commit) ==
  LET g == [NoSegment EXCEPT !.kind = kind, !.thread_id = t, !.commit = commit,
                             !.slice_entries = Min({Slices, n})]
  IN  [SpanAllocate(g, 0, info_slices) EXCEPT !.used = 0]

SegmentAlloc(t, s, commit) ==
  /\ request[t].at = "segment"
  /\ segment[s].kind = "none"
  /\ LET w == [Work(t, s) EXCEPT !.g = NewSegment(t, "normal", Slices, commit)]
     IN  Done(t, s, SpanFree(w, s, info_slices, Slices - info_slices, FALSE, "early"))
  /\ Ask(t, "find", request[t].slices)
  /\ UNCHANGED abandoned

\* The arena and the system have no memory for a segment.
OutOfMemory(t) ==
  /\ request[t].at = "segment"
  /\ Stop(t)
  /\ UNCHANGED <<segment, spans, abandoned>>

\* mi_segment_huge_page_alloc: a segment with one page, all of it committed.
HugePageAlloc(t, s, n) ==
  /\ request[t] = NoRequest
  /\ segment[s].kind = "none"
  /\ LET g == NewSegment(t, "huge", info_slices + n, 0 .. Slices - 1)
     IN  Done(t, s, [Work(t, s) EXCEPT !.g = SpanAllocate(g, info_slices, n)])
  /\ UNCHANGED <<abandoned, request>>

\* Mutant: a segment is abandoned only when its last page is.
PageFreeKeepsSegment(t, s, i, e) ==
  LET c == PageClear(Work(t, s), s, i, e) IN
  /\ request[t] = NoRequest
  /\ segment[s].thread_id = t
  /\ i \in PagesOf(segment[s]) \ segment[s].heapless
  /\ Done(t, s, IF c.g.used = 0 THEN SegmentFree(c, s) ELSE c)
  /\ UNCHANGED <<abandoned, request>>

\* _mi_segment_page_free of a page of one of t's heaps.  When the pages that
\* are left are all abandoned, so is the segment.
PageFree(t, s, i, e) ==
  LET c == PageClear(Work(t, s), s, i, e) IN
  /\ request[t] = NoRequest
  /\ segment[s].thread_id = t
  /\ i \in PagesOf(segment[s]) \ segment[s].heapless
  /\ \/ c.g.used = 0 /\ Done(t, s, SegmentFree(c, s)) /\ UNCHANGED abandoned
     \/ /\ c.g.used # 0 /\ c.g.used = c.g.abandoned
        /\ Done(t, s, SegmentAbandon(c, s, e))
        /\ abandoned' = abandoned \cup {s}
     \/ /\ c.g.used # 0 /\ c.g.used # c.g.abandoned
        /\ Done(t, s, c)
        /\ UNCHANGED abandoned
  /\ UNCHANGED request

\* _mi_segment_page_abandon of a page of one of t's heaps.
PageAbandon(t, s, i, e) ==
  LET w == [Work(t, s) EXCEPT !.g.abandoned = @ + 1, !.g.heapless = @ \cup {i}] IN
  /\ request[t] = NoRequest
  /\ segment[s].thread_id = t
  /\ i \in PagesOf(segment[s]) \ segment[s].heapless
  /\ IF w.g.used = w.g.abandoned
     THEN Done(t, s, SegmentAbandon(w, s, e)) /\ abandoned' = abandoned \cup {s}
     ELSE Done(t, s, w) /\ UNCHANGED abandoned
  /\ UNCHANGED request

Next ==
  \E t \in Threads :
    \/ \E n \in Requests :
         \/ \E commits \in BOOLEAN : PageAlloc(t, n, commits)
         \/ PageMiss(t, n)
    \/ OutOfMemory(t)
    \/ \E s \in Segments :
         \/ \E commit \in {0 .. info_slices - 1, 0 .. Slices - 1} :
              SegmentAlloc(t, s, commit)
         \/ \E n \in HugeRequests : HugePageAlloc(t, s, n)
    \/ \E s \in Segments : \E e \in Clock(segment[s]) :
         \/ \E i \in PagesOf(segment[s]) : PageFree(t, s, i, e) \/ PageAbandon(t, s, i, e)
         \/ \E F \in SUBSET PagesOf(segment[s]) :
              \/ AbandonedReclaim(t, s, F, e)
              \/ \E force \in BOOLEAN : AbandonedCollect(t, s, F, force, e)
              \/ \E R \in SUBSET (PagesOf(segment[s]) \ F), right \in BOOLEAN :
                   TryReclaim(t, s, F, R, right, e)

Spec == Init /\ [][Next]_vars

-----------------------------------------------------------------------------
Live == {s \in Segments : segment[s].kind # "none"}
LastOf(g, i) == Min({i + g.slices[i].slice_count, g.slice_entries}) - 1

\* The spans of a segment cover it from the first slice to the last without
\* overlap, every slice that a pointer into a page can lie in leads back to
\* the start of the page, the last slice of a span leads back to its first,
\* no two free spans lie side by side, whichever was freed first and whoever
\* owned the segment then, and `used' counts the pages: mi_segment_is_valid
\* (segment.c:255), which is only compiled into debug builds, and more.
SpansCover ==
  \A s \in Live :
    LET g == segment[s] IN
    /\ \A i \in Starts(g) :
         /\ g.slices[i].slice_count > 0 /\ g.slices[i].slice_offset = 0
         /\ i = 0 \/ \E j \in Starts(g) : LastOf(g, j) = i - 1
         /\ IsUsed(g, i) =>
              \A k \in i + 1 .. LastOf(g, i) :
                k <= i + MaxOffset \/ (k = LastOf(g, i) /\ g.kind = "normal") =>
                  g.slices[k] = [slice_count |-> 0, slice_offset |-> k - i,
                                 xblock |-> "inner"]
         /\ IsFree(g, i) =>
              /\ i = LastOf(g, i) - g.slices[LastOf(g, i)].slice_offset
              /\ i = LastOf(g, i) \/ g.slices[LastOf(g, i)].slice_count = 0
              /\ LastOf(g, i) + 1 \notin FreeOf(g)
    /\ \E i \in Starts(g) : LastOf(g, i) = g.slice_entries - 1
    /\ g.used = Cardinality(PagesOf(g))
    /\ g.abandoned = Cardinality(g.heapless)

\* The span queues of a thread hold the free spans of the segments it owns,
\* each in the bin of its size, and nothing else: no span of a segment that
\* was given back, abandoned or taken over by another thread.
QueuesHoldFreeSpans ==
  \A t \in Threads :
    spans[t] = UNION {QueuedOf(s, segment[s]) :
                        s \in {x \in Live : segment[x].thread_id = t}}

\* Spans: as SpansCover and QueuesHoldFreeSpans say.
SegmentsAreValid == SpansCover /\ QueuesHoldFreeSpans

\* The memory of a page is committed and nothing has purged it since the page
\* was allocated, however long ago a purge of its slices was scheduled; what
\* is scheduled is committed, unused, and has a time at which it is purged.
PagesAreKept ==
  \A s \in Live :
    LET g == segment[s] IN
    /\ \A i \in {0} \cup PagesOf(g) : i .. LastOf(g, i) \subseteq g.commit \cap g.intact
    /\ g.purge \subseteq g.commit
    /\ \A i \in PagesOf(g) : g.purge \cap (i .. LastOf(g, i)) = {}
    /\ g.purge # {} => g.purge_expire

\* A segment is in the abandoned lists exactly while no thread owns it, and
\* then all its pages are abandoned and there are some.  A segment that a
\* thread owns has a page of one of its heaps, which leads back to it, or is
\* a single free span in the queues.
AbandonedIsListed ==
  /\ abandoned = {s \in Live : segment[s].thread_id = NoThread}
  /\ \A s \in Live :
       s \in abandoned <=> /\ PagesOf(segment[s]) # {}
                          /\ segment[s].heapless = PagesOf(segment[s])

-----------------------------------------------------------------------------
\* For model checking: threads and segments are treated all alike.
Symmetry == Permutations(Threads) \cup Permutations(Segments)
=============================================================================
