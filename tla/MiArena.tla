------------------------------- MODULE MiArena -------------------------------
(***************************************************************************)
(* An arena of mimalloc (arena.c): memory in blocks that several threads   *)
(* allocate, free and purge without a lock.  Four bitmaps say which blocks *)
(* are in use, are committed and wait for a purge; they are changed one    *)
(* field, that is one word, at a time (bitmap.c).  The bitmap of blocks    *)
(* that were written to, which is only ever added to, is left out.         *)
(*                                                                         *)
(* Each step is one access to shared memory.  A compare-and-swap that is   *)
(* repeated until it succeeds or the bits it wants are taken is one step.  *)
(* The bits of blocks_committed, and the memory itself, are left to who    *)
(* has claimed the blocks, which InuseIsHeld says is one thread: a         *)
(* thread changes all of them in the step in which it needs them.          *)
(* A set of bits stands for the pair of an index and a count.  Memory is   *)
(* never pinned, and there is one arena that everyone may use.             *)
(***************************************************************************)
EXTENDS Naturals, FiniteSets, FiniteSetsExt

CONSTANTS
  Threads, NoThread,
  Fields,       \* field_count
  FieldBits,    \* MI_BITMAP_FIELD_BITS
  Blocks,       \* block_count
  Requests,     \* the numbers of blocks that are asked for
  Small,        \* up to this count no claim crosses fields, 2
  Retries,      \* how often a claim that crosses fields is tried again, 3
  Recommit      \* whether _mi_os_purge leaves memory to be committed again

ASSUME MiArenaAssumption ==
  /\ NoThread \notin Threads
  /\ Fields \in Nat \ {0} /\ FieldBits \in Nat \ {0}
  /\ Blocks \in (Fields - 1) * FieldBits + 1 .. Fields * FieldBits
  /\ Requests \subseteq Nat \ {0}
  /\ Small \in 1 .. FieldBits /\ Retries \in Nat
  /\ Recommit \in BOOLEAN

VARIABLES
  inuse, committed, purge,  \* the bitmaps: the bits that are 1
  purge_expire,  \* when to purge: never, or at a time that has come or not
  changed,       \* whether purge_expire has a new value since a purger looked at it
  purge_guard,   \* the thread inside of mi_atomic_guard
  accessible,    \* the blocks the operating system lets the program use
  blocks,        \* what callers hold: bits, and what memid says of them
  pc, local

bitmaps == <<inuse, committed, purge>>
clock == <<purge_expire, changed>>
vars == <<bitmaps, clock, purge_guard, accessible, blocks, pc, local>>

Bits == 0 .. Fields * FieldBits - 1
FieldOf(b) == b \div FieldBits
Field(i) == {b \in Bits : FieldOf(b) = i}
Run(b, n) == b .. b + n - 1
Leftover == Blocks .. Fields * FieldBits - 1

\* The part of a set of bits that is in the first, or the last, field it reaches.
FirstPart(M) == M \cap Field(FieldOf(Min(M)))
LastPart(M) == M \cap Field(FieldOf(Max(M)))

\* The bits of M from its first one on up to the first bit that is missing.
FirstRun(M) == {b \in M : Run(Min(M), b - Min(M)) \subseteq M}

Block == [bits: SUBSET Bits, committed: BOOLEAN]
NoLocal == [count |-> 0, idx |-> 0, bit |-> 0, map |-> {},
            bits |-> {}, rest |-> {}, retries |-> 0, flag |-> FALSE,
            force |-> FALSE, full |-> FALSE,
            missed |-> {}]  \* not in the code: bits a purger could not claim

\* mi_manage_os_memory_ex2, for memory that is committed or not.
Init ==
  /\ inuse = Leftover /\ purge = {}
  /\ \E c \in BOOLEAN :
       /\ committed = IF c THEN Bits ELSE {}
       /\ accessible = IF c THEN Bits ELSE {}
  /\ purge_expire = "none" /\ changed = FALSE
  /\ purge_guard = NoThread
  /\ blocks = {}
  /\ pc = [t \in Threads |-> "idle"]
  /\ local = [t \in Threads |-> NoLocal]

At(t, at) == pc[t] = at
Goto(t, at) == pc' = [pc EXCEPT ![t] = at]
Set(t, r) == local' = [local EXCEPT ![t] = r]
Quit(t) == Goto(t, "idle") /\ Set(t, NoLocal)

\* One field of an operation across fields is done: `at' when it was the last.
Across(t, at, r) ==
  LET l == [r EXCEPT !.rest = @ \ FirstPart(@)]
  IN  /\ Set(t, IF l.rest = {} THEN [l EXCEPT !.rest = l.bits] ELSE l)
      /\ Goto(t, IF l.rest = {} THEN at ELSE pc[t])

-----------------------------------------------------------------------------
(* Claiming bits: _mi_bitmap_try_find_from_claim_across.                   *)

\* The first bits of a field, from `bit' on, where count bits are free.
FreeRuns(map, i, bit, count) ==
  {b \in Field(i) : b >= bit /\ Run(b, count) \subseteq Field(i) \ map}

\* How far into fields of the bitmap the free end of a field would reach.
Initial(map, i) == {b \in Field(i) : {c \in Field(i) : c >= b} \cap map = {}}

\* The next field, or none is left and the allocation fails.
NextField(t, r) ==
  IF r.idx + 1 = Fields THEN Quit(t)
  ELSE /\ Set(t, [NoLocal EXCEPT !.count = r.count, !.idx = r.idx + 1])
       /\ Goto(t, IF r.count > FieldBits THEN "initial" ELSE "field")

\* No bits in this field, or not any more.  flag: the search was for bits
\* at the end of the field already.
NotInField(t, r) ==
  IF r.count > Small /\ ~r.flag
  THEN Goto(t, "initial") /\ Set(t, [r EXCEPT !.map = {}, !.bit = 0])
  ELSE NextField(t, r)

\* mi_arena_try_alloc_at starts to look for blocks.
Alloc(t, n) ==
  /\ At(t, "idle")
  /\ Set(t, [NoLocal EXCEPT !.count = n])
  /\ Goto(t, IF n > FieldBits THEN "initial" ELSE "field")
  /\ UNCHANGED <<bitmaps, clock, purge_guard, accessible, blocks>>

\* With a map of the field at hand, go for the first run that is free in it.
Aim(t, r, map) ==
  LET runs == FreeRuns(map, r.idx, r.bit, r.count)
  IN  IF runs = {} THEN NotInField(t, r)
      ELSE Goto(t, "claim") /\ Set(t, [r EXCEPT !.map = map, !.bit = Min(runs)])

LoadField(t) ==
  /\ At(t, "field")
  /\ Aim(t, local[t], inuse \cap Field(local[t].idx))
  /\ UNCHANGED <<bitmaps, clock, purge_guard, accessible, blocks>>

Claimed(t, bits) ==
  /\ Set(t, [NoLocal EXCEPT !.bits = bits, !.rest = bits])
  /\ Goto(t, "claimed")

\* The compare-and-swap of _mi_bitmap_try_find_claim_field.
ClaimField(t) ==
  LET r == local[t]
      map == inuse \cap Field(r.idx)
  IN  /\ At(t, "claim")
      /\ \/ /\ map = r.map
            /\ inuse' = inuse \cup Run(r.bit, r.count)
            /\ Claimed(t, Run(r.bit, r.count))
         \/ map # r.map /\ Aim(t, r, map) /\ UNCHANGED inuse
      /\ UNCHANGED <<committed, purge, clock, purge_guard, accessible, blocks>>

\* mi_bitmap_try_find_claim_field_across: the free bits at the end of the field.
LoadInitial(t) ==
  LET r == local[t]
      initial == Initial(inuse, r.idx)
      bits == Run(Min(initial), r.count)
  IN  /\ At(t, "initial")
      /\ IF initial = {} THEN NextField(t, r)
         ELSE IF Cardinality(initial) >= r.count
         THEN Goto(t, "field") /\ Set(t, [r EXCEPT !.flag = TRUE])
         ELSE IF ~(bits \subseteq Bits) THEN NextField(t, r)
         ELSE Goto(t, "scan")
              /\ Set(t, [r EXCEPT !.bits = bits, !.rest = bits \ initial])
      /\ UNCHANGED <<bitmaps, clock, purge_guard, accessible, blocks>>

\* Are the fields behind it free as far as they are needed?
Scan(t) ==
  LET r == local[t]
  IN  /\ At(t, "scan")
      /\ IF FirstPart(r.rest) \cap inuse # {} THEN NextField(t, r)
         ELSE Across(t, "cross", r)
      /\ UNCHANGED <<bitmaps, clock, purge_guard, accessible, blocks>>

\* Mutant: the field that failed is given back as well.
CrossAndFail(t) ==
  LET r == local[t]
      part == FirstPart(r.rest)
  IN  /\ At(t, "cross")
      /\ IF part \cap inuse = {}
         THEN /\ inuse' = inuse \cup part
              /\ IF r.rest = part THEN Claimed(t, r.bits)
                 ELSE Across(t, "cross", r)
         ELSE /\ Goto(t, "rollback")
              /\ Set(t, [r EXCEPT !.rest = (r.bits \ r.rest) \cup part])
              /\ UNCHANGED inuse
      /\ UNCHANGED <<committed, purge, clock, purge_guard, accessible, blocks>>

\* Claim them field by field, or give up.
Cross(t) ==
  LET r == local[t]
      part == FirstPart(r.rest)
  IN  /\ At(t, "cross")
      /\ IF part \cap inuse = {}
         THEN /\ inuse' = inuse \cup part
              /\ IF r.rest = part THEN Claimed(t, r.bits)
                 ELSE Across(t, "cross", r)
         ELSE /\ Goto(t, "rollback")
              /\ Set(t, [r EXCEPT !.rest = r.bits \ r.rest])
              /\ UNCHANGED inuse
      /\ UNCHANGED <<committed, purge, clock, purge_guard, accessible, blocks>>

\* Give back what was claimed, the last field first.
Rollback(t) ==
  LET r == local[t]
  IN  /\ At(t, "rollback") /\ r.rest # {}
      /\ inuse' = inuse \ LastPart(r.rest)
      /\ Set(t, [r EXCEPT !.rest = @ \ LastPart(@)])
      /\ UNCHANGED <<committed, purge, clock, purge_guard, accessible, blocks, pc>>

Retry(t) ==
  LET r == local[t]
  IN  /\ At(t, "rollback") /\ r.rest = {}
      /\ IF r.retries < Retries
         THEN Goto(t, "initial") /\ Set(t, [r EXCEPT !.retries = @ + 1, !.bits = {}])
         ELSE NextField(t, r)
      /\ UNCHANGED <<bitmaps, clock, purge_guard, accessible, blocks>>

-----------------------------------------------------------------------------
(* mi_arena_try_alloc_at, once the blocks are claimed.                     *)

\* None of them should be purged any more.
CancelPurge(t) ==
  /\ At(t, "claimed")
  /\ purge' = purge \ FirstPart(local[t].rest)
  /\ Across(t, "commit", local[t])
  /\ UNCHANGED <<inuse, committed, clock, purge_guard, accessible, blocks>>

\* The caller gets the blocks.
Return(t, c) ==
  /\ blocks' = blocks \cup {[bits |-> local[t].bits, committed |-> c]}
  /\ Quit(t)

\* They are committed if that was asked for, which may fail; otherwise see
\* whether they all are.  What was asked for is chosen here, where it counts.
Commit(t, commit, ok) ==
  LET bits == local[t].bits
      all == bits \subseteq committed
  IN  /\ At(t, "commit")
      /\ ok \/ (commit /\ ~all)
      /\ committed' = IF commit THEN committed \cup bits ELSE committed
      /\ accessible' = IF commit /\ ~all /\ ok THEN accessible \cup bits ELSE accessible
      /\ Return(t, all \/ (commit /\ ok))
      /\ UNCHANGED <<inuse, purge, clock, purge_guard>>

-----------------------------------------------------------------------------
(* Freeing: _mi_arena_free.                                                *)

\* The caller has written to the blocks it can use and is left with some of
\* them, or with all; those it does not know to be committed it may commit.
Free(t, b, left) ==
  /\ At(t, "idle")
  /\ blocks' = blocks \ {b}
  /\ accessible' = (accessible \ b.bits) \cup left
  /\ committed' = IF left = b.bits THEN committed ELSE committed \ b.bits
  /\ Set(t, [NoLocal EXCEPT !.bits = b.bits, !.rest = b.bits])
  /\ Goto(t, "expire")
  /\ UNCHANGED <<inuse, purge, clock, purge_guard>>

\* mi_arena_schedule_purge reads purge_delay, which may change at any time: if
\* it is negative nothing is purged,
PurgeNever(t) ==
  /\ At(t, "expire")
  /\ Goto(t, "unclaim")
  /\ UNCHANGED <<bitmaps, clock, purge_guard, accessible, blocks, local>>

\* if it is 0, or before the process is set up, the blocks are purged at once.
PurgeNow(t) ==
  LET bits == local[t].bits
  IN  /\ At(t, "expire")
      /\ purge' = purge \ bits
      /\ accessible' = IF Recommit THEN accessible \ bits ELSE accessible
      /\ committed' = IF Recommit THEN committed \ bits ELSE committed
      /\ Goto(t, "unclaim")
      /\ UNCHANGED <<inuse, clock, purge_guard, blocks, local>>

\* Otherwise the purge is scheduled.  flag tells whether there is a time set.
ReadExpire(t) ==
  /\ At(t, "expire")
  /\ Set(t, [local[t] EXCEPT !.flag = (purge_expire # "none")])
  /\ Goto(t, "set expire")
  /\ UNCHANGED <<bitmaps, clock, purge_guard, accessible, blocks>>

\* A time that was set to 0 in between becomes one that is long past.
SetExpire(t) ==
  /\ At(t, "set expire")
  /\ purge_expire' \in IF ~local[t].flag THEN {"later"}
                       ELSE CASE purge_expire = "none" -> {"due"}
                            [] purge_expire = "due" -> {"due", "later"}
                            [] purge_expire = "later" -> {"later"}
  /\ changed' = \E u \in Threads : At(u, "reset expire")
  /\ Goto(t, "schedule") /\ Set(t, [local[t] EXCEPT !.flag = FALSE])
  /\ UNCHANGED <<bitmaps, purge_guard, accessible, blocks>>

SchedulePurge(t) ==
  /\ At(t, "schedule")
  /\ purge' = purge \cup FirstPart(local[t].rest)
  /\ Across(t, "unclaim", local[t])
  /\ UNCHANGED <<inuse, committed, clock, purge_guard, accessible, blocks>>

\* Available to others again.
Unclaim(t) ==
  /\ At(t, "unclaim")
  /\ inuse' = inuse \ FirstPart(local[t].rest)
  /\ Across(t, "guard", local[t])
  /\ UNCHANGED <<committed, purge, clock, purge_guard, accessible, blocks>>

-----------------------------------------------------------------------------
(* Purging: mi_arenas_try_purge and mi_arena_try_purge.                    *)

\* _mi_arena_collect.
Collect(t, force) ==
  /\ At(t, "idle")
  /\ Goto(t, "guard") /\ Set(t, [NoLocal EXCEPT !.force = force])
  /\ UNCHANGED <<bitmaps, clock, purge_guard, accessible, blocks>>

\* Nothing is purged while another thread does so, or when purge_delay says now
\* that nothing is scheduled.
Guard(t) ==
  /\ At(t, "guard")
  /\ \/ /\ purge_guard = NoThread
        /\ purge_guard' = t
        /\ Goto(t, "due") /\ Set(t, [NoLocal EXCEPT !.force = local[t].force])
     \/ Quit(t) /\ UNCHANGED purge_guard
  /\ UNCHANGED <<bitmaps, clock, accessible, blocks>>

ReadDue(t) ==
  /\ At(t, "due")
  /\ Goto(t, IF purge_expire = "due" \/ (purge_expire = "later" /\ local[t].force)
             THEN "reset expire" ELSE "leave")
  /\ Set(t, NoLocal)
  /\ UNCHANGED <<bitmaps, clock, purge_guard, accessible, blocks>>

\* The compare-and-swap fails when a time was set since.
ResetExpire(t) ==
  /\ At(t, "reset expire")
  /\ purge_expire' = IF changed THEN purge_expire ELSE "none"
  /\ changed' = FALSE
  /\ Goto(t, "load purge") /\ Set(t, [local[t] EXCEPT !.full = TRUE])
  /\ UNCHANGED <<bitmaps, purge_guard, accessible, blocks>>

\* Go on in a map of the field with the bits from `bit' on: its next run of
\* ones that may be claimed, or the next field, or the end.
Onward(t, r, bit) ==
  LET ahead == {b \in r.map : b >= bit}
  IN  IF ahead # {}
      THEN Goto(t, "try claim") /\ Set(t, [r EXCEPT !.rest = FirstRun(ahead), !.bits = {}])
      ELSE /\ Set(t, [r EXCEPT !.idx = @ + 1, !.map = {}, !.rest = {}, !.bits = {}])
           /\ Goto(t, IF r.idx + 1 < Fields THEN "load purge"
                      ELSE IF r.full THEN "leave" ELSE "purge again")

LoadPurge(t) ==
  LET r == local[t]
  IN  /\ At(t, "load purge")
      /\ Onward(t, [r EXCEPT !.map = purge \cap Field(r.idx)], 0)
      /\ UNCHANGED <<bitmaps, clock, purge_guard, accessible, blocks>>

\* Mutant: the run is purged because it was free a moment ago.
TryClaimNothing(t) ==
  LET r == local[t]
      missed == [r EXCEPT !.missed = @ \cup r.rest]
  IN  /\ At(t, "try claim")
      /\ \/ /\ r.rest \cap inuse = {}
            /\ UNCHANGED inuse
            /\ Goto(t, "reload purge") /\ Set(t, [r EXCEPT !.bits = r.rest])
         \/ /\ r.rest \cap inuse # {} /\ Cardinality(r.rest) > 1
            /\ Set(t, [r EXCEPT !.rest = @ \ {Max(@)}])
            /\ UNCHANGED <<inuse, pc>>
         \/ /\ r.rest \cap inuse # {} /\ Cardinality(r.rest) = 1
            /\ Onward(t, missed, Max(r.rest) + 1)
            /\ UNCHANGED inuse
      /\ UNCHANGED <<committed, purge, clock, purge_guard, accessible, blocks>>

\* Claim the run, or one bit less of it, or look behind the bit that is taken.
TryClaim(t) ==
  LET r == local[t]
      missed == [r EXCEPT !.missed = @ \cup r.rest]
  IN  /\ At(t, "try claim")
      /\ \/ /\ r.rest \cap inuse = {}
            /\ inuse' = inuse \cup r.rest
            /\ Goto(t, "reload purge") /\ Set(t, [r EXCEPT !.bits = r.rest])
         \/ /\ r.rest \cap inuse # {} /\ Cardinality(r.rest) > 1
            /\ Set(t, [r EXCEPT !.rest = @ \ {Max(@)}])
            /\ UNCHANGED <<inuse, pc>>
         \/ /\ r.rest \cap inuse # {} /\ Cardinality(r.rest) = 1
            /\ Onward(t, missed, Max(r.rest) + 1)
            /\ UNCHANGED inuse
      /\ UNCHANGED <<committed, purge, clock, purge_guard, accessible, blocks>>

\* Now that the bits are claimed, see what is still to be purged.
ReloadPurge(t) ==
  LET r == local[t]
      map == purge \cap Field(r.idx)
  IN  /\ At(t, "reload purge")
      /\ Set(t, [r EXCEPT !.map = map, !.rest = @ \cap map,
                          !.full = @ /\ r.bits \subseteq map])
      /\ Goto(t, IF r.bits \cap map = {} THEN "give back" ELSE "os purge")
      /\ UNCHANGED <<bitmaps, clock, purge_guard, accessible, blocks>>

\* mi_arena_purge of the next run of the claimed bits.
OsPurge(t) ==
  LET run == FirstRun(local[t].rest)
      rest == local[t].rest \ run
  IN  /\ At(t, "os purge")
      /\ purge' = purge \ run
      /\ accessible' = IF Recommit THEN accessible \ run ELSE accessible
      /\ committed' = IF Recommit THEN committed \ run ELSE committed
      /\ Set(t, [local[t] EXCEPT !.rest = rest])
      /\ Goto(t, IF rest = {} THEN "give back" ELSE "os purge")
      /\ UNCHANGED <<inuse, clock, purge_guard, blocks>>

\* The bit behind them is skipped: it is not in the map, could not be claimed,
\* or is new in the map that was loaded again.
GiveBack(t) ==
  /\ At(t, "give back")
  /\ inuse' = inuse \ local[t].bits
  /\ Onward(t, local[t], Max(local[t].bits) + 2)
  /\ UNCHANGED <<committed, purge, clock, purge_guard, accessible, blocks>>

PurgeAgain(t) ==
  /\ At(t, "purge again")
  /\ purge_expire' = IF purge_expire = "none" THEN "later" ELSE purge_expire
  /\ Goto(t, "leave")
  /\ UNCHANGED <<bitmaps, changed, purge_guard, accessible, blocks, local>>

Leave(t) ==
  /\ At(t, "leave")
  /\ purge_guard' = NoThread
  /\ Quit(t)
  /\ UNCHANGED <<bitmaps, clock, accessible, blocks>>

\* _mi_clock_now passes the time that was set.
Tick ==
  /\ purge_expire = "later"
  /\ purge_expire' = "due"
  /\ UNCHANGED <<bitmaps, changed, purge_guard, accessible, blocks, pc, local>>

Next ==
  \/ Tick
  \/ \E t \in Threads :
       \/ \E n \in Requests : Alloc(t, n)
       \/ LoadField(t) \/ ClaimField(t)
       \/ LoadInitial(t) \/ Scan(t) \/ Cross(t) \/ Rollback(t) \/ Retry(t)
       \/ CancelPurge(t) \/ \E commit, ok \in BOOLEAN : Commit(t, commit, ok)
       \/ \E b \in blocks : \E left \in {{}, b.bits} : Free(t, b, left)
       \/ PurgeNever(t) \/ PurgeNow(t) \/ ReadExpire(t) \/ SetExpire(t)
       \/ SchedulePurge(t) \/ Unclaim(t)
       \/ \E force \in BOOLEAN : Collect(t, force)
       \/ Guard(t) \/ ReadDue(t) \/ ResetExpire(t) \/ LoadPurge(t) \/ TryClaim(t)
       \/ ReloadPurge(t) \/ OsPurge(t) \/ GiveBack(t) \/ PurgeAgain(t) \/ Leave(t)

Spec == Init /\ [][Next]_vars

-----------------------------------------------------------------------------
\* The bits a thread has claimed and not given back or handed out yet.
Holds(t) ==
  LET r == local[t]
  IN  CASE pc[t] = "cross" -> r.bits \ r.rest
      [] pc[t] \in {"rollback", "unclaim"} -> r.rest
      [] pc[t] \in {"claimed", "commit", "expire", "set expire", "schedule",
                    "reload purge", "os purge", "give back"} -> r.bits
      [] OTHER -> {}

\* A block is in use exactly when a caller holds it, a thread is at work on
\* it, or it lies behind the end of the arena, and then for one reason only:
\* a claim that fails in a later field gives back what it has, and only that
\* (mi_bitmap_try_find_claim_field_across), and no two claims get one block.
InuseIsHeld ==
  LET held == {b.bits : b \in blocks} \cup {Leftover}
  IN  /\ inuse = (UNION held) \cup (UNION {Holds(t) : t \in Threads})
      /\ \A M, N \in held : M = N \/ M \cap N = {}
      /\ \A t \in Threads : Holds(t) \cap (UNION held) = {}
      /\ \A t, u \in Threads : t = u \/ Holds(t) \cap Holds(u) = {}

\* A free block marked as committed can be used, so that who gets it without
\* a commit may touch it; and a block that was handed out as committed stays
\* so while it is held, whatever purge was under way (mi_arena_purge).
CommittedIsAccessible ==
  /\ committed \ inuse \subseteq accessible
  /\ \A b \in blocks : b.committed => b.bits \subseteq accessible

\* When a thread has gone through the scheduled purges, and some of them
\* are still to be made because it could not claim the blocks, then there is
\* a time for the next purge: "if not fully purged, make sure to purge again
\* in the future" (mi_arena_try_purge).
PurgeIsDue ==
  \A t \in Threads :
    pc[t] = "leave" /\ local[t].missed \cap purge # {} => purge_expire # "none"
=============================================================================
