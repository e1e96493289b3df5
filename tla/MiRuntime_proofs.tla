---------------------------- MODULE MiRuntime_proofs --------------------------
(***************************************************************************)
(* Proofs about the parts of MiRuntime that an allocation meets on its way *)
(* to memory and around it: an arena, for any number of threads, fields    *)
(* and bits of a field; the random numbers, for any number of streams and  *)
(* words; the options, for any number of threads, options and values of    *)
(* the environment; how the process and its threads start and end, for any *)
(* finite number of threads; the block that the allocation functions cut,  *)
(* for any sizes, alignments and block sizes; the table of arenas, for any *)
(* finite number of threads, any areas, places, kinds and asks.            *)
(*                                                                         *)
(* What is in use of the arena is divided among the end of the bitmap, the *)
(* callers and the threads at work (Divided, Apart).  For a step to keep   *)
(* this, a thread must know where its bits come from (Fits): the run it    *)
(* goes for is free in the map it looked at, a claim across fields has so  *)
(* far what it does not still want, and what is purged was claimed.        *)
(*                                                                         *)
(* Each of the others has an invariant of its own: a word that was drawn   *)
(* lies behind the stream it came from (RandomInv); an option is as far    *)
(* as the calls that wait for it say (OptionsInv); one thread starts the   *)
(* process up and what it has yet to call says how far it is (ProcessInv); *)
(* the padding of a block says what was asked for, and the block is large  *)
(* enough and aligned however it was made (BlocksInv); an area is in the   *)
(* table or with the one thread that makes an arena of it, and who met     *)
(* nobody has still before it all arenas that would do (ArenasInv).        *)
(***************************************************************************)
EXTENDS MiRuntime, FiniteSetTheorems, SequenceTheorems, TLAPS

(* An arena.                                                               *)

Locations ==
  {"idle", "field", "claim", "initial", "scan", "cross", "rollback", "claimed",
   "commit", "expire", "set expire", "schedule", "unclaim", "guard", "due",
   "reset expire", "load purge", "try claim", "reload purge", "os purge",
   "give back", "purge again", "leave"}

Locals ==
  [count: Nat, idx: Nat, bit: Nat, map: SUBSET Bits,
   bits: SUBSET Bits, rest: SUBSET Bits, retries: Nat, flag: BOOLEAN,
   force: BOOLEAN, full: BOOLEAN, missed: SUBSET Bits]

\* The type of every variable that the invariant speaks of.
Types ==
  /\ purge \in SUBSET Bits
  /\ blocks \in SUBSET Block
  /\ pc \in [Threads -> Locations]
  /\ local \in [Threads -> Locals]

\* What a thread at l knows of its bits.
Fits(l, r) ==
  /\ l = "claim" => Run(r.bit, r.count) \subseteq Field(r.idx) \ r.map
  /\ l \in {"scan", "cross", "reload purge", "os purge"} => r.rest \subseteq r.bits
  /\ l \in {"expire", "set expire"} => r.rest = r.bits

\* The bits in use, and whose they are.
Divided ==
  inuse = Leftover \cup (UNION {b.bits : b \in blocks}) \cup (UNION {Holds(t) : t \in Threads})

Apart ==
  /\ \A b \in blocks : b.bits \cap Leftover = {}
  /\ \A b, c \in blocks : b # c => b.bits \cap c.bits = {}
  /\ \A t \in Threads : Holds(t) \cap Leftover = {}
  /\ \A t \in Threads : \A b \in blocks : Holds(t) \cap b.bits = {}
  /\ \A t, u \in Threads : t # u => Holds(t) \cap Holds(u) = {}

\* Only who got blocks without a commit may have some that are marked as
\* committed and cannot be used: when the commit failed.
Usable ==
  /\ \A x \in committed \ accessible : \E b \in blocks : ~ b.committed /\ x \in b.bits
  /\ \A b \in blocks : b.committed => b.bits \subseteq accessible

IInv ==
  /\ Types
  /\ \A t \in Threads : Fits(pc[t], local[t])
  /\ Divided /\ Apart /\ Usable

-----------------------------------------------------------------------------
(* The operators of the model.                                             *)

\* A set of numbers has a least one.
LEMMA LeastIs == ASSUME NEW S \in SUBSET Nat, S # {} PROVE \E c \in S : \A d \in S : c <= d
<1> DEFINE Upto(n) == {k \in S : k =< n}
           T == {Upto(n) : n \in S}
<1>1. ASSUME NEW n \in S PROVE IsFiniteSet(Upto(n))
  <2>1. Upto(n) \in SUBSET Nat /\ n \in Nat /\ \A k \in Upto(n) : k <= n
    OBVIOUS
  <2>2. QED
    BY <2>1, FS_BoundedSetOfNaturals
<1>2. T \subseteq FiniteSubsetsOf(S) /\ T # {}
  BY <1>1 DEF FiniteSubsetsOf
<1>3. IsWellFoundedOn(StrictSubsetOrdering(S), FiniteSubsetsOf(S))
  BY FS_StrictSubsetOrderingWellFounded
<1>4. PICK E \in T : \A C \in T : ~ (<<C, E>> \in StrictSubsetOrdering(S))
  <2> HIDE DEF T
  <2>1. QED
    BY <1>2, <1>3, WFMin
<1>5. PICK n \in S : E = Upto(n)
  OBVIOUS
<1>6. ASSUME NEW k \in S, k < n PROVE FALSE
  <2>0. Upto(k) \in T
    OBVIOUS
  <2>1. Upto(k) \subseteq Upto(n) /\ n \in Upto(n) /\ n \notin Upto(k)
    <3>1. k \in Nat /\ n \in Nat /\ S \subseteq Nat
      OBVIOUS
    <3>2. n =< n /\ ~ (n =< k)
      BY <1>6, <3>1
    <3>3. \A j \in S : j =< k => j =< n
      BY <1>6, <3>1
    <3>4. QED
      BY <3>2, <3>3
  <2>2. <<Upto(k), Upto(n)>> \in StrictSubsetOrdering(S)
    BY <2>1 DEF StrictSubsetOrdering
  <2>3. QED
    BY <1>4, <1>5, <2>0, <2>2
<1>7. \A k \in S : n =< k
  BY <1>6
<1>8. QED
  BY <1>7

LEMMA MinIsIn == ASSUME NEW S \in SUBSET Nat, S # {} PROVE Min(S) \in S
  BY LeastIs DEF Min

LEMMA BitsAreNumbers == Bits \in SUBSET Nat
  BY MiArenaAssumption DEF Bits

\* A part of a set of bits is a part of it.
LEMMA PartsAreParts ==
  ASSUME NEW M
  PROVE  FirstPart(M) \subseteq M /\ LastPart(M) \subseteq M /\ FirstRun(M) \subseteq M
  BY DEF FirstPart, LastPart, FirstRun

\* A run that is free in a map of a field.
LEMMA RunIsFree ==
  ASSUME NEW map, NEW i, NEW bit, NEW num, FreeRuns(map, i, bit, num) # {}
  PROVE  LET b == Min(FreeRuns(map, i, bit, num)) IN
         b \in Bits /\ b \in Nat /\ Run(b, num) \subseteq Field(i) \ map
<1> DEFINE S == FreeRuns(map, i, bit, num)
<1>1. S \subseteq Bits
  BY DEF FreeRuns, Field
<1>2. Min(S) \in S
  BY <1>1, BitsAreNumbers, MinIsIn
<1>3. QED
  BY <1>1, <1>2, BitsAreNumbers DEF FreeRuns

\* The bits of a thread, by where it is.
HeldAt(l, r) ==
  IF l = "cross" THEN r.bits \ r.rest
  ELSE IF l \in {"rollback", "unclaim"} THEN r.rest
  ELSE IF l \in {"claimed", "commit", "expire", "set expire", "schedule",
                 "reload purge", "os purge", "give back"} THEN r.bits
  ELSE {}

LEMMA HoldsIs ==
  \A t : /\ Holds(t) = HeldAt(pc[t], local[t])
         /\ Holds(t)' = HeldAt(pc'[t], local'[t])
  BY DEF Holds, HeldAt

-----------------------------------------------------------------------------
(* A step of t: the others stay where they are, and t knows its bits.      *)

Moves(t) ==
  /\ pc' \in [Threads -> Locations]
  /\ local' \in [Threads -> Locals]
  /\ \A u \in Threads \ {t} : pc'[u] = pc[u] /\ local'[u] = local[u]
  /\ Fits(pc'[t], local'[t])

\* t holds H after the step.
Keeps(t, H) == Moves(t) /\ HeldAt(pc'[t], local'[t]) = H

LEMMA GotoSet ==
  ASSUME Types, NEW t \in Threads, NEW l \in Locations, NEW r \in Locals, Fits(l, r),
         Goto(t, l), Set(t, r)
  PROVE  Keeps(t, HeldAt(l, r)) /\ pc'[t] = l /\ local'[t] = r
  BY DEF Types, Goto, Set, Keeps, Moves

LEMMA GotoKeeps ==
  ASSUME Types, NEW t \in Threads, NEW l \in Locations, NEW r \in Locals, Fits(l, r),
         Goto(t, l), Set(t, r), NEW H, HeldAt(l, r) = H
  PROVE  Keeps(t, H)
  BY GotoSet

LEMMA NoLocalFits == NoLocal \in Locals
  BY MiArenaAssumption DEF NoLocal, Locals

LEMMA QuitKeeps == ASSUME Types, NEW t \in Threads, Quit(t) PROVE Keeps(t, {})
<1>1. Keeps(t, HeldAt("idle", NoLocal))
  BY NoLocalFits, GotoSet DEF Quit, Fits, Locations
<1>2. QED
  BY <1>1 DEF HeldAt

LEMMA NextFieldKeeps ==
  ASSUME Types, NEW t \in Threads, NEW r \in Locals, NextField(t, r)
  PROVE  Keeps(t, {})
<1>1. CASE r.idx + 1 = Fields
  BY <1>1, QuitKeeps DEF NextField
<1>2. CASE r.idx + 1 # Fields
  <2> DEFINE s == [NoLocal EXCEPT !.count = r.count, !.idx = r.idx + 1]
             l == IF r.count > FieldBits THEN "initial" ELSE "field"
  <2>1. s \in Locals
    <3>1. r.count \in Nat /\ r.idx + 1 \in Nat
      BY DEF Locals
    <3>2. QED
      BY <3>1, NoLocalFits DEF Locals
  <2>2. l \in Locations /\ Fits(l, s) /\ HeldAt(l, s) = {}
    BY DEF Locations, Fits, HeldAt
  <2>3. QED
    BY <1>2, <2>1, <2>2, GotoSet DEF NextField
<1>3. QED
  BY <1>1, <1>2

LEMMA NotInFieldKeeps ==
  ASSUME Types, NEW t \in Threads, NEW r \in Locals, NotInField(t, r)
  PROVE  Keeps(t, {})
<1>1. CASE r.count > Small /\ ~ r.flag
  <2> DEFINE s == [r EXCEPT !.map = {}, !.bit = 0]
  <2>1. s \in Locals
    BY DEF Locals
  <2>2. "initial" \in Locations /\ Fits("initial", s) /\ HeldAt("initial", s) = {}
    BY DEF Locations, Fits, HeldAt
  <2>3. QED
    BY <1>1, <2>1, <2>2, GotoSet DEF NotInField
<1>2. CASE ~ (r.count > Small /\ ~ r.flag)
  BY <1>2, NextFieldKeeps DEF NotInField
<1>3. QED
  BY <1>1, <1>2

LEMMA AimKeeps ==
  ASSUME Types, NEW t \in Threads, NEW r \in Locals, NEW map \in SUBSET Bits, Aim(t, r, map)
  PROVE  Keeps(t, {})
<1> DEFINE runs == FreeRuns(map, r.idx, r.bit, r.count)
           s == [r EXCEPT !.map = map, !.bit = Min(runs)]
<1>1. CASE runs = {}
  BY <1>1, NotInFieldKeeps DEF Aim
<1>2. CASE runs # {}
  <2>1. Min(runs) \in Nat /\ Run(Min(runs), r.count) \subseteq Field(r.idx) \ map
    BY <1>2, RunIsFree
  <2>2. s \in Locals /\ s.bit = Min(runs) /\ s.count = r.count /\ s.idx = r.idx /\ s.map = map
    BY <2>1 DEF Locals
  <2>3. "claim" \in Locations /\ Fits("claim", s) /\ HeldAt("claim", s) = {}
    BY <2>1, <2>2 DEF Locations, Fits, HeldAt
  <2>4. QED
    BY <1>2, <2>2, <2>3, GotoSet DEF Aim
<1>3. QED
  BY <1>1, <1>2

\* One field of an operation across fields: it goes on at l or at loc.
LEMMA AcrossKeeps ==
  ASSUME Types, NEW t \in Threads, NEW r \in Locals, NEW loc \in Locations,
         r.rest \subseteq r.bits \/ pc[t] \notin {"scan", "cross", "reload purge", "os purge"},
         pc[t] \notin {"claim", "expire", "set expire"}, loc # "claim",
         Across(t, loc, r)
  PROVE  /\ Moves(t)
         /\ \/ /\ r.rest \ FirstPart(r.rest) = {}
               /\ HeldAt(pc'[t], local'[t]) = HeldAt(loc, [r EXCEPT !.rest = r.bits])
            \/ /\ r.rest \ FirstPart(r.rest) # {}
               /\ HeldAt(pc'[t], local'[t])
                    = HeldAt(pc[t], [r EXCEPT !.rest = r.rest \ FirstPart(r.rest)])
<1> DEFINE l == [r EXCEPT !.rest = r.rest \ FirstPart(r.rest)]
           m == [r EXCEPT !.rest = r.bits]
<1>1. /\ l \in Locals /\ l.rest = r.rest \ FirstPart(r.rest) /\ l.bits = r.bits
      /\ m \in Locals /\ m.rest = r.bits /\ m.bits = r.bits
      /\ [l EXCEPT !.rest = l.bits] = m
  BY DEF Locals
<1>2. pc[t] \in Locations
  BY DEF Types
<1>3. CASE r.rest \ FirstPart(r.rest) = {}
  <2>1. Set(t, m) /\ Goto(t, loc)
    BY <1>1, <1>3 DEF Across
  <2>2. Fits(loc, m)
    BY <1>1 DEF Fits
  <2>3. QED
    BY <1>1, <1>3, <2>1, <2>2, GotoSet DEF Keeps
<1>4. CASE r.rest \ FirstPart(r.rest) # {}
  <2>1. Set(t, l) /\ Goto(t, pc[t])
    BY <1>1, <1>4 DEF Across
  <2>2. Fits(pc[t], l)
    BY <1>1 DEF Fits
  <2>3. QED
    BY <1>1, <1>2, <1>4, <2>1, <2>2, GotoSet DEF Keeps
<1>5. QED
  BY <1>3, <1>4

LEMMA OnwardKeeps ==
  ASSUME Types, NEW t \in Threads, NEW r \in Locals, NEW bit, Onward(t, r, bit)
  PROVE  Keeps(t, {})
<1> DEFINE ahead == {b \in r.map : b >= bit}
<1>1. CASE ahead # {}
  <2> DEFINE s == [r EXCEPT !.rest = FirstRun(ahead), !.bits = {}]
  <2>1. FirstRun(ahead) \subseteq Bits
    BY PartsAreParts DEF Locals
  <2>2. s \in Locals
    BY <2>1 DEF Locals
  <2>3. "try claim" \in Locations /\ Fits("try claim", s) /\ HeldAt("try claim", s) = {}
    BY DEF Locations, Fits, HeldAt
  <2>4. QED
    BY <1>1, <2>2, <2>3, GotoSet DEF Onward
<1>2. CASE ahead = {}
  <2>0. PICK i \in Nat : i = r.idx + 1
    BY DEF Locals
  <2> DEFINE s == [r EXCEPT !.idx = i, !.map = {}, !.rest = {}, !.bits = {}]
             l == IF r.idx + 1 < Fields THEN "load purge"
                  ELSE IF r.full THEN "leave" ELSE "purge again"
  <2>1. s \in Locals
    BY DEF Locals
  <2>2. l \in Locations /\ Fits(l, s) /\ HeldAt(l, s) = {}
    BY DEF Locations, Fits, HeldAt
  <2>3. Set(t, s) /\ Goto(t, l)
    BY <1>2, <2>0 DEF Onward
  <2>4. QED
    BY <2>1, <2>2, <2>3, GotoSet
<1>3. QED
  BY <1>1, <1>2

-----------------------------------------------------------------------------
(* What a step does to the bits in use.                                    *)

LEMMA UnionIs ==
  ASSUME NEW A, NEW E, NEW C, NEW D
  PROVE  A = E \cup C \cup D <=> \A x : x \in A <=> x \in E \/ x \in C \/ x \in D
  OBVIOUS

\* Divided, for one bit.
Whose(x) ==
  x \in Leftover \/ (\E b \in blocks : x \in b.bits) \/ \E t \in Threads : x \in Holds(t)

LEMMA DividedIs ==
  /\ Divided <=> \A x : x \in inuse <=> Whose(x)
  /\ Divided' <=> \A x : x \in inuse' <=> Whose(x)'
<1>1. /\ \A x : x \in UNION {b.bits : b \in blocks} <=> \E b \in blocks : x \in b.bits
      /\ \A x : x \in UNION {Holds(t) : t \in Threads} <=> \E t \in Threads : x \in Holds(t)
      /\ \A x : x \in UNION {b.bits : b \in blocks'} <=> \E b \in blocks' : x \in b.bits
      /\ \A x : x \in UNION {Holds(t)' : t \in Threads} <=> \E t \in Threads : x \in Holds(t)'
  BY Zenon
<1>2. Divided <=> \A x : x \in inuse <=> Whose(x)
  <2>1. PICK C : C = UNION {b.bits : b \in blocks}
    OBVIOUS
  <2>2. PICK D : D = UNION {Holds(t) : t \in Threads}
    OBVIOUS
  <2>3. Divided <=> inuse = Leftover \cup C \cup D
    BY <2>1, <2>2, Zenon DEF Divided
  <2>4. Divided <=> \A x : x \in inuse <=> x \in Leftover \/ x \in C \/ x \in D
    BY <2>3, UnionIs
  <2>5. QED
    BY <1>1, <2>1, <2>2, <2>4, Zenon DEF Whose
<1>3. Divided' <=> \A x : x \in inuse' <=> Whose(x)'
  <2>1. PICK C : C = UNION {b.bits : b \in blocks'}
    OBVIOUS
  <2>2. PICK D : D = UNION {Holds(t)' : t \in Threads}
    OBVIOUS
  <2>3. Divided' <=> inuse' = Leftover' \cup C \cup D
    BY <2>1, <2>2, Zenon DEF Divided
  <2>4. Divided' <=> \A x : x \in inuse' <=> x \in Leftover' \/ x \in C \/ x \in D
    BY <2>3, UnionIs
  <2>5. QED
    BY <1>1, <2>1, <2>2, <2>4, Zenon DEF Whose
<1>4. QED
  BY <1>2, <1>3

LEMMA OthersHold ==
  ASSUME NEW t \in Threads, Moves(t)
  PROVE  \A u \in Threads \ {t} : Holds(u)' = Holds(u)
  BY HoldsIs DEF Moves

LEMMA FitsStill ==
  ASSUME IInv, NEW t \in Threads, Moves(t)
  PROVE  \A u \in Threads : Fits(pc[u], local[u])'
<1> SUFFICES ASSUME NEW u \in Threads PROVE Fits(pc'[u], local'[u])
  BY DEF Fits, Run, Field, FieldOf, Bits
<1>1. QED
  BY DEF IInv, Moves

\* A thread that keeps what it has.
LEMMA SameBits ==
  ASSUME IInv, NEW t \in Threads, Keeps(t, Holds(t)), inuse' = inuse, blocks' = blocks
  PROVE  Divided' /\ Apart'
<1>1. \A u \in Threads : Holds(u)' = Holds(u)
  BY OthersHold, HoldsIs DEF Keeps
<1>2. Divided'
  BY <1>1 DEF Divided, IInv, Leftover
<1>3. Apart'
  BY <1>1 DEF Apart, IInv, Leftover
<1>4. QED
  BY <1>2, <1>3

\* A thread that claims free bits.
LEMMA BitsClaimed ==
  ASSUME IInv, NEW t \in Threads, NEW M, M \cap inuse = {}, Keeps(t, Holds(t) \cup M),
         inuse' = inuse \cup M, blocks' = blocks
  PROVE  Divided' /\ Apart'
<1>1. /\ Holds(t)' = Holds(t) \cup M
      /\ \A u \in Threads \ {t} : Holds(u)' = Holds(u)
  BY OthersHold, HoldsIs DEF Keeps
<1>2. Leftover' = Leftover
  BY DEF Leftover
<1>3. Divided'
  <2>1. \A x : x \in inuse <=> Whose(x)
    BY DividedIs DEF IInv
  <2>2. \A x : Whose(x)' <=> Whose(x) \/ x \in M
    BY <1>1, <1>2 DEF Whose
  <2>3. QED
    BY <2>1, <2>2, DividedIs
<1>4. /\ M \cap Leftover = {}
      /\ \A b \in blocks : M \cap b.bits = {}
      /\ \A u \in Threads : M \cap Holds(u) = {}
  <2>1. \A x : x \in inuse <=> Whose(x)
    BY DividedIs DEF IInv
  <2>2. QED
    BY <2>1 DEF Whose
<1>5. Apart'
  BY <1>1, <1>2, <1>4 DEF Apart, IInv
<1>6. QED
  BY <1>3, <1>5

\* A thread that gives bits back.
LEMMA BitsGivenUp ==
  ASSUME IInv, NEW t \in Threads, NEW M, M \subseteq Holds(t), Keeps(t, Holds(t) \ M),
         inuse' = inuse \ M, blocks' = blocks
  PROVE  Divided' /\ Apart'
<1>1. /\ Holds(t)' = Holds(t) \ M
      /\ \A u \in Threads \ {t} : Holds(u)' = Holds(u)
  BY OthersHold, HoldsIs DEF Keeps
<1>2. Leftover' = Leftover
  BY DEF Leftover
<1>3. /\ M \cap Leftover = {}
      /\ \A b \in blocks : M \cap b.bits = {}
      /\ \A u \in Threads \ {t} : M \cap Holds(u) = {}
  BY DEF Apart, IInv
<1>4. Divided'
  <2>1. \A x : x \in inuse <=> Whose(x)
    BY DividedIs DEF IInv
  <2>2. \A x : Whose(x)' <=> Whose(x) /\ x \notin M
    BY <1>1, <1>2, <1>3 DEF Whose
  <2>3. QED
    BY <2>1, <2>2, DividedIs
<1>5. Apart'
  BY <1>1, <1>2 DEF Apart, IInv
<1>6. QED
  BY <1>4, <1>5

\* A thread that hands all its bits to its caller.
LEMMA BitsHandedOut ==
  ASSUME IInv, NEW t \in Threads, NEW c, c.bits = Holds(t), Keeps(t, {}),
         inuse' = inuse, blocks' = blocks \cup {c}
  PROVE  Divided' /\ Apart'
<1>1. /\ Holds(t)' = {}
      /\ \A u \in Threads \ {t} : Holds(u)' = Holds(u)
  BY OthersHold, HoldsIs DEF Keeps
<1>2. Leftover' = Leftover
  BY DEF Leftover
<1>3. Divided'
  <2>1. \A x : x \in inuse <=> Whose(x)
    BY DividedIs DEF IInv
  <2>2. \A x : Whose(x)' <=> Whose(x)
    BY <1>1, <1>2 DEF Whose
  <2>3. QED
    BY <2>1, <2>2, DividedIs
<1>4. Apart'
  BY <1>1, <1>2 DEF Apart, IInv
<1>5. QED
  BY <1>3, <1>4

\* A thread that gets the bits of a caller, who gives up the blocks b.
LEMMA BitsTakenBack ==
  ASSUME IInv, NEW t \in Threads, Holds(t) = {}, NEW b \in blocks, Keeps(t, b.bits),
         inuse' = inuse, blocks' = blocks \ {b}
  PROVE  Divided' /\ Apart'
<1>1. /\ Holds(t)' = b.bits
      /\ \A u \in Threads \ {t} : Holds(u)' = Holds(u)
  BY OthersHold, HoldsIs DEF Keeps
<1>2. Leftover' = Leftover
  BY DEF Leftover
<1>3. Divided'
  <2>1. \A x : x \in inuse <=> Whose(x)
    BY DividedIs DEF IInv
  <2>2. \A x : Whose(x)' <=> Whose(x)
    BY <1>1, <1>2 DEF Whose
  <2>3. QED
    BY <2>1, <2>2, DividedIs
<1>4. Apart'
  BY <1>1, <1>2 DEF Apart, IInv
<1>5. QED
  BY <1>3, <1>4

\* A thread that purges some of its bits.
LEMMA UsableAfterPurge ==
  ASSUME IInv, NEW t \in Threads, NEW M, M \subseteq Holds(t), blocks' = blocks,
         accessible' = IF Recommit THEN accessible \ M ELSE accessible,
         committed' = IF Recommit THEN committed \ M ELSE committed
  PROVE  Usable'
<1>1. \A b \in blocks : M \cap b.bits = {}
  BY DEF Apart, IInv
<1>2. QED
  BY <1>1 DEF Usable, IInv

\* A step that neither commits nor gives blocks to a caller, or takes them.
LEMMA UsableStill ==
  ASSUME IInv, UNCHANGED <<committed, accessible, blocks>>
  PROVE  Usable'
  BY DEF Usable, IInv

\* A thread that only looks.
LEMMA LookingStep ==
  ASSUME IInv, NEW t \in Threads, Keeps(t, Holds(t)), purge' \in SUBSET Bits,
         UNCHANGED <<inuse, committed, accessible, blocks>>
  PROVE  IInv'
<1>1. Types'
  BY DEF Types, IInv, Keeps, Moves, Bits, Block, Locals
<1>2. QED
  BY <1>1, SameBits, UsableStill, FitsStill DEF IInv, Keeps

-----------------------------------------------------------------------------
(* The actions.                                                            *)

LEMMA LocalTyped ==
  ASSUME IInv, NEW t \in Threads
  PROVE  /\ Types /\ local[t] \in Locals /\ pc[t] \in Locations /\ Fits(pc[t], local[t])
         /\ Holds(t) = HeldAt(pc[t], local[t])
         /\ inuse \cap Field(local[t].idx) \in SUBSET Bits
         /\ purge \cap Field(local[t].idx) \in SUBSET Bits
  BY HoldsIs DEF IInv, Types, Field

\* Alloc preserves the invariant.
LEMMA AllocKeeps ==
  ASSUME IInv, NEW t \in Threads, NEW n \in Requests, Alloc(t, n)
  PROVE  IInv'
<1> DEFINE s == [NoLocal EXCEPT !.count = n]
           l == IF n > FieldBits THEN "initial" ELSE "field"
<1>1. s \in Locals
  BY MiArenaAssumption, NoLocalFits DEF Locals
<1>2. l \in Locations /\ Fits(l, s) /\ HeldAt(l, s) = {}
  BY DEF Locations, Fits, HeldAt
<1>3. Keeps(t, {})
  BY <1>1, <1>2, GotoKeeps, LocalTyped DEF Alloc
<1>4. Holds(t) = {}
  BY HoldsIs DEF Alloc, At, HeldAt
<1>5. purge' \in SUBSET Bits
  BY DEF Alloc, bitmaps, IInv, Types
<1>6. QED
  BY <1>3, <1>4, <1>5, LookingStep DEF Alloc, bitmaps

\* LoadField preserves the invariant.
LEMMA LoadFieldKeeps == ASSUME IInv, NEW t \in Threads, LoadField(t) PROVE IInv'
<1>1. Keeps(t, {})
  BY AimKeeps, LocalTyped DEF LoadField
<1>2. Holds(t) = {}
  BY HoldsIs DEF LoadField, At, HeldAt
<1>3. purge' \in SUBSET Bits
  BY DEF LoadField, bitmaps, IInv, Types
<1>4. QED
  BY <1>1, <1>2, <1>3, LookingStep DEF LoadField, bitmaps

\* What a step that claims bits or gives some back preserves.
LEMMA TypesStill ==
  ASSUME IInv, NEW t \in Threads, Moves(t), purge' \in SUBSET Bits, blocks' \in SUBSET Block
  PROVE  Types'
  BY DEF Types, IInv, Moves, Bits, Block, Locals

LEMMA ClaimStep ==
  ASSUME IInv, NEW t \in Threads, NEW M, M \cap inuse = {}, Keeps(t, Holds(t) \cup M),
         inuse' = inuse \cup M,
         UNCHANGED <<committed, purge, accessible, blocks>>
  PROVE  IInv'
<1>1. Types'
  BY TypesStill DEF IInv, Types, Keeps
<1>2. QED
  BY <1>1, BitsClaimed, UsableStill, FitsStill DEF IInv, Keeps

LEMMA GiveStep ==
  ASSUME IInv, NEW t \in Threads, NEW M, M \subseteq Holds(t), Keeps(t, Holds(t) \ M),
         inuse' = inuse \ M,
         UNCHANGED <<committed, purge, accessible, blocks>>
  PROVE  IInv'
<1>1. Types'
  BY TypesStill DEF IInv, Types, Keeps
<1>2. QED
  BY <1>1, BitsGivenUp, UsableStill, FitsStill DEF IInv, Keeps

\* A thread has claimed what it wanted.
LEMMA ClaimedKeeps ==
  ASSUME Types, NEW t \in Threads, NEW M \in SUBSET Bits, Claimed(t, M)
  PROVE  Keeps(t, M)
<1> DEFINE s == [NoLocal EXCEPT !.bits = M, !.rest = M]
<1>1. s \in Locals /\ s.bits = M
  BY NoLocalFits DEF Locals
<1>2. "claimed" \in Locations /\ Fits("claimed", s) /\ HeldAt("claimed", s) = M
  BY <1>1 DEF Locations, Fits, HeldAt
<1>3. QED
  BY <1>1, <1>2, GotoSet DEF Claimed

\* ClaimField preserves the invariant.
LEMMA ClaimFieldKeeps == ASSUME IInv, NEW t \in Threads, ClaimField(t) PROVE IInv'
<1> DEFINE r == local[t]
           map == inuse \cap Field(r.idx)
           M == Run(r.bit, r.count)
<1>1. pc[t] = "claim" /\ Holds(t) = {}
  BY HoldsIs DEF ClaimField, At, HeldAt
<1>2. CASE map = r.map /\ inuse' = inuse \cup M /\ Claimed(t, M)
  <2>1. M \subseteq Field(r.idx) \ map
    BY <1>1, <1>2, LocalTyped DEF Fits
  <2>2. M \in SUBSET Bits /\ M \cap inuse = {}
    BY <2>1 DEF Field
  <2>3. Keeps(t, M)
    BY <1>2, <2>2, LocalTyped, ClaimedKeeps
  <2>4. QED
    BY <1>1, <1>2, <2>2, <2>3, ClaimStep DEF ClaimField
<1>3. CASE Aim(t, r, map) /\ inuse' = inuse
  <2>1. Keeps(t, {})
    BY <1>3, AimKeeps, LocalTyped
  <2>2. QED
    BY <1>1, <1>3, <2>1, LookingStep DEF ClaimField, IInv, Types
<1>4. QED
  BY <1>2, <1>3 DEF ClaimField

\* LoadInitial preserves the invariant.
LEMMA LoadInitialKeeps == ASSUME IInv, NEW t \in Threads, LoadInitial(t) PROVE IInv'
<1>1. PICK r \in Locals : r = local[t]
  BY LocalTyped
<1>2. PICK initial : initial = Initial(inuse, r.idx)
  OBVIOUS
<1>3. PICK bits : bits = Run(Min(initial), r.count)
  OBVIOUS
<1>4. Keeps(t, {})
  <2>1. CASE NextField(t, r)
    BY <2>1, NextFieldKeeps, LocalTyped
  <2>2. CASE Goto(t, "field") /\ Set(t, [r EXCEPT !.flag = TRUE])
    <3>1. [r EXCEPT !.flag = TRUE] \in Locals
      BY DEF Locals
    <3>2. "field" \in Locations /\ Fits("field", [r EXCEPT !.flag = TRUE])
          /\ HeldAt("field", [r EXCEPT !.flag = TRUE]) = {}
      BY DEF Locations, Fits, HeldAt
    <3>3. QED
      BY <2>2, <3>1, <3>2, GotoSet, LocalTyped
  <2>3. CASE /\ bits \subseteq Bits /\ Goto(t, "scan")
             /\ Set(t, [r EXCEPT !.bits = bits, !.rest = bits \ initial])
    <3>1. PICK s \in Locals : s = [r EXCEPT !.bits = bits, !.rest = bits \ initial]
      BY <2>3 DEF Locals
    <3>2. s.bits = bits /\ s.rest = bits \ initial
      BY <3>1 DEF Locals
    <3>3. "scan" \in Locations /\ Fits("scan", s) /\ HeldAt("scan", s) = {}
      BY <3>2 DEF Locations, Fits, HeldAt
    <3>4. Goto(t, "scan") /\ Set(t, s)
      BY <2>3, <3>1
    <3>5. QED
      BY <3>3, <3>4, GotoKeeps, LocalTyped
  <2>4. QED
    BY <1>1, <1>2, <1>3, <2>1, <2>2, <2>3 DEF LoadInitial
<1>5. Holds(t) = {}
  BY HoldsIs DEF LoadInitial, At, HeldAt
<1>6. purge' \in SUBSET Bits
  BY DEF LoadInitial, bitmaps, IInv, Types
<1>7. QED
  BY <1>4, <1>5, <1>6, LookingStep DEF LoadInitial, bitmaps

\* Scan preserves the invariant.
LEMMA ScanKeeps == ASSUME IInv, NEW t \in Threads, Scan(t) PROVE IInv'
<1>1. PICK r \in Locals : r = local[t]
  BY LocalTyped
<1>2. pc[t] = "scan" /\ Holds(t) = {} /\ r.rest \subseteq r.bits
  BY <1>1, HoldsIs, LocalTyped DEF Scan, At, HeldAt, Fits
<1>3. Keeps(t, {})
  <2>1. CASE NextField(t, r)
    BY <2>1, NextFieldKeeps, LocalTyped
  <2>2. CASE Across(t, "cross", r)
    <3>1. [r EXCEPT !.rest = r.bits].rest = r.bits /\ [r EXCEPT !.rest = r.bits].bits = r.bits
      BY DEF Locals
    <3>2. /\ HeldAt("cross", [r EXCEPT !.rest = r.bits]) = {}
          /\ HeldAt("scan", [r EXCEPT !.rest = r.rest \ FirstPart(r.rest)]) = {}
      BY <3>1 DEF HeldAt
    <3>3. "cross" \in Locations
      BY DEF Locations
    <3>4. QED
      BY <1>2, <2>2, <3>2, <3>3, AcrossKeeps, LocalTyped DEF Keeps
  <2>3. QED
    BY <1>1, <2>1, <2>2 DEF Scan
<1>4. purge' \in SUBSET Bits
  BY DEF Scan, bitmaps, IInv, Types
<1>5. QED
  BY <1>2, <1>3, <1>4, LookingStep DEF Scan, bitmaps

\* Cross preserves the invariant.
LEMMA CrossKeeps == ASSUME IInv, NEW t \in Threads, Cross(t) PROVE IInv'
<1>1. PICK r \in Locals : r = local[t]
  BY LocalTyped
<1>2. PICK piece : piece = FirstPart(r.rest)
  OBVIOUS
<1>3. /\ pc[t] = "cross" /\ Holds(t) = r.bits \ r.rest /\ r.rest \subseteq r.bits
      /\ piece \subseteq r.rest /\ r.bits \subseteq Bits
  BY <1>1, <1>2, HoldsIs, LocalTyped, PartsAreParts DEF Cross, At, HeldAt, Fits, Locals
<1>4. CASE piece \cap inuse = {}
  <2>1. inuse' = inuse \cup piece
    BY <1>1, <1>2, <1>4 DEF Cross
  <2>2. Keeps(t, Holds(t) \cup piece)
    <3>1. CASE r.rest = piece
      <4>1. Keeps(t, r.bits)
        BY <1>1, <1>2, <1>3, <1>4, <3>1, ClaimedKeeps, LocalTyped DEF Cross
      <4>2. QED
        BY <4>1, <3>1, <1>3
    <3>2. CASE r.rest # piece
      <4>1. Across(t, "cross", r)
        BY <1>1, <1>2, <1>4, <3>2 DEF Cross
      <4>2. "cross" \in Locations
        BY DEF Locations
      <4>3. PICK s \in Locals : s = [r EXCEPT !.rest = r.rest \ FirstPart(r.rest)]
        BY DEF Locals
      <4>4. s.rest = r.rest \ piece /\ s.bits = r.bits
        BY <4>3, <1>2 DEF Locals
      <4>5. HeldAt("cross", s) = r.bits \ (r.rest \ piece)
        BY <4>4 DEF HeldAt
      <4>6. Keeps(t, r.bits \ (r.rest \ piece))
        BY <1>2, <1>3, <3>2, <4>1, <4>2, <4>3, <4>5, AcrossKeeps, LocalTyped DEF Keeps
      <4>7. r.bits \ (r.rest \ piece) = Holds(t) \cup piece
        BY <1>3
      <4>8. QED
        BY <4>6, <4>7
    <3>3. QED
      BY <3>1, <3>2
  <2>3. QED
    BY <1>4, <2>1, <2>2, ClaimStep DEF Cross
<1>5. CASE piece \cap inuse # {}
  <2> DEFINE s == [r EXCEPT !.rest = r.bits \ r.rest]
  <2>1. Goto(t, "rollback") /\ Set(t, s) /\ inuse' = inuse
    BY <1>1, <1>2, <1>5 DEF Cross
  <2>2. s \in Locals /\ s.rest = r.bits \ r.rest
    BY DEF Locals
  <2>3. "rollback" \in Locations /\ Fits("rollback", s) /\ HeldAt("rollback", s) = Holds(t)
    BY <1>3, <2>2 DEF Locations, Fits, HeldAt
  <2>4. Keeps(t, Holds(t))
    BY <2>1, <2>2, <2>3, GotoKeeps, LocalTyped
  <2>5. QED
    BY <2>1, <2>4, LookingStep DEF Cross, IInv, Types
<1>6. QED
  BY <1>4, <1>5

\* Rollback preserves the invariant.
LEMMA RollbackKeeps == ASSUME IInv, NEW t \in Threads, Rollback(t) PROVE IInv'
<1>1. PICK r \in Locals : r = local[t]
  BY LocalTyped
<1>2. PICK M : M = LastPart(r.rest)
  OBVIOUS
<1>3. pc[t] = "rollback" /\ Holds(t) = r.rest /\ M \subseteq r.rest
  BY <1>1, <1>2, HoldsIs, PartsAreParts DEF Rollback, At, HeldAt
<1>4. PICK s : s = [r EXCEPT !.rest = r.rest \ M]
  OBVIOUS
<1>5. s \in Locals /\ s.rest = r.rest \ M
  BY <1>4 DEF Locals
<1>6. Fits("rollback", s) /\ HeldAt("rollback", s) = r.rest \ M /\ "rollback" \in Locations
  BY <1>5 DEF Fits, HeldAt, Locations
<1>7. Goto(t, "rollback") /\ Set(t, s)
  BY <1>1, <1>2, <1>3, <1>4, LocalTyped DEF Rollback, Goto, Types
<1>8. Keeps(t, Holds(t) \ M)
  <2>1. Keeps(t, HeldAt("rollback", s))
    BY <1>5, <1>6, <1>7, GotoSet, LocalTyped
  <2>2. QED
    BY <2>1, <1>3, <1>6
<1>9. QED
  BY <1>1, <1>2, <1>3, <1>8, GiveStep DEF Rollback

\* Retry preserves the invariant.
LEMMA RetryKeeps == ASSUME IInv, NEW t \in Threads, Retry(t) PROVE IInv'
<1>1. PICK r \in Locals : r = local[t]
  BY LocalTyped
<1>2. Holds(t) = {}
  BY HoldsIs DEF Retry, At, HeldAt
<1>3. Keeps(t, {})
  <2>1. CASE NextField(t, r)
    BY <2>1, NextFieldKeeps, LocalTyped
  <2>2. CASE /\ Goto(t, "initial")
             /\ Set(t, [r EXCEPT !.retries = r.retries + 1, !.bits = {}])
    <3>0. PICK n \in Nat : n = r.retries + 1
      BY DEF Locals
    <3> DEFINE s == [r EXCEPT !.retries = n, !.bits = {}]
    <3>1. s \in Locals
      BY DEF Locals
    <3>2. "initial" \in Locations /\ Fits("initial", s) /\ HeldAt("initial", s) = {}
      BY DEF Locations, Fits, HeldAt
    <3>3. QED
      BY <2>2, <3>0, <3>1, <3>2, GotoSet, LocalTyped
  <2>3. QED
    BY <1>1, <2>1, <2>2 DEF Retry
<1>4. purge' \in SUBSET Bits
  BY DEF Retry, bitmaps, IInv, Types
<1>5. QED
  BY <1>2, <1>3, <1>4, LookingStep DEF Retry, bitmaps

\* CancelPurge preserves the invariant.
LEMMA CancelPurgeKeeps == ASSUME IInv, NEW t \in Threads, CancelPurge(t) PROVE IInv'
<1>1. PICK r \in Locals : r = local[t]
  BY LocalTyped
<1>2. pc[t] = "claimed" /\ Holds(t) = r.bits
  BY <1>1, HoldsIs DEF CancelPurge, At, HeldAt
<1>3. Across(t, "commit", r) /\ "commit" \in Locations
  BY <1>1 DEF CancelPurge, Locations
<1>4. /\ HeldAt("commit", [r EXCEPT !.rest = r.bits]) = r.bits
      /\ HeldAt("claimed", [r EXCEPT !.rest = r.rest \ FirstPart(r.rest)]) = r.bits
  BY DEF HeldAt, Locals
<1>5. Keeps(t, Holds(t))
  BY <1>2, <1>3, <1>4, AcrossKeeps, LocalTyped DEF Keeps
<1>6. purge' \in SUBSET Bits
  BY DEF CancelPurge, IInv, Types
<1>7. QED
  BY <1>5, <1>6, LookingStep DEF CancelPurge

\* Commit preserves the invariant.
LEMMA CommitKeeps ==
  ASSUME IInv, NEW t \in Threads, NEW commit \in BOOLEAN, NEW ok \in BOOLEAN,
         Commit(t, commit, ok)
  PROVE  IInv'
<1>1. PICK r \in Locals : r = local[t]
  BY LocalTyped
<1>2. PICK all \in BOOLEAN : all = (r.bits \subseteq committed)
  OBVIOUS
<1>3. PICK done \in BOOLEAN : done = (all \/ (commit /\ ok))
  OBVIOUS
<1>4. PICK c : c = [bits |-> r.bits, committed |-> done]
  OBVIOUS
<1>5. c.bits = r.bits /\ c.committed = done /\ c \in Block
  BY <1>4 DEF Locals, Block
<1>6. /\ ok \/ (commit /\ ~ all)
      /\ committed' = IF commit THEN committed \cup r.bits ELSE committed
      /\ accessible' = IF commit /\ ~ all /\ ok THEN accessible \cup r.bits ELSE accessible
      /\ blocks' = blocks \cup {c}
      /\ Quit(t) /\ inuse' = inuse /\ purge' = purge
  BY <1>1, <1>2, <1>3, <1>4 DEF Commit, Return
<1>7. Holds(t) = r.bits
  BY <1>1, HoldsIs DEF Commit, At, HeldAt
<1>8. Keeps(t, {})
  BY <1>6, QuitKeeps, LocalTyped
<1>9. Divided' /\ Apart'
  BY <1>5, <1>6, <1>7, <1>8, BitsHandedOut
<1>10. \A b \in blocks : r.bits \cap b.bits = {}
  BY <1>7 DEF IInv, Apart
<1>11. Usable'
  <2>1. ASSUME NEW x \in committed' \ accessible'
        PROVE  \E b \in blocks' : ~ b.committed /\ x \in b.bits
    <3>1. CASE x \in committed \ accessible
      <4>1. PICK b \in blocks : ~ b.committed /\ x \in b.bits
        BY <3>1 DEF IInv, Usable
      <4>2. QED
        BY <4>1, <1>6
    <3>2. CASE x \notin committed \ accessible
      <4>1. x \in r.bits /\ commit /\ ~ all /\ ~ ok
        BY <1>2, <1>6, <2>1, <3>2
      <4>2. QED
        BY <4>1, <1>3, <1>5, <1>6
    <3>3. QED
      BY <3>1, <3>2
  <2>2. ASSUME NEW b \in blocks', b.committed PROVE b.bits \subseteq accessible'
    <3>1. CASE b \in blocks
      BY <3>1, <2>2, <1>6 DEF IInv, Usable
    <3>2. CASE b = c
      <4>1. CASE all
        <5>1. r.bits \subseteq accessible
          BY <4>1, <1>2, <1>10 DEF IInv, Usable
        <5>2. QED
          BY <5>1, <3>2, <1>5, <1>6
      <4>2. CASE ~ all
        BY <4>2, <3>2, <2>2, <1>3, <1>5, <1>6
      <4>3. QED
        BY <4>1, <4>2
    <3>3. QED
      BY <3>1, <3>2, <1>6
  <2>3. QED
    BY <2>1, <2>2 DEF Usable
<1>12. Types'
  BY <1>5, <1>6, <1>8, TypesStill DEF IInv, Types, Keeps
<1>13. QED
  BY <1>8, <1>9, <1>11, <1>12, FitsStill DEF IInv, Keeps

\* Free preserves the invariant.
LEMMA FreeKeeps ==
  ASSUME IInv, NEW t \in Threads, NEW b \in blocks, NEW left \in {{}, b.bits}, Free(t, b, left)
  PROVE  IInv'
<1> DEFINE s == [NoLocal EXCEPT !.bits = b.bits, !.rest = b.bits]
<1>1. b \in Block /\ b.bits \in SUBSET Bits
  BY DEF IInv, Types, Block
<1>2. s \in Locals /\ s.bits = b.bits /\ s.rest = b.bits
  BY <1>1, NoLocalFits DEF Locals
<1>3. "expire" \in Locations /\ Fits("expire", s) /\ HeldAt("expire", s) = b.bits
  BY <1>2 DEF Locations, Fits, HeldAt
<1>4. Keeps(t, b.bits)
  BY <1>2, <1>3, GotoKeeps, LocalTyped DEF Free
<1>5. Holds(t) = {}
  BY HoldsIs DEF Free, At, HeldAt
<1>6. Divided' /\ Apart'
  BY <1>4, <1>5, BitsTakenBack DEF Free
<1>7. Usable'
  <2>1. \A c \in blocks \ {b} : b.bits \cap c.bits = {}
    BY DEF IInv, Apart
  <2>2. /\ blocks' = blocks \ {b}
        /\ accessible' = (accessible \ b.bits) \cup left
        /\ committed' = IF left = b.bits THEN committed ELSE committed \ b.bits
    BY DEF Free
  <2>3. ASSUME NEW x \in committed' \ accessible'
        PROVE  \E c \in blocks' : ~ c.committed /\ x \in c.bits
    <3>1. x \in committed /\ x \notin b.bits /\ x \notin accessible
      BY <2>2, <2>3
    <3>2. PICK c \in blocks : ~ c.committed /\ x \in c.bits
      BY <3>1 DEF IInv, Usable
    <3>3. QED
      BY <3>1, <3>2, <2>2
  <2>4. ASSUME NEW c \in blocks', c.committed PROVE c.bits \subseteq accessible'
    BY <2>1, <2>2, <2>4 DEF IInv, Usable
  <2>5. QED
    BY <2>3, <2>4 DEF Usable
<1>8. Types'
  BY <1>4, TypesStill DEF Free, IInv, Types, Keeps
<1>9. QED
  BY <1>4, <1>6, <1>7, <1>8, FitsStill DEF IInv, Keeps

\* PurgeNever preserves the invariant.
LEMMA PurgeNeverKeeps == ASSUME IInv, NEW t \in Threads, PurgeNever(t) PROVE IInv'
<1>1. PICK r \in Locals : r = local[t]
  BY LocalTyped
<1>2. pc[t] = "expire" /\ Holds(t) = r.bits /\ r.rest = r.bits
  BY <1>1, HoldsIs, LocalTyped DEF PurgeNever, At, HeldAt, Fits
<1>3. "unclaim" \in Locations /\ Fits("unclaim", r) /\ HeldAt("unclaim", r) = r.bits
  BY <1>2 DEF Locations, Fits, HeldAt
<1>4. Set(t, r) /\ Goto(t, "unclaim")
  BY <1>1, LocalTyped DEF PurgeNever, Set, Types
<1>5. Keeps(t, r.bits)
  BY <1>3, <1>4, GotoKeeps, LocalTyped
<1>6. Divided' /\ Apart'
  BY <1>2, <1>5, SameBits DEF PurgeNever, bitmaps
<1>7. Usable'
  BY DEF PurgeNever, IInv, Usable, bitmaps
<1>8. Types'
  BY <1>5, TypesStill DEF PurgeNever, IInv, Types, Keeps, bitmaps
<1>9. QED
  BY <1>5, <1>6, <1>7, <1>8, FitsStill DEF IInv, Keeps

\* PurgeNow preserves the invariant.
LEMMA PurgeNowKeeps == ASSUME IInv, NEW t \in Threads, PurgeNow(t) PROVE IInv'
<1>1. PICK r \in Locals : r = local[t]
  BY LocalTyped
<1>2. pc[t] = "expire" /\ Holds(t) = r.bits /\ r.rest = r.bits
  BY <1>1, HoldsIs, LocalTyped DEF PurgeNow, At, HeldAt, Fits
<1>3. "unclaim" \in Locations /\ Fits("unclaim", r) /\ HeldAt("unclaim", r) = r.bits
  BY <1>2 DEF Locations, Fits, HeldAt
<1>4. Set(t, r) /\ Goto(t, "unclaim")
  BY <1>1, LocalTyped DEF PurgeNow, Set, Types
<1>5. Keeps(t, r.bits)
  BY <1>3, <1>4, GotoKeeps, LocalTyped
<1>6. Divided' /\ Apart'
  BY <1>2, <1>5, SameBits DEF PurgeNow
<1>7. Usable'
  BY <1>1, <1>2, UsableAfterPurge DEF PurgeNow
<1>8. Types'
  BY <1>5, TypesStill DEF PurgeNow, IInv, Types, Keeps
<1>9. QED
  BY <1>5, <1>6, <1>7, <1>8, FitsStill DEF IInv, Keeps

\* ReadExpire preserves the invariant.
LEMMA ReadExpireKeeps == ASSUME IInv, NEW t \in Threads, ReadExpire(t) PROVE IInv'
<1>1. PICK r \in Locals : r = local[t]
  BY LocalTyped
<1>2. pc[t] = "expire" /\ Holds(t) = r.bits /\ r.rest = r.bits
  BY <1>1, HoldsIs, LocalTyped DEF ReadExpire, At, HeldAt, Fits
<1>3. PICK s \in Locals : s = [r EXCEPT !.flag = (purge_expire # "none")]
  BY DEF Locals
<1>4. s.bits = r.bits /\ s.rest = r.rest
  BY <1>3 DEF Locals
<1>5. "set expire" \in Locations /\ Fits("set expire", s) /\ HeldAt("set expire", s) = r.bits
  BY <1>2, <1>4 DEF Locations, Fits, HeldAt
<1>6. Set(t, s) /\ Goto(t, "set expire")
  BY <1>1, <1>3 DEF ReadExpire
<1>7. Keeps(t, Holds(t))
  BY <1>2, <1>5, <1>6, GotoKeeps, LocalTyped
<1>8. purge' \in SUBSET Bits
  BY DEF ReadExpire, bitmaps, IInv, Types
<1>9. QED
  BY <1>7, <1>8, LookingStep DEF ReadExpire, bitmaps

\* SetExpire preserves the invariant.
LEMMA SetExpireKeeps == ASSUME IInv, NEW t \in Threads, SetExpire(t) PROVE IInv'
<1>1. PICK r \in Locals : r = local[t]
  BY LocalTyped
<1>2. pc[t] = "set expire" /\ Holds(t) = r.bits
  BY <1>1, HoldsIs DEF SetExpire, At, HeldAt
<1>3. PICK s \in Locals : s = [r EXCEPT !.flag = FALSE]
  BY DEF Locals
<1>4. s.bits = r.bits
  BY <1>3 DEF Locals
<1>5. "schedule" \in Locations /\ Fits("schedule", s) /\ HeldAt("schedule", s) = r.bits
  BY <1>4 DEF Locations, Fits, HeldAt
<1>6. Set(t, s) /\ Goto(t, "schedule")
  BY <1>1, <1>3 DEF SetExpire
<1>7. Keeps(t, Holds(t))
  BY <1>2, <1>5, <1>6, GotoKeeps, LocalTyped
<1>8. purge' \in SUBSET Bits
  BY DEF SetExpire, bitmaps, IInv, Types
<1>9. QED
  BY <1>7, <1>8, LookingStep DEF SetExpire, bitmaps

\* SchedulePurge preserves the invariant.
LEMMA SchedulePurgeKeeps == ASSUME IInv, NEW t \in Threads, SchedulePurge(t) PROVE IInv'
<1>1. PICK r \in Locals : r = local[t]
  BY LocalTyped
<1>2. pc[t] = "schedule" /\ Holds(t) = r.bits
  BY <1>1, HoldsIs DEF SchedulePurge, At, HeldAt
<1>3. Across(t, "unclaim", r) /\ "unclaim" \in Locations
  BY <1>1 DEF SchedulePurge, Locations
<1>4. /\ HeldAt("unclaim", [r EXCEPT !.rest = r.bits]) = r.bits
      /\ HeldAt("schedule", [r EXCEPT !.rest = r.rest \ FirstPart(r.rest)]) = r.bits
  BY DEF HeldAt, Locals
<1>5. Keeps(t, Holds(t))
  BY <1>2, <1>3, <1>4, AcrossKeeps, LocalTyped DEF Keeps
<1>6. purge' \in SUBSET Bits
  <2>1. FirstPart(r.rest) \subseteq Bits
    BY PartsAreParts DEF Locals
  <2>2. QED
    BY <1>1, <2>1 DEF SchedulePurge, IInv, Types
<1>7. QED
  BY <1>5, <1>6, LookingStep DEF SchedulePurge

\* Unclaim preserves the invariant.
LEMMA UnclaimKeeps == ASSUME IInv, NEW t \in Threads, Unclaim(t) PROVE IInv'
<1>1. PICK r \in Locals : r = local[t]
  BY LocalTyped
<1>2. PICK M : M = FirstPart(r.rest)
  OBVIOUS
<1>3. pc[t] = "unclaim" /\ Holds(t) = r.rest /\ M \subseteq r.rest
  BY <1>1, <1>2, HoldsIs, PartsAreParts DEF Unclaim, At, HeldAt
<1>4. Across(t, "guard", r) /\ "guard" \in Locations
  BY <1>1 DEF Unclaim, Locations
<1>5. /\ HeldAt("guard", [r EXCEPT !.rest = r.bits]) = {}
      /\ HeldAt("unclaim", [r EXCEPT !.rest = r.rest \ FirstPart(r.rest)]) = r.rest \ M
  BY <1>2 DEF HeldAt, Locals
<1>6. Keeps(t, Holds(t) \ M)
  BY <1>2, <1>3, <1>4, <1>5, AcrossKeeps, LocalTyped DEF Keeps
<1>7. QED
  BY <1>1, <1>2, <1>3, <1>6, GiveStep DEF Unclaim

\* A thread that has claimed nothing and goes where it holds nothing.
LEMMA IdleStep ==
  ASSUME IInv, NEW t \in Threads, Holds(t) = {}, NEW l \in Locations, NEW r \in Locals,
         l \in {"idle", "guard", "due", "reset expire", "load purge", "purge again", "leave"},
         Goto(t, l), Set(t, r), UNCHANGED <<bitmaps, accessible, blocks>>
  PROVE  IInv'
<1>1. Fits(l, r) /\ HeldAt(l, r) = {}
  BY DEF Fits, HeldAt
<1>2. Keeps(t, {})
  BY <1>1, GotoKeeps, LocalTyped
<1>3. purge' \in SUBSET Bits
  BY DEF bitmaps, IInv, Types
<1>4. QED
  BY <1>2, <1>3, LookingStep DEF bitmaps

\* Collect preserves the invariant.
LEMMA CollectKeeps ==
  ASSUME IInv, NEW t \in Threads, NEW force \in BOOLEAN, Collect(t, force)
  PROVE  IInv'
<1>1. Holds(t) = {} /\ "guard" \in Locations
  BY HoldsIs DEF Collect, At, HeldAt, Locations
<1>2. [NoLocal EXCEPT !.force = force] \in Locals
  BY NoLocalFits DEF Locals
<1>3. QED
  BY <1>1, <1>2, IdleStep DEF Collect

\* Guard preserves the invariant.
LEMMA GuardKeeps == ASSUME IInv, NEW t \in Threads, Guard(t) PROVE IInv'
<1>1. Holds(t) = {} /\ "due" \in Locations /\ "idle" \in Locations
  BY HoldsIs DEF Guard, At, HeldAt, Locations
<1>2. [NoLocal EXCEPT !.force = local[t].force] \in Locals
  <2>1. local[t].force \in BOOLEAN
    BY LocalTyped DEF Locals
  <2>2. QED
    BY <2>1, NoLocalFits DEF Locals
<1>3. UNCHANGED <<bitmaps, accessible, blocks>>
  BY DEF Guard
<1>4. CASE Goto(t, "due") /\ Set(t, [NoLocal EXCEPT !.force = local[t].force])
  BY <1>1, <1>2, <1>3, <1>4, IdleStep
<1>5. CASE Quit(t)
  BY <1>1, <1>3, <1>5, NoLocalFits, IdleStep DEF Quit
<1>6. QED
  BY <1>4, <1>5 DEF Guard

\* ReadDue preserves the invariant.
LEMMA ReadDueKeeps == ASSUME IInv, NEW t \in Threads, ReadDue(t) PROVE IInv'
<1>1. Holds(t) = {} /\ "reset expire" \in Locations /\ "leave" \in Locations
  BY HoldsIs DEF ReadDue, At, HeldAt, Locations
<1>2. PICK l \in {"reset expire", "leave"} : Goto(t, l)
  BY DEF ReadDue
<1>3. QED
  BY <1>1, <1>2, NoLocalFits, IdleStep DEF ReadDue

\* ResetExpire preserves the invariant.
LEMMA ResetExpireKeeps == ASSUME IInv, NEW t \in Threads, ResetExpire(t) PROVE IInv'
<1>1. Holds(t) = {} /\ "load purge" \in Locations
  BY HoldsIs DEF ResetExpire, At, HeldAt, Locations
<1>2. [local[t] EXCEPT !.full = TRUE] \in Locals
  BY LocalTyped DEF Locals
<1>3. QED
  BY <1>1, <1>2, IdleStep DEF ResetExpire

\* PurgeAgain preserves the invariant.
LEMMA PurgeAgainKeeps == ASSUME IInv, NEW t \in Threads, PurgeAgain(t) PROVE IInv'
<1>1. Holds(t) = {} /\ "leave" \in Locations
  BY HoldsIs DEF PurgeAgain, At, HeldAt, Locations
<1>2. Set(t, local[t]) /\ local[t] \in Locals
  BY LocalTyped DEF PurgeAgain, Set, Types
<1>3. QED
  BY <1>1, <1>2, IdleStep DEF PurgeAgain

\* Leave preserves the invariant.
LEMMA LeaveKeeps == ASSUME IInv, NEW t \in Threads, Leave(t) PROVE IInv'
<1>1. Holds(t) = {} /\ "idle" \in Locations
  BY HoldsIs DEF Leave, At, HeldAt, Locations
<1>2. QED
  BY <1>1, NoLocalFits, IdleStep DEF Leave, Quit

\* LoadPurge preserves the invariant.
LEMMA LoadPurgeKeeps == ASSUME IInv, NEW t \in Threads, LoadPurge(t) PROVE IInv'
<1>1. PICK r \in Locals : r = local[t]
  BY LocalTyped
<1>2. PICK s \in Locals : s = [r EXCEPT !.map = purge \cap Field(r.idx)]
  BY <1>1, LocalTyped DEF Locals
<1>3. Onward(t, s, 0)
  BY <1>1, <1>2 DEF LoadPurge
<1>4. Keeps(t, {})
  BY <1>3, OnwardKeeps, LocalTyped
<1>5. Holds(t) = {}
  BY HoldsIs DEF LoadPurge, At, HeldAt
<1>6. purge' \in SUBSET Bits
  BY DEF LoadPurge, bitmaps, IInv, Types
<1>7. QED
  BY <1>4, <1>5, <1>6, LookingStep DEF LoadPurge, bitmaps

\* TryClaim preserves the invariant.
LEMMA TryClaimKeeps == ASSUME IInv, NEW t \in Threads, TryClaim(t) PROVE IInv'
<1>1. PICK r \in Locals : r = local[t]
  BY LocalTyped
<1>2. pc[t] = "try claim" /\ Holds(t) = {}
  BY HoldsIs DEF TryClaim, At, HeldAt
<1>3. CASE /\ r.rest \cap inuse = {} /\ inuse' = inuse \cup r.rest
           /\ Goto(t, "reload purge") /\ Set(t, [r EXCEPT !.bits = r.rest])
  <2>1. PICK s \in Locals : s = [r EXCEPT !.bits = r.rest]
    BY DEF Locals
  <2>2. s.bits = r.rest /\ s.rest = r.rest
    BY <2>1 DEF Locals
  <2>3. "reload purge" \in Locations /\ Fits("reload purge", s)
        /\ HeldAt("reload purge", s) = r.rest
    BY <2>2 DEF Locations, Fits, HeldAt
  <2>4. Keeps(t, r.rest)
    <3>1. Goto(t, "reload purge") /\ Set(t, s)
      BY <1>3, <2>1
    <3>2. QED
      BY <2>3, <3>1, GotoKeeps, LocalTyped
  <2>5. QED
    BY <1>2, <1>3, <2>4, ClaimStep DEF TryClaim
<1>4. CASE /\ Set(t, [r EXCEPT !.rest = r.rest \ {Max(r.rest)}])
           /\ UNCHANGED <<inuse, pc>>
  <2>1. PICK s \in Locals : s = [r EXCEPT !.rest = r.rest \ {Max(r.rest)}]
    BY DEF Locals
  <2>2. "try claim" \in Locations /\ Fits("try claim", s) /\ HeldAt("try claim", s) = {}
    BY DEF Locations, Fits, HeldAt
  <2>3. Goto(t, "try claim")
    BY <1>2, <1>4, LocalTyped DEF Goto, Types
  <2>4. Keeps(t, {})
    BY <1>4, <2>1, <2>2, <2>3, GotoKeeps, LocalTyped
  <2>5. QED
    BY <1>2, <1>4, <2>4, LookingStep DEF TryClaim, IInv, Types
<1>5. CASE /\ Onward(t, [r EXCEPT !.missed = r.missed \cup r.rest], Max(r.rest) + 1)
           /\ UNCHANGED inuse
  <2>1. PICK s \in Locals : s = [r EXCEPT !.missed = r.missed \cup r.rest]
    BY DEF Locals
  <2>2. Keeps(t, {})
    BY <1>5, <2>1, OnwardKeeps, LocalTyped
  <2>3. QED
    BY <1>2, <1>5, <2>2, LookingStep DEF TryClaim, IInv, Types
<1>6. QED
  BY <1>1, <1>3, <1>4, <1>5 DEF TryClaim

\* ReloadPurge preserves the invariant.
LEMMA ReloadPurgeKeeps == ASSUME IInv, NEW t \in Threads, ReloadPurge(t) PROVE IInv'
<1>1. PICK r \in Locals : r = local[t]
  BY LocalTyped
<1>2. PICK map \in SUBSET Bits : map = purge \cap Field(r.idx)
  BY <1>1, LocalTyped
<1>3. /\ pc[t] = "reload purge" /\ Holds(t) = r.bits /\ r.rest \subseteq r.bits
  BY <1>1, HoldsIs, LocalTyped DEF ReloadPurge, At, HeldAt, Fits
<1>4. PICK s : s = [r EXCEPT !.map = map, !.rest = r.rest \cap map,
                             !.full = r.full /\ r.bits \subseteq map]
  OBVIOUS
<1>5. s \in Locals /\ s.bits = r.bits /\ s.rest = r.rest \cap map
  BY <1>4 DEF Locals
<1>6. PICK l \in {"give back", "os purge"} : Goto(t, l)
  BY DEF ReloadPurge
<1>7. l \in Locations /\ Fits(l, s) /\ HeldAt(l, s) = r.bits
  BY <1>3, <1>5 DEF Locations, Fits, HeldAt
<1>8. Set(t, s)
  BY <1>1, <1>2, <1>4 DEF ReloadPurge
<1>9. Keeps(t, Holds(t))
  <2>1. Keeps(t, HeldAt(l, s))
    BY <1>5, <1>6, <1>7, <1>8, GotoSet, LocalTyped
  <2>2. QED
    BY <2>1, <1>3, <1>7
<1>10. purge' \in SUBSET Bits
  BY DEF ReloadPurge, bitmaps, IInv, Types
<1>11. QED
  BY <1>9, <1>10, LookingStep DEF ReloadPurge, bitmaps

\* OsPurge preserves the invariant.
LEMMA OsPurgeKeeps == ASSUME IInv, NEW t \in Threads, OsPurge(t) PROVE IInv'
<1>1. PICK r \in Locals : r = local[t]
  BY LocalTyped
<1>2. PICK M : M = FirstRun(r.rest)
  OBVIOUS
<1>3. /\ pc[t] = "os purge" /\ Holds(t) = r.bits /\ r.rest \subseteq r.bits /\ M \subseteq r.rest
  BY <1>1, <1>2, HoldsIs, LocalTyped, PartsAreParts DEF OsPurge, At, HeldAt, Fits
<1>4. PICK s : s = [r EXCEPT !.rest = r.rest \ M]
  OBVIOUS
<1>5. s \in Locals /\ s.bits = r.bits /\ s.rest = r.rest \ M
  BY <1>4 DEF Locals
<1>6. PICK l \in {"give back", "os purge"} : Goto(t, l)
  BY DEF OsPurge
<1>7. l \in Locations /\ Fits(l, s) /\ HeldAt(l, s) = r.bits
  BY <1>3, <1>5 DEF Locations, Fits, HeldAt
<1>8. Set(t, s)
  BY <1>1, <1>2, <1>4 DEF OsPurge
<1>9. Keeps(t, Holds(t))
  <2>1. Keeps(t, HeldAt(l, s))
    BY <1>5, <1>6, <1>7, <1>8, GotoSet, LocalTyped
  <2>2. QED
    BY <2>1, <1>3, <1>7
<1>10. Divided' /\ Apart'
  BY <1>9, SameBits DEF OsPurge
<1>11. Usable'
  <2>1. M \subseteq Holds(t)
    BY <1>3
  <2>2. /\ accessible' = IF Recommit THEN accessible \ M ELSE accessible
        /\ committed' = IF Recommit THEN committed \ M ELSE committed
        /\ blocks' = blocks
    BY <1>1, <1>2 DEF OsPurge
  <2>3. QED
    BY <2>1, <2>2, UsableAfterPurge
<1>12. Types'
  BY <1>9, TypesStill DEF OsPurge, IInv, Types, Keeps
<1>13. QED
  BY <1>9, <1>10, <1>11, <1>12, FitsStill DEF IInv, Keeps

\* GiveBack preserves the invariant.
LEMMA GiveBackKeeps == ASSUME IInv, NEW t \in Threads, GiveBack(t) PROVE IInv'
<1>1. Holds(t) = local[t].bits
  BY HoldsIs DEF GiveBack, At, HeldAt
<1>2. Keeps(t, {})
  BY OnwardKeeps, LocalTyped DEF GiveBack
<1>3. Keeps(t, Holds(t) \ local[t].bits)
  BY <1>1, <1>2
<1>4. QED
  BY <1>1, <1>3, GiveStep DEF GiveBack

-----------------------------------------------------------------------------
(* The invariant.                                                          *)

LEMMA Unmoved ==
  ASSUME IInv, UNCHANGED <<bitmaps, accessible, blocks, pc, local>>
  PROVE  IInv'
<1>1. \A t \in Threads : Holds(t)' = Holds(t)
  BY HoldsIs
<1>2. Types'
  BY DEF IInv, Types, bitmaps, Bits, Block, Locals
<1>3. \A t \in Threads : Fits(pc[t], local[t])'
  BY DEF IInv, Fits, Run, Field, FieldOf, Bits
<1>4. Divided' /\ Apart'
  BY <1>1 DEF IInv, Divided, Apart, Leftover, bitmaps
<1>5. Usable'
  BY DEF IInv, Usable, bitmaps
<1>6. QED
  BY <1>2, <1>3, <1>4, <1>5 DEF IInv

LEMMA InitIInv == Init => IInv
<1> SUFFICES ASSUME Init PROVE IInv
  OBVIOUS
<1>1. Types
  BY NoLocalFits DEF Init, Types, Locations
<1>2. \A t \in Threads : pc[t] = "idle" /\ Holds(t) = {}
  BY HoldsIs DEF Init, HeldAt
<1>3. \A t \in Threads : Fits(pc[t], local[t])
  BY <1>2 DEF Fits
<1>4. Divided
  <2>1. \A x : x \in inuse <=> Whose(x)
    BY <1>2 DEF Init, Whose
  <2>2. QED
    BY <2>1, DividedIs
<1>5. Apart /\ Usable
  BY <1>2 DEF Init, Apart, Usable
<1>6. QED
  BY <1>1, <1>3, <1>4, <1>5 DEF IInv

LEMMA NextIInv == ASSUME IInv, [Next]_vars PROVE IInv'
<1>1. CASE Tick
  BY <1>1, Unmoved DEF Tick
<1>2. CASE UNCHANGED vars
  BY <1>2, Unmoved DEF vars
<1>3. ASSUME NEW t \in Threads, NEW n \in Requests, Alloc(t, n)
      PROVE  IInv'
  BY <1>3, AllocKeeps
<1>4. ASSUME NEW t \in Threads, NEW commit \in BOOLEAN, NEW ok \in BOOLEAN, Commit(t, commit, ok)
      PROVE  IInv'
  BY <1>4, CommitKeeps
<1>5. ASSUME NEW t \in Threads, NEW b \in blocks, NEW left \in {{}, b.bits}, Free(t, b, left)
      PROVE  IInv'
  BY <1>5, FreeKeeps
<1>6. ASSUME NEW t \in Threads, NEW force \in BOOLEAN, Collect(t, force) PROVE IInv'
  BY <1>6, CollectKeeps
<1>7. ASSUME NEW t \in Threads,
             \/ LoadField(t) \/ ClaimField(t) \/ LoadInitial(t) \/ Scan(t) \/ Cross(t)
             \/ Rollback(t) \/ Retry(t) \/ CancelPurge(t)
      PROVE  IInv'
  BY <1>7, LoadFieldKeeps, ClaimFieldKeeps, LoadInitialKeeps, ScanKeeps, CrossKeeps,
     RollbackKeeps, RetryKeeps, CancelPurgeKeeps
<1>8. ASSUME NEW t \in Threads,
             \/ PurgeNever(t) \/ PurgeNow(t) \/ ReadExpire(t) \/ SetExpire(t)
             \/ SchedulePurge(t) \/ Unclaim(t)
      PROVE  IInv'
  BY <1>8, PurgeNeverKeeps, PurgeNowKeeps, ReadExpireKeeps, SetExpireKeeps,
     SchedulePurgeKeeps, UnclaimKeeps
<1>9. ASSUME NEW t \in Threads,
             \/ Guard(t) \/ ReadDue(t) \/ ResetExpire(t) \/ LoadPurge(t) \/ TryClaim(t)
             \/ ReloadPurge(t) \/ OsPurge(t) \/ GiveBack(t) \/ PurgeAgain(t) \/ Leave(t)
      PROVE  IInv'
  BY <1>9, GuardKeeps, ReadDueKeeps, ResetExpireKeeps, LoadPurgeKeeps, TryClaimKeeps,
     ReloadPurgeKeeps, OsPurgeKeeps, GiveBackKeeps, PurgeAgainKeeps, LeaveKeeps
<1>10. QED
  BY <1>1, <1>2, <1>3, <1>4, <1>5, <1>6, <1>7, <1>8, <1>9 DEF Next

-----------------------------------------------------------------------------
(* Random numbers.                                                         *)

RndCounters == (0 .. Width - 1) \X (0 .. Width - 1)
RndKeys == Nat \ {0}
RndNonces == Nat \X Nat
RndBlocks == RndKeys \X RndNonces \X RndCounters

\* The nonces of a stream at a, with the one that is over the bound.
RndReaches(a, nonce) ==
  /\ nonce \in RndNonces /\ nonce[2] = a \div Width
  /\ a % Width <= nonce[1] /\ nonce[1] <= (a % Width) + MaxCarries + 1

\* The order in which a stream makes its blocks.
RndEarlier(nonce, counter, later, after) ==
  \/ nonce[1] < later[1]
  \/ nonce[1] = later[1] /\ counter[2] < after[2]
  \/ nonce[1] = later[1] /\ counter[2] = after[2] /\ counter[1] < after[1]

\* A stream at a: its block is one of its own that came before.
RndStream(a, c) ==
  /\ c \in [key : RndKeys, nonce : RndNonces, counter : RndCounters,
            block : RndBlocks \cup {<<>>}, output_available : 0 .. BlockWords]
  /\ RndReaches(a, c.nonce)
  /\ c.block = <<>> => c.output_available = 0
  /\ c.block # <<>> =>
       /\ c.block[1] = c.key /\ c.block[2] \in R!Nonces(a)
       /\ RndEarlier(c.block[2], c.block[3], c.nonce, c.counter)

RndContexts == \A a \in Streams : ctx[a] = R!NoCtx \/ RndStream(a, ctx[a])

\* A word that the stream c has left behind.
RndBehind(w, c) ==
  /\ RndEarlier(w[1][2], w[1][3], c.nonce, c.counter)
  /\ w[1] = c.block => w[2] < BlockWords - c.output_available

RndWords == RndBlocks \X (0 .. BlockWords - 1)

RandomInv ==
  /\ ctx = [a \in Streams |-> ctx[a]] /\ keys \in Nat /\ ~again
  /\ RndContexts
  /\ \A a \in Streams : ctx[a] # R!NoCtx => <<ctx[a].key, a>> \in made
  /\ \A w \in drawn : w \in RndWords
  /\ \A w \in drawn : \A a \in Streams : w[1][2] \in R!Nonces(a) => <<w[1][1], a>> \in made
  /\ \A w \in drawn : \A a \in Streams :
       ctx[a] # R!NoCtx /\ <<ctx[a].key, a>> \notin reused
         /\ w[1][1] = ctx[a].key /\ w[1][2] \in R!Nonces(a) => RndBehind(w, ctx[a])

LEMMA RndInitRandom == R!Init => RandomInv
  BY DEF R!Init, RandomInv, RndContexts

LEMMA RndNoCtxKey == ASSUME NEW a, NEW c, RndStream(a, c) PROVE c # R!NoCtx
  BY DEF RndStream, R!NoCtx, RndKeys

\* The nonces of a stream come one after the other, and are of no other stream:
\* one that is further on in memory than their number begins behind them.
LEMMA RndNonceIs ==
  ASSUME R!RandomAssumption, NEW a \in Streams, NEW nonce
  PROVE  nonce \in R!Nonces(a) <=>
           RndReaches(a, nonce) /\ nonce[1] <= (a % Width) + MaxCarries
<1>1. /\ a \in Nat /\ Width \in Nat \ {0} /\ MaxCarries \in Nat
      /\ a % Width \in Nat /\ a \div Width \in Nat
  BY DEF R!RandomAssumption
<1> DEFINE l == a % Width
           h == a \div Width
<1>2. l \in Nat /\ h \in Nat
  BY <1>1
<1>3. R!Nonces(a) = {<<l + n, h>> : n \in 0 .. MaxCarries}
  BY DEF R!Nonces
<1>4. RndReaches(a, nonce) <=>
        nonce \in Nat \X Nat /\ nonce[2] = h /\ l <= nonce[1] /\ nonce[1] <= l + MaxCarries + 1
  BY DEF RndReaches, RndNonces
<1> HIDE DEF l, h
<1>5. ASSUME nonce \in R!Nonces(a)
      PROVE  RndReaches(a, nonce) /\ nonce[1] <= l + MaxCarries
  <2>1. PICK n \in 0 .. MaxCarries : nonce = <<l + n, h>>
    BY <1>3, <1>5
  <2>2. l + n \in Nat /\ l <= l + n /\ l + n <= l + MaxCarries /\ l + n <= l + MaxCarries + 1
    BY <1>1, <1>2
  <2>3. QED
    BY <1>2, <1>4, <2>1, <2>2
<1>6. ASSUME RndReaches(a, nonce), nonce[1] <= l + MaxCarries PROVE nonce \in R!Nonces(a)
  <2>1. nonce = <<nonce[1], h>> /\ nonce[1] \in Nat /\ l <= nonce[1]
    BY <1>4, <1>6
  <2>2. nonce[1] - l \in 0 .. MaxCarries /\ l + (nonce[1] - l) = nonce[1]
    BY <1>1, <1>2, <1>6, <2>1
  <2>3. QED
    BY <1>3, <2>1, <2>2
<1>7. QED
  BY <1>5, <1>6 DEF l

LEMMA RndApart ==
  ASSUME R!RandomAssumption, NEW a \in Streams, NEW b \in Streams,
         NEW nonce \in R!Nonces(a) \cap R!Nonces(b)
  PROVE  a = b
<1> DEFINE q == nonce[2]
           n == nonce[1]
<1>1. /\ a \in Nat /\ b \in Nat /\ Width \in Nat \ {0} /\ MaxCarries \in Nat
      /\ a < b => a + MaxCarries < b
      /\ b < a => b + MaxCarries < a
  BY DEF R!RandomAssumption
<1>2. /\ a \div Width = q /\ b \div Width = q /\ n \in Nat /\ q \in Nat
      /\ a % Width <= n /\ n <= (a % Width) + MaxCarries
      /\ b % Width <= n /\ n <= (b % Width) + MaxCarries
  BY RndNonceIs DEF RndReaches, RndNonces
<1>3. \A m \in Nat : m = Width * (m \div Width) + (m % Width) /\ m % Width \in Nat
  BY <1>1
<1> HIDE DEF n, q
<1>4. a = Width * q + (a % Width) /\ b = Width * q + (b % Width)
  BY <1>1, <1>2, <1>3
<1>5. PICK wq \in Nat, l \in Nat, k \in Nat : a = wq + l /\ b = wq + k /\ l = a % Width /\ k = b % Width
  <2>1. Width * q \in Nat /\ a % Width \in Nat /\ b % Width \in Nat
    BY <1>1, <1>2, <1>3
  <2>2. QED
    BY <1>4, <2>1
<1>6. QED
  BY <1>1, <1>2, <1>5

\* The context after a block has been written into it.
RndContextSet ==
  [key : RndKeys, nonce : RndNonces, counter : RndCounters,
   block : RndBlocks \cup {<<>>}, output_available : 0 .. BlockWords]
RndWrite(c, words, left, counter, nonce) ==
  [c EXCEPT !.block = words, !.output_available = left, !.counter = counter, !.nonce = nonce]
RndContext(k, nonce, counter, words, left) ==
  [key |-> k, nonce |-> nonce, counter |-> counter, block |-> words, output_available |-> left]

LEMMA RndWritten ==
  ASSUME NEW c \in RndContextSet, NEW words, NEW left, NEW counter, NEW nonce
  PROVE  RndWrite(c, words, left, counter, nonce) = RndContext(c.key, nonce, counter, words, left)
<1>1. PICK k, n, m, b, l : c = [key |-> k, nonce |-> n, counter |-> m, block |-> b, output_available |-> l]
  <2>1. c = [key |-> c.key, nonce |-> c.nonce, counter |-> c.counter, block |-> c.block,
             output_available |-> c.output_available]
    BY DEF RndContextSet
  <2>2. QED
    BY <2>1
<1>2. PICK d : d = [c EXCEPT !.block = words]
  OBVIOUS
<1>3. d = [key |-> k, nonce |-> n, counter |-> m, block |-> words, output_available |-> l]
  BY <1>1, <1>2
<1>4. PICK e : e = [d EXCEPT !.output_available = left]
  OBVIOUS
<1>5. e = [key |-> k, nonce |-> n, counter |-> m, block |-> words, output_available |-> left]
  BY <1>3, <1>4
<1>6. PICK f : f = [e EXCEPT !.counter = counter]
  OBVIOUS
<1>7. f = [key |-> k, nonce |-> n, counter |-> counter, block |-> words, output_available |-> left]
  BY <1>5, <1>6
<1>8. [f EXCEPT !.nonce = nonce] =
        [key |-> k, nonce |-> nonce, counter |-> counter, block |-> words, output_available |-> left]
  BY <1>7
<1>9. [c EXCEPT !.block = words, !.output_available = left, !.counter = counter, !.nonce = nonce] =
        [f EXCEPT !.nonce = nonce]
  BY <1>2, <1>4, <1>6
<1>10. QED
  BY <1>1, <1>8, <1>9, Zenon DEF RndWrite, RndContext

\* The next block of a stream, which is not of the ones before.
LEMMA RndBlockStream ==
  ASSUME R!RandomAssumption, NEW a \in Streams, NEW c, RndStream(a, c), c.nonce \in R!Nonces(a)
  PROVE  /\ RndStream(a, R!Block(c))
         /\ R!Block(c).block = <<c.key, c.nonce, c.counter>> /\ R!Block(c).block \in RndBlocks
         /\ R!Block(c).key = c.key /\ R!Block(c).output_available = BlockWords
         /\ RndEarlier(c.nonce, c.counter, R!Block(c).nonce, R!Block(c).counter)
<1> DEFINE one == (c.counter[1] + 1) % Width
           two == IF one = 0 THEN (c.counter[2] + 1) % Width ELSE c.counter[2]
           low == IF one = 0 /\ two = 0 THEN (c.nonce[1] + 1) % Width ELSE c.nonce[1]
           nonce == <<low, a \div Width>>
<1>1. /\ c.key \in RndKeys /\ c.counter \in RndCounters
      /\ c.counter[1] \in 0 .. Width - 1 /\ c.counter[2] \in 0 .. Width - 1
      /\ c.nonce = <<c.nonce[1], a \div Width>> /\ c.nonce[1] \in Nat /\ c.nonce \in RndNonces
      /\ a % Width <= c.nonce[1] /\ c.nonce[1] <= (a % Width) + MaxCarries
  BY RndNonceIs DEF RndStream, RndCounters, RndReaches, RndNonces
<1>2. c \in [key : RndKeys, nonce : RndNonces, counter : RndCounters,
            block : RndBlocks \cup {<<>>}, output_available : 0 .. BlockWords]
  BY DEF RndStream
<1>3. R!Block(c) = [key |-> c.key, nonce |-> nonce, counter |-> <<one, two>>,
                  block |-> <<c.key, c.nonce, c.counter>>, output_available |-> BlockWords]
  <2> DEFINE words == <<c.key, c.nonce, c.counter>>
             counter == <<one, two>>
             other == [c.nonce EXCEPT ![1] = low]
  <2>1. R!Block(c) = [c EXCEPT !.block = words, !.output_available = BlockWords, !.counter = counter,
                               !.nonce = other]
    <3>1. R!Block(c) = [c EXCEPT !.block = words, !.output_available = BlockWords, !.counter = counter,
                                 !.nonce[1] = IF one = 0 /\ two = 0 THEN (@ + 1) % Width ELSE @]
      BY DEF R!Block
    <3> HIDE DEF words, counter, one, two
    <3>2. QED
      BY <1>2, <3>1
  <2>2. other = nonce
    <3> HIDE DEF low
    <3>1. QED
      BY <1>1
  <2> HIDE DEF words, counter, other, nonce
  <2>3. [c EXCEPT !.block = words, !.output_available = BlockWords, !.counter = counter,
                  !.nonce = other] =
        [key |-> c.key, nonce |-> other, counter |-> counter, block |-> words,
         output_available |-> BlockWords]
    <3>1. c \in RndContextSet
      BY <1>2 DEF RndContextSet
    <3>2. RndWrite(c, words, BlockWords, counter, other) =
            RndContext(c.key, other, counter, words, BlockWords)
      BY <3>1, RndWritten
    <3>3. QED
      BY <3>2, Zenon DEF RndWrite, RndContext
  <2>4. QED
    BY <2>1, <2>2, <2>3 DEF words, counter
<1>4. \A n \in 0 .. Width - 1 :
        /\ n + 1 < Width => (n + 1) % Width = n + 1
        /\ n + 1 = Width => (n + 1) % Width = 0
        /\ (n + 1) % Width \in 0 .. Width - 1
  BY DEF R!RandomAssumption
<1>5. /\ one \in 0 .. Width - 1 /\ two \in 0 .. Width - 1
      /\ one # 0 => one = c.counter[1] + 1 /\ two = c.counter[2] /\ low = c.nonce[1]
      /\ one = 0 /\ two # 0 => two = c.counter[2] + 1 /\ low = c.nonce[1]
      /\ one = 0 /\ two = 0 => low = (c.nonce[1] + 1) % Width
  BY <1>1, <1>4, 0 \in 0 .. Width - 1 DEF R!RandomAssumption
<1>6. (c.nonce[1] + 1) % Width = c.nonce[1] + 1
  <2>1. /\ (a % Width) + MaxCarries + 1 < Width /\ a % Width \in Nat
        /\ Width \in Nat \ {0} /\ MaxCarries \in Nat
    BY DEF R!RandomAssumption
  <2>2. c.nonce[1] \in 0 .. Width - 1 /\ c.nonce[1] + 1 < Width
    BY <1>1, <2>1
  <2>3. QED
    BY <1>4, <2>2
<1>7. low \in Nat /\ a % Width <= low /\ low <= (a % Width) + MaxCarries + 1
  <2>1. a % Width \in Nat /\ MaxCarries \in Nat
    BY DEF R!RandomAssumption
  <2>2. low = c.nonce[1] \/ low = c.nonce[1] + 1
    BY <1>5, <1>6
  <2>3. QED
    BY <1>1, <2>1, <2>2
<1>8. <<one, two>> \in RndCounters /\ <<c.key, c.nonce, c.counter>> \in RndBlocks
  BY <1>1, <1>5 DEF RndCounters, RndBlocks
<1>9. nonce \in RndNonces /\ RndReaches(a, nonce)
  <2>1. a \div Width \in Nat
    BY DEF R!RandomAssumption
  <2>2. QED
    BY <1>7, <2>1 DEF RndReaches, RndNonces
<1> HIDE DEF one, two, low
<1>10. RndEarlier(c.nonce, c.counter, nonce, <<one, two>>)
  BY <1>1, <1>5, <1>6 DEF RndEarlier
<1> HIDE DEF nonce
<1>11. RndStream(a, [key |-> c.key, nonce |-> nonce, counter |-> <<one, two>>,
                     block |-> <<c.key, c.nonce, c.counter>>, output_available |-> BlockWords])
  BY <1>1, <1>8, <1>9, <1>10 DEF RndStream, R!RandomAssumption
<1>12. QED
  BY <1>3, <1>8, <1>10, <1>11

LEMMA RndFreshStream ==
  ASSUME R!RandomAssumption, NEW a \in Streams, NEW k \in RndKeys
  PROVE  RndStream(a, R!Fresh(k, a)) /\ R!Fresh(k, a).key = k /\ R!Fresh(k, a).nonce \in R!Nonces(a)
<1>1. a % Width \in Nat /\ a \div Width \in Nat /\ MaxCarries \in Nat
  BY DEF R!RandomAssumption
<1>2. <<a % Width, a \div Width>> \in R!Nonces(a) /\ RndReaches(a, <<a % Width, a \div Width>>)
  BY <1>1, RndNonceIs DEF RndReaches, RndNonces
<1>3. <<0, 0>> \in RndCounters
  BY DEF RndCounters, R!RandomAssumption
<1>4. RndStream(a, R!Fresh(k, a))
  BY <1>2, <1>3 DEF RndStream, R!Fresh, R!RandomAssumption, RndReaches
<1>5. QED
  BY <1>2, <1>4 DEF R!Fresh

LEMMA RndMakeKeeps ==
  ASSUME R!RandomAssumption, RandomInv, NEW a \in Streams, NEW c, RndStream(a, c), R!Make(a, c),
         keys' \in Nat
  PROVE  RandomInv'
<1>1. /\ ctx[a] = R!NoCtx
      /\ ctx' = [ctx EXCEPT ![a] = c] /\ made' = made \cup {<<c.key, a>>}
      /\ reused' = reused \cup ({<<c.key, a>>} \cap made)
      /\ drawn' = drawn /\ again' = again
  BY DEF R!Make
<1>2. ctx'[a] = c /\ \A b \in Streams \ {a} : ctx'[b] = ctx[b]
  BY <1>1 DEF RandomInv
<1>3. ctx' = [b \in Streams |-> ctx'[b]]
  BY <1>1 DEF RandomInv
<1>4. RndContexts'
  BY <1>2 DEF RandomInv, RndContexts
<1>5. \A b \in Streams : ctx'[b] # R!NoCtx => <<ctx'[b].key, b>> \in made'
  BY <1>1, <1>2 DEF RandomInv
<1>6. /\ \A w \in drawn' : w \in RndWords
      /\ \A w \in drawn' : \A b \in Streams : w[1][2] \in R!Nonces(b) => <<w[1][1], b>> \in made'
  BY <1>1 DEF RandomInv
<1>7. \A w \in drawn' : \A b \in Streams :
        ctx'[b] # R!NoCtx /\ <<ctx'[b].key, b>> \notin reused'
          /\ w[1][1] = ctx'[b].key /\ w[1][2] \in R!Nonces(b) => RndBehind(w, ctx'[b])
  <2> SUFFICES ASSUME NEW w \in drawn, NEW b \in Streams, ctx'[b] # R!NoCtx,
                      <<ctx'[b].key, b>> \notin reused',
                      w[1][1] = ctx'[b].key, w[1][2] \in R!Nonces(b)
               PROVE  RndBehind(w, ctx'[b])
    BY <1>1
  <2>1. b # a
    BY <1>1, <1>2 DEF RandomInv
  <2>2. ctx'[b] = ctx[b] /\ <<ctx'[b].key, b>> \notin reused
    BY <1>1, <1>2, <2>1
  <2>3. ctx[b] # R!NoCtx /\ <<ctx[b].key, b>> \notin reused /\ w[1][1] = ctx[b].key
    BY <2>2
  <2>4. RndBehind(w, ctx[b])
    BY <2>3 DEF RandomInv
  <2>5. QED
    BY <2>2, <2>4
<1>8. QED
  BY <1>1, <1>3, <1>4, <1>5, <1>6, <1>7 DEF RandomInv

LEMMA RndNextKeeps ==
  ASSUME R!RandomAssumption, RandomInv, NEW a \in Streams, ctx[a] # R!NoCtx, R!Next32(a)
  PROVE  RandomInv'
<1> DEFINE c == IF ctx[a].output_available <= 0 THEN R!Block(ctx[a]) ELSE ctx[a]
           word == <<c.block, BlockWords - c.output_available>>
           d == [c EXCEPT !.output_available = @ - 1]
<1>1. /\ drawn' = drawn \cup {word}
      /\ again' <=> (again \/ (word \in drawn /\ <<c.key, a>> \notin reused))
      /\ ctx' = [ctx EXCEPT ![a] = d] /\ keys' = keys /\ made' = made /\ reused' = reused
      /\ ctx[a].output_available <= 0 => ctx[a].nonce \in R!Nonces(a)
  BY DEF R!Next32, RandomInv
<1>2. RndStream(a, ctx[a])
  BY DEF RandomInv, RndContexts
<1>3. ctx[a].output_available \in 0 .. BlockWords
  BY <1>2 DEF RndStream
<1>4. RndStream(a, c) /\ c.key = ctx[a].key /\ c.block \in RndBlocks /\ c.output_available \in 1 .. BlockWords
  <2>1. CASE ctx[a].output_available <= 0
    BY <1>1, <1>2, <2>1, RndBlockStream DEF R!RandomAssumption
  <2>2. CASE ~(ctx[a].output_available <= 0)
    BY <1>2, <1>3, <2>2 DEF RndStream
  <2>3. QED
    BY <2>1, <2>2
<1>5. \A w \in drawn : <<c.key, a>> \notin reused /\ w[1][1] = c.key /\ w[1][2] \in R!Nonces(a) =>
        RndBehind(w, c) /\ w # word
  <2> SUFFICES ASSUME NEW w \in drawn, <<c.key, a>> \notin reused, w[1][1] = c.key,
                      w[1][2] \in R!Nonces(a)
               PROVE  RndBehind(w, c) /\ w # word
    OBVIOUS
  <2>1. RndBehind(w, ctx[a]) /\ w \in RndWords
    BY <1>4 DEF RandomInv
  <2>2. /\ w[1][2][1] \in Nat /\ w[1][3][1] \in 0 .. Width - 1 /\ w[1][3][2] \in 0 .. Width - 1
        /\ w[2] \in 0 .. BlockWords - 1
    BY <2>1 DEF RndWords, RndBlocks, RndCounters, RndNonces
  <2>3. CASE ctx[a].output_available <= 0
    <3>1. /\ c.block = <<ctx[a].key, ctx[a].nonce, ctx[a].counter>>
          /\ c.output_available = BlockWords
          /\ RndEarlier(ctx[a].nonce, ctx[a].counter, c.nonce, c.counter)
      BY <1>1, <1>2, <2>3, RndBlockStream
    <3>2. /\ ctx[a].nonce[1] \in Nat /\ ctx[a].counter[1] \in 0 .. Width - 1
          /\ ctx[a].counter[2] \in 0 .. Width - 1
          /\ c.nonce[1] \in Nat /\ c.counter[1] \in 0 .. Width - 1 /\ c.counter[2] \in 0 .. Width - 1
      BY <1>2, <1>4 DEF RndStream, RndCounters, RndNonces
    <3>3. RndEarlier(w[1][2], w[1][3], ctx[a].nonce, ctx[a].counter)
      BY <2>1 DEF RndBehind
    <3> HIDE DEF c
    <3>4. RndEarlier(w[1][2], w[1][3], c.nonce, c.counter)
      BY <2>2, <3>1, <3>2, <3>3 DEF RndEarlier, R!RandomAssumption
    <3>5. w[1] # c.block
      <4> SUFFICES ASSUME w[1] = c.block PROVE FALSE
        OBVIOUS
      <4>1. w[1][2] = ctx[a].nonce /\ w[1][3] = ctx[a].counter
        BY <3>1
      <4>2. QED
        BY <3>2, <3>3, <4>1 DEF RndEarlier, R!RandomAssumption
    <3>6. QED
      BY <3>4, <3>5 DEF RndBehind
  <2>4. CASE ~(ctx[a].output_available <= 0)
    <3>1. c = ctx[a]
      BY <2>4
    <3>2. w # word
      BY <2>1, <2>2, <3>1, <1>3 DEF RndBehind, R!RandomAssumption
    <3>3. QED
      BY <2>1, <3>1, <3>2
  <2>5. QED
    BY <2>3, <2>4
<1> HIDE DEF c
<1>6. /\ d.key = c.key /\ d.nonce = c.nonce /\ d.counter = c.counter /\ d.block = c.block
      /\ d.output_available = c.output_available - 1 /\ RndStream(a, d)
  BY <1>4 DEF RndStream, RndBlocks, R!RandomAssumption
<1> HIDE DEF d
<1>7. /\ c.block # <<>> /\ c.block[1] = c.key /\ c.block[2] \in R!Nonces(a)
      /\ RndEarlier(c.block[2], c.block[3], c.nonce, c.counter)
  <2>1. c.block # <<>>
    BY <1>4 DEF RndStream, R!RandomAssumption
  <2>2. QED
    BY <2>1, <1>4 DEF RndStream
<1>8. word \in RndWords /\ word[1] = c.block /\ word[2] = BlockWords - c.output_available
  BY <1>4 DEF RndWords, R!RandomAssumption
<1>9. <<c.key, a>> \notin reused => word \notin drawn
  BY <1>5, <1>7, <1>8
<1> HIDE DEF word
<1>10. RndBehind(word, d)
  BY <1>4, <1>6, <1>7, <1>8 DEF RndBehind, R!RandomAssumption
<1>11. \A w \in drawn : <<d.key, a>> \notin reused /\ w[1][1] = d.key /\ w[1][2] \in R!Nonces(a) =>
         RndBehind(w, d)
  <2> SUFFICES ASSUME NEW w \in drawn, <<d.key, a>> \notin reused, w[1][1] = d.key,
                      w[1][2] \in R!Nonces(a)
               PROVE  RndBehind(w, d)
    OBVIOUS
  <2>1. RndBehind(w, c) /\ w[2] \in 0 .. BlockWords - 1
    BY <1>5, <1>6 DEF RandomInv, RndWords
  <2>2. QED
    BY <1>4, <1>6, <2>1 DEF RndBehind, R!RandomAssumption
<1>12. d # R!NoCtx
  BY <1>6, RndNoCtxKey
<1>13. ctx'[a] = d /\ \A b \in Streams \ {a} : ctx'[b] = ctx[b]
  BY <1>1 DEF RandomInv
<1>14. ctx' = [b \in Streams |-> ctx'[b]]
  BY <1>1 DEF RandomInv
<1>15. RndContexts'
  BY <1>6, <1>13 DEF RandomInv, RndContexts
<1>16. <<c.key, a>> \in made
  BY <1>4 DEF RandomInv
<1>21. \A b \in Streams : word[1][2] \in R!Nonces(b) => b = a
  BY <1>7, <1>8, RndApart
<1>17. \A b \in Streams : ctx'[b] # R!NoCtx => <<ctx'[b].key, b>> \in made'
  BY <1>1, <1>6, <1>13, <1>16 DEF RandomInv
<1>18. /\ \A w \in drawn' : w \in RndWords
       /\ \A w \in drawn' : \A b \in Streams : w[1][2] \in R!Nonces(b) => <<w[1][1], b>> \in made'
  BY <1>1, <1>7, <1>8, <1>16, <1>21 DEF RandomInv
<1>19. \A w \in drawn' : \A b \in Streams :
         ctx'[b] # R!NoCtx /\ <<ctx'[b].key, b>> \notin reused'
           /\ w[1][1] = ctx'[b].key /\ w[1][2] \in R!Nonces(b) => RndBehind(w, ctx'[b])
  <2> SUFFICES ASSUME NEW w \in drawn', NEW b \in Streams, ctx'[b] # R!NoCtx,
                      <<ctx'[b].key, b>> \notin reused',
                      w[1][1] = ctx'[b].key, w[1][2] \in R!Nonces(b)
               PROVE  RndBehind(w, ctx'[b])
    OBVIOUS
  <2>1. CASE b = a
    BY <1>1, <1>10, <1>11, <1>13, <2>1
  <2>2. CASE b # a
    BY <1>1, <1>13, <1>21, <2>2 DEF RandomInv
  <2>3. QED
    BY <2>1, <2>2
<1>20. ~again'
  BY <1>1, <1>9 DEF RandomInv
<1>22. QED
  BY <1>1, <1>14, <1>15, <1>17, <1>18, <1>19, <1>20 DEF RandomInv

LEMMA RndForgetKeeps ==
  ASSUME RandomInv, NEW a \in Streams, R!Forget(a) PROVE RandomInv'
<1>1. /\ ctx' = [ctx EXCEPT ![a] = R!NoCtx] /\ keys' = keys /\ made' = made /\ drawn' = drawn
      /\ again' = again /\ reused' = reused
  BY DEF R!Forget
<1>2. /\ ctx'[a] = R!NoCtx /\ \A b \in Streams \ {a} : ctx'[b] = ctx[b]
      /\ ctx' = [b \in Streams |-> ctx'[b]]
  BY <1>1 DEF RandomInv
<1>3. RndContexts'
  BY <1>2 DEF RandomInv, RndContexts
<1>4. QED
  BY <1>1, <1>2, <1>3 DEF RandomInv

LEMMA RandomKeeps == ASSUME R!RandomAssumption, RandomInv, R!Next PROVE RandomInv'
<1>1. ASSUME NEW a \in Streams, R!RandomInit(a) PROVE RandomInv'
  <2>1. PICK k \in 1 .. keys + 1 :
          R!Make(a, R!Fresh(k, a)) /\ keys' = IF k > keys THEN k ELSE keys
    BY <1>1 DEF R!RandomInit
  <2>2. k \in RndKeys /\ keys' \in Nat
    BY <2>1 DEF RandomInv, RndKeys
  <2>3. QED
    BY <2>1, <2>2, RndFreshStream, RndMakeKeeps
<1>2. ASSUME NEW a \in Streams, ctx[a] # R!NoCtx, R!Next32(a) PROVE RandomInv'
  BY <1>2, RndNextKeeps
<1>3. ASSUME NEW a \in Streams, NEW b \in Streams, R!Split(a, b) PROVE RandomInv'
  <2>1. ctx[a].key \in RndKeys /\ keys' \in Nat
    BY <1>3 DEF R!Split, RandomInv, RndContexts, RndStream
  <2>2. RndStream(b, R!Block(R!Fresh(ctx[a].key, b)))
    BY <2>1, RndFreshStream, RndBlockStream
  <2>3. QED
    BY <1>3, <2>1, <2>2, RndMakeKeeps DEF R!Split
<1>4. ASSUME NEW a \in Streams, R!Forget(a) PROVE RandomInv'
  BY <1>4, RndForgetKeeps
<1>5. QED
  BY <1>1, <1>2, <1>3, <1>4 DEF R!Next

LEMMA RandomTells == RandomInv => R!NoWordAgain
  BY DEF RandomInv, R!NoWordAgain

LEMMA RandomSame == ASSUME RandomInv, UNCHANGED R!vars PROVE RandomInv'
  BY DEF R!vars, RandomInv, RndContexts, RndStream, RndBehind, RndEarlier, R!NoCtx

-----------------------------------------------------------------------------
(* Options.                                                                *)

OptWarned == {"verbose", "show_errors"}
OptActs == {"find", "missing", "value", "mark", "bogus"}
OptSets == {"seal", "store"}
OptAts == OptActs \cup OptSets \cup {"get", "maybe", "off"}
OptFrames == [option : Options, at : OptAts]

\* A call that waits for one that it has made.
OptWaiting(f) ==
  \/ f.at = "maybe"
  \/ f.at = "off"
  \/ f.at = "value" /\ f.option \notin OptWarned

\* The calls of a thread: the program's own is the last, the others come from
\* warnings; a call that sets an option is alone; it turns verbose off at most
\* once, and up says that verbose is initialized.
OptNested(s, up) ==
  /\ \A i \in DOMAIN s : i > 1 => OptWaiting(s[i])
  /\ \A i \in DOMAIN s : i < Len(s) => s[i].option \in OptWarned
  /\ \A i, j \in DOMAIN s : s[i].at = "off" /\ s[j].at = "off" => i = j
  /\ \A i \in DOMAIN s : s[i].at = "off" => s[i].option = "verbose" /\ up
  /\ \A i, j \in DOMAIN s :
       s[i].at = "off" => ~(s[j].at \in OptActs /\ s[j].option = "verbose")
  /\ \A i \in DOMAIN s : s[i].at = "maybe" => s[i].option = "show_errors"
  /\ \A i \in DOMAIN s : s[i].at \in OptSets => i = 1 /\ Len(s) = 1

OptUp == init["verbose"] # "UNINIT"
OptStacks == \A t \in Threads : stack[t] \in Seq(OptFrames) /\ OptNested(stack[t], OptUp)

OptCalls(o, loc) == \E t \in Threads : \E i \in DOMAIN stack[t] : stack[t][i] = Op!Frame(o, loc)

\* What a call knows of the environment, and of what was asked.
OptFits(o) ==
  /\ OptCalls(o, "value") \/ OptCalls(o, "mark") => environment[o] \in {"valid", "legacy"}
  /\ OptCalls(o, "bogus") => environment[o] = "bogus"
  /\ OptCalls(o, "off") => environment[o] = "bogus" /\ o = "verbose"
  /\ OptCalls(o, "seal") => asked[o].set # Op!Default

OptBusy(o) == \E loc \in OptActs \cup {"off"} : OptCalls(o, loc)

\* How far an option is.
OptGiven(o) ==
  /\ init[o] = "INITIALIZED" \/ OptCalls(o, "seal")
  /\ value[o] = Op!SetValue /\ ~OptBusy(o)
OptFound(o) ==
  /\ init[o] \in {"UNINIT", "INITIALIZED"}
  /\ init[o] = "INITIALIZED" => value[o] = Op!InEnvironment
  /\ init[o] = "UNINIT" => value[o] = asked[o].default \/ (value[o] = Op!InEnvironment /\ OptCalls(o, "mark"))
  /\ OptCalls(o, "mark") => value[o] = Op!InEnvironment
OptMissing(o) ==
  /\ init[o] \in {"UNINIT", "DEFAULTED"}
  /\ value[o] = asked[o].default \/ (value[o] = 1 /\ OptCalls(o, "off"))
  /\ OptCalls(o, "off") => asked[o].default = Op!Default

OptGoes(o) ==
  /\ OptCalls(o, "store") => init[o] # "INITIALIZED"
  /\ IF asked[o].set # Op!Default THEN OptGiven(o)
     ELSE IF environment[o] \in {"valid", "legacy"} THEN OptFound(o) ELSE OptMissing(o)

OptionsTyped ==
  /\ environment \in Environments
  /\ stack = [t \in Threads |-> stack[t]]
  /\ value \in [Options -> Nat]
  /\ init \in [Options -> {"UNINIT", "DEFAULTED", "INITIALIZED"}]
  /\ asked \in [Options -> [set : {Op!Default, Op!SetValue}, default : {Op!Default, Op!NewDefault}]]

OptionsInv ==
  /\ OptionsTyped
  /\ OptStacks
  /\ \A o \in Options : OptFits(o)
  /\ \A o \in Options \ raced : ~Op!Contended(o)
  /\ \A o \in Options \ (raced \cup missed) : OptGoes(o)

OptRaces == raced' = raced \cup {o \in Options : Op!Contended(o)'}

-----------------------------------------------------------------------------
LEMMA OptAbove ==
  ASSUME NEW S, NEW s \in Seq(S), s # <<>>, NEW new \in Seq(S), NEW s2, s2 = new \o Tail(s)
  PROVE  /\ s2 \in Seq(S) /\ Len(s2) = Len(new) + Len(s) - 1 /\ Len(s) \in Nat \ {0} /\ Len(new) \in Nat
         /\ DOMAIN s2 = 1 .. Len(s2) /\ DOMAIN s = 1 .. Len(s) /\ DOMAIN new = 1 .. Len(new)
         /\ \A i \in 1 .. Len(new) : s2[i] = new[i]
         /\ \A i \in 2 .. Len(s) : s2[i + Len(new) - 1] = s[i]
         /\ \A i \in Len(new) + 1 .. Len(s2) :
              s2[i] = s[i - Len(new) + 1] /\ i - Len(new) + 1 \in 2 .. Len(s)
<1>1. Len(s) \in Nat \ {0} /\ Len(new) \in Nat
  BY EmptySeq, LenProperties
<1>2. Tail(s) \in Seq(S) /\ Len(Tail(s)) = Len(s) - 1 /\ \A i \in 1 .. Len(s) - 1 : Tail(s)[i] = s[i + 1]
  BY HeadTailProperties
<1>3. /\ s2 \in Seq(S) /\ Len(s2) = Len(new) + Len(Tail(s))
      /\ \A i \in 1 .. Len(new) + Len(Tail(s)) :
           s2[i] = IF i <= Len(new) THEN new[i] ELSE Tail(s)[i - Len(new)]
  BY <1>2, ConcatProperties
<1>4. DOMAIN s2 = 1 .. Len(s2) /\ DOMAIN s = 1 .. Len(s) /\ DOMAIN new = 1 .. Len(new)
  BY <1>3, LenProperties
<1>5. \A i \in 1 .. Len(new) : s2[i] = new[i]
  BY <1>1, <1>2, <1>3
<1>6. \A i \in Len(new) + 1 .. Len(s2) :
        s2[i] = s[i - Len(new) + 1] /\ i - Len(new) + 1 \in 2 .. Len(s)
  <2> SUFFICES ASSUME NEW i \in Len(new) + 1 .. Len(s2)
               PROVE  s2[i] = s[i - Len(new) + 1] /\ i - Len(new) + 1 \in 2 .. Len(s)
    OBVIOUS
  <2>1. s2[i] = Tail(s)[i - Len(new)] /\ i - Len(new) \in 1 .. Len(s) - 1
    BY <1>1, <1>2, <1>3
  <2>2. QED
    BY <1>1, <1>2, <2>1
<1>7. \A i \in 2 .. Len(s) : s2[i + Len(new) - 1] = s[i]
  <2> SUFFICES ASSUME NEW i \in 2 .. Len(s) PROVE s2[i + Len(new) - 1] = s[i]
    OBVIOUS
  <2>1. i + Len(new) - 1 \in Len(new) + 1 .. Len(s2)
    BY <1>1, <1>2, <1>3
  <2>2. (i + Len(new) - 1) - Len(new) + 1 = i
    BY <1>1
  <2>3. QED
    BY <1>6, <2>1, <2>2
<1>8. QED
  BY <1>1, <1>2, <1>3, <1>4, <1>5, <1>6, <1>7

\* Calls that may come above those of s.
OptMayNest(new, s, up, up2) ==
  /\ \A i \in DOMAIN new : i > 1 => OptWaiting(new[i])
  /\ \A i \in DOMAIN new : i < Len(new) \/ Len(s) > 1 => new[i].option \in OptWarned
  /\ \A i, j \in DOMAIN new : new[i].at = "off" /\ new[j].at = "off" => i = j
  /\ \A i \in DOMAIN new : \A k \in 2 .. Len(s) : new[i].at = "off" => s[k].at # "off"
  /\ \A i \in DOMAIN new : new[i].at = "off" => new[i].option = "verbose" /\ up2
  /\ up => up2
  /\ \A i, j \in DOMAIN new :
       new[i].at = "off" => ~(new[j].at \in OptActs /\ new[j].option = "verbose")
  /\ \A k \in 2 .. Len(s), j \in DOMAIN new :
       s[k].at = "off" => ~(new[j].at \in OptActs /\ new[j].option = "verbose")
  /\ \A i \in DOMAIN new : new[i].at = "maybe" => new[i].option = "show_errors"
  /\ \A i \in DOMAIN new : new[i].at \notin OptSets

LEMMA OptNestedAbove ==
  ASSUME NEW s \in Seq(OptFrames), s # <<>>, NEW new \in Seq(OptFrames), NEW s2, s2 = new \o Tail(s),
         NEW up, NEW up2, OptNested(s, up), OptMayNest(new, s, up, up2)
  PROVE  OptNested(s2, up2)
<1> DEFINE n == Len(new)
<1>1. /\ s2 \in Seq(OptFrames) /\ Len(s2) = n + Len(s) - 1 /\ Len(s) \in Nat \ {0} /\ n \in Nat
      /\ DOMAIN s2 = 1 .. Len(s2) /\ DOMAIN s = 1 .. Len(s) /\ DOMAIN new = 1 .. n
      /\ \A i \in 1 .. n : s2[i] = new[i]
      /\ \A i \in n + 1 .. Len(s2) : s2[i] = s[i - n + 1] /\ i - n + 1 \in 2 .. Len(s)
  BY OptAbove
<1> HIDE DEF n
<1>2. /\ \A i \in 1 .. n : i > 1 => OptWaiting(new[i])
      /\ \A i \in 1 .. n : i < n \/ Len(s) > 1 => new[i].option \in OptWarned
      /\ \A i, j \in 1 .. n : new[i].at = "off" /\ new[j].at = "off" => i = j
      /\ \A i \in 1 .. n : \A k \in 2 .. Len(s) : new[i].at = "off" => s[k].at # "off"
      /\ \A i \in 1 .. n : new[i].at = "off" => new[i].option = "verbose" /\ up2
      /\ up => up2
      /\ \A i, j \in 1 .. n :
           new[i].at = "off" => ~(new[j].at \in OptActs /\ new[j].option = "verbose")
      /\ \A k \in 2 .. Len(s), j \in 1 .. n :
           s[k].at = "off" => ~(new[j].at \in OptActs /\ new[j].option = "verbose")
      /\ \A i \in 1 .. n : new[i].at = "maybe" => new[i].option = "show_errors"
      /\ \A i \in 1 .. n : new[i].at \notin OptSets
  BY <1>1 DEF OptMayNest, n
<1>3. /\ \A i \in 2 .. Len(s) : OptWaiting(s[i])
      /\ \A i \in 2 .. Len(s) : i < Len(s) => s[i].option \in OptWarned
      /\ \A i, j \in 2 .. Len(s) : s[i].at = "off" /\ s[j].at = "off" => i = j
      /\ \A i \in 2 .. Len(s) : s[i].at = "off" => s[i].option = "verbose" /\ up
      /\ \A i \in 2 .. Len(s) : s[i].at = "maybe" => s[i].option = "show_errors"
  <2>1. /\ \A i \in 1 .. Len(s) : i > 1 => OptWaiting(s[i])
        /\ \A i \in 1 .. Len(s) : i < Len(s) => s[i].option \in OptWarned
        /\ \A i, j \in 1 .. Len(s) : s[i].at = "off" /\ s[j].at = "off" => i = j
        /\ \A i \in 1 .. Len(s) : s[i].at = "off" => s[i].option = "verbose" /\ up
        /\ \A i \in 1 .. Len(s) : s[i].at = "maybe" => s[i].option = "show_errors"
    BY <1>1 DEF OptNested
  <2>2. \A i \in 2 .. Len(s) : i \in 1 .. Len(s) /\ i > 1
    BY <1>1
  <2>3. QED
    BY <2>1, <2>2
<1>4. \A i \in 2 .. Len(s) : ~(s[i].at \in OptActs /\ s[i].option = "verbose")
  BY <1>3 DEF OptWaiting, OptActs, OptWarned
<1>5. \A i \in 1 .. Len(s2) : i \in 1 .. n \/ i \in n + 1 .. Len(s2)
  BY <1>1
<1>6. \A i \in 1 .. Len(s2) : i > 1 => OptWaiting(s2[i])
  <2> SUFFICES ASSUME NEW i \in 1 .. Len(s2), i > 1 PROVE OptWaiting(s2[i])
    OBVIOUS
  <2>1. CASE i \in 1 .. n
    BY <1>1, <1>2, <2>1
  <2>2. CASE i \in n + 1 .. Len(s2)
    BY <1>1, <1>3, <2>2
  <2>3. QED
    BY <1>5, <2>1, <2>2
<1>7. \A i \in 1 .. Len(s2) : i < Len(s2) => s2[i].option \in OptWarned
  BY <1>1, <1>2, <1>3, <1>5
<1>8. \A i, j \in 1 .. Len(s2) : s2[i].at = "off" /\ s2[j].at = "off" => i = j
  <2> SUFFICES ASSUME NEW i \in 1 .. Len(s2), NEW j \in 1 .. Len(s2),
                      s2[i].at = "off", s2[j].at = "off"
               PROVE  i = j
    OBVIOUS
  <2>1. CASE i \in 1 .. n /\ j \in 1 .. n
    BY <1>1, <1>2, <2>1
  <2>2. CASE i \in n + 1 .. Len(s2) /\ j \in n + 1 .. Len(s2)
    <3>1. i - n + 1 = j - n + 1
      BY <1>1, <1>3, <2>2
    <3>2. QED
      BY <1>1, <2>2, <3>1
  <2>3. CASE i \in 1 .. n /\ j \in n + 1 .. Len(s2)
    BY <1>1, <1>2, <2>3
  <2>4. CASE j \in 1 .. n /\ i \in n + 1 .. Len(s2)
    BY <1>1, <1>2, <2>4
  <2>5. QED
    BY <1>5, <2>1, <2>2, <2>3, <2>4
<1>9. \A i \in 1 .. Len(s2) : s2[i].at = "off" => s2[i].option = "verbose" /\ up2
  <2> SUFFICES ASSUME NEW i \in 1 .. Len(s2), s2[i].at = "off" PROVE s2[i].option = "verbose" /\ up2
    OBVIOUS
  <2>1. CASE i \in 1 .. n
    BY <1>1, <1>2, <2>1
  <2>2. CASE i \in n + 1 .. Len(s2)
    BY <1>1, <1>2, <1>3, <2>2
  <2>3. QED
    BY <1>5, <2>1, <2>2
<1>10. \A i, j \in 1 .. Len(s2) :
         s2[i].at = "off" => ~(s2[j].at \in OptActs /\ s2[j].option = "verbose")
  <2> SUFFICES ASSUME NEW i \in 1 .. Len(s2), NEW j \in 1 .. Len(s2), s2[i].at = "off"
               PROVE  ~(s2[j].at \in OptActs /\ s2[j].option = "verbose")
    OBVIOUS
  <2>1. CASE j \in n + 1 .. Len(s2)
    <3>1. s2[j] = s[j - n + 1] /\ j - n + 1 \in 2 .. Len(s)
      BY <1>1, <2>1
    <3>2. QED
      BY <1>4, <3>1
  <2>2. CASE j \in 1 .. n /\ i \in 1 .. n
    <3>1. s2[i] = new[i] /\ s2[j] = new[j]
      BY <1>1, <2>2
    <3>2. QED
      BY <1>2, <2>2, <3>1
  <2>3. CASE j \in 1 .. n /\ i \in n + 1 .. Len(s2)
    <3>1. s2[i] = s[i - n + 1] /\ i - n + 1 \in 2 .. Len(s) /\ s2[j] = new[j]
      BY <1>1, <2>3
    <3>2. QED
      BY <1>2, <2>3, <3>1
  <2>4. QED
    BY <1>5, <2>1, <2>2, <2>3
<1>11. \A i \in 1 .. Len(s2) : s2[i].at = "maybe" => s2[i].option = "show_errors"
  BY <1>1, <1>2, <1>3, <1>5
<1>13. \A i \in 1 .. Len(s2) : s2[i].at \notin OptSets
  <2>1. \A i \in 2 .. Len(s) : s[i].at \notin OptSets
    BY <1>3 DEF OptWaiting, OptSets
  <2>2. QED
    BY <1>1, <1>2, <1>5, <2>1
<1>12. QED
  <2>1. DOMAIN s2 = 1 .. Len(s2)
    BY <1>1
  <2>2. /\ \A i \in DOMAIN s2 : i > 1 => OptWaiting(s2[i])
        /\ \A i \in DOMAIN s2 : i < Len(s2) => s2[i].option \in OptWarned
        /\ \A i, j \in DOMAIN s2 : s2[i].at = "off" /\ s2[j].at = "off" => i = j
    BY <2>1, <1>6, <1>7, <1>8
  <2>3. /\ \A i \in DOMAIN s2 : s2[i].at = "off" => s2[i].option = "verbose" /\ up2
        /\ \A i, j \in DOMAIN s2 :
             s2[i].at = "off" => ~(s2[j].at \in OptActs /\ s2[j].option = "verbose")
        /\ \A i \in DOMAIN s2 : s2[i].at = "maybe" => s2[i].option = "show_errors"
        /\ \A i \in DOMAIN s2 : s2[i].at \in OptSets => i = 1 /\ Len(s2) = 1
    BY <2>1, <1>9, <1>10, <1>11, <1>13
  <2>4. QED
    BY <2>2, <2>3, Zenon DEF OptNested

\* What calls there are after t has replaced its innermost one.
LEMMA OptCallsAfter ==
  ASSUME OptionsTyped, OptStacks, NEW t \in Threads, stack[t] # <<>>, NEW new \in Seq(OptFrames),
         stack' = [stack EXCEPT ![t] = new \o Tail(stack[t])]
  PROVE  /\ \A o, loc : OptCalls(o, loc)' => OptCalls(o, loc) \/ \E i \in DOMAIN new : new[i] = Op!Frame(o, loc)
         /\ \A o, loc : OptCalls(o, loc) => OptCalls(o, loc)' \/ Head(stack[t]) = Op!Frame(o, loc)
         /\ \A o, loc : (\E i \in DOMAIN new : new[i] = Op!Frame(o, loc)) => OptCalls(o, loc)'
<1> DEFINE s == stack[t]
           s2 == new \o Tail(s)
           n == Len(new)
<1>1. s \in Seq(OptFrames)
  BY DEF OptStacks
<1>2. /\ Len(s2) = n + Len(s) - 1 /\ Len(s) \in Nat \ {0} /\ n \in Nat
      /\ DOMAIN s2 = 1 .. Len(s2) /\ DOMAIN s = 1 .. Len(s) /\ DOMAIN new = 1 .. n
      /\ \A i \in 1 .. n : s2[i] = new[i]
      /\ \A i \in 2 .. Len(s) : s2[i + n - 1] = s[i]
      /\ \A i \in n + 1 .. Len(s2) : s2[i] = s[i - n + 1] /\ i - n + 1 \in 2 .. Len(s)
  BY <1>1, OptAbove
<1>3. stack'[t] = s2 /\ \A u \in Threads \ {t} : stack'[u] = stack[u]
  BY DEF OptionsTyped
<1>4. Head(s) = s[1]
  BY <1>1, HeadTailProperties
<1> HIDE DEF s, s2, n
<1>5. ASSUME NEW o, NEW loc, OptCalls(o, loc)'
      PROVE  OptCalls(o, loc) \/ \E i \in DOMAIN new : new[i] = Op!Frame(o, loc)
  <2>1. PICK u \in Threads : \E i \in DOMAIN stack'[u] : stack'[u][i] = Op!Frame(o, loc)
    BY <1>5 DEF OptCalls, Op!Frame
  <2>2. CASE u # t
    BY <1>3, <2>1, <2>2 DEF OptCalls
  <2>3. CASE u = t
    <3>1. PICK i \in 1 .. Len(s2) : s2[i] = Op!Frame(o, loc)
      BY <1>2, <1>3, <2>1, <2>3
    <3>2. CASE i \in 1 .. n
      BY <1>2, <3>1, <3>2
    <3>3. CASE i \in n + 1 .. Len(s2)
      <4>1. i - n + 1 \in DOMAIN s /\ s[i - n + 1] = Op!Frame(o, loc)
        BY <1>2, <3>1, <3>3
      <4>2. QED
        BY <4>1 DEF OptCalls, s
    <3>4. QED
      BY <1>2, <3>2, <3>3
  <2>4. QED
    BY <2>2, <2>3
<1>6. ASSUME NEW o, NEW loc, OptCalls(o, loc)
      PROVE  OptCalls(o, loc)' \/ Head(s) = Op!Frame(o, loc)
  <2>1. PICK u \in Threads : \E i \in DOMAIN stack[u] : stack[u][i] = Op!Frame(o, loc)
    BY <1>6 DEF OptCalls
  <2>2. CASE u # t
    <3>1. \E i \in DOMAIN stack'[u] : stack'[u][i] = Op!Frame(o, loc)
      BY <1>3, <2>1, <2>2
    <3>2. QED
      BY <3>1 DEF OptCalls, Op!Frame
  <2>3. CASE u = t
    <3>1. PICK i \in DOMAIN s : s[i] = Op!Frame(o, loc)
      BY <2>1, <2>3 DEF s
    <3>2. CASE i = 1
      BY <1>4, <3>1, <3>2
    <3>3. CASE i # 1
      <4>1. i \in 2 .. Len(s) /\ i + n - 1 \in 1 .. Len(s2)
        BY <1>2, <3>1, <3>3
      <4>2. i + n - 1 \in DOMAIN stack'[t] /\ stack'[t][i + n - 1] = Op!Frame(o, loc)
        BY <1>2, <1>3, <3>1, <4>1
      <4>3. QED
        BY <4>2 DEF OptCalls, Op!Frame
    <3>4. QED
      BY <3>2, <3>3
  <2>4. QED
    BY <2>2, <2>3
<1>7. ASSUME NEW o, NEW loc, NEW i \in DOMAIN new, new[i] = Op!Frame(o, loc) PROVE OptCalls(o, loc)'
  <2>1. i \in DOMAIN stack'[t] /\ stack'[t][i] = Op!Frame(o, loc)
    BY <1>2, <1>3, <1>7
  <2>2. QED
    BY <2>1 DEF OptCalls, Op!Frame
<1>8. QED
  BY <1>5, <1>6, <1>7 DEF s

-----------------------------------------------------------------------------
OptAll == OptActs \cup OptSets \cup {"off"}

\* An option that a step has nothing to do with.
LEMMA OptOtherKeeps ==
  ASSUME NEW o, value'[o] = value[o], init'[o] = init[o], asked'[o] = asked[o],
         environment'[o] = environment[o], \A loc \in OptAll : OptCalls(o, loc)' <=> OptCalls(o, loc)
  PROVE  (OptFits(o) => OptFits(o)') /\ (OptGoes(o) => OptGoes(o)')
<1>1. /\ OptCalls(o, "value")' <=> OptCalls(o, "value")
      /\ OptCalls(o, "mark")' <=> OptCalls(o, "mark")
      /\ OptCalls(o, "bogus")' <=> OptCalls(o, "bogus")
      /\ OptCalls(o, "off")' <=> OptCalls(o, "off")
      /\ OptCalls(o, "seal")' <=> OptCalls(o, "seal")
      /\ OptCalls(o, "store")' <=> OptCalls(o, "store")
      /\ OptBusy(o)' <=> OptBusy(o)
  BY DEF OptAll, OptActs, OptSets, OptBusy
<1>2. OptFits(o) => OptFits(o)'
  BY <1>1 DEF OptFits
<1>3. OptGiven(o)' <=> OptGiven(o)
  BY <1>1 DEF OptGiven
<1>4. OptFound(o)' <=> OptFound(o)
  BY <1>1 DEF OptFound
<1>5. OptMissing(o)' <=> OptMissing(o)
  BY <1>1 DEF OptMissing
<1>6. QED
  BY <1>1, <1>2, <1>3, <1>4, <1>5 DEF OptGoes

\* A step of the innermost call of a thread, which is about option o.
LEMMA OptTopKeeps ==
  ASSUME OptionsInv, NEW t \in Threads, stack[t] # <<>>, NEW new \in Seq(OptFrames),
         NEW o \in Options, stack' = [stack EXCEPT ![t] = new \o Tail(stack[t])],
         Head(stack[t]).at \in OptAll => Head(stack[t]).option = o,
         \A i \in DOMAIN new : new[i].at \in OptAll => new[i].option = o,
         OptMayNest(new, stack[t], OptUp, OptUp'),
         environment' = environment, missed \subseteq missed', OptRaces, OptionsTyped',
         \A p \in Options \ {o} :
           value'[p] = value[p] /\ init'[p] = init[p] /\ asked'[p] = asked[p],
         OptFits(o)', o \notin raced' \cup missed' => OptGoes(o)'
  PROVE  OptionsInv'
<1>0. /\ \A p, loc : OptCalls(p, loc)' => OptCalls(p, loc) \/ \E i \in DOMAIN new : new[i] = Op!Frame(p, loc)
      /\ \A p, loc : OptCalls(p, loc) => OptCalls(p, loc)' \/ Head(stack[t]) = Op!Frame(p, loc)
  <2>1. OptionsTyped /\ OptStacks
    BY DEF OptionsInv
  <2>2. QED
    BY <2>1, OptCallsAfter
<1>1. OptStacks'
  <2>1. OptNested(stack[t], OptUp) /\ stack[t] \in Seq(OptFrames)
    BY DEF OptionsInv, OptStacks
  <2>2. OptUp => OptUp'
    BY DEF OptMayNest
  <2>3. new \o Tail(stack[t]) \in Seq(OptFrames)
    BY <2>1, OptAbove
  <2>4. OptNested(new \o Tail(stack[t]), OptUp')
    BY <2>1, OptNestedAbove
  <2>5. \A u \in Threads : OptNested(stack[u], OptUp')
    BY <2>2 DEF OptionsInv, OptStacks, OptNested
  <2>6. stack'[t] = new \o Tail(stack[t]) /\ \A u \in Threads \ {t} : stack'[u] = stack[u]
    BY DEF OptionsInv, OptionsTyped
  <2>7. ASSUME NEW u \in Threads PROVE stack'[u] \in Seq(OptFrames) /\ OptNested(stack'[u], OptUp')
    <3>1. CASE u = t
      BY <2>3, <2>4, <2>6, <3>1
    <3>2. CASE u # t
      <4>1. stack'[u] = stack[u]
        BY <2>6, <3>2
      <4>2. stack[u] \in Seq(OptFrames)
        BY DEF OptionsInv, OptStacks
      <4>3. QED
        BY <2>5, <4>1, <4>2
    <3>3. QED
      BY <3>1, <3>2
  <2>8. QED
    BY <2>7 DEF OptStacks
<1>2. ASSUME NEW p \in Options, p # o, NEW loc \in OptAll PROVE OptCalls(p, loc)' <=> OptCalls(p, loc)
  <2>1. ~ \E i \in DOMAIN new : new[i] = Op!Frame(p, loc)
    BY <1>2 DEF Op!Frame
  <2>2. Head(stack[t]) # Op!Frame(p, loc)
    BY <1>2 DEF Op!Frame
  <2>3. QED
    BY <2>1, <2>2, <1>0
<1>3. ASSUME NEW p \in Options, p # o
      PROVE  OptFits(p)' /\ (p \notin raced' \cup missed' => OptGoes(p)')
  <2>1. \A loc \in OptAll : OptCalls(p, loc)' <=> OptCalls(p, loc)
    BY <1>2, <1>3
  <2>2. value'[p] = value[p] /\ init'[p] = init[p] /\ asked'[p] = asked[p]
    BY <1>3
  <2>3. (OptFits(p) => OptFits(p)') /\ (OptGoes(p) => OptGoes(p)')
    BY <2>1, <2>2, OptOtherKeeps
  <2>4. p \notin raced' \cup missed' => p \notin raced \cup missed
    BY DEF OptRaces
  <2>5. QED
    BY <2>3, <2>4 DEF OptionsInv
<1>4. \A p \in Options : OptFits(p)'
  BY <1>3
<1>5. \A p \in Options \ (raced' \cup missed') : OptGoes(p)'
  BY <1>3
<1>7. \A p \in Options \ raced' : ~Op!Contended(p)'
  BY DEF OptRaces
<1>6. QED
  BY <1>1, <1>4, <1>5, <1>7 DEF OptionsInv

\* The innermost call.
LEMMA OptTopFacts ==
  ASSUME Op!OptionsAssumption, OptionsInv, NEW t \in Threads, stack[t] # <<>>
  PROVE  /\ Op!Top(t) = Head(stack[t]) /\ Op!Top(t) = stack[t][1] /\ Op!Top(t) \in OptFrames
         /\ Op!Top(t).option \in Options /\ Op!Top(t) = Op!Frame(Op!Top(t).option, Op!Top(t).at)
         /\ 1 \in DOMAIN stack[t] /\ DOMAIN stack[t] = 1 .. Len(stack[t])
         /\ Len(stack[t]) \in Nat \ {0}
         /\ OptCalls(Op!Top(t).option, Op!Top(t).at)
         /\ Len(stack[t]) > 1 => Op!Top(t).option \in OptWarned
         /\ Op!Top(t).at = "maybe" => Op!Top(t).option = "show_errors"
         /\ Op!Top(t).at = "off" => Op!Top(t).option = "verbose"
         /\ Op!Top(t).at \in OptActs /\ Op!Top(t).option = "verbose" =>
              \A k \in 2 .. Len(stack[t]) : stack[t][k].at # "off"
         /\ Op!Top(t).at = "off" => \A k \in 2 .. Len(stack[t]) : stack[t][k].at # "off"
         /\ ~OptUp => \A k \in 2 .. Len(stack[t]) : stack[t][k].at # "off"
         /\ Op!Top(t).at \notin OptSets => \A i \in DOMAIN stack[t] : stack[t][i].at \notin OptSets
<1>1. stack[t] \in Seq(OptFrames) /\ OptNested(stack[t], OptUp)
  BY DEF OptionsInv, OptStacks
<1>2. /\ Op!Top(t) = Head(stack[t]) /\ Op!Top(t) = stack[t][1] /\ Op!Top(t) \in OptFrames
  BY <1>1, HeadTailProperties DEF Op!Top
<1>3. /\ Len(stack[t]) \in Nat \ {0} /\ DOMAIN stack[t] = 1 .. Len(stack[t])
  BY <1>1, EmptySeq, LenProperties
<1>4. 1 \in DOMAIN stack[t] /\ \A k \in 2 .. Len(stack[t]) : k \in DOMAIN stack[t] /\ k # 1
  BY <1>3
<1>5. Op!Top(t).option \in Options /\ Op!Top(t) = Op!Frame(Op!Top(t).option, Op!Top(t).at)
  BY <1>2 DEF OptFrames, Op!Frame
<1>6. OptCalls(Op!Top(t).option, Op!Top(t).at)
  BY <1>2, <1>4, <1>5 DEF OptCalls
<1>7. /\ \A i \in DOMAIN stack[t] : i < Len(stack[t]) => stack[t][i].option \in OptWarned
      /\ \A i, j \in DOMAIN stack[t] :
           stack[t][i].at = "off" /\ stack[t][j].at = "off" => i = j
      /\ \A i \in DOMAIN stack[t] : stack[t][i].at = "off" => stack[t][i].option = "verbose" /\ OptUp
      /\ \A i, j \in DOMAIN stack[t] :
           stack[t][i].at = "off" =>
             ~(stack[t][j].at \in OptActs /\ stack[t][j].option = "verbose")
      /\ \A i \in DOMAIN stack[t] : stack[t][i].at = "maybe" => stack[t][i].option = "show_errors"
      /\ \A i \in DOMAIN stack[t] : stack[t][i].at \in OptSets => i = 1
  BY <1>1 DEF OptNested
<1>8. Len(stack[t]) > 1 => 1 < Len(stack[t])
  BY <1>3
<1>9. QED
  BY <1>2, <1>3, <1>4, <1>5, <1>6, <1>7, <1>8

-----------------------------------------------------------------------------
LEMMA OptNone == <<>> \in Seq(OptFrames) /\ DOMAIN <<>> = {} /\ Len(<<>>) = 0
  OBVIOUS

LEMMA OptOne ==
  ASSUME NEW f \in OptFrames
  PROVE  <<f>> \in Seq(OptFrames) /\ DOMAIN <<f>> = {1} /\ Len(<<f>>) = 1 /\ <<f>>[1] = f
  OBVIOUS

LEMMA OptFrameIs ==
  ASSUME NEW o \in Options, NEW loc \in OptAts
  PROVE  Op!Frame(o, loc) \in OptFrames /\ Op!Frame(o, loc).option = o /\ Op!Frame(o, loc).at = loc
  BY DEF Op!Frame, OptFrames

LEMMA OptTwo ==
  ASSUME NEW f \in OptFrames, NEW g \in OptFrames
  PROVE  /\ <<f, g>> \in Seq(OptFrames) /\ DOMAIN <<f, g>> = {1, 2} /\ Len(<<f, g>>) = 2
         /\ <<f, g>>[1] = f /\ <<f, g>>[2] = g
  OBVIOUS

LEMMA OptThree ==
  ASSUME NEW f \in OptFrames, NEW g \in OptFrames, NEW h \in OptFrames
  PROVE  /\ <<f, g, h>> \in Seq(OptFrames) /\ DOMAIN <<f, g, h>> = {1, 2, 3} /\ Len(<<f, g, h>>) = 3
         /\ <<f, g, h>>[1] = f /\ <<f, g, h>>[2] = g /\ <<f, g, h>>[3] = h
  OBVIOUS

LEMMA OptAsksAbove ==
  ASSUME Op!OptionsAssumption, NEW s \in Seq(OptFrames), NEW f \in OptFrames
  PROVE  /\ Op!Asks(<<f>> \o s) = <<Op!Frame("verbose", "get"), Op!Frame("show_errors", "maybe"), f>> \o s
         /\ Op!Asks(s) = <<Op!Frame("verbose", "get"), Op!Frame("show_errors", "maybe")>> \o s
<1> DEFINE a == Op!Frame("verbose", "get")
           b == Op!Frame("show_errors", "maybe")
<1>1. a \in OptFrames /\ b \in OptFrames
  BY OptFrameIs DEF Op!OptionsAssumption, OptAts
<1> HIDE DEF a, b
<1>2. <<a, b>> \in Seq(OptFrames) /\ <<f>> \in Seq(OptFrames) /\ <<a, b>> \o <<f>> = <<a, b, f>>
  <2>1. <<a, b>> \in Seq(OptFrames) /\ <<f>> \in Seq(OptFrames)
    BY <1>1
  <2>2. /\ Len(<<a, b>>) = 2 /\ Len(<<f>>) = 1 /\ Len(<<a, b, f>>) = 3
        /\ <<a, b>>[1] = a /\ <<a, b>>[2] = b /\ <<f>>[1] = f
        /\ <<a, b, f>>[1] = a /\ <<a, b, f>>[2] = b /\ <<a, b, f>>[3] = f
        /\ <<a, b, f>> \in Seq(OptFrames)
    BY <1>1
  <2>3. /\ <<a, b>> \o <<f>> \in Seq(OptFrames) /\ Len(<<a, b>> \o <<f>>) = 3
        /\ \A i \in 1 .. 3 : (<<a, b>> \o <<f>>)[i] = <<a, b, f>>[i]
    BY <2>1, <2>2, ConcatProperties
  <2>4. QED
    BY <2>1, <2>2, <2>3, SeqEqual
<1>3. (<<a, b>> \o <<f>>) \o s = <<a, b>> \o (<<f>> \o s)
  BY <1>2, ConcatAssociative
<1>4. QED
  BY <1>2, <1>3 DEF Op!Asks, a, b

LEMMA OptMayPop ==
  ASSUME NEW s, NEW up, NEW up2, up => up2
  PROVE  OptMayNest(<<>>, s, up, up2)
  BY OptNone DEF OptMayNest

LEMMA OptMayPut ==
  ASSUME NEW o, NEW loc \in OptActs \cup {"get"}, Op!Frame(o, loc) \in OptFrames,
         NEW s, NEW up, NEW up2, up => up2, Len(s) > 1 => o \in OptWarned,
         loc # "get" /\ o = "verbose" => \A k \in 2 .. Len(s) : s[k].at # "off"
  PROVE  OptMayNest(<<Op!Frame(o, loc)>>, s, up, up2)
<1>1. PICK f \in OptFrames : f = Op!Frame(o, loc) /\ f.option = o /\ f.at = loc
  BY DEF Op!Frame
<1>2. loc \notin {"off", "maybe"} \cup OptSets /\ (loc \in OptActs => loc # "get")
  BY DEF OptActs, OptSets
<1>3. PICK new : new = <<f>>
  OBVIOUS
<1>4. DOMAIN new = {1} /\ Len(new) = 1 /\ new[1] = f
  BY <1>3, OptOne
<1>5. /\ \A i \in {1} : ~(i > 1)
      /\ \A i \in {1} : ~(i < 1)
  OBVIOUS
<1>6. OptMayNest(new, s, up, up2)
  BY <1>1, <1>2, <1>4, <1>5 DEF OptMayNest
<1>7. QED
  BY <1>1, <1>3, <1>6

LEMMA OptMayAsk ==
  ASSUME NEW f \in OptFrames, NEW g \in OptFrames, NEW s, NEW up, NEW up2, up => up2,
         f = Op!Frame("verbose", "get"), g = Op!Frame("show_errors", "maybe")
  PROVE  OptMayNest(<<f, g>>, s, up, up2)
<1>1. f.option = "verbose" /\ f.at = "get" /\ g.option = "show_errors" /\ g.at = "maybe"
  BY DEF Op!Frame
<1>2. QED
  BY <1>1, OptTwo DEF OptMayNest, OptWarned, OptWaiting, OptActs, OptSets

LEMMA OptMayAskFor ==
  ASSUME NEW f \in OptFrames, NEW g \in OptFrames, NEW h \in OptFrames, NEW s, Len(s) \in Nat \ {0},
         NEW up, NEW up2, up => up2,
         f = Op!Frame("verbose", "get"), g = Op!Frame("show_errors", "maybe"),
         \/ h.at = "value" /\ h.option \notin OptWarned /\ Len(s) = 1
         \/ /\ h.at = "off" /\ h.option = "verbose" /\ up2
            /\ \A k \in 2 .. Len(s) : s[k].at # "off"
  PROVE  OptMayNest(<<f, g, h>>, s, up, up2)
<1>1. f.option = "verbose" /\ f.at = "get" /\ g.option = "show_errors" /\ g.at = "maybe"
  BY DEF Op!Frame
<1>2. CASE h.at = "value" /\ h.option \notin OptWarned /\ Len(s) = 1
  BY <1>1, <1>2, OptThree DEF OptMayNest, OptWarned, OptWaiting, OptActs, OptSets
<1>3. CASE /\ h.at = "off" /\ h.option = "verbose" /\ up2
           /\ \A k \in 2 .. Len(s) : s[k].at # "off"
  BY <1>1, <1>3, OptThree DEF OptMayNest, OptWarned, OptWaiting, OptActs, OptSets
<1>4. QED
  BY <1>2, <1>3

-----------------------------------------------------------------------------
\* The calls about o after a step of t that was at the call from and goes on
\* with to: a call about o, or none.
LEMMA OptCallsPop ==
  ASSUME Op!OptionsAssumption, OptionsInv, NEW t \in Threads, stack[t] # <<>>,
         NEW o, Op!Top(t).option = o, stack' = [stack EXCEPT ![t] = Tail(stack[t])]
  PROVE  /\ stack' = [stack EXCEPT ![t] = <<>> \o Tail(stack[t])]
         /\ \A loc : OptCalls(o, loc)' => OptCalls(o, loc)
         /\ \A loc : OptCalls(o, loc) /\ Op!Top(t).at # loc => OptCalls(o, loc)'
<1>1. stack[t] \in Seq(OptFrames)
  BY DEF OptionsInv, OptStacks
<1>2. Tail(stack[t]) \in Seq(OptFrames)
  BY <1>1, HeadTailProperties
<1>3. <<>> \o Tail(stack[t]) = Tail(stack[t])
  BY <1>2, ConcatEmptySeq
<1>4. stack' = [stack EXCEPT ![t] = <<>> \o Tail(stack[t])]
  BY <1>3
<1>5. OptionsTyped /\ OptStacks
  BY DEF OptionsInv
<1>6. /\ \A p, loc : OptCalls(p, loc)' => OptCalls(p, loc) \/ \E i \in DOMAIN <<>> : <<>>[i] = Op!Frame(p, loc)
      /\ \A p, loc : OptCalls(p, loc) => OptCalls(p, loc)' \/ Head(stack[t]) = Op!Frame(p, loc)
  BY <1>4, <1>5, OptNone, OptCallsAfter
<1>7. \A loc : Op!Top(t).at # loc => Head(stack[t]) # Op!Frame(o, loc)
  BY DEF Op!Top, Op!Frame
<1>8. QED
  BY <1>4, <1>6, <1>7, OptNone

\* The innermost call of t makes way for one on p.
OptPut(t, p, to) == stack' = [stack EXCEPT ![t] = <<Op!Frame(p, to)>> \o Tail(stack[t])]
OptMoves(o, from, p, to) ==
  /\ \A loc : OptCalls(o, loc)' => OptCalls(o, loc) \/ (p = o /\ loc = to)
  /\ \A loc : OptCalls(o, loc) /\ loc # from => OptCalls(o, loc)'
  /\ OptCalls(p, to)'

LEMMA OptCallsPut ==
  ASSUME Op!OptionsAssumption, OptionsInv, NEW t \in Threads, stack[t] # <<>>,
         NEW o, o = Op!Top(t).option, NEW from, Op!Top(t).at = from,
         NEW p \in Options, NEW to \in OptAts, OptPut(t, p, to)
  PROVE  OptMoves(o, from, p, to)
<1> DEFINE f == Op!Frame(p, to)
<1>1. f \in OptFrames /\ f.option = p /\ f.at = to
  BY OptFrameIs
<1>2. <<f>> \in Seq(OptFrames) /\ DOMAIN <<f>> = {1} /\ <<f>>[1] = f
  BY <1>1, OptOne
<1>3. OptionsTyped /\ OptStacks
  BY DEF OptionsInv
<1>4. stack' = [stack EXCEPT ![t] = <<f>> \o Tail(stack[t])]
  BY DEF OptPut
<1>5. \A loc : f = Op!Frame(o, loc) => p = o /\ loc = to
  BY <1>1 DEF Op!Frame
<1> HIDE DEF f
<1>6. /\ \A q, loc : OptCalls(q, loc)' => OptCalls(q, loc) \/ \E i \in DOMAIN <<f>> : <<f>>[i] = Op!Frame(q, loc)
      /\ \A q, loc : OptCalls(q, loc) => OptCalls(q, loc)' \/ Head(stack[t]) = Op!Frame(q, loc)
      /\ \A q, loc : (\E i \in DOMAIN <<f>> : <<f>>[i] = Op!Frame(q, loc)) => OptCalls(q, loc)'
  BY <1>2, <1>3, <1>4, OptCallsAfter
<1>7. \A loc : Op!Top(t).at # loc => Head(stack[t]) # Op!Frame(o, loc)
  BY DEF Op!Top, Op!Frame
<1>8. OptCalls(p, to)'
  BY <1>2, <1>6 DEF f
<1>9. \A loc : OptCalls(o, loc)' => OptCalls(o, loc) \/ (p = o /\ loc = to)
  BY <1>2, <1>5, <1>6
<1>10. \A loc : OptCalls(o, loc) /\ loc # from => OptCalls(o, loc)'
  BY <1>6, <1>7
<1>11. QED
  BY <1>8, <1>9, <1>10 DEF OptMoves

-----------------------------------------------------------------------------
\* A call that sets an option is the only one of its thread.
LEMMA OptSetting ==
  ASSUME OptionsInv, NEW u \in Threads, NEW j \in DOMAIN stack[u], stack[u][j].at \in OptSets
  PROVE  /\ j = 1 /\ stack[u] # <<>> /\ Head(stack[u]) = stack[u][j]
         /\ \A i \in DOMAIN stack[u] : i = 1
<1>1. stack[u] \in Seq(OptFrames) /\ OptNested(stack[u], OptUp)
  BY DEF OptionsInv, OptStacks
<1>2. j = 1 /\ Len(stack[u]) = 1
  BY <1>1 DEF OptNested
<1>3. DOMAIN stack[u] = 1 .. 1 /\ stack[u] # <<>>
  BY <1>1, <1>2, LenProperties
<1>4. Head(stack[u]) = stack[u][1] /\ \A i \in 1 .. 1 : i = 1
  BY <1>1, <1>3, HeadTailProperties
<1>5. QED
  BY <1>2, <1>3, <1>4

LEMMA OptMeets ==
  ASSUME OptionsInv, NEW t \in Threads, NEW u \in Threads, t # u, NEW o,
         NEW i \in DOMAIN stack[t], NEW j \in DOMAIN stack[u], NEW l \in OptSets, NEW m \in OptAll,
         stack[t][i] = Op!Frame(o, l), stack[u][j] = Op!Frame(o, m)
  PROVE  Op!Contended(o)
<1>1. Op!Frame(o, l).at = l /\ Op!Frame(o, m).at = m /\ Op!Frame(o, m).option = o
  BY DEF Op!Frame
<1>2. Op!Sets(t, o)
  BY <1>1, OptSetting DEF Op!Sets, Op!Top, OptSets
<1>3. CASE m \in OptSets
  <2>1. Op!Sets(u, o)
    BY <1>1, <1>3, OptSetting DEF Op!Sets, Op!Top, OptSets
  <2>2. QED
    BY <1>2, <2>1 DEF Op!Contended
<1>4. CASE m \notin OptSets
  <2>1. m \notin {"get", "maybe", "seal", "store"}
    BY <1>4 DEF OptAll, OptActs, OptSets
  <2>2. Op!Initializes(u, o)
    BY <1>1, <2>1 DEF Op!Initializes
  <2>3. QED
    BY <1>2, <2>2 DEF Op!Contended
<1>5. QED
  BY <1>3, <1>4

\* A call at an option that no threads have raced for.
LEMMA OptAlone ==
  ASSUME Op!OptionsAssumption, OptionsInv, NEW t \in Threads, stack[t] # <<>>, NEW o \in Options \ raced,
         Op!Top(t).option = o
  PROVE  /\ Op!Top(t).at \in OptActs \cup {"off"} => \A m \in OptSets : ~OptCalls(o, m)
         /\ Op!Top(t).at \in OptSets => \A m \in OptAll : OptCalls(o, m) => m = Op!Top(t).at
<1>1. /\ Op!Top(t) = stack[t][1] /\ 1 \in DOMAIN stack[t]
      /\ Op!Top(t) = Op!Frame(o, Op!Top(t).at)
      /\ Op!Top(t).at \notin OptSets => \A i \in DOMAIN stack[t] : stack[t][i].at \notin OptSets
  BY OptTopFacts
<1>2. ~Op!Contended(o)
  BY DEF OptionsInv
<1>3. ASSUME Op!Top(t).at \in OptActs \cup {"off"}, NEW m \in OptSets, OptCalls(o, m) PROVE FALSE
  <2>1. PICK u \in Threads : \E j \in DOMAIN stack[u] : stack[u][j] = Op!Frame(o, m)
    BY <1>3 DEF OptCalls
  <2>2. PICK j \in DOMAIN stack[u] : stack[u][j] = Op!Frame(o, m)
    BY <2>1
  <2>3. stack[u][j].at = m /\ Op!Top(t).at \notin OptSets /\ Op!Top(t).at \in OptAll
    BY <1>3, <2>2 DEF Op!Frame, OptActs, OptSets, OptAll
  <2>4. u # t
    BY <1>1, <2>2, <2>3
  <2>5. QED
    BY <1>1, <1>2, <2>2, <2>3, <2>4, OptMeets
<1>4. ASSUME Op!Top(t).at \in OptSets, NEW m \in OptAll, OptCalls(o, m) PROVE m = Op!Top(t).at
  <2>1. PICK u \in Threads : \E j \in DOMAIN stack[u] : stack[u][j] = Op!Frame(o, m)
    BY <1>4 DEF OptCalls
  <2>2. PICK j \in DOMAIN stack[u] : stack[u][j] = Op!Frame(o, m)
    BY <2>1
  <2>3. u = t
    BY <1>1, <1>2, <1>4, <2>2, OptMeets
  <2>4. j = 1
    BY <1>1, <1>4, <2>2, <2>3, OptSetting
  <2>5. QED
    BY <1>1, <2>2, <2>3, <2>4 DEF Op!Frame
<1>5. QED
  BY <1>3, <1>4

\* One that begins to initialize an option which another is about to have set.
LEMMA OptSealMeets ==
  ASSUME Op!OptionsAssumption, OptionsInv, NEW t \in Threads, stack[t] # <<>>, Op!Top(t).at = "get",
         NEW o \in Options, stack' = [stack EXCEPT ![t] = <<Op!Frame(o, "find")>> \o Tail(stack[t])],
         OptCalls(o, "seal")
  PROVE  Op!Contended(o)'
<1>1. PICK u \in Threads : \E j \in DOMAIN stack[u] : stack[u][j] = Op!Frame(o, "seal")
  BY DEF OptCalls
<1>2. PICK j \in DOMAIN stack[u] : stack[u][j] = Op!Frame(o, "seal")
  BY <1>1
<1>3. stack[u][j].at = "seal" /\ "seal" \in OptSets /\ "get" \notin OptSets
  BY <1>2 DEF Op!Frame, OptSets
<1>4. u # t
  BY <1>2, <1>3, OptTopFacts
<1>5. /\ stack'[t] = <<Op!Frame(o, "find")>> \o Tail(stack[t])
      /\ \A v \in Threads \ {t} : stack'[v] = stack[v]
  BY DEF OptionsInv, OptionsTyped
<1>6. Op!Sets(u, o)'
  <2>1. stack[u] # <<>> /\ Head(stack[u]) = Op!Frame(o, "seal")
    BY <1>2, <1>3, OptSetting
  <2>2. QED
    BY <1>4, <1>5, <2>1 DEF Op!Sets, Op!Top, Op!Frame
<1>7. Op!Initializes(t, o)'
  <2>1. Op!Frame(o, "find") \in OptFrames /\ Op!Frame(o, "find").option = o /\ Op!Frame(o, "find").at = "find"
    BY OptFrameIs DEF OptAts, OptActs
  <2>2. /\ <<Op!Frame(o, "find")>> \in Seq(OptFrames) /\ Len(<<Op!Frame(o, "find")>>) = 1
        /\ <<Op!Frame(o, "find")>>[1] = Op!Frame(o, "find")
    BY <2>1, OptOne
  <2>3. stack[t] \in Seq(OptFrames)
    BY DEF OptionsInv, OptStacks
  <2>4. 1 \in DOMAIN stack'[t] /\ stack'[t][1] = Op!Frame(o, "find")
    BY <1>5, <2>2, <2>3, OptAbove
  <2>5. QED
    BY <2>1, <2>4 DEF Op!Initializes
<1>8. QED
  BY <1>4, <1>6, <1>7 DEF Op!Contended

LEMMA OptTestKeeps ==
  ASSUME Op!OptionsAssumption, OptionsInv, NEW t \in Threads, Op!Test(t), OptRaces PROVE OptionsInv'
<1>1. stack[t] # <<>> /\ Op!Top(t).at = "get"
  BY DEF Op!Test, Op!At
<1>2. PICK o \in Options : o = Op!Top(t).option
  BY <1>1, OptTopFacts
<1>3. UNCHANGED <<preloading, environment, value, init, asked, missed>>
  BY DEF Op!Test
<1>0. missed \subseteq missed' /\ (o \notin raced' \cup missed' => o \notin raced \cup missed)
  BY <1>3 DEF OptRaces
<1>4. OptionsTyped'
  BY <1>3 DEF OptionsInv, OptionsTyped, Op!Test, Op!Becomes
<1>5. OptUp' <=> OptUp
  BY <1>3 DEF OptUp
<1>6. OptFits(o) /\ (o \notin raced \cup missed => OptGoes(o))
  BY DEF OptionsInv
<1>7. CASE init[o] = "UNINIT"
  <2>1. stack' = [stack EXCEPT ![t] = <<Op!Frame(o, "find")>> \o Tail(stack[t])]
    BY <1>2, <1>7 DEF Op!Test, Op!Becomes, Op!Below
  <2>2. /\ \A loc : OptCalls(o, loc)' => OptCalls(o, loc) \/ loc = "find"
        /\ \A loc : OptCalls(o, loc) /\ loc # "get" => OptCalls(o, loc)'
    <3>1. "find" \in OptAts /\ OptPut(t, o, "find")
      BY <2>1 DEF OptAts, OptActs, OptPut
    <3>2. OptMoves(o, "get", o, "find")
      BY <1>1, <1>2, <3>1, OptCallsPut
    <3>3. QED
      BY <3>2 DEF OptMoves
  <2>3. OptFits(o)'
    BY <1>3, <1>6, <2>2 DEF OptFits
  <2>4. o \notin raced' \cup missed' => OptGoes(o)'
    <3>1. o \notin raced' => ~OptCalls(o, "seal")
      BY <1>1, <1>2, <2>1, OptSealMeets DEF OptRaces
    <3>2. o \notin raced' \cup missed' => asked[o].set = Op!Default
      BY <1>0, <1>6, <1>7, <3>1 DEF OptGoes, OptGiven
    <3>3. QED
      BY <1>0, <1>3, <1>6, <1>7, <2>2, <3>2 DEF OptGoes, OptFound, OptMissing
  <2>5. Op!Frame(o, "find") \in OptFrames /\ Op!Frame(o, "find").option = o /\ Op!Frame(o, "find").at = "find"
    BY OptFrameIs DEF OptAts, OptActs
  <2>6. OptMayNest(<<Op!Frame(o, "find")>>, stack[t], OptUp, OptUp')
    <3>1. Len(stack[t]) > 1 => o \in OptWarned
      BY <1>1, <1>2, OptTopFacts
    <3>2. o = "verbose" => \A k \in 2 .. Len(stack[t]) : stack[t][k].at # "off"
      BY <1>1, <1>7, OptTopFacts DEF OptUp
    <3>3. "find" \in OptActs /\ (OptUp => OptUp')
      BY <1>5 DEF OptActs
    <3>4. QED
      BY <2>5, <3>1, <3>2, <3>3, OptMayPut
  <2>7. Head(stack[t]).at \in OptAll => Head(stack[t]).option = o
    BY <1>1, <1>2 DEF Op!Top
  <2>8. <<Op!Frame(o, "find")>> \in Seq(OptFrames) /\ DOMAIN <<Op!Frame(o, "find")>> = {1}
        /\ \A i \in {1} : <<Op!Frame(o, "find")>>[i].option = o
    BY <2>5, OptOne
  <2>9. QED
    BY <1>1, <1>0, <1>3, <1>4, <2>1, <2>3, <2>4, <2>6, <2>7, <2>8, OptTopKeeps
<1>8. CASE init[o] # "UNINIT"
  <2>1. stack' = [stack EXCEPT ![t] = Tail(stack[t])]
    BY <1>2, <1>8 DEF Op!Test, Op!Becomes, Op!Below
  <2>2. /\ stack' = [stack EXCEPT ![t] = <<>> \o Tail(stack[t])]
        /\ \A loc : OptCalls(o, loc)' => OptCalls(o, loc)
        /\ \A loc : OptCalls(o, loc) /\ loc # "get" => OptCalls(o, loc)'
    BY <1>1, <1>2, <2>1, OptCallsPop
  <2>3. \A loc \in OptAll : OptCalls(o, loc)' <=> OptCalls(o, loc)
    BY <2>2 DEF OptAll, OptActs, OptSets
  <2>4. OptFits(o)' /\ (o \notin raced' \cup missed' => OptGoes(o)')
    BY <1>0, <1>3, <1>6, <2>3, OptOtherKeeps
  <2>5. OptMayNest(<<>>, stack[t], OptUp, OptUp')
    BY <1>5, OptMayPop
  <2>6. Head(stack[t]).at \in OptAll => Head(stack[t]).option = o
    BY <1>1, <1>2 DEF Op!Top
  <2>7. QED
    BY <1>1, <1>0, <1>3, <1>4, <2>2, <2>4, <2>5, <2>6, OptNone, OptTopKeeps
<1>9. QED
  BY <1>7, <1>8

LEMMA OptMaybeKeeps ==
  ASSUME Op!OptionsAssumption, OptionsInv, NEW t \in Threads, Op!Maybe(t), OptRaces PROVE OptionsInv'
<1>1. stack[t] # <<>> /\ Op!Top(t).at = "maybe"
  BY DEF Op!Maybe, Op!At
<1>2. PICK o \in Options : o = Op!Top(t).option
  BY <1>1, OptTopFacts
<1>3. UNCHANGED <<preloading, environment, value, init, asked, missed>>
  BY DEF Op!Maybe
<1>0. missed \subseteq missed' /\ (o \notin raced' \cup missed' => o \notin raced \cup missed)
  BY <1>3 DEF OptRaces
<1>4. OptionsTyped'
  BY <1>3 DEF OptionsInv, OptionsTyped, Op!Maybe, Op!Becomes
<1>5. OptUp' <=> OptUp
  BY <1>3 DEF OptUp
<1>6. OptFits(o) /\ (o \notin raced \cup missed => OptGoes(o))
  BY DEF OptionsInv
<1>7. Head(stack[t]).at \in OptAll => Head(stack[t]).option = o
  BY <1>1, <1>2 DEF Op!Top
<1>8. CASE ~(value["verbose"] # 0)
  <2>1. stack' = [stack EXCEPT ![t] = <<Op!Frame("show_errors", "get")>> \o Tail(stack[t])]
    BY <1>8 DEF Op!Maybe, Op!Becomes, Op!Below
  <2>2. /\ \A loc : OptCalls(o, loc)' => OptCalls(o, loc) \/ loc = "get"
        /\ \A loc : OptCalls(o, loc) /\ loc # "maybe" => OptCalls(o, loc)'
    <3>1. "show_errors" \in Options /\ "get" \in OptAts /\ OptPut(t, "show_errors", "get")
      BY <2>1 DEF OptAts, OptPut, Op!OptionsAssumption
    <3>2. OptMoves(o, "maybe", "show_errors", "get")
      BY <1>1, <1>2, <3>1, OptCallsPut
    <3>3. QED
      BY <3>2 DEF OptMoves
  <2>3. \A loc \in OptAll : OptCalls(o, loc)' <=> OptCalls(o, loc)
    BY <2>2 DEF OptAll, OptActs, OptSets
  <2>4. OptFits(o)' /\ (o \notin raced' \cup missed' => OptGoes(o)')
    BY <1>0, <1>3, <1>6, <2>3, OptOtherKeeps
  <2>5. /\ Op!Frame("show_errors", "get") \in OptFrames
        /\ Op!Frame("show_errors", "get").option = "show_errors"
        /\ Op!Frame("show_errors", "get").at = "get"
    BY OptFrameIs DEF OptAts, OptActs, Op!OptionsAssumption
  <2>6. OptMayNest(<<Op!Frame("show_errors", "get")>>, stack[t], OptUp, OptUp')
    <3>1. "get" \in OptActs \cup {"get"} /\ "show_errors" \in OptWarned /\ (OptUp => OptUp')
      BY <1>5 DEF OptWarned
    <3>2. QED
      BY <2>5, <3>1, OptMayPut
  <2>7. <<Op!Frame("show_errors", "get")>> \in Seq(OptFrames)
        /\ DOMAIN <<Op!Frame("show_errors", "get")>> = {1}
        /\ \A i \in {1} : <<Op!Frame("show_errors", "get")>>[i].at \notin OptAll
    BY <2>5, OptOne DEF OptAll, OptActs, OptSets
  <2>8. QED
    BY <1>1, <1>0, <1>3, <1>4, <1>7, <2>1, <2>4, <2>6, <2>7, OptTopKeeps
<1>9. CASE value["verbose"] # 0
  <2>1. stack' = [stack EXCEPT ![t] = Tail(stack[t])]
    BY <1>9 DEF Op!Maybe, Op!Becomes, Op!Below
  <2>2. /\ stack' = [stack EXCEPT ![t] = <<>> \o Tail(stack[t])]
        /\ \A loc : OptCalls(o, loc)' => OptCalls(o, loc)
        /\ \A loc : OptCalls(o, loc) /\ loc # "maybe" => OptCalls(o, loc)'
    BY <1>1, <1>2, <2>1, OptCallsPop
  <2>3. \A loc \in OptAll : OptCalls(o, loc)' <=> OptCalls(o, loc)
    BY <2>2 DEF OptAll, OptActs, OptSets
  <2>4. OptFits(o)' /\ (o \notin raced' \cup missed' => OptGoes(o)')
    BY <1>0, <1>3, <1>6, <2>3, OptOtherKeeps
  <2>5. OptMayNest(<<>>, stack[t], OptUp, OptUp')
    BY <1>5, OptMayPop
  <2>6. QED
    BY <1>1, <1>0, <1>3, <1>4, <1>7, <2>2, <2>4, <2>5, OptNone, OptTopKeeps
<1>10. QED
  BY <1>8, <1>9

LEMMA OptCallsAsk ==
  ASSUME Op!OptionsAssumption, OptionsInv, NEW t \in Threads, stack[t] # <<>>,
         NEW o, Op!Top(t).option = o, Op!Becomes(t, Op!Asks(Op!Below(t)))
  PROVE  /\ stack' = [stack EXCEPT ![t] =
              <<Op!Frame("verbose", "get"), Op!Frame("show_errors", "maybe")>> \o Tail(stack[t])]
         /\ Op!Frame("verbose", "get") \in OptFrames /\ Op!Frame("show_errors", "maybe") \in OptFrames
         /\ <<Op!Frame("verbose", "get"), Op!Frame("show_errors", "maybe")>> \in Seq(OptFrames)
         /\ \A i \in DOMAIN <<Op!Frame("verbose", "get"), Op!Frame("show_errors", "maybe")>> :
              <<Op!Frame("verbose", "get"), Op!Frame("show_errors", "maybe")>>[i].at \notin OptAll
         /\ \A loc \in OptAll : OptCalls(o, loc)' => OptCalls(o, loc)
         /\ \A loc \in OptAll : OptCalls(o, loc) /\ Op!Top(t).at # loc => OptCalls(o, loc)'
<1> DEFINE f == Op!Frame("verbose", "get")
           g == Op!Frame("show_errors", "maybe")
<1>1. f \in OptFrames /\ f.at = "get" /\ g \in OptFrames /\ g.at = "maybe"
  BY OptFrameIs DEF OptAts, Op!OptionsAssumption
<1>2. Tail(stack[t]) \in Seq(OptFrames)
  BY HeadTailProperties DEF OptionsInv, OptStacks
<1> HIDE DEF f, g
<1>3. stack' = [stack EXCEPT ![t] = <<f, g>> \o Tail(stack[t])]
  <2>1. Op!Asks(Tail(stack[t])) = <<f, g>> \o Tail(stack[t])
    BY DEF Op!Asks, f, g
  <2>2. QED
    BY <2>1 DEF Op!Becomes, Op!Below
<1>4. <<f, g>> \in Seq(OptFrames) /\ DOMAIN <<f, g>> = {1, 2} /\ <<f, g>>[1] = f /\ <<f, g>>[2] = g
  BY <1>1, OptTwo
<1>5. OptionsTyped /\ OptStacks
  BY DEF OptionsInv
<1>6. /\ \A q, loc : OptCalls(q, loc)' => OptCalls(q, loc) \/ \E i \in DOMAIN <<f, g>> : <<f, g>>[i] = Op!Frame(q, loc)
      /\ \A q, loc : OptCalls(q, loc) => OptCalls(q, loc)' \/ Head(stack[t]) = Op!Frame(q, loc)
  BY <1>3, <1>4, <1>5, OptCallsAfter
<1>7. \A i \in DOMAIN <<f, g>> : <<f, g>>[i].at \notin OptAll
  BY <1>1, <1>4 DEF OptAll, OptActs, OptSets
<1>8. \A loc \in OptAll : ~ \E i \in DOMAIN <<f, g>> : <<f, g>>[i] = Op!Frame(o, loc)
  BY <1>7 DEF Op!Frame
<1>9. \A loc : Op!Top(t).at # loc => Head(stack[t]) # Op!Frame(o, loc)
  BY DEF Op!Top, Op!Frame
<1>10. QED
  BY <1>1, <1>3, <1>4, <1>6, <1>7, <1>8, <1>9 DEF f, g

OptAskedFor(t, o, to, new) ==
  /\ new = <<Op!Frame("verbose", "get"), Op!Frame("show_errors", "maybe"), Op!Frame(o, to)>>
  /\ stack' = [stack EXCEPT ![t] = new \o Tail(stack[t])]
  /\ Op!Frame("verbose", "get") \in OptFrames /\ Op!Frame("show_errors", "maybe") \in OptFrames
  /\ Op!Frame(o, to) \in OptFrames
  /\ \A i \in DOMAIN new : new[i].at \in OptAll => new[i].option = o
  /\ \A loc \in OptAll : OptCalls(o, loc)' => OptCalls(o, loc) \/ loc = to
  /\ \A loc \in OptAll : OptCalls(o, loc) /\ Op!Top(t).at # loc => OptCalls(o, loc)'
  /\ OptCalls(o, to)'

LEMMA OptCallsAskFor ==
  ASSUME Op!OptionsAssumption, OptionsInv, NEW t \in Threads, stack[t] # <<>>,
         NEW o \in Options, Op!Top(t).option = o, NEW to \in OptAts,
         Op!Becomes(t, Op!Asks(<<Op!Frame(o, to)>> \o Op!Below(t)))
  PROVE  \E new \in Seq(OptFrames) : OptAskedFor(t, o, to, new)
<1> DEFINE f == Op!Frame("verbose", "get")
           g == Op!Frame("show_errors", "maybe")
           h == Op!Frame(o, to)
           new == <<f, g, h>>
<1>1. /\ f \in OptFrames /\ f.at = "get" /\ g \in OptFrames /\ g.at = "maybe"
      /\ h \in OptFrames /\ h.option = o /\ h.at = to
  BY OptFrameIs DEF OptAts, Op!OptionsAssumption
<1>2. Tail(stack[t]) \in Seq(OptFrames)
  BY HeadTailProperties DEF OptionsInv, OptStacks
<1>3. stack' = [stack EXCEPT ![t] = new \o Tail(stack[t])]
  <2>1. Op!Asks(<<h>> \o Tail(stack[t])) = new \o Tail(stack[t])
    BY <1>1, <1>2, OptAsksAbove
  <2>2. QED
    BY <2>1 DEF Op!Becomes, Op!Below
<1> HIDE DEF f, g, h
<1>4. new \in Seq(OptFrames) /\ DOMAIN new = {1, 2, 3} /\ new[1] = f /\ new[2] = g /\ new[3] = h
  BY <1>1, OptThree
<1> HIDE DEF new
<1>5. OptionsTyped /\ OptStacks
  BY DEF OptionsInv
<1>6. /\ \A q, loc : OptCalls(q, loc)' => OptCalls(q, loc) \/ \E i \in DOMAIN new : new[i] = Op!Frame(q, loc)
      /\ \A q, loc : OptCalls(q, loc) => OptCalls(q, loc)' \/ Head(stack[t]) = Op!Frame(q, loc)
      /\ \A q, loc : (\E i \in DOMAIN new : new[i] = Op!Frame(q, loc)) => OptCalls(q, loc)'
  BY <1>3, <1>4, <1>5, OptCallsAfter
<1>7. \A i \in DOMAIN new : new[i].at \in OptAll => new[i] = h
  BY <1>1, <1>4 DEF OptAll, OptActs, OptSets
<1>8. \A loc \in OptAll : (\E i \in DOMAIN new : new[i] = Op!Frame(o, loc)) => loc = to
  <2> SUFFICES ASSUME NEW loc \in OptAll, NEW i \in DOMAIN new, new[i] = Op!Frame(o, loc) PROVE loc = to
    OBVIOUS
  <2>1. new[i].at = loc
    BY DEF Op!Frame
  <2>2. QED
    BY <1>1, <1>7, <2>1
<1>9. \A loc : Op!Top(t).at # loc => Head(stack[t]) # Op!Frame(o, loc)
  BY DEF Op!Top, Op!Frame
<1>10. OptCalls(o, to)'
  BY <1>4, <1>6 DEF h
<1>11. new = <<Op!Frame("verbose", "get"), Op!Frame("show_errors", "maybe"), Op!Frame(o, to)>>
  BY DEF new, f, g, h
<1>12. /\ Op!Frame("verbose", "get") \in OptFrames /\ Op!Frame("show_errors", "maybe") \in OptFrames
       /\ Op!Frame(o, to) \in OptFrames
  BY <1>1 DEF f, g, h
<1>13. QED
  <2>1. OptAskedFor(t, o, to, new)
    BY <1>1, <1>3, <1>4, <1>6, <1>7, <1>8, <1>9, <1>10, <1>11, <1>12 DEF OptAskedFor
  <2>2. QED
    BY <1>4, <2>1

LEMMA OptFindKeeps ==
  ASSUME Op!OptionsAssumption, OptionsInv, NEW t \in Threads, Op!Find(t), OptRaces PROVE OptionsInv'
<1>1. stack[t] # <<>> /\ Op!Top(t).at = "find"
  BY DEF Op!Find, Op!At
<1>2. PICK o \in Options : o = Op!Top(t).option
  BY <1>1, OptTopFacts
<1>3. UNCHANGED <<preloading, environment, value, init, asked, missed>>
  BY DEF Op!Find
<1>0. missed \subseteq missed' /\ (o \notin raced' \cup missed' => o \notin raced \cup missed)
  BY <1>3 DEF OptRaces
<1>4. environment \in [Options -> {"absent", "valid", "legacy", "bogus"}]
      /\ environment["verbose"] # "legacy" /\ environment["show_errors"] # "legacy"
  BY DEF Op!OptionsAssumption, OptionsInv, OptionsTyped
<1>5. OptCalls(o, "find")
  BY <1>1, <1>2, OptTopFacts
<1>6. OptFits(o) /\ (o \notin raced \cup missed => OptGoes(o) /\ asked[o].set = Op!Default)
  <2>1. OptFits(o) /\ (o \notin raced \cup missed => OptGoes(o))
    BY DEF OptionsInv
  <2>2. OptBusy(o)
    BY <1>5 DEF OptBusy, OptActs
  <2>3. QED
    BY <2>1, <2>2 DEF OptGoes, OptGiven
<1>7. Head(stack[t]).at \in OptAll => Head(stack[t]).option = o
  BY <1>1, <1>2 DEF Op!Top
<1>8. /\ Len(stack[t]) \in Nat \ {0} /\ (Len(stack[t]) > 1 => o \in OptWarned)
      /\ o = "verbose" => \A k \in 2 .. Len(stack[t]) : stack[t][k].at # "off"
  BY <1>1, <1>2, OptTopFacts DEF OptActs
<1>13. OptUp => OptUp'
  BY <1>3 DEF OptUp
<1>9. CASE Op!Becomes(t, <<Op!Frame(o, "missing")>> \o Op!Below(t))
  <2>2. stack' = [stack EXCEPT ![t] = <<Op!Frame(o, "missing")>> \o Tail(stack[t])]
    BY <1>9 DEF Op!Becomes, Op!Below
  <2>3. "missing" \in OptAts /\ "missing" \in OptActs
    BY DEF OptAts, OptActs
  <2>4. /\ \A loc : OptCalls(o, loc)' => OptCalls(o, loc) \/ loc = "missing"
        /\ \A loc : OptCalls(o, loc) /\ loc # "find" => OptCalls(o, loc)'
    <3>1. OptPut(t, o, "missing")
      BY <2>2 DEF OptPut
    <3>2. OptMoves(o, "find", o, "missing")
      BY <1>1, <1>2, <2>3, <3>1, OptCallsPut
    <3>3. QED
      BY <3>2 DEF OptMoves
  <2>5. OptionsTyped'
    BY <1>3, <2>2 DEF OptionsInv, OptionsTyped
  <2>6. OptFits(o)'
    BY <1>3, <1>6, <2>4 DEF OptFits
  <2>7. o \notin raced' \cup missed' => OptGoes(o)'
    BY <1>0, <1>3, <1>6, <2>4 DEF OptGoes, OptFound, OptMissing
  <2>8. /\ Op!Frame(o, "missing") \in OptFrames /\ Op!Frame(o, "missing").option = o
        /\ Op!Frame(o, "missing").at = "missing"
    BY <2>3, OptFrameIs
  <2>9. OptMayNest(<<Op!Frame(o, "missing")>>, stack[t], OptUp, OptUp')
    BY <1>8, <1>13, <2>3, <2>8, OptMayPut
  <2>10. /\ <<Op!Frame(o, "missing")>> \in Seq(OptFrames) /\ DOMAIN <<Op!Frame(o, "missing")>> = {1}
         /\ \A i \in {1} : <<Op!Frame(o, "missing")>>[i].option = o
    BY <2>8, OptOne
  <2>11. QED
    BY <1>0, <1>1, <1>3, <1>7, <2>2, <2>5, <2>6, <2>7, <2>9, <2>10, OptTopKeeps
<1>10. CASE /\ environment[o] \in {"valid", "bogus"}
            /\ Op!Becomes(t, <<Op!Frame(o, IF environment[o] = "valid" THEN "value" ELSE "bogus")>>
                            \o Op!Below(t))
  <2> DEFINE to0 == IF environment[o] = "valid" THEN "value" ELSE "bogus"
  <2>1. PICK to \in {"value", "bogus"} : to = to0
    OBVIOUS
  <2>2. stack' = [stack EXCEPT ![t] = <<Op!Frame(o, to)>> \o Tail(stack[t])]
    BY <1>10, <2>1 DEF Op!Becomes, Op!Below
  <2>3. to \in OptAts /\ to \in OptActs
    BY <2>1 DEF OptAts, OptActs
  <2>4. /\ \A loc : OptCalls(o, loc)' => OptCalls(o, loc) \/ loc = to
        /\ \A loc : OptCalls(o, loc) /\ loc # "find" => OptCalls(o, loc)'
    <3>1. OptPut(t, o, to)
      BY <2>2 DEF OptPut
    <3>2. OptMoves(o, "find", o, to)
      BY <1>1, <1>2, <2>3, <3>1, OptCallsPut
    <3>3. QED
      BY <3>2 DEF OptMoves
  <2>5. OptionsTyped'
    BY <1>3, <1>10, <2>2 DEF OptionsInv, OptionsTyped
  <2>6. OptFits(o)'
    BY <1>3, <1>6, <1>10, <2>1, <2>4 DEF OptFits
  <2>7. o \notin raced' \cup missed' => OptGoes(o)'
    BY <1>0, <1>3, <1>6, <1>10, <2>1, <2>4 DEF OptGoes, OptFound, OptMissing
  <2>8. Op!Frame(o, to) \in OptFrames /\ Op!Frame(o, to).option = o /\ Op!Frame(o, to).at = to
    BY <2>3, OptFrameIs
  <2>9. OptMayNest(<<Op!Frame(o, to)>>, stack[t], OptUp, OptUp')
    BY <1>8, <1>13, <2>3, <2>8, OptMayPut
  <2>10. <<Op!Frame(o, to)>> \in Seq(OptFrames) /\ DOMAIN <<Op!Frame(o, to)>> = {1}
         /\ \A i \in {1} : <<Op!Frame(o, to)>>[i].option = o
    BY <2>8, OptOne
  <2>11. QED
    BY <1>1, <1>0, <1>3, <1>7, <1>10, <2>2, <2>5, <2>6, <2>7, <2>9, <2>10, OptTopKeeps
<1>11. CASE /\ environment[o] = "legacy"
            /\ Op!Becomes(t, Op!Asks(<<Op!Frame(o, "value")>> \o Op!Below(t)))
  <2>1. o \notin OptWarned /\ Len(stack[t]) = 1
    <3>1. o \notin OptWarned
      BY <1>4, <1>11 DEF OptWarned
    <3>2. Len(stack[t]) \in Nat \ {0} /\ ~(Len(stack[t]) > 1)
      BY <1>8, <3>1
    <3>3. \A n \in Nat \ {0} : ~(n > 1) => n = 1
      OBVIOUS
    <3>4. QED
      BY <3>1, <3>2, <3>3
  <2>2. "value" \in OptAts
    BY DEF OptAts, OptActs
  <2>30. PICK new \in Seq(OptFrames) : OptAskedFor(t, o, "value", new)
    BY <1>1, <1>2, <1>11, <2>2, OptCallsAskFor
  <2>3. /\ new = <<Op!Frame("verbose", "get"), Op!Frame("show_errors", "maybe"), Op!Frame(o, "value")>>
        /\ stack' = [stack EXCEPT ![t] = new \o Tail(stack[t])]
        /\ Op!Frame("verbose", "get") \in OptFrames /\ Op!Frame("show_errors", "maybe") \in OptFrames
        /\ Op!Frame(o, "value") \in OptFrames
        /\ \A i \in DOMAIN new : new[i].at \in OptAll => new[i].option = o
        /\ \A loc \in OptAll : OptCalls(o, loc)' => OptCalls(o, loc) \/ loc = "value"
        /\ \A loc \in OptAll : OptCalls(o, loc) /\ Op!Top(t).at # loc => OptCalls(o, loc)'
    BY <2>30 DEF OptAskedFor
  <2>4. OptionsTyped'
    BY <1>3, <1>11, <2>3 DEF OptionsInv, OptionsTyped
  <2>5. OptFits(o)'
    BY <1>3, <1>6, <1>11, <2>3 DEF OptFits, OptAll, OptActs, OptSets
  <2>6. o \notin raced' \cup missed' => OptGoes(o)'
    BY <1>1, <1>0, <1>3, <1>6, <1>11, <2>3 DEF OptGoes, OptFound, OptAll, OptActs, OptSets
  <2>7. Op!Frame(o, "value").option = o /\ Op!Frame(o, "value").at = "value"
    BY DEF Op!Frame
  <2>8. OptMayNest(new, stack[t], OptUp, OptUp')
    BY <1>8, <1>13, <2>1, <2>3, <2>7, OptMayAskFor
  <2>9. QED
    BY <1>1, <1>0, <1>3, <1>7, <1>11, <2>3, <2>4, <2>5, <2>6, <2>8, OptTopKeeps
<1>12. QED
  BY <1>2, <1>4, <1>9, <1>10, <1>11 DEF Op!Find

LEMMA OptMissingKeeps ==
  ASSUME Op!OptionsAssumption, OptionsInv, NEW t \in Threads, Op!Missing(t), OptRaces PROVE OptionsInv'
<1>1. stack[t] # <<>> /\ Op!Top(t).at = "missing"
  BY DEF Op!Missing, Op!At
<1>2. PICK o \in Options : o = Op!Top(t).option
  BY <1>1, OptTopFacts
<1>3. UNCHANGED <<preloading, environment, value, asked>>
  BY DEF Op!Missing
<1>4. /\ \/ init' = init /\ missed' = missed
         \/ /\ init' = [init EXCEPT ![o] = "DEFAULTED"]
            /\ missed' = IF environment[o] = "absent" THEN missed ELSE missed \cup {o}
      /\ stack' = [stack EXCEPT ![t] = Tail(stack[t])]
  BY <1>2 DEF Op!Missing, Op!Mark, Op!Becomes, Op!Below
<1>5. missed \subseteq missed' /\ (o \notin raced' \cup missed' => o \notin raced \cup missed)
  BY <1>4 DEF OptRaces
<1>6. OptFits(o) /\ (o \notin raced \cup missed => OptGoes(o) /\ asked[o].set = Op!Default)
  <2>1. OptFits(o) /\ (o \notin raced \cup missed => OptGoes(o))
    BY DEF OptionsInv
  <2>2. OptBusy(o)
    BY <1>1, <1>2, OptTopFacts DEF OptBusy, OptActs
  <2>3. QED
    BY <2>1, <2>2 DEF OptGoes, OptGiven
<1>7. Head(stack[t]).at \in OptAll => Head(stack[t]).option = o
  BY <1>1, <1>2 DEF Op!Top
<1>8. /\ stack' = [stack EXCEPT ![t] = <<>> \o Tail(stack[t])]
      /\ \A loc : OptCalls(o, loc)' => OptCalls(o, loc)
      /\ \A loc : OptCalls(o, loc) /\ loc # "missing" => OptCalls(o, loc)'
  BY <1>1, <1>2, <1>4, OptCallsPop
<1>9. OptionsTyped'
  BY <1>3, <1>4 DEF OptionsInv, OptionsTyped
<1>10. /\ \A p \in Options \ {o} : init'[p] = init[p]
       /\ \/ init'[o] = init[o]
          \/ init'[o] = "DEFAULTED" /\ (environment[o] = "absent" \/ o \in missed')
  BY <1>4 DEF OptionsInv, OptionsTyped
<1>11. OptUp => OptUp'
  BY <1>4, <1>10 DEF OptUp, OptionsInv, OptionsTyped, Op!OptionsAssumption
<1>12. OptFits(o)'
  BY <1>3, <1>6, <1>8 DEF OptFits
<1>13. o \notin raced' \cup missed' => OptGoes(o)'
  BY <1>3, <1>5, <1>6, <1>8, <1>10 DEF OptGoes, OptFound, OptMissing
<1>14. OptMayNest(<<>>, stack[t], OptUp, OptUp')
  BY <1>11, OptMayPop
<1>15. QED
  BY <1>1, <1>3, <1>5, <1>7, <1>8, <1>9, <1>10, <1>12, <1>13, <1>14, OptNone, OptTopKeeps

LEMMA OptSetFoundKeeps ==
  ASSUME Op!OptionsAssumption, OptionsInv, NEW t \in Threads, Op!SetFound(t), OptRaces PROVE OptionsInv'
<1>1. stack[t] # <<>> /\ Op!Top(t).at = "value"
  BY DEF Op!SetFound, Op!At
<1>2. PICK o \in Options : o = Op!Top(t).option
  BY <1>1, OptTopFacts
<1>3. UNCHANGED <<preloading, environment, init, asked, missed>>
  BY DEF Op!SetFound
<1>0. missed \subseteq missed' /\ (o \notin raced' \cup missed' => o \notin raced \cup missed)
  BY <1>3 DEF OptRaces
<1>4. OptCalls(o, "value")
  BY <1>1, <1>2, OptTopFacts
<1>5. OptFits(o) /\ (o \notin raced \cup missed => OptGoes(o) /\ asked[o].set = Op!Default)
  <2>1. OptFits(o) /\ (o \notin raced \cup missed => OptGoes(o))
    BY DEF OptionsInv
  <2>2. OptBusy(o)
    BY <1>4 DEF OptBusy, OptActs
  <2>3. QED
    BY <2>1, <2>2 DEF OptGoes, OptGiven
<1>6. environment[o] \in {"valid", "legacy"}
  BY <1>4, <1>5 DEF OptFits
<1>7. /\ value' = [value EXCEPT ![o] = Op!InEnvironment]
      /\ stack' = [stack EXCEPT ![t] = <<Op!Frame(o, "mark")>> \o Tail(stack[t])]
  BY <1>2 DEF Op!SetFound, Op!Write, Op!Becomes, Op!Below
<1>8. value'[o] = Op!InEnvironment /\ \A p \in Options \ {o} : value'[p] = value[p]
  BY <1>7 DEF OptionsInv, OptionsTyped
<1>9. OptionsTyped'
  BY <1>3, <1>7 DEF OptionsInv, OptionsTyped, Op!InEnvironment
<1>10. "mark" \in OptAts
  BY DEF OptAts, OptActs
<1>11. /\ \A loc : OptCalls(o, loc)' => OptCalls(o, loc) \/ loc = "mark"
       /\ \A loc : OptCalls(o, loc) /\ loc # "value" => OptCalls(o, loc)'
       /\ OptCalls(o, "mark")'
  <2>1. OptPut(t, o, "mark")
    BY <1>7 DEF OptPut
  <2>2. OptMoves(o, "value", o, "mark")
    BY <1>1, <1>2, <1>10, <2>1, OptCallsPut
  <2>3. QED
    BY <2>2 DEF OptMoves
<1>12. OptFits(o)'
  BY <1>3, <1>5, <1>6, <1>11 DEF OptFits
<1>13. o \notin raced' \cup missed' => OptGoes(o)'
  BY <1>0, <1>3, <1>5, <1>6, <1>8, <1>11 DEF OptGoes, OptFound
<1>14. Op!Frame(o, "mark") \in OptFrames /\ Op!Frame(o, "mark").option = o /\ Op!Frame(o, "mark").at = "mark"
  BY <1>10, OptFrameIs
<1>15. OptMayNest(<<Op!Frame(o, "mark")>>, stack[t], OptUp, OptUp')
  <2>1. OptUp => OptUp'
    BY <1>3 DEF OptUp
  <2>2. /\ Len(stack[t]) > 1 => o \in OptWarned
        /\ o = "verbose" => \A k \in 2 .. Len(stack[t]) : stack[t][k].at # "off"
    BY <1>1, <1>2, OptTopFacts DEF OptActs
  <2>3. "mark" \in OptActs
    BY DEF OptActs
  <2>4. QED
    BY <1>14, <2>1, <2>2, <2>3, OptMayPut
<1>16. <<Op!Frame(o, "mark")>> \in Seq(OptFrames) /\ DOMAIN <<Op!Frame(o, "mark")>> = {1}
       /\ \A i \in {1} : <<Op!Frame(o, "mark")>>[i].option = o
  BY <1>14, OptOne
<1>17. Head(stack[t]).at \in OptAll => Head(stack[t]).option = o
  BY <1>1, <1>2 DEF Op!Top
<1>18. QED
  BY <1>1, <1>0, <1>3, <1>7, <1>8, <1>9, <1>12, <1>13, <1>15, <1>16, <1>17, OptTopKeeps

LEMMA OptMarkFoundKeeps ==
  ASSUME Op!OptionsAssumption, OptionsInv, NEW t \in Threads, Op!MarkFound(t), OptRaces PROVE OptionsInv'
<1>1. stack[t] # <<>> /\ Op!Top(t).at = "mark"
  BY DEF Op!MarkFound, Op!At
<1>2. PICK o \in Options : o = Op!Top(t).option
  BY <1>1, OptTopFacts
<1>3. UNCHANGED <<preloading, environment, value, asked, missed>>
  BY DEF Op!MarkFound
<1>0. missed \subseteq missed' /\ (o \notin raced' \cup missed' => o \notin raced \cup missed)
  BY <1>3 DEF OptRaces
<1>4. OptCalls(o, "mark")
  BY <1>1, <1>2, OptTopFacts
<1>5. OptFits(o) /\ (o \notin raced \cup missed => OptGoes(o) /\ asked[o].set = Op!Default)
  <2>1. OptFits(o) /\ (o \notin raced \cup missed => OptGoes(o))
    BY DEF OptionsInv
  <2>2. OptBusy(o)
    BY <1>4 DEF OptBusy, OptActs
  <2>3. QED
    BY <2>1, <2>2 DEF OptGoes, OptGiven
<1>6. environment[o] \in {"valid", "legacy"}
  BY <1>4, <1>5 DEF OptFits
<1>7. /\ init' = [init EXCEPT ![o] = "INITIALIZED"]
      /\ stack' = [stack EXCEPT ![t] = Tail(stack[t])]
  BY <1>2 DEF Op!MarkFound, Op!Mark, Op!Becomes, Op!Below
<1>8. init'[o] = "INITIALIZED" /\ \A p \in Options \ {o} : init'[p] = init[p]
  BY <1>7 DEF OptionsInv, OptionsTyped
<1>9. OptionsTyped'
  BY <1>3, <1>7 DEF OptionsInv, OptionsTyped
<1>10. /\ stack' = [stack EXCEPT ![t] = <<>> \o Tail(stack[t])]
       /\ \A loc : OptCalls(o, loc)' => OptCalls(o, loc)
       /\ \A loc : OptCalls(o, loc) /\ loc # "mark" => OptCalls(o, loc)'
  BY <1>1, <1>2, <1>7, OptCallsPop
<1>11. OptFits(o)'
  BY <1>3, <1>5, <1>10 DEF OptFits
<1>12. o \notin raced' \cup missed' => OptGoes(o)'
  <2>1. o \notin raced => ~OptCalls(o, "store")
    BY <1>1, <1>2, OptAlone DEF OptActs, OptSets
  <2>2. QED
    BY <1>0, <1>3, <1>4, <1>5, <1>6, <1>8, <1>10, <2>1 DEF OptGoes, OptFound
<1>13. OptUp => OptUp'
  BY <1>8 DEF OptUp, Op!OptionsAssumption
<1>14. OptMayNest(<<>>, stack[t], OptUp, OptUp')
  BY <1>13, OptMayPop
<1>15. Head(stack[t]).at \in OptAll => Head(stack[t]).option = o
  BY <1>1, <1>2 DEF Op!Top
<1>16. QED
  BY <1>1, <1>0, <1>3, <1>8, <1>9, <1>10, <1>11, <1>12, <1>14, <1>15, OptNone, OptTopKeeps

LEMMA OptBogusKeeps ==
  ASSUME Op!OptionsAssumption, OptionsInv, NEW t \in Threads, Op!Bogus(t), OptRaces PROVE OptionsInv'
<1>1. stack[t] # <<>> /\ Op!Top(t).at = "bogus"
  BY DEF Op!Bogus, Op!At
<1>2. PICK o \in Options : o = Op!Top(t).option
  BY <1>1, OptTopFacts
<1>3. UNCHANGED <<preloading, environment, asked, missed>>
  BY DEF Op!Bogus
<1>0. missed \subseteq missed' /\ (o \notin raced' \cup missed' => o \notin raced \cup missed)
  BY <1>3 DEF OptRaces
<1>4. OptCalls(o, "bogus")
  BY <1>1, <1>2, OptTopFacts
<1>5. OptFits(o) /\ (o \notin raced \cup missed => OptGoes(o) /\ asked[o].set = Op!Default)
  <2>1. OptFits(o) /\ (o \notin raced \cup missed => OptGoes(o))
    BY DEF OptionsInv
  <2>2. OptBusy(o)
    BY <1>4 DEF OptBusy, OptActs
  <2>3. QED
    BY <2>1, <2>2 DEF OptGoes, OptGiven
<1>6. environment[o] = "bogus"
  BY <1>4, <1>5 DEF OptFits
<1>7. init' = [init EXCEPT ![o] = "DEFAULTED"]
  BY <1>2 DEF Op!Bogus, Op!Mark
<1>8. init'[o] = "DEFAULTED" /\ \A p \in Options \ {o} : init'[p] = init[p]
  BY <1>7 DEF OptionsInv, OptionsTyped
<1>9. (OptUp => OptUp') /\ (o = "verbose" => OptUp')
  BY <1>8 DEF OptUp, Op!OptionsAssumption
<1>10. Head(stack[t]).at \in OptAll => Head(stack[t]).option = o
  BY <1>1, <1>2 DEF Op!Top
<1>11. CASE o = "verbose" /\ value[o] = 0
  <2>1. /\ value' = [value EXCEPT ![o] = 1]
        /\ Op!Becomes(t, Op!Asks(<<Op!Frame(o, "off")>> \o Op!Below(t)))
    BY <1>2, <1>11 DEF Op!Bogus, Op!Write
  <2>2. value'[o] = 1 /\ \A p \in Options \ {o} : value'[p] = value[p]
    BY <2>1 DEF OptionsInv, OptionsTyped
  <2>3. "off" \in OptAts
    BY DEF OptAts
  <2>4. PICK new \in Seq(OptFrames) : OptAskedFor(t, o, "off", new)
    BY <1>1, <1>2, <2>1, <2>3, OptCallsAskFor
  <2>5. /\ new = <<Op!Frame("verbose", "get"), Op!Frame("show_errors", "maybe"), Op!Frame(o, "off")>>
        /\ stack' = [stack EXCEPT ![t] = new \o Tail(stack[t])]
        /\ Op!Frame("verbose", "get") \in OptFrames /\ Op!Frame("show_errors", "maybe") \in OptFrames
        /\ Op!Frame(o, "off") \in OptFrames
        /\ \A i \in DOMAIN new : new[i].at \in OptAll => new[i].option = o
        /\ \A loc \in OptAll : OptCalls(o, loc)' => OptCalls(o, loc) \/ loc = "off"
        /\ \A loc \in OptAll : OptCalls(o, loc) /\ Op!Top(t).at # loc => OptCalls(o, loc)'
        /\ OptCalls(o, "off")'
    BY <2>4 DEF OptAskedFor
  <2>6. OptionsTyped'
    BY <1>3, <1>7, <2>1, <2>5 DEF OptionsInv, OptionsTyped
  <2>7. OptFits(o)'
    BY <1>3, <1>5, <1>6, <1>11, <2>5 DEF OptFits, OptAll, OptActs, OptSets
  <2>8. o \notin raced' \cup missed' => OptGoes(o)'
    <3>1. o \notin raced \cup missed => asked[o].set = Op!Default /\ asked[o].default = Op!Default
      BY <1>5, <1>6, <1>11 DEF OptGoes, OptMissing, Op!Default
    <3>2. QED
      BY <1>0, <1>3, <1>6, <1>8, <2>2, <2>5, <3>1 DEF OptGoes, OptMissing
  <2>9. Op!Frame(o, "off").option = o /\ Op!Frame(o, "off").at = "off"
    BY DEF Op!Frame
  <2>10. OptMayNest(new, stack[t], OptUp, OptUp')
    <3>1. /\ Len(stack[t]) \in Nat \ {0}
          /\ \A k \in 2 .. Len(stack[t]) : stack[t][k].at # "off"
      BY <1>1, <1>2, <1>11, OptTopFacts DEF OptActs
    <3>2. QED
      BY <1>9, <1>11, <2>5, <2>9, <3>1, OptMayAskFor
  <2>11. QED
    BY <1>1, <1>0, <1>3, <1>8, <1>10, <2>2, <2>5, <2>6, <2>7, <2>8, <2>10, OptTopKeeps
<1>12. CASE ~(o = "verbose" /\ value[o] = 0)
  <2>1. value' = value /\ Op!Becomes(t, Op!Asks(Op!Below(t)))
    BY <1>2, <1>12 DEF Op!Bogus
  <2>2. PICK new \in Seq(OptFrames) :
          new = <<Op!Frame("verbose", "get"), Op!Frame("show_errors", "maybe")>>
    BY <1>1, <1>2, <2>1, OptCallsAsk
  <2>3. /\ stack' = [stack EXCEPT ![t] = new \o Tail(stack[t])]
        /\ Op!Frame("verbose", "get") \in OptFrames /\ Op!Frame("show_errors", "maybe") \in OptFrames
        /\ \A i \in DOMAIN new : new[i].at \notin OptAll
        /\ \A loc \in OptAll : OptCalls(o, loc)' => OptCalls(o, loc)
        /\ \A loc \in OptAll : OptCalls(o, loc) /\ Op!Top(t).at # loc => OptCalls(o, loc)'
    BY <1>1, <1>2, <2>1, <2>2, OptCallsAsk
  <2>4. OptionsTyped'
    BY <1>3, <1>7, <2>1, <2>3 DEF OptionsInv, OptionsTyped
  <2>5. OptFits(o)'
    BY <1>3, <1>5, <2>3 DEF OptFits, OptAll, OptActs, OptSets
  <2>6. o \notin raced' \cup missed' => OptGoes(o)'
    BY <1>1, <1>0, <1>3, <1>5, <1>6, <1>8, <2>1, <2>3 DEF OptGoes, OptMissing, OptAll, OptActs, OptSets
  <2>7. OptMayNest(new, stack[t], OptUp, OptUp')
    BY <1>9, <2>2, <2>3, OptMayAsk
  <2>8. QED
    BY <1>1, <1>0, <1>3, <1>8, <1>10, <2>1, <2>3, <2>4, <2>5, <2>6, <2>7, OptTopKeeps
<1>13. QED
  BY <1>11, <1>12

LEMMA OptTurnOffKeeps ==
  ASSUME Op!OptionsAssumption, OptionsInv, NEW t \in Threads, Op!TurnOff(t), OptRaces PROVE OptionsInv'
<1>1. stack[t] # <<>> /\ Op!Top(t).at = "off"
  BY DEF Op!TurnOff, Op!At
<1>2. PICK o \in Options : o = Op!Top(t).option
  BY <1>1, OptTopFacts
<1>3. UNCHANGED <<preloading, environment, init, asked, missed>>
  BY DEF Op!TurnOff
<1>0. missed \subseteq missed' /\ (o \notin raced' \cup missed' => o \notin raced \cup missed)
  BY <1>3 DEF OptRaces
<1>4. OptCalls(o, "off")
  BY <1>1, <1>2, OptTopFacts
<1>5. OptFits(o) /\ (o \notin raced \cup missed => OptGoes(o) /\ asked[o].set = Op!Default)
  <2>1. OptFits(o) /\ (o \notin raced \cup missed => OptGoes(o))
    BY DEF OptionsInv
  <2>2. OptBusy(o)
    BY <1>4 DEF OptBusy
  <2>3. QED
    BY <2>1, <2>2 DEF OptGoes, OptGiven
<1>6. environment[o] = "bogus"
  BY <1>4, <1>5 DEF OptFits
<1>7. /\ value' = [value EXCEPT ![o] = 0]
      /\ stack' = [stack EXCEPT ![t] = Tail(stack[t])]
  BY <1>2 DEF Op!TurnOff, Op!Write, Op!Becomes, Op!Below
<1>8. value'[o] = 0 /\ \A p \in Options \ {o} : value'[p] = value[p]
  BY <1>7 DEF OptionsInv, OptionsTyped
<1>9. OptionsTyped'
  BY <1>3, <1>7 DEF OptionsInv, OptionsTyped
<1>10. /\ stack' = [stack EXCEPT ![t] = <<>> \o Tail(stack[t])]
       /\ \A loc : OptCalls(o, loc)' => OptCalls(o, loc)
  BY <1>1, <1>2, <1>7, OptCallsPop
<1>11. OptFits(o)'
  BY <1>3, <1>5, <1>10 DEF OptFits
<1>12. o \notin raced' \cup missed' => OptGoes(o)'
  BY <1>0, <1>3, <1>4, <1>5, <1>6, <1>8, <1>10 DEF OptGoes, OptMissing, Op!Default
<1>13. OptMayNest(<<>>, stack[t], OptUp, OptUp')
  BY <1>3, OptMayPop DEF OptUp
<1>14. Head(stack[t]).at \in OptAll => Head(stack[t]).option = o
  BY <1>1, <1>2 DEF Op!Top
<1>15. QED
  BY <1>1, <1>0, <1>3, <1>8, <1>9, <1>10, <1>11, <1>12, <1>13, <1>14, OptNone, OptTopKeeps

-----------------------------------------------------------------------------
\* The program calls.
OptPushes(t, o, loc) == stack[t] = <<>> /\ stack' = [stack EXCEPT ![t] = <<Op!Frame(o, loc)>>]

LEMMA OptPushed ==
  ASSUME Op!OptionsAssumption, OptionsInv, NEW t \in Threads, NEW o \in Options, NEW l \in {"get"} \cup OptSets,
         OptPushes(t, o, l), init' = init
  PROVE  /\ OptStacks'
         /\ \A p, loc : OptCalls(p, loc)' <=> OptCalls(p, loc) \/ (p = o /\ loc = l)
         /\ stack'[t] = <<Op!Frame(o, l)>> /\ \A u \in Threads \ {t} : stack'[u] = stack[u]
<1> DEFINE f == Op!Frame(o, l)
<1>0. l \in OptAts
  BY DEF OptAts
<1>1. f \in OptFrames /\ f.option = o /\ f.at = l
  BY <1>0, OptFrameIs
<1>2. stack[t] = <<>> /\ stack' = [stack EXCEPT ![t] = <<f>>]
  BY DEF OptPushes
<1> HIDE DEF f
<1>3. <<f>> \in Seq(OptFrames) /\ DOMAIN <<f>> = {1} /\ Len(<<f>>) = 1 /\ <<f>>[1] = f
  BY <1>1, OptOne
<1>4. stack'[t] = <<f>> /\ \A u \in Threads \ {t} : stack'[u] = stack[u]
  BY <1>2 DEF OptionsInv, OptionsTyped
<1>6. OptUp' <=> OptUp
  BY DEF OptUp
<1>7. OptNested(<<f>>, OptUp')
  BY <1>1, <1>3 DEF OptNested, OptWaiting, OptActs, OptSets
<1>8. OptStacks'
  <2>1. ASSUME NEW u \in Threads PROVE stack'[u] \in Seq(OptFrames) /\ OptNested(stack'[u], OptUp')
    <3>1. CASE u = t
      BY <1>3, <1>4, <1>7, <3>1
    <3>2. CASE u # t
      <4>1. stack[u] \in Seq(OptFrames) /\ OptNested(stack[u], OptUp)
        BY DEF OptionsInv, OptStacks
      <4>2. OptNested(stack[u], OptUp')
        BY <1>6, <4>1 DEF OptNested
      <4>3. QED
        BY <1>4, <3>2, <4>1, <4>2
    <3>3. QED
      BY <3>1, <3>2
  <2>2. QED
    BY <2>1 DEF OptStacks
<1>9. ASSUME NEW p, NEW loc PROVE OptCalls(p, loc)' <=> OptCalls(p, loc) \/ (p = o /\ loc = l)
  <2>1. f = Op!Frame(p, loc) <=> p = o /\ loc = l
    BY DEF Op!Frame, f
  <2>2. OptCalls(p, loc)' => OptCalls(p, loc) \/ (p = o /\ loc = l)
    <3> SUFFICES ASSUME OptCalls(p, loc)' PROVE OptCalls(p, loc) \/ (p = o /\ loc = l)
      OBVIOUS
    <3>1. PICK u \in Threads : \E i \in DOMAIN stack'[u] : stack'[u][i] = Op!Frame(p, loc)
      BY DEF OptCalls, Op!Frame
    <3>2. CASE u = t
      BY <1>3, <1>4, <2>1, <3>1, <3>2
    <3>3. CASE u # t
      BY <1>4, <3>1, <3>3 DEF OptCalls
    <3>4. QED
      BY <3>2, <3>3
  <2>3. OptCalls(p, loc) => OptCalls(p, loc)'
    <3> SUFFICES ASSUME OptCalls(p, loc) PROVE OptCalls(p, loc)'
      OBVIOUS
    <3>1. PICK u \in Threads : \E i \in DOMAIN stack[u] : stack[u][i] = Op!Frame(p, loc)
      BY DEF OptCalls
    <3>2. u # t
      BY <1>2, <3>1
    <3>3. \E i \in DOMAIN stack'[u] : stack'[u][i] = Op!Frame(p, loc)
      BY <1>4, <3>1, <3>2
    <3>4. QED
      BY <3>3 DEF OptCalls, Op!Frame
  <2>4. p = o /\ loc = l => OptCalls(p, loc)'
    <3>1. \E i \in DOMAIN stack'[t] : stack'[t][i] = f
      BY <1>3, <1>4
    <3>2. OptCalls(o, l)'
      BY <3>1 DEF OptCalls, Op!Frame, f
    <3>3. QED
      BY <3>2
  <2>5. QED
    BY <2>2, <2>3, <2>4
<1>10. QED
  BY <1>4, <1>8, <1>9 DEF f

LEMMA OptPushKeeps ==
  ASSUME Op!OptionsAssumption, OptionsInv, NEW t \in Threads, NEW o \in Options, NEW l \in {"get"} \cup OptSets,
         OptPushes(t, o, l), UNCHANGED <<environment, init, missed>>, OptRaces, OptionsTyped',
         \A p \in Options \ {o} : value'[p] = value[p] /\ asked'[p] = asked[p],
         OptFits(o)', o \notin raced' \cup missed => OptGoes(o)'
  PROVE  OptionsInv'
<1>1. /\ OptStacks'
      /\ \A p, loc : OptCalls(p, loc)' <=> OptCalls(p, loc) \/ (p = o /\ loc = l)
  BY OptPushed
<1>2. ASSUME NEW p \in Options PROVE OptFits(p)' /\ (p \notin raced' \cup missed' => OptGoes(p)')
  <2>1. CASE p = o
    BY <2>1
  <2>2. CASE p # o
    <3>1. \A loc \in OptAll : OptCalls(p, loc)' <=> OptCalls(p, loc)
      BY <1>1, <2>2
    <3>2. (OptFits(p) => OptFits(p)') /\ (OptGoes(p) => OptGoes(p)')
      BY <2>2, <3>1, OptOtherKeeps
    <3>3. p \notin raced' \cup missed' => p \notin raced \cup missed
      BY DEF OptRaces
    <3>4. QED
      BY <3>2, <3>3 DEF OptionsInv
  <2>3. QED
    BY <2>1, <2>2
<1>3. \A p \in Options \ raced' : ~Op!Contended(p)'
  BY DEF OptRaces
<1>4. QED
  BY <1>1, <1>2, <1>3 DEF OptionsInv

LEMMA OptGetKeeps ==
  ASSUME Op!OptionsAssumption, OptionsInv, NEW t \in Threads, NEW o \in Options, Op!Get(t, o), OptRaces
  PROVE  OptionsInv'
<1>1. OptPushes(t, o, "get") /\ UNCHANGED <<environment, value, init, asked, missed>>
  BY DEF Op!Get, Op!Becomes, OptPushes
<1>2. OptionsTyped'
  BY <1>1 DEF OptionsInv, OptionsTyped, OptPushes
<1>3. \A p, loc : OptCalls(p, loc)' <=> OptCalls(p, loc) \/ (p = o /\ loc = "get")
  BY <1>1, OptPushed
<1>4. \A loc \in OptAll : OptCalls(o, loc)' <=> OptCalls(o, loc)
  BY <1>3 DEF OptAll, OptActs, OptSets
<1>5. (OptFits(o) => OptFits(o)') /\ (OptGoes(o) => OptGoes(o)')
  BY <1>1, <1>4, OptOtherKeeps
<1>6. o \notin raced' \cup missed => o \notin raced \cup missed
  BY DEF OptRaces
<1>7. OptFits(o)' /\ (o \notin raced' \cup missed => OptGoes(o)')
  BY <1>5, <1>6 DEF OptionsInv
<1>8. QED
  BY <1>1, <1>2, <1>7, OptPushKeeps

LEMMA OptSetKeeps ==
  ASSUME Op!OptionsAssumption, OptionsInv, NEW t \in Threads, NEW o \in Options, Op!Set(t, o), OptRaces
  PROVE  OptionsInv'
<1>1. /\ OptPushes(t, o, "seal") /\ UNCHANGED <<environment, init, missed>>
      /\ value' = [value EXCEPT ![o] = Op!SetValue]
      /\ asked' = [asked EXCEPT ![o].set = Op!SetValue]
  BY DEF Op!Set, Op!Write, Op!Becomes, OptPushes
<1>2. /\ value'[o] = Op!SetValue /\ asked'[o].set = Op!SetValue
      /\ \A p \in Options \ {o} : value'[p] = value[p] /\ asked'[p] = asked[p]
  BY <1>1 DEF OptionsInv, OptionsTyped
<1>3. OptionsTyped'
  <2>1. value' \in [Options -> Nat]
    BY <1>1 DEF OptionsInv, OptionsTyped, Op!SetValue
  <2>2. asked' \in [Options -> [set : {Op!Default, Op!SetValue}, default : {Op!Default, Op!NewDefault}]]
    BY <1>1 DEF OptionsInv, OptionsTyped
  <2>3. QED
    BY <1>1, <2>1, <2>2 DEF OptionsInv, OptionsTyped, OptPushes
<1>4. /\ \A p, loc : OptCalls(p, loc)' <=> OptCalls(p, loc) \/ (p = o /\ loc = "seal")
      /\ stack'[t] = <<Op!Frame(o, "seal")>> /\ \A u \in Threads \ {t} : stack'[u] = stack[u]
  BY <1>1, OptPushed DEF OptSets
<1>5. OptFits(o)'
  BY <1>1, <1>2, <1>4 DEF OptionsInv, OptFits, Op!Default, Op!SetValue
<1>6. ASSUME o \notin raced', NEW loc \in OptActs \cup {"off"}, OptCalls(o, loc) PROVE FALSE
  <2>1. PICK u \in Threads : \E j \in DOMAIN stack[u] : stack[u][j] = Op!Frame(o, loc)
    BY <1>6 DEF OptCalls
  <2>2. u # t
    BY <1>1, <2>1 DEF OptPushes
  <2>3. Op!Frame(o, loc).option = o /\ Op!Frame(o, loc).at \notin {"get", "maybe", "seal", "store"}
    BY <1>6 DEF Op!Frame, OptActs
  <2>4. Op!Initializes(u, o)'
    BY <1>4, <2>1, <2>2, <2>3 DEF Op!Initializes
  <2>5. Op!Sets(t, o)'
    BY <1>4 DEF Op!Sets, Op!Top, Op!Frame
  <2>6. Op!Contended(o)'
    BY <2>2, <2>4, <2>5 DEF Op!Contended
  <2>7. QED
    BY <1>6, <2>6 DEF OptRaces
<1>7. ASSUME o \notin raced' \cup missed PROVE OptGoes(o)'
  <2>1. ~OptBusy(o)'
    BY <1>4, <1>6, <1>7 DEF OptBusy, OptActs
  <2>2. OptCalls(o, "seal")'
    BY <1>4
  <2>3. OptGiven(o)'
    BY <1>2, <2>1, <2>2 DEF OptGiven
  <2>4. OptCalls(o, "store")' => init'[o] # "INITIALIZED"
    <3>1. o \notin raced \cup missed
      BY <1>7 DEF OptRaces
    <3>2. OptGoes(o)
      BY <3>1 DEF OptionsInv
    <3>3. QED
      BY <1>1, <1>4, <3>2 DEF OptGoes
  <2>5. asked'[o].set # Op!Default
    BY <1>2 DEF Op!Default, Op!SetValue
  <2>6. QED
    BY <2>3, <2>4, <2>5 DEF OptGoes
<1>8. QED
  BY <1>1, <1>2, <1>3, <1>5, <1>7, OptPushKeeps DEF OptSets

LEMMA OptSealKeeps ==
  ASSUME Op!OptionsAssumption, OptionsInv, NEW t \in Threads, Op!Seal(t), OptRaces PROVE OptionsInv'
<1>1. stack[t] # <<>> /\ Op!Top(t).at = "seal"
  BY DEF Op!Seal, Op!At
<1>2. PICK o \in Options : o = Op!Top(t).option
  BY <1>1, OptTopFacts
<1>3. UNCHANGED <<environment, value, asked, missed>>
  BY DEF Op!Seal
<1>4. OptCalls(o, "seal") /\ OptFits(o)
  BY <1>1, <1>2, OptTopFacts DEF OptionsInv
<1>5. asked[o].set # Op!Default
  BY <1>4 DEF OptFits
<1>6. o \notin raced' \cup missed' => o \notin raced \cup missed
  BY <1>3 DEF OptRaces
<1>7. /\ init' = [init EXCEPT ![o] = "INITIALIZED"]
      /\ stack' = [stack EXCEPT ![t] = Tail(stack[t])]
  BY <1>2 DEF Op!Seal, Op!Mark, Op!Becomes, Op!Below
<1>8. init'[o] = "INITIALIZED" /\ \A p \in Options \ {o} : init'[p] = init[p]
  BY <1>7 DEF OptionsInv, OptionsTyped
<1>9. OptionsTyped'
  BY <1>3, <1>7 DEF OptionsInv, OptionsTyped
<1>10. /\ stack' = [stack EXCEPT ![t] = <<>> \o Tail(stack[t])]
       /\ \A loc : OptCalls(o, loc)' => OptCalls(o, loc)
  BY <1>1, <1>2, <1>7, OptCallsPop
<1>11. OptFits(o)'
  BY <1>3, <1>4, <1>10 DEF OptFits
<1>12. ASSUME o \notin raced' \cup missed' PROVE OptGoes(o)'
  <2>1. OptGoes(o) /\ o \in Options \ raced
    BY <1>6, <1>12 DEF OptionsInv
  <2>2. ~OptCalls(o, "store")
    BY <1>1, <1>2, <2>1, OptAlone DEF OptAll, OptSets
  <2>3. OptGiven(o)
    BY <1>5, <2>1 DEF OptGoes
  <2>4. ~OptBusy(o)'
    BY <1>10, <2>3 DEF OptGiven, OptBusy
  <2>5. OptGiven(o)'
    BY <1>3, <1>8, <2>3, <2>4 DEF OptGiven
  <2>6. QED
    BY <1>3, <1>5, <1>10, <2>2, <2>5 DEF OptGoes
<1>13. OptUp => OptUp'
  BY <1>8 DEF OptUp, Op!OptionsAssumption
<1>14. OptMayNest(<<>>, stack[t], OptUp, OptUp')
  BY <1>13, OptMayPop
<1>15. Head(stack[t]).at \in OptAll => Head(stack[t]).option = o
  BY <1>1, <1>2 DEF Op!Top
<1>16. QED
  BY <1>1, <1>3, <1>8, <1>9, <1>10, <1>11, <1>12, <1>14, <1>15, OptNone, OptTopKeeps

LEMMA OptSetDefaultKeeps ==
  ASSUME Op!OptionsAssumption, OptionsInv, NEW t \in Threads, NEW o \in Options, Op!SetDefault(t, o), OptRaces
  PROVE  OptionsInv'
<1>1. /\ OptPushes(t, o, "store") /\ UNCHANGED <<environment, value, init, asked, missed>>
      /\ init[o] # "INITIALIZED"
  BY DEF Op!SetDefault, Op!Becomes, OptPushes
<1>2. OptionsTyped'
  BY <1>1 DEF OptionsInv, OptionsTyped, OptPushes
<1>3. \A p, loc : OptCalls(p, loc)' <=> OptCalls(p, loc) \/ (p = o /\ loc = "store")
  BY <1>1, OptPushed DEF OptSets
<1>4. \A loc : loc # "store" => (OptCalls(o, loc)' <=> OptCalls(o, loc))
  BY <1>3
<1>5. OptFits(o)'
  BY <1>1, <1>4 DEF OptionsInv, OptFits
<1>6. ASSUME o \notin raced' \cup missed PROVE OptGoes(o)'
  <2>1. OptGoes(o)
    BY <1>6 DEF OptRaces, OptionsInv
  <2>2. OptBusy(o)' <=> OptBusy(o)
    BY <1>4 DEF OptBusy, OptActs
  <2>3. /\ OptGiven(o) => OptGiven(o)'
        /\ OptFound(o) => OptFound(o)'
        /\ OptMissing(o) => OptMissing(o)'
    BY <1>1, <1>4, <2>2 DEF OptGiven, OptFound, OptMissing
  <2>4. QED
    BY <1>1, <2>1, <2>3 DEF OptGoes
<1>7. QED
  BY <1>1, <1>2, <1>5, <1>6, OptPushKeeps DEF OptSets

LEMMA OptStoreKeeps ==
  ASSUME Op!OptionsAssumption, OptionsInv, NEW t \in Threads, Op!Store(t), OptRaces PROVE OptionsInv'
<1>1. stack[t] # <<>> /\ Op!Top(t).at = "store"
  BY DEF Op!Store, Op!At
<1>2. PICK o \in Options : o = Op!Top(t).option
  BY <1>1, OptTopFacts
<1>3. UNCHANGED <<environment, init, missed>>
  BY DEF Op!Store
<1>4. OptCalls(o, "store") /\ OptFits(o)
  BY <1>1, <1>2, OptTopFacts DEF OptionsInv
<1>5. /\ value' = [value EXCEPT ![o] = Op!NewDefault]
      /\ asked' = [asked EXCEPT ![o].default = Op!NewDefault]
      /\ stack' = [stack EXCEPT ![t] = Tail(stack[t])]
  BY <1>2 DEF Op!Store, Op!Write, Op!Becomes, Op!Below
<1>6. /\ value'[o] = Op!NewDefault
      /\ asked'[o].set = asked[o].set /\ asked'[o].default = Op!NewDefault
      /\ \A p \in Options \ {o} : value'[p] = value[p] /\ asked'[p] = asked[p]
  BY <1>5 DEF OptionsInv, OptionsTyped
<1>7. OptionsTyped'
  <2>1. value' \in [Options -> Nat]
    BY <1>5 DEF OptionsInv, OptionsTyped, Op!NewDefault
  <2>2. asked' \in [Options -> [set : {Op!Default, Op!SetValue}, default : {Op!Default, Op!NewDefault}]]
    BY <1>5 DEF OptionsInv, OptionsTyped
  <2>3. QED
    BY <1>3, <1>5, <2>1, <2>2 DEF OptionsInv, OptionsTyped
<1>8. /\ stack' = [stack EXCEPT ![t] = <<>> \o Tail(stack[t])]
      /\ \A loc : OptCalls(o, loc)' => OptCalls(o, loc)
  BY <1>1, <1>2, <1>5, OptCallsPop
<1>9. OptFits(o)'
  BY <1>3, <1>4, <1>6, <1>8 DEF OptFits
<1>10. ASSUME o \notin raced' \cup missed' PROVE OptGoes(o)'
  <2>1. OptGoes(o) /\ o \in Options \ raced
    BY <1>3, <1>10 DEF OptRaces, OptionsInv
  <2>2. ~OptCalls(o, "seal") /\ ~OptBusy(o)
    BY <1>1, <1>2, <2>1, OptAlone DEF OptAll, OptSets, OptActs, OptBusy
  <2>3. ~OptCalls(o, "mark") /\ ~OptCalls(o, "off")
    BY <2>2 DEF OptBusy, OptActs
  <2>4. init[o] # "INITIALIZED"
    BY <1>4, <2>1 DEF OptGoes
  <2>5. asked[o].set = Op!Default
    BY <2>1, <2>2, <2>4 DEF OptGoes, OptGiven
  <2>6. CASE environment[o] \in {"valid", "legacy"}
    BY <1>3, <1>6, <1>8, <2>1, <2>3, <2>4, <2>5, <2>6 DEF OptGoes, OptFound
  <2>7. CASE environment[o] \notin {"valid", "legacy"}
    BY <1>3, <1>6, <1>8, <2>1, <2>3, <2>4, <2>5, <2>7 DEF OptGoes, OptMissing
  <2>8. QED
    BY <2>6, <2>7
<1>11. OptMayNest(<<>>, stack[t], OptUp, OptUp')
  BY <1>3, OptMayPop DEF OptUp
<1>12. Head(stack[t]).at \in OptAll => Head(stack[t]).option = o
  BY <1>1, <1>2 DEF Op!Top
<1>13. QED
  BY <1>1, <1>3, <1>6, <1>7, <1>8, <1>9, <1>10, <1>11, <1>12, OptNone, OptTopKeeps

LEMMA OptInitializingBusy ==
  ASSUME OptionsInv, NEW o, ~Op!Initializing(o) PROVE ~OptBusy(o)
<1> SUFFICES ASSUME OptBusy(o) PROVE FALSE
  OBVIOUS
<1>1. PICK loc \in OptActs \cup {"off"} : OptCalls(o, loc)
  BY DEF OptBusy
<1>2. PICK t \in Threads : \E i \in DOMAIN stack[t] : stack[t][i] = Op!Frame(o, loc)
  BY <1>1 DEF OptCalls
<1>3. /\ Op!Frame(o, loc).option = o
      /\ Op!Frame(o, loc).at \notin {"get", "maybe", "seal", "store"}
  BY <1>1 DEF Op!Frame, OptActs
<1>4. QED
  BY <1>2, <1>3 DEF Op!Initializing, Op!Initializes

\* Nothing of the options changes, but for who has raced for them.
LEMMA OptLoadedKeeps ==
  ASSUME OptionsInv, UNCHANGED <<environment, value, init, stack, asked, missed>>, OptRaces \/ raced' = raced
  PROVE  OptionsInv'
<1>1. OptionsTyped'
  BY DEF OptionsInv, OptionsTyped
<1>2. \A p, loc : OptCalls(p, loc)' <=> OptCalls(p, loc)
  BY DEF OptCalls, Op!Frame
<1>3. OptStacks'
  <2>1. ASSUME NEW u \in Threads PROVE stack'[u] \in Seq(OptFrames) /\ OptNested(stack'[u], OptUp')
    <3>1. stack[u] \in Seq(OptFrames) /\ OptNested(stack[u], OptUp)
      BY DEF OptionsInv, OptStacks
    <3>2. OptUp' <=> OptUp
      BY DEF OptUp
    <3>3. OptNested(stack[u], OptUp')
      BY <3>1, <3>2 DEF OptNested
    <3>4. QED
      BY <3>1, <3>3
  <2>2. QED
    BY <2>1 DEF OptStacks
<1>6. raced \subseteq raced'
  BY DEF OptRaces
<1>4. ASSUME NEW p \in Options PROVE OptFits(p)' /\ (p \notin raced' \cup missed' => OptGoes(p)')
  <2>1. (OptFits(p) => OptFits(p)') /\ (OptGoes(p) => OptGoes(p)')
    BY <1>2, OptOtherKeeps
  <2>2. QED
    BY <1>6, <2>1 DEF OptionsInv
<1>7. \A p \in Options \ raced' : ~Op!Contended(p)'
  <2>1. CASE OptRaces
    BY <2>1 DEF OptRaces
  <2>2. CASE raced' = raced
    <3>1. \A p : Op!Contended(p)' <=> Op!Contended(p)
      BY DEF Op!Contended, Op!Sets, Op!Initializes, Op!Top, Op!Frame
    <3>2. QED
      BY <2>2, <3>1 DEF OptionsInv
  <2>3. QED
    BY <2>1, <2>2
<1>5. QED
  BY <1>1, <1>3, <1>4, <1>7 DEF OptionsInv

LEMMA OptionsInit == ASSUME Op!OptionsAssumption, Op!Init PROVE OptionsInv
<1>1. /\ environment \in Environments
      /\ value = [o \in Options |-> Op!Default] /\ init = [o \in Options |-> "UNINIT"]
      /\ stack = [t \in Threads |-> <<>>] /\ asked = [o \in Options |-> Op!Nothing]
  BY DEF Op!Init
<1>2. Op!Nothing \in [set : {Op!Default, Op!SetValue}, default : {Op!Default, Op!NewDefault}]
      /\ Op!Nothing.set = Op!Default /\ Op!Nothing.default = Op!Default
  BY DEF Op!Nothing
<1>3. OptionsTyped
  BY <1>1, <1>2 DEF OptionsTyped, Op!Default
<1>4. \A o, loc : ~OptCalls(o, loc)
  BY <1>1 DEF OptCalls
<1>5. \A t \in Threads : stack[t] = <<>>
  BY <1>1
<1>6. OptStacks
  <2>1. OptNested(<<>>, OptUp)
    BY OptNone DEF OptNested
  <2>2. QED
    BY <1>5, <2>1, OptNone DEF OptStacks
<1>7. \A o \in Options : OptFits(o)
  BY <1>4 DEF OptFits
<1>8. \A o \in Options : value[o] = Op!Default /\ init[o] = "UNINIT" /\ asked[o] = Op!Nothing
  BY <1>1
<1>9. \A o \in Options : OptGoes(o)
  BY <1>2, <1>4, <1>8 DEF OptGoes, OptFound, OptMissing
<1>11. \A o : ~Op!Contended(o)
  BY <1>5 DEF Op!Contended, Op!Sets
<1>10. QED
  BY <1>3, <1>6, <1>7, <1>9, <1>11 DEF OptionsInv

LEMMA OptionsKeep == ASSUME Op!OptionsAssumption, OptionsInv, Op!Next PROVE OptionsInv'
<1>0. Op!Steps /\ OptRaces
  BY DEF Op!Next, OptRaces
<1>1. CASE Op!Loaded
  BY <1>0, <1>1, OptLoadedKeeps DEF Op!Loaded
<1>2. ASSUME NEW t \in Threads, NEW o \in Options, Op!Get(t, o) \/ Op!Set(t, o) \/ Op!SetDefault(t, o)
      PROVE  OptionsInv'
  BY <1>0, <1>2, OptGetKeeps, OptSetKeeps, OptSetDefaultKeeps
<1>3. ASSUME NEW t \in Threads, Op!Test(t) \/ Op!Maybe(t) \/ Op!Find(t) \/ Op!Missing(t) \/ Op!SetFound(t)
      PROVE  OptionsInv'
  BY <1>0, <1>3, OptTestKeeps, OptMaybeKeeps, OptFindKeeps, OptMissingKeeps, OptSetFoundKeeps
<1>4. ASSUME NEW t \in Threads, Op!MarkFound(t) \/ Op!Bogus(t) \/ Op!TurnOff(t) \/ Op!Seal(t) \/ Op!Store(t)
      PROVE  OptionsInv'
  BY <1>0, <1>4, OptMarkFoundKeeps, OptBogusKeeps, OptTurnOffKeeps, OptSealKeeps, OptStoreKeeps
<1>5. QED
  BY <1>0, <1>1, <1>2, <1>3, <1>4 DEF Op!Steps

LEMMA OptionsTell == ASSUME Op!OptionsAssumption, OptionsInv PROVE Op!OptionsResolve
<1>1. ASSUME NEW o \in Options \ (raced \cup missed), init[o] # "UNINIT", ~Op!Initializing(o) PROVE value[o] = Op!Due(o)
  <2>1. ~OptBusy(o) /\ OptGoes(o)
    BY <1>1, OptInitializingBusy DEF OptionsInv
  <2>2. ~OptCalls(o, "mark") /\ ~OptCalls(o, "off")
    BY <2>1 DEF OptBusy, OptActs
  <2>3. asked[o].set \in {Op!Default, Op!SetValue}
    BY DEF OptionsInv, OptionsTyped
  <2>4. CASE asked[o].set # Op!Default
    BY <2>1, <2>3, <2>4 DEF OptGoes, OptGiven, Op!Due
  <2>5. CASE asked[o].set = Op!Default
    BY <1>1, <2>1, <2>2, <2>5 DEF OptGoes, OptFound, OptMissing, Op!Due
  <2>6. QED
    BY <2>4, <2>5
<1>2. ASSUME NEW t \in Threads, NEW i \in DOMAIN stack[t], NEW j \in DOMAIN stack[t],
             stack[t][i].option = stack[t][j].option,
             stack[t][i].at \notin {"get", "maybe"}, stack[t][j].at \notin {"get", "maybe"}, i < j
      PROVE  FALSE
  <2>1. stack[t] \in Seq(OptFrames) /\ OptNested(stack[t], OptUp)
    BY DEF OptionsInv, OptStacks
  <2>2. /\ Len(stack[t]) \in Nat /\ i \in 1 .. Len(stack[t]) /\ j \in 1 .. Len(stack[t])
        /\ stack[t][i] \in OptFrames /\ stack[t][j] \in OptFrames
    BY <2>1
  <2>3. j > 1 /\ i < Len(stack[t])
    BY <1>2, <2>2
  <2>4. OptWaiting(stack[t][j]) /\ stack[t][i].option \in OptWarned
    BY <2>1, <2>3 DEF OptNested
  <2>9. stack[t][i].at \notin OptSets
    BY <2>1, <2>2, <2>3, OptSetting
  <2>5. stack[t][j].at = "off"
    BY <1>2, <2>4 DEF OptWaiting
  <2>6. stack[t][j].option = "verbose" /\ stack[t][i].at # "off"
        /\ ~(stack[t][i].at \in OptActs /\ stack[t][i].option = "verbose")
    <3>1. i # j
      BY <1>2, <2>2
    <3>2. QED
      BY <2>1, <2>5, <3>1 DEF OptNested
  <2>7. stack[t][i].at \in OptAts
    BY <2>2 DEF OptFrames
  <2>8. QED
    BY <1>2, <2>6, <2>7, <2>9 DEF OptAts
<1>3. \A t \in Threads : \A i, j \in DOMAIN stack[t] : i \in Nat /\ j \in Nat
  <2>1. \A t \in Threads : stack[t] \in Seq(OptFrames)
    BY DEF OptionsInv, OptStacks
  <2>2. QED
    BY <2>1
<1>4. QED
  <2> SUFFICES ASSUME NEW t \in Threads, NEW i \in DOMAIN stack[t], NEW j \in DOMAIN stack[t],
                      stack[t][i].option = stack[t][j].option,
                      stack[t][i].at # "maybe", stack[t][j].at # "maybe", i # j,
                      stack[t][i].at # "get", stack[t][j].at # "get"
               PROVE  FALSE
    BY <1>1 DEF Op!OptionsResolve
  <2>1. i < j \/ j < i
    BY <1>3
  <2>2. CASE i < j
    BY <1>2, <2>2
  <2>3. CASE j < i
    BY <1>2, <2>3
  <2>4. QED
    BY <2>1, <2>2, <2>3

LEMMA OptionsSame == ASSUME OptionsInv, UNCHANGED Op!vars PROVE OptionsInv'
  BY OptLoadedKeeps DEF Op!vars

-----------------------------------------------------------------------------
(* The process and its threads.                                            *)

ProCallNames ==
  {"heap_main_init", "heap_main_keys", "loaded", "auto_thread_done", "auto_done", "use_main",
   "process_init", "os_init", "heap_init", "ready", "count"}

ProcessTyped ==
  /\ process_init \in BOOLEAN /\ tls_initialized \in BOOLEAN /\ key \in BOOLEAN
  /\ ready \in BOOLEAN /\ met \in BOOLEAN
  /\ heap_default \in [Starters -> {"empty", "main", "own"}]
  /\ heap_value \in [Starters -> {"none", "empty", "main", "own"}]
  /\ calls \in [Starters -> Seq(ProCallNames)]
  /\ rounds \in [Starters -> Nat]
  /\ count \in Int /\ refused \in Nat
  /\ \A t \in gone : t \in Starters /\ calls[t] = <<>>

\* The operating system layer is initialized once, or is about to be.
ProOsAt(t, i) == i \in DOMAIN calls[t] /\ calls[t][i] = "os_init"
ProOsOnce ==
  /\ \A t, u \in Starters : \A i, j \in Nat : ProOsAt(t, i) /\ ProOsAt(u, j) => t = u /\ i = j
  /\ \A t \in Starters : \A i \in Nat : ProOsAt(t, i) => process_init /\ os_inits = 0
  /\ os_inits \in {0, 1} /\ (os_inits = 1 => process_init)

ProNoMain == thread_id = NoArea /\ cookie = "none"
ProHalfMain(t) == thread_id = t /\ cookie = "one"
ProMain(t) == thread_id = t /\ cookie = "random"
ProNoKey == ~tls_initialized /\ ~key
ProKey == tls_initialized /\ key
ProNoHeap(t) == heap_default[t] = "empty" /\ heap_value[t] = "none"
ProHeap(t) == heap_default[t] = "main" /\ heap_value[t] = "main"

\* Where the thread t is that starts the process up, by the next of its calls:
\* the loader's thread, or one that allocates before.
ProAtHeapMainInit(t, q) ==
  \/ q = <<"heap_main_init", "loaded", "auto_thread_done", "process_init">>
     /\ ~process_init /\ ProNoMain /\ ProNoKey /\ ProNoHeap(t)
  \/ q = <<"heap_main_init", "heap_init", "ready">>
     /\ process_init /\ ProMain(t) /\ ProKey /\ ProHeap(t)
  \/ q = <<"heap_main_init", "heap_init", "ready", "heap_init">>
     /\ process_init /\ ProNoMain /\ ProKey /\ ProHeap(t)
ProAtHeapMainKeys(t, q) ==
  \/ q = <<"heap_main_keys", "loaded", "auto_thread_done", "process_init">>
     /\ ~process_init /\ ProHalfMain(t) /\ ProNoKey /\ ProNoHeap(t)
  \/ q = <<"heap_main_keys", "heap_init", "ready", "heap_init">>
     /\ process_init /\ ProHalfMain(t) /\ ProKey /\ ProHeap(t)
ProAtLoaded(t, q) ==
  q = <<"loaded", "auto_thread_done", "process_init">>
  /\ ~process_init /\ ProMain(t) /\ ProNoKey /\ ProNoHeap(t)
ProAtAutoThreadDone(t, q) ==
  \/ q = <<"auto_thread_done", "process_init">>
     /\ ~process_init /\ ProMain(t) /\ ProNoKey /\ ProNoHeap(t)
  \/ q = <<"auto_thread_done", "os_init", "heap_main_init", "heap_init", "ready">>
     /\ process_init /\ ProMain(t) /\ ProKey /\ ProHeap(t)
  \/ q = <<"auto_thread_done", "os_init", "heap_main_init", "heap_init", "ready", "heap_init">>
     /\ process_init /\ ProNoMain /\ ProNoKey /\ ProNoHeap(t)
ProAtAutoDone(t, q) ==
  \/ q = <<"auto_done", "use_main", "process_init">>
     /\ ~process_init /\ ProMain(t) /\ ProNoKey /\ ProNoHeap(t)
  \/ q = <<"auto_done", "use_main", "os_init", "heap_main_init", "heap_init", "ready", "heap_init">>
     /\ process_init /\ ProNoMain /\ ProNoKey /\ ProNoHeap(t)
ProAtUseMain(t, q) ==
  \/ q = <<"use_main", "process_init">>
     /\ ~process_init /\ ProMain(t) /\ ProKey /\ ProNoHeap(t)
  \/ q = <<"use_main", "os_init", "heap_main_init", "heap_init", "ready", "heap_init">>
     /\ process_init /\ ProNoMain /\ ProKey /\ ProNoHeap(t)
ProAtProcessInit(t, q) ==
  \/ q = <<"process_init">> /\ ~process_init /\ ProMain(t) /\ ProKey /\ ProHeap(t)
  \/ q = <<"process_init", "heap_init">> /\ ~process_init /\ ProNoMain /\ ProNoKey /\ ProNoHeap(t)
ProAtOsInit(t, q) ==
  \/ q = <<"os_init", "heap_main_init", "heap_init", "ready">>
     /\ process_init /\ ProMain(t) /\ ProKey /\ ProHeap(t)
  \/ q = <<"os_init", "heap_main_init", "heap_init", "ready", "heap_init">>
     /\ process_init /\ ProNoMain /\ ProKey /\ ProHeap(t)
ProAtHeapInit(t, q) ==
  /\ q \in {<<"heap_init", "ready">>, <<"heap_init", "ready", "heap_init">>}
  /\ process_init /\ ProMain(t) /\ ProKey /\ ProHeap(t)
ProAtReady(t, q) ==
  /\ q \in {<<"ready">>, <<"ready", "heap_init">>}
  /\ process_init /\ ProMain(t) /\ ProKey /\ ProHeap(t)

ProStartsUp(t, q) ==
  \/ ProAtHeapMainInit(t, q) \/ ProAtHeapMainKeys(t, q) \/ ProAtLoaded(t, q) \/ ProAtAutoThreadDone(t, q)
  \/ ProAtAutoDone(t, q) \/ ProAtUseMain(t, q) \/ ProAtProcessInit(t, q) \/ ProAtOsInit(t, q)
  \/ ProAtHeapInit(t, q) \/ ProAtReady(t, q)

ProUnready == ~ready /\ count = 1 /\ refused = 0 /\ \A t \in Starters : rounds[t] = 0

ProFresh ==
  /\ ProUnready /\ ~process_init /\ ProNoMain /\ ProNoKey
  /\ \A t \in Starters : calls[t] = <<>> /\ ProNoHeap(t)

ProStarting(t) ==
  /\ ProUnready /\ t \in Starters /\ ProStartsUp(t, calls[t])
  /\ \A u \in Starters \ {t} : calls[u] = <<>> /\ ProNoHeap(u)

\* When the process is up.
ProOwn == {t \in Starters : heap_default[t] = "own"}
ProCounting == {t \in Starters : calls[t] = <<"count">>}

ProRunningTodos ==
  {<<>>, <<"heap_main_init", "loaded", "auto_thread_done", "process_init">>,
   <<"loaded", "auto_thread_done", "process_init">>, <<"auto_thread_done", "process_init">>,
   <<"process_init">>, <<"process_init", "heap_init">>, <<"heap_init">>, <<"count">>}

ProOwnHeap(t) ==
  /\ \/ heap_default[t] = "own" /\ heap_value[t] = "own"
     \/ heap_default[t] = "empty" /\ heap_value[t] \in {"none", "empty"}
  /\ calls[t] \in {<<"process_init", "heap_init">>, <<"heap_init">>} => heap_default[t] = "empty"

ProCounted == count + Cardinality(ProCounting) = 1 + refused + Cardinality(ProOwn)

ProRunning ==
  /\ ready /\ process_init /\ ProKey
  /\ thread_id \in Starters /\ cookie = "random" /\ ProHeap(thread_id)
  /\ \A t \in Starters : calls[t] \in ProRunningTodos
  /\ \A t \in Starters \ {thread_id} : ProOwnHeap(t)
  /\ \A t \in gone : heap_default[t] = "own" => rounds[t] = Iterations
  /\ rounds[thread_id] = 0 => ProCounted

ProcessInv ==
  /\ ProcessTyped /\ ProOsOnce
  /\ ~met => ProFresh \/ ProRunning \/ \E t \in Starters : ProStarting(t)

-----------------------------------------------------------------------------
(* The calls that a thread has yet to make. *)

LEMMA ProNewAndRest ==
  ASSUME NEW s \in Seq(ProCallNames), s # <<>>, NEW new \in Seq(ProCallNames), NEW s2, s2 = new \o Tail(s)
  PROVE  /\ s2 \in Seq(ProCallNames) /\ Len(s) \in Nat \ {0} /\ Len(new) \in Nat
         /\ DOMAIN s2 = 1 .. Len(s2) /\ DOMAIN s = 1 .. Len(s) /\ DOMAIN new = 1 .. Len(new)
         /\ Len(s2) = Len(new) + Len(s) - 1
         /\ \A i \in 1 .. Len(new) : s2[i] = new[i]
         /\ \A i \in Len(new) + 1 .. Len(s2) :
              s2[i] = s[i - Len(new) + 1] /\ i - Len(new) + 1 \in 2 .. Len(s)
<1>1. Len(s) \in Nat \ {0} /\ Len(new) \in Nat
  BY EmptySeq, LenProperties
<1>2. Tail(s) \in Seq(ProCallNames) /\ Len(Tail(s)) = Len(s) - 1
      /\ \A i \in 1 .. Len(s) - 1 : Tail(s)[i] = s[i + 1]
  BY HeadTailProperties
<1>3. /\ s2 \in Seq(ProCallNames) /\ Len(s2) = Len(new) + Len(Tail(s))
      /\ \A i \in 1 .. Len(new) + Len(Tail(s)) :
           s2[i] = IF i <= Len(new) THEN new[i] ELSE Tail(s)[i - Len(new)]
  BY <1>2, ConcatProperties
<1>4. \A i \in 1 .. Len(new) : s2[i] = new[i]
  BY <1>1, <1>2, <1>3
<1>5. ASSUME NEW i \in Len(new) + 1 .. Len(s2)
      PROVE  s2[i] = s[i - Len(new) + 1] /\ i - Len(new) + 1 \in 2 .. Len(s)
  <2>1. s2[i] = Tail(s)[i - Len(new)] /\ i - Len(new) \in 1 .. Len(s) - 1
    BY <1>1, <1>2, <1>3
  <2>2. Tail(s)[i - Len(new)] = s[i - Len(new) + 1]
    BY <2>1, <1>2
  <2>3. QED
    BY <2>1, <2>2, <1>1
<1>6. QED
  BY <1>1, <1>2, <1>3, <1>4, <1>5, LenProperties

LEMMA ProOneAndThree ==
  ASSUME NEW a \in ProCallNames, NEW b \in ProCallNames, NEW c \in ProCallNames, NEW d \in ProCallNames
  PROVE  <<a>> \o <<b, c, d>> = <<a, b, c, d>>
<1> DEFINE x == <<a>>  y == <<b, c, d>>  z == <<a, b, c, d>>
<1>1. x \in Seq(ProCallNames) /\ y \in Seq(ProCallNames) /\ z \in Seq(ProCallNames)
      /\ Len(x) = 1 /\ Len(y) = 3 /\ Len(z) = 4 /\ x[1] = a /\ y[1] = b /\ y[2] = c /\ y[3] = d
      /\ z[1] = a /\ z[2] = b /\ z[3] = c /\ z[4] = d
  OBVIOUS
<1> HIDE DEF x, y, z
<1>2. /\ x \o y \in Seq(ProCallNames) /\ Len(x \o y) = Len(x) + Len(y)
      /\ \A i \in 1 .. Len(x) + Len(y) : (x \o y)[i] = IF i <= Len(x) THEN x[i] ELSE y[i - Len(x)]
  BY <1>1, ConcatProperties
<1>3. Len(x \o y) = 4 /\ \A i \in 1 .. 4 : (x \o y)[i] = z[i]
  BY <1>1, <1>2
<1>4. x \o y = z
  BY <1>1, <1>2, <1>3, SeqEqual
<1>5. QED
  BY <1>4 DEF x, y, z

LEMMA ProTwoAndOne ==
  ASSUME NEW a \in ProCallNames, NEW b \in ProCallNames, NEW c \in ProCallNames
  PROVE  <<a, b>> \o <<c>> = <<a, b, c>>
<1> DEFINE x == <<a, b>>  y == <<c>>  z == <<a, b, c>>
<1>1. x \in Seq(ProCallNames) /\ y \in Seq(ProCallNames) /\ z \in Seq(ProCallNames)
      /\ Len(x) = 2 /\ Len(y) = 1 /\ Len(z) = 3 /\ x[1] = a /\ x[2] = b /\ y[1] = c
      /\ z[1] = a /\ z[2] = b /\ z[3] = c
  OBVIOUS
<1> HIDE DEF x, y, z
<1>2. /\ x \o y \in Seq(ProCallNames) /\ Len(x \o y) = Len(x) + Len(y)
      /\ \A i \in 1 .. Len(x) + Len(y) : (x \o y)[i] = IF i <= Len(x) THEN x[i] ELSE y[i - Len(x)]
  BY <1>1, ConcatProperties
<1>3. Len(x \o y) = 3 /\ \A i \in 1 .. 3 : (x \o y)[i] = z[i]
  BY <1>1, <1>2
<1>4. x \o y = z
  BY <1>1, <1>2, <1>3, SeqEqual
<1>5. QED
  BY <1>4 DEF x, y, z

LEMMA ProTwoAndFive ==
  ASSUME NEW a \in ProCallNames, NEW b \in ProCallNames, NEW c \in ProCallNames, NEW d \in ProCallNames,
         NEW e \in ProCallNames, NEW f \in ProCallNames, NEW g \in ProCallNames
  PROVE  <<a, b>> \o <<c, d, e, f, g>> = <<a, b, c, d, e, f, g>>
<1> DEFINE x == <<a, b>>  y == <<c, d, e, f, g>>  z == <<a, b, c, d, e, f, g>>
<1>1. x \in Seq(ProCallNames) /\ y \in Seq(ProCallNames) /\ z \in Seq(ProCallNames)
      /\ Len(x) = 2 /\ Len(y) = 5 /\ Len(z) = 7 /\ x[1] = a /\ x[2] = b
      /\ y[1] = c /\ y[2] = d /\ y[3] = e /\ y[4] = f /\ y[5] = g
      /\ z[1] = a /\ z[2] = b /\ z[3] = c /\ z[4] = d /\ z[5] = e /\ z[6] = f /\ z[7] = g
  OBVIOUS
<1> HIDE DEF x, y, z
<1>2. /\ x \o y \in Seq(ProCallNames) /\ Len(x \o y) = Len(x) + Len(y)
      /\ \A i \in 1 .. Len(x) + Len(y) : (x \o y)[i] = IF i <= Len(x) THEN x[i] ELSE y[i - Len(x)]
  BY <1>1, ConcatProperties
<1>3. Len(x \o y) = 7 /\ \A i \in 1 .. 7 : (x \o y)[i] = z[i]
  <2>0. Len(x) = 2 /\ Len(y) = 5
    BY <1>1
  <2>1. Len(x \o y) = 7 /\ \A i \in 1 .. 7 : (x \o y)[i] = IF i <= 2 THEN x[i] ELSE y[i - 2]
    BY <1>2, <2>0
  <2>2. \A i \in 1 .. 7 : i = 1 \/ i = 2 \/ i = 3 \/ i = 4 \/ i = 5 \/ i = 6 \/ i = 7
    OBVIOUS
  <2>3. (x \o y)[1] = z[1] /\ (x \o y)[2] = z[2]
    BY <1>1, <2>1
  <2>4. (x \o y)[3] = z[3] /\ (x \o y)[4] = z[4] /\ (x \o y)[5] = z[5]
    BY <1>1, <2>1
  <2>5. (x \o y)[6] = z[6] /\ (x \o y)[7] = z[7]
    BY <1>1, <2>1
  <2>6. QED
    BY <2>1, <2>2, <2>3, <2>4, <2>5
<1>4. x \o y = z
  BY <1>1, <1>2, <1>3, SeqEqual
<1>5. QED
  BY <1>4 DEF x, y, z

LEMMA ProFiveAndOne ==
  ASSUME NEW a \in ProCallNames, NEW b \in ProCallNames, NEW c \in ProCallNames, NEW d \in ProCallNames,
         NEW e \in ProCallNames, NEW f \in ProCallNames
  PROVE  <<a, b, c, d, e>> \o <<f>> = <<a, b, c, d, e, f>>
<1> DEFINE x == <<a, b, c, d, e>>  y == <<f>>  z == <<a, b, c, d, e, f>>
<1>1. x \in Seq(ProCallNames) /\ y \in Seq(ProCallNames) /\ z \in Seq(ProCallNames)
      /\ Len(x) = 5 /\ Len(y) = 1 /\ Len(z) = 6 /\ x[1] = a /\ x[2] = b /\ x[3] = c /\ x[4] = d
      /\ x[5] = e /\ y[1] = f
      /\ z[1] = a /\ z[2] = b /\ z[3] = c /\ z[4] = d /\ z[5] = e /\ z[6] = f
  OBVIOUS
<1> HIDE DEF x, y, z
<1>2. /\ x \o y \in Seq(ProCallNames) /\ Len(x \o y) = Len(x) + Len(y)
      /\ \A i \in 1 .. Len(x) + Len(y) : (x \o y)[i] = IF i <= Len(x) THEN x[i] ELSE y[i - Len(x)]
  BY <1>1, ConcatProperties
<1>3. Len(x \o y) = 6 /\ \A i \in 1 .. 6 : (x \o y)[i] = z[i]
  BY <1>1, <1>2
<1>4. x \o y = z
  BY <1>1, <1>2, <1>3, SeqEqual
<1>5. QED
  BY <1>4 DEF x, y, z

LEMMA ProCallsMove ==
  ASSUME ProcessTyped, NEW t \in Starters, calls[t] # <<>>, NEW new \in Seq(ProCallNames), P!Calls(t, new)
  PROVE  /\ calls' \in [Starters -> Seq(ProCallNames)]
         /\ calls'[t] = new \o Tail(calls[t])
         /\ \A u \in Starters \ {t} : calls'[u] = calls[u]
         /\ t \notin gone
<1>1. calls' = [calls EXCEPT ![t] = new \o Tail(calls[t])]
  BY DEF P!Calls
<1>2. new \o Tail(calls[t]) \in Seq(ProCallNames)
  BY ProNewAndRest DEF ProcessTyped
<1>3. QED
  BY <1>1, <1>2 DEF ProcessTyped

LEMMA ProPopsMove ==
  ASSUME ProcessTyped, NEW t \in Starters, calls[t] # <<>>, P!Calls(t, <<>>)
  PROVE  /\ calls'[t] = Tail(calls[t]) /\ Tail(calls[t]) \in Seq(ProCallNames)
         /\ \A u \in Starters \ {t} : calls'[u] = calls[u]
         /\ t \notin gone
<1>1. <<>> \in Seq(ProCallNames) /\ Tail(calls[t]) \in Seq(ProCallNames)
  BY EmptySeq, HeadTailProperties DEF ProcessTyped
<1>2. <<>> \o Tail(calls[t]) = Tail(calls[t])
  BY <1>1, ConcatEmptySeq
<1>3. QED
  BY <1>1, <1>2, ProCallsMove

\* Typing of a step that is one call of a thread.
LEMMA ProTypedCall ==
  ASSUME ProcessTyped, NEW t \in Starters, calls[t] # <<>>, NEW new \in Seq(ProCallNames), P!Calls(t, new),
         (process_init \in BOOLEAN)', (tls_initialized \in BOOLEAN)', (key \in BOOLEAN)',
         (ready \in BOOLEAN)',
         heap_default' \in [Starters -> {"empty", "main", "own"}],
         heap_value' \in [Starters -> {"none", "empty", "main", "own"}],
         count' \in Int, refused' \in Nat, UNCHANGED <<met, rounds, gone>>
  PROVE  ProcessTyped'
BY ProCallsMove DEF ProcessTyped

\* _mi_os_init is not among the calls that a thread makes next: who is about
\* to call it, if anyone, was so before.
LEMMA ProOsOnceStill ==
  ASSUME ProcessTyped, ProOsOnce, NEW t \in Starters, calls[t] # <<>>, NEW new \in Seq(ProCallNames),
         \A i \in 1 .. Len(new) : new[i] # "os_init",
         P!Calls(t, new), process_init => process_init', UNCHANGED os_inits
  PROVE  ProOsOnce'
<1>1. /\ calls'[t] = new \o Tail(calls[t]) /\ calls[t] \in Seq(ProCallNames)
      /\ \A u \in Starters \ {t} : calls'[u] = calls[u]
  BY ProCallsMove DEF ProcessTyped
<1> DEFINE n == Len(new) - 1
<1>2. n \in Int /\ \A i \in Nat : ProOsAt(t, i)' => i - n \in Nat /\ ProOsAt(t, i - n)
  <2>1. SUFFICES ASSUME NEW i \in Nat, ProOsAt(t, i)' PROVE i - n \in Nat /\ ProOsAt(t, i - n)
    BY LenProperties
  <2>2. i \in 1 .. Len(calls'[t]) /\ calls'[t][i] = "os_init"
    BY <1>1, <2>1, ProNewAndRest DEF ProOsAt
  <2>3. i \notin 1 .. Len(new)
    BY <1>1, <2>2, ProNewAndRest
  <2>4. i \in Len(new) + 1 .. Len(calls'[t]) /\ Len(new) \in Nat
    BY <2>2, <2>3, LenProperties
  <2>5. calls[t][i - Len(new) + 1] = "os_init" /\ i - Len(new) + 1 \in 2 .. Len(calls[t])
        /\ DOMAIN calls[t] = 1 .. Len(calls[t]) /\ Len(calls[t]) \in Nat
    BY <1>1, <2>2, <2>4, ProNewAndRest
  <2>6. i - n = i - Len(new) + 1
    BY <2>4
  <2>7. QED
    BY <2>4, <2>5, <2>6 DEF ProOsAt
<1>3. \A u \in Starters \ {t} : \A i \in Nat : ProOsAt(u, i)' => ProOsAt(u, i)
  BY <1>1 DEF ProOsAt
<1> HIDE DEF n
<1>4. ASSUME NEW u \in Starters, NEW v \in Starters, NEW i \in Nat, NEW j \in Nat,
             ProOsAt(u, i)', ProOsAt(v, j)'
      PROVE  u = v /\ i = j
  <2>1. CASE u = t /\ v = t
    BY <1>2, <1>4, <2>1 DEF ProOsOnce
  <2>2. CASE u = t /\ v # t
    BY <1>2, <1>3, <1>4, <2>2 DEF ProOsOnce
  <2>3. CASE u # t /\ v = t
    BY <1>2, <1>3, <1>4, <2>3 DEF ProOsOnce
  <2>4. CASE u # t /\ v # t
    BY <1>3, <1>4, <2>4 DEF ProOsOnce
  <2>5. QED
    BY <2>1, <2>2, <2>3, <2>4
<1>5. ASSUME NEW u \in Starters, NEW i \in Nat, ProOsAt(u, i)' PROVE process_init' /\ os_inits' = 0
  BY <1>2, <1>3, <1>5 DEF ProOsOnce
<1>6. QED
  BY <1>4, <1>5 DEF ProOsOnce

\* A thread begins a sequence of calls without it.
LEMMA ProOsOnceBegins ==
  ASSUME ProcessTyped, ProOsOnce, NEW t \in Starters, NEW new \in Seq(ProCallNames),
         \A i \in 1 .. Len(new) : new[i] # "os_init",
         calls' = [calls EXCEPT ![t] = new], UNCHANGED <<process_init, os_inits>>
  PROVE  ProOsOnce'
<1>1. calls'[t] = new /\ \A u \in Starters \ {t} : calls'[u] = calls[u]
  BY DEF ProcessTyped
<1>2. DOMAIN new = 1 .. Len(new)
  BY LenProperties
<1>3. \A u \in Starters : \A i \in Nat : ProOsAt(u, i)' => ProOsAt(u, i)
  BY <1>1, <1>2 DEF ProOsAt
<1>4. QED
  BY <1>3 DEF ProOsOnce

LEMMA ProOsOnceSame ==
  ASSUME ProOsOnce, UNCHANGED <<calls, process_init, os_inits>> PROVE ProOsOnce'
BY DEF ProOsOnce, ProOsAt

-----------------------------------------------------------------------------
(* ProStarting up: the calls of the one thread that does. *)

LEMMA ProHeadsOfStart ==
  ASSUME NEW t, NEW q, ProStartsUp(t, q)
  PROVE  /\ q # <<>>
         /\ Head(q) = "heap_main_init" => ProAtHeapMainInit(t, q)
         /\ Head(q) = "heap_main_keys" => ProAtHeapMainKeys(t, q)
         /\ Head(q) = "loaded" => ProAtLoaded(t, q)
         /\ Head(q) = "auto_thread_done" => ProAtAutoThreadDone(t, q)
         /\ Head(q) = "auto_done" => ProAtAutoDone(t, q)
         /\ Head(q) = "use_main" => ProAtUseMain(t, q)
         /\ Head(q) = "process_init" => ProAtProcessInit(t, q)
         /\ Head(q) = "os_init" => ProAtOsInit(t, q)
         /\ Head(q) = "heap_init" => ProAtHeapInit(t, q)
         /\ Head(q) = "ready" => ProAtReady(t, q)
         /\ Head(q) # "count"
<1>1. ProAtHeapMainInit(t, q) => q # <<>> /\ Head(q) = "heap_main_init"
  BY DEF ProAtHeapMainInit
<1>2. ProAtHeapMainKeys(t, q) => q # <<>> /\ Head(q) = "heap_main_keys"
  BY DEF ProAtHeapMainKeys
<1>3. ProAtLoaded(t, q) => q # <<>> /\ Head(q) = "loaded"
  BY DEF ProAtLoaded
<1>4. ProAtAutoThreadDone(t, q) => q # <<>> /\ Head(q) = "auto_thread_done"
  BY DEF ProAtAutoThreadDone
<1>5. ProAtAutoDone(t, q) => q # <<>> /\ Head(q) = "auto_done"
  BY DEF ProAtAutoDone
<1>6. ProAtUseMain(t, q) => q # <<>> /\ Head(q) = "use_main"
  BY DEF ProAtUseMain
<1>7. ProAtProcessInit(t, q) => q # <<>> /\ Head(q) = "process_init"
  BY DEF ProAtProcessInit
<1>8. ProAtOsInit(t, q) => q # <<>> /\ Head(q) = "os_init"
  BY DEF ProAtOsInit
<1>9. ProAtHeapInit(t, q) => q # <<>> /\ Head(q) = "heap_init"
  BY DEF ProAtHeapInit
<1>10. ProAtReady(t, q) => q # <<>> /\ Head(q) = "ready"
  BY DEF ProAtReady
<1>11. QED
  BY <1>1, <1>2, <1>3, <1>4, <1>5, <1>6, <1>7, <1>8, <1>9, <1>10 DEF ProStartsUp

\* Only the thread that starts the process up has calls to make.
LEMMA ProOnlyStarter ==
  ASSUME NEW t \in Starters, ProStarting(t), NEW u \in Starters, calls[u] # <<>>
  PROVE  u = t
BY DEF ProStarting

LEMMA ProStartStep ==
  ASSUME NEW t \in Starters, ProStarting(t), UNCHANGED <<ready, count, refused, rounds>>,
         \A u \in Starters \ {t} : /\ calls'[u] = calls[u] /\ heap_default'[u] = heap_default[u]
                                   /\ heap_value'[u] = heap_value[u],
         ProStartsUp(t, calls[t])'
  PROVE  ProStarting(t)'
BY DEF ProStarting, ProUnready, ProNoHeap

LEMMA ProStartHeapMainInit ==
  ASSUME ProcessTyped, NEW t \in Starters, ProStarting(t), P!HeapMainInit(t) PROVE ProStarting(t)'
<1> DEFINE q == calls[t]
<1>1. ProAtHeapMainInit(t, q)
  BY ProHeadsOfStart DEF ProStarting, P!HeapMainInit, P!Calling
<1>2. CASE cookie = "none"
  <2>1. /\ thread_id' = t /\ cookie' = "one" /\ P!Calls(t, <<"heap_main_keys">>)
        /\ UNCHANGED <<P!startVars, P!heapVars, P!endVars, P!history>>
    BY <1>2 DEF P!HeapMainInit
  <2>2. <<"heap_main_keys">> \in Seq(ProCallNames) /\ calls[t] # <<>>
    BY DEF ProCallNames, P!HeapMainInit, P!Calling
  <2>3. calls'[t] = <<"heap_main_keys">> \o Tail(q) /\ \A u \in Starters \ {t} : calls'[u] = calls[u]
    BY <2>1, <2>2, ProCallsMove
  <2>4. CASE q = <<"heap_main_init", "loaded", "auto_thread_done", "process_init">>
             /\ ~process_init /\ ProNoMain /\ ProNoKey /\ ProNoHeap(t)
    <3>1. Tail(q) = <<"loaded", "auto_thread_done", "process_init">>
      BY <2>4
    <3>2. calls'[t] = <<"heap_main_keys", "loaded", "auto_thread_done", "process_init">>
      <4>1. /\ "heap_main_keys" \in ProCallNames /\ "loaded" \in ProCallNames
            /\ "auto_thread_done" \in ProCallNames /\ "process_init" \in ProCallNames
        BY DEF ProCallNames
      <4>2. <<"heap_main_keys">> \o <<"loaded", "auto_thread_done", "process_init">>
            = <<"heap_main_keys", "loaded", "auto_thread_done", "process_init">>
        BY <4>1, ProOneAndThree
      <4>3. QED
        BY <2>3, <3>1, <4>2
    <3>3. ProAtHeapMainKeys(t, calls[t])'
      BY <2>1, <2>4, <3>2 DEF ProAtHeapMainKeys, ProHalfMain, ProNoKey, ProNoHeap,
         P!startVars, P!heapVars
    <3>4. QED
      BY <2>1, <2>3, <3>3, ProStartStep DEF ProStartsUp, P!heapVars, P!endVars, P!history
  <2>5. CASE q = <<"heap_main_init", "heap_init", "ready", "heap_init">>
             /\ process_init /\ ProNoMain /\ ProKey /\ ProHeap(t)
    <3>1. Tail(q) = <<"heap_init", "ready", "heap_init">>
      BY <2>5
    <3>2. calls'[t] = <<"heap_main_keys", "heap_init", "ready", "heap_init">>
      <4>1. "heap_main_keys" \in ProCallNames /\ "heap_init" \in ProCallNames /\ "ready" \in ProCallNames
        BY DEF ProCallNames
      <4>2. <<"heap_main_keys">> \o <<"heap_init", "ready", "heap_init">>
            = <<"heap_main_keys", "heap_init", "ready", "heap_init">>
        BY <4>1, ProOneAndThree
      <4>3. QED
        BY <2>3, <3>1, <4>2
    <3>3. ProAtHeapMainKeys(t, calls[t])'
      BY <2>1, <2>5, <3>2 DEF ProAtHeapMainKeys, ProHalfMain, ProKey, ProHeap, P!startVars,
         P!heapVars
    <3>4. QED
      BY <2>1, <2>3, <3>3, ProStartStep DEF ProStartsUp, P!heapVars, P!endVars, P!history
  <2>6. QED
    BY <1>1, <1>2, <2>4, <2>5 DEF ProAtHeapMainInit, ProMain
<1>3. CASE cookie # "none"
  <2>1. /\ UNCHANGED P!mainVars /\ P!Calls(t, <<>>) /\ UNCHANGED <<P!startVars, P!heapVars, P!endVars, P!history>>
    BY <1>3 DEF P!HeapMainInit, P!Done
  <2>2. <<>> \in Seq(ProCallNames) /\ calls[t] # <<>>
    BY DEF P!HeapMainInit, P!Calling
  <2>3. calls'[t] = Tail(q) /\ \A u \in Starters \ {t} : calls'[u] = calls[u]
    BY <2>1, <2>2, ProPopsMove
  <2>4. q = <<"heap_main_init", "heap_init", "ready">> /\ process_init /\ ProMain(t) /\ ProKey /\ ProHeap(t)
    BY <1>1, <1>3 DEF ProAtHeapMainInit, ProNoMain
  <2>5. calls'[t] = <<"heap_init", "ready">>
    BY <2>3, <2>4
  <2>6. ProAtHeapInit(t, calls[t])'
    BY <2>1, <2>4, <2>5 DEF ProAtHeapInit, ProMain, ProKey, ProHeap, P!mainVars, P!startVars,
       P!heapVars
  <2>7. QED
    BY <2>1, <2>3, <2>6, ProStartStep DEF ProStartsUp, P!heapVars, P!endVars, P!history
<1>4. QED
  BY <1>2, <1>3

LEMMA ProStartHeapMainKeys ==
  ASSUME ProcessTyped, NEW t \in Starters, ProStarting(t), P!HeapMainKeys(t) PROVE ProStarting(t)'
<1>1. ProAtHeapMainKeys(t, calls[t])
  BY ProHeadsOfStart DEF ProStarting, P!HeapMainKeys, P!Calling
<1>2. /\ cookie' = "random" /\ P!Calls(t, <<>>)
      /\ UNCHANGED <<thread_id, P!startVars, P!heapVars, P!endVars, P!history>>
  BY DEF P!HeapMainKeys, P!Done
<1>3. calls'[t] = Tail(calls[t]) /\ \A u \in Starters \ {t} : calls'[u] = calls[u]
  BY <1>2, ProPopsMove DEF P!HeapMainKeys, P!Calling
<1>4. CASE calls[t] = <<"heap_main_keys", "loaded", "auto_thread_done", "process_init">>
           /\ ~process_init /\ ProHalfMain(t) /\ ProNoKey /\ ProNoHeap(t)
  <2>1. calls'[t] = <<"loaded", "auto_thread_done", "process_init">>
    BY <1>3, <1>4
  <2>2. ProAtLoaded(t, calls[t])'
    BY <1>2, <1>4, <2>1 DEF ProAtLoaded, ProHalfMain, ProMain, ProNoKey, ProNoHeap,
       P!startVars, P!heapVars
  <2>3. QED
    BY <1>2, <1>3, <2>2, ProStartStep DEF ProStartsUp, P!heapVars, P!endVars, P!history
<1>5. CASE calls[t] = <<"heap_main_keys", "heap_init", "ready", "heap_init">>
           /\ process_init /\ ProHalfMain(t) /\ ProKey /\ ProHeap(t)
  <2>1. calls'[t] = <<"heap_init", "ready", "heap_init">>
    BY <1>3, <1>5
  <2>2. ProAtHeapInit(t, calls[t])'
    BY <1>2, <1>5, <2>1 DEF ProAtHeapInit, ProHalfMain, ProMain, ProKey, ProHeap,
       P!startVars, P!heapVars
  <2>3. QED
    BY <1>2, <1>3, <2>2, ProStartStep DEF ProStartsUp, P!heapVars, P!endVars, P!history
<1>6. QED
  BY <1>1, <1>4, <1>5 DEF ProAtHeapMainKeys

LEMMA ProStartPreloaded ==
  ASSUME ProcessTyped, NEW t \in Starters, ProStarting(t), P!Preloaded(t) PROVE ProStarting(t)'
<1>1. ProAtLoaded(t, calls[t])
  BY ProHeadsOfStart DEF ProStarting, P!Preloaded, P!Calling
<1>2. /\ P!Calls(t, <<>>)
      /\ UNCHANGED <<P!mainVars, process_init, tls_initialized, key, P!heapVars, P!endVars, P!history>>
  BY DEF P!Preloaded, P!Done
<1>3. calls'[t] = Tail(calls[t]) /\ \A u \in Starters \ {t} : calls'[u] = calls[u]
  BY <1>2, ProPopsMove DEF P!Preloaded, P!Calling
<1>4. calls'[t] = <<"auto_thread_done", "process_init">>
  BY <1>1, <1>3 DEF ProAtLoaded
<1>5. ProAtAutoThreadDone(t, calls[t])'
  BY <1>1, <1>2, <1>4 DEF ProAtLoaded, ProAtAutoThreadDone, ProMain, ProNoKey, ProNoHeap,
     P!mainVars, P!heapVars
<1>6. QED
  BY <1>2, <1>3, <1>5, ProStartStep DEF ProStartsUp, P!heapVars, P!endVars, P!history

LEMMA ProStartAutoThreadDone ==
  ASSUME ProcessTyped, NEW t \in Starters, ProStarting(t), P!AutoThreadDone(t) PROVE ProStarting(t)'
<1>1. ProAtAutoThreadDone(t, calls[t]) /\ calls[t] # <<>>
  BY ProHeadsOfStart DEF ProStarting, P!AutoThreadDone, P!Calling
<1>2. UNCHANGED <<P!mainVars, P!startVars, P!heapVars, P!endVars, P!history>>
  BY DEF P!AutoThreadDone
<1>3. <<"auto_done", "use_main">> \in Seq(ProCallNames)
  BY DEF ProCallNames
<1>4. CASE calls[t] = <<"auto_thread_done", "process_init">>
           /\ ~process_init /\ ProMain(t) /\ ProNoKey /\ ProNoHeap(t)
  <2>1. P!Calls(t, <<"auto_done", "use_main">>)
    BY <1>4 DEF P!AutoThreadDone, ProNoKey
  <2>2. /\ calls'[t] = <<"auto_done", "use_main">> \o Tail(calls[t])
        /\ \A u \in Starters \ {t} : calls'[u] = calls[u]
    BY <1>1, <1>3, <2>1, ProCallsMove
  <2>3. Tail(calls[t]) = <<"process_init">>
    BY <1>4
  <2>4. calls'[t] = <<"auto_done", "use_main", "process_init">>
    <3>1. "auto_done" \in ProCallNames /\ "use_main" \in ProCallNames /\ "process_init" \in ProCallNames
      BY DEF ProCallNames
    <3>2. calls'[t] = <<"auto_done", "use_main">> \o <<"process_init">>
      BY <2>2, <2>3
    <3>3. QED
      BY <3>1, <3>2, ProTwoAndOne
  <2>5. ProAtAutoDone(t, calls[t])'
    BY <1>2, <1>4, <2>4 DEF ProAtAutoDone, ProMain, ProNoKey, ProNoHeap, P!mainVars,
       P!startVars, P!heapVars
  <2>6. QED
    BY <1>2, <2>2, <2>5, ProStartStep DEF ProStartsUp, P!heapVars, P!endVars, P!history
<1>5. CASE calls[t] = <<"auto_thread_done", "os_init", "heap_main_init", "heap_init", "ready">>
           /\ process_init /\ ProMain(t) /\ ProKey /\ ProHeap(t)
  <2>1. P!Calls(t, <<>>)
    BY <1>5 DEF P!AutoThreadDone, ProKey
  <2>2. calls'[t] = Tail(calls[t]) /\ \A u \in Starters \ {t} : calls'[u] = calls[u]
    BY <1>1, <2>1, ProPopsMove
  <2>3. calls'[t] = <<"os_init", "heap_main_init", "heap_init", "ready">>
    BY <1>5, <2>2
  <2>4. ProAtOsInit(t, calls[t])'
    BY <1>2, <1>5, <2>3 DEF ProAtOsInit, ProMain, ProKey, ProHeap, P!mainVars, P!startVars,
       P!heapVars
  <2>5. QED
    BY <1>2, <2>2, <2>4, ProStartStep DEF ProStartsUp, P!heapVars, P!endVars, P!history
<1>6. CASE calls[t] = <<"auto_thread_done", "os_init", "heap_main_init", "heap_init", "ready", "heap_init">>
           /\ process_init /\ ProNoMain /\ ProNoKey /\ ProNoHeap(t)
  <2>1. P!Calls(t, <<"auto_done", "use_main">>)
    BY <1>6 DEF P!AutoThreadDone, ProNoKey
  <2>2. /\ calls'[t] = <<"auto_done", "use_main">> \o Tail(calls[t])
        /\ \A u \in Starters \ {t} : calls'[u] = calls[u]
    BY <1>1, <1>3, <2>1, ProCallsMove
  <2>3. Tail(calls[t]) = <<"os_init", "heap_main_init", "heap_init", "ready", "heap_init">>
    BY <1>6
  <2>4. calls'[t] = <<"auto_done", "use_main", "os_init", "heap_main_init", "heap_init", "ready", "heap_init">>
    <3>1. /\ "auto_done" \in ProCallNames /\ "use_main" \in ProCallNames /\ "os_init" \in ProCallNames
          /\ "heap_main_init" \in ProCallNames /\ "heap_init" \in ProCallNames /\ "ready" \in ProCallNames
      BY DEF ProCallNames
    <3>2. <<"auto_done", "use_main">>
            \o <<"os_init", "heap_main_init", "heap_init", "ready", "heap_init">>
          = <<"auto_done", "use_main", "os_init", "heap_main_init", "heap_init", "ready", "heap_init">>
      BY <3>1, ProTwoAndFive
    <3>3. QED
      BY <2>2, <2>3, <3>2
  <2>5. ProAtAutoDone(t, calls[t])'
    BY <1>2, <1>6, <2>4 DEF ProAtAutoDone, ProNoMain, ProNoKey, ProNoHeap, P!mainVars,
       P!startVars, P!heapVars
  <2>6. QED
    BY <1>2, <2>2, <2>5, ProStartStep DEF ProStartsUp, P!heapVars, P!endVars, P!history
<1>7. QED
  BY <1>1, <1>4, <1>5, <1>6 DEF ProAtAutoThreadDone

LEMMA ProStartInitAutoDone ==
  ASSUME ProcessTyped, NEW t \in Starters, ProStarting(t), P!InitAutoDone(t) PROVE ProStarting(t)'
<1>1. ProAtAutoDone(t, calls[t])
  BY ProHeadsOfStart DEF ProStarting, P!InitAutoDone, P!Calling
<1>2. /\ tls_initialized' = TRUE /\ key' = TRUE /\ P!Calls(t, <<>>)
      /\ UNCHANGED <<P!mainVars, os_preloading, process_init, P!heapVars, P!endVars, P!history>>
  BY DEF P!InitAutoDone, P!Done
<1>3. calls'[t] = Tail(calls[t]) /\ \A u \in Starters \ {t} : calls'[u] = calls[u]
  BY <1>2, ProPopsMove DEF P!InitAutoDone, P!Calling
<1>4. ProAtUseMain(t, calls[t])'
  <2>1. CASE calls[t] = <<"auto_done", "use_main", "process_init">>
             /\ ~process_init /\ ProMain(t) /\ ProNoKey /\ ProNoHeap(t)
    <3>1. calls'[t] = <<"use_main", "process_init">>
      BY <1>3, <2>1
    <3>2. QED
      BY <1>2, <2>1, <3>1 DEF ProAtUseMain, ProMain, ProKey, ProNoHeap, P!mainVars, P!heapVars
  <2>2. CASE calls[t] = <<"auto_done", "use_main", "os_init", "heap_main_init", "heap_init", "ready", "heap_init">>
             /\ process_init /\ ProNoMain /\ ProNoKey /\ ProNoHeap(t)
    <3>1. calls'[t] = <<"use_main", "os_init", "heap_main_init", "heap_init", "ready", "heap_init">>
      BY <1>3, <2>2
    <3>2. QED
      BY <1>2, <2>2, <3>1 DEF ProAtUseMain, ProNoMain, ProKey, ProNoHeap, P!mainVars, P!heapVars
  <2>3. QED
    BY <1>1, <2>1, <2>2 DEF ProAtAutoDone
<1>5. QED
  BY <1>2, <1>3, <1>4, ProStartStep DEF ProStartsUp, P!heapVars, P!endVars, P!history

LEMMA ProStartUseMain ==
  ASSUME ProcessTyped, NEW t \in Starters, ProStarting(t), P!UseMain(t) PROVE ProStarting(t)'
<1>1. ProAtUseMain(t, calls[t])
  BY ProHeadsOfStart DEF ProStarting, P!UseMain, P!Calling
<1>2. P!SetDefault(t, "main") /\ P!Calls(t, <<>>) /\ UNCHANGED <<P!mainVars, P!startVars, count, P!endVars, P!history>>
  BY DEF P!UseMain, P!Done
<1>3. calls'[t] = Tail(calls[t]) /\ \A u \in Starters \ {t} : calls'[u] = calls[u]
  BY <1>2, ProPopsMove DEF P!UseMain, P!Calling
<1>4. key
  BY <1>1 DEF ProAtUseMain, ProKey
<1>5. /\ heap_default'[t] = "main" /\ heap_value'[t] = "main"
      /\ \A u \in Starters \ {t} : heap_default'[u] = heap_default[u] /\ heap_value'[u] = heap_value[u]
  BY <1>2, <1>4 DEF P!SetDefault, ProcessTyped
<1>6. ProAtProcessInit(t, calls[t])' \/ ProAtOsInit(t, calls[t])'
  <2>1. CASE calls[t] = <<"use_main", "process_init">>
             /\ ~process_init /\ ProMain(t) /\ ProKey /\ ProNoHeap(t)
    <3>1. calls'[t] = <<"process_init">>
      BY <1>3, <2>1
    <3>2. QED
      BY <1>2, <1>5, <2>1, <3>1 DEF ProAtProcessInit, ProMain, ProKey, ProHeap, P!mainVars,
         P!startVars
  <2>2. CASE calls[t] = <<"use_main", "os_init", "heap_main_init", "heap_init", "ready", "heap_init">>
             /\ process_init /\ ProNoMain /\ ProKey /\ ProNoHeap(t)
    <3>1. calls'[t] = <<"os_init", "heap_main_init", "heap_init", "ready", "heap_init">>
      BY <1>3, <2>2
    <3>2. QED
      BY <1>2, <1>5, <2>2, <3>1 DEF ProAtOsInit, ProNoMain, ProKey, ProHeap, P!mainVars,
         P!startVars
  <2>3. QED
    BY <1>1, <2>1, <2>2 DEF ProAtUseMain
<1>7. QED
  BY <1>2, <1>3, <1>5, <1>6, ProStartStep DEF ProStartsUp, P!endVars, P!history

LEMMA ProStartProcessInit ==
  ASSUME ProcessTyped, NEW t \in Starters, ProStarting(t), P!ProcessInit(t) PROVE ProStarting(t)'
<1>1. ProAtProcessInit(t, calls[t]) /\ calls[t] # <<>>
  BY ProHeadsOfStart DEF ProStarting, P!ProcessInit, P!Calling
<1> DEFINE new == <<"auto_thread_done", "os_init", "heap_main_init", "heap_init", "ready">>
<1>2. new \in Seq(ProCallNames)
  BY DEF ProCallNames
<1>3. /\ process_init' = TRUE /\ P!Calls(t, new)
      /\ UNCHANGED <<P!mainVars, os_preloading, tls_initialized, key, P!heapVars, P!endVars, P!history>>
  BY <1>1 DEF P!ProcessInit, ProAtProcessInit
<1>4. calls'[t] = new \o Tail(calls[t]) /\ \A u \in Starters \ {t} : calls'[u] = calls[u]
  BY <1>1, <1>2, <1>3, ProCallsMove
<1>5. ProAtAutoThreadDone(t, calls[t])'
  <2>1. CASE calls[t] = <<"process_init">> /\ ~process_init /\ ProMain(t) /\ ProKey /\ ProHeap(t)
    <3>1. Tail(calls[t]) = <<>>
      BY <2>1
    <3>2. calls'[t] = new
      BY <1>2, <1>4, <3>1, ConcatEmptySeq
    <3>3. QED
      BY <1>3, <2>1, <3>2 DEF ProAtAutoThreadDone, ProMain, ProKey, ProHeap, P!mainVars,
         P!heapVars
  <2>2. CASE calls[t] = <<"process_init", "heap_init">> /\ ~process_init /\ ProNoMain /\ ProNoKey /\ ProNoHeap(t)
    <3>1. Tail(calls[t]) = <<"heap_init">>
      BY <2>2
    <3>2. calls'[t] = <<"auto_thread_done", "os_init", "heap_main_init", "heap_init", "ready", "heap_init">>
      <4>1. /\ "auto_thread_done" \in ProCallNames /\ "os_init" \in ProCallNames /\ "ready" \in ProCallNames
            /\ "heap_main_init" \in ProCallNames /\ "heap_init" \in ProCallNames
        BY DEF ProCallNames
      <4>2. new \o <<"heap_init">>
            = <<"auto_thread_done", "os_init", "heap_main_init", "heap_init", "ready", "heap_init">>
        BY <4>1, ProFiveAndOne
      <4>3. QED
        BY <1>4, <3>1, <4>2
    <3>3. QED
      BY <1>3, <2>2, <3>2 DEF ProAtAutoThreadDone, ProNoMain, ProNoKey, ProNoHeap,
         P!mainVars, P!heapVars
  <2>3. QED
    BY <1>1, <2>1, <2>2 DEF ProAtProcessInit
<1>6. QED
  BY <1>3, <1>4, <1>5, ProStartStep DEF ProStartsUp, P!heapVars, P!endVars, P!history

LEMMA ProStartOsInit ==
  ASSUME ProcessTyped, NEW t \in Starters, ProStarting(t), P!OsInit(t) PROVE ProStarting(t)'
<1>1. ProAtOsInit(t, calls[t])
  BY ProHeadsOfStart DEF ProStarting, P!OsInit, P!Calling
<1>2. P!Calls(t, <<>>) /\ UNCHANGED <<P!mainVars, P!startVars, P!heapVars, P!endVars, refused, ready>>
  BY DEF P!OsInit, P!Done
<1>3. calls'[t] = Tail(calls[t]) /\ \A u \in Starters \ {t} : calls'[u] = calls[u]
  BY <1>2, ProPopsMove DEF P!OsInit, P!Calling
<1>4. ProAtHeapMainInit(t, calls[t])'
  <2>1. CASE calls[t] = <<"os_init", "heap_main_init", "heap_init", "ready">>
             /\ process_init /\ ProMain(t) /\ ProKey /\ ProHeap(t)
    <3>1. calls'[t] = <<"heap_main_init", "heap_init", "ready">>
      BY <1>3, <2>1
    <3>2. QED
      BY <1>2, <2>1, <3>1 DEF ProAtHeapMainInit, ProMain, ProKey, ProHeap, P!mainVars,
         P!startVars, P!heapVars
  <2>2. CASE calls[t] = <<"os_init", "heap_main_init", "heap_init", "ready", "heap_init">>
             /\ process_init /\ ProNoMain /\ ProKey /\ ProHeap(t)
    <3>1. calls'[t] = <<"heap_main_init", "heap_init", "ready", "heap_init">>
      BY <1>3, <2>2
    <3>2. QED
      BY <1>2, <2>2, <3>1 DEF ProAtHeapMainInit, ProNoMain, ProKey, ProHeap, P!mainVars,
         P!startVars, P!heapVars
  <2>3. QED
    BY <1>1, <2>1, <2>2 DEF ProAtOsInit
<1>5. QED
  BY <1>2, <1>3, <1>4, ProStartStep DEF ProStartsUp, P!heapVars, P!endVars

LEMMA ProStartHeapInit ==
  ASSUME ProcessTyped, NEW t \in Starters, ProStarting(t), P!HeapInit(t) PROVE ProStarting(t)'
<1>1. ProAtHeapInit(t, calls[t])
  BY ProHeadsOfStart DEF ProStarting, P!HeapInit, P!Calling
<1>2. heap_default[t] # "empty"
  BY <1>1 DEF ProAtHeapInit, ProHeap
<1>3. P!Calls(t, <<>>) /\ UNCHANGED <<P!mainVars, P!startVars, P!heapVars, P!endVars, refused, ready>>
  BY <1>2 DEF P!HeapInit, P!Done
<1>4. calls'[t] = Tail(calls[t]) /\ \A u \in Starters \ {t} : calls'[u] = calls[u]
  BY <1>3, ProPopsMove DEF P!HeapInit, P!Calling
<1>5. calls'[t] \in {<<"ready">>, <<"ready", "heap_init">>}
  <2>1. CASE calls[t] = <<"heap_init", "ready">>
    BY <1>4, <2>1
  <2>2. CASE calls[t] = <<"heap_init", "ready", "heap_init">>
    BY <1>4, <2>2
  <2>3. QED
    BY <1>1, <2>1, <2>2 DEF ProAtHeapInit
<1>6. ProAtReady(t, calls[t])'
  BY <1>1, <1>3, <1>5 DEF ProAtHeapInit, ProAtReady, ProMain, ProKey, ProHeap, P!mainVars,
     P!startVars, P!heapVars
<1>7. QED
  BY <1>3, <1>4, <1>6, ProStartStep DEF ProStartsUp, P!heapVars, P!endVars

\* All that the one thread does while it starts the process up; the last step
\* is the one after which the process is up.
LEMMA ProStartReady ==
  ASSUME P!ProcessAssumption, ProcessTyped, NEW t \in Starters, ProStarting(t), P!Ready(t) PROVE ProRunning'
<1>1. ProAtReady(t, calls[t])
  BY ProHeadsOfStart DEF ProStarting, P!Ready, P!Calling
<1>2. ready' = TRUE /\ P!Calls(t, <<>>) /\ UNCHANGED <<P!mainVars, P!startVars, P!heapVars, P!endVars, refused>>
  BY DEF P!Ready, P!Done
<1>3. calls'[t] = Tail(calls[t]) /\ \A u \in Starters \ {t} : calls'[u] = calls[u]
  BY <1>2, ProPopsMove DEF P!Ready, P!Calling
<1>4. calls'[t] \in {<<>>, <<"heap_init">>}
  <2>1. CASE calls[t] = <<"ready">>
    BY <1>3, <2>1
  <2>2. CASE calls[t] = <<"ready", "heap_init">>
    BY <1>3, <2>2
  <2>3. QED
    BY <1>1, <2>1, <2>2 DEF ProAtReady
<1>5. /\ ready' /\ process_init' /\ ProKey' /\ thread_id' = t /\ cookie' = "random" /\ ProHeap(t)'
      /\ heap_default'[t] = "main"
  BY <1>1, <1>2 DEF ProAtReady, ProMain, ProKey, ProHeap, P!mainVars, P!startVars, P!heapVars
<1>6. \A u \in Starters : calls'[u] \in {<<>>, <<"heap_init">>}
  BY <1>3, <1>4 DEF ProStarting
<1>7. \A u \in Starters \ {t} : /\ calls'[u] = <<>> /\ heap_default'[u] = "empty" /\ heap_value'[u] = "none"
  BY <1>2, <1>3 DEF ProStarting, ProNoHeap, P!heapVars
<1>8. \A u \in Starters : heap_default'[u] # "own"
  BY <1>5, <1>7
<1>9. ProCounted'
  <2>1. ProOwn' = {}
    BY <1>8 DEF ProOwn
  <2>2. ProCounting' = {}
    BY <1>6 DEF ProCounting
  <2>3. count' = 1 /\ refused' = 0
    BY <1>2 DEF ProStarting, ProUnready, P!heapVars
  <2>4. QED
    BY <2>1, <2>2, <2>3, FS_EmptySet DEF ProCounted
<1>10. \A u \in Starters \ {t} : ProOwnHeap(u)'
  BY <1>7 DEF ProOwnHeap
<1>11. \A u \in gone' : u \in Starters
  BY <1>2 DEF P!endVars, ProcessTyped
<1>12. QED
  BY <1>5, <1>6, <1>8, <1>9, <1>10, <1>11 DEF ProRunning, ProRunningTodos

-----------------------------------------------------------------------------
(* When the process is up. *)

LEMMA ProRunningTyped ==
  ASSUME P!ProcessAssumption
  PROVE  /\ IsFiniteSet(ProOwn) /\ Cardinality(ProOwn) \in Nat
         /\ IsFiniteSet(ProCounting) /\ Cardinality(ProCounting) \in Nat
<1>1. ProOwn \subseteq Starters /\ ProCounting \subseteq Starters
  BY DEF ProOwn, ProCounting
<1>2. IsFiniteSet(Starters)
  BY DEF P!ProcessAssumption, P!IsFiniteSet, IsFiniteSet
<1>3. IsFiniteSet(ProOwn) /\ IsFiniteSet(ProCounting)
  BY <1>1, <1>2, FS_Subset
<1>4. QED
  BY <1>3, FS_CardinalityType

\* A thread begins a sequence of calls, or makes one that changes nothing.
LEMMA ProRunPops ==
  ASSUME P!ProcessAssumption, ProcessTyped, ProRunning, NEW t \in Starters, NEW q \in ProRunningTodos, calls'[t] = q,
         q # <<"count">>, calls[t] # <<"count">>,
         q \in {<<"process_init", "heap_init">>, <<"heap_init">>} /\ t # thread_id => heap_default[t] = "empty",
         \A u \in Starters \ {t} : calls'[u] = calls[u],
         UNCHANGED <<P!mainVars, process_init, tls_initialized, key, P!heapVars, P!endVars, refused, ready>>
  PROVE  ProRunning'
<1>1. /\ UNCHANGED <<thread_id, cookie, process_init, tls_initialized, key, ready, refused>>
      /\ UNCHANGED <<heap_default, heap_value, count, rounds, gone>>
  BY DEF P!mainVars, P!heapVars, P!endVars
<1>2. \A u \in Starters : calls'[u] \in ProRunningTodos
  BY DEF ProRunning
<1>3. \A u \in Starters \ {thread_id'} : ProOwnHeap(u)'
  <2>1. SUFFICES ASSUME NEW u \in Starters \ {thread_id} PROVE ProOwnHeap(u)'
    BY <1>1
  <2>2. ProOwnHeap(u)
    BY DEF ProRunning
  <2>3. CASE u = t
    BY <1>1, <2>1, <2>2, <2>3 DEF ProOwnHeap
  <2>4. CASE u # t
    BY <1>1, <2>1, <2>2, <2>4 DEF ProOwnHeap
  <2>5. QED
    BY <2>3, <2>4
<1>4. ProOwn' = ProOwn
  BY <1>1 DEF ProOwn
<1>5. ProCounting' = ProCounting
  BY DEF ProCounting
<1>6. ProCounted => ProCounted'
  BY <1>1, <1>4, <1>5 DEF ProCounted
<1>7. /\ ready' /\ process_init' /\ ProKey' /\ thread_id' \in Starters /\ cookie' = "random" /\ ProHeap(thread_id)'
      /\ \A u \in gone' : heap_default'[u] = "own" => rounds'[u] = Iterations
      /\ rounds'[thread_id'] = 0 => ProCounted'
  BY <1>1, <1>6 DEF ProRunning, ProKey, ProHeap
<1>8. QED
  BY <1>1, <1>2, <1>3, <1>7 DEF ProRunning

LEMMA ProRunCalls ==
  ASSUME P!ProcessAssumption, ProcessTyped, ProRunning, NEW t \in Starters,
         P!Preloaded(t) \/ P!HeapMainInit(t) \/ P!AutoThreadDone(t) \/ P!ProcessInit(t)
  PROVE  ProRunning'
<1>1. calls[t] \in ProRunningTodos /\ calls[t] # <<>> /\ cookie = "random" /\ tls_initialized /\ process_init
  BY DEF ProRunning, ProKey, P!Preloaded, P!HeapMainInit, P!AutoThreadDone, P!ProcessInit,
     P!Calling
<1>2. /\ P!Calls(t, <<>>)
      /\ UNCHANGED <<P!mainVars, process_init, tls_initialized, key, P!heapVars, P!endVars, refused, ready>>
  <2>1. CASE P!Preloaded(t)
    BY <2>1 DEF P!Preloaded, P!Done, P!history
  <2>2. CASE P!HeapMainInit(t)
    BY <1>1, <2>2 DEF P!HeapMainInit, P!Done, P!history, P!startVars
  <2>3. CASE P!AutoThreadDone(t)
    BY <1>1, <2>3 DEF P!AutoThreadDone, P!history, P!startVars
  <2>4. CASE P!ProcessInit(t)
    BY <1>1, <2>4 DEF P!ProcessInit, P!history
  <2>5. QED
    BY <2>1, <2>2, <2>3, <2>4
<1>3. calls'[t] = Tail(calls[t]) /\ \A u \in Starters \ {t} : calls'[u] = calls[u]
  BY <1>1, <1>2, ProPopsMove
<1>4. Head(calls[t]) \in {"loaded", "heap_main_init", "auto_thread_done", "process_init"}
  BY DEF P!Preloaded, P!HeapMainInit, P!AutoThreadDone, P!ProcessInit, P!Calling
<1>5. CASE calls[t] = <<"heap_main_init", "loaded", "auto_thread_done", "process_init">>
  <2>1. calls'[t] = <<"loaded", "auto_thread_done", "process_init">>
    BY <1>3, <1>5
  <2>2. QED
    BY <1>2, <1>3, <1>5, <2>1, ProRunPops DEF ProRunningTodos
<1>6. CASE calls[t] = <<"loaded", "auto_thread_done", "process_init">>
  <2>1. calls'[t] = <<"auto_thread_done", "process_init">>
    BY <1>3, <1>6
  <2>2. QED
    BY <1>2, <1>3, <1>6, <2>1, ProRunPops DEF ProRunningTodos
<1>7. CASE calls[t] = <<"auto_thread_done", "process_init">>
  <2>1. calls'[t] = <<"process_init">>
    BY <1>3, <1>7
  <2>2. QED
    BY <1>2, <1>3, <1>7, <2>1, ProRunPops DEF ProRunningTodos
<1>8. CASE calls[t] = <<"process_init">>
  <2>1. calls'[t] = <<>>
    BY <1>3, <1>8
  <2>2. QED
    BY <1>2, <1>3, <1>8, <2>1, ProRunPops DEF ProRunningTodos
<1>9. CASE calls[t] = <<"process_init", "heap_init">>
  <2>1. calls'[t] = <<"heap_init">>
    BY <1>3, <1>9
  <2>2. t # thread_id => heap_default[t] = "empty"
    BY <1>9 DEF ProRunning, ProOwnHeap
  <2>3. QED
    BY <1>2, <1>3, <1>9, <2>1, <2>2, ProRunPops DEF ProRunningTodos
<1>10. calls[t] # <<"heap_init">> /\ calls[t] # <<"count">>
  BY <1>4
<1>11. QED
  BY <1>1, <1>5, <1>6, <1>7, <1>8, <1>9, <1>10 DEF ProRunningTodos

\* Calls that no thread makes any more.
LEMMA ProRunNever ==
  ASSUME ProRunning, NEW t \in Starters,
         P!HeapMainKeys(t) \/ P!InitAutoDone(t) \/ P!UseMain(t) \/ P!OsInit(t) \/ P!Ready(t)
  PROVE  FALSE
<1>1. calls[t] \in ProRunningTodos /\ calls[t] # <<>>
  BY DEF ProRunning, P!HeapMainKeys, P!InitAutoDone, P!UseMain, P!OsInit, P!Ready, P!Calling
<1>2. Head(calls[t]) \in {"heap_main_keys", "auto_done", "use_main", "os_init", "ready"}
  BY DEF P!HeapMainKeys, P!InitAutoDone, P!UseMain, P!OsInit, P!Ready, P!Calling
<1>3. Head(calls[t]) \in {"loaded", "heap_main_init", "auto_thread_done", "process_init", "heap_init", "count"}
  BY <1>1 DEF ProRunningTodos
<1>4. QED
  BY <1>2, <1>3

LEMMA ProRunHeapInit ==
  ASSUME P!ProcessAssumption, ProcessTyped, ProRunning, NEW t \in Starters, P!HeapInit(t)
  PROVE  ProRunning'
<1>1. calls[t] = <<"heap_init">>
  <2>1. calls[t] \in ProRunningTodos /\ calls[t] # <<>> /\ Head(calls[t]) = "heap_init"
    BY DEF ProRunning, P!HeapInit, P!Calling
  <2>2. QED
    BY <2>1 DEF ProRunningTodos
<1>2. UNCHANGED <<P!mainVars, P!startVars, P!endVars, ready>>
  BY DEF P!HeapInit
<1>3. Tail(calls[t]) = <<>> /\ calls[t] # <<>> /\ <<>> \in Seq(ProCallNames) /\ <<"count">> \in Seq(ProCallNames)
  BY <1>1 DEF ProCallNames
<1>4. CASE heap_default[t] # "empty"
  <2>1. P!Calls(t, <<>>) /\ UNCHANGED <<P!heapVars, refused>>
    BY <1>4 DEF P!HeapInit, P!Done
  <2>2. calls'[t] = <<>> /\ \A u \in Starters \ {t} : calls'[u] = calls[u]
    BY <1>3, <2>1, ProPopsMove
  <2>3. QED
    BY <1>1, <1>2, <2>1, <2>2, ProRunPops DEF ProRunningTodos, P!startVars
<1>5. CASE heap_default[t] = "empty"
  <2>1. t # thread_id /\ thread_id # NoArea /\ key
    BY <1>5 DEF ProRunning, ProHeap, ProKey, P!ProcessAssumption
  <2>2. /\ \/ P!SetDefault(t, "own") /\ UNCHANGED refused
           \/ refused = 0 /\ refused' = 1 /\ UNCHANGED <<heap_default, heap_value>>
        /\ P!Calls(t, <<"count">>) /\ UNCHANGED count
    BY <1>5, <2>1 DEF P!HeapInit, P!IsMainThread
  <2>3. calls'[t] = <<"count">> /\ \A u \in Starters \ {t} : calls'[u] = calls[u]
    BY <1>3, <2>2, ProCallsMove, ConcatEmptySeq
  <2>4. ProCounting' = ProCounting \cup {t} /\ t \notin ProCounting
    BY <1>1, <2>3 DEF ProCounting
  <2>5. Cardinality(ProCounting') = Cardinality(ProCounting) + 1
    BY <2>4, ProRunningTyped, FS_AddElement
  <2>6. \A u \in Starters : calls'[u] \in ProRunningTodos
    BY <2>3 DEF ProRunning, ProRunningTodos
  <2>7. /\ UNCHANGED <<thread_id, cookie, process_init, tls_initialized, key, ready, rounds, gone, count>>
        /\ t \notin gone
    BY <1>2, <1>3, <2>2 DEF P!mainVars, P!startVars, P!endVars, ProcessTyped
  <2>8. CASE P!SetDefault(t, "own") /\ UNCHANGED refused
    <3>1. /\ heap_default'[t] = "own" /\ heap_value'[t] = "own"
          /\ \A u \in Starters \ {t} : heap_default'[u] = heap_default[u] /\ heap_value'[u] = heap_value[u]
      BY <2>1, <2>8 DEF P!SetDefault, ProcessTyped
    <3>2. ProOwn' = ProOwn \cup {t} /\ t \notin ProOwn
      BY <1>5, <3>1 DEF ProOwn
    <3>3. Cardinality(ProOwn') = Cardinality(ProOwn) + 1
      BY <3>2, ProRunningTyped, FS_AddElement
    <3>4. ProCounted => ProCounted'
      <4>1. /\ count \in Int /\ refused \in Nat /\ refused' = refused /\ count' = count
            /\ Cardinality(ProOwn) \in Nat /\ Cardinality(ProCounting) \in Nat
        BY <2>7, <2>8, ProRunningTyped DEF ProcessTyped
      <4>2. QED
        BY <2>5, <3>3, <4>1 DEF ProCounted
    <3>5. \A u \in Starters \ {thread_id'} : ProOwnHeap(u)'
      <4>1. SUFFICES ASSUME NEW u \in Starters \ {thread_id} PROVE ProOwnHeap(u)'
        BY <2>7
      <4>2. CASE u = t
        BY <2>3, <3>1, <4>2 DEF ProOwnHeap
      <4>3. CASE u # t
        BY <2>3, <3>1, <4>1, <4>3 DEF ProOwnHeap, ProRunning
      <4>4. QED
        BY <4>2, <4>3
    <3>6. /\ ready' /\ process_init' /\ ProKey' /\ thread_id' \in Starters /\ cookie' = "random" /\ ProHeap(thread_id)'
          /\ rounds'[thread_id'] = 0 => ProCounted'
      BY <2>1, <2>7, <3>1, <3>4 DEF ProRunning, ProKey, ProHeap
    <3>7. \A u \in gone' : heap_default'[u] = "own" => rounds'[u] = Iterations
      BY <2>7, <3>1 DEF ProRunning, ProcessTyped
    <3>8. QED
      BY <2>6, <2>7, <3>5, <3>6, <3>7 DEF ProRunning
  <2>9. CASE refused = 0 /\ refused' = 1 /\ UNCHANGED <<heap_default, heap_value>>
    <3>1. ProOwn' = ProOwn
      BY <2>9 DEF ProOwn
    <3>2. ProCounted => ProCounted'
      BY <2>5, <2>7, <2>9, <3>1, ProRunningTyped DEF ProCounted, ProcessTyped
    <3>3. \A u \in Starters \ {thread_id'} : ProOwnHeap(u)'
      <4>1. SUFFICES ASSUME NEW u \in Starters \ {thread_id} PROVE ProOwnHeap(u)'
        BY <2>7
      <4>2. CASE u = t
        BY <2>3, <2>9, <4>1, <4>2 DEF ProOwnHeap, ProRunning
      <4>3. CASE u # t
        BY <2>3, <2>9, <4>1, <4>3 DEF ProOwnHeap, ProRunning
      <4>4. QED
        BY <4>2, <4>3
    <3>4. /\ ready' /\ process_init' /\ ProKey' /\ thread_id' \in Starters /\ cookie' = "random" /\ ProHeap(thread_id)'
          /\ rounds'[thread_id'] = 0 => ProCounted'
      BY <2>7, <2>9, <3>2 DEF ProRunning, ProKey, ProHeap
    <3>5. \A u \in gone' : heap_default'[u] = "own" => rounds'[u] = Iterations
      BY <2>7, <2>9 DEF ProRunning
    <3>6. QED
      BY <2>6, <2>7, <3>3, <3>4, <3>5 DEF ProRunning
  <2>10. QED
    BY <2>2, <2>8, <2>9
<1>6. QED
  BY <1>4, <1>5

LEMMA ProRunCount ==
  ASSUME P!ProcessAssumption, ProcessTyped, ProRunning, NEW t \in Starters, P!Count(t)
  PROVE  ProRunning'
<1>1. calls[t] = <<"count">>
  <2>1. calls[t] \in ProRunningTodos /\ calls[t] # <<>> /\ Head(calls[t]) = "count"
    BY DEF ProRunning, P!Count, P!Calling
  <2>2. QED
    BY <2>1 DEF ProRunningTodos
<1>2. /\ P!Calls(t, <<>>) /\ count' = count + 1
      /\ UNCHANGED <<thread_id, cookie, process_init, tls_initialized, key, ready, refused>>
      /\ UNCHANGED <<heap_default, heap_value, rounds, gone>>
  BY DEF P!Count, P!Done, P!mainVars, P!startVars, P!endVars, P!history
<1>3. Tail(calls[t]) = <<>> /\ calls[t] # <<>>
  BY <1>1
<1>4. calls'[t] = <<>> /\ \A u \in Starters \ {t} : calls'[u] = calls[u]
  BY <1>2, <1>3, ProPopsMove
<1>5. ProCounting' = ProCounting \ {t} /\ t \in ProCounting
  BY <1>1, <1>4 DEF ProCounting
<1>6. Cardinality(ProCounting') = Cardinality(ProCounting) - 1
  BY <1>5, ProRunningTyped, FS_RemoveElement
<1>7. ProOwn' = ProOwn
  BY <1>2 DEF ProOwn
<1>8. ProCounted => ProCounted'
  BY <1>2, <1>6, <1>7, ProRunningTyped DEF ProCounted, ProcessTyped
<1>9. \A u \in Starters \ {thread_id'} : ProOwnHeap(u)'
  <2>1. SUFFICES ASSUME NEW u \in Starters \ {thread_id} PROVE ProOwnHeap(u)'
    BY <1>2
  <2>2. CASE u = t
    BY <1>2, <1>4, <2>1, <2>2 DEF ProOwnHeap, ProRunning
  <2>3. CASE u # t
    BY <1>2, <1>4, <2>1, <2>3 DEF ProOwnHeap, ProRunning
  <2>4. QED
    BY <2>2, <2>3
<1>10. \A u \in Starters : calls'[u] \in ProRunningTodos
  BY <1>4 DEF ProRunning, ProRunningTodos
<1>11. /\ ready' /\ process_init' /\ ProKey' /\ thread_id' \in Starters /\ cookie' = "random" /\ ProHeap(thread_id)'
       /\ \A u \in gone' : heap_default'[u] = "own" => rounds'[u] = Iterations
       /\ rounds'[thread_id'] = 0 => ProCounted'
  BY <1>2, <1>8 DEF ProRunning, ProKey, ProHeap
<1>12. QED
  BY <1>2, <1>9, <1>10, <1>11 DEF ProRunning

LEMMA ProRunPthreadDone ==
  ASSUME P!ProcessAssumption, ProcessTyped, ProRunning, NEW t \in Starters, P!PthreadDone(t)
  PROVE  ProRunning'
<1>1. /\ calls[t] = <<>> /\ t \notin gone /\ heap_value[t] # "none" /\ rounds[t] < Iterations
      /\ rounds' = [rounds EXCEPT ![t] = rounds[t] + 1]
      /\ UNCHANGED <<thread_id, cookie, process_init, tls_initialized, key, ready, refused, gone, calls>>
  BY DEF P!PthreadDone, P!mainVars, P!startVars, P!history
<1>2. /\ rounds'[t] = rounds[t] + 1 /\ \A u \in Starters \ {t} : rounds'[u] = rounds[u]
      /\ rounds[t] \in Nat
  BY <1>1 DEF ProcessTyped
<1>3. ProCounting' = ProCounting
  BY <1>1 DEF ProCounting
<1>4. thread_id # NoArea /\ key
  BY DEF ProRunning, ProKey, P!ProcessAssumption
<1>5. CASE t = thread_id
  <2>1. heap_value[t] = "main" /\ heap_default[t] = "main"
    BY <1>5 DEF ProRunning, ProHeap
  <2>2. P!SetDefault(t, "main")
    BY <1>5, <2>1 DEF P!PthreadDone, P!IsMainThread
  <2>3. UNCHANGED <<heap_default, heap_value>>
    BY <1>4, <2>1, <2>2 DEF P!SetDefault, ProcessTyped
  <2>4. rounds'[thread_id'] # 0
    BY <1>1, <1>2, <1>5
  <2>5. \A u \in Starters \ {thread_id'} : ProOwnHeap(u)'
    BY <1>1, <2>3 DEF ProOwnHeap, ProRunning
  <2>6. \A u \in gone' : heap_default'[u] = "own" => rounds'[u] = Iterations
    BY <1>1, <1>2, <2>3 DEF ProRunning, ProcessTyped
  <2>7. /\ ready' /\ process_init' /\ ProKey' /\ thread_id' \in Starters /\ cookie' = "random" /\ ProHeap(thread_id)'
        /\ \A u \in Starters : calls'[u] \in ProRunningTodos
    BY <1>1, <2>3 DEF ProRunning, ProKey, ProHeap
  <2>8. QED
    BY <1>1, <2>4, <2>5, <2>6, <2>7 DEF ProRunning
<1>6. CASE t # thread_id
  <2>1. ProOwnHeap(t) /\ ~P!IsMainThread(t)
    BY <1>4, <1>6 DEF ProRunning, P!IsMainThread
  <2>2. CASE heap_value[t] = "empty"
    <3>1. heap_value' = [heap_value EXCEPT ![t] = "none"] /\ UNCHANGED <<heap_default, count>>
      BY <2>2 DEF P!PthreadDone
    <3>2. heap_value'[t] = "none" /\ \A u \in Starters \ {t} : heap_value'[u] = heap_value[u]
      BY <3>1 DEF ProcessTyped
    <3>3. ProOwn' = ProOwn
      BY <3>1 DEF ProOwn
    <3>4. ProCounted => ProCounted'
      BY <1>1, <1>3, <3>1, <3>3 DEF ProCounted
    <3>5. \A u \in Starters \ {thread_id'} : ProOwnHeap(u)'
      <4>1. SUFFICES ASSUME NEW u \in Starters \ {thread_id} PROVE ProOwnHeap(u)'
        BY <1>1
      <4>2. CASE u = t
        BY <1>1, <2>1, <2>2, <3>1, <3>2, <4>2 DEF ProOwnHeap
      <4>3. CASE u # t
        BY <1>1, <3>1, <3>2, <4>1, <4>3 DEF ProOwnHeap, ProRunning
      <4>4. QED
        BY <4>2, <4>3
    <3>6. \A u \in gone' : heap_default'[u] = "own" => rounds'[u] = Iterations
      BY <1>1, <1>2, <3>1 DEF ProRunning, ProcessTyped
    <3>7. /\ ready' /\ process_init' /\ ProKey' /\ thread_id' \in Starters /\ cookie' = "random" /\ ProHeap(thread_id)'
          /\ \A u \in Starters : calls'[u] \in ProRunningTodos
          /\ rounds'[thread_id'] = 0 => ProCounted'
      BY <1>1, <1>2, <1>6, <3>1, <3>2, <3>4 DEF ProRunning, ProKey, ProHeap
    <3>8. QED
      BY <1>1, <3>5, <3>6, <3>7 DEF ProRunning
  <2>3. CASE heap_value[t] # "empty"
    <3>1. heap_default[t] = "own" /\ heap_value[t] = "own"
      BY <1>1, <2>1, <2>3 DEF ProOwnHeap
    <3>2. P!SetDefault(t, "empty") /\ count' = count - 1
      BY <2>1, <2>3 DEF P!PthreadDone
    <3>3. /\ heap_default'[t] = "empty" /\ heap_value'[t] = "empty"
          /\ \A u \in Starters \ {t} : heap_default'[u] = heap_default[u] /\ heap_value'[u] = heap_value[u]
      BY <1>4, <3>2 DEF P!SetDefault, ProcessTyped
    <3>4. ProOwn' = ProOwn \ {t} /\ t \in ProOwn
      BY <3>1, <3>3 DEF ProOwn
    <3>5. Cardinality(ProOwn') = Cardinality(ProOwn) - 1
      BY <3>4, ProRunningTyped, FS_RemoveElement
    <3>6. ProCounted => ProCounted'
      <4>1. /\ count \in Int /\ refused \in Nat /\ refused' = refused
            /\ Cardinality(ProOwn) \in Nat /\ Cardinality(ProCounting) \in Nat
        BY <1>1, ProRunningTyped DEF ProcessTyped
      <4>2. QED
        BY <1>3, <3>2, <3>5, <4>1 DEF ProCounted
    <3>7. \A u \in Starters \ {thread_id'} : ProOwnHeap(u)'
      <4>1. SUFFICES ASSUME NEW u \in Starters \ {thread_id} PROVE ProOwnHeap(u)'
        BY <1>1
      <4>2. CASE u = t
        BY <1>1, <3>3, <4>2 DEF ProOwnHeap
      <4>3. CASE u # t
        BY <1>1, <3>3, <4>1, <4>3 DEF ProOwnHeap, ProRunning
      <4>4. QED
        BY <4>2, <4>3
    <3>8. \A u \in gone' : heap_default'[u] = "own" => rounds'[u] = Iterations
      BY <1>1, <1>2, <3>3 DEF ProRunning, ProcessTyped
    <3>9. /\ ready' /\ process_init' /\ ProKey' /\ thread_id' \in Starters /\ cookie' = "random" /\ ProHeap(thread_id)'
          /\ \A u \in Starters : calls'[u] \in ProRunningTodos
          /\ rounds'[thread_id'] = 0 => ProCounted'
      BY <1>1, <1>2, <1>6, <3>3, <3>6 DEF ProRunning, ProKey, ProHeap
    <3>10. QED
      BY <1>1, <3>7, <3>8, <3>9 DEF ProRunning
  <2>4. QED
    BY <2>2, <2>3
<1>7. QED
  BY <1>5, <1>6

LEMMA ProRunGone ==
  ASSUME P!ProcessAssumption, ProcessTyped, ProRunning, NEW t \in Starters, P!Gone(t)
  PROVE  ProRunning'
<1>1. /\ heap_value[t] = "none" \/ rounds[t] = Iterations
      /\ gone' = gone \cup {t}
      /\ UNCHANGED <<thread_id, cookie, process_init, tls_initialized, key, ready, refused, rounds, calls>>
      /\ UNCHANGED <<heap_default, heap_value, count>>
  BY DEF P!Gone, P!mainVars, P!startVars, P!history, P!heapVars
<1>2. heap_default[t] = "own" => rounds[t] = Iterations
  BY <1>1 DEF ProRunning, ProOwnHeap, ProHeap
<1>3. ProOwn' = ProOwn /\ ProCounting' = ProCounting
  BY <1>1 DEF ProOwn, ProCounting
<1>4. ProCounted => ProCounted'
  BY <1>1, <1>3 DEF ProCounted
<1>5. \A u \in Starters \ {thread_id'} : ProOwnHeap(u)'
  BY <1>1 DEF ProOwnHeap, ProRunning
<1>6. \A u \in gone' : heap_default'[u] = "own" => rounds'[u] = Iterations
  BY <1>1, <1>2 DEF ProRunning
<1>7. /\ ready' /\ process_init' /\ ProKey' /\ thread_id' \in Starters /\ cookie' = "random" /\ ProHeap(thread_id)'
      /\ \A u \in Starters : calls'[u] \in ProRunningTodos
      /\ rounds'[thread_id'] = 0 => ProCounted'
  BY <1>1, <1>4 DEF ProRunning, ProKey, ProHeap
<1>8. QED
  BY <1>1, <1>5, <1>6, <1>7 DEF ProRunning

-----------------------------------------------------------------------------
(* A step from one phase to the next. *)

\* The phases of a process in which no thread began too early.
ProInPhase == ~met => ProFresh \/ ProRunning \/ \E t \in Starters : ProStarting(t)

LEMMA ProLoadBegins ==
  ASSUME ProcessTyped, ProInPhase, P!ProcessAssumption, P!Load
  PROVE  ProInPhase'
<1> DEFINE q == <<"heap_main_init", "loaded", "auto_thread_done", "process_init">>
           t == Loader
<1>1. /\ t \in Starters /\ calls[t] = <<>> /\ calls' = [calls EXCEPT ![t] = q]
      /\ met' = (met \/ (~ready /\ \E u \in Starters \ {t} : calls[u] # <<>>))
      /\ UNCHANGED <<P!mainVars, P!startVars, P!heapVars, P!endVars, refused, ready>>
  BY DEF P!Load, P!Begin, P!ProcessAssumption
<1>2. calls'[t] = q /\ \A u \in Starters \ {t} : calls'[u] = calls[u]
  BY <1>1 DEF ProcessTyped
<1> HIDE DEF t
<1>3. CASE ProRunning
  <2>1. ProRunning'
    BY <1>1, <1>2, <1>3, ProRunPops DEF ProRunningTodos, P!startVars
  <2>2. QED
    BY <2>1 DEF ProInPhase
<1>4. CASE ProFresh
  <2>1. ProAtHeapMainInit(t, calls[t])'
    BY <1>1, <1>2, <1>4 DEF ProAtHeapMainInit, ProFresh, ProNoMain, ProNoKey, ProNoHeap,
       P!mainVars, P!startVars, P!heapVars
  <2>2. ProStarting(t)'
    BY <1>1, <1>2, <1>4, <2>1 DEF ProStarting, ProStartsUp, ProFresh, ProUnready, ProNoHeap,
       P!heapVars, P!endVars
  <2>3. QED
    BY <1>1, <2>2 DEF ProInPhase
<1>5. ASSUME NEW u \in Starters, ProStarting(u) PROVE met'
  <2>1. calls[u] # <<>> /\ ~ready
    BY <1>5, ProHeadsOfStart DEF ProStarting, ProUnready
  <2>2. QED
    BY <1>1, <2>1
<1>6. QED
  BY <1>1, <1>3, <1>4, <1>5 DEF ProInPhase

LEMMA ProMallocBegins ==
  ASSUME ProcessTyped, ProInPhase, P!ProcessAssumption, NEW t \in Starters, P!Malloc(t)
  PROVE  ProInPhase'
<1> DEFINE q == <<"process_init", "heap_init">>
<1>1. /\ calls[t] = <<>> /\ calls' = [calls EXCEPT ![t] = q] /\ heap_default[t] = "empty"
      /\ met' = (met \/ (~ready /\ \E u \in Starters \ {t} : calls[u] # <<>>))
      /\ UNCHANGED <<P!mainVars, P!startVars, P!heapVars, P!endVars, refused, ready>>
  BY DEF P!Malloc, P!Begin
<1>2. calls'[t] = q /\ \A u \in Starters \ {t} : calls'[u] = calls[u]
  BY <1>1 DEF ProcessTyped
<1>3. CASE ProRunning
  <2>1. ProRunning'
    BY <1>1, <1>2, <1>3, ProRunPops DEF ProRunningTodos, P!startVars
  <2>2. QED
    BY <2>1 DEF ProInPhase
<1>4. CASE ProFresh
  <2>1. ProAtProcessInit(t, calls[t])'
    BY <1>1, <1>2, <1>4 DEF ProAtProcessInit, ProFresh, ProNoMain, ProNoKey, ProNoHeap,
       P!mainVars, P!startVars, P!heapVars
  <2>2. ProStarting(t)'
    BY <1>1, <1>2, <1>4, <2>1 DEF ProStarting, ProStartsUp, ProFresh, ProUnready, ProNoHeap,
       P!heapVars, P!endVars
  <2>3. QED
    BY <1>1, <2>2 DEF ProInPhase
<1>5. ASSUME NEW u \in Starters, ProStarting(u) PROVE met'
  <2>1. calls[u] # <<>> /\ ~ready
    BY <1>5, ProHeadsOfStart DEF ProStarting, ProUnready
  <2>2. QED
    BY <1>1, <2>1
<1>6. QED
  BY <1>1, <1>3, <1>4, <1>5 DEF ProInPhase

LEMMA ProCallInPhase ==
  ASSUME ProcessTyped, ProInPhase, P!ProcessAssumption, NEW t \in Starters,
         \/ P!Preloaded(t) \/ P!HeapMainInit(t) \/ P!HeapMainKeys(t) \/ P!AutoThreadDone(t) \/ P!InitAutoDone(t)
         \/ P!UseMain(t) \/ P!ProcessInit(t) \/ P!OsInit(t) \/ P!Ready(t) \/ P!HeapInit(t) \/ P!Count(t)
  PROVE  ProInPhase'
<1>1. calls[t] # <<>> /\ UNCHANGED met
  BY DEF P!Preloaded, P!HeapMainInit, P!HeapMainKeys, P!AutoThreadDone, P!InitAutoDone,
     P!UseMain, P!ProcessInit,
         P!OsInit, P!Ready, P!HeapInit, P!Count, P!Calling, P!history
<1>2. CASE met
  BY <1>1, <1>2 DEF ProInPhase
<1>3. CASE ProFresh
  BY <1>1, <1>3 DEF ProFresh
<1>4. CASE ProRunning
  BY <1>4, ProRunCalls, ProRunNever, ProRunHeapInit, ProRunCount DEF ProInPhase
<1>5. CASE \E u \in Starters : ProStarting(u)
  <2>1. ProStarting(t)
    BY <1>1, <1>5, ProOnlyStarter
  <2>2. ~P!Count(t)
    BY <2>1, ProHeadsOfStart DEF ProStarting, P!Count, P!Calling
  <2>3. ProStarting(t)' \/ ProRunning'
    BY <2>1, <2>2, ProStartPreloaded, ProStartHeapMainInit, ProStartHeapMainKeys,
       ProStartAutoThreadDone,
       ProStartInitAutoDone, ProStartUseMain, ProStartProcessInit, ProStartOsInit,
       ProStartReady, ProStartHeapInit
  <2>4. QED
    BY <2>3 DEF ProInPhase
<1>6. QED
  BY <1>2, <1>3, <1>4, <1>5 DEF ProInPhase

\* What is neither begun nor ended.
ProStillVars ==
  <<P!mainVars, process_init, tls_initialized, key, P!heapVars, refused, ready, met, calls, rounds>>

LEMMA ProStillInPhase ==
  ASSUME ProInPhase, UNCHANGED ProStillVars,
         ProRunning => \A u \in gone' : heap_default[u] = "own" => rounds[u] = Iterations
  PROVE  ProInPhase'
<1>1. /\ UNCHANGED <<thread_id, cookie, process_init, tls_initialized, key, ready, refused, met>>
      /\ UNCHANGED <<heap_default, heap_value, count, calls, rounds>>
  BY DEF ProStillVars, P!mainVars, P!heapVars
<1>2. ProFresh => ProFresh'
  BY <1>1 DEF ProFresh, ProUnready, ProNoMain, ProNoKey, ProNoHeap
<1>3. ASSUME NEW t \in Starters, ProStarting(t) PROVE ProStarting(t)'
  <2>1. ProStartsUp(t, calls[t])'
    BY <1>1, <1>3 DEF ProStarting, ProStartsUp, ProAtHeapMainInit, ProAtHeapMainKeys,
       ProAtLoaded, ProAtAutoThreadDone,
       ProAtAutoDone, ProAtUseMain, ProAtProcessInit, ProAtOsInit, ProAtHeapInit, ProAtReady,
       ProMain, ProHalfMain, ProNoMain,
       ProKey, ProNoKey, ProHeap, ProNoHeap
  <2>2. QED
    BY <1>1, <1>3, <2>1 DEF ProStarting, ProUnready, ProNoHeap
<1>4. ASSUME ProRunning PROVE ProRunning'
  <2>1. ProOwn' = ProOwn /\ ProCounting' = ProCounting
    BY <1>1 DEF ProOwn, ProCounting
  <2>2. ProCounted => ProCounted'
    BY <1>1, <2>1 DEF ProCounted
  <2>3. \A u \in Starters \ {thread_id'} : ProOwnHeap(u)'
    BY <1>1, <1>4 DEF ProOwnHeap, ProRunning
  <2>4. /\ ready' /\ process_init' /\ ProKey' /\ thread_id' \in Starters /\ cookie' = "random"
        /\ ProHeap(thread_id)' /\ \A u \in Starters : calls'[u] \in ProRunningTodos
        /\ rounds'[thread_id'] = 0 => ProCounted'
    BY <1>1, <1>4, <2>2 DEF ProRunning, ProKey, ProHeap
  <2>5. \A u \in gone' : heap_default'[u] = "own" => rounds'[u] = Iterations
    BY <1>1, <1>4
  <2>6. QED
    BY <2>3, <2>4, <2>5 DEF ProRunning
<1>5. QED
  BY <1>1, <1>2, <1>3, <1>4 DEF ProInPhase

LEMMA ProEndInPhase ==
  ASSUME ProcessTyped, ProInPhase, P!ProcessAssumption, NEW t \in Starters, P!PthreadDone(t) \/ P!Gone(t)
  PROVE  ProInPhase'
<1>1. CASE P!PthreadDone(t)
  <2>1. UNCHANGED met /\ calls[t] = <<>> /\ heap_value[t] # "none"
    BY <1>1 DEF P!PthreadDone, P!history
  <2>2. ~ProFresh
    BY <2>1 DEF ProFresh, ProNoHeap
  <2>3. \A u \in Starters : ~ProStarting(u)
    <3>1. SUFFICES ASSUME NEW u \in Starters, ProStarting(u) PROVE FALSE
      OBVIOUS
    <3>2. u # t
      BY <2>1, <3>1, ProHeadsOfStart DEF ProStarting
    <3>3. QED
      BY <2>1, <3>1, <3>2 DEF ProStarting, ProNoHeap
  <2>4. ProRunning => ProRunning'
    BY <1>1, ProRunPthreadDone
  <2>5. QED
    BY <2>1, <2>2, <2>3, <2>4 DEF ProInPhase
<1>2. CASE P!Gone(t)
  <2>1. UNCHANGED ProStillVars /\ gone' = gone \cup {t} /\ (heap_value[t] = "none" \/ rounds[t] = Iterations)
    BY <1>2 DEF P!Gone, ProStillVars, P!mainVars, P!startVars, P!heapVars, P!history
  <2>2. ProRunning => (heap_default[t] = "own" => rounds[t] = Iterations)
    BY <2>1 DEF ProRunning, ProOwnHeap, ProHeap
  <2>3. ProRunning => \A u \in gone' : heap_default[u] = "own" => rounds[u] = Iterations
    BY <2>1, <2>2 DEF ProRunning
  <2>4. QED
    BY <2>1, <2>3, ProStillInPhase
<1>3. QED
  BY <1>1, <1>2

LEMMA ProSameInPhase ==
  ASSUME ProInPhase, UNCHANGED <<ProStillVars, gone>> PROVE ProInPhase'
<1>1. UNCHANGED ProStillVars /\ gone' = gone
  OBVIOUS
<1>2. ProRunning => \A u \in gone' : heap_default[u] = "own" => rounds[u] = Iterations
  BY <1>1 DEF ProRunning
<1>3. QED
  BY <1>1, <1>2, ProStillInPhase

-----------------------------------------------------------------------------
(* Typing, and the one call of _mi_os_init. *)

\* A call that makes others: none of them is _mi_os_init, but in ProcessInit.
ProMade(t, new) ==
  /\ new \in Seq(ProCallNames) /\ P!Calls(t, new) /\ calls[t] # <<>>
  /\ \A i \in 1 .. Len(new) : new[i] # "os_init"

LEMMA ProNoneMade == \A t : P!Calls(t, <<>>) /\ calls[t] # <<>> => ProMade(t, <<>>)
  BY DEF ProMade

LEMMA ProMadeKeeps ==
  ASSUME ProcessTyped, ProOsOnce, NEW t \in Starters, NEW new, ProMade(t, new),
         UNCHANGED <<rounds, gone, os_inits, met>>,
         process_init' = process_init \/ process_init' = TRUE,
         tls_initialized' \in BOOLEAN, key' \in BOOLEAN, ready' \in BOOLEAN,
         heap_default' \in [Starters -> {"empty", "main", "own"}],
         heap_value' \in [Starters -> {"none", "empty", "main", "own"}],
         count' \in Int, refused' \in Nat
  PROVE  ProcessTyped' /\ ProOsOnce'
<1>1. process_init' \in BOOLEAN /\ (process_init => process_init')
  BY DEF ProcessTyped
<1>2. ProcessTyped'
  BY <1>1, ProTypedCall DEF ProMade
<1>3. ProOsOnce'
  BY <1>1, ProOsOnceStill DEF ProMade
<1>4. QED
  BY <1>2, <1>3

LEMMA ProCallTyped ==
  ASSUME ProcessTyped, ProOsOnce, P!ProcessAssumption, NEW t \in Starters,
         \/ P!Preloaded(t) \/ P!HeapMainInit(t) \/ P!HeapMainKeys(t) \/ P!AutoThreadDone(t) \/ P!InitAutoDone(t)
         \/ P!UseMain(t) \/ P!Ready(t) \/ P!HeapInit(t) \/ P!Count(t)
  PROVE  ProcessTyped' /\ ProOsOnce'
<1>1. <<"heap_main_keys">> \in Seq(ProCallNames) /\ <<"auto_done", "use_main">> \in Seq(ProCallNames)
      /\ <<"count">> \in Seq(ProCallNames) /\ <<"heap_main_init", "use_main", "count">> \in Seq(ProCallNames)
  BY DEF ProCallNames
<1>2. \A u : /\ calls[u] # <<>>
             /\ \/ P!Calls(u, <<>>) \/ P!Calls(u, <<"heap_main_keys">>) \/ P!Calls(u, <<"auto_done", "use_main">>)
                \/ P!Calls(u, <<"count">>) \/ P!Calls(u, <<"heap_main_init", "use_main", "count">>)
             => \E new : ProMade(u, new)
  <2>1. SUFFICES ASSUME NEW u, calls[u] # <<>>, NEW new, P!Calls(u, new),
                        new \in {<<>>, <<"heap_main_keys">>, <<"auto_done", "use_main">>,
                                <<"count">>, <<"heap_main_init", "use_main", "count">>}
                 PROVE  ProMade(u, new)
    OBVIOUS
  <2>2. CASE new = <<>>
    BY <2>1, <2>2, ProNoneMade
  <2>3. CASE new = <<"heap_main_keys">>
    BY <1>1, <2>1, <2>3 DEF ProMade
  <2>4. CASE new = <<"auto_done", "use_main">>
    BY <1>1, <2>1, <2>4 DEF ProMade
  <2>5. CASE new = <<"count">>
    BY <1>1, <2>1, <2>5 DEF ProMade
  <2>6. CASE new = <<"heap_main_init", "use_main", "count">>
    BY <1>1, <2>1, <2>6 DEF ProMade
  <2>7. QED
    BY <2>1, <2>2, <2>3, <2>4, <2>5, <2>6
<1>3. calls[t] # <<>>
  BY DEF P!Preloaded, P!HeapMainInit, P!HeapMainKeys, P!AutoThreadDone, P!InitAutoDone,
     P!UseMain, P!Ready, P!HeapInit,
         P!Count, P!Calling
<1>4. \A h \in {"empty", "main", "own"} : P!SetDefault(t, h) =>
        /\ heap_default' \in [Starters -> {"empty", "main", "own"}]
        /\ heap_value' \in [Starters -> {"none", "empty", "main", "own"}]
  BY DEF P!SetDefault, ProcessTyped
<1>5. CASE P!Preloaded(t)
  BY <1>2, <1>3, <1>5, ProMadeKeeps DEF P!Preloaded, P!Done, P!history, P!heapVars,
     P!endVars, ProcessTyped
<1>6. CASE P!HeapMainInit(t)
  BY <1>2, <1>3, <1>6, ProMadeKeeps DEF P!HeapMainInit, P!Done, P!history, P!heapVars,
     P!endVars, P!startVars, ProcessTyped
<1>7. CASE P!HeapMainKeys(t)
  BY <1>2, <1>3, <1>7, ProMadeKeeps DEF P!HeapMainKeys, P!Done, P!history, P!heapVars,
     P!endVars, P!startVars, ProcessTyped
<1>8. CASE P!AutoThreadDone(t)
  BY <1>2, <1>3, <1>8, ProMadeKeeps DEF P!AutoThreadDone, P!history, P!heapVars, P!endVars,
     P!startVars, ProcessTyped
<1>9. CASE P!InitAutoDone(t)
  BY <1>2, <1>3, <1>9, ProMadeKeeps DEF P!InitAutoDone, P!Done, P!history, P!heapVars,
     P!endVars, ProcessTyped
<1>10. CASE P!UseMain(t)
  BY <1>2, <1>3, <1>4, <1>10, ProMadeKeeps DEF P!UseMain, P!Done, P!history, P!endVars,
     P!startVars, ProcessTyped
<1>11. CASE P!Ready(t)
  BY <1>2, <1>3, <1>11, ProMadeKeeps DEF P!Ready, P!Done, P!heapVars, P!endVars, P!startVars,
     ProcessTyped
<1>12. CASE P!HeapInit(t)
  <2>1. \E new : ProMade(t, new)
    BY <1>2, <1>3, <1>12 DEF P!HeapInit, P!Done
  <2>2. /\ heap_default' \in [Starters -> {"empty", "main", "own"}]
        /\ heap_value' \in [Starters -> {"none", "empty", "main", "own"}]
        /\ count' \in Int /\ refused' \in Nat
    BY <1>4, <1>12 DEF P!HeapInit, P!heapVars, ProcessTyped
  <2>3. QED
    BY <1>12, <2>1, <2>2, ProMadeKeeps DEF P!HeapInit, P!endVars, P!startVars, ProcessTyped
<1>13. CASE P!Count(t)
  <2>1. count' \in Int
    BY <1>13 DEF P!Count, ProcessTyped
  <2>2. QED
    BY <1>2, <1>3, <1>13, <2>1, ProMadeKeeps DEF P!Count, P!Done, P!history, P!endVars,
       P!startVars, ProcessTyped
<1>14. QED
  BY <1>5, <1>6, <1>7, <1>8, <1>9, <1>10, <1>11, <1>12, <1>13

LEMMA ProOsInitKeeps ==
  ASSUME ProcessTyped, ProOsOnce, NEW t \in Starters, P!OsInit(t)
  PROVE  ProcessTyped' /\ ProOsOnce'
<1>1. /\ calls[t] # <<>> /\ Head(calls[t]) = "os_init" /\ calls[t] \in Seq(ProCallNames)
      /\ os_inits' = os_inits + 1 /\ P!Calls(t, <<>>) /\ <<>> \in Seq(ProCallNames)
      /\ UNCHANGED <<process_init, tls_initialized, key, P!heapVars, P!endVars, refused, ready, met>>
  BY DEF P!OsInit, P!Done, P!Calling, P!startVars, ProcessTyped
<1>2. ProcessTyped'
  BY <1>1, ProTypedCall DEF P!heapVars, P!endVars, ProcessTyped
<1>3. ProOsAt(t, 1)
  BY <1>1, EmptySeq, LenProperties, HeadTailProperties DEF ProOsAt
<1>4. process_init /\ os_inits = 0
  BY <1>3 DEF ProOsOnce
<1>5. /\ calls'[t] = Tail(calls[t]) /\ \A u \in Starters \ {t} : calls'[u] = calls[u]
  BY <1>1, ProPopsMove
<1>6. ASSUME NEW u \in Starters, NEW i \in Nat, ProOsAt(u, i)' PROVE FALSE
  <2>1. CASE u = t
    <3>1. /\ Tail(calls[t]) \in Seq(ProCallNames) /\ Len(Tail(calls[t])) = Len(calls[t]) - 1
          /\ \A j \in 1 .. Len(calls[t]) - 1 : Tail(calls[t])[j] = calls[t][j + 1]
          /\ Len(calls[t]) \in Nat \ {0} /\ DOMAIN calls[t] = 1 .. Len(calls[t])
      BY <1>1, EmptySeq, LenProperties, HeadTailProperties
    <3>2. calls[t][i + 1] = "os_init" /\ i + 1 \in 2 .. Len(calls[t])
      <4>1. i \in 1 .. Len(calls[t]) - 1 /\ Tail(calls[t])[i] = "os_init"
        BY <1>5, <1>6, <2>1, <3>1, LenProperties DEF ProOsAt
      <4>2. QED
        BY <3>1, <4>1
    <3>3. ProOsAt(t, i + 1) /\ i + 1 # 1 /\ i + 1 \in Nat
      BY <3>1, <3>2, LenProperties DEF ProOsAt
    <3>4. QED
      BY <1>3, <3>3 DEF ProOsOnce
  <2>2. CASE u # t
    <3>1. ProOsAt(u, i)
      BY <1>5, <1>6, <2>2 DEF ProOsAt
    <3>2. QED
      BY <1>3, <2>2, <3>1 DEF ProOsOnce
  <2>3. QED
    BY <2>1, <2>2
<1>7. ProOsOnce'
  BY <1>1, <1>4, <1>6 DEF ProOsOnce
<1>8. QED
  BY <1>2, <1>7

LEMMA ProcessInitKeeps ==
  ASSUME ProcessTyped, ProOsOnce, NEW t \in Starters, P!ProcessInit(t)
  PROVE  ProcessTyped' /\ ProOsOnce'
<1>1. /\ calls[t] # <<>> /\ process_init' = TRUE
      /\ UNCHANGED <<tls_initialized, key, P!heapVars, P!endVars, P!history>>
  BY DEF P!ProcessInit, P!Calling
<1>2. CASE process_init
  <2>1. ProMade(t, <<>>)
    BY <1>1, <1>2, ProNoneMade DEF P!ProcessInit
  <2>2. QED
    BY <1>1, <1>2, <2>1, ProMadeKeeps DEF P!heapVars, P!endVars, P!history, ProcessTyped
<1>3. CASE ~process_init
  <2> DEFINE five == <<"auto_thread_done", "os_init", "heap_main_init", "heap_init", "ready">>
  <2>0. P!Calls(t, five) /\ five \in Seq(ProCallNames) /\ Len(five) = 5
        /\ \A i \in 1 .. 5 : five[i] = "os_init" => i = 2
    BY <1>1, <1>3 DEF P!ProcessInit, ProCallNames
  <2> HIDE DEF five
  <2>1. PICK new \in Seq(ProCallNames) :
          P!Calls(t, new) /\ Len(new) = 5 /\ \A i \in 1 .. 5 : new[i] = "os_init" => i = 2
    BY <2>0
  <2>2. ProcessTyped'
    BY <1>1, <2>1, ProTypedCall DEF P!heapVars, P!endVars, P!history, ProcessTyped
  <2>3. \A u \in Starters : \A i \in Nat : ~ProOsAt(u, i)
    BY <1>3 DEF ProOsOnce
  <2>4. os_inits = 0 /\ os_inits' = 0
    BY <1>1, <1>3 DEF ProOsOnce, P!history
  <2>5. /\ calls'[t] = new \o Tail(calls[t]) /\ calls[t] \in Seq(ProCallNames)
        /\ \A u \in Starters \ {t} : calls'[u] = calls[u]
    BY <1>1, <2>1, ProCallsMove DEF ProcessTyped
  <2> DEFINE was == calls[t]
             is == new \o Tail(was)
  <2>9. /\ Len(was) \in Nat \ {0} /\ DOMAIN is = 1 .. Len(is) /\ DOMAIN was = 1 .. Len(was)
        /\ \A j \in 1 .. Len(new) : is[j] = new[j]
        /\ \A j \in Len(new) + 1 .. Len(is) :
             is[j] = was[j - Len(new) + 1] /\ j - Len(new) + 1 \in 2 .. Len(was)
    <3> HIDE DEF was, is
    <3>1. is = new \o Tail(was) /\ was \in Seq(ProCallNames) /\ was # <<>>
      BY <1>1, <2>5 DEF was, is
    <3>2. QED
      BY <3>1, ProNewAndRest
  <2>6. ASSUME NEW u \in Starters, NEW i \in Nat, ProOsAt(u, i)' PROVE u = t /\ i = 2
    <3>1. u = t
      BY <2>3, <2>5, <2>6 DEF ProOsAt
    <3>2. i \in 1 .. Len(calls'[t]) /\ calls'[t][i] = "os_init"
      BY <2>5, <2>6, <2>9, <3>1 DEF ProOsAt
    <3>3. CASE i \in 1 .. 5
      <4>1. calls'[t][i] = new[i]
        <5>1. \A j \in 1 .. Len(new) : calls'[t][j] = new[j]
          BY <2>5, <2>9
        <5>2. QED
          BY <2>1, <3>3, <5>1
      <4>2. QED
        BY <2>1, <3>1, <3>2, <3>3, <4>1
    <3>4. CASE i \notin 1 .. 5
      <4>1. i \in 6 .. Len(calls'[t])
        BY <3>2, <3>4
      <4>2. calls[t][i - 4] = "os_init" /\ i - 4 \in 2 .. Len(calls[t]) /\ DOMAIN calls[t] = 1 .. Len(calls[t])
        <5>1. calls'[t][i] = calls[t][i - Len(new) + 1] /\ i - Len(new) + 1 \in 2 .. Len(calls[t])
              /\ DOMAIN calls[t] = 1 .. Len(calls[t])
          BY <2>1, <2>5, <2>9, <3>2, <4>1
        <5>2. i - Len(new) + 1 = i - 4
          BY <2>1, <4>1
        <5>3. QED
          BY <3>2, <5>1, <5>2
      <4>3. ProOsAt(t, i - 4) /\ i - 4 \in Nat
        BY <4>1, <4>2 DEF ProOsAt
      <4>4. QED
        BY <2>3, <4>3
    <3>5. QED
      BY <3>3, <3>4
  <2>7. ProOsOnce'
    BY <1>1, <2>4, <2>6 DEF ProOsOnce
  <2>8. QED
    BY <2>2, <2>7
<1>4. QED
  BY <1>2, <1>3

LEMMA ProBeginsKeep ==
  ASSUME ProcessTyped, ProOsOnce, P!ProcessAssumption, NEW t \in Starters, NEW new \in Seq(ProCallNames),
         \A i \in 1 .. Len(new) : new[i] # "os_init", P!Begin(t, new),
         UNCHANGED <<P!startVars, P!heapVars, P!endVars, os_inits, refused, ready>>
  PROVE  ProcessTyped' /\ ProOsOnce'
<1>1. /\ t \notin gone /\ calls' = [calls EXCEPT ![t] = new] /\ met' \in BOOLEAN
      /\ UNCHANGED <<process_init, tls_initialized, key, ready, refused, os_inits>>
      /\ UNCHANGED <<heap_default, heap_value, count, rounds, gone>>
  BY DEF P!Begin, P!startVars, P!heapVars, P!endVars, ProcessTyped
<1>2. calls' \in [Starters -> Seq(ProCallNames)] /\ \A u \in gone : u \in Starters /\ calls'[u] = <<>>
  BY <1>1 DEF ProcessTyped
<1>3. ProcessTyped'
  BY <1>1, <1>2 DEF ProcessTyped
<1>4. ProOsOnce'
  BY <1>1, ProOsOnceBegins
<1>5. QED
  BY <1>3, <1>4

LEMMA ProEndKeeps ==
  ASSUME ProcessTyped, ProOsOnce, P!ProcessAssumption, NEW t \in Starters, P!PthreadDone(t) \/ P!Gone(t)
  PROVE  ProcessTyped' /\ ProOsOnce'
<1>1. CASE P!PthreadDone(t)
  <2>1. /\ UNCHANGED <<process_init, tls_initialized, key, ready, refused, os_inits, met, gone, calls>>
        /\ rounds' = [rounds EXCEPT ![t] = rounds[t] + 1]
    BY <1>1 DEF P!PthreadDone, P!startVars, P!history
  <2>2. rounds' \in [Starters -> Nat]
    BY <2>1 DEF ProcessTyped
  <2>3. /\ heap_default' \in [Starters -> {"empty", "main", "own"}]
        /\ heap_value' \in [Starters -> {"none", "empty", "main", "own"}]
        /\ count' \in Int
    <3>1. CASE heap_value[t] = "empty"
      BY <1>1, <3>1 DEF P!PthreadDone, ProcessTyped
    <3>2. CASE heap_value[t] # "empty"
      <4>1. PICK rest \in {"main", "empty"} : P!SetDefault(t, rest) /\ count' = count - 1
        BY <1>1, <3>2 DEF P!PthreadDone
      <4>2. count' \in Int
        BY <4>1 DEF ProcessTyped
      <4>3. QED
        BY <4>1, <4>2 DEF P!SetDefault, ProcessTyped
    <3>3. QED
      BY <3>1, <3>2
  <2>4. ProcessTyped'
    BY <2>1, <2>2, <2>3 DEF ProcessTyped
  <2>5. QED
    BY <2>1, <2>4, ProOsOnceSame
<1>2. CASE P!Gone(t)
  <2>1. /\ UNCHANGED <<process_init, tls_initialized, key, ready, refused, os_inits, met, calls>>
        /\ UNCHANGED <<heap_default, heap_value, count, rounds>>
        /\ gone' = gone \cup {t} /\ calls[t] = <<>>
    BY <1>2 DEF P!Gone, P!startVars, P!heapVars, P!history
  <2>2. ProcessTyped'
    BY <2>1 DEF ProcessTyped
  <2>3. QED
    BY <2>1, <2>2, ProOsOnceSame
<1>3. QED
  BY <1>1, <1>2

-----------------------------------------------------------------------------
LEMMA ProcessInvIs == ProcessInv <=> ProcessTyped /\ ProOsOnce /\ ProInPhase
  BY DEF ProcessInv, ProInPhase

LEMMA ProcessBegins == ASSUME P!ProcessAssumption, P!Init PROVE ProcessInv
<1>1. ProcessTyped
  <2>1. <<>> \in Seq(ProCallNames)
    BY EmptySeq
  <2>2. calls \in [Starters -> Seq(ProCallNames)]
    BY <2>1 DEF P!Init
  <2>3. /\ heap_default \in [Starters -> {"empty", "main", "own"}]
        /\ heap_value \in [Starters -> {"none", "empty", "main", "own"}]
        /\ rounds \in [Starters -> Nat] /\ count \in Int /\ refused \in Nat /\ gone = {}
    BY DEF P!Init
  <2>4. QED
    BY <2>2, <2>3 DEF P!Init, ProcessTyped
<1>2. \A t \in Starters : \A i \in Nat : ~ProOsAt(t, i)
  BY DEF P!Init, ProOsAt
<1>3. ProOsOnce
  BY <1>2 DEF ProOsOnce, P!Init
<1>4. ProFresh
  BY DEF ProFresh, P!Init, ProUnready, ProNoMain, ProNoKey, ProNoHeap
<1>5. QED
  BY <1>1, <1>3, <1>4 DEF ProcessInv

LEMMA ProcessSame == ASSUME ProcessInv, UNCHANGED P!vars PROVE ProcessInv'
<1>1. /\ UNCHANGED <<process_init, tls_initialized, key, ready, refused, os_inits, met, gone, calls>>
      /\ UNCHANGED <<heap_default, heap_value, count, rounds, ProStillVars>>
  BY DEF P!vars, P!startVars, P!mainVars, P!heapVars, P!endVars, P!history, ProStillVars
<1>2. ProcessTyped'
  BY <1>1, ProcessInvIs DEF ProcessTyped
<1>3. ProOsOnce'
  BY <1>1, ProOsOnceSame, ProcessInvIs
<1>4. ProInPhase'
  BY <1>1, ProSameInPhase, ProcessInvIs
<1>5. QED
  BY <1>2, <1>3, <1>4, ProcessInvIs DEF ProcessInv, ProInPhase

LEMMA ProcessNext == ASSUME P!ProcessAssumption, ProcessInv, P!Next PROVE ProcessInv'
<1>1. ProcessTyped /\ ProOsOnce /\ ProInPhase
  BY ProcessInvIs
<1>2. CASE P!Load
  <2> DEFINE new == <<"heap_main_init", "loaded", "auto_thread_done", "process_init">>
  <2>1. new \in Seq(ProCallNames) /\ \A i \in 1 .. Len(new) : new[i] # "os_init"
    BY DEF ProCallNames
  <2>2. P!Begin(Loader, new) /\ UNCHANGED <<P!startVars, P!heapVars, P!endVars, os_inits, refused, ready>>
    BY <1>2 DEF P!Load
  <2> HIDE DEF new
  <2>3. ProcessTyped' /\ ProOsOnce'
    BY <1>1, <2>1, <2>2, ProBeginsKeep DEF P!ProcessAssumption
  <2>4. ProInPhase'
    BY <1>1, <1>2, ProLoadBegins
  <2>5. QED
    BY <2>3, <2>4 DEF ProcessInv, ProInPhase
<1>3. CASE P!ProcessDone
  <2>1. /\ UNCHANGED <<process_init, tls_initialized, key, ready, refused, os_inits, met, gone, calls>>
        /\ UNCHANGED <<heap_default, heap_value, count, rounds, ProStillVars>>
    BY <1>3 DEF P!ProcessDone, P!mainVars, P!heapVars, P!endVars, ProStillVars
  <2>2. ProcessTyped'
    BY <1>1, <2>1 DEF ProcessTyped
  <2>3. ProOsOnce'
    BY <1>1, <2>1, ProOsOnceSame
  <2>4. ProInPhase'
    BY <1>1, <2>1, ProSameInPhase
  <2>5. QED
    BY <2>2, <2>3, <2>4 DEF ProcessInv, ProInPhase
<1>4. ASSUME NEW t \in Starters, P!Malloc(t) PROVE ProcessInv'
  <2> DEFINE new == <<"process_init", "heap_init">>
  <2>1. new \in Seq(ProCallNames) /\ \A i \in 1 .. Len(new) : new[i] # "os_init"
    BY DEF ProCallNames
  <2>2. P!Begin(t, new) /\ UNCHANGED <<P!startVars, P!heapVars, P!endVars, os_inits, refused, ready>>
    BY <1>4 DEF P!Malloc
  <2> HIDE DEF new
  <2>3. ProcessTyped' /\ ProOsOnce'
    BY <1>1, <2>1, <2>2, ProBeginsKeep
  <2>4. ProInPhase'
    BY <1>1, <1>4, ProMallocBegins
  <2>5. QED
    BY <2>3, <2>4 DEF ProcessInv, ProInPhase
<1>5. ASSUME NEW t \in Starters, P!PthreadDone(t) \/ P!Gone(t) PROVE ProcessInv'
  BY <1>1, <1>5, ProEndKeeps, ProEndInPhase DEF ProcessInv, ProInPhase
<1>6. ASSUME NEW t \in Starters,
             \/ P!Preloaded(t) \/ P!HeapMainInit(t) \/ P!HeapMainKeys(t) \/ P!AutoThreadDone(t) \/ P!InitAutoDone(t)
             \/ P!UseMain(t) \/ P!ProcessInit(t) \/ P!OsInit(t) \/ P!Ready(t) \/ P!HeapInit(t) \/ P!Count(t)
      PROVE  ProcessInv'
  <2>1. ProInPhase'
    BY <1>1, <1>6, ProCallInPhase
  <2>2. ProcessTyped' /\ ProOsOnce'
    BY <1>1, <1>6, ProCallTyped, ProOsInitKeeps, ProcessInitKeeps
  <2>3. QED
    BY <2>1, <2>2 DEF ProcessInv, ProInPhase
<1>7. QED
  BY <1>2, <1>3, <1>4, <1>5, <1>6 DEF P!Next

LEMMA ProcessTells == ASSUME P!ProcessAssumption, ProcessInv PROVE P!ProcessKeeps
<1>1. os_inits <= 1
  BY DEF ProcessInv, ProOsOnce
<1> DEFINE Claim ==
       /\ \A t \in Starters : heap_default[t] = "main" /\ calls[t] = <<>> =>
            cookie = "random" /\ thread_id = t
       /\ \A t \in gone : heap_default[t] = "own" => rounds[t] = Iterations
       /\ (\A t \in Starters : calls[t] = <<>> /\ (thread_id = t => rounds[t] = 0)) =>
            count = 1 + refused + Cardinality(ProOwn)
<1>2. ASSUME ProRunning PROVE Claim
  <2>1. \A t \in Starters : heap_default[t] = "main" /\ calls[t] = <<>> => cookie = "random" /\ thread_id = t
    BY <1>2 DEF ProRunning, ProOwnHeap
  <2>2. ASSUME \A t \in Starters : calls[t] = <<>> /\ (thread_id = t => rounds[t] = 0)
        PROVE  count = 1 + refused + Cardinality(ProOwn)
    <3>1. ProCounting = {}
      BY <2>2 DEF ProCounting
    <3>2. ProCounted
      BY <1>2, <2>2 DEF ProRunning
    <3>3. QED
      BY <3>1, <3>2, FS_EmptySet DEF ProCounted, ProcessInv, ProcessTyped
  <2>3. QED
    BY <1>2, <2>1, <2>2 DEF ProRunning
<1>3. ASSUME ProFresh PROVE Claim
  <2>1. \A t \in Starters : heap_default[t] = "empty"
    BY <1>3 DEF ProFresh, ProNoHeap
  <2>2. \A t \in gone : t \in Starters
    BY DEF ProcessInv, ProcessTyped
  <2>3. ProOwn = {}
    BY <2>1 DEF ProOwn
  <2>4. count = 1 + refused + Cardinality(ProOwn)
    BY <1>3, <2>3, FS_EmptySet DEF ProFresh, ProUnready
  <2>5. QED
    BY <2>1, <2>2, <2>4
<1>4. ASSUME NEW s \in Starters, ProStarting(s) PROVE Claim
  <2>1. calls[s] # <<>>
    BY <1>4, ProHeadsOfStart DEF ProStarting
  <2>2. \A t \in Starters \ {s} : heap_default[t] = "empty"
    BY <1>4 DEF ProStarting, ProNoHeap
  <2>3. \A t \in gone : t \in Starters /\ t # s
    BY <2>1 DEF ProcessInv, ProcessTyped
  <2>4. QED
    BY <2>1, <2>2, <2>3
<1>5. ~met => Claim
  BY <1>2, <1>3, <1>4 DEF ProcessInv
<1>6. \A X : P!Cardinality(X) = Cardinality(X)
  BY DEF P!Cardinality, Cardinality
<1>7. P!Cardinality(ProOwn) = Cardinality(ProOwn)
  BY <1>6
<1>8. QED
  BY <1>1, <1>5, <1>7 DEF P!ProcessKeeps, ProOwn

-----------------------------------------------------------------------------
(* Allocated blocks.                                                       *)

\* A block as a page gives it, and as the program has it.
BlkPlain ==
  [bs : Nat \ {0}, at : Nat, adjust : Nat, delta : Nat, fill : SUBSET Nat,
   zeros : SUBSET Nat, intact : SUBSET Nat, freed : {FALSE}]
BlkHelds ==
  [bs : Nat \ {0}, at : Nat, adjust : Nat, delta : Nat, fill : SUBSET Nat,
   zeros : SUBSET Nat, intact : SUBSET Nat, freed : {FALSE},
   req : Nat, al : Nat \ {0}, offset : Nat, wrote : SUBSET Nat, zeroed : SUBSET Nat,
   grown : SUBSET Nat, clean : BOOLEAN, tail : BOOLEAN]
BlkFreeds == [bs : Nat \ {0}, delta : Nat, fill : SUBSET Nat, freed : {TRUE}]

\* Where the padding starts.
BlkData(b) == B!UsableBlockSize(b) - b.delta

\* The padding says what was asked for, and is filled as far as it is looked
\* at; that of a block that cannot hold a pointer is short.
BlkPadded(b) ==
  /\ b.fill = B!Verified(b)
  /\ padding => /\ B!UsableBlockSize(b) >= B!Word /\ BlkData(b) >= 1
                /\ BlkData(b) < B!Word => b.delta <= B!MI_MAX_ALIGN_SIZE
  /\ ~padding => b.delta = 0

BlkRoomy(b, n) == BlkPadded(b) /\ b.adjust + n <= BlkData(b)
BlkZeroFrom(b, n) == \A i \in Nat : n <= i /\ i < B!UsableSize(b) => i \in b.zeros
BlkMade(b, n, zero) == b \in BlkPlain /\ BlkRoomy(b, n) /\ (zero => BlkZeroFrom(b, 0))

BlkHeldInv(x) ==
  /\ x \in BlkHelds /\ BlkRoomy(x, x.req)
  /\ (x.at + x.adjust + x.offset) % x.al = 0
  /\ x.wrote \subseteq B!Below(x.req) \cap x.intact
  /\ x.zeroed \subseteq B!Below(x.req) \cap x.zeros
  /\ x.tail => BlkZeroFrom(x, x.req)

BlkFreedInv(x) == x \in BlkFreeds /\ B!Verified(x) \subseteq x.fill

BlocksInv == padding \in BOOLEAN /\ (block = B!NoBlock \/ BlkHeldInv(block) \/ BlkFreedInv(block))

-----------------------------------------------------------------------------
LEMMA BlkDivision ==
  ASSUME NEW m \in Nat \ {0}, NEW n \in Int
  PROVE  /\ n \div m \in Int /\ n % m \in Int /\ 0 <= n % m /\ n % m < m
         /\ n = m * (n \div m) + (n % m)
  OBVIOUS

LEMMA BlkMultiples ==
  ASSUME NEW m \in Nat \ {0}, NEW q \in Int PROVE (m * q) % m = 0
<1> DEFINE d == (m * q) \div m  r == (m * q) % m
<1>0. m * q \in Int
  OBVIOUS
<1>1. d \in Int /\ r \in Int /\ 0 <= r /\ r < m /\ m * q = m * d + r
  BY <1>0, BlkDivision
<1> HIDE DEF d, r
<1> DEFINE e == q - d
<1>2. e \in Int /\ m * e \in Int /\ m * e = r
  BY <1>1
<1> HIDE DEF e
<1>3. CASE e >= 1
  <2>1. m * e >= m
    BY <1>2, <1>3
  <2>2. QED
    BY <1>1, <1>2, <2>1
<1>4. CASE e <= -1
  <2>1. m * e <= -m
    BY <1>2, <1>4
  <2>2. QED
    BY <1>1, <1>2, <2>1
<1>5. CASE e = 0
  BY <1>1, <1>2, <1>5 DEF r
<1>6. QED
  BY <1>2, <1>3, <1>4, <1>5

LEMMA BlkAligns ==
  ASSUME NEW m \in Nat \ {0}, NEW n \in Nat, NEW k \in Nat, (n + k) % m = 0
  PROVE  (n + (k % m)) % m = 0 /\ k % m \in Nat
<1> DEFINE c == (n + k) \div m  d == k \div m
<1>1. c \in Int /\ n + k = m * c
  BY BlkDivision
<1>2. d \in Int /\ k % m \in Int /\ 0 <= k % m /\ k = m * d + (k % m)
  BY BlkDivision
<1> HIDE DEF c, d
<1>3. n + (k % m) = m * (c - d) /\ c - d \in Int
  BY <1>1, <1>2
<1>4. (n + (k % m)) % m = 0
  BY <1>3, BlkMultiples
<1>5. QED
  BY <1>2, <1>4

\* What is added to align inside a block.
LEMMA BlkAdjusts ==
  ASSUME NEW al, B!PowerOfTwo(al), NEW n \in Nat, NEW k, k = (al - (n % al)) % al
  PROVE  k \in Nat /\ k <= al - 1 /\ (n + k) % al = 0 /\ al \in Nat \ {0}
<1>1. CASE al = 1
  BY <1>1
<1>2. CASE al = 2
  BY <1>2
<1>3. CASE al = 4
  BY <1>3
<1>4. CASE al = 8
  BY <1>4
<1>5. CASE al = 16
  BY <1>5
<1>6. CASE al = 32
  BY <1>6
<1>7. QED
  BY <1>1, <1>2, <1>3, <1>4, <1>5, <1>6 DEF B!PowerOfTwo

\* Blocks start at multiples of their size, as far as an address is counted.
LEMMA BlkBegins ==
  ASSUME NEW al \in {1, 2, 4, 8}, NEW c \in Nat, c % al = 0,
         NEW k \in B!Below(B!AddressRange \div B!Word)
  PROVE  (k * c) % B!AddressRange \in Nat /\ ((k * c) % B!AddressRange) % al = 0
<1>1. k \in {0, 1, 2, 3}
  BY DEF B!Below, B!AddressRange, B!Word
<1>2. PICK x : x = k * c
  OBVIOUS
<1>3. x \in Nat /\ (k = 0 => x = 0) /\ (k = 1 => x = c) /\ (k = 2 => x = 2 * c) /\ (k = 3 => x = 3 * c)
  BY <1>1, <1>2
<1>4. x % 8 \in Nat /\ (x % 8) % al = 0
  <2>1. CASE al = 1
    BY <1>3, <2>1
  <2>2. CASE al = 2
    BY <1>1, <1>3, <2>2
  <2>3. CASE al = 4
    BY <1>1, <1>3, <2>3
  <2>4. CASE al = 8
    BY <1>1, <1>3, <2>4
  <2>5. QED
    BY <2>1, <2>2, <2>3, <2>4
<1>5. QED
  BY <1>2, <1>4 DEF B!AddressRange

-----------------------------------------------------------------------------
LEMMA BlkBelowIs == ASSUME NEW n \in Int, NEW i PROVE i \in B!Below(n) <=> i \in Nat /\ i < n
  BY DEF B!Below

\* The smallest block size that fits.
LEMMA BlkSmallest ==
  ASSUME B!BlocksAssumption, NEW n \in Nat,
         NEW fits, fits = {c \in BlockSizes : c >= n}, fits # {},
         NEW bs, bs = CHOOSE c \in fits : \A d \in fits : c <= d
  PROVE  /\ bs \in Nat \ {0} /\ bs \in BlockSizes /\ bs >= n
         /\ \A d \in BlockSizes : d >= n => bs <= d
         /\ n <= 4 => bs <= 4
         /\ bs % 2 = 0 /\ (bs = 2 \/ bs % 4 = 0)
         /\ n \in 1 .. B!MI_MAX_ALIGN_GUARANTEE /\ n % 8 = 0 => bs = n
<1>1. fits \in SUBSET Nat
  BY DEF B!BlocksAssumption
<1>2. \E c \in fits : \A d \in fits : c <= d
  BY <1>1, LeastIs
<1>3. bs \in fits /\ \A d \in fits : bs <= d
  BY <1>2
<1>4. /\ bs \in Nat \ {0} /\ bs \in BlockSizes /\ bs >= n /\ \A d \in BlockSizes : d >= n => bs <= d
  <2>1. \A d : d \in fits <=> d \in BlockSizes /\ d >= n
    OBVIOUS
  <2>2. BlockSizes \subseteq Nat \ {0}
    BY DEF B!BlocksAssumption
  <2>3. QED
    BY <1>3, <2>1, <2>2
<1>5. n <= 4 => bs <= 4
  <2>1. 4 \in BlockSizes
    BY DEF B!BlocksAssumption, B!Word
  <2>2. QED
    BY <1>4, <2>1
<1>6. bs = 2 \/ bs % 4 = 0
  BY <1>4 DEF B!BlocksAssumption, B!Word
<1>7. bs % 2 = 0
  BY <1>4, <1>6
<1>8. ASSUME n \in 1 .. B!MI_MAX_ALIGN_GUARANTEE, n % 8 = 0 PROVE bs = n
  <2>1. n \in 1 .. B!Smaller(bs, B!MI_MAX_ALIGN_GUARANTEE)
    BY <1>4, <1>8 DEF B!Smaller, B!MI_MAX_ALIGN_GUARANTEE, B!MI_MAX_ALIGN_SIZE
  <2>2. n \in BlockSizes
    BY <1>4, <1>8, <2>1 DEF B!BlocksAssumption, B!Word
  <2>3. QED
    BY <1>4, <2>2
<1>9. QED
  BY <1>4, <1>5, <1>6, <1>7, <1>8

LEMMA BlkPaddingIs == /\ B!MI_PADDING_SIZE \in {0, 2} /\ (padding => B!MI_PADDING_SIZE = 2)
                      /\ (~padding => B!MI_PADDING_SIZE = 0)
  BY DEF B!MI_PADDING_SIZE

\* What a page may give for n units.
LEMMA BlkPageGives ==
  ASSUME B!BlocksAssumption, padding \in BOOLEAN, NEW n \in Nat, NEW zero \in BOOLEAN,
         NEW b \in B!BlocksFor(n, zero)
  PROVE  /\ BlkMade(b, n, zero) /\ b.adjust = 0
         /\ \A al \in {1, 2, 4, 8} : b.bs % al = 0 => b.at % al = 0
         /\ b.bs % 2 = 0 /\ (b.bs = 2 \/ b.bs % 4 = 0) /\ b.bs >= n + B!MI_PADDING_SIZE
         /\ n + B!MI_PADDING_SIZE \in 1 .. B!MI_MAX_ALIGN_GUARANTEE /\ (n + B!MI_PADDING_SIZE) % 8 = 0 =>
              b.bs = n + B!MI_PADDING_SIZE
<1> DEFINE size == IF padding /\ n = 0 THEN B!Word ELSE n
           fits == {c \in BlockSizes : c >= size + B!MI_PADDING_SIZE}
           bs == CHOOSE c \in fits : \A d \in fits : c <= d
           room == bs - B!MI_PADDING_SIZE
           delta == IF padding THEN room - size ELSE 0
           fill == {size + i : i \in B!Below(B!Smaller(delta, B!MI_MAX_ALIGN_SIZE))}
           zeros == IF zero THEN B!Below(room) ELSE {}
<1>1. /\ size \in Nat /\ size >= n /\ (padding => size >= 1) /\ (n > 0 => size = n)
      /\ size + B!MI_PADDING_SIZE \in Nat
  BY BlkPaddingIs DEF B!Word
<1>2. fits # {} /\ \E k \in B!Below(B!AddressRange \div B!Word) :
        b = [bs |-> bs, at |-> (k * bs) % B!AddressRange, adjust |-> 0, delta |-> delta,
             fill |-> fill, zeros |-> zeros, intact |-> {}, freed |-> FALSE]
  BY DEF B!BlocksFor
<1> HIDE DEF size
<1>3. /\ bs \in Nat \ {0} /\ bs >= size + B!MI_PADDING_SIZE
      /\ size + B!MI_PADDING_SIZE <= 4 => bs <= 4
      /\ bs % 2 = 0 /\ (bs = 2 \/ bs % 4 = 0)
      /\ size + B!MI_PADDING_SIZE \in 1 .. B!MI_MAX_ALIGN_GUARANTEE /\ (size + B!MI_PADDING_SIZE) % 8 = 0 =>
           bs = size + B!MI_PADDING_SIZE
  <2> HIDE DEF fits
  <2>1. fits = {c \in BlockSizes : c >= size + B!MI_PADDING_SIZE}
    BY DEF fits
  <2>2. QED
    BY <1>1, <1>2, <2>1, BlkSmallest
<1> HIDE DEF bs, fits
<1>4. room \in Nat /\ delta \in Nat /\ (~padding => delta = 0) /\ (padding => room - delta = size)
      /\ room - delta >= size
  BY <1>1, <1>3, BlkPaddingIs
<1> HIDE DEF room, delta
<1>5. fill \subseteq Nat /\ zeros \subseteq Nat
  BY <1>1, <1>4 DEF B!Below
<1> HIDE DEF zeros
<1>6. PICK k \in B!Below(B!AddressRange \div B!Word) :
        b = [bs |-> bs, at |-> (k * bs) % B!AddressRange, adjust |-> 0, delta |-> delta,
             fill |-> fill, zeros |-> zeros, intact |-> {}, freed |-> FALSE]
  BY <1>2
<1>7. /\ b.bs = bs /\ b.at = (k * bs) % B!AddressRange /\ b.adjust = 0 /\ b.delta = delta
      /\ b.fill = fill /\ b.zeros = zeros
  <2> HIDE DEF fill
  <2>1. QED
    BY <1>6
<1>8. (k * bs) % B!AddressRange \in Nat /\ \A al \in {1, 2, 4, 8} : bs % al = 0 => b.at % al = 0
  <2>1. bs % 1 = 0 /\ (k * bs) % B!AddressRange \in Nat
    BY <1>3, BlkBegins
  <2>2. QED
    BY <1>3, <1>7, <2>1, BlkBegins
<1>9. b \in BlkPlain
  <2> HIDE DEF fill
  <2>1. {} \in SUBSET Nat
    OBVIOUS
  <2>2. QED
    BY <1>3, <1>4, <1>5, <1>6, <1>8, <2>1 DEF BlkPlain
<1>10. B!UsableBlockSize(b) = room /\ BlkData(b) = room - delta
  BY <1>7 DEF B!UsableBlockSize, BlkData, room
<1>11. b.fill = B!Verified(b)
  <2>1. CASE padding
    BY <1>1, <1>4, <1>7, <1>10, <2>1 DEF B!Verified
  <2>2. CASE ~padding
    <3>1. B!Smaller(delta, B!MI_MAX_ALIGN_SIZE) = 0 /\ B!Below(0) = {}
      BY <1>4, <2>2 DEF B!Smaller, B!MI_MAX_ALIGN_SIZE, B!Below
    <3>2. QED
      BY <1>7, <3>1 DEF B!Verified
  <2>3. QED
    BY <2>1, <2>2
<1>12. BlkPadded(b)
  <2>1. CASE padding
    <3>0. room >= 2
      <4>1. bs >= 3 /\ bs % 2 = 0
        BY <1>1, <1>3, <2>1, BlkPaddingIs
      <4>2. bs >= 4
        BY <1>3, <4>1
      <4>3. QED
        BY <1>3, <4>2, BlkPaddingIs DEF room
    <3>1. BlkData(b) = size /\ size >= 1
      BY <1>1, <1>4, <1>10, <2>1
    <3>2. ASSUME size < 2 PROVE delta <= 4
      <4>1. room <= 4
        BY <1>1, <1>3, <3>2, BlkPaddingIs DEF room
      <4>2. QED
        BY <1>1, <1>4, <2>1, <4>1
    <3>3. QED
      BY <1>7, <1>10, <1>11, <2>1, <3>0, <3>1, <3>2 DEF BlkPadded, B!Word, B!MI_MAX_ALIGN_SIZE
  <2>2. CASE ~padding
    BY <1>4, <1>7, <1>11, <2>2 DEF BlkPadded
  <2>3. QED
    BY <2>1, <2>2
<1>13. BlkRoomy(b, n)
  BY <1>1, <1>4, <1>7, <1>10, <1>12 DEF BlkRoomy
<1>14. zero => BlkZeroFrom(b, 0)
  BY <1>4, <1>7, <1>10, BlkBelowIs DEF BlkZeroFrom, B!UsableSize, zeros
<1>15. BlkMade(b, n, zero)
  BY <1>9, <1>13, <1>14 DEF BlkMade
<1>16. ASSUME n + B!MI_PADDING_SIZE \in 1 .. B!MI_MAX_ALIGN_GUARANTEE, (n + B!MI_PADDING_SIZE) % 8 = 0
       PROVE  b.bs = n + B!MI_PADDING_SIZE
  <2>1. n # 0
    BY <1>16, BlkPaddingIs
  <2>2. size = n
    BY <1>1, <2>1
  <2>3. QED
    BY <1>3, <1>7, <1>16, <2>2
<1>17. b.bs >= n + B!MI_PADDING_SIZE
  BY <1>1, <1>3, <1>7, BlkPaddingIs
<1>18. QED
  BY <1>3, <1>7, <1>8, <1>15, <1>16, <1>17


LEMMA BlkPlainFields ==
  ASSUME NEW b \in BlkPlain
  PROVE  /\ b.bs \in Nat \ {0} /\ b.at \in Nat /\ b.adjust \in Nat /\ b.delta \in Nat
         /\ b.fill \subseteq Nat /\ b.zeros \subseteq Nat /\ b.intact \subseteq Nat
         /\ B!UsableBlockSize(b) = b.bs - B!MI_PADDING_SIZE /\ B!UsableBlockSize(b) \in Int
         /\ BlkData(b) = B!UsableBlockSize(b) - b.delta /\ B!UsableSize(b) = BlkData(b) - b.adjust
         /\ BlkData(b) \in Int
<1>1. /\ b.bs \in Nat \ {0} /\ b.at \in Nat /\ b.adjust \in Nat /\ b.delta \in Nat
      /\ b.fill \subseteq Nat /\ b.zeros \subseteq Nat /\ b.intact \subseteq Nat
  BY DEF BlkPlain
<1>2. B!UsableBlockSize(b) = b.bs - B!MI_PADDING_SIZE /\ B!UsableBlockSize(b) \in Int
  BY <1>1, BlkPaddingIs DEF B!UsableBlockSize
<1>3. BlkData(b) = B!UsableBlockSize(b) - b.delta /\ BlkData(b) \in Int
  BY <1>1, <1>2 DEF BlkData
<1>4. B!UsableSize(b) = BlkData(b) - b.adjust
  BY <1>3 DEF B!UsableSize
<1>5. QED
  BY <1>1, <1>2, <1>3, <1>4

\* The pointer is aligned inside the block, which has room for that.
LEMMA BlkAdjustFits ==
  ASSUME padding \in BOOLEAN, NEW n \in Nat, NEW al, B!PowerOfTwo(al), NEW offset \in Nat,
         NEW zero \in BOOLEAN, NEW b, BlkMade(b, n + al - 1, zero), b.adjust = 0
  PROVE  /\ BlkMade(B!Adjust(b, n, al, offset), n, zero)
         /\ (B!Adjust(b, n, al, offset).at + B!Adjust(b, n, al, offset).adjust + offset) % al = 0
<1> DEFINE adjust == (al - ((b.at + offset) % al)) % al
           zeros == IF b.zeros = {} THEN {} ELSE B!Below(B!UsableBlockSize(b) - adjust)
           moved == [b EXCEPT !.adjust = adjust, !.zeros = zeros]
<1>1. b \in BlkPlain /\ BlkPadded(b) /\ n + al - 1 <= BlkData(b) /\ (zero => BlkZeroFrom(b, 0))
  <2>1. b \in BlkPlain /\ BlkPadded(b) /\ 0 + (n + al - 1) <= BlkData(b) /\ (zero => BlkZeroFrom(b, 0))
    BY DEF BlkMade, BlkRoomy
  <2>2. al \in Nat
    BY DEF B!PowerOfTwo
  <2>3. QED
    BY <2>1, <2>2
<1>2. /\ adjust \in Nat /\ adjust <= al - 1 /\ (b.at + offset + adjust) % al = 0 /\ al \in Nat \ {0}
      /\ b.at + adjust + offset = b.at + offset + adjust
  <2>1. b.at \in Nat /\ b.at + offset \in Nat
    BY <1>1, BlkPlainFields
  <2>2. adjust \in Nat /\ adjust <= al - 1 /\ (b.at + offset + adjust) % al = 0 /\ al \in Nat \ {0}
    BY <2>1, BlkAdjusts
  <2>3. QED
    BY <2>1, <2>2
<1> HIDE DEF adjust
<1>3. B!Adjust(b, n, al, offset) = IF adjust = 0 THEN b ELSE B!Shrink(moved, adjust + n)
  BY DEF B!Adjust, adjust
<1>4. CASE adjust = 0
  <2>1. B!Adjust(b, n, al, offset) = b
    BY <1>3, <1>4
  <2>2. BlkMade(b, n, zero)
    BY <1>1, <1>2, <1>4, BlkPlainFields DEF BlkMade, BlkRoomy
  <2>3. QED
    BY <1>2, <1>4, <2>1, <2>2
<1>5. CASE adjust # 0
  <2>1. zeros \subseteq Nat
    BY DEF B!Below
  <2> HIDE DEF zeros
  <2>2. /\ moved \in BlkPlain /\ moved.adjust = adjust /\ moved.zeros = zeros /\ moved.at = b.at
        /\ moved.bs = b.bs /\ moved.delta = b.delta /\ moved.fill = b.fill
    BY <1>1, <1>2, <2>1 DEF BlkPlain
  <2>3. /\ B!UsableBlockSize(moved) = B!UsableBlockSize(b) /\ BlkData(moved) = BlkData(b)
        /\ B!Verified(moved) = B!Verified(b) /\ B!UsableSize(moved) = BlkData(b) - adjust
    BY <2>2 DEF B!UsableBlockSize, BlkData, B!Verified, B!UsableSize
  <2> HIDE DEF moved
  <2>4. B!Adjust(b, n, al, offset) = moved
    <3>1. B!UsableBlockSize(moved) - moved.delta >= adjust + n
      BY <1>1, <1>2, <2>2, <2>3, BlkPlainFields DEF BlkData
    <3>2. QED
      BY <1>3, <1>5, <3>1 DEF B!Shrink
  <2>5. BlkRoomy(moved, n)
    <3>1. BlkPadded(moved)
      BY <1>1, <2>2, <2>3 DEF BlkPadded
    <3>2. adjust + n <= BlkData(b)
      BY <1>1, <1>2, BlkPlainFields
    <3>3. QED
      BY <2>2, <2>3, <3>1, <3>2 DEF BlkRoomy
  <2>6. ASSUME zero PROVE BlkZeroFrom(moved, 0)
    <3> SUFFICES ASSUME NEW i \in Nat, i < B!UsableSize(moved) PROVE i \in moved.zeros
      BY DEF BlkZeroFrom
    <3>1. /\ BlkData(b) \in Int /\ B!UsableBlockSize(b) \in Int /\ B!UsableBlockSize(b) - adjust \in Int
          /\ b.delta \in Nat /\ BlkData(b) = B!UsableBlockSize(b) - b.delta
          /\ B!UsableSize(b) = BlkData(b) - b.adjust
      BY <1>1, <1>2, BlkPlainFields
    <3>2. i < B!UsableBlockSize(b) - adjust /\ i < B!UsableSize(b)
      BY <1>2, <2>3, <3>1
    <3>3. i \in b.zeros
      BY <1>1, <2>6, <3>2 DEF BlkZeroFrom
    <3>4. i \in B!Below(B!UsableBlockSize(b) - adjust)
      BY <3>1, <3>2, BlkBelowIs
    <3>5. QED
      BY <2>2, <3>3, <3>4 DEF zeros
  <2>7. QED
    BY <1>2, <2>2, <2>4, <2>5, <2>6 DEF BlkMade
<1>6. QED
  BY <1>4, <1>5

\* A block that is made for n units, with its offset aligned.
BlkMadeAt(b, n, al, offset, zero) == BlkMade(b, n, zero) /\ (b.at + b.adjust + offset) % al = 0

LEMMA BlkPageAligns ==
  ASSUME B!BlocksAssumption, padding \in BOOLEAN, NEW n \in Nat, NEW zero \in BOOLEAN,
         NEW b \in B!BlocksFor(n, zero), NEW al \in {1, 2, 4, 8}, b.bs % al = 0
  PROVE  BlkMadeAt(b, n, al, 0, zero)
<1>1. BlkMade(b, n, zero) /\ b.adjust = 0 /\ b.at % al = 0
  BY BlkPageGives
<1>2. b.at \in Nat
  BY <1>1, BlkPlainFields DEF BlkMade
<1>3. b.at + b.adjust + 0 = b.at
  BY <1>1, <1>2
<1>4. QED
  BY <1>1, <1>3 DEF BlkMadeAt

LEMMA BlkFallbackFits ==
  ASSUME B!BlocksAssumption, padding \in BOOLEAN, NEW n \in Nat, NEW al \in Alignments, B!PowerOfTwo(al),
         NEW offset \in Nat, NEW zero \in BOOLEAN, NEW b \in B!Fallback(n, al, offset, zero)
  PROVE  BlkMadeAt(b, n, al, offset, zero)
<1> DEFINE padsize == n + B!MI_PADDING_SIZE
           asis == offset = 0 /\ al <= padsize /\ padsize <= B!MI_MAX_ALIGN_GUARANTEE /\ padsize % al = 0
<1>1. al \in {1, 2, 4, 8}
  BY DEF B!BlocksAssumption, B!PowerOfTwo, B!AddressRange
<1>2. padsize \in Nat
  BY BlkPaddingIs
<1>3. CASE asis
  <2>1. b \in B!BlocksFor(n, zero)
    BY <1>3 DEF B!Fallback
  <2>2. /\ b.bs % 2 = 0 /\ (b.bs = 2 \/ b.bs % 4 = 0) /\ b.bs >= padsize
        /\ padsize \in 1 .. B!MI_MAX_ALIGN_GUARANTEE /\ padsize % 8 = 0 => b.bs = padsize
        /\ b.bs \in Nat
    <3>1. BlkMade(b, n, zero) /\ b.bs % 2 = 0 /\ (b.bs = 2 \/ b.bs % 4 = 0) /\ b.bs >= padsize
          /\ (padsize \in 1 .. B!MI_MAX_ALIGN_GUARANTEE /\ padsize % 8 = 0 => b.bs = padsize)
      BY <2>1, BlkPageGives
    <3>2. QED
      BY <3>1, BlkPlainFields DEF BlkMade
  <2>3. b.bs % al = 0
    <3>1. CASE al = 1
      BY <2>2, <3>1
    <3>2. CASE al = 2
      BY <2>2, <3>2
    <3>3. CASE al = 4
      BY <1>2, <1>3, <2>2, <3>3
    <3>4. CASE al = 8
      BY <1>2, <1>3, <2>2, <3>4
    <3>5. QED
      BY <1>1, <3>1, <3>2, <3>3, <3>4
  <2>4. QED
    BY <1>1, <1>3, <2>1, <2>3, BlkPageAligns
<1>4. CASE ~asis
  <2>1. PICK c \in B!BlocksFor(n + al - 1, zero) : b = B!Adjust(c, n, al, offset)
    BY <1>4 DEF B!Fallback
  <2>2. n + al - 1 \in Nat
    BY <1>1
  <2>3. BlkMade(c, n + al - 1, zero) /\ c.adjust = 0
    BY <2>2, BlkPageGives
  <2>4. QED
    BY <2>1, <2>3, BlkAdjustFits DEF BlkMadeAt
<1>5. QED
  BY <1>3, <1>4

LEMMA BlkAlignedAtFits ==
  ASSUME B!BlocksAssumption, padding \in BOOLEAN, NEW n \in Nat, NEW al \in Alignments,
         NEW offset \in Nat, NEW zero \in BOOLEAN, NEW b \in B!AlignedAt(n, al, offset, zero)
  PROVE  BlkMadeAt(b, n, al, offset, zero)
<1>1. B!PowerOfTwo(al)
  BY DEF B!AlignedAt
<1>2. b \in B!Fallback(n, al, offset, zero) \/ (b \in B!BlocksFor(n, zero) /\ (b.at + offset) % al = 0)
  BY DEF B!AlignedAt
<1>3. ASSUME b \in B!BlocksFor(n, zero), (b.at + offset) % al = 0 PROVE BlkMadeAt(b, n, al, offset, zero)
  <2>1. BlkMade(b, n, zero) /\ b.adjust = 0
    BY <1>3, BlkPageGives
  <2>2. b.at \in Nat
    BY <2>1, BlkPlainFields DEF BlkMade
  <2>3. b.at + b.adjust + offset = b.at + offset
    BY <2>1, <2>2
  <2>4. QED
    BY <1>3, <2>1, <2>3 DEF BlkMadeAt
<1>4. QED
  BY <1>1, <1>2, <1>3, BlkFallbackFits

LEMMA BlkAlignedFits ==
  ASSUME B!BlocksAssumption, padding \in BOOLEAN, NEW n \in Nat, NEW al \in Alignments,
         NEW b \in B!Aligned(n, al)
  PROVE  BlkMadeAt(b, n, al, 0, FALSE)
<1> DEFINE natural == IF padding THEN \/ al = B!Word
                                      \/ al = B!MI_MAX_ALIGN_SIZE /\ 2 * n > B!MI_MAX_ALIGN_SIZE
                                 ELSE B!PowerOfTwo(n) /\ n >= al
<1>1. B!PowerOfTwo(al) /\ al \in {1, 2, 4, 8}
  <2>1. B!PowerOfTwo(al)
    BY DEF B!Aligned
  <2>2. QED
    BY <2>1 DEF B!BlocksAssumption, B!PowerOfTwo, B!AddressRange
<1>2. CASE natural /\ n <= B!MI_SMALL_SIZE_MAX
  <2>1. b \in B!BlocksFor(n, FALSE)
    BY <1>1, <1>2 DEF B!Aligned
  <2>2. /\ b.bs % 2 = 0 /\ (b.bs = 2 \/ b.bs % 4 = 0) /\ b.bs >= n + B!MI_PADDING_SIZE
        /\ n + B!MI_PADDING_SIZE \in 1 .. B!MI_MAX_ALIGN_GUARANTEE /\ (n + B!MI_PADDING_SIZE) % 8 = 0 =>
             b.bs = n + B!MI_PADDING_SIZE
        /\ b.bs \in Nat
    <3>1. FALSE \in BOOLEAN
      OBVIOUS
    <3>2. /\ BlkMade(b, n, FALSE) /\ b.bs % 2 = 0 /\ (b.bs = 2 \/ b.bs % 4 = 0)
          /\ b.bs >= n + B!MI_PADDING_SIZE
          /\ (n + B!MI_PADDING_SIZE \in 1 .. B!MI_MAX_ALIGN_GUARANTEE /\ (n + B!MI_PADDING_SIZE) % 8 = 0 =>
                b.bs = n + B!MI_PADDING_SIZE)
      BY <2>1, <3>1, BlkPageGives
    <3>3. QED
      BY <3>2, BlkPlainFields DEF BlkMade
  <2>3. b.bs % al = 0
    <3>1. CASE al = 1
      BY <2>2, <3>1
    <3>2. CASE al = 2
      BY <2>2, <3>2
    <3>3. CASE al = 4
      <4>1. n + B!MI_PADDING_SIZE > 2
        BY <1>2, <3>3, BlkPaddingIs DEF B!Word, B!MI_MAX_ALIGN_SIZE
      <4>2. QED
        BY <2>2, <3>3, <4>1, BlkPaddingIs
    <3>4. CASE al = 8
      <4>1. ~padding /\ n = 8
        BY <1>2, <3>4 DEF B!Word, B!MI_MAX_ALIGN_SIZE, B!PowerOfTwo, B!MI_SMALL_SIZE_MAX
      <4>2. n + B!MI_PADDING_SIZE = 8
        BY <4>1, BlkPaddingIs
      <4>3. b.bs = 8
        BY <2>2, <4>2 DEF B!MI_MAX_ALIGN_GUARANTEE, B!MI_MAX_ALIGN_SIZE
      <4>4. QED
        BY <3>4, <4>3
    <3>5. QED
      BY <1>1, <3>1, <3>2, <3>3, <3>4
  <2>4. QED
    BY <1>1, <2>1, <2>3, BlkPageAligns
<1>3. CASE ~(natural /\ n <= B!MI_SMALL_SIZE_MAX)
  <2>1. b \in B!AlignedAt(n, al, 0, FALSE)
    BY <1>1, <1>3 DEF B!Aligned
  <2>2. QED
    BY <2>1, BlkAlignedAtFits
<1>4. QED
  BY <1>2, <1>3


-----------------------------------------------------------------------------
(* What the program has. *)

\* A block, in the program's hands or not yet.
BlkTyped(b) ==
  /\ b.bs \in Nat \ {0} /\ b.at \in Nat /\ b.adjust \in Nat /\ b.delta \in Nat
  /\ b.fill \in SUBSET Nat /\ b.zeros \in SUBSET Nat /\ b.intact \in SUBSET Nat

LEMMA BlkTypedPlain == ASSUME NEW b \in BlkPlain PROVE BlkTyped(b)
  BY BlkPlainFields DEF BlkTyped

LEMMA BlkTypedHeld == ASSUME NEW b \in BlkHelds PROVE BlkTyped(b)
  BY DEF BlkTyped, BlkHelds

LEMMA BlkSizes ==
  ASSUME NEW b, BlkTyped(b)
  PROVE  /\ B!UsableBlockSize(b) = b.bs - B!MI_PADDING_SIZE /\ B!UsableBlockSize(b) \in Int
         /\ BlkData(b) = B!UsableBlockSize(b) - b.delta /\ BlkData(b) \in Int
         /\ B!UsableSize(b) = BlkData(b) - b.adjust /\ B!UsableSize(b) \in Int
<1>1. B!UsableBlockSize(b) = b.bs - B!MI_PADDING_SIZE /\ B!UsableBlockSize(b) \in Int
  BY BlkPaddingIs DEF B!UsableBlockSize, BlkTyped
<1>2. BlkData(b) = B!UsableBlockSize(b) - b.delta /\ BlkData(b) \in Int
  BY <1>1 DEF BlkData, BlkTyped
<1>3. B!UsableSize(b) = BlkData(b) - b.adjust /\ B!UsableSize(b) \in Int
  BY <1>1, <1>2 DEF B!UsableSize, BlkTyped, BlkData
<1>4. QED
  BY <1>1, <1>2, <1>3

LEMMA BlkGivenHolds ==
  ASSUME NEW b, BlkTyped(b), NEW n \in Nat, BlkRoomy(b, n), NEW al \in Nat \ {0}, NEW offset \in Nat,
         (b.at + b.adjust + offset) % al = 0,
         NEW wrote, wrote \subseteq B!Below(n) \cap b.intact,
         NEW zeroed, zeroed \subseteq B!Below(n) \cap b.zeros, NEW grown \in SUBSET Nat,
         NEW clean \in BOOLEAN, NEW tail \in BOOLEAN, tail => BlkZeroFrom(b, n)
  PROVE  BlkHeldInv(B!Given(b, n, al, offset, wrote, zeroed, grown, clean, tail))
<1> DEFINE g == B!Given(b, n, al, offset, wrote, zeroed, grown, clean, tail)
<1>1. /\ g.bs = b.bs /\ g.at = b.at /\ g.adjust = b.adjust /\ g.delta = b.delta /\ g.fill = b.fill
      /\ g.zeros = b.zeros /\ g.intact = b.intact /\ g.req = n /\ g.al = al
      /\ g.offset = offset % al /\ g.wrote = wrote /\ g.zeroed = zeroed
  BY DEF B!Given
<1>2. g.tail = tail
  BY DEF B!Given
<1>3. (b.at + b.adjust + (offset % al)) % al = 0 /\ offset % al \in Nat
  <2>1. b.at + b.adjust \in Nat
    BY DEF BlkTyped
  <2>2. QED
    BY <2>1, BlkAligns
<1>4. g \in BlkHelds
  <2>1. wrote \in SUBSET Nat /\ zeroed \in SUBSET Nat
    BY DEF B!Below
  <2>2. QED
    BY <1>3, <2>1 DEF B!Given, BlkHelds, BlkTyped
<1>5. /\ B!UsableBlockSize(g) = B!UsableBlockSize(b) /\ BlkData(g) = BlkData(b) /\ B!Verified(g) = B!Verified(b)
      /\ B!UsableSize(g) = B!UsableSize(b)
  BY <1>1 DEF B!UsableBlockSize, BlkData, B!Verified, B!UsableSize
<1> HIDE DEF g
<1>6. BlkRoomy(g, g.req)
  BY <1>1, <1>5 DEF BlkRoomy, BlkPadded
<1>7. (g.at + g.adjust + g.offset) % g.al = 0
  BY <1>1, <1>3
<1>8. g.wrote \subseteq B!Below(g.req) \cap g.intact /\ g.zeroed \subseteq B!Below(g.req) \cap g.zeros
  BY <1>1
<1>9. g.tail => BlkZeroFrom(g, g.req)
  <2>1. ASSUME tail PROVE BlkZeroFrom(g, g.req)
    BY <1>1, <1>5, <2>1 DEF BlkZeroFrom
  <2>2. QED
    BY <1>2, <2>1
<1>10. BlkHeldInv(g)
  BY <1>4, <1>6, <1>7, <1>8, <1>9 DEF BlkHeldInv
<1>11. QED
  BY <1>10 DEF g

LEMMA BlkTotalIs ==
  ASSUME B!BlocksAssumption, NEW num \in Counts, NEW size \in Elements, NEW n \in B!Total(num, size)
  PROVE  n = num * size /\ n \in Nat
<1>1. num \in Nat /\ size \in Nat
  BY DEF B!BlocksAssumption
<1>2. n = num * size
  BY DEF B!Total
<1>3. QED
  BY <1>1, <1>2

\* What is zero from the start is zero as far as the program asked for it.
LEMMA BlkZeroFits ==
  ASSUME NEW b, BlkTyped(b), NEW n \in Nat, BlkRoomy(b, n), BlkZeroFrom(b, 0)
  PROVE  B!Below(n) \subseteq B!Below(n) \cap b.zeros /\ BlkZeroFrom(b, n)
<1>1. n <= B!UsableSize(b) /\ B!UsableSize(b) \in Int
  BY BlkSizes DEF BlkRoomy, BlkTyped
<1>2. ASSUME NEW i \in B!Below(n) PROVE i \in b.zeros
  BY <1>1, BlkBelowIs DEF BlkZeroFrom
<1>3. BlkZeroFrom(b, n)
  BY DEF BlkZeroFrom
<1>4. QED
  BY <1>2, <1>3

\* A block that is new, zeroed or not.
LEMMA BlkNewHolds ==
  ASSUME NEW zero \in BOOLEAN, NEW n \in Nat, NEW al \in Nat \ {0}, NEW offset \in Nat,
         NEW b, BlkMadeAt(b, n, al, offset, zero)
  PROVE  BlkHeldInv(B!Given(b, n, al, offset, {}, IF zero THEN B!Below(n) ELSE {}, {}, zero, zero))
<1> DEFINE zeroed == IF zero THEN B!Below(n) ELSE {}
<1>1. BlkTyped(b) /\ BlkRoomy(b, n) /\ (b.at + b.adjust + offset) % al = 0
  BY BlkTypedPlain DEF BlkMadeAt, BlkMade
<1>2. zeroed \subseteq B!Below(n) \cap b.zeros /\ (zero => BlkZeroFrom(b, n))
  <2>1. CASE zero
    <3>1. BlkZeroFrom(b, 0)
      BY <2>1 DEF BlkMadeAt, BlkMade
    <3>2. QED
      BY <1>1, <2>1, <3>1, BlkZeroFits
  <2>2. CASE ~zero
    BY <2>2
  <2>3. QED
    BY <2>1, <2>2
<1>3. {} \subseteq B!Below(n) \cap b.intact /\ {} \in SUBSET Nat
  OBVIOUS
<1> HIDE DEF zeroed
<1>4. BlkHeldInv(B!Given(b, n, al, offset, {}, zeroed, {}, zero, zero))
  BY <1>1, <1>2, <1>3, BlkGivenHolds
<1>5. QED
  BY <1>4 DEF zeroed

LEMMA BlkMallocHolds ==
  ASSUME B!BlocksAssumption, padding \in BOOLEAN, NEW num \in Counts, NEW size \in Elements,
         NEW zero \in BOOLEAN, B!Malloc(num, size, zero)
  PROVE  BlkHeldInv(block')
<1>1. PICK n \in B!Total(num, size) : \E b \in B!BlocksFor(n, zero) :
        block' = B!Given(b, num * size, 1, 0, {}, IF zero THEN B!Below(num * size) ELSE {}, {}, zero, zero)
  BY DEF B!Malloc
<1>2. n = num * size /\ n \in Nat
  BY BlkTotalIs
<1>3. PICK b \in B!BlocksFor(n, zero) :
        block' = B!Given(b, n, 1, 0, {}, IF zero THEN B!Below(n) ELSE {}, {}, zero, zero)
  BY <1>1, <1>2
<1>4. BlkMadeAt(b, n, 1, 0, zero)
  <2>1. BlkMade(b, n, zero)
    BY <1>2, BlkPageGives
  <2>2. b.bs \in Nat
    BY <2>1, BlkPlainFields DEF BlkMade
  <2>3. b.bs % 1 = 0
    BY <2>2
  <2>4. QED
    BY <1>2, <2>3, BlkPageAligns
<1>5. BlkHeldInv(B!Given(b, n, 1, 0, {}, IF zero THEN B!Below(n) ELSE {}, {}, zero, zero))
  BY <1>2, <1>4, BlkNewHolds
<1>6. QED
  BY <1>3, <1>5

LEMMA BlkMallocAlignedHolds ==
  ASSUME B!BlocksAssumption, padding \in BOOLEAN, NEW n \in Nat, NEW al \in Alignments,
         NEW offset \in Nat, NEW zero \in BOOLEAN, B!MallocAligned(n, al, offset, zero)
  PROVE  BlkHeldInv(block')
<1>1. PICK b \in B!AlignedAt(n, al, offset, zero)
                   \cup (IF offset = 0 /\ ~zero THEN B!Aligned(n, al) ELSE {}) :
        block' = B!Given(b, n, al, offset, {}, IF zero THEN B!Below(n) ELSE {}, {}, zero, zero)
  BY DEF B!MallocAligned
<1>2. BlkMadeAt(b, n, al, offset, zero)
  <2>1. CASE b \in B!AlignedAt(n, al, offset, zero)
    BY <2>1, BlkAlignedAtFits
  <2>2. CASE b \in B!Aligned(n, al) /\ offset = 0 /\ ~zero
    <3>1. BlkMadeAt(b, n, al, 0, FALSE)
      BY <2>2, BlkAlignedFits
    <3>2. offset = 0 /\ zero = FALSE
      BY <2>2
    <3>3. QED
      BY <3>1, <3>2
  <2>3. QED
    BY <1>1, <2>1, <2>2
<1>3. al \in Nat \ {0}
  BY DEF B!BlocksAssumption
<1>4. BlkHeldInv(B!Given(b, n, al, offset, {}, IF zero THEN B!Below(n) ELSE {}, {}, zero, zero))
  BY <1>2, <1>3, BlkNewHolds
<1>5. QED
  BY <1>1, <1>4


\* A new block that something was copied into.
BlkFilled(b, intact, zeros) == [b EXCEPT !.intact = intact, !.zeros = zeros]

LEMMA BlkFilledHas ==
  ASSUME NEW b \in BlkPlain, NEW intact \in SUBSET Nat, NEW zeros \in SUBSET Nat,
         NEW c, c = BlkFilled(b, intact, zeros)
  PROVE  /\ c \in BlkPlain /\ c.intact = intact /\ c.zeros = zeros
         /\ c.at = b.at /\ c.adjust = b.adjust
         /\ \A n \in Nat : BlkRoomy(b, n) => BlkRoomy(c, n)
<1>1. /\ c \in BlkPlain /\ c.intact = intact /\ c.zeros = zeros /\ c.bs = b.bs /\ c.at = b.at
      /\ c.adjust = b.adjust /\ c.delta = b.delta /\ c.fill = b.fill
  BY DEF BlkPlain, BlkFilled
<1>2. B!UsableBlockSize(c) = B!UsableBlockSize(b) /\ BlkData(c) = BlkData(b) /\ B!Verified(c) = B!Verified(b)
  BY <1>1 DEF B!UsableBlockSize, BlkData, B!Verified
<1>3. QED
  BY <1>1, <1>2 DEF BlkRoomy, BlkPadded

LEMMA BlkStrndupHolds ==
  ASSUME B!BlocksAssumption, padding \in BOOLEAN, NEW m \in Nat, NEW n \in Nat, B!Strndup(m, n)
  PROVE  BlkHeldInv(block')
<1> DEFINE len == B!Smaller(m, n)
<1>1. len \in Nat /\ len + 1 \in Nat
  BY DEF B!Smaller
<1>2. PICK b \in B!BlocksFor(len + 1, FALSE) :
        block' = B!Given([b EXCEPT !.intact = B!Below(len), !.zeros = {len}], len + 1, 1, 0,
                   B!Below(len), {len}, {}, FALSE, FALSE)
  BY DEF B!Strndup
<1> HIDE DEF len
<1>3. BlkMade(b, len + 1, FALSE)
  <2>1. FALSE \in BOOLEAN
    OBVIOUS
  <2>2. QED
    BY <1>1, <2>1, BlkPageGives
<1>4. PICK c : c = BlkFilled(b, B!Below(len), {len})
  OBVIOUS
<1>5. B!Below(len) \in SUBSET Nat /\ {len} \in SUBSET Nat /\ {} \in SUBSET Nat
  BY <1>1 DEF B!Below
<1>6. /\ c \in BlkPlain /\ c.intact = B!Below(len) /\ c.zeros = {len} /\ c.at = b.at /\ c.adjust = b.adjust
      /\ BlkRoomy(c, len + 1)
  <2>1. b \in BlkPlain /\ BlkRoomy(b, len + 1)
    BY <1>3 DEF BlkMade
  <2>2. /\ c \in BlkPlain /\ c.intact = B!Below(len) /\ c.zeros = {len} /\ c.at = b.at
        /\ c.adjust = b.adjust /\ \A k \in Nat : BlkRoomy(b, k) => BlkRoomy(c, k)
    BY <1>4, <1>5, <2>1, BlkFilledHas
  <2>3. QED
    BY <1>1, <2>1, <2>2
<1>7. BlkTyped(c)
  BY <1>6, BlkTypedPlain
<1>8. (c.at + c.adjust + 0) % 1 = 0
  BY <1>7 DEF BlkTyped
<1>9. B!Below(len) \subseteq B!Below(len + 1) \cap c.intact /\ {len} \subseteq B!Below(len + 1) \cap c.zeros
  BY <1>1, <1>6, BlkBelowIs
<1>10. 1 \in Nat \ {0} /\ 0 \in Nat /\ FALSE \in BOOLEAN
  OBVIOUS
<1>11. BlkHeldInv(B!Given(c, len + 1, 1, 0, B!Below(len), {len}, {}, FALSE, FALSE))
  BY <1>1, <1>5, <1>6, <1>7, <1>8, <1>9, <1>10, BlkGivenHolds
<1>12. QED
  BY <1>2, <1>4, <1>11 DEF BlkFilled

LEMMA BlkWriteHolds == ASSUME BlkHeldInv(block), B!Write PROVE BlkHeldInv(block')
<1> DEFINE all == B!Below(block.req)  zeros == block.zeros \ B!Below(block.req)
<1>1. block' = [block EXCEPT !.intact = all, !.wrote = all, !.zeros = zeros, !.zeroed = {}, !.grown = {}]
  BY DEF B!Write
<1>2. block \in BlkHelds /\ block.zeros \in SUBSET Nat /\ block.req \in Nat
  BY DEF BlkHeldInv, BlkHelds
<1>3. all \in SUBSET Nat /\ zeros \in SUBSET Nat /\ {} \in SUBSET Nat
  BY <1>2 DEF B!Below
<1> HIDE DEF all, zeros
<1>4. /\ block' \in BlkHelds
      /\ block'.bs = block.bs /\ block'.at = block.at /\ block'.adjust = block.adjust /\ block'.delta = block.delta /\ block'.fill = block.fill
      /\ block'.req = block.req /\ block'.al = block.al /\ block'.offset = block.offset
      /\ block'.intact = all /\ block'.wrote = all /\ block'.zeros = zeros /\ block'.zeroed = {}
  BY <1>1, <1>2, <1>3 DEF BlkHelds
<1>5. block'.tail = block.tail
  BY <1>1, <1>2 DEF BlkHelds
<1>7. PICK q1 : q1 = block'
  OBVIOUS
<1>8. /\ B!UsableBlockSize(q1) = B!UsableBlockSize(block) /\ BlkData(q1) = BlkData(block) /\ B!Verified(q1) = B!Verified(block)
      /\ B!UsableSize(q1) = B!UsableSize(block)
  BY <1>4, <1>7 DEF B!UsableBlockSize, BlkData, B!Verified, B!UsableSize
<1>9. BlkRoomy(q1, q1.req) /\ (q1.at + q1.adjust + q1.offset) % q1.al = 0
  BY <1>4, <1>7, <1>8 DEF BlkHeldInv, BlkRoomy, BlkPadded
<1>10. q1.wrote \subseteq B!Below(q1.req) \cap q1.intact /\ q1.zeroed \subseteq B!Below(q1.req) \cap q1.zeros
  BY <1>4, <1>7 DEF all
<1>11. q1.tail => BlkZeroFrom(q1, q1.req)
  <2>1. ASSUME block.tail PROVE BlkZeroFrom(q1, q1.req)
    <3>1. BlkZeroFrom(block, block.req)
      BY <2>1 DEF BlkHeldInv
    <3>2. ASSUME NEW i \in Nat, block.req <= i, i < B!UsableSize(block) PROVE i \in zeros
      BY <1>2, <3>1, <3>2, BlkBelowIs DEF BlkZeroFrom, zeros
    <3>3. QED
      BY <1>4, <1>7, <1>8, <3>2 DEF BlkZeroFrom
  <2>2. QED
    BY <1>5, <1>7, <2>1
<1>12. BlkHeldInv(q1)
  BY <1>4, <1>7, <1>9, <1>10, <1>11 DEF BlkHeldInv
<1>13. QED
  BY <1>7, <1>12


\* A block that the program has resized: p itself, or another one.
LEMMA BlkResizedHolds ==
  ASSUME BlkHeldInv(block), NEW b, BlkTyped(b), b = block \/ b \in BlkPlain,
         NEW n \in Nat, BlkRoomy(b, n), NEW al \in Nat \ {0}, NEW offset \in Nat,
         (b.at + b.adjust + offset) % al = 0, NEW zero \in BOOLEAN, NEW from,
         \A i \in Nat : i < n /\ i < block.req /\ i \in block.intact => i \in b.intact,
         \A i \in Nat : i < n /\ i < block.req /\ i \in block.zeros => i \in b.zeros,
         zero => \A i \in Nat : block.req <= i /\ i < n /\ i \notin B!Below(from) => i \in b.zeros
  PROVE  BlkHeldInv(B!Resized(b, n, al, offset, zero, from))
<1> DEFINE told == IF zero /\ block.clean THEN B!Below(n) \ B!Below(block.req) ELSE {}
           wrote == block.wrote \cap B!Below(n)
           zeroed == (block.zeroed \cap B!Below(n)) \cup (told \ B!Below(from))
           grown == (block.grown \cap B!Below(n)) \cup told
           clean == block.clean /\ zero
           tail == block.tail /\ b = block /\ n >= block.req
<1>1. block \in BlkHelds /\ block.req \in Nat /\ block.grown \in SUBSET Nat
  BY DEF BlkHeldInv, BlkHelds
<1>2. wrote \subseteq B!Below(n) \cap b.intact
  <2>1. block.wrote \subseteq B!Below(block.req) \cap block.intact
    BY DEF BlkHeldInv
  <2>2. QED
    BY <1>1, <2>1, BlkBelowIs
<1>3. zeroed \subseteq B!Below(n) \cap b.zeros
  <2>1. block.zeroed \subseteq B!Below(block.req) \cap block.zeros
    BY DEF BlkHeldInv
  <2>2. block.zeroed \cap B!Below(n) \subseteq B!Below(n) \cap b.zeros
    BY <1>1, <2>1, BlkBelowIs
  <2>3. told \ B!Below(from) \subseteq B!Below(n) \cap b.zeros
    <3>1. CASE zero
      <4>1. told \subseteq B!Below(n) \ B!Below(block.req)
        BY Zenon
      <4>2. QED
        BY <1>1, <3>1, <4>1, BlkBelowIs
    <3>2. CASE ~zero
      BY <3>2
    <3>3. QED
      BY <3>1, <3>2
  <2>4. QED
    BY <2>2, <2>3
<1>4. grown \in SUBSET Nat
  <2>1. told \subseteq Nat
    BY DEF B!Below
  <2>2. QED
    BY <1>1, <2>1
<1>5. tail => BlkZeroFrom(b, n)
  <2>1. ASSUME block.tail, b = block, n >= block.req PROVE BlkZeroFrom(b, n)
    <3>1. BlkZeroFrom(block, block.req)
      BY <2>1 DEF BlkHeldInv
    <3>2. QED
      BY <1>1, <2>1, <3>1 DEF BlkZeroFrom
  <2>2. QED
    BY <2>1
<1>6. clean \in BOOLEAN /\ tail \in BOOLEAN
  OBVIOUS
<1>7. B!Resized(b, n, al, offset, zero, from) = B!Given(b, n, al, offset, wrote, zeroed, grown, clean, tail)
  BY DEF B!Resized
<1> HIDE DEF told, wrote, zeroed, grown, clean, tail
<1>8. BlkHeldInv(B!Given(b, n, al, offset, wrote, zeroed, grown, clean, tail))
  BY <1>2, <1>3, <1>4, <1>5, <1>6, BlkGivenHolds
<1>9. QED
  BY <1>7, <1>8

\* What the program has, in numbers.
LEMMA BlkHeldFields ==
  ASSUME NEW x, BlkHeldInv(x)
  PROVE  /\ x \in BlkHelds /\ BlkTyped(x) /\ x.req \in Nat /\ x.al \in Nat \ {0} /\ x.offset \in Nat
         /\ x.req <= B!UsableSize(x) /\ B!UsableSize(x) \in Nat
         /\ x.intact \in SUBSET Nat /\ x.zeros \in SUBSET Nat /\ BlkPadded(x)
<1>1. /\ x \in BlkHelds /\ x.req \in Nat /\ x.al \in Nat \ {0} /\ x.offset \in Nat
      /\ x.intact \in SUBSET Nat /\ x.zeros \in SUBSET Nat /\ x.adjust \in Nat
  BY DEF BlkHeldInv, BlkHelds
<1>2. BlkTyped(x) /\ BlkPadded(x) /\ x.adjust + x.req <= BlkData(x)
  BY <1>1, BlkTypedHeld DEF BlkHeldInv, BlkRoomy
<1>3. BlkData(x) \in Int /\ B!UsableSize(x) = BlkData(x) - x.adjust
  BY <1>2, BlkSizes
<1>4. x.req <= B!UsableSize(x) /\ B!UsableSize(x) \in Nat
  BY <1>1, <1>2, <1>3
<1>5. QED
  BY <1>1, <1>2, <1>4

LEMMA BlkInPlaceHolds ==
  ASSUME BlkHeldInv(block), NEW n \in Nat, n <= B!UsableSize(block), NEW al \in Nat \ {0}, NEW offset \in Nat,
         (block.at + block.adjust + offset) % al = 0, NEW zero \in BOOLEAN, B!InPlace(n, al, offset, zero)
  PROVE  BlkHeldInv(block')
<1> DEFINE from == IF block.tail THEN block.req ELSE n
<1>1. /\ BlkTyped(block) /\ block.req \in Nat /\ BlkPadded(block) /\ B!UsableSize(block) \in Nat
      /\ B!UsableSize(block) = BlkData(block) - block.adjust /\ BlkData(block) \in Int /\ block.adjust \in Nat
  BY BlkHeldFields, BlkSizes DEF BlkTyped
<1>2. BlkRoomy(block, n)
  BY <1>1 DEF BlkRoomy
<1>3. ASSUME NEW i \in Nat, block.req <= i, i < n, i \notin B!Below(from) PROVE i \in block.zeros
  <2>1. CASE block.tail
    <3>1. BlkZeroFrom(block, block.req)
      BY <2>1 DEF BlkHeldInv
    <3>2. QED
      BY <1>1, <1>3, <3>1 DEF BlkZeroFrom
  <2>2. CASE ~block.tail
    BY <1>3, <2>2, BlkBelowIs
  <2>3. QED
    BY <2>1, <2>2
<1>4. block' = B!Resized(block, n, al, offset, zero, from)
  BY DEF B!InPlace
<1> HIDE DEF from
<1>5. BlkHeldInv(B!Resized(block, n, al, offset, zero, from))
  BY <1>1, <1>2, <1>3, BlkResizedHolds
<1>6. QED
  BY <1>4, <1>5

LEMMA BlkMoveHolds ==
  ASSUME BlkHeldInv(block), NEW n \in Nat, NEW al \in Nat \ {0}, NEW offset \in Nat, NEW zero \in BOOLEAN,
         NEW b, BlkMadeAt(b, n, al, offset, FALSE), B!Move(b, n, al, offset, zero)
  PROVE  BlkHeldInv(block')
<1> DEFINE size == B!UsableSize(block)
           begin == IF size >= B!Word THEN size - B!Word ELSE 0
           copied == B!Below(B!Smaller(n, size))
           cleared == IF zero /\ n > size THEN B!Below(n) \ B!Below(begin)
                      ELSE IF n = 0 THEN {0} ELSE {}
           intact == block.intact \cap copied
           zeros == (cleared \ copied) \cup (block.zeros \cap copied)
           from == IF block.tail THEN block.req ELSE size
<1>1. /\ block.req \in Nat /\ block.req <= size /\ size \in Nat
      /\ block.intact \in SUBSET Nat /\ block.zeros \in SUBSET Nat
  BY BlkHeldFields
<1>2. b \in BlkPlain /\ BlkRoomy(b, n) /\ (b.at + b.adjust + offset) % al = 0
  BY DEF BlkMadeAt, BlkMade
<1> HIDE DEF size
<1>3. B!Smaller(n, size) \in Nat /\ \A i \in Nat : i \in copied <=> i < n /\ i < size
  BY <1>1, BlkBelowIs DEF B!Smaller
<1>4. cleared \subseteq Nat
  BY DEF B!Below
<1>5. ASSUME zero, NEW i \in Nat, i >= size, i < n PROVE i \in cleared \ copied
  <2>1. begin \in Nat /\ begin <= size
    BY <1>1 DEF B!Word
  <2>2. i \in B!Below(n) /\ i \notin B!Below(begin) /\ n > size
    BY <1>1, <1>5, <2>1, BlkBelowIs
  <2>3. QED
    BY <1>1, <1>3, <1>5, <2>2
<1> HIDE DEF copied, cleared
<1>6. intact \in SUBSET Nat /\ zeros \in SUBSET Nat
  BY <1>1, <1>4
<1>7. PICK c : c = BlkFilled(b, intact, zeros)
  OBVIOUS
<1>8. block' = B!Resized(c, n, al, offset, zero, from)
  BY <1>7 DEF B!Move, size, copied, cleared, BlkFilled
<1> HIDE DEF intact, zeros
<1>9. /\ c \in BlkPlain /\ c.intact = intact /\ c.zeros = zeros /\ c.at = b.at /\ c.adjust = b.adjust
      /\ BlkRoomy(c, n)
  <2>1. b \in BlkPlain
    BY <1>2
  <2>2. PICK i1 \in SUBSET Nat : i1 = intact
    BY <1>6
  <2>3. PICK z1 \in SUBSET Nat : z1 = zeros
    BY <1>6
  <2>4. c = BlkFilled(b, i1, z1)
    BY <1>7, <2>2, <2>3
  <2>5. /\ c \in BlkPlain /\ c.intact = i1 /\ c.zeros = z1 /\ c.at = b.at
        /\ c.adjust = b.adjust /\ \A k \in Nat : BlkRoomy(b, k) => BlkRoomy(c, k)
    BY <2>1, <2>4, BlkFilledHas
  <2>6. QED
    BY <1>2, <2>2, <2>3, <2>5
<1>10. BlkTyped(c) /\ (c.at + c.adjust + offset) % al = 0
  BY <1>2, <1>9, BlkTypedPlain
<1>11. \A i \in Nat : i < n /\ i < block.req /\ i \in block.intact => i \in c.intact
  BY <1>1, <1>3, <1>9 DEF intact
<1>12. \A i \in Nat : i < n /\ i < block.req /\ i \in block.zeros => i \in c.zeros
  BY <1>1, <1>3, <1>9 DEF zeros
<1>13. ASSUME zero, NEW i \in Nat, block.req <= i, i < n, i \notin B!Below(from) PROVE i \in c.zeros
  <2>1. CASE i >= size
    BY <1>5, <1>9, <1>13, <2>1 DEF zeros
  <2>2. CASE i < size
    <3>1. block.tail
      BY <1>1, <1>13, <2>2, BlkBelowIs
    <3>2. i \in block.zeros
      BY <1>13, <2>2, <3>1 DEF BlkHeldInv, BlkZeroFrom, size
    <3>3. QED
      BY <1>3, <1>9, <1>13, <2>2, <3>2 DEF zeros
  <2>3. QED
    BY <1>1, <2>1, <2>2
<1> HIDE DEF from
<1>14. BlkHeldInv(B!Resized(c, n, al, offset, zero, from))
  BY <1>9, <1>10, <1>11, <1>12, <1>13, BlkResizedHolds
<1>15. QED
  BY <1>8, <1>14


LEMMA BlkReallocHolds ==
  ASSUME B!BlocksAssumption, padding \in BOOLEAN, BlkHeldInv(block), NEW num \in Counts, NEW size \in Elements,
         NEW zero \in BOOLEAN, B!Realloc(num, size, zero)
  PROVE  BlkHeldInv(block')
<1>1. PICK n \in B!Total(num, size) :
        \/ n <= B!UsableSize(block) /\ B!InPlace(n, 1, 0, zero)
        \/ \E b \in B!BlocksFor(n, FALSE) : B!Move(b, n, 1, 0, zero)
  BY DEF B!Realloc
<1>2. n \in Nat /\ 1 \in Nat \ {0} /\ 0 \in Nat /\ FALSE \in BOOLEAN
  BY BlkTotalIs
<1>3. CASE n <= B!UsableSize(block) /\ B!InPlace(n, 1, 0, zero)
  <2>1. (block.at + block.adjust + 0) % 1 = 0
    BY BlkHeldFields DEF BlkTyped
  <2>2. QED
    BY <1>2, <1>3, <2>1, BlkInPlaceHolds
<1>4. ASSUME NEW b \in B!BlocksFor(n, FALSE), B!Move(b, n, 1, 0, zero) PROVE BlkHeldInv(block')
  <2>1. BlkMade(b, n, FALSE)
    BY <1>2, BlkPageGives
  <2>2. b.bs % 1 = 0
    BY <2>1, BlkPlainFields DEF BlkMade
  <2>3. BlkMadeAt(b, n, 1, 0, FALSE)
    BY <1>2, <2>2, BlkPageAligns
  <2>4. QED
    BY <1>2, <1>4, <2>3, BlkMoveHolds
<1>5. QED
  BY <1>1, <1>3, <1>4

LEMMA BlkReallocAlignedAtHolds ==
  ASSUME B!BlocksAssumption, padding \in BOOLEAN, BlkHeldInv(block), NEW n \in Nat, NEW al \in Alignments,
         NEW offset \in Nat, NEW zero \in BOOLEAN, B!ReallocAlignedAt(n, al, offset, zero)
  PROVE  BlkHeldInv(block')
<1>1. \/ n <= B!UsableSize(block) /\ (block.at + block.adjust + offset) % al = 0 /\ B!InPlace(n, al, offset, zero)
      \/ \E b \in B!AlignedAt(n, al, offset, FALSE) : B!Move(b, n, al, offset, zero)
  BY DEF B!ReallocAlignedAt
<1>2. al \in Nat \ {0} /\ FALSE \in BOOLEAN
  BY DEF B!BlocksAssumption
<1>3. CASE n <= B!UsableSize(block) /\ (block.at + block.adjust + offset) % al = 0 /\ B!InPlace(n, al, offset, zero)
  BY <1>2, <1>3, BlkInPlaceHolds
<1>4. ASSUME NEW b \in B!AlignedAt(n, al, offset, FALSE), B!Move(b, n, al, offset, zero) PROVE BlkHeldInv(block')
  <2>1. BlkMadeAt(b, n, al, offset, FALSE)
    BY <1>2, BlkAlignedAtFits
  <2>2. QED
    BY <1>2, <1>4, <2>1, BlkMoveHolds
<1>5. QED
  BY <1>1, <1>3, <1>4

LEMMA BlkReallocAlignedHolds ==
  ASSUME B!BlocksAssumption, padding \in BOOLEAN, BlkHeldInv(block), NEW n \in Nat, NEW al \in Alignments,
         NEW zero \in BOOLEAN, B!ReallocAligned(n, al, zero)
  PROVE  BlkHeldInv(block')
<1>1. block.at + block.adjust \in Nat /\ al \in Nat \ {0}
  BY BlkHeldFields DEF BlkTyped, B!BlocksAssumption
<1>2. (block.at + block.adjust) % al \in Nat
  BY <1>1
<1>3. QED
  BY <1>2, BlkReallocAlignedAtHolds DEF B!ReallocAligned

LEMMA BlkExpandHolds ==
  ASSUME BlkHeldInv(block), NEW n \in Nat, B!Expand(n) PROVE BlkHeldInv(block')
<1>1. (block.at + block.adjust + block.offset) % block.al = 0 /\ FALSE \in BOOLEAN
  BY DEF BlkHeldInv
<1>2. n <= B!UsableSize(block) /\ B!InPlace(n, block.al, block.offset, FALSE)
  BY DEF B!Expand
<1>3. QED
  BY <1>1, <1>2, BlkHeldFields, BlkInPlaceHolds

\* What a stranger leaves of the block.
LEMMA BlkFreeMtHolds == ASSUME padding \in BOOLEAN, BlkHeldInv(block), B!FreeMt PROVE BlkFreedInv(block')
<1>1. /\ block \in BlkHelds /\ block.bs \in Nat \ {0} /\ block.delta \in Nat /\ block.fill \in SUBSET Nat
      /\ block.fill = B!Verified(block) /\ BlkData(block) \in Int /\ BlkData(block) = B!UsableBlockSize(block) - block.delta
      /\ B!UsableBlockSize(block) \in Int
      /\ padding => B!UsableBlockSize(block) >= B!Word /\ BlkData(block) >= 1 /\ (BlkData(block) < B!Word => block.delta <= B!MI_MAX_ALIGN_SIZE)
      /\ ~padding => block.delta = 0
  BY BlkHeldFields, BlkSizes DEF BlkTyped, BlkPadded
<1>2. PICK b : b = B!Shrink(block, B!Word)
  OBVIOUS
<1>3. PICK spoilt : spoilt = B!Below(B!UsableBlockSize(b) - b.delta) \cup B!Below(B!Word)
  OBVIOUS
<1>4. block' = B!Freed(b, spoilt)
  BY <1>2, <1>3 DEF B!FreeMt
<1>5. CASE ~padding
  <2>1. b = block
    BY <1>2, <1>5 DEF B!Shrink
  <2>2. block' \in BlkFreeds /\ block'.bs = block.bs /\ block'.delta = 0
    BY <1>1, <1>4, <1>5, <2>1 DEF B!Freed, BlkFreeds
  <2>3. B!Smaller(0, B!MI_MAX_ALIGN_SIZE) = 0 /\ B!Below(0) = {}
    BY DEF B!Smaller, B!Below, B!MI_MAX_ALIGN_SIZE
  <2>4. B!Verified(block') = {}
    BY <2>2, <2>3 DEF B!Verified
  <2>5. QED
    BY <2>2, <2>4 DEF BlkFreedInv
<1>6. CASE padding /\ BlkData(block) >= B!Word
  <2>1. b = block
    BY <1>1, <1>2, <1>6 DEF B!Shrink, BlkData
  <2>2. block' \in BlkFreeds /\ block'.bs = block.bs /\ block'.delta = block.delta /\ block'.fill = block.fill \ spoilt
    BY <1>1, <1>4, <2>1 DEF B!Freed, BlkFreeds
  <2>3. B!Verified(block') = B!Verified(block)
    BY <2>2 DEF B!Verified, B!UsableBlockSize
  <2>4. ASSUME NEW i \in B!Verified(block) PROVE i \notin spoilt
    <3>1. PICK k \in B!Below(B!Smaller(block.delta, B!MI_MAX_ALIGN_SIZE)) : i = BlkData(block) + k
      BY DEF B!Verified, BlkData
    <3>2. k \in Nat
      BY DEF B!Below
    <3>3. i \notin B!Below(BlkData(block)) /\ i \notin B!Below(B!Word)
      BY <1>1, <1>6, <3>1, <3>2 DEF B!Below, B!Word
    <3>4. QED
      BY <1>3, <2>1, <3>3 DEF BlkData
  <2>5. QED
    BY <1>1, <2>2, <2>3, <2>4 DEF BlkFreedInv
<1>7. CASE padding /\ BlkData(block) < B!Word
  <2>1. BlkData(block) = 1 /\ block.delta <= 4
    BY <1>1, <1>7 DEF B!Word, B!MI_MAX_ALIGN_SIZE
  <2>2. B!UsableBlockSize(block) = 1 + block.delta /\ block.delta \in 1 .. 4
    BY <1>1, <1>7, <2>1 DEF B!Word
  <2>3. PICK d : d = block.delta - 1
    OBVIOUS
  <2>4. d \in 0 .. 3 /\ d = B!UsableBlockSize(block) - 2
    BY <2>2, <2>3
  <2>5. b = [block EXCEPT !.delta = d]
    BY <1>1, <1>2, <1>7, <2>1, <2>2, <2>4 DEF B!Shrink, B!Word, BlkData
  <2>6. b.bs = block.bs /\ b.delta = d /\ b.fill = block.fill
    BY <1>1, <2>5 DEF BlkHelds
  <2>7. B!UsableBlockSize(b) = B!UsableBlockSize(block)
    BY <2>6 DEF B!UsableBlockSize
  <2>8. spoilt = {0, 1}
    BY <1>3, <2>2, <2>4, <2>6, <2>7 DEF B!Below, B!Word
  <2>9. block' \in BlkFreeds /\ block'.bs = block.bs /\ block'.delta = d /\ block'.fill = block.fill \ spoilt
    BY <1>1, <1>4, <2>4, <2>6 DEF B!Freed, BlkFreeds
  <2>10. PICK q : q = block'
    OBVIOUS
  <2>11. ASSUME NEW i \in B!Verified(q) PROVE i \in block.fill /\ i \notin spoilt
    <3>1. B!UsableBlockSize(q) - q.delta = 2 /\ B!Smaller(q.delta, B!MI_MAX_ALIGN_SIZE) = d
      BY <2>2, <2>3, <2>4, <2>9, <2>10 DEF B!UsableBlockSize, B!Smaller, B!MI_MAX_ALIGN_SIZE
    <3>2. PICK k \in B!Below(d) : i = 2 + k
      BY <3>1 DEF B!Verified
    <3>3. k \in Nat /\ k < d /\ k + 1 \in Nat /\ k + 1 < block.delta /\ i = 1 + (k + 1) /\ i >= 2
      BY <2>2, <2>3, <3>2 DEF B!Below
    <3>4. B!UsableBlockSize(block) - block.delta = 1 /\ B!Smaller(block.delta, B!MI_MAX_ALIGN_SIZE) = block.delta
      BY <2>2 DEF B!Smaller, B!MI_MAX_ALIGN_SIZE
    <3>5. B!Verified(block) = {1 + j : j \in B!Below(block.delta)}
      BY <3>4 DEF B!Verified
    <3>6. k + 1 \in B!Below(block.delta)
      BY <2>2, <3>3, BlkBelowIs
    <3>7. QED
      BY <1>1, <2>8, <3>3, <3>5, <3>6
  <2>12. B!Verified(q) \subseteq q.fill
    BY <2>9, <2>10, <2>11
  <2>13. QED
    BY <2>9, <2>10, <2>12 DEF BlkFreedInv
<1>8. QED
  BY <1>1, <1>5, <1>6, <1>7 DEF B!Word


LEMMA BlocksBegin == B!Init => BlocksInv
  BY DEF B!Init, BlocksInv

LEMMA BlkPaddingSame ==
  ASSUME UNCHANGED padding
  PROVE  (BlkHeldInv(block') => BlkHeldInv(block)') /\ (BlkFreedInv(block') => BlkFreedInv(block)')
  BY DEF BlkHeldInv, BlkFreedInv, BlkRoomy, BlkPadded, BlkZeroFrom, BlkData,
     B!UsableBlockSize, B!UsableSize, B!Verified,
     B!MI_PADDING_SIZE

LEMMA BlocksHeld == ASSUME BlocksInv, B!Holding PROVE BlkHeldInv(block)
  BY DEF BlocksInv, B!Holding, BlkFreedInv, BlkFreeds

LEMMA BlocksStep ==
  ASSUME B!BlocksAssumption, BlocksInv, B!Next PROVE UNCHANGED padding /\ (block' = B!NoBlock \/ BlkHeldInv(block') \/ BlkFreedInv(block'))
<1>0. padding \in BOOLEAN /\ Elements \subseteq Nat /\ Offsets \subseteq Nat
  BY DEF BlocksInv, B!BlocksAssumption
<1> DEFINE Goal == UNCHANGED padding /\ (block' = B!NoBlock \/ BlkHeldInv(block') \/ BlkFreedInv(block'))
<1>1. ASSUME NEW num \in Counts, NEW size \in Elements, NEW zero \in BOOLEAN,
             B!Malloc(num, size, zero) \/ B!Realloc(num, size, zero)
      PROVE  Goal
  <2>1. UNCHANGED padding
    BY <1>1 DEF B!Malloc, B!Realloc
  <2>2. B!Realloc(num, size, zero) => BlkHeldInv(block)
    BY BlocksHeld DEF B!Realloc
  <2>3. BlkHeldInv(block')
    BY <1>0, <1>1, <2>2, BlkMallocHolds, BlkReallocHolds
  <2>4. QED
    BY <2>1, <2>3
<1>2. ASSUME NEW n \in Elements, B!Expand(n) \/ \E m \in Elements : B!Strndup(m, n) PROVE Goal
  <2>1. UNCHANGED padding
    BY <1>2 DEF B!Expand, B!Strndup
  <2>2. B!Expand(n) => BlkHeldInv(block)
    BY BlocksHeld DEF B!Expand
  <2>3. BlkHeldInv(block')
    BY <1>0, <1>2, <2>2, BlkExpandHolds, BlkStrndupHolds
  <2>4. QED
    BY <2>1, <2>3
<1>3. ASSUME NEW n \in Elements, NEW al \in Alignments, NEW zero \in BOOLEAN, B!ReallocAligned(n, al, zero)
      PROVE  Goal
  <2>1. UNCHANGED padding /\ B!Holding
    BY <1>3 DEF B!ReallocAligned, B!ReallocAlignedAt
  <2>2. BlkHeldInv(block')
    BY <1>0, <1>3, <2>1, BlocksHeld, BlkReallocAlignedHolds
  <2>3. QED
    BY <2>1, <2>2
<1>4. ASSUME NEW n \in Elements, NEW al \in Alignments, NEW zero \in BOOLEAN, NEW offset \in Offsets,
             B!MallocAligned(n, al, offset, zero) \/ B!ReallocAlignedAt(n, al, offset, zero)
      PROVE  Goal
  <2>1. UNCHANGED padding
    BY <1>4 DEF B!MallocAligned, B!ReallocAlignedAt
  <2>2. B!ReallocAlignedAt(n, al, offset, zero) => BlkHeldInv(block)
    BY BlocksHeld DEF B!ReallocAlignedAt
  <2>3. n \in Nat /\ offset \in Nat
    BY <1>0
  <2>4. BlkHeldInv(block')
    BY <1>0, <1>4, <2>2, <2>3, BlkMallocAlignedHolds, BlkReallocAlignedAtHolds
  <2>5. QED
    BY <2>1, <2>4
<1>5. ASSUME B!Write PROVE Goal
  <2>1. UNCHANGED padding /\ B!Holding
    BY <1>5 DEF B!Write
  <2>2. BlkHeldInv(block')
    BY <1>5, <2>1, BlocksHeld, BlkWriteHolds
  <2>3. QED
    BY <2>1, <2>2
<1>6. ASSUME B!Free \/ B!FreeDelayed PROVE Goal
  BY <1>6 DEF B!Free, B!FreeDelayed
<1>7. ASSUME B!FreeMt PROVE Goal
  <2>1. UNCHANGED padding /\ B!Holding
    BY <1>7 DEF B!FreeMt
  <2>2. BlkFreedInv(block')
    BY <1>0, <1>7, <2>1, BlocksHeld, BlkFreeMtHolds
  <2>3. QED
    BY <2>1, <2>2
<1>8. QED
  BY <1>1, <1>2, <1>3, <1>4, <1>5, <1>6, <1>7 DEF B!Next

LEMMA BlocksNext == ASSUME B!BlocksAssumption, BlocksInv, B!Next PROVE BlocksInv'
<1>1. UNCHANGED padding /\ (block' = B!NoBlock \/ BlkHeldInv(block') \/ BlkFreedInv(block'))
  BY BlocksStep
<1>2. padding' \in BOOLEAN
  BY <1>1 DEF BlocksInv
<1>3. B!NoBlock' = B!NoBlock
  BY DEF B!NoBlock
<1>4. QED
  BY <1>1, <1>2, <1>3, BlkPaddingSame DEF BlocksInv

LEMMA BlocksSame == ASSUME BlocksInv, UNCHANGED B!vars PROVE BlocksInv'
<1>1. padding' = padding /\ block' = block
  BY DEF B!vars
<1>2. BlkHeldInv(block') <=> BlkHeldInv(block)
  BY <1>1
<1>3. BlkFreedInv(block') <=> BlkFreedInv(block)
  BY <1>1
<1>4. B!NoBlock' = B!NoBlock
  BY DEF B!NoBlock
<1>5. QED
  BY <1>1, <1>2, <1>3, <1>4, BlkPaddingSame DEF BlocksInv

LEMMA BlocksTell == BlocksInv => B!BlocksKeep
<1> SUFFICES ASSUME BlocksInv, block # B!NoBlock PROVE
      /\ \A i \in B!Verified(block) : i \in block.fill
      /\ ~block.freed => /\ block.req <= B!UsableSize(block)
                         /\ (block.at + block.adjust + block.offset) % block.al = 0
                         /\ block.wrote \subseteq block.intact
                         /\ block.zeroed \subseteq block.zeros
  BY DEF B!BlocksKeep
<1>1. CASE BlkHeldInv(block)
  BY <1>1, BlkHeldFields DEF BlkHeldInv, BlkPadded
<1>2. CASE BlkFreedInv(block)
  BY <1>2 DEF BlkFreedInv, BlkFreeds
<1>3. QED
  BY <1>1, <1>2 DEF BlocksInv

-----------------------------------------------------------------------------
(* The table of arenas.                                                    *)

\* A thread that makes an arena.
TabPending == {"meta", "add", "decrement", "publish"}
TabPlaces == 0 .. MaxArenas - 1

TabKindSet ==
  [memkind : {"EXTERNAL", "OS"}, exclusive : BOOLEAN, is_large : BOOLEAN, numa_node : Int]
TabAskSet == [blocks : Nat, node : Int, large : BOOLEAN, req : Nat]
TabArenaSet == [area : Areas \cup {NoArea}, kind : TabKindSet]
TabClaimSet == [id : Nat, area : Areas \cup {NoArea}, ask : TabAskSet]
TabLocalSet ==
  [ask : TabAskSet, left : Seq(Nat \X BOOLEAN), arena : TabArenaSet, index : Nat,
   met : BOOLEAN]

ArenasTyped ==
  /\ mi_arenas \in [TabPlaces -> TabArenaSet]
  /\ \A i \in TabPlaces : mi_arenas[i] # As!NoArena => mi_arenas[i].area \in Areas
  /\ mi_arena_count \in Nat
  /\ belongs \in [Areas -> {"nobody", "EXTERNAL", "OS"}]
  /\ claims \in [Threads -> TabClaimSet]
  /\ user \in [Threads -> TabPending \cup {"idle", "load", "try", "os", "outside"}]
  /\ request \in [Threads -> TabLocalSet]
  /\ exited \in BOOLEAN

\* Places are given out from the first on; the threads that got none are
\* those that the count is too high by.
TabOver == {t \in Threads : As!At(t, "decrement")}
TabPlaceOk(t) ==
  As!At(t, "publish") =>
    /\ request[t].index \in TabPlaces /\ request[t].index < mi_arena_count
    /\ mi_arenas[request[t].index] = As!NoArena
TabPlacesKept ==
  /\ \A i \in As!Published : i < mi_arena_count
  /\ \A t \in Threads : TabPlaceOk(t)
  /\ \A t, u \in Threads : As!At(t, "publish") /\ As!At(u, "publish") /\ t # u =>
       request[t].index # request[u].index
  /\ IF TabOver = {} THEN mi_arena_count <= MaxArenas
       ELSE mi_arena_count = MaxArenas + Cardinality(TabOver)

\* An area is in the table, or with the one thread that makes an arena of it.
TabAreaOk(t) ==
  /\ As!At(t, "idle") => request[t] = As!NoLocal
  /\ user[t] \in TabPending =>
       /\ request[t].arena.area \in Areas /\ belongs[request[t].arena.area] # "nobody"
       /\ \A i \in As!Published : mi_arenas[i].area # request[t].arena.area
  /\ user[t] \notin TabPending =>
       request[t].arena = As!NoArena \/ \E i \in As!Published : mi_arenas[i].area = request[t].arena.area
TabAreasKept ==
  /\ \A t \in Threads : TabAreaOk(t)
  /\ \A t, u \in Threads : user[t] \in TabPending /\ user[u] \in TabPending /\ t # u =>
                             request[t].arena.area # request[u].arena.area
  /\ \A i, j \in As!Published : mi_arenas[i].area = mi_arenas[j].area => i = j
  /\ \A i \in As!Published : belongs[mi_arenas[i].area] # "nobody"
  /\ \A a \in Areas : belongs[a] # "nobody" =>
       \/ \E i \in As!Published : mi_arenas[i].area = a
       \/ \E t \in Threads : user[t] \in TabPending /\ request[t].arena.area = a

\* What was allocated is in an arena that suits it.
TabClaimOk(c) ==
  c # As!NoClaim =>
    /\ As!IndexOf(c.id) \in As!Published /\ c.area = mi_arenas[As!IndexOf(c.id)].area
    /\ mi_arenas[As!IndexOf(c.id)].kind.is_large => c.ask.large
    /\ As!IdSuitable(c.id, mi_arenas[As!IndexOf(c.id)].kind.exclusive, c.ask.req)
TabClaimsKept == \A t \in Threads : \A c : c = claims[t] => TabClaimOk(c)

\* No arena has room, or one that has is yet to be tried.
TabFits(i, ask) == (As!Suits(i, TRUE, ask) \/ As!Suits(i, FALSE, ask)) /\ As!HasRoom(i, ask)
TabFull(ask) == \A i \in As!Published : ~TabFits(i, ask)
TabYet(ask, left) ==
  \A i \in As!Published : TabFits(i, ask) =>
    \E k \in DOMAIN left : left[k][1] = i /\ As!Suits(i, left[k][2], ask)
TabReserving(t) == user[t] \in TabPending /\ request[t].ask # As!NoAsk
TabLastOk(t) ==
  ~As!At(t, "idle") /\ ~request[t].met =>
    /\ \A u \in Threads : u # t => As!At(u, "idle")
    /\ As!At(t, "try") =>
         \A ask, left : ask = request[t].ask /\ left = request[t].left => TabYet(ask, left)
    /\ As!At(t, "os") \/ TabReserving(t) => \A ask : ask = request[t].ask => TabFull(ask)
TabReservedOk(t) ==
  TabReserving(t) => request[t].ask.req = As!NoId /\ ~request[t].arena.kind.exclusive
                   /\ request[t].arena.kind.numa_node = As!AnyNode
TabLastKept == \A t \in Threads : TabLastOk(t) /\ TabReservedOk(t)

\* An allocation that met nobody has only places of the table to look at.
TabInside(left) == \A k \in DOMAIN left : left[k][1] < MaxArenas
TabWalkOk(t) ==
  ~request[t].met =>
    /\ ~As!At(t, "outside")
    /\ As!At(t, "try") => \A left : left = request[t].left => TabInside(left)
TabWalksKept == \A t \in Threads : TabWalkOk(t)

TabLive == ArenasTyped /\ TabPlacesKept /\ TabAreasKept /\ TabClaimsKept /\ TabLastKept
             /\ TabWalksKept
TabEnded == (\A t \in Threads : As!At(t, "idle")) /\ As!ArenasKeep
ArenasInv == IF exited THEN exited = TRUE /\ TabEnded ELSE exited = FALSE /\ TabLive

-----------------------------------------------------------------------------
TabPcs == TabPending \cup {"idle", "load", "try", "os", "outside"}

\* A thread goes to p with r; the others stay as they are.
TabMoves(t, p, r) == user' = [user EXCEPT ![t] = p] /\ request' = [request EXCEPT ![t] = r]

LEMMA TabMoved ==
  ASSUME ArenasTyped, NEW t \in Threads, NEW p \in TabPcs, NEW r \in TabLocalSet, TabMoves(t, p,
         r)
  PROVE  /\ user' \in [Threads -> TabPcs] /\ request' \in [Threads -> TabLocalSet]
         /\ user'[t] = p /\ request'[t] = r
         /\ \A u \in Threads : u # t => user'[u] = user[u] /\ request'[u] = request[u]
  BY DEF ArenasTyped, TabMoves, TabPcs

LEMMA TabNothing ==
  ASSUME As!ArenasAssumption
  PROVE As!NoArena \in TabArenaSet /\ As!NoAsk \in TabAskSet
                   /\ As!NoLocal \in TabLocalSet /\ As!NoClaim \in TabClaimSet
                   /\ As!NoKind \in TabKindSet
  BY DEF As!ArenasAssumption, As!NoArena, As!NoAsk, As!NoLocal, As!NoClaim, As!NoKind,
     TabArenaSet, TabAskSet, TabLocalSet, TabClaimSet,
     TabKindSet, As!AnyNode, As!NoId

LEMMA TabLocalIs ==
  ASSUME ArenasTyped, NEW t \in Threads
  PROVE  /\ request[t] \in TabLocalSet /\ user[t] \in TabPcs /\ claims[t] \in TabClaimSet
         /\ request[t].ask \in TabAskSet /\ request[t].arena \in TabArenaSet
              /\ request[t].arena.kind \in TabKindSet
         /\ request[t].index \in Nat /\ request[t].met \in BOOLEAN
         /\ request[t].left \in Seq(Nat \X BOOLEAN)
  BY DEF ArenasTyped, TabLocalSet, TabPcs, TabArenaSet

LEMMA TabPublishedIs ==
  ASSUME As!ArenasAssumption, ArenasTyped
  PROVE  /\ \A i : i \in As!Published <=> i \in TabPlaces /\ mi_arenas[i] # As!NoArena
         /\ \A i \in As!Published : mi_arenas[i].area \in Areas /\ mi_arenas[i] \in TabArenaSet
                                 /\ mi_arenas[i].kind \in TabKindSet
         /\ \A i \in TabPlaces : i \in Nat /\ i < MaxArenas
  BY DEF ArenasTyped, As!Published, TabPlaces, As!ArenasAssumption, TabArenaSet

\* The places are as they were.
LEMMA TabPlacesSame ==
  ASSUME TabPlacesKept, UNCHANGED <<mi_arenas, mi_arena_count>>,
         \A u \in Threads : /\ As!At(u, "decrement")' <=> As!At(u, "decrement")
                            /\ As!At(u, "publish")' =>
                                 As!At(u, "publish") /\ request'[u].index = request[u].index
  PROVE  TabPlacesKept'
<1>1. As!Published' = As!Published
  BY DEF As!Published
<1>2. TabOver' = TabOver
  BY DEF TabOver
<1>3. \A t \in Threads : TabPlaceOk(t)'
  BY DEF TabPlaceOk, TabPlacesKept
<1>4. QED
  BY <1>1, <1>2, <1>3 DEF TabPlacesKept

\* The areas are where they were.
LEMMA TabAreasSame ==
  ASSUME TabAreasKept, UNCHANGED <<mi_arenas, belongs>>,
         \A u \in Threads : /\ user'[u] \in TabPending <=> user[u] \in TabPending
                            /\ \/ request'[u].arena = request[u].arena
                               \/ user'[u] \notin TabPending /\ request'[u].arena = As!NoArena
                            /\ As!At(u, "idle")' => request'[u] = As!NoLocal
  PROVE  TabAreasKept'
<1>1. As!Published' = As!Published
  BY DEF As!Published
<1>2. \A t \in Threads : TabAreaOk(t)'
  BY <1>1 DEF TabAreaOk, TabAreasKept
<1>3. QED
  BY <1>1, <1>2 DEF TabAreasKept

LEMMA TabClaimsSame ==
  ASSUME TabClaimsKept, UNCHANGED <<mi_arenas, claims>>
  PROVE TabClaimsKept'
<1>1. As!Published' = As!Published
  BY DEF As!Published
<1>2. QED
  BY <1>1 DEF TabClaimsKept, TabClaimOk

LEMMA TabRoomSame ==
  ASSUME NEW i, NEW ask, UNCHANGED claims
  PROVE As!HasRoom(i, ask)' <=> As!HasRoom(i, ask)
  BY DEF As!HasRoom, As!MapThenSumSet, As!MapThenFoldSet

LEMMA TabFitsSame ==
  ASSUME NEW i, NEW ask, UNCHANGED <<mi_arenas, claims>>
  PROVE  TabFits(i, ask)' <=> TabFits(i, ask)
  BY TabRoomSame DEF TabFits, As!Suits

LEMMA TabFullSame ==
  ASSUME NEW ask, UNCHANGED <<mi_arenas, claims>>
  PROVE TabFull(ask)' <=> TabFull(ask)
<1>1. As!Published' = As!Published
  BY DEF As!Published
<1>2. QED
  BY <1>1, TabFitsSame DEF TabFull

LEMMA TabYetSame ==
  ASSUME NEW ask, NEW left, UNCHANGED <<mi_arenas, claims>>
  PROVE  TabYet(ask, left)' <=> TabYet(ask, left)
<1>1. As!Published' = As!Published
  BY DEF As!Published
<1>2. QED
  BY <1>1, TabFitsSame DEF TabYet, As!Suits

\* A thread that goes on has met no other since.
LEMMA TabLastMoves ==
  ASSUME ArenasTyped, TabLastKept, NEW t \in Threads, ~As!At(t, "idle"),
         NEW p \in TabPcs, NEW r \in TabLocalSet, TabMoves(t, p, r),
         p # "idle" => r.met = request[t].met,
         p = "try" /\ ~r.met => TabYet(r.ask, r.left)',
         (p = "os" \/ (p \in TabPending /\ r.ask # As!NoAsk)) /\ ~r.met => TabFull(r.ask)',
         p \in TabPending /\ r.ask # As!NoAsk =>
           r.ask.req = As!NoId /\ ~r.arena.kind.exclusive /\ r.arena.kind.numa_node = As!AnyNode
  PROVE  TabLastKept'
<1>1. /\ user'[t] = p /\ request'[t] = r
      /\ \A u \in Threads : u # t => user'[u] = user[u] /\ request'[u] = request[u]
  BY TabMoved
<1>2. TabReservedOk(t)'
  BY <1>1 DEF TabReservedOk, TabReserving
<1>3. TabLastOk(t)'
  <2> SUFFICES ASSUME p # "idle", ~r.met PROVE TabLastOk(t)'
    BY <1>1 DEF TabLastOk, As!At
  <2>1. \A u \in Threads : u # t => As!At(u, "idle")'
    BY <1>1 DEF TabLastKept, TabLastOk, As!At
  <2>2. ASSUME p = "try", NEW ask, NEW left, ask = r.ask, left = r.left
        PROVE  TabYet(ask, left)'
    BY <2>2
  <2>3. ASSUME p = "os" \/ (p \in TabPending /\ r.ask # As!NoAsk), NEW ask, ask = r.ask
        PROVE  TabFull(ask)'
    BY <2>3
  <2>4. QED
    BY <1>1, <2>1, <2>2, <2>3 DEF TabLastOk, TabReserving, As!At
<1>4. ASSUME NEW u \in Threads, u # t PROVE TabLastOk(u)' /\ TabReservedOk(u)'
  <2>1. As!At(u, "idle") \/ request[u].met
    BY <1>4 DEF TabLastKept, TabLastOk
  <2>2. TabReservedOk(u)'
    BY <1>1, <1>4 DEF TabLastKept, TabReservedOk, TabReserving
  <2>3. TabLastOk(u)'
    BY <1>1, <1>4, <2>1 DEF TabLastOk, As!At
  <2>4. QED
    BY <2>2, <2>3
<1>5. QED
  BY <1>2, <1>3, <1>4 DEF TabLastKept

LEMMA TabWalksMove ==
  ASSUME ArenasTyped, TabWalksKept, NEW t \in Threads, NEW p \in TabPcs, NEW r \in TabLocalSet,
         TabMoves(t, p, r),
         ~r.met => p # "outside" /\ (p = "try" => TabInside(r.left))
  PROVE  TabWalksKept'
<1>1. /\ user'[t] = p /\ request'[t] = r
      /\ \A u \in Threads : u # t => user'[u] = user[u] /\ request'[u] = request[u]
  BY TabMoved
<1>2. TabWalkOk(t)'
  BY <1>1 DEF TabWalkOk, As!At, TabInside
<1>3. ASSUME NEW u \in Threads, u # t PROVE TabWalkOk(u)'
  BY <1>1, <1>3 DEF TabWalkOk, As!At, TabInside, TabWalksKept
<1>4. QED
  BY <1>2, <1>3 DEF TabWalksKept

-----------------------------------------------------------------------------
\* What a step of one thread leaves of the types.
LEMMA TabTypedMoves ==
  ASSUME ArenasTyped, NEW t \in Threads, NEW p \in TabPcs, NEW r \in TabLocalSet, TabMoves(t, p,
         r),
         UNCHANGED <<mi_arenas, claims, exited>>, mi_arena_count' \in Nat,
         belongs' \in [Areas -> {"nobody", "EXTERNAL", "OS"}]
  PROVE  ArenasTyped'
  BY TabMoved DEF ArenasTyped, TabPcs

\* A thread that makes an arena goes on with it.
LEMMA TabGoesOn ==
  ASSUME As!ArenasAssumption, TabLive, NEW t \in Threads, user[t] \in TabPending,
         NEW p \in TabPending, NEW r \in TabLocalSet, TabMoves(t, p, r),
         r.ask = request[t].ask, r.arena = request[t].arena, r.met = request[t].met,
         UNCHANGED <<mi_arenas, belongs, claims>>
  PROVE  TabAreasKept' /\ TabClaimsKept' /\ TabLastKept'
<1>1. /\ user'[t] = p /\ request'[t] = r
      /\ \A u \in Threads : u # t => user'[u] = user[u] /\ request'[u] = request[u]
  BY TabMoved DEF TabLive, TabPcs
<1>2. TabAreasKept'
  BY <1>1, TabAreasSame DEF TabLive, As!At, TabPending, TabAreasKept, TabAreaOk
<1>3. TabClaimsKept'
  BY TabClaimsSame DEF TabLive
<1>4. TabLastKept'
  <2>1. \A ask : ask = r.ask /\ r.ask # As!NoAsk /\ ~r.met => TabFull(ask)
    BY DEF TabLive, TabLastKept, TabLastOk, TabReserving, As!At, TabPending
  <2>2. r.ask # As!NoAsk /\ ~r.met => TabFull(r.ask)'
    BY <2>1, TabFullSame
  <2>3. r.ask # As!NoAsk => r.ask.req = As!NoId /\ ~r.arena.kind.exclusive
          /\ r.arena.kind.numa_node = As!AnyNode
    BY DEF TabLive, TabLastKept, TabReservedOk, TabReserving, TabPending
  <2>4. ~As!At(t, "idle") /\ p # "os" /\ p # "try" /\ p \in TabPcs
    BY DEF As!At, TabPending, TabPcs
  <2>5. QED
    BY <2>2, <2>3, <2>4, TabLastMoves DEF TabLive
<1>5. QED
  BY <1>2, <1>3, <1>4

-----------------------------------------------------------------------------
\* An arena that could not be made is given up, and its area is free again.
LEMMA TabGivesUp ==
  ASSUME As!ArenasAssumption, TabLive, NEW t \in Threads, user[t] \in TabPending, As!Failed(t),
         UNCHANGED <<mi_arenas, claims, exited>>,
         mi_arena_count' \in Nat
  PROVE  /\ ArenasTyped' /\ TabAreasKept' /\ TabClaimsKept' /\ TabLastKept' /\ TabWalksKept'
         /\ \A u \in Threads : u # t => user'[u] = user[u] /\ request'[u] = request[u]
         /\ user'[t] \in {"idle", "os"}
<1>1. PICK q : q = request[t]
  OBVIOUS
<1>2. q \in TabLocalSet /\ q.arena.area \in Areas /\ belongs[q.arena.area] # "nobody"
        /\ ~As!At(t, "idle")
  BY <1>1, TabLocalIs DEF TabLive, TabAreasKept, TabAreaOk, TabPending, As!At
<1>3. PICK p, r : /\ TabMoves(t, p, r)
                  /\ \/ p = "idle" /\ r = As!NoLocal
                     \/ p = "os" /\ q.ask # As!NoAsk /\ r = [q EXCEPT !.arena = As!NoArena]
  BY <1>1 DEF As!Failed, As!Quit, As!Goto, As!Keep, TabMoves
<1>4. /\ p \in TabPcs /\ r \in TabLocalSet /\ p \notin TabPending /\ r.arena = As!NoArena
      /\ p # "idle" => r.met = q.met /\ r.ask = q.ask
  <2>1. CASE p = "idle" /\ r = As!NoLocal
    BY <2>1, TabNothing DEF TabPcs, TabPending, As!NoLocal
  <2>2. CASE p = "os" /\ r = [q EXCEPT !.arena = As!NoArena]
    BY <1>2, <2>2, TabNothing DEF TabLocalSet, TabPcs, TabPending
  <2>3. QED
    BY <1>3, <2>1, <2>2
<1>5. /\ user'[t] = p /\ request'[t] = r
      /\ \A u \in Threads : u # t => user'[u] = user[u] /\ request'[u] = request[u]
  BY <1>3, <1>4, TabMoved DEF TabLive
<1>6. belongs' = [belongs EXCEPT ![q.arena.area] = "nobody"]
  BY <1>1 DEF As!Failed
<1>7. /\ belongs' \in [Areas -> {"nobody", "EXTERNAL", "OS"}]
      /\ belongs'[q.arena.area] = "nobody"
      /\ \A a \in Areas : a # q.arena.area => belongs'[a] = belongs[a]
  BY <1>2, <1>6 DEF TabLive, ArenasTyped
<1>8. ArenasTyped'
  BY <1>3, <1>4, <1>7, TabTypedMoves DEF TabLive, ArenasTyped
<1>9. TabAreasKept'
  <2>0. As!Published' = As!Published
    BY DEF As!Published
  <2>1. /\ \A i \in As!Published : mi_arenas[i].area \in Areas /\ mi_arenas[i].area # q.arena.area
        /\ \A u \in Threads : u # t /\ user[u] \in TabPending => request[u].arena.area \in Areas
                                         /\ request[u].arena.area # q.arena.area
    BY <1>1, TabPublishedIs DEF TabLive, TabAreasKept, TabAreaOk
  <2>2. ASSUME NEW u \in Threads PROVE TabAreaOk(u)'
    <3>1. CASE u = t
      BY <1>3, <1>4, <1>5, <3>1 DEF TabAreaOk, As!At
    <3>2. CASE u # t
      BY <1>5, <1>7, <2>0, <2>1, <3>2 DEF TabAreaOk, As!At, TabLive, TabAreasKept
    <3>3. QED
      BY <3>1, <3>2
  <2>3. \A u, v \in Threads : user'[u] \in TabPending /\ user'[v] \in TabPending /\ u # v =>
                                request'[u].arena.area # request'[v].arena.area
    BY <1>4, <1>5 DEF TabLive, TabAreasKept
  <2>4. \A i \in As!Published : belongs'[mi_arenas[i].area] # "nobody"
    BY <1>7, <2>1 DEF TabLive, TabAreasKept
  <2>5. ASSUME NEW a \in Areas, belongs'[a] # "nobody"
        PROVE  \/ \E i \in As!Published : mi_arenas[i].area = a
               \/ \E u \in Threads : user'[u] \in TabPending /\ request'[u].arena.area = a
    <3>1. a # q.arena.area /\ belongs[a] # "nobody"
      BY <1>7, <2>5
    <3>2. \/ \E i \in As!Published : mi_arenas[i].area = a
          \/ \E u \in Threads : user[u] \in TabPending /\ request[u].arena.area = a
      BY <3>1 DEF TabLive, TabAreasKept
    <3>3. QED
      BY <1>1, <1>5, <3>1, <3>2
  <2>6. QED
    BY <2>0, <2>2, <2>3, <2>4, <2>5 DEF TabLive, TabAreasKept
<1>10. TabClaimsKept'
  BY TabClaimsSame DEF TabLive
<1>11. TabLastKept'
  <2>1. \A ask : ask = r.ask /\ p = "os" /\ ~r.met => TabFull(ask)
    BY <1>1, <1>2, <1>3, <1>4 DEF TabLive, TabLastKept, TabLastOk, TabReserving
  <2>2. p = "os" /\ ~r.met => TabFull(r.ask)'
    BY <2>1, TabFullSame
  <2>3. p # "try" /\ (p # "idle" => r.met = request[t].met)
    BY <1>1, <1>3, <1>4
  <2>4. QED
    BY <1>2, <1>3, <1>4, <2>2, <2>3, TabLastMoves DEF TabLive
<1>12. TabWalksKept'
  BY <1>3, <1>4, TabWalksMove DEF TabLive
<1>13. QED
  BY <1>3, <1>5, <1>8, <1>9, <1>10, <1>11, <1>12

LEMMA TabMetaAllocHolds ==
  ASSUME As!ArenasAssumption, TabLive, NEW t \in Threads, As!MetaAlloc(t) PROVE TabLive'
<1>1. /\ user[t] = "meta" /\ user[t] \in TabPending
      /\ UNCHANGED <<mi_arenas, mi_arena_count, claims, exited>>
      /\ mi_arena_count' \in Nat
  BY DEF As!MetaAlloc, As!At, TabPending, TabLive, ArenasTyped
<1>2. CASE As!Failed(t)
  <2>1. /\ ArenasTyped' /\ TabAreasKept' /\ TabClaimsKept' /\ TabLastKept' /\ TabWalksKept'
        /\ \A u \in Threads : u # t => user'[u] = user[u] /\ request'[u] = request[u]
        /\ user'[t] \in {"idle", "os"}
    BY <1>1, <1>2, TabGivesUp
  <2>2. TabPlacesKept'
    BY <1>1, <2>1, TabPlacesSame DEF TabLive, As!At
  <2>3. QED
    BY <2>1, <2>2 DEF TabLive
<1>3. CASE As!Goto(t, "add") /\ UNCHANGED <<belongs, request>>
  <2>1. PICK r : r = request[t]
    OBVIOUS
  <2>2. r \in TabLocalSet /\ "add" \in TabPcs /\ "add" \in TabPending /\ TabMoves(t, "add", r)
    BY <1>3, <2>1, TabLocalIs DEF As!Goto, TabLive, ArenasTyped, TabMoves, TabPcs,
       TabPending
  <2>3. /\ user'[t] = "add" /\ request'[t] = r
        /\ \A u \in Threads : u # t => user'[u] = user[u] /\ request'[u] = request[u]
    BY <2>2, TabMoved DEF TabLive
  <2>4. ArenasTyped'
    BY <1>1, <1>3, <2>2, TabTypedMoves DEF TabLive, ArenasTyped
  <2>5. TabPlacesKept'
    BY <1>1, <2>3, TabPlacesSame DEF TabLive, As!At
  <2>6. TabAreasKept' /\ TabClaimsKept' /\ TabLastKept'
    BY <1>1, <1>3, <2>1, <2>2, TabGoesOn
  <2>7. TabWalksKept'
    BY <2>2, TabWalksMove DEF TabLive
  <2>8. QED
    BY <2>4, <2>5, <2>6, <2>7 DEF TabLive
<1>4. QED
  BY <1>2, <1>3 DEF As!MetaAlloc

LEMMA TabOverIs ==
  ASSUME As!ArenasAssumption
  PROVE  IsFiniteSet(TabOver) /\ Cardinality(TabOver) \in Nat /\ (TabOver # {} =>
           Cardinality(TabOver) >= 1)
<1>1. IsFiniteSet(Threads)
  BY DEF As!ArenasAssumption, As!IsFiniteSet, IsFiniteSet
<1>2. IsFiniteSet(TabOver)
  BY <1>1, FS_Subset DEF TabOver
<1>3. QED
  BY <1>2, FS_CardinalityType, FS_EmptySet

LEMMA TabIncrementHolds ==
  ASSUME As!ArenasAssumption, TabLive, NEW t \in Threads, As!Increment(t) PROVE TabLive'
<1>1. PICK n : n = mi_arena_count
  OBVIOUS
<1>2. PICK p, r : /\ TabMoves(t, p, r) /\ r = [request[t] EXCEPT !.index = n]
                  /\ p = IF n >= MaxArenas THEN "decrement" ELSE "publish"
  BY <1>1 DEF As!Increment, As!Goto, As!Keep, TabMoves
<1>3. /\ n \in Nat /\ MaxArenas \in Nat /\ mi_arena_count' = n + 1 /\ user[t] = "add"
           /\ user[t] \in TabPending
      /\ UNCHANGED <<mi_arenas, belongs, claims, exited>>
  BY <1>1 DEF As!Increment, TabLive, ArenasTyped, As!ArenasAssumption, As!At, TabPending
<1>4. /\ r \in TabLocalSet /\ p \in TabPcs /\ p \in TabPending /\ r.index = n
      /\ r.ask = request[t].ask /\ r.arena = request[t].arena /\ r.met = request[t].met
  BY <1>2, <1>3, TabLocalIs DEF TabLive, TabPcs, TabPending, TabLocalSet
<1>5. /\ user'[t] = p /\ request'[t] = r
      /\ \A u \in Threads : u # t => user'[u] = user[u] /\ request'[u] = request[u]
  BY <1>2, <1>4, TabMoved DEF TabLive
<1>6. ArenasTyped'
  BY <1>2, <1>3, <1>4, TabTypedMoves DEF TabLive, ArenasTyped
<1>7. TabPlacesKept'
  <2>0. As!Published' = As!Published
    BY <1>3 DEF As!Published
  <2>1. \A i \in As!Published : i \in Nat /\ i < n
    BY <1>1, TabPublishedIs DEF TabLive, TabPlacesKept
  <2>2. ASSUME NEW u \in Threads, u # t, user[u] = "publish"
        PROVE  request[u].index \in TabPlaces /\ request[u].index \in Nat /\ request[u].index < n
               /\ mi_arenas[request[u].index] = As!NoArena
    BY <1>1, <2>2 DEF TabLive, TabPlacesKept, TabPlaceOk, As!At, TabPlaces
  <2>3. ASSUME p = "publish"
        PROVE  n \in TabPlaces /\ mi_arenas[n] = As!NoArena /\ n < MaxArenas
    <3>1. n \in TabPlaces /\ n < MaxArenas
      BY <1>2, <1>3, <2>3 DEF TabPlaces
    <3>2. QED
      BY <1>3, <2>1, <3>1, TabPublishedIs DEF TabLive
  <2>4. ASSUME NEW u \in Threads PROVE TabPlaceOk(u)'
    <3>1. CASE u = t
      BY <1>3, <1>4, <1>5, <2>3, <3>1 DEF TabPlaceOk, As!At
    <3>2. CASE u # t
      BY <1>3, <1>5, <2>2, <3>2 DEF TabPlaceOk, As!At
    <3>3. QED
      BY <3>1, <3>2
  <2>5. \A u, v \in Threads : user'[u] = "publish" /\ user'[v] = "publish" /\ u # v =>
          request'[u].index # request'[v].index
    <3>1. \A u, v \in Threads : user[u] = "publish" /\ user[v] = "publish" /\ u # v =>
            request[u].index # request[v].index
      BY DEF TabLive, TabPlacesKept, As!At
    <3>2. \A u \in Threads : u # t /\ user[u] = "publish" => request[u].index # n
      BY <1>3, <2>2
    <3>3. QED
      BY <1>4, <1>5, <3>1, <3>2
  <2>6. IF TabOver' = {} THEN n + 1 <= MaxArenas ELSE n + 1 = MaxArenas + Cardinality(TabOver')
    <3>0. IF TabOver = {} THEN n <= MaxArenas ELSE n = MaxArenas + Cardinality(TabOver)
      BY <1>1 DEF TabLive, TabPlacesKept
    <3>1. IsFiniteSet(TabOver) /\ Cardinality(TabOver) \in Nat /\ (TabOver # {} =>
            Cardinality(TabOver) >= 1)
      BY TabOverIs
    <3>2. CASE n >= MaxArenas
      <4>1. TabOver' = TabOver \cup {t} /\ t \notin TabOver
        BY <1>2, <1>3, <1>5, <3>2 DEF TabOver, As!At
      <4>2. Cardinality(TabOver') = Cardinality(TabOver) + 1
        BY <3>1, <4>1, FS_AddElement
      <4>3. TabOver = {} => Cardinality(TabOver) = 0
        BY FS_EmptySet
      <4>4. QED
        BY <1>3, <3>0, <3>1, <3>2, <4>1, <4>2, <4>3
    <3>3. CASE ~(n >= MaxArenas)
      <4>1. TabOver' = TabOver
        BY <1>2, <1>3, <1>5, <3>3 DEF TabOver, As!At
      <4>2. QED
        BY <1>3, <3>0, <3>1, <3>3, <4>1
    <3>4. QED
      BY <3>2, <3>3
  <2>7. QED
    BY <1>3, <2>0, <2>1, <2>4, <2>5, <2>6 DEF TabPlacesKept, As!At
<1>8. TabAreasKept' /\ TabClaimsKept' /\ TabLastKept'
  BY <1>2, <1>3, <1>4, TabGoesOn
<1>9. TabWalksKept'
  BY <1>2, <1>4, TabWalksMove DEF TabLive
<1>10. QED
  BY <1>6, <1>7, <1>8, <1>9 DEF TabLive

LEMMA TabDecrementHolds ==
  ASSUME As!ArenasAssumption, TabLive, NEW t \in Threads, As!Decrement(t) PROVE TabLive'
<1>1. PICK n : n = mi_arena_count
  OBVIOUS
<1>2. /\ n \in Nat /\ MaxArenas \in Nat /\ mi_arena_count' = n - 1 /\ user[t] = "decrement"
           /\ user[t] \in TabPending
      /\ As!Failed(t) /\ UNCHANGED <<mi_arenas, claims, exited>>
  BY <1>1 DEF As!Decrement, TabLive, ArenasTyped, As!ArenasAssumption, As!At, TabPending
<1>3. /\ t \in TabOver /\ n = MaxArenas + Cardinality(TabOver)
      /\ IsFiniteSet(TabOver) /\ Cardinality(TabOver) \in Nat /\ Cardinality(TabOver) >= 1
  BY <1>1, <1>2, TabOverIs DEF TabOver, As!At, TabLive, TabPlacesKept
<1>4. mi_arena_count' \in Nat /\ n - 1 >= MaxArenas
  BY <1>2, <1>3
<1>5. /\ ArenasTyped' /\ TabAreasKept' /\ TabClaimsKept' /\ TabLastKept' /\ TabWalksKept'
      /\ \A u \in Threads : u # t => user'[u] = user[u] /\ request'[u] = request[u]
      /\ user'[t] \in {"idle", "os"}
  BY <1>2, <1>4, TabGivesUp
<1>6. TabPlacesKept'
  <2>0. As!Published' = As!Published
    BY <1>2 DEF As!Published
  <2>1. \A i \in As!Published : i \in Nat /\ i < n - 1
    BY <1>2, <1>4, TabPublishedIs DEF TabLive
  <2>2. ASSUME NEW u \in Threads PROVE TabPlaceOk(u)'
    <3>1. user'[u] = "publish" => user[u] = "publish" /\ request'[u] = request[u]
      BY <1>5
    <3>2. user[u] = "publish" => request[u].index \in TabPlaces
            /\ mi_arenas[request[u].index] = As!NoArena
      BY DEF TabLive, TabPlacesKept, TabPlaceOk, As!At
    <3>3. \A i \in TabPlaces : i < n - 1
      BY <1>2, <1>4 DEF TabPlaces
    <3>4. QED
      BY <1>2, <3>1, <3>2, <3>3 DEF TabPlaceOk, As!At
  <2>3. \A u, v \in Threads : user'[u] = "publish" /\ user'[v] = "publish" /\ u # v =>
          request'[u].index # request'[v].index
    BY <1>5 DEF TabLive, TabPlacesKept, As!At
  <2>4. TabOver' = TabOver \ {t}
    BY <1>5 DEF TabOver, As!At
  <2>5. Cardinality(TabOver') = Cardinality(TabOver) - 1
    BY <1>3, <2>4, FS_RemoveElement
  <2>6. TabOver' = {} => Cardinality(TabOver') = 0
    BY FS_EmptySet
  <2>7. IF TabOver' = {} THEN n - 1 <= MaxArenas ELSE n - 1 = MaxArenas + Cardinality(TabOver')
    BY <1>2, <1>3, <2>5, <2>6
  <2>8. QED
    BY <1>2, <2>0, <2>1, <2>2, <2>3, <2>7 DEF TabPlacesKept, As!At
<1>7. QED
  BY <1>5, <1>6 DEF TabLive

-----------------------------------------------------------------------------
LEMMA TabOneOf ==
  ASSUME NEW S, NEW e \in S PROVE <<e>> \in Seq(S) /\ DOMAIN <<e>> = {1} /\ <<e>>[1] = e
  OBVIOUS

\* An arena in the table serves what it served.
LEMMA TabPublishHolds ==
  ASSUME As!ArenasAssumption, TabLive, NEW t \in Threads, As!Publish(t) PROVE TabLive'
<1>1. PICK q : q = request[t]
  OBVIOUS
<1>2. PICK i : i = q.index
  OBVIOUS
<1>3. /\ q \in TabLocalSet /\ q.arena \in TabArenaSet /\ q.arena.area \in Areas
      /\ q.arena # As!NoArena
      /\ user[t] = "publish" /\ user[t] \in TabPending /\ ~As!At(t, "idle")
  BY <1>1, TabLocalIs DEF As!Publish, TabLive, TabAreasKept, TabAreaOk, TabPending, As!At,
     As!NoArena, As!ArenasAssumption
<1>4. /\ i \in TabPlaces /\ i \in Nat /\ i < mi_arena_count /\ mi_arenas[i] = As!NoArena
      /\ mi_arenas' = [mi_arenas EXCEPT ![i] = q.arena]
      /\ UNCHANGED <<mi_arena_count, belongs, claims, exited>>
  BY <1>1, <1>2, <1>3 DEF As!Publish, TabLive, TabPlacesKept, TabPlaceOk, TabPlaces
<1>a. PICK e : e = <<i, TRUE>>
  OBVIOUS
<1>b. e \in Nat \X BOOLEAN /\ e[1] = i /\ e[2] = TRUE
  BY <1>a, <1>4
<1>c. <<e>> \in Seq(Nat \X BOOLEAN) /\ DOMAIN <<e>> = {1} /\ <<e>>[1] = e
  BY <1>b, TabOneOf
<1>5. PICK p, r : /\ TabMoves(t, p, r)
                  /\ \/ p = "idle" /\ r = As!NoLocal
                     \/ p = "try" /\ q.ask # As!NoAsk /\ r = [q EXCEPT !.left = <<e>>]
  BY <1>1, <1>2, <1>a DEF As!Publish, As!Quit, As!Goto, As!Keep, TabMoves
<1>6. /\ p \in TabPcs /\ r \in TabLocalSet /\ p \notin TabPending
      /\ p # "idle" => r.met = q.met /\ r.ask = q.ask /\ r.arena = q.arena /\ r.left = <<e>>
  <2>1. CASE p = "idle" /\ r = As!NoLocal
    BY <2>1, TabNothing DEF TabPcs, TabPending
  <2>2. CASE p = "try" /\ r = [q EXCEPT !.left = <<e>>]
    BY <1>3, <1>c, <2>2 DEF TabLocalSet, TabPcs, TabPending
  <2>3. QED
    BY <1>5, <2>1, <2>2
<1>7. /\ user'[t] = p /\ request'[t] = r
      /\ \A u \in Threads : u # t => user'[u] = user[u] /\ request'[u] = request[u]
      /\ user' \in [Threads -> TabPcs] /\ request' \in [Threads -> TabLocalSet]
  BY <1>5, <1>6, TabMoved DEF TabLive
<1>8. /\ mi_arenas' \in [TabPlaces -> TabArenaSet] /\ mi_arenas'[i] = q.arena
      /\ \A j \in TabPlaces : j # i => mi_arenas'[j] = mi_arenas[j]
      /\ As!Published' = As!Published \cup {i} /\ i \notin As!Published
  <2>1. /\ mi_arenas' \in [TabPlaces -> TabArenaSet] /\ mi_arenas'[i] = q.arena
        /\ \A j \in TabPlaces : j # i => mi_arenas'[j] = mi_arenas[j]
    BY <1>3, <1>4 DEF TabLive, ArenasTyped
  <2>2. DOMAIN mi_arenas = TabPlaces /\ DOMAIN mi_arenas' = TabPlaces
    BY <2>1 DEF TabLive, ArenasTyped
  <2>3. QED
    BY <1>3, <1>4, <2>1, <2>2 DEF As!Published
<1>9. ArenasTyped'
  BY <1>3, <1>4, <1>7, <1>8 DEF TabLive, ArenasTyped, TabPcs
<1>10. TabPlacesKept'
  <2>1. \A u \in Threads : u # t /\ user[u] = "publish" => request[u].index # i
    BY <1>1, <1>2, <1>3 DEF TabLive, TabPlacesKept, As!At
  <2>2. ASSUME NEW u \in Threads PROVE TabPlaceOk(u)'
    <3>1. CASE u = t
      BY <1>5, <1>7, <3>1 DEF TabPlaceOk, As!At
    <3>2. CASE u # t
      <4>1. TabPlaceOk(u) /\ (user[u] = "publish" => request[u].index # i)
        BY <2>1, <3>2 DEF TabLive, TabPlacesKept
      <4>2. QED
        BY <1>4, <1>7, <1>8, <3>2, <4>1 DEF TabPlaceOk, As!At
    <3>3. QED
      BY <3>1, <3>2
  <2>3. TabOver' = TabOver
    BY <1>3, <1>5, <1>7 DEF TabOver, As!At
  <2>4. \A u, v \in Threads : user'[u] = "publish" /\ user'[v] = "publish" /\ u # v =>
          request'[u].index # request'[v].index
    <3>1. user'[t] # "publish"
      BY <1>5, <1>7
    <3>2. QED
      BY <1>7, <3>1 DEF TabLive, TabPlacesKept, As!At
  <2>5. QED
    BY <1>4, <1>8, <2>2, <2>3, <2>4 DEF TabPlacesKept, As!At, TabLive
<1>11. TabAreasKept'
  <2>1. \A j \in As!Published : j \in TabPlaces /\ j # i /\ mi_arenas'[j] = mi_arenas[j]
          /\ mi_arenas[j].area # q.arena.area
    BY <1>1, <1>3, <1>8, TabPublishedIs DEF TabLive, TabAreasKept, TabAreaOk
  <2>2. ASSUME NEW u \in Threads PROVE TabAreaOk(u)'
    <3>1. CASE u = t
      <4>1. CASE p = "idle" /\ r = As!NoLocal
        BY <1>7, <3>1, <4>1 DEF TabAreaOk, As!At, As!NoLocal, TabPending
      <4>2. CASE p = "try" /\ r.arena = q.arena
        BY <1>7, <1>8, <3>1, <4>2 DEF TabAreaOk, As!At, TabPending
      <4>3. QED
        BY <1>5, <1>6, <4>1, <4>2
    <3>2. CASE u # t
      <4>1. TabAreaOk(u) /\ (user[u] \in TabPending => request[u].arena.area # q.arena.area)
        BY <1>1, <1>3, <3>2 DEF TabLive, TabAreasKept
      <4>2. QED
        BY <1>4, <1>7, <1>8, <2>1, <3>2, <4>1 DEF TabAreaOk, As!At
    <3>3. QED
      BY <3>1, <3>2
  <2>3. \A u, v \in Threads : user'[u] \in TabPending /\ user'[v] \in TabPending /\ u # v =>
                                request'[u].arena.area # request'[v].arena.area
    BY <1>6, <1>7 DEF TabLive, TabAreasKept
  <2>4. \A j, k \in As!Published' : mi_arenas'[j].area = mi_arenas'[k].area => j = k
    BY <1>8, <2>1 DEF TabLive, TabAreasKept
  <2>5. \A j \in As!Published' : belongs'[mi_arenas'[j].area] # "nobody"
    BY <1>1, <1>3, <1>4, <1>8, <2>1 DEF TabLive, TabAreasKept, TabAreaOk
  <2>6. ASSUME NEW a \in Areas, belongs'[a] # "nobody"
        PROVE  \/ \E j \in As!Published' : mi_arenas'[j].area = a
               \/ \E u \in Threads : user'[u] \in TabPending /\ request'[u].arena.area = a
    <3>1. \/ \E j \in As!Published : mi_arenas[j].area = a
          \/ \E u \in Threads : user[u] \in TabPending /\ request[u].arena.area = a
      BY <1>4, <2>6 DEF TabLive, TabAreasKept
    <3>2. CASE \E j \in As!Published : mi_arenas[j].area = a
      BY <1>8, <2>1, <3>2
    <3>3. CASE \E u \in Threads : user[u] \in TabPending /\ request[u].arena.area = a
      BY <1>1, <1>7, <1>8, <3>3
    <3>4. QED
      BY <3>1, <3>2, <3>3
  <2>7. QED
    BY <2>2, <2>3, <2>4, <2>5, <2>6 DEF TabAreasKept
<1>12. TabClaimsKept'
  <2>1. \A j \in As!Published : j \in As!Published' /\ mi_arenas'[j] = mi_arenas[j]
    BY <1>8, TabPublishedIs DEF TabLive
  <2>2. ASSUME NEW u \in Threads, NEW c, c = claims[u] PROVE TabClaimOk(c)'
    BY <2>1, <2>2 DEF TabLive, TabClaimsKept, TabClaimOk
  <2>3. QED
    BY <1>4, <2>2 DEF TabClaimsKept
<1>13. TabLastKept'
  <2>1. ASSUME p = "try", ~r.met PROVE TabYet(r.ask, r.left)'
    <3>1. PICK ask : ask = q.ask
      OBVIOUS
    <3>2. TabFull(ask) /\ ask.req = As!NoId /\ ~q.arena.kind.exclusive
            /\ q.arena.kind.numa_node = As!AnyNode
      BY <1>1, <1>3, <1>5, <1>6, <2>1, <3>1 DEF TabLive, TabLastKept, TabLastOk,
         TabReserving, TabReservedOk
    <3>3. ASSUME NEW j \in As!Published PROVE ~TabFits(j, ask)'
      <4>1. mi_arenas'[j] = mi_arenas[j] /\ ~TabFits(j, ask)
        BY <1>8, <3>2, TabPublishedIs DEF TabLive, TabFull
      <4>2. As!HasRoom(j, ask)' <=> As!HasRoom(j, ask)
        BY <1>4, TabRoomSame
      <4>3. QED
        BY <4>1, <4>2 DEF TabFits, As!Suits
    <3>4. ASSUME TabFits(i, ask)' PROVE As!Suits(i, TRUE, ask)'
      BY <1>8, <3>2, <3>4 DEF TabFits, As!Suits, As!NumaSuitable, As!AnyNode
    <3>5. r.left = <<e>> /\ r.left[1] = e /\ 1 \in DOMAIN r.left /\ r.ask = ask
      BY <1>6, <1>c, <2>1, <3>1
    <3>6. ASSUME NEW j \in As!Published', TabFits(j, ask)'
          PROVE  \E k \in DOMAIN r.left : r.left[k][1] = j /\ As!Suits(j, r.left[k][2], ask)'
      <4>1. j = i /\ As!Suits(i, TRUE, ask)'
        BY <1>8, <3>3, <3>4, <3>6
      <4>2. r.left[1][1] = j /\ r.left[1][2] = TRUE
        BY <1>b, <3>5, <4>1
      <4>3. QED
        BY <3>5, <4>1, <4>2
    <3>7. QED
      BY <3>5, <3>6 DEF TabYet
  <2>2. (p # "idle" => r.met = request[t].met) /\ p # "os"
    BY <1>1, <1>5, <1>6
  <2>3. QED
    BY <1>3, <1>5, <1>6, <2>1, <2>2, TabLastMoves DEF TabLive
<1>14. TabWalksKept'
  <2>1. TabInside(<<e>>)
    <3>1. i < MaxArenas
      BY <1>4, TabPublishedIs DEF TabLive
    <3>2. QED
      BY <1>b, <1>c, <3>1 DEF TabInside
  <2>2. p # "outside" /\ (p = "try" => TabInside(r.left))
    BY <1>5, <1>6, <2>1
  <2>3. QED
    BY <1>5, <1>6, <2>2, TabWalksMove DEF TabLive
<1>15. QED
  BY <1>9, <1>10, <1>11, <1>12, <1>13, <1>14 DEF TabLive

-----------------------------------------------------------------------------
\* A thread that begins meets those that are under way.
LEMMA TabBegunOther ==
  ASSUME ArenasTyped, NEW t \in Threads, NEW p \in TabPcs, NEW r \in TabLocalSet,
         As!Begin(t, p, r), NEW u \in Threads, u # t
  PROVE  /\ user'[u] = user[u] /\ request'[u] \in TabLocalSet
         /\ request'[u].ask = request[u].ask /\ request'[u].arena = request[u].arena
         /\ request'[u].index = request[u].index
         /\ user[u] = "idle" => request'[u] = request[u]
         /\ user[u] # "idle" => request'[u].met = TRUE
<1>1. user'[u] = user[u]
  BY DEF As!Begin, As!Goto, ArenasTyped
<1>2. PICK q \in TabLocalSet : q = request[u]
  BY TabLocalIs
<1>3. request'[u] = IF user[u] = "idle" THEN q ELSE [q EXCEPT !.met = TRUE]
  BY <1>2 DEF As!Begin, As!Meet, As!Busy, As!At
<1>4. CASE user[u] = "idle"
  BY <1>1, <1>2, <1>3, <1>4
<1>5. CASE user[u] # "idle"
  BY <1>1, <1>2, <1>3, <1>5 DEF TabLocalSet
<1>6. QED
  BY <1>4, <1>5

LEMMA TabBegun ==
  ASSUME ArenasTyped, NEW t \in Threads, NEW p \in TabPcs, NEW r \in TabLocalSet,
         As!Begin(t, p, r)
  PROVE  /\ user[t] = "idle" /\ exited = FALSE /\ user' \in [Threads -> TabPcs]
         /\ request' \in [Threads -> TabLocalSet]
         /\ user'[t] = p /\ (~request'[t].met => As!Busy = {})
         /\ request'[t].ask = r.ask /\ request'[t].arena = r.arena
         /\ UNCHANGED <<mi_arenas, mi_arena_count, exited>>
<1>1. /\ user[t] = "idle" /\ exited = FALSE /\ user' = [user EXCEPT ![t] = p]
      /\ UNCHANGED <<mi_arenas, mi_arena_count, exited>>
  BY DEF As!Begin, As!At, As!Goto, ArenasTyped
<1>2. PICK s : s = [r EXCEPT !.met = As!Busy # {}]
  OBVIOUS
<1>3. request'[t] = s /\ request' = [u \in Threads |-> request'[u]]
  <2>1. request' = [u \in Threads |->
                      IF u = t THEN s
                      ELSE IF u \in As!Busy THEN [request[u] EXCEPT !.met = TRUE]
                      ELSE request[u]]
    BY <1>2 DEF As!Begin, As!Meet
  <2>2. request' = [u \in Threads |-> request'[u]]
    BY <2>1
  <2>3. QED
    BY <2>1, <2>2
<1>4. s \in TabLocalSet /\ s.met = (As!Busy # {}) /\ s.ask = r.ask /\ s.arena = r.arena
  BY <1>2 DEF TabLocalSet
<1>5. user' \in [Threads -> TabPcs] /\ user'[t] = p
  BY <1>1 DEF ArenasTyped, TabPcs
<1>6. \A u \in Threads : request'[u] \in TabLocalSet
  BY <1>3, <1>4, TabBegunOther
<1>7. request' \in [Threads -> TabLocalSet]
  BY <1>3, <1>6
<1>8. QED
  BY <1>1, <1>3, <1>4, <1>5, <1>7

LEMMA TabBusyIs == \A u \in Threads : u \in As!Busy <=> user[u] # "idle"
  BY DEF As!Busy, As!At

LEMMA TabWalksBegin ==
  ASSUME ArenasTyped, TabWalksKept, NEW t \in Threads, NEW p \in TabPcs, NEW r \in TabLocalSet,
         As!Begin(t, p, r), p # "try", p # "outside"
  PROVE  TabWalksKept'
<1>1. user'[t] = p
  BY TabBegun
<1>2. TabWalkOk(t)'
  BY <1>1 DEF TabWalkOk, As!At
<1>3. ASSUME NEW u \in Threads, u # t PROVE TabWalkOk(u)'
  <2>1. user'[u] = user[u] /\ (user[u] # "idle" => request'[u].met = TRUE)
    BY <1>3, TabBegunOther
  <2>2. QED
    BY <2>1 DEF TabWalkOk, As!At
<1>4. QED
  BY <1>2, <1>3 DEF TabWalksKept

LEMMA TabLastBegins ==
  ASSUME ArenasTyped, TabLastKept, NEW t \in Threads, NEW p \in TabPcs, NEW r \in TabLocalSet,
         As!Begin(t, p, r),
         p = "load" \/ (p = "meta" /\ r.ask = As!NoAsk)
  PROVE  TabLastKept'
<1>1. /\ user[t] = "idle" /\ user'[t] = p /\ (~request'[t].met => As!Busy = {})
           /\ request'[t].ask = r.ask
      /\ \A u \in Threads : u # t =>
           /\ user'[u] = user[u] /\ request'[u].ask = request[u].ask
                /\ request'[u].arena = request[u].arena
           /\ user[u] # "idle" => request'[u].met = TRUE
  <2>1. user[t] = "idle" /\ user'[t] = p /\ (~request'[t].met => As!Busy = {})
          /\ request'[t].ask = r.ask
    BY TabBegun
  <2>2. ASSUME NEW u \in Threads, u # t
        PROVE  /\ user'[u] = user[u] /\ request'[u].ask = request[u].ask
                    /\ request'[u].arena = request[u].arena
               /\ user[u] # "idle" => request'[u].met = TRUE
    BY <2>2, TabBegunOther
  <2>3. QED
    BY <2>1, <2>2
<1>2. TabReservedOk(t)' /\ TabLastOk(t)'
  <2>1. ~TabReserving(t)' /\ p # "try" /\ p # "os"
    BY <1>1 DEF TabReserving, TabPending
  <2>2. ~request'[t].met => \A u \in Threads : u # t => As!At(u, "idle")'
    BY <1>1, TabBusyIs DEF As!At
  <2>3. QED
    BY <1>1, <2>1, <2>2 DEF TabReservedOk, TabLastOk, As!At
<1>3. ASSUME NEW u \in Threads, u # t PROVE TabLastOk(u)' /\ TabReservedOk(u)'
  <2>1. TabLastOk(u)'
    BY <1>1, <1>3 DEF TabLastOk, As!At
  <2>2. TabReservedOk(u)'
    BY <1>1, <1>3 DEF TabReservedOk, TabReserving, TabLastKept
  <2>3. QED
    BY <2>1, <2>2
<1>4. QED
  BY <1>2, <1>3 DEF TabLastKept

\* An area that was nobody's goes to a thread that makes an arena of it.
LEMMA TabTakesArea ==
  ASSUME As!ArenasAssumption, ArenasTyped, TabAreasKept, NEW t \in Threads, NEW a \in Areas,
         user[t] \notin TabPending, user'[t] \in TabPending, request'[t].arena.area = a,
         belongs[a] = "nobody", belongs'[a] # "nobody",
         \A b \in Areas : b # a => belongs'[b] = belongs[b],
         \A u \in Threads : u # t => user'[u] = user[u] /\ request'[u].arena = request[u].arena,
         \A u \in Threads : u # t /\ user[u] = "idle" => request'[u] = request[u],
         UNCHANGED mi_arenas
  PROVE  TabAreasKept'
<1>1. As!Published' = As!Published
  BY DEF As!Published
<1>2. /\ \A i \in As!Published : mi_arenas[i].area \in Areas /\ mi_arenas[i].area # a
      /\ \A u \in Threads : user[u] \in TabPending => request[u].arena.area \in Areas
           /\ request[u].arena.area # a
  BY TabPublishedIs DEF TabAreasKept, TabAreaOk
<1>3. ASSUME NEW u \in Threads PROVE TabAreaOk(u)'
  <2>1. CASE u = t
    BY <1>1, <1>2, <2>1 DEF TabAreaOk, As!At, TabPending
  <2>2. CASE u # t
    BY <1>1, <1>2, <2>2 DEF TabAreaOk, As!At, TabAreasKept
  <2>3. QED
    BY <2>1, <2>2
<1>4. \A u, v \in Threads : user'[u] \in TabPending /\ user'[v] \in TabPending /\ u # v =>
                              request'[u].arena.area # request'[v].arena.area
  BY <1>2 DEF TabAreasKept
<1>5. \A i \in As!Published : belongs'[mi_arenas[i].area] # "nobody"
  BY <1>2 DEF TabAreasKept
<1>6. ASSUME NEW b \in Areas, belongs'[b] # "nobody"
      PROVE  \/ \E i \in As!Published : mi_arenas[i].area = b
             \/ \E u \in Threads : user'[u] \in TabPending /\ request'[u].arena.area = b
  <2>1. CASE b = a
    BY <2>1
  <2>2. CASE b # a
    <3>1. \/ \E i \in As!Published : mi_arenas[i].area = b
          \/ \E u \in Threads : user[u] \in TabPending /\ request[u].arena.area = b
      BY <1>6, <2>2 DEF TabAreasKept
    <3>2. QED
      BY <3>1
  <2>3. QED
    BY <2>1, <2>2
<1>7. QED
  BY <1>1, <1>3, <1>4, <1>5, <1>6 DEF TabAreasKept

LEMMA TabAddHolds ==
  ASSUME As!ArenasAssumption, TabLive, NEW t \in Threads, NEW a \in Areas, NEW kind \in Kinds,
         As!Add(t, a, kind)
  PROVE  TabLive'
<1>1. PICK r : r = [As!NoLocal EXCEPT !.arena = [area |-> a, kind |-> kind]]
  OBVIOUS
<1>2. /\ r \in TabLocalSet /\ r.arena = [area |-> a, kind |-> kind] /\ r.arena.area = a
           /\ r.ask = As!NoAsk
      /\ kind.memkind \in {"EXTERNAL", "OS"}
  <2>1. kind \in TabKindSet /\ kind.memkind \in {"EXTERNAL", "OS"}
    BY DEF As!ArenasAssumption, TabKindSet
  <2>2. [area |-> a, kind |-> kind] \in TabArenaSet
    BY <2>1 DEF TabArenaSet
  <2>3. QED
    BY <1>1, <2>1, <2>2, TabNothing DEF As!NoLocal, TabLocalSet
<1>3. "meta" \in TabPcs /\ "meta" \in TabPending
  BY DEF TabPcs, TabPending
<1>4. As!Begin(t, "meta", r) /\ UNCHANGED claims /\ belongs[a] = "nobody"
        /\ belongs' = [belongs EXCEPT ![a] = kind.memkind]
  BY <1>1 DEF As!Add
<1>5. /\ user[t] = "idle" /\ exited = FALSE /\ user' \in [Threads -> TabPcs]
           /\ request' \in [Threads -> TabLocalSet]
      /\ user'[t] = "meta" /\ request'[t].ask = As!NoAsk /\ request'[t].arena.area = a
      /\ \A u \in Threads : u # t =>
           /\ user'[u] = user[u] /\ request'[u].ask = request[u].ask
                /\ request'[u].arena = request[u].arena
           /\ request'[u].index = request[u].index
           /\ user[u] = "idle" => request'[u] = request[u]
      /\ UNCHANGED <<mi_arenas, mi_arena_count, exited>>
  <2>1. /\ ArenasTyped /\ As!Begin(t, "meta", r) /\ "meta" \in TabPcs /\ r \in TabLocalSet
        /\ r.arena.area = a /\ r.ask = As!NoAsk
    BY <1>2, <1>3, <1>4 DEF TabLive
  <2>2. /\ user[t] = "idle" /\ exited = FALSE /\ user' \in [Threads -> TabPcs]
             /\ request' \in [Threads -> TabLocalSet]
        /\ user'[t] = "meta" /\ request'[t].ask = As!NoAsk /\ request'[t].arena.area = a
        /\ UNCHANGED <<mi_arenas, mi_arena_count, exited>>
    BY <2>1, TabBegun
  <2>3. ASSUME NEW u \in Threads, u # t
        PROVE  /\ user'[u] = user[u] /\ request'[u].ask = request[u].ask
                    /\ request'[u].arena = request[u].arena
               /\ request'[u].index = request[u].index
               /\ user[u] = "idle" => request'[u] = request[u]
    BY <2>1, <2>3, TabBegunOther
  <2>4. QED
    BY <2>2, <2>3
<1>6. /\ belongs' \in [Areas -> {"nobody", "EXTERNAL", "OS"}] /\ belongs'[a] # "nobody"
      /\ \A b \in Areas : b # a => belongs'[b] = belongs[b]
  BY <1>2, <1>4 DEF TabLive, ArenasTyped
<1>7. ArenasTyped'
  BY <1>4, <1>5, <1>6 DEF TabLive, ArenasTyped, TabPcs
<1>8. TabPlacesKept'
  BY <1>5, TabPlacesSame DEF TabLive, As!At
<1>9. TabAreasKept'
  <2>1. "idle" \notin TabPending
    BY DEF TabPending
  <2>2. QED
    BY <1>3, <1>4, <1>5, <1>6, <2>1, TabTakesArea DEF TabLive
<1>10. TabClaimsKept'
  BY <1>4, <1>5, TabClaimsSame DEF TabLive
<1>11. TabLastKept'
  BY <1>2, <1>3, <1>4, TabLastBegins DEF TabLive
<1>12. TabWalksKept'
  BY <1>2, <1>3, <1>4, TabWalksBegin DEF TabLive
<1>13. QED
  BY <1>7, <1>8, <1>9, <1>10, <1>11, <1>12 DEF TabLive

LEMMA TabAllocHolds ==
  ASSUME As!ArenasAssumption, TabLive, NEW t \in Threads, NEW ask \in Wanted, As!Alloc(t, ask)
  PROVE  TabLive'
<1>1. PICK r : r = [As!NoLocal EXCEPT !.ask = ask]
  OBVIOUS
<1>2. r \in TabLocalSet /\ r.ask = ask /\ r.arena = As!NoArena
  <2>1. ask \in TabAskSet
    BY DEF As!ArenasAssumption, TabAskSet
  <2>2. QED
    BY <1>1, <2>1, TabNothing DEF As!NoLocal, TabLocalSet
<1>3. "load" \in TabPcs /\ "load" \notin TabPending
  BY DEF TabPcs, TabPending
<1>4. As!Begin(t, "load", r) /\ UNCHANGED <<belongs, claims>>
  BY <1>1 DEF As!Alloc
<1>5. /\ user[t] = "idle" /\ exited = FALSE /\ user' \in [Threads -> TabPcs]
           /\ request' \in [Threads -> TabLocalSet]
      /\ user'[t] = "load" /\ request'[t].ask = ask /\ request'[t].arena = As!NoArena
      /\ \A u \in Threads : u # t =>
           /\ user'[u] = user[u] /\ request'[u].ask = request[u].ask
                /\ request'[u].arena = request[u].arena
           /\ request'[u].index = request[u].index
           /\ user[u] = "idle" => request'[u] = request[u]
      /\ UNCHANGED <<mi_arenas, mi_arena_count, exited>>
  <2>1. ArenasTyped
    BY DEF TabLive
  <2>2. /\ user[t] = "idle" /\ exited = FALSE /\ user' \in [Threads -> TabPcs]
             /\ request' \in [Threads -> TabLocalSet]
        /\ user'[t] = "load" /\ request'[t].ask = ask /\ request'[t].arena = As!NoArena
        /\ UNCHANGED <<mi_arenas, mi_arena_count, exited>>
    BY <1>2, <1>3, <1>4, <2>1, TabBegun
  <2>3. ASSUME NEW u \in Threads, u # t
        PROVE  /\ user'[u] = user[u] /\ request'[u].ask = request[u].ask
                    /\ request'[u].arena = request[u].arena
               /\ request'[u].index = request[u].index
               /\ user[u] = "idle" => request'[u] = request[u]
    BY <1>2, <1>3, <1>4, <2>1, <2>3, TabBegunOther
  <2>4. QED
    BY <2>2, <2>3
<1>6. ArenasTyped'
  BY <1>4, <1>5 DEF TabLive, ArenasTyped, TabPcs
<1>7. TabPlacesKept'
  BY <1>5, TabPlacesSame DEF TabLive, As!At
<1>8. TabAreasKept'
  <2>1. "idle" \notin TabPending
    BY DEF TabPending
  <2>2. ASSUME NEW u \in Threads
        PROVE  /\ user'[u] \in TabPending <=> user[u] \in TabPending
               /\ request'[u].arena = request[u].arena \/ (user'[u] \notin TabPending
                    /\ request'[u].arena = As!NoArena)
               /\ user'[u] = "idle" => request'[u] = As!NoLocal
    <3>1. user[u] = "idle" => request[u] = As!NoLocal
      BY DEF TabLive, TabAreasKept, TabAreaOk, As!At
    <3>2. QED
      BY <1>3, <1>5, <2>1, <3>1
  <2>3. QED
    BY <1>4, <1>5, <2>2, TabAreasSame DEF TabLive, As!At
<1>9. TabClaimsKept'
  BY <1>4, <1>5, TabClaimsSame DEF TabLive
<1>10. TabLastKept'
  BY <1>2, <1>3, <1>4, TabLastBegins DEF TabLive
<1>11. TabWalksKept'
  BY <1>2, <1>3, <1>4, TabWalksBegin DEF TabLive
<1>12. QED
  BY <1>6, <1>7, <1>8, <1>9, <1>10, <1>11 DEF TabLive

-----------------------------------------------------------------------------
LEMMA TabFreeHolds ==
  ASSUME As!ArenasAssumption, TabLive, NEW t \in Threads, As!Free(t)
  PROVE TabLive'
<1>1. /\ user[t] = "idle" /\ exited = FALSE /\ claims' = [claims EXCEPT ![t] = As!NoClaim]
      /\ UNCHANGED <<mi_arenas, mi_arena_count, belongs, user, exited>>
  BY DEF As!Free, As!At, TabLive, ArenasTyped
<1>2. ASSUME NEW u \in Threads
      PROVE  /\ request'[u] \in TabLocalSet /\ request'[u].ask = request[u].ask
                  /\ request'[u].arena = request[u].arena
             /\ request'[u].index = request[u].index
             /\ user[u] = "idle" => request'[u] = As!NoLocal
             /\ user[u] # "idle" => request'[u].met = TRUE
  <2>1. PICK q \in TabLocalSet : q = request[u] /\ (user[u] = "idle" => q = As!NoLocal)
    BY TabLocalIs DEF TabLive, TabAreasKept, TabAreaOk, As!At
  <2>2. request'[u] = IF user[u] = "idle" THEN q ELSE [q EXCEPT !.met = TRUE]
    BY <1>1, <2>1 DEF As!Free, As!Meet, As!Busy, As!At
  <2>3. CASE user[u] = "idle"
    BY <2>1, <2>2, <2>3
  <2>4. CASE user[u] # "idle"
    BY <2>1, <2>2, <2>4 DEF TabLocalSet
  <2>5. QED
    BY <2>3, <2>4
<1>3. request' \in [Threads -> TabLocalSet]
  <2>1. \E f : request' = [u \in Threads |-> f[u]]
    <3>1. request' = [u \in Threads |-> request'[u]]
      BY DEF As!Free, As!Meet
    <3>2. QED
      BY <3>1
  <2>2. QED
    BY <1>2, <2>1
<1>4. ArenasTyped'
  <2>1. claims' \in [Threads -> TabClaimSet]
    BY <1>1, TabNothing DEF TabLive, ArenasTyped
  <2>2. QED
    BY <1>1, <1>3, <2>1 DEF TabLive, ArenasTyped
<1>5. TabPlacesKept'
  BY <1>1, <1>2, TabPlacesSame DEF TabLive, As!At
<1>6. TabAreasKept'
  BY <1>1, <1>2, TabAreasSame DEF TabLive, As!At
<1>7. TabClaimsKept'
  <2>1. As!Published' = As!Published
    BY <1>1 DEF As!Published
  <2>2. ASSUME NEW u \in Threads, NEW c, c = claims'[u] PROVE TabClaimOk(c)'
    <3>1. CASE c = As!NoClaim
      BY <3>1 DEF TabClaimOk
    <3>2. CASE c # As!NoClaim
      <4>1. c = claims[u]
        BY <1>1, <2>2, <3>2 DEF TabLive, ArenasTyped
      <4>2. QED
        BY <1>1, <2>1, <4>1 DEF TabLive, TabClaimsKept, TabClaimOk
    <3>3. QED
      BY <3>1, <3>2
  <2>3. QED
    BY <2>2 DEF TabClaimsKept
<1>8. TabLastKept'
  <2>1. ASSUME NEW u \in Threads PROVE TabLastOk(u)' /\ TabReservedOk(u)'
    <3>1. TabLastOk(u)'
      BY <1>1, <1>2 DEF TabLastOk, As!At
    <3>2. TabReservedOk(u)'
      BY <1>1, <1>2 DEF TabReservedOk, TabReserving, TabLastKept, TabLive
    <3>3. QED
      BY <3>1, <3>2
  <2>2. QED
    BY <2>1 DEF TabLastKept
<1>9. TabWalksKept'
  <2>1. \A u \in Threads : TabWalkOk(u)'
    BY <1>1, <1>2 DEF TabWalkOk, As!At
  <2>2. QED
    BY <2>1 DEF TabWalksKept
<1>10. QED
  BY <1>4, <1>5, <1>6, <1>7, <1>8, <1>9 DEF TabLive

LEMMA TabFromOsHolds ==
  ASSUME As!ArenasAssumption, TabLive, NEW t \in Threads, As!FromOs(t)
  PROVE TabLive'
<1>1. /\ user[t] = "os" /\ ~As!At(t, "idle") /\ TabMoves(t, "idle", As!NoLocal)
      /\ UNCHANGED <<mi_arenas, mi_arena_count, belongs, claims, exited>>
  BY DEF As!FromOs, As!At, As!Quit, As!Goto, TabMoves
<1>2. "idle" \in TabPcs /\ As!NoLocal \in TabLocalSet /\ "idle" \notin TabPending
        /\ "os" \notin TabPending
      /\ As!NoLocal.arena = As!NoArena
  BY TabNothing DEF TabPcs, TabPending, As!NoLocal
<1>3. /\ user'[t] = "idle" /\ request'[t] = As!NoLocal
      /\ \A u \in Threads : u # t => user'[u] = user[u] /\ request'[u] = request[u]
  BY <1>1, <1>2, TabMoved DEF TabLive
<1>4. ArenasTyped'
  BY <1>1, <1>2, TabTypedMoves DEF TabLive, ArenasTyped
<1>5. TabPlacesKept'
  BY <1>1, <1>3, TabPlacesSame DEF TabLive, As!At
<1>6. TabAreasKept'
  <2>1. ASSUME NEW u \in Threads
        PROVE  /\ user'[u] \in TabPending <=> user[u] \in TabPending
               /\ request'[u].arena = request[u].arena \/ (user'[u] \notin TabPending
                    /\ request'[u].arena = As!NoArena)
               /\ user'[u] = "idle" => request'[u] = As!NoLocal
    BY <1>1, <1>2, <1>3 DEF TabLive, TabAreasKept, TabAreaOk, As!At
  <2>2. QED
    BY <1>1, <2>1, TabAreasSame DEF TabLive, As!At
<1>7. TabClaimsKept'
  BY <1>1, TabClaimsSame DEF TabLive
<1>8. TabLastKept'
  BY <1>1, <1>2, TabLastMoves DEF TabLive
<1>9. TabWalksKept'
  BY <1>1, <1>2, TabWalksMove DEF TabLive
<1>10. QED
  BY <1>4, <1>5, <1>6, <1>7, <1>8, <1>9 DEF TabLive

LEMMA TabFunctionIsSeq ==
  ASSUME NEW S, NEW n \in Nat, NEW f \in [1 .. n -> S] PROVE f \in Seq(S) /\ Len(f) = n
  OBVIOUS

\* The entries for the first arenas.
TabEntries(max, match) == [i \in 1 .. max |-> <<i - 1, match>>]

LEMMA TabEntriesAre ==
  ASSUME NEW max \in Nat, NEW match \in BOOLEAN
  PROVE  /\ TabEntries(max, match) \in Seq(Nat \X BOOLEAN) /\ Len(TabEntries(max, match)) = max
         /\ \A i \in 1 .. max : TabEntries(max, match)[i][1] = i - 1
              /\ TabEntries(max, match)[i][2] = match
<1> DEFINE a == TabEntries(max, match)
<1>1. ASSUME NEW i \in 1 .. max
      PROVE  a[i] \in Nat \X BOOLEAN /\ a[i][1] = i - 1 /\ a[i][2] = match
  <2>1. a[i] = <<i - 1, match>> /\ i - 1 \in Nat
    BY DEF TabEntries
  <2>2. QED
    BY <2>1
<1>2. a \in [1 .. max -> Nat \X BOOLEAN]
  BY <1>1 DEF TabEntries
<1>3. QED
  BY <1>1, <1>2, TabFunctionIsSeq

LEMMA TabJoinIs ==
  ASSUME NEW S, NEW a \in Seq(S), NEW b \in Seq(S), NEW s, s = a \o b
  PROVE  /\ s \in Seq(S) /\ DOMAIN s = 1 .. Len(a) + Len(b)
         /\ \A i \in 1 .. Len(a) : s[i] = a[i]
         /\ \A i \in 1 .. Len(b) : s[Len(a) + i] = b[i]
  OBVIOUS

\* The arenas to try are all that might suit.
TabCovers(s, max, ask) ==
  /\ ask.req # As!NoId /\ As!IndexOf(ask.req) < max =>
       \E k \in DOMAIN s : s[k][1] = As!IndexOf(ask.req) /\ s[k][2] = TRUE
  /\ ask.req = As!NoId =>
       \A i \in 0 .. max - 1 : \E k \in DOMAIN s : s[k][1] = i /\ s[k][2] = TRUE
  /\ ask.req = As!NoId /\ ask.node >= 0 =>
       \A i \in 0 .. max - 1 : \E k \in DOMAIN s : s[k][1] = i /\ s[k][2] = FALSE

LEMMA TabCandidatesAre ==
  ASSUME NEW max \in Nat, NEW ask \in TabAskSet, NEW s, s = As!Candidates(max, ask)
  PROVE  s \in Seq(Nat \X BOOLEAN) /\ TabCovers(s, max, ask) /\ \A k \in DOMAIN s : s[k][1] < max
<1>1. ask.req \in Nat /\ ask.node \in Int
  BY DEF TabAskSet
<1>2. CASE ask.req # As!NoId
  <2>1. CASE As!IndexOf(ask.req) < max
    <3>1. PICK e : e = <<As!IndexOf(ask.req), TRUE>>
      OBVIOUS
    <3>2. As!IndexOf(ask.req) \in Nat
      BY <1>1, <1>2 DEF As!IndexOf, As!NoId
    <3>3. e \in Nat \X BOOLEAN /\ e[1] = As!IndexOf(ask.req) /\ e[2] = TRUE
      BY <3>1, <3>2
    <3>4. s = <<e>>
      BY <1>2, <2>1, <3>1 DEF As!Candidates
    <3>5. s \in Seq(Nat \X BOOLEAN) /\ DOMAIN s = {1} /\ s[1] = e
      BY <3>3, <3>4, TabOneOf
    <3>6. \A k \in DOMAIN s : s[k][1] < max
      BY <2>1, <3>3, <3>5
    <3>7. QED
      BY <1>2, <3>3, <3>5, <3>6 DEF TabCovers
  <2>2. CASE ~(As!IndexOf(ask.req) < max)
    BY <1>2, <2>2 DEF As!Candidates, TabCovers
  <2>3. QED
    BY <2>1, <2>2
<1>3. CASE ask.req = As!NoId
  <2>1. PICK a : a = TabEntries(max, TRUE)
    OBVIOUS
  <2>2. PICK b : b = TabEntries(max, FALSE)
    OBVIOUS
  <2>3. /\ a \in Seq(Nat \X BOOLEAN) /\ Len(a) = max
        /\ \A i \in 1 .. max : a[i][1] = i - 1 /\ a[i][2] = TRUE
    BY <2>1, TabEntriesAre
  <2>4. /\ b \in Seq(Nat \X BOOLEAN) /\ Len(b) = max
        /\ \A i \in 1 .. max : b[i][1] = i - 1 /\ b[i][2] = FALSE
    BY <2>2, TabEntriesAre
  <2>5. PICK c : c = IF ask.node >= 0 THEN b ELSE <<>>
    OBVIOUS
  <2>6. c \in Seq(Nat \X BOOLEAN) /\ Len(c) \in Nat
    BY <2>4, <2>5
  <2>7. s = a \o c
    BY <1>3, <2>1, <2>2, <2>5 DEF As!Candidates, TabEntries
  <2>8. /\ s \in Seq(Nat \X BOOLEAN) /\ DOMAIN s = 1 .. max + Len(c)
        /\ \A i \in 1 .. max : s[i] = a[i]
        /\ \A i \in 1 .. Len(c) : s[max + i] = c[i]
    <3>1. PICK S : S = Nat \X BOOLEAN
      OBVIOUS
    <3>2. a \in Seq(S) /\ c \in Seq(S)
      BY <2>3, <2>6, <3>1
    <3>3. /\ s \in Seq(S) /\ DOMAIN s = 1 .. Len(a) + Len(c)
          /\ \A i \in 1 .. Len(a) : s[i] = a[i]
          /\ \A i \in 1 .. Len(c) : s[Len(a) + i] = c[i]
      BY <2>7, <3>2, TabJoinIs
    <3>4. QED
      BY <2>3, <3>1, <3>3
  <2>9. ASSUME NEW i \in 0 .. max - 1
        PROVE  i + 1 \in DOMAIN s /\ s[i + 1][1] = i /\ s[i + 1][2] = TRUE
    <3>1. i + 1 \in 1 .. max /\ i + 1 \in 1 .. max + Len(c) /\ (i + 1) - 1 = i
      BY <2>6
    <3>2. QED
      BY <2>3, <2>8, <3>1
  <2>10. ASSUME NEW i \in 0 .. max - 1, ask.node >= 0
         PROVE  max + (i + 1) \in DOMAIN s /\ s[max + (i + 1)][1] = i
                  /\ s[max + (i + 1)][2] = FALSE
    <3>1. c = b /\ Len(c) = max
      BY <2>4, <2>5, <2>10
    <3>2. i + 1 \in 1 .. Len(c) /\ max + (i + 1) \in 1 .. max + Len(c) /\ (i + 1) - 1 = i
      BY <3>1
    <3>3. QED
      BY <2>4, <2>8, <3>1, <3>2
  <2>11. ASSUME NEW k \in DOMAIN s PROVE s[k][1] < max
    <3>1. CASE k \in 1 .. max
      BY <2>3, <2>8, <3>1
    <3>2. CASE k \notin 1 .. max
      <4>1. k - max \in 1 .. Len(c) /\ max + (k - max) = k
        BY <2>6, <2>8, <3>2
      <4>2. c = b /\ Len(c) = max
        BY <2>4, <2>5, <4>1
      <4>3. s[k] = b[k - max] /\ b[k - max][1] = (k - max) - 1
        BY <2>4, <2>8, <4>1, <4>2
      <4>4. QED
        BY <4>1, <4>2, <4>3
    <3>3. QED
      BY <3>1, <3>2
  <2>12. \A i \in 0 .. max - 1 : \E k \in DOMAIN s : s[k][1] = i /\ s[k][2] = TRUE
    BY <2>9
  <2>13. ask.node >= 0 => \A i \in 0 .. max - 1 : \E k \in DOMAIN s : s[k][1] = i /\ s[k][2] = FALSE
    BY <2>10
  <2>14. TabCovers(s, max, ask)
    BY <1>3, <2>12, <2>13 DEF TabCovers
  <2>15. QED
    BY <2>8, <2>11, <2>14
<1>4. QED
  BY <1>2, <1>3

LEMMA TabLoadCountHolds ==
  ASSUME As!ArenasAssumption, TabLive, NEW t \in Threads, As!LoadCount(t)
  PROVE TabLive'
<1>1. PICK q : q = request[t]
  OBVIOUS
<1>2. PICK ask : ask = q.ask
  OBVIOUS
<1>3. PICK s : s = As!Candidates(mi_arena_count, ask)
  OBVIOUS
<1>4. q \in TabLocalSet /\ ask \in TabAskSet /\ mi_arena_count \in Nat
  BY <1>1, <1>2, TabLocalIs DEF TabLive, ArenasTyped
<1>5. s \in Seq(Nat \X BOOLEAN)
  BY <1>3, <1>4, TabCandidatesAre
<1>6. PICK r : r = [q EXCEPT !.left = s]
  OBVIOUS
<1>7. /\ r \in TabLocalSet /\ r.ask = ask /\ r.left = s /\ r.met = q.met /\ r.arena = q.arena
      /\ "try" \in TabPcs /\ "try" \notin TabPending /\ "load" \notin TabPending
  BY <1>2, <1>4, <1>5, <1>6 DEF TabLocalSet, TabPcs, TabPending
<1>8. /\ user[t] = "load" /\ ~As!At(t, "idle") /\ TabMoves(t, "try", r)
      /\ UNCHANGED <<mi_arenas, mi_arena_count, belongs, claims, exited>>
  BY <1>1, <1>2, <1>3, <1>6 DEF As!LoadCount, As!At, As!Goto, As!Keep, TabMoves
<1>9. /\ user'[t] = "try" /\ request'[t] = r
      /\ \A u \in Threads : u # t => user'[u] = user[u] /\ request'[u] = request[u]
  BY <1>7, <1>8, TabMoved DEF TabLive
<1>10. ArenasTyped'
  BY <1>7, <1>8, TabTypedMoves DEF TabLive, ArenasTyped
<1>11. TabPlacesKept'
  BY <1>8, <1>9, TabPlacesSame DEF TabLive, As!At
<1>12. TabAreasKept'
  <2>1. ASSUME NEW u \in Threads
        PROVE  /\ user'[u] \in TabPending <=> user[u] \in TabPending
               /\ request'[u].arena = request[u].arena
               /\ user'[u] = "idle" => request'[u] = As!NoLocal
    BY <1>1, <1>7, <1>8, <1>9 DEF TabLive, TabAreasKept, TabAreaOk, As!At
  <2>2. QED
    BY <1>8, <2>1, TabAreasSame DEF TabLive, As!At
<1>13. TabClaimsKept'
  BY <1>8, TabClaimsSame DEF TabLive
<1>14. TabLastKept'
  <2>1. TabYet(ask, s)
    <3> SUFFICES ASSUME NEW i \in As!Published, TabFits(i, ask)
                 PROVE  \E k \in DOMAIN s : s[k][1] = i /\ As!Suits(i, s[k][2], ask)
      BY DEF TabYet
    <3>0. TabCovers(s, mi_arena_count, ask)
      BY <1>3, <1>4, TabCandidatesAre
    <3>1. i \in 0 .. mi_arena_count - 1 /\ i \in Nat
      BY <1>4, TabPublishedIs DEF TabLive, TabPlacesKept
    <3>2. CASE ask.req # As!NoId
      <4>1. ask.req = i + 1 /\ As!Suits(i, TRUE, ask)
        BY <3>2 DEF TabFits, As!Suits, As!IdSuitable, As!IdOf
      <4>2. As!IndexOf(ask.req) = i
        BY <3>1, <4>1 DEF As!IndexOf
      <4>3. PICK k \in DOMAIN s : s[k][1] = i /\ s[k][2] = TRUE
        BY <1>4, <3>0, <3>1, <3>2, <4>2 DEF TabCovers
      <4>4. QED
        BY <4>1, <4>3
    <3>3. CASE ask.req = As!NoId
      <4>1. CASE As!Suits(i, TRUE, ask)
        <5>1. PICK k \in DOMAIN s : s[k][1] = i /\ s[k][2] = TRUE
          BY <3>0, <3>1, <3>3 DEF TabCovers
        <5>2. QED
          BY <4>1, <5>1
      <4>2. CASE As!Suits(i, FALSE, ask)
        <5>1. ask.node >= 0
          BY <1>4, <3>3, <4>2 DEF As!Suits, As!NumaSuitable, TabAskSet
        <5>2. PICK k \in DOMAIN s : s[k][1] = i /\ s[k][2] = FALSE
          BY <3>0, <3>1, <3>3, <5>1 DEF TabCovers
        <5>3. QED
          BY <4>2, <5>2
      <4>3. QED
        BY <4>1, <4>2 DEF TabFits
    <3>4. QED
      BY <3>2, <3>3
  <2>2. TabYet(ask, s)'
    BY <1>8, <2>1, TabYetSame
  <2>3. TabYet(r.ask, r.left)'
    BY <1>7, <2>2
  <2>4. QED
    BY <1>1, <1>7, <1>8, <2>3, TabLastMoves DEF TabLive
<1>15. TabWalksKept'
  <2>1. ASSUME ~q.met PROVE TabInside(s)
    <3>1. \A u \in Threads : user[u] # "decrement"
      BY <1>1, <1>8, <2>1 DEF TabLive, TabLastKept, TabLastOk, As!At
    <3>2. TabOver = {}
      BY <3>1 DEF TabOver, As!At
    <3>3. mi_arena_count <= MaxArenas /\ MaxArenas \in Nat
      BY <3>2 DEF TabLive, TabPlacesKept, As!ArenasAssumption
    <3>4. \A k \in DOMAIN s : s[k] \in Nat \X BOOLEAN /\ s[k][1] < mi_arena_count
      BY <1>3, <1>4, <1>5, TabCandidatesAre
    <3>5. \A k \in DOMAIN s : s[k][1] < MaxArenas
      BY <1>4, <3>3, <3>4
    <3>6. QED
      BY <3>5 DEF TabInside
  <2>2. QED
    BY <1>7, <1>8, <2>1, TabWalksMove DEF TabLive
<1>16. QED
  BY <1>10, <1>11, <1>12, <1>13, <1>14, <1>15 DEF TabLive

-----------------------------------------------------------------------------
\* The arena that was looked at is out; the others are yet to be.
LEMMA TabTailIs ==
  ASSUME NEW S, NEW s \in Seq(S), s # <<>>
  PROVE  /\ Head(s) \in S /\ Head(s) = s[1] /\ Tail(s) \in Seq(S)
         /\ \A k \in DOMAIN s : k = 1 \/ (k - 1 \in DOMAIN Tail(s) /\ Tail(s)[k - 1] = s[k])
         /\ \A k \in DOMAIN Tail(s) : k + 1 \in DOMAIN s /\ Tail(s)[k] = s[k + 1]
         /\ 1 \in DOMAIN s
<1>1. Len(s) \in Nat /\ Len(s) >= 1 /\ DOMAIN s = 1 .. Len(s)
  OBVIOUS
<1>2. Head(s) = s[1] /\ Head(s) \in S /\ Tail(s) \in Seq(S) /\ Len(Tail(s)) = Len(s) - 1
  BY <1>1
<1>3. DOMAIN Tail(s) = 1 .. Len(s) - 1
  BY <1>2
<1>4. ASSUME NEW k \in DOMAIN s, k # 1
      PROVE  k - 1 \in DOMAIN Tail(s) /\ Tail(s)[k - 1] = s[k]
  <2>1. k - 1 \in 1 .. Len(s) - 1
    BY <1>1, <1>4
  <2>2. Tail(s)[k - 1] = s[(k - 1) + 1]
    BY <1>1, <1>2, <2>1
  <2>3. QED
    BY <1>1, <1>3, <1>4, <2>1, <2>2
<1>5. ASSUME NEW k \in DOMAIN Tail(s)
      PROVE  k + 1 \in DOMAIN s /\ Tail(s)[k] = s[k + 1]
  BY <1>1, <1>2, <1>3, <1>5
<1>6. QED
  BY <1>1, <1>2, <1>4, <1>5

\* What an allocation does that looks for room, without the table.
LEMMA TabLooksOn ==
  ASSUME As!ArenasAssumption, TabLive, NEW t \in Threads, user[t] \in {"try", "os"},
         NEW p \in {"idle", "try", "os", "outside"}, NEW r \in TabLocalSet, TabMoves(t, p, r),
         r.arena = request[t].arena \/ r.arena = As!NoArena, p = "idle" => r = As!NoLocal,
         ~r.met => p # "outside" /\ (p = "try" => TabInside(r.left)),
         UNCHANGED <<mi_arenas, mi_arena_count, belongs, exited>>
  PROVE  /\ TabPlacesKept' /\ TabAreasKept' /\ TabWalksKept' /\ ~As!At(t, "idle") /\ p \in TabPcs
         /\ claims' \in [Threads -> TabClaimSet] => ArenasTyped'
<1>1. p \in TabPcs /\ p \notin TabPending /\ user[t] \notin TabPending /\ ~As!At(t, "idle")
  BY DEF TabPcs, TabPending, As!At
<1>2. /\ user' \in [Threads -> TabPcs] /\ request' \in [Threads -> TabLocalSet]
           /\ user'[t] = p /\ request'[t] = r
      /\ \A u \in Threads : u # t => user'[u] = user[u] /\ request'[u] = request[u]
  BY <1>1, TabMoved DEF TabLive
<1>3. claims' \in [Threads -> TabClaimSet] => ArenasTyped'
  BY <1>2 DEF TabLive, ArenasTyped, TabPcs
<1>4. TabPlacesKept'
  BY <1>2, TabPlacesSame DEF TabLive, As!At
<1>5. TabAreasKept'
  <2>1. ASSUME NEW u \in Threads
        PROVE  /\ user'[u] \in TabPending <=> user[u] \in TabPending
               /\ request'[u].arena = request[u].arena \/ (user'[u] \notin TabPending
                    /\ request'[u].arena = As!NoArena)
               /\ user'[u] = "idle" => request'[u] = As!NoLocal
    BY <1>1, <1>2 DEF TabLive, TabAreasKept, TabAreaOk, As!At
  <2>2. QED
    BY <2>1, TabAreasSame DEF TabLive, As!At
<1>6. TabWalksKept'
  BY <1>1, TabWalksMove DEF TabLive
<1>7. QED
  BY <1>1, <1>3, <1>4, <1>5, <1>6

LEMMA TabTryHolds ==
  ASSUME As!ArenasAssumption, TabLive, NEW t \in Threads, As!Try(t)
  PROVE TabLive'
<1>1. PICK q : q = request[t]
  OBVIOUS
<1>2. PICK ask : ask = q.ask
  OBVIOUS
<1>3. PICK h : h = Head(q.left)
  OBVIOUS
<1>4. PICK i : i = h[1]
  OBVIOUS
<1>5. /\ q \in TabLocalSet /\ ask \in TabAskSet /\ q.left \in Seq(Nat \X BOOLEAN) /\ q.left # <<>>
      /\ q.met \in BOOLEAN /\ q.arena \in TabArenaSet /\ user[t] = "try"
      /\ UNCHANGED <<mi_arenas, mi_arena_count, belongs, exited>>
  BY <1>1, <1>2, TabLocalIs DEF TabLive, As!Try, As!At
<1>6. PICK rest : rest = Tail(q.left)
  OBVIOUS
<1>7. /\ h \in Nat \X BOOLEAN /\ h = q.left[1] /\ i \in Nat /\ h[2] \in BOOLEAN
           /\ rest \in Seq(Nat \X BOOLEAN)
      /\ \A k \in DOMAIN q.left : k = 1 \/ (k - 1 \in DOMAIN rest /\ rest[k - 1] = q.left[k])
      /\ \A k \in DOMAIN rest : k + 1 \in DOMAIN q.left /\ rest[k] = q.left[k + 1]
      /\ 1 \in DOMAIN q.left
  BY <1>3, <1>4, <1>5, <1>6, TabTailIs
<1>a. ~q.met => i < MaxArenas /\ TabInside(rest)
  <2>1. ~q.met => TabInside(q.left)
    BY <1>1, <1>5 DEF TabLive, TabWalksKept, TabWalkOk, As!At
  <2>2. ~q.met => i < MaxArenas
    BY <1>4, <1>7, <2>1 DEF TabInside
  <2>3. ~q.met => TabInside(rest)
    BY <1>7, <2>1 DEF TabInside
  <2>4. QED
    BY <2>2, <2>3
<1>b. PICK r : r = [q EXCEPT !.left = rest]
  OBVIOUS
<1>c. r \in TabLocalSet /\ r.left = rest /\ r.ask = ask /\ r.met = q.met /\ r.arena = q.arena
  BY <1>2, <1>5, <1>7, <1>b DEF TabLocalSet
<1>8. PICK fits \in BOOLEAN : fits <=> (As!Suits(i, h[2], ask) /\ As!HasRoom(i, ask))
  OBVIOUS
<1>9. CASE i >= MaxArenas
  <2>1. PICK p \in {"try", "outside"} : TabMoves(t, p, IF p = "try" THEN r ELSE q)
    <3>1. CASE As!Keep(t, r) /\ UNCHANGED user
      <4>1. TabMoves(t, "try", r)
        BY <1>5, <3>1 DEF TabMoves, As!Keep, TabLive, ArenasTyped
      <4>2. QED
        BY <4>1
    <3>2. CASE As!Goto(t, "outside") /\ UNCHANGED request
      <4>1. TabMoves(t, "outside", q)
        BY <1>1, <3>2 DEF TabMoves, As!Goto, TabLive, ArenasTyped
      <4>2. QED
        BY <4>1
    <3>3. QED
      BY <1>1, <1>3, <1>4, <1>6, <1>9, <1>b, <3>1, <3>2 DEF As!Try
  <2>2. PICK s : s = IF p = "try" THEN r ELSE q
    OBVIOUS
  <2>3. /\ s \in TabLocalSet /\ s.met = q.met /\ s.arena = q.arena /\ q.met
        /\ TabMoves(t, p, s) /\ UNCHANGED claims /\ p \notin TabPending /\ p # "os"
    <3>1. q.met
      BY <1>7, <1>9, <1>a DEF As!ArenasAssumption
    <3>2. UNCHANGED claims
      BY <1>1, <1>3, <1>4, <1>9 DEF As!Try
    <3>3. QED
      BY <1>5, <1>c, <2>1, <2>2, <3>1, <3>2 DEF TabPending
  <2>4. /\ TabPlacesKept' /\ TabAreasKept' /\ TabWalksKept' /\ ~As!At(t, "idle")
        /\ p \in TabPcs
        /\ claims' \in [Threads -> TabClaimSet] => ArenasTyped'
    BY <1>1, <1>5, <2>3, TabLooksOn
  <2>5. TabClaimsKept' /\ ArenasTyped'
    BY <1>5, <2>3, <2>4, TabClaimsSame DEF TabLive, ArenasTyped
  <2>6. TabLastKept'
    BY <1>1, <2>3, <2>4, TabLastMoves DEF TabLive
  <2>7. QED
    BY <2>4, <2>5, <2>6 DEF TabLive
<1>10. CASE ~(i >= MaxArenas)
  <2>1. \/ /\ fits
           /\ claims' = [claims EXCEPT ![t] = [id |-> As!IdOf(i), area |-> mi_arenas[i].area, ask |-> ask]]
           /\ TabMoves(t, "idle", As!NoLocal)
        \/ /\ ~fits \/ q.met
           /\ request' = [request EXCEPT ![t] = [q EXCEPT !.left = rest]]
           /\ UNCHANGED <<user, claims>>
    BY <1>1, <1>2, <1>3, <1>4, <1>6, <1>8, <1>10 DEF As!Try, As!Quit, As!Goto, As!Keep,
       TabMoves
  <2>2. CASE /\ fits
             /\ claims' = [claims EXCEPT ![t] = [id |-> As!IdOf(i), area |-> mi_arenas[i].area, ask |-> ask]]
             /\ TabMoves(t, "idle", As!NoLocal)
    <3>1. As!NoLocal \in TabLocalSet /\ As!NoLocal.arena = As!NoArena
      BY TabNothing DEF As!NoLocal
    <3>2. /\ TabPlacesKept' /\ TabAreasKept' /\ TabWalksKept' /\ ~As!At(t, "idle")
          /\ "idle" \in TabPcs
          /\ claims' \in [Threads -> TabClaimSet] => ArenasTyped'
      BY <1>5, <2>2, <3>1, TabLooksOn
    <3>3. PICK c : c = [id |-> As!IdOf(i), area |-> mi_arenas[i].area, ask |-> ask]
      OBVIOUS
    <3>4. As!Suits(i, h[2], ask) /\ i \in TabPlaces /\ i \in As!Published
            /\ mi_arenas[i].area \in Areas
      <4>1. As!Suits(i, h[2], ask)
        BY <1>8, <2>2
      <4>2. i \in TabPlaces
        BY <1>7, <1>10 DEF TabPlaces, As!ArenasAssumption
      <4>3. QED
        BY <4>1, <4>2, TabPublishedIs DEF As!Suits, TabLive
    <3>5. c \in TabClaimSet /\ c.id = i + 1 /\ c.area = mi_arenas[i].area /\ c.ask = ask
      BY <1>5, <1>7, <3>3, <3>4 DEF TabClaimSet, As!IdOf
    <3>6. /\ claims' \in [Threads -> TabClaimSet] /\ claims'[t] = c
          /\ \A u \in Threads : u # t => claims'[u] = claims[u]
      BY <2>2, <3>3, <3>5 DEF TabLive, ArenasTyped
    <3>7. TabClaimsKept'
      <4>0. As!Published' = As!Published
        BY <1>5 DEF As!Published
      <4>1. TabClaimOk(c)
        <5>1. As!IndexOf(c.id) = i
          BY <1>7, <3>5 DEF As!IndexOf
        <5>2. QED
          BY <3>4, <3>5, <5>1 DEF TabClaimOk, As!Suits, As!IdOf
      <4>2. ASSUME NEW u \in Threads, NEW d, d = claims'[u] PROVE TabClaimOk(d)'
        <5>1. TabClaimOk(d)
          BY <3>6, <4>1, <4>2 DEF TabLive, TabClaimsKept
        <5>2. QED
          BY <1>5, <4>0, <5>1 DEF TabClaimOk
      <4>3. QED
        BY <4>2 DEF TabClaimsKept
    <3>8. TabLastKept'
      <4>1. "idle" \notin TabPending
        BY DEF TabPending
      <4>2. QED
        BY <2>2, <3>1, <3>2, <4>1, TabLastMoves DEF TabLive
    <3>9. QED
      BY <3>2, <3>6, <3>7, <3>8 DEF TabLive
  <2>3. CASE /\ ~fits \/ q.met
             /\ request' = [request EXCEPT ![t] = [q EXCEPT !.left = rest]]
             /\ UNCHANGED <<user, claims>>
    <3>3. TabMoves(t, "try", r)
      BY <1>5, <1>b, <2>3 DEF TabMoves, TabLive, ArenasTyped
    <3>4. /\ TabPlacesKept' /\ TabAreasKept' /\ TabWalksKept' /\ ~As!At(t, "idle")
          /\ "try" \in TabPcs
          /\ claims' \in [Threads -> TabClaimSet] => ArenasTyped'
      BY <1>1, <1>5, <1>a, <1>c, <3>3, TabLooksOn
    <3>5. TabClaimsKept' /\ ArenasTyped'
      BY <1>5, <2>3, <3>4, TabClaimsSame DEF TabLive, ArenasTyped
    <3>6. ASSUME ~q.met PROVE TabYet(ask, rest)
      <4>1. ~fits /\ TabYet(ask, q.left)
        BY <1>1, <1>2, <1>5, <2>3, <3>4, <3>6 DEF TabLive, TabLastKept, TabLastOk, As!At
      <4>2. ASSUME NEW j \in As!Published, TabFits(j, ask)
            PROVE  \E k \in DOMAIN rest : rest[k][1] = j /\ As!Suits(j, rest[k][2], ask)
        <5>1. PICK k \in DOMAIN q.left : q.left[k][1] = j /\ As!Suits(j, q.left[k][2], ask)
          BY <4>1, <4>2 DEF TabYet
        <5>2. k # 1
          BY <1>4, <1>7, <1>8, <4>1, <4>2, <5>1 DEF TabFits
        <5>3. QED
          BY <1>7, <5>1, <5>2
      <4>3. QED
        BY <4>2 DEF TabYet
    <3>7. ~q.met => TabYet(ask, rest)'
      BY <1>5, <2>3, <3>6, TabYetSame
    <3>8. TabLastKept'
      <4>1. "try" \notin TabPending /\ (~r.met => TabYet(r.ask, r.left)')
        BY <1>c, <3>7 DEF TabPending
      <4>2. QED
        BY <1>1, <1>c, <3>3, <3>4, <4>1, TabLastMoves DEF TabLive
    <3>9. QED
      BY <3>4, <3>5, <3>8 DEF TabLive
  <2>4. QED
    BY <2>1, <2>2, <2>3
<1>11. QED
  BY <1>9, <1>10

LEMMA TabTryReserveHolds ==
  ASSUME As!ArenasAssumption, TabLive, NEW t \in Threads, As!TryReserve(t)
  PROVE TabLive'
<1>1. PICK q : q = request[t]
  OBVIOUS
<1>2. PICK ask : ask = q.ask
  OBVIOUS
<1>3. /\ q \in TabLocalSet /\ ask \in TabAskSet /\ q.left = <<>> /\ q.met \in BOOLEAN
      /\ q.arena \in TabArenaSet
      /\ user[t] = "try" /\ ~As!At(t, "idle")
      /\ UNCHANGED <<mi_arenas, mi_arena_count, claims, exited>>
  BY <1>1, <1>2, TabLocalIs DEF TabLive, As!TryReserve, As!At
<1>4. ~q.met => TabFull(ask)
  <2>1. ~q.met => TabYet(ask, <<>>)
    BY <1>1, <1>2, <1>3 DEF TabLive, TabLastKept, TabLastOk, As!At
  <2>2. QED
    BY <2>1 DEF TabYet, TabFull
<1>5. ~q.met => TabFull(ask)'
  BY <1>3, <1>4, TabFullSame
<1>6. TabClaimsKept'
  BY <1>3, TabClaimsSame DEF TabLive
<1>7. CASE As!Goto(t, "os") /\ UNCHANGED <<request, belongs>>
  <2>1. TabMoves(t, "os", q)
    BY <1>1, <1>7 DEF As!Goto, TabMoves, TabLive, ArenasTyped
  <2>2. /\ TabPlacesKept' /\ TabAreasKept' /\ TabWalksKept' /\ "os" \in TabPcs
        /\ claims' \in [Threads -> TabClaimSet] => ArenasTyped'
    BY <1>1, <1>3, <1>7, <2>1, TabLooksOn
  <2>3. ArenasTyped'
    BY <1>3, <2>2 DEF TabLive, ArenasTyped
  <2>4. TabLastKept'
    <3>1. "os" \notin TabPending /\ (~q.met => TabFull(q.ask)')
      BY <1>2, <1>5 DEF TabPending
    <3>2. QED
      BY <1>1, <1>3, <2>1, <2>2, <3>1, TabLastMoves DEF TabLive
  <2>5. QED
    BY <1>6, <2>2, <2>3, <2>4 DEF TabLive
<1>8. ASSUME NEW a \in Areas, NEW large \in {FALSE, ask.large}, ask.req = As!NoId,
             belongs[a] = "nobody",
             belongs' = [belongs EXCEPT ![a] = "OS"],
             request' = [request EXCEPT ![t] =
                         [q EXCEPT !.arena = [area |-> a, kind |-> [As!NoKind EXCEPT !.is_large = large]]]],
             As!Goto(t, "meta")
      PROVE  TabLive'
  <2>1. PICK kind : kind = [As!NoKind EXCEPT !.is_large = large]
    OBVIOUS
  <2>2. kind \in TabKindSet /\ ~kind.exclusive /\ kind.numa_node = As!AnyNode
    <3>1. large \in BOOLEAN
      BY <1>3 DEF TabAskSet
    <3>2. As!NoKind \in TabKindSet /\ ~As!NoKind.exclusive /\ As!NoKind.numa_node = As!AnyNode
      BY TabNothing DEF As!NoKind
    <3>3. QED
      BY <2>1, <3>1, <3>2 DEF TabKindSet
  <2>3. PICK arena : arena = [area |-> a, kind |-> kind]
    OBVIOUS
  <2>4. arena \in TabArenaSet /\ arena.area = a /\ arena.kind = kind
    BY <2>2, <2>3 DEF TabArenaSet
  <2>5. PICK r : r = [q EXCEPT !.arena = arena]
    OBVIOUS
  <2>6. /\ r \in TabLocalSet /\ r.arena = arena /\ r.ask = ask /\ r.met = q.met
        /\ "meta" \in TabPcs /\ "meta" \in TabPending
    BY <1>2, <1>3, <2>4, <2>5 DEF TabLocalSet, TabPcs, TabPending
  <2>7. TabMoves(t, "meta", r)
    BY <1>8, <2>1, <2>3, <2>5 DEF TabMoves, As!Goto
  <2>8. /\ user'[t] = "meta" /\ request'[t] = r
        /\ \A u \in Threads : u # t => user'[u] = user[u] /\ request'[u] = request[u]
    BY <2>6, <2>7, TabMoved DEF TabLive
  <2>9. /\ belongs' \in [Areas -> {"nobody", "EXTERNAL", "OS"}] /\ belongs'[a] # "nobody"
        /\ \A b \in Areas : b # a => belongs'[b] = belongs[b]
    BY <1>8 DEF TabLive, ArenasTyped
  <2>10. ArenasTyped'
    BY <1>3, <2>6, <2>7, <2>9, TabTypedMoves DEF TabLive, ArenasTyped
  <2>11. TabPlacesKept'
    BY <1>3, <2>8, TabPlacesSame DEF TabLive, As!At
  <2>12. TabAreasKept'
    <3>1. user[t] \notin TabPending /\ user'[t] \in TabPending /\ request'[t].arena.area = a
      BY <1>3, <2>4, <2>6, <2>8 DEF TabPending
    <3>2. QED
      BY <1>3, <1>8, <2>8, <2>9, <3>1, TabTakesArea DEF TabLive
  <2>13. TabLastKept'
    <3>1. (~r.met => TabFull(r.ask)') /\ r.met = request[t].met /\ r.ask.req = As!NoId
            /\ ~r.arena.kind.exclusive
          /\ r.arena.kind.numa_node = As!AnyNode
      BY <1>1, <1>5, <1>8, <2>2, <2>4, <2>6
    <3>2. QED
      BY <1>3, <2>6, <2>7, <3>1, TabLastMoves DEF TabLive
  <2>14. TabWalksKept'
    BY <2>6, <2>7, TabWalksMove DEF TabLive
  <2>15. QED
    BY <1>6, <2>10, <2>11, <2>12, <2>13, <2>14 DEF TabLive
<1>9. QED
  BY <1>1, <1>2, <1>7, <1>8 DEF As!TryReserve, As!Keep

-----------------------------------------------------------------------------
LEMMA ArenasTell == ASSUME As!ArenasAssumption, TabLive, exited = FALSE PROVE As!ArenasKeep
<1>1. /\ \A i \in As!Published : /\ i \in TabPlaces /\ mi_arenas[i] \in TabArenaSet
                                 /\ mi_arenas[i].area \in Areas
                                      /\ mi_arenas[i].kind \in TabKindSet
      /\ NoArea \notin Areas
  BY TabPublishedIs DEF TabLive, As!ArenasAssumption
<1>2. As!AreasAreKept
  <2>1. ASSUME NEW a \in As!Adding, a \in Areas PROVE belongs[a] # "nobody"
    <3>1. PICK t \in Threads : ~As!At(t, "idle") /\ request[t].arena.area = a /\ a # NoArea
      BY <2>1 DEF As!Adding
    <3>2. request[t].arena # As!NoArena
      BY <3>1 DEF As!NoArena
    <3>3. QED
      BY <3>1, <3>2 DEF TabLive, TabAreasKept, TabAreaOk
  <2>2. ASSUME NEW t \in Threads, user[t] \in TabPending
        PROVE  request[t].arena.area \in As!Adding
    <3>1. ~As!At(t, "idle") /\ request[t].arena.area # NoArea
      BY <1>1, <2>2 DEF As!At, TabPending, TabLive, TabAreasKept, TabAreaOk
    <3>2. QED
      BY <3>1 DEF As!Adding
  <2>3. ASSUME NEW a \in Areas
        PROVE  belongs[a] # "nobody" <=> a \in {mi_arenas[i].area : i \in As!Published} \cup As!Adding
    <3>1. ASSUME belongs[a] # "nobody"
          PROVE  a \in {mi_arenas[i].area : i \in As!Published} \cup As!Adding
      <4>1. \/ \E i \in As!Published : mi_arenas[i].area = a
            \/ \E t \in Threads : user[t] \in TabPending /\ request[t].arena.area = a
        BY <3>1 DEF TabLive, TabAreasKept
      <4>2. QED
        BY <2>2, <4>1
    <3>2. ASSUME a \in {mi_arenas[i].area : i \in As!Published} \cup As!Adding
          PROVE  belongs[a] # "nobody"
      <4>1. CASE a \in As!Adding
        BY <2>1, <4>1
      <4>2. CASE a \notin As!Adding
        BY <3>2, <4>2 DEF TabLive, TabAreasKept
      <4>3. QED
        BY <4>1, <4>2
    <3>3. QED
      BY <3>1, <3>2
  <2>4. \A i, j \in As!Published : mi_arenas[i].area = mi_arenas[j].area => i = j
    BY DEF TabLive, TabAreasKept
  <2>5. QED
    BY <2>3, <2>4 DEF As!AreasAreKept
<1>3. As!ClaimsSuit
  <2> SUFFICES ASSUME NEW t \in Threads, NEW c, c = claims[t], c # As!NoClaim,
                      NEW a, a = mi_arenas[As!IndexOf(c.id)]
               PROVE  /\ ~exited => a.area = c.area
                      /\ a.kind.exclusive => c.ask.req = c.id
                      /\ c.ask.req # As!NoId => c.ask.req = c.id
                      /\ a.kind.is_large => c.ask.large
    BY DEF As!ClaimsSuit
  <2>1. TabClaimOk(c)
    BY DEF TabLive, TabClaimsKept
  <2>2. QED
    BY <2>1 DEF TabClaimOk, As!IdSuitable
<1>4. As!FallsBackLast
  <2> SUFFICES ASSUME NEW t \in Threads, As!At(t, "os"), ~request[t].met, NEW ask,
                      ask = request[t].ask,
                      NEW i \in As!Published, As!Suits(i, TRUE, ask) \/ As!Suits(i, FALSE, ask)
               PROVE  ~As!HasRoom(i, ask)
    BY DEF As!FallsBackLast
  <2>1. TabFull(ask)
    BY DEF TabLive, TabLastKept, TabLastOk, As!At
  <2>2. QED
    BY <2>1 DEF TabFull, TabFits
<1>5. As!WalksInside
  <2>1. \A t \in Threads : As!At(t, "outside") => request[t].met
    BY DEF TabLive, TabWalksKept, TabWalkOk
  <2>2. mi_arena_count > MaxArenas => \E t \in Threads : As!At(t, "decrement")
    <3>1. TabOver = {} => mi_arena_count <= MaxArenas
      BY DEF TabLive, TabPlacesKept
    <3>2. mi_arena_count \in Nat /\ MaxArenas \in Nat
      BY DEF TabLive, ArenasTyped, As!ArenasAssumption
    <3>3. QED
      BY <3>1, <3>2 DEF TabOver
  <2>3. \A i \in As!Published : i < mi_arena_count
    BY DEF TabLive, TabPlacesKept
  <2>4. QED
    BY <2>1, <2>2, <2>3 DEF As!WalksInside
<1>6. QED
  BY <1>2, <1>3, <1>4, <1>5 DEF As!ArenasKeep

\* At the end what was the system's has been given back.
LEMMA TabDestroyHolds ==
  ASSUME As!ArenasAssumption, TabLive, exited = FALSE, As!UnsafeDestroyAll
  PROVE  exited' = TRUE /\ TabEnded'
<1>1. PICK owned : owned = {i \in 0 .. mi_arena_count - 1 :
                              mi_arenas[i] # As!NoArena /\ As!IsOs(belongs[mi_arenas[i].area])}
  OBVIOUS
<1>2. /\ \A t \in Threads : user[t] = "idle"
      /\ mi_arenas' = [i \in DOMAIN mi_arenas |-> IF i \in owned THEN As!NoArena
           ELSE mi_arenas[i]]
      /\ belongs' = [a \in Areas |-> IF \E i \in owned : mi_arenas[i].area = a THEN "nobody"
           ELSE belongs[a]]
      /\ exited' = TRUE /\ UNCHANGED <<claims, user, request>>
  BY <1>1 DEF As!UnsafeDestroyAll, As!At
<1>3. /\ \A i \in As!Published : i \in TabPlaces /\ mi_arenas[i].area \in Areas
           /\ i < mi_arena_count
      /\ \A i : i \in As!Published <=> i \in TabPlaces /\ mi_arenas[i] # As!NoArena
      /\ DOMAIN mi_arenas = TabPlaces /\ mi_arena_count \in Nat
      /\ \A i \in TabPlaces : i \in Nat
  BY TabPublishedIs DEF TabLive, TabPlacesKept, ArenasTyped
<1>4. \A i \in TabPlaces : mi_arenas'[i] = IF i \in owned THEN As!NoArena ELSE mi_arenas[i]
  BY <1>2, <1>3
<1>5. \A i : i \in As!Published' <=> i \in As!Published /\ i \notin owned
  BY <1>2, <1>3, <1>4 DEF As!Published
<1>6. \A i \in As!Published' : mi_arenas'[i] = mi_arenas[i] /\ mi_arenas[i].area \in Areas
  BY <1>3, <1>4, <1>5
<1>7. \A i \in As!Published : i \in owned <=> belongs[mi_arenas[i].area] = "OS"
  BY <1>1, <1>3 DEF As!IsOs
<1>8. \A i \in owned : i \in As!Published
  <2>1. TabOver = {}
    BY <1>2 DEF TabOver, As!At
  <2>2. mi_arena_count <= MaxArenas /\ MaxArenas \in Nat
    BY <2>1 DEF TabLive, TabPlacesKept, As!ArenasAssumption
  <2>3. QED
    BY <1>1, <1>3, <2>2 DEF TabPlaces
<1>9. As!AreasAreKept'
  <2>1. As!Adding' = {}
    BY <1>2 DEF As!Adding, As!At
  <2>2. \A i, j \in As!Published' : mi_arenas'[i].area = mi_arenas'[j].area => i = j
    BY <1>5, <1>6 DEF TabLive, TabAreasKept
  <2>3. ASSUME NEW a \in Areas
        PROVE  /\ belongs'[a] # "nobody" <=> \E i \in As!Published' : mi_arenas'[i].area = a
               /\ belongs'[a] # "OS"
    <3>1. belongs'[a] = IF \E i \in owned : mi_arenas[i].area = a THEN "nobody" ELSE belongs[a]
      BY <1>2
    <3>2. belongs[a] # "nobody" => \E i \in As!Published : mi_arenas[i].area = a
      BY <1>2 DEF TabLive, TabAreasKept, TabPending
    <3>3. \A i \in As!Published : belongs[mi_arenas[i].area] # "nobody"
      BY DEF TabLive, TabAreasKept
    <3>4. CASE \E i \in owned : mi_arenas[i].area = a
      <4>1. PICK i \in owned : mi_arenas[i].area = a
        BY <3>4
      <4>2. i \in As!Published
        BY <1>8, <4>1
      <4>3. \A j \in As!Published' : mi_arenas'[j].area # a
        BY <1>5, <1>6, <4>1, <4>2 DEF TabLive, TabAreasKept
      <4>4. QED
        BY <3>1, <3>4, <4>3
    <3>5. CASE ~\E i \in owned : mi_arenas[i].area = a
      <4>1. belongs'[a] = belongs[a]
        BY <3>1, <3>5
      <4>2. ASSUME NEW i \in As!Published, mi_arenas[i].area = a
            PROVE  i \in As!Published' /\ mi_arenas'[i].area = a
        BY <1>5, <1>6, <3>5, <4>2
      <4>3. ASSUME belongs[a] = "OS" PROVE FALSE
        <5>1. PICK i \in As!Published : mi_arenas[i].area = a
          BY <3>2, <4>3
        <5>2. QED
          BY <1>7, <3>5, <4>3, <5>1
      <4>4. ASSUME NEW i \in As!Published', mi_arenas'[i].area = a
            PROVE  belongs[a] # "nobody"
        BY <1>5, <1>6, <3>3, <4>4
      <4>5. QED
        BY <3>2, <4>1, <4>2, <4>3, <4>4
    <3>6. QED
      BY <3>4, <3>5
  <2>4. QED
    BY <2>1, <2>2, <2>3 DEF As!AreasAreKept
<1>10. As!ClaimsSuit'
  <2> SUFFICES ASSUME NEW t \in Threads, NEW c, c = claims[t], c # As!NoClaim,
                      NEW a, a = mi_arenas'[As!IndexOf(c.id)]
               PROVE  /\ a.kind.exclusive => c.ask.req = c.id
                      /\ c.ask.req # As!NoId => c.ask.req = c.id
                      /\ a.kind.is_large => c.ask.large
    BY <1>2 DEF As!ClaimsSuit
  <2>1. TabClaimOk(c)
    BY DEF TabLive, TabClaimsKept
  <2>2. a = As!NoArena \/ a = mi_arenas[As!IndexOf(c.id)]
    BY <1>3, <1>4, <2>1 DEF TabClaimOk
  <2>3. QED
    BY <2>1, <2>2 DEF TabClaimOk, As!IdSuitable, As!NoArena, As!NoKind
<1>11. As!FallsBackLast'
  BY <1>2 DEF As!FallsBackLast, As!At
<1>12. As!WalksInside'
  BY <1>2 DEF As!WalksInside, As!At
<1>13. QED
  BY <1>2, <1>9, <1>10, <1>11, <1>12 DEF TabEnded, As!ArenasKeep, As!At

-----------------------------------------------------------------------------
LEMMA ArenasBegin == ASSUME As!ArenasAssumption, As!Init PROVE ArenasInv
<1>1. MaxArenas \in Nat /\ exited = FALSE /\ As!Published = {}
  BY DEF As!Init, As!ArenasAssumption, As!Published
<1>2. ArenasTyped
  BY <1>1, TabNothing DEF As!Init, ArenasTyped, TabPlaces
<1>3. TabPlacesKept
  <2>1. TabOver = {}
    BY DEF As!Init, TabOver, As!At
  <2>2. QED
    BY <1>1, <2>1 DEF As!Init, TabPlacesKept, TabPlaceOk, As!At
<1>4. TabAreasKept
  BY <1>1 DEF As!Init, TabAreasKept, TabAreaOk, As!At, TabPending, As!NoLocal
<1>5. TabClaimsKept
  BY DEF As!Init, TabClaimsKept, TabClaimOk
<1>6. TabLastKept
  BY DEF As!Init, TabLastKept, TabLastOk, TabReservedOk, TabReserving, As!At, TabPending
<1>7. TabWalksKept
  BY DEF As!Init, TabWalksKept, TabWalkOk, As!At
<1>8. QED
  BY <1>1, <1>2, <1>3, <1>4, <1>5, <1>6, <1>7 DEF ArenasInv, TabLive

LEMMA ArenasNext == ASSUME As!ArenasAssumption, ArenasInv, As!Next PROVE ArenasInv'
<1>1. CASE exited
  <2>1. exited /\ \A t \in Threads : user[t] = "idle"
    BY <1>1 DEF ArenasInv, TabEnded, As!At
  <2>2. FALSE
    BY <2>1 DEF As!Next, As!Add, As!Alloc, As!Begin, As!MetaAlloc, As!Increment, As!Decrement,
       As!Publish, As!LoadCount, As!Try, As!TryReserve, As!FromOs, As!Free,
       As!UnsafeDestroyAll, As!At
  <2>3. QED
    BY <2>2
<1>2. CASE ~exited
  <2>1. exited = FALSE /\ TabLive
    BY <1>2 DEF ArenasInv
  <2>2. CASE As!UnsafeDestroyAll
    BY <2>1, <2>2, TabDestroyHolds DEF ArenasInv
  <2>3. ASSUME NEW t \in Threads,
               \/ \E a \in Areas, kind \in Kinds : As!Add(t, a, kind)
               \/ As!MetaAlloc(t)
               \/ As!Increment(t) \/ As!Decrement(t) \/ As!Publish(t)
               \/ \E ask \in Wanted : As!Alloc(t, ask)
               \/ As!LoadCount(t) \/ As!Try(t) \/ As!TryReserve(t) \/ As!FromOs(t)
               \/ As!Free(t)
        PROVE  ArenasInv'
    <3>1. exited' = exited
      BY <2>3 DEF As!Add, As!Alloc, As!Begin, As!MetaAlloc, As!Increment, As!Decrement,
         As!Publish, As!LoadCount, As!Try, As!TryReserve, As!FromOs, As!Free
    <3>2. TabLive'
      BY <2>1, <2>3, TabAddHolds, TabAllocHolds, TabMetaAllocHolds,
         TabIncrementHolds, TabDecrementHolds, TabPublishHolds, TabLoadCountHolds,
         TabTryHolds, TabTryReserveHolds, TabFromOsHolds,
         TabFreeHolds
    <3>3. QED
      BY <2>1, <3>1, <3>2 DEF ArenasInv
  <2>4. QED
    BY <2>2, <2>3 DEF As!Next
<1>3. QED
  BY <1>1, <1>2

LEMMA ArenasStill ==
  ASSUME As!ArenasAssumption, ArenasInv, UNCHANGED As!vars
  PROVE ArenasInv'
<1>1. UNCHANGED <<mi_arenas, mi_arena_count, belongs, claims, user, request, exited>>
  BY DEF As!vars
<1>2. CASE exited
  <2>1. As!Published' = As!Published /\ As!Adding' = As!Adding
    BY <1>1 DEF As!Published, As!Adding, As!At
  <2>2. As!AreasAreKept' /\ As!ClaimsSuit' /\ As!WalksInside'
    BY <1>1, <1>2, <2>1 DEF ArenasInv, TabEnded, As!ArenasKeep, As!AreasAreKept,
       As!ClaimsSuit, As!WalksInside, As!At
  <2>3. As!FallsBackLast'
    BY <1>1, <1>2 DEF ArenasInv, TabEnded, As!FallsBackLast, As!At
  <2>4. QED
    BY <1>1, <1>2, <2>2, <2>3 DEF ArenasInv, TabEnded, As!ArenasKeep, As!At
<1>3. CASE ~exited
  <2>1. exited = FALSE /\ TabLive
    BY <1>3 DEF ArenasInv
  <2>2. TabPlacesKept' /\ TabAreasKept' /\ TabClaimsKept'
    <3>1. \A t \in Threads : As!At(t, "idle") => request[t] = As!NoLocal
      BY <2>1 DEF TabLive, TabAreasKept, TabAreaOk
    <3>2. QED
      BY <1>1, <2>1, <3>1, TabPlacesSame, TabAreasSame, TabClaimsSame
         DEF TabLive, As!At
  <2>w. TabWalksKept'
    BY <1>1, <2>1 DEF TabLive, TabWalksKept, TabWalkOk, TabInside, As!At
  <2>3. ArenasTyped'
    BY <1>1, <2>1 DEF TabLive, ArenasTyped
  <2>4. TabLastKept'
    <3>1. ASSUME NEW t \in Threads PROVE TabLastOk(t)' /\ TabReservedOk(t)'
      <4>1. TabLastOk(t) /\ TabReservedOk(t)
        BY <2>1 DEF TabLive, TabLastKept
      <4>2. TabReservedOk(t)'
        BY <1>1, <4>1 DEF TabReservedOk, TabReserving
      <4>3. /\ \A ask : TabFull(ask)' <=> TabFull(ask)
            /\ \A ask, left : TabYet(ask, left)' <=> TabYet(ask, left)
        BY <1>1, TabFullSame, TabYetSame
      <4>4. TabLastOk(t)'
        BY <1>1, <4>1, <4>3 DEF TabLastOk, TabReserving, As!At
      <4>5. QED
        BY <4>2, <4>4
    <3>2. QED
      BY <3>1 DEF TabLastKept
  <2>5. QED
    BY <1>1, <2>1, <2>2, <2>w, <2>3, <2>4 DEF ArenasInv, TabLive
<1>4. QED
  BY <1>2, <1>3

LEMMA ArenasShow == ASSUME As!ArenasAssumption, ArenasInv PROVE As!ArenasKeep
  BY ArenasTell DEF ArenasInv, TabEnded

-----------------------------------------------------------------------------
(* What the theorems say of the program.                                   *)

\* A step is one of the parts' own, and leaves the others alone.
LEMMA OneArena == [RuntimeNext]_everything => [Next]_vars
  BY DEF everything, RuntimeNext, Others, Arena, Arenas, FreeLists, AllocatedBlocks, Process,
     OptionTable, Output, Statistics, Random

LEMMA OneRandom == [RuntimeNext]_everything => R!Next \/ UNCHANGED R!vars
  BY DEF everything, RuntimeNext, Others, Arena, Arenas, FreeLists, AllocatedBlocks, Process,
     OptionTable, Output, Statistics, Random, randomVars, R!vars

LEMMA OneOptions == [RuntimeNext]_everything => Op!Next \/ UNCHANGED Op!vars
  BY DEF everything, RuntimeNext, Others, Arena, Arenas, FreeLists, AllocatedBlocks, Process,
     OptionTable, Output, Statistics, Random, optionVars, Op!vars

LEMMA OneBlocks == [RuntimeNext]_everything => B!Next \/ UNCHANGED B!vars
  BY DEF everything, RuntimeNext, Others, Arena, Arenas, FreeLists, AllocatedBlocks, Process,
     OptionTable, Output, Statistics, Random, blockVars, B!vars

LEMMA OneArenas == [RuntimeNext]_everything => As!Next \/ UNCHANGED As!vars
  BY DEF everything, RuntimeNext, Others, Arena, Arenas, FreeLists, AllocatedBlocks, Process,
     OptionTable, Output, Statistics, Random, arenasVars, As!vars

LEMMA OneProcess == [RuntimeNext]_everything => P!Next \/ UNCHANGED P!vars
<1>1. UNCHANGED processVars => UNCHANGED P!vars
  BY DEF processVars, P!vars, P!mainVars, P!startVars, P!heapVars, P!endVars, P!history
<1>2. [RuntimeNext]_everything => P!Next \/ UNCHANGED processVars
  BY DEF everything, RuntimeNext, Others, Arena, Arenas, FreeLists, AllocatedBlocks, Process,
     OptionTable, Output, Statistics, Random
<1>3. QED
  BY <1>1, <1>2

\* The arena is that of MiArena.
LEMMA ArenaRuns == RuntimeSpec => Spec
<1>1. RuntimeInit => Init
  BY DEF RuntimeInit
<1>2. QED
  BY <1>1, OneArena, PTL DEF RuntimeSpec, Spec

\* The inductive invariant is an invariant of the arena.
THEOREM IInvariant == Spec => []IInv
  BY InitIInv, NextIInv, PTL DEF Spec

-----------------------------------------------------------------------------
(* What it says of the program.                                            *)

\* A block of the arena is in use exactly when somebody holds it, and nobody
\* else does: no two claims get one block, however they cross fields, fail and
\* are taken back, and whatever is purged meanwhile.
THEOREM InuseHeld == Spec => []InuseIsHeld
<1>1. IInv => InuseIsHeld
  <2> SUFFICES ASSUME IInv PROVE InuseIsHeld
    OBVIOUS
  <2> DEFINE held == {b.bits : b \in blocks} \cup {Leftover}
  <2>1. \A x : x \in UNION held <=> x \in Leftover \/ \E b \in blocks : x \in b.bits
    BY Zenon
  <2>2. \A x : x \in UNION {Holds(t) : t \in Threads} <=> \E t \in Threads : x \in Holds(t)
    BY Zenon
  <2>3. \A x : x \in inuse <=> Whose(x)
    BY DividedIs DEF IInv
  <2>4. inuse = (UNION held) \cup (UNION {Holds(t) : t \in Threads})
    <3>1. PICK C : C = UNION held
      OBVIOUS
    <3>2. PICK D : D = UNION {Holds(t) : t \in Threads}
      OBVIOUS
    <3>3. \A x : x \in inuse <=> x \in C \/ x \in D
      BY <2>1, <2>2, <2>3, <3>1, <3>2, Zenon DEF Whose
    <3>4. inuse = C \cup D
      BY <3>3
    <3>5. QED
      BY <3>1, <3>2, <3>4
  <2>5. ASSUME NEW M \in held, NEW N \in held PROVE M = N \/ M \cap N = {}
    BY DEF IInv, Apart
  <2>6. ASSUME NEW t \in Threads PROVE Holds(t) \cap (UNION held) = {}
    BY <2>1 DEF IInv, Apart
  <2>7. \A t, u \in Threads : t = u \/ Holds(t) \cap Holds(u) = {}
    BY DEF IInv, Apart
  <2>8. QED
    BY <2>4, <2>5, <2>6, <2>7 DEF InuseIsHeld
<1>2. QED
  BY <1>1, IInvariant, PTL

\* Memory that is free and marked as committed can be used, and so can what
\* was handed out as committed.
THEOREM CommittedAccessible == Spec => []CommittedIsAccessible
<1>1. IInv => CommittedIsAccessible
  <2> SUFFICES ASSUME IInv PROVE CommittedIsAccessible
    OBVIOUS
  <2>1. ASSUME NEW x \in committed \ inuse PROVE x \in accessible
    <3>1. \A b \in blocks : x \notin b.bits
      BY DividedIs DEF IInv, Whose
    <3>2. QED
      BY <3>1 DEF IInv, Usable
  <2>2. QED
    BY <2>1 DEF CommittedIsAccessible, IInv, Usable
<1>2. QED
  BY <1>1, IInvariant, PTL

\* A stream gives out no word that it or another has given out, unless its key
\* and its address are those of a stream that is gone: the nonces that one may
\* run through are those of no other, heaps being further apart than that.
THEOREM WordsAreNew == RuntimeSpec => []NoWordAgain
<1>1. RuntimeInit => RandomInv
  BY RndInitRandom DEF RuntimeInit
<1>2. RandomInv /\ [RuntimeNext]_everything => RandomInv'
  BY OneRandom, RandomKeeps, RandomSame, MiRuntimeAssumption
<1>3. RandomInv => NoWordAgain
  BY RandomTells DEF NoWordAgain
<1>4. QED
  BY <1>1, <1>2, <1>3, PTL DEF RuntimeSpec

\* An option that is initialized has the value due to it, unless two threads
\* met at it of which one was setting it, or preloading ended between the
\* reading of the environment and the test of it; and a thread is in the
\* initialization of an option once, however the warnings of one lead to that
\* of another.
THEOREM OptionsComeOut == RuntimeSpec => []OptionsResolve
<1>1. RuntimeInit => OptionsInv
  BY OptionsInit, MiRuntimeAssumption DEF RuntimeInit
<1>2. OptionsInv /\ [RuntimeNext]_everything => OptionsInv'
  BY OneOptions, OptionsKeep, OptionsSame, MiRuntimeAssumption
<1>3. OptionsInv => OptionsResolve
  BY OptionsTell, MiRuntimeAssumption DEF OptionsResolve
<1>4. QED
  BY <1>1, <1>2, <1>3, PTL DEF RuntimeSpec

\* The process is initialized once, the main heap is the thread's that started
\* it up, and the threads that are counted are those with a heap.
THEOREM ProcessIsKept == RuntimeSpec => []ProcessKeeps
<1>1. RuntimeInit => ProcessInv
  BY ProcessBegins, MiRuntimeAssumption DEF RuntimeInit
<1>2. ProcessInv /\ [RuntimeNext]_everything => ProcessInv'
  BY OneProcess, ProcessNext, ProcessSame, MiRuntimeAssumption
<1>3. ProcessInv => ProcessKeeps
  BY ProcessTells, MiRuntimeAssumption DEF ProcessKeeps
<1>4. QED
  BY <1>1, <1>2, <1>3, PTL DEF RuntimeSpec

\* A block that the program has is large enough for what was asked for and
\* aligned as asked, has kept what was written to it however often it was resized,
\* and is zero where it was given as zero; and no program that wrote only to its
\* own memory is told of a corrupted block.
THEOREM BlocksAreKept == RuntimeSpec => []BlocksKeep
<1>1. RuntimeInit => BlocksInv
  BY BlocksBegin DEF RuntimeInit
<1>2. BlocksInv /\ [RuntimeNext]_everything => BlocksInv'
  BY OneBlocks, BlocksNext, BlocksSame, MiRuntimeAssumption
<1>3. BlocksInv => BlocksKeep
  BY BlocksTell DEF BlocksKeep
<1>4. QED
  BY <1>1, <1>2, <1>3, PTL DEF RuntimeSpec

\* No place of the table is given out twice and no arena is in it twice; what
\* was allocated is in an arena that suits it; descriptions do not overlap; and
\* whoever turned to the operating system, having met nobody, found no arena
\* with room.
THEOREM ArenasAreKept == RuntimeSpec => []ArenasKeep
<1>1. RuntimeInit => ArenasInv
  BY ArenasBegin, MiRuntimeAssumption DEF RuntimeInit
<1>2. ArenasInv /\ [RuntimeNext]_everything => ArenasInv'
  BY OneArenas, ArenasNext, ArenasStill, MiRuntimeAssumption
<1>3. ArenasInv => ArenasKeep
  BY ArenasShow, MiRuntimeAssumption DEF ArenasKeep
<1>4. QED
  BY <1>1, <1>2, <1>3, PTL DEF RuntimeSpec
=============================================================================
