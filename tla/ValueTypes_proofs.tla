-------------------------- MODULE ValueTypes_proofs --------------------------
(***************************************************************************)
(* What is proved of ScopedLock (ScopedLock_proofs) holds where it is one  *)
(* type of the program beside others.  Of StrRef, ArrayRef and             *)
(* MimAllocator it is proved here, for any memory, any arrays and numbers, *)
(* and any width of size_t that counts the memory twice.                   *)
(***************************************************************************)
EXTENDS ValueTypes, SequenceTheorems, TLAPS

LP == INSTANCE ScopedLock_proofs WITH
  Threads <- Cells, Mutexes <- Cells, NoThread <- Null

\* Both instances of ScopedLock say the same.
LEMMA SameInit == L!Init => LP!Init
  BY DEF L!Init, LP!Init

LEMMA SameAssumption == LP!LockAssumption
  BY ValueTypesAssumption DEF L!LockAssumption, LP!LockAssumption

LEMMA SameNext == L!Next => LP!Next
  BY DEF L!Next, L!Step, L!TryLock, L!Unlock, L!Release, L!Enter, L!Owned, L!Take,
     L!LockFirst, L!TryNext, L!TryFails, L!BackOff, L!Adopt, L!Leave, L!UnlockOne,
     L!Last, L!Front,
     LP!Next, LP!Step, LP!TryLock, LP!Unlock, LP!Release, LP!Enter, LP!Owned, LP!Take,
     LP!LockFirst, LP!TryNext, LP!TryFails, LP!BackOff, LP!Adopt, LP!Leave, LP!UnlockOne,
     LP!Last, LP!Front

LEMMA SameKept == LP!OneKeeper /\ LP!HoldsWhileInScope /\ LP!NoWaitCycle => LocksAreKept
  BY DEF LocksAreKept, L!OneKeeper, L!HoldsWhileInScope, L!NoWaitCycle, L!Keepers,
     L!Owned, L!WaitsFor, L!Flat,
     LP!OneKeeper, LP!HoldsWhileInScope, LP!NoWaitCycle, LP!Keepers, LP!Owned,
     LP!WaitsFor, LP!Flat

\* A step of the program is one of ScopedLock, or leaves it alone.
LEMMA Steps == ASSUME [Next]_vars PROVE [LP!Next]_LP!vars
<1>1. CASE ScopedLock
  BY <1>1, SameNext DEF ScopedLock
<1>2. CASE Option \/ OptionRef \/ OptionOrder \/ Result \/ Poly
  BY <1>2 DEF Option, OptionRef, OptionOrder, Result, Poly, lockVars, LP!vars
<1>3. CASE Box \/ StrRef \/ ArrayRef \/ MimAllocator
  BY <1>3 DEF Box, StrRef, ArrayRef, MimAllocator, lockVars, LP!vars
<1>4. CASE UNCHANGED vars
  BY <1>4 DEF vars, lockVars, LP!vars
<1>5. QED
  BY <1>1, <1>2, <1>3, <1>4 DEF Next

\* The invariant of ScopedLock, in this program.
LEMMA Inductive ==
  /\ Init => LP!IInv
  /\ LP!IInv /\ [Next]_vars => LP!IInv'
<1>1. Init => LP!IInv
  BY SameInit, SameAssumption, LP!InitIInv DEF Init
<1>2. LP!IInv /\ [Next]_vars => LP!IInv'
  BY SameAssumption, Steps, LP!NextIInv
<1>3. QED
  BY <1>1, <1>2

\* Whatever threads nest, adopt and try, to any depth: a thread owns exactly
\* the mutexes that one thing of its will unlock, an open scope owns all of its
\* mutexes, and threads that own nothing but what a constructor has taken never
\* wait for each other in a circle (Mtx.hpp:133).
THEOREM LocksKept == Spec => []LocksAreKept
<1>1. LP!IInv => LocksAreKept
  BY SameKept, LP!IInvKeeper, LP!IInvScope, LP!IInvCircle
<1>2. QED
  BY <1>1, Inductive, PTL DEF Spec

-----------------------------------------------------------------------------
(* Views of characters: however they are cut, they lie in the memory, and   *)
(* what they show is what the calls promise of strings.                     *)

\* A part of a sequence, place by place.
LEMMA PartIs ==
  ASSUME NEW s, NEW pos \in Nat, NEW n \in Nat, NEW T, NEW f \in [1 .. n -> T],
         \A i \in 1 .. n : f[i] = s[pos + i]
  PROVE  SubSeq(s, pos + 1, pos + n) = f
<1> DEFINE q == SubSeq(s, pos + 1, pos + n)
<1>1. pos + 1 \in Int /\ pos + n \in Int
  OBVIOUS
<1>2. \A i \in pos + 1 .. pos + n : s[i] \in T
  <2>1. ASSUME NEW i \in pos + 1 .. pos + n PROVE s[i] \in T
    <3>1. i - pos \in 1 .. n /\ pos + (i - pos) = i
      OBVIOUS
    <3>2. f[i - pos] = s[i]
      BY <3>1
    <3>3. QED
      BY <3>1, <3>2
  <2>2. QED
    BY <2>1
<1>3. q \in Seq(T) /\ Len(q) = (IF pos + 1 <= pos + n THEN (pos + n) - (pos + 1) + 1 ELSE 0)
      /\ \A i \in 1 .. (pos + n) - (pos + 1) + 1 : q[i] = s[(pos + 1) + i - 1]
  BY <1>1, <1>2, SubSeqProperties
<1>4. (IF pos + 1 <= pos + n THEN (pos + n) - (pos + 1) + 1 ELSE 0) = n
      /\ (pos + n) - (pos + 1) + 1 = n /\ \A i \in 1 .. n : (pos + 1) + i - 1 = pos + i
  OBVIOUS
<1>5. q \in [1 .. n -> T] /\ \A i \in 1 .. n : q[i] = f[i]
  <2> HIDE DEF q
  <2>1. Len(q) = n
    BY <1>3, <1>4
  <2>2. q \in [1 .. n -> T]
    BY <1>3, <2>1, LenProperties
  <2>3. QED
    BY <1>3, <1>4, <2>2
<1>6. q = f
  <2> HIDE DEF q
  <2>1. QED
    BY <1>5
<1>7. QED
  BY <1>6

ViewTypes ==
  /\ viewData \in [Holders -> Nat \cup {Null}]
  /\ viewSize \in [Holders -> Nat]

ViewInv == ViewTypes /\ S!InBounds

\* A number that fits in a word is itself.
LEMMA Modulo ==
  ASSUME NEW m \in Nat, NEW k \in Nat, m < k PROVE m % k = m
  OBVIOUS

LEMMA MemoryLen ==
  ASSUME S!SliceAssumption
  PROVE  /\ Len(Memory) \in Nat /\ Len(Memory) > 0
         /\ ViewWord \in Nat /\ ViewWord > 2 * Len(Memory)
         /\ Null \notin Nat /\ Lengths \subseteq Nat
  BY DEF S!SliceAssumption

\* v becomes a view within the memory.
Inside(p, n) ==
  /\ p \in Nat \cup {Null} /\ n \in Nat
  /\ IF p = Null THEN n = 0 ELSE p >= 1 /\ p + n <= Len(Memory) + 1

LEMMA InsideSize ==
  ASSUME S!SliceAssumption, NEW p, NEW n, Inside(p, n)
  PROVE  n \in 0 .. S!npos
  BY MemoryLen DEF Inside, S!npos

LEMMA ViewInside ==
  ASSUME S!SliceAssumption, ViewInv, ~ wrapped, NEW v \in Holders
  PROVE  Inside(viewData[v], viewSize[v])
  BY DEF ViewInv, ViewTypes, S!InBounds, Inside, S!IsNull

LEMMA SetKeeps ==
  ASSUME S!SliceAssumption, ViewInv, ~ wrapped, NEW v \in Holders, NEW p, NEW n,
         Inside(p, n), S!Set(v, p, n)
  PROVE  ViewInv'
<1>1. /\ viewData' = [viewData EXCEPT ![v] = p] /\ viewSize' = [viewSize EXCEPT ![v] = n]
  BY DEF S!Set
<1>2. ViewTypes'
  BY <1>1 DEF ViewInv, ViewTypes, Inside
<1>3. \A u \in Holders : Inside(viewData'[u], viewSize'[u])
  BY <1>1, ViewInside DEF ViewInv, ViewTypes
<1>4. S!InBounds'
  BY <1>3, InsideSize DEF S!InBounds, S!IsNull, Inside
<1>5. QED
  BY <1>2, <1>4 DEF ViewInv

\* What is cut out of a view.
LEMMA CutInside ==
  ASSUME S!SliceAssumption, NEW p, NEW n, Inside(p, n), p # Null, NEW k \in Nat, k <= n
  PROVE  Inside(p + k, n - k) /\ Inside(p, n - k)
  BY MemoryLen DEF Inside

LEMMA DropsKeep ==
  ASSUME S!SliceAssumption, ViewInv, ~ wrapped, NEW v \in Holders, NEW w \in Holders,
         NEW n \in Nat,
         S!DropsFront(v, w, n) \/ S!DropsBack(v, w, n)
  PROVE  ViewInv'
  BY ViewInside, CutInside, SetKeeps DEF S!DropsFront, S!DropsBack, S!IsNull

LEMMA MakeKeeps ==
  ASSUME S!SliceAssumption, ViewInv, ~ wrapped, NEW v \in Holders, S!Make(v)
  PROVE  ViewInv'
<1>1. PICK p \in 1 .. Len(Memory) : S!FromLiteral(v, p) \/ \E n \in Lengths :
          S!FromPointer(v, p, n)
  BY DEF S!Make
<1>2. CASE S!FromLiteral(v, p)
  <2>1. Inside(p, Len(Memory) - p)
    BY MemoryLen DEF Inside
  <2>2. QED
    BY <1>2, <2>1, SetKeeps DEF S!FromLiteral
<1>3. ASSUME NEW n \in Lengths, S!FromPointer(v, p, n) PROVE ViewInv'
  <2>1. Inside(p, n)
    BY <1>3, MemoryLen DEF Inside, S!FromPointer
  <2>2. QED
    BY <1>3, <2>1, SetKeeps DEF S!FromPointer
<1>4. QED
  BY <1>1, <1>2, <1>3

LEMMA TakeKeeps ==
  ASSUME S!SliceAssumption, ViewInv, ~ wrapped, NEW v \in Holders, NEW w \in Holders,
         NEW n \in Nat,
         S!TakeFront(v, w, n) \/ S!TakeBack(v, w, n)
  PROVE  ViewInv'
<1>1. viewSize[w] \in Nat /\ Inside(viewData[w], viewSize[w])
  BY ViewInside DEF ViewInv, ViewTypes
<1>2. CASE S!Set(v, viewData[w], viewSize[w])
  BY <1>1, <1>2, SetKeeps
<1>3. CASE n < viewSize[w]
      /\ (S!DropsFront(v, w, viewSize[w] - n) \/ S!DropsBack(v, w, viewSize[w] - n))
  <2>1. viewSize[w] - n \in Nat
    BY <1>1, <1>3
  <2>2. QED
    BY <1>3, <2>1, DropsKeep
<1>4. QED
  <2>1. CASE n >= viewSize[w]
    BY <1>2, <2>1 DEF S!TakeFront, S!TakeBack
  <2>2. CASE ~ (n >= viewSize[w])
    <3>1. n < viewSize[w]
      BY <1>1, <2>2
    <3>2. S!DropsFront(v, w, viewSize[w] - n) \/ S!DropsBack(v, w, viewSize[w] - n)
      BY <2>2 DEF S!TakeFront, S!TakeBack
    <3>3. QED
      BY <1>3, <3>1, <3>2
  <2>3. QED
    BY <2>1, <2>2

LEMMA SliceKeeps ==
  ASSUME S!SliceAssumption, ViewInv, ~ wrapped, NEW v \in Holders, NEW w \in Holders,
         NEW n \in Lengths, NEW pos \in Lengths, S!Slice(v, w, pos, n),
         wrapped' = (viewCall'[1] = "slice" /\ viewCall'[4] + viewCall'[5] >= ViewWord)
  PROVE  ViewInv'
<1>1. n \in Nat /\ pos \in Nat /\ viewCall' = <<"slice", v, w, pos, n>>
  BY MemoryLen DEF S!Slice
<1>2. CASE pos + n >= ViewWord
  <2>1. wrapped'
    BY <1>1, <1>2
  <2>2. viewData[w] \in Nat
    BY DEF S!Slice, S!IsNull, ViewInv, ViewTypes
  <2>3. ViewTypes'
    BY <1>1, <2>2 DEF S!Slice, S!Set, ViewInv, ViewTypes
  <2>4. QED
    BY <2>1, <2>3 DEF ViewInv, S!InBounds
<1>3. CASE pos + n < ViewWord
  <2>1. S!Plus(pos, n) = pos + n
    <3>1. pos + n \in Nat /\ ViewWord \in Nat
      BY <1>1, MemoryLen
    <3>2. QED
      BY <1>3, <3>1, Modulo DEF S!Plus
  <2>2. pos + n <= viewSize[w] /\ viewData[w] # Null
    BY <2>1 DEF S!Slice, S!IsNull
  <2>3. Inside(viewData[w] + pos, n)
    <3>1. Inside(viewData[w], viewSize[w])
      BY ViewInside
    <3>2. viewData[w] \in Nat /\ viewSize[w] \in Nat
      BY <2>2, <3>1 DEF Inside
    <3>3. viewData[w] + pos \in Nat /\ viewData[w] + pos # Null
      BY <1>1, <3>2, MemoryLen
    <3>4. viewData[w] >= 1 /\ viewData[w] + viewSize[w] <= Len(Memory) + 1
      BY <2>2, <3>1 DEF Inside
    <3>5. viewData[w] + pos >= 1 /\ (viewData[w] + pos) + n <= Len(Memory) + 1
      <4>1. PICK p \in Nat, k \in Nat, e \in Nat :
              p = viewData[w] /\ k = viewSize[w] /\ e = Len(Memory) + 1
        BY <3>2, MemoryLen
      <4>2. p >= 1 /\ p + k <= e /\ pos + n <= k /\ pos \in Nat /\ n \in Nat
        BY <1>1, <2>2, <3>4, <4>1
      <4>3. p + pos >= 1 /\ (p + pos) + n <= e
        BY <4>2
      <4>4. QED
        BY <4>1, <4>3
    <3>6. QED
      BY <1>1, <3>3, <3>5 DEF Inside
  <2>4. QED
    BY <2>3, SetKeeps DEF S!Slice
<1>4. QED
  BY <1>1, <1>2, <1>3, MemoryLen

LEMMA SwapKeeps ==
  ASSUME S!SliceAssumption, ViewInv, ~ wrapped, NEW v \in Holders,
         NEW w \in Holders, S!Swap(v, w)
  PROVE  ViewInv'
<1>1. /\ viewData' = [viewData EXCEPT ![v] = viewData[w], ![w] = viewData[v]]
      /\ viewSize' = [viewSize EXCEPT ![v] = viewSize[w], ![w] = viewSize[v]]
  BY DEF S!Swap
<1>2. ViewTypes'
  BY <1>1 DEF ViewInv, ViewTypes
<1>3. \A u \in Holders : Inside(viewData'[u], viewSize'[u])
  BY <1>1, ViewInside DEF ViewInv, ViewTypes
<1>4. S!InBounds'
  BY <1>3, InsideSize DEF S!InBounds, S!IsNull, Inside
<1>5. QED
  BY <1>2, <1>4 DEF ViewInv

LEMMA ModifyKeeps ==
  ASSUME S!SliceAssumption, ViewInv, ~ wrapped, NEW v \in Holders, S!Modify(v)
  PROVE  ViewInv'
<1>1. PICK n \in Lengths : S!RemovePrefix(v, n) \/ S!RemoveSuffix(v, n)
  BY DEF S!Modify
<1>2. n \in Nat /\ viewSize[v] \in Nat
  BY MemoryLen DEF ViewInv, ViewTypes
<1>3. CASE viewData[v] # Null
  BY <1>1, <1>2, <1>3, ViewInside, CutInside, SetKeeps DEF S!RemovePrefix, S!RemoveSuffix
<1>4. CASE viewData[v] = Null /\ S!RemoveSuffix(v, n)
  <2>1. Inside(Null, viewSize[v] - n)
    <3>1. Inside(Null, viewSize[v]) /\ n <= viewSize[v]
      BY <1>4, ViewInside DEF S!RemoveSuffix
    <3>2. viewSize[v] = 0
      BY <3>1 DEF Inside
    <3>3. viewSize[v] - n = 0
      BY <1>2, <3>1, <3>2
    <3>4. QED
      BY <3>3 DEF Inside
  <2>2. QED
    BY <1>4, <2>1, SetKeeps DEF S!RemoveSuffix
<1>5. QED
  BY <1>1, <1>3, <1>4 DEF S!RemovePrefix, S!IsNull

LEMMA StillKeeps ==
  ASSUME S!SliceAssumption, ViewInv, ~ wrapped, UNCHANGED <<viewData, viewSize>>
  PROVE  ViewInv'
  BY DEF ViewInv, ViewTypes, S!InBounds, S!IsNull

LEMMA NextViewInv == ASSUME S!SliceAssumption, ViewInv, [S!Next]_S!vars PROVE ViewInv'
<1>1. CASE UNCHANGED S!vars
  BY <1>1 DEF S!vars, ViewInv, ViewTypes, S!InBounds, S!IsNull
<1>2. CASE S!Next
  <2>1. ~ wrapped
        /\ wrapped' = (viewCall'[1] = "slice" /\ viewCall'[4] + viewCall'[5] >= ViewWord)
    BY <1>2 DEF S!Next
  <2>2. PICK v \in Holders : S!Make(v) \/ S!Modify(v) \/ S!Observe(v) \/ \E w \in Holders :
            S!Derive(v, w)
    BY <1>2 DEF S!Next, S!Step
  <2>3. CASE S!Observe(v)
    BY <2>1, <2>3, StillKeeps DEF S!Observe, S!Backwards, S!Compare, S!At, S!Copy
  <2>4. ASSUME NEW w \in Holders, S!Derive(v, w) PROVE ViewInv'
    <3>1. ASSUME NEW n \in Lengths,
                 \/ S!DropFront(v, w, n) \/ S!DropBack(v, w, n)
                 \/ S!TakeFront(v, w, n) \/ S!TakeBack(v, w, n)
          PROVE  ViewInv'
      BY <2>1, <3>1, MemoryLen, DropsKeep, TakeKeeps DEF S!DropFront, S!DropBack
    <3>2. ASSUME NEW n \in Lengths, NEW pos \in Lengths, S!Slice(v, w, pos, n) PROVE ViewInv'
      BY <2>1, <3>2, SliceKeeps
    <3>3. QED
      BY <2>1, <2>4, <3>1, <3>2, SwapKeeps DEF S!Derive
  <2>5. QED
    BY <2>1, <2>2, <2>3, <2>4, MakeKeeps, ModifyKeeps
<1>3. QED
  BY <1>1, <1>2

LEMMA InitViewInv == ASSUME S!SliceAssumption, S!Init PROVE ViewInv
  BY MemoryLen DEF S!Init, ViewInv, ViewTypes, S!InBounds, S!IsNull, S!npos

-----------------------------------------------------------------------------
\* What views show.


LEMMA ReadAllSeq ==
  ASSUME NEW p, NEW n \in Nat
  PROVE  /\ DOMAIN S!ReadAll(p, n) = 1 .. n
         /\ Len(S!ReadAll(p, n)) = n
         /\ \A i \in 1 .. n : S!ReadAll(p, n)[i] = S!Read(p + i - 1)
         /\ n = 0 => S!ReadAll(p, n) = <<>>
<1> DEFINE T == {S!Read(p + i - 1) : i \in 1 .. n}
<1>1. S!ReadAll(p, n) \in [1 .. n -> T]
  BY DEF S!ReadAll
<1>2. S!ReadAll(p, n) \in Seq(T)
  BY <1>1, SeqDef
<1>3. DOMAIN S!ReadAll(p, n) = 1 .. n
  BY <1>1
<1>4. Len(S!ReadAll(p, n)) = n
  BY <1>2, <1>3, LenProperties
<1>5. QED
  BY <1>3, <1>4 DEF S!ReadAll

\* A part of what a view shows is what a shorter view shows.
LEMMA PartIsView ==
  ASSUME NEW p \in Nat, NEW k \in Nat, NEW n \in Nat, NEW pos \in Nat, pos + n <= k
  PROVE  S!Abstract!Part(S!ReadAll(p, k), pos, n) = S!ReadAll(p + pos, n)
<1> DEFINE T == {S!Read((p + pos) + i - 1) : i \in 1 .. n}
           f == S!ReadAll(p + pos, n)
           s == S!ReadAll(p, k)
<1>1. f \in [1 .. n -> T]
  BY DEF S!ReadAll
<1>2. \A i \in 1 .. n : f[i] = s[pos + i]
  <2>1. \A i \in 1 .. n : pos + i \in 1 .. k /\ p + (pos + i) - 1 = (p + pos) + i - 1
    OBVIOUS
  <2>2. p + pos \in Nat
    OBVIOUS
  <2>3. QED
    BY <2>1, <2>2, ReadAllSeq
<1> HIDE DEF f, s, T
<1>3. S!Abstract!Part(s, pos, n) = f
  BY <1>1, <1>2, PartIs DEF S!Abstract!Part
<1>4. QED
  BY <1>3 DEF f, s

LEMMA AllOfView ==
  ASSUME NEW p, NEW n \in Nat
  PROVE  S!Abstract!Part(S!ReadAll(p, n), 0, n) = S!ReadAll(p, n)
<1> DEFINE T == {S!Read(p + i - 1) : i \in 1 .. n}
           f == S!ReadAll(p, n)
<1>1. f \in [1 .. n -> T]
  BY DEF S!ReadAll
<1> DEFINE pos == 0
<1>2. pos \in Nat /\ \A i \in 1 .. n : f[i] = f[pos + i]
  OBVIOUS
<1> HIDE DEF f, T, pos
<1>3. S!Abstract!Part(f, pos, n) = f
  BY <1>1, <1>2, PartIs DEF S!Abstract!Part
<1>4. QED
  BY <1>3 DEF f, pos

\* Nothing can be dropped of nothing.
LEMMA OfNothing ==
  ASSUME NEW n \in Nat, NEW k \in Nat, n <= k, k = 0
  PROVE  k - n = k /\ k - n \in Nat /\ k - n >= k
  OBVIOUS

-----------------------------------------------------------------------------
\* The step of a string view.

LEMMA ShownText ==
  ASSUME NEW v \in Holders, Inside(viewData[v], viewSize[v])
  PROVE  S!Shown[v] = S!ReadAll(viewData[v], viewSize[v])
<1>1. CASE S!IsNull(v)
  BY <1>1, ReadAllSeq DEF S!Shown, S!IsNull, Inside
<1>2. CASE ~ S!IsNull(v)
  BY <1>2 DEF S!Shown
<1>3. QED
  BY <1>1, <1>2

LEMMA SetShows ==
  ASSUME S!SliceAssumption, ViewInv, ~ wrapped, ViewInv', ~ wrapped',
         NEW v \in Holders, NEW p, NEW n, Inside(p, n), S!Set(v, p, n)
  PROVE  S!Shown' = [S!Shown EXCEPT ![v] = S!ReadAll(p, n)]
<1>1. /\ viewData' = [viewData EXCEPT ![v] = p] /\ viewSize' = [viewSize EXCEPT ![v] = n]
  BY DEF S!Set
<1>2. viewData \in [Holders -> Nat \cup {Null}] /\ viewSize \in [Holders -> Nat]
  BY DEF ViewInv, ViewTypes
<1>3. DOMAIN S!Shown = Holders /\ DOMAIN S!Shown' = Holders
  BY DEF S!Shown
<1>4. ASSUME NEW u \in Holders, u # v PROVE S!Shown'[u] = S!Shown[u]
  BY <1>1, <1>2, <1>4 DEF S!Shown, S!IsNull, S!ReadAll
<1>5. S!Shown'[v] = S!ReadAll(p, n)
  <2>1. viewData'[v] = p /\ viewSize'[v] = n
    BY <1>1, <1>2
  <2>2. CASE p = Null
    BY <2>1, <2>2, ReadAllSeq DEF S!Shown, S!IsNull, Inside
  <2>3. CASE p # Null
    BY <2>1, <2>3 DEF S!Shown, S!IsNull, S!ReadAll
  <2>4. QED
    BY <2>2, <2>3
<1>6. S!Shown = [u \in Holders |-> S!Shown[u]] /\ S!Shown' = [u \in Holders |-> S!Shown'[u]]
  BY DEF S!Shown
<1>7. QED
  BY <1>3, <1>4, <1>5, <1>6

\* A step between two states in which all views lie in the memory.
Sound == S!SliceAssumption /\ ViewInv /\ ~ wrapped /\ ViewInv' /\ ~ wrapped'

\* The view that shows a part of another.
LEMMA PartShown ==
  ASSUME Sound, NEW v \in Holders, NEW w \in Holders, NEW pos \in Nat, NEW n \in Nat,
         viewData[w] # Null, pos + n <= viewSize[w], S!Set(v, viewData[w] + pos, n)
  PROVE  S!Shown' = [S!Shown EXCEPT ![v] = S!Abstract!Part(S!Shown[w], pos, n)]
<1>1. Inside(viewData[w], viewSize[w]) /\ viewData[w] \in Nat /\ viewSize[w] \in Nat
  BY ViewInside DEF Sound, Inside
<1>2. S!Abstract!Part(S!Shown[w], pos, n) = S!ReadAll(viewData[w] + pos, n)
  <2>1. PICK p \in Nat, k \in Nat : p = viewData[w] /\ k = viewSize[w]
    BY <1>1
  <2>2. pos + n <= k
    BY <2>1
  <2>3. S!Abstract!Part(S!ReadAll(p, k), pos, n) = S!ReadAll(p + pos, n)
    BY <2>2, PartIsView
  <2>4. QED
    BY <1>1, <2>1, <2>3, ShownText
<1>3. Inside(viewData[w] + pos, n)
  <2>1. viewData[w] >= 1 /\ viewData[w] + viewSize[w] <= Len(Memory) + 1
    BY <1>1 DEF Inside
  <2>2. viewData[w] + pos \in Nat /\ viewData[w] + pos >= 1
        /\ (viewData[w] + pos) + n <= Len(Memory) + 1
    BY <1>1, <2>1, MemoryLen DEF Sound
  <2>3. QED
    BY <2>2, MemoryLen DEF Inside, Sound
<1>4. QED
  BY <1>2, <1>3, SetShows DEF Sound

LEMMA ShownLen ==
  ASSUME S!SliceAssumption, ViewInv, ~ wrapped, NEW v \in Holders
  PROVE  viewSize[v] \in Nat /\ Len(S!Shown[v]) = viewSize[v]
<1>1. Inside(viewData[v], viewSize[v]) /\ viewSize[v] \in Nat
  BY ViewInside DEF Inside
<1>2. QED
  BY <1>1, ShownText, ReadAllSeq

\* dropFront and dropBack of a view that is not null show the last and the
\* first characters.
LEMMA DropsShown ==
  ASSUME Sound, NEW v \in Holders, NEW w \in Holders, NEW n \in Nat, n <= viewSize[w],
         viewData[w] # Null
  PROVE  /\ S!Set(v, viewData[w] + n, viewSize[w] - n) =>
              S!Shown' = [S!Shown EXCEPT ![v] = S!Abstract!LastOf(S!Shown[w], viewSize[w] - n)]
         /\ S!Set(v, viewData[w], viewSize[w] - n) =>
              S!Shown' = [S!Shown EXCEPT ![v] = S!Abstract!FirstOf(S!Shown[w], viewSize[w] - n)]
<1>1. viewSize[w] \in Nat /\ Len(S!Shown[w]) = viewSize[w] /\ viewSize[w] - n \in Nat
  BY ShownLen DEF Sound
<1>2. S!Abstract!Least(viewSize[w] - n, Len(S!Shown[w])) = viewSize[w] - n
  BY <1>1 DEF S!Abstract!Least
<1>3. S!Abstract!LastOf(S!Shown[w], viewSize[w] - n) =
          S!Abstract!Part(S!Shown[w], n, viewSize[w] - n)
  <2>1. Len(S!Shown[w]) - (viewSize[w] - n) = n
    BY <1>1
  <2>2. QED
    BY <1>2, <2>1 DEF S!Abstract!LastOf
<1>4. S!Abstract!FirstOf(S!Shown[w], viewSize[w] - n) =
          S!Abstract!Part(S!Shown[w], 0, viewSize[w] - n)
  BY <1>2 DEF S!Abstract!FirstOf
<1>5. n + (viewSize[w] - n) <= viewSize[w] /\ 0 + (viewSize[w] - n) <= viewSize[w]
  BY <1>1
<1>6. viewData[w] \in Nat /\ viewData[w] + 0 = viewData[w]
  BY ViewInside DEF Sound, Inside
<1>7. QED
  BY <1>1, <1>3, <1>4, <1>5, <1>6, PartShown

\* A copy of the whole view.
LEMMA WholeShown ==
  ASSUME Sound, NEW v \in Holders, NEW w \in Holders, NEW n \in Nat, n >= viewSize[w],
         S!Set(v, viewData[w], viewSize[w])
  PROVE  /\ S!Shown' = [S!Shown EXCEPT ![v] = S!Abstract!FirstOf(S!Shown[w], n)]
         /\ S!Shown' = [S!Shown EXCEPT ![v] = S!Abstract!LastOf(S!Shown[w], n)]
<1>1. Inside(viewData[w], viewSize[w]) /\ viewSize[w] \in Nat
      /\ Len(S!Shown[w]) = viewSize[w]
  BY ViewInside, ShownLen DEF Sound
<1>2. S!Abstract!Least(n, Len(S!Shown[w])) = viewSize[w]
  BY <1>1 DEF S!Abstract!Least
<1>3. S!Abstract!Part(S!Shown[w], 0, viewSize[w]) = S!ReadAll(viewData[w], viewSize[w])
  <2>1. S!Abstract!Part(S!ReadAll(viewData[w], viewSize[w]), 0, viewSize[w]) =
            S!ReadAll(viewData[w], viewSize[w])
    BY <1>1, AllOfView
  <2>2. QED
    BY <1>1, <2>1, ShownText
<1>4. S!Shown' = [S!Shown EXCEPT ![v] = S!ReadAll(viewData[w], viewSize[w])]
  BY <1>1, SetShows DEF Sound
<1>5. Len(S!Shown[w]) - viewSize[w] = 0
  BY <1>1
<1>6. QED
  BY <1>2, <1>3, <1>4, <1>5 DEF S!Abstract!FirstOf, S!Abstract!LastOf

-----------------------------------------------------------------------------
LEMMA NextDerives ==
  ASSUME NEW v \in Holders, NEW w \in Holders, NEW n \in Lengths,
         S!Abstract!Drop(v, w, n) \/ S!Abstract!Take(v, w, n) \/ S!Abstract!Swap(v, w)
  PROVE  S!Abstract!Next
<1>1. \E u \in Holders :
        S!Abstract!Swap(v, u) \/ \E k \in Lengths :
            S!Abstract!Drop(v, u, k) \/ S!Abstract!Take(v, u, k)
  OBVIOUS
<1>2. QED
  BY <1>1 DEF S!Abstract!Next

LEMMA StrMakeStep ==
  ASSUME Sound, NEW v \in Holders, S!Make(v)
  PROVE  S!Abstract!Next
<1>1. PICK p \in 1 .. Len(Memory) :
        viewCall' = <<"made", v>> /\ \E n \in Nat : p + n <= Len(Memory) /\ S!Set(v, p, n)
  <2>1. \A p \in 1 .. Len(Memory) :
          Len(Memory) - p \in Nat /\ p + (Len(Memory) - p) <= Len(Memory)
    BY MemoryLen DEF Sound
  <2>2. QED
    BY <2>1, MemoryLen DEF S!Make, S!FromLiteral, S!FromPointer, Sound
<1>2. PICK n \in Nat : p + n <= Len(Memory) /\ S!Set(v, p, n)
  BY <1>1
<1>3. Inside(p, n)
  BY <1>2, MemoryLen DEF Inside, Sound
<1>4. S!Shown' = [S!Shown EXCEPT ![v] = S!ReadAll(p, n)]
  BY <1>2, <1>3, SetShows DEF Sound
<1>5. SubSeq(Memory, p, p + n - 1) = S!ReadAll(p, n)
  <2> DEFINE T == {S!Read(p + i - 1) : i \in 1 .. n}
             f == S!ReadAll(p, n)
             pos == p - 1
             s == Memory
  <2>1. pos \in Nat /\ pos + 1 = p /\ pos + n = p + n - 1
    BY MemoryLen DEF Sound
  <2>2. f \in [1 .. n -> T]
    BY DEF S!ReadAll
  <2>3. \A i \in 1 .. n : f[i] = s[pos + i]
    <3>1. \A i \in 1 .. n : p + i - 1 \in 1 .. Len(Memory) /\ p + i - 1 = pos + i
      BY <1>2, MemoryLen DEF Sound
    <3>2. QED
      BY <3>1, ReadAllSeq DEF S!Read
  <2> HIDE DEF f, T, pos, s
  <2>4. S!Abstract!Part(s, pos, n) = f
    <3>1. pos \in Nat
      BY <2>1
    <3>2. QED
      BY <2>2, <2>3, <3>1, PartIs DEF S!Abstract!Part
  <2>5. QED
    BY <2>1, <2>4 DEF S!Abstract!Part, f, s
<1>6. p \in 1 .. Len(Memory) + 1 /\ p + n - 1 \in 0 .. Len(Memory)
  BY <1>2, MemoryLen DEF Sound
<1>7. S!ReadAll(p, n) \in {SubSeq(Memory, i, j) : i \in 1 .. Len(Memory) + 1,
                                             j \in 0 .. Len(Memory)}
  <2>1. \E i \in 1 .. Len(Memory) + 1, j \in 0 .. Len(Memory) :
          S!ReadAll(p, n) = SubSeq(Memory, i, j)
    BY <1>5, <1>6
  <2>2. QED
    BY <2>1
<1>8. S!Abstract!Make(v, S!ReadAll(p, n))
  BY <1>1, <1>4 DEF S!Abstract!Make, S!Abstract!Becomes
<1>9. QED
  BY <1>7, <1>8 DEF S!Abstract!Next

LEMMA StrSliceStep ==
  ASSUME Sound, NEW v \in Holders, NEW w \in Holders, NEW n \in Lengths,
         NEW pos \in Lengths,
         S!Slice(v, w, pos, n), pos + n < ViewWord
  PROVE  S!Abstract!Next
<1>0. n \in Nat /\ pos \in Nat /\ pos + n \in Nat /\ ViewWord \in Nat
  BY MemoryLen DEF Sound
<1>1. n \in Nat /\ pos \in Nat /\ S!Plus(pos, n) = pos + n
  BY <1>0, Modulo DEF S!Plus
<1>2. viewData[w] # Null /\ pos + n <= viewSize[w] /\ S!Set(v, viewData[w] + pos, n)
  BY <1>1 DEF S!Slice, S!IsNull
<1>3. S!Abstract!Slice(v, w, pos, n)
  BY <1>1, <1>2, PartShown, ShownLen DEF S!Abstract!Slice, S!Abstract!Becomes, S!Slice, Sound
<1>4. QED
  BY <1>3 DEF S!Abstract!Next

\* What is dropped, by whatever operation.
LEMMA StrDropStep ==
  ASSUME Sound, NEW v \in Holders, NEW w \in Holders, NEW n \in Lengths, n <= viewSize[w],
         \/ /\ viewCall' = <<"front dropped", v, w, n>> /\ viewData[w] # Null
            /\ S!Set(v, viewData[w] + n, viewSize[w] - n)
         \/ /\ viewCall' = <<"back dropped", v, w, n>>
            /\ S!Set(v, viewData[w], viewSize[w] - n)
  PROVE  S!Abstract!Next
<1>1. n \in Nat /\ viewSize[w] \in Nat /\ Len(S!Shown[w]) = viewSize[w]
  BY MemoryLen, ShownLen DEF Sound
<1>a. n \in Nat /\ viewSize[w] \in Nat
  BY <1>1
<1>2. \/ /\ viewCall' = <<"front dropped", v, w, n>>
         /\ S!Shown' = [S!Shown EXCEPT ![v] = S!Abstract!LastOf(S!Shown[w], viewSize[w] - n)]
      \/ /\ viewCall' = <<"back dropped", v, w, n>>
         /\ S!Shown' = [S!Shown EXCEPT ![v] = S!Abstract!FirstOf(S!Shown[w], viewSize[w] - n)]
  <2>1. CASE viewData[w] # Null
    <3>1. /\ S!Set(v, viewData[w] + n, viewSize[w] - n) =>
               S!Shown' = [S!Shown EXCEPT ![v] = S!Abstract!LastOf(S!Shown[w], viewSize[w] - n)]
          /\ S!Set(v, viewData[w], viewSize[w] - n) =>
               S!Shown' = [S!Shown EXCEPT ![v] = S!Abstract!FirstOf(S!Shown[w], viewSize[w] - n)]
      BY <1>a, <2>1, DropsShown
    <3>2. QED
      BY <3>1
  <2>2. CASE viewData[w] = Null
    <3>1. viewSize[w] = 0
      BY <2>2, ViewInside DEF Sound, Inside
    <3>3. viewSize[w] - n = viewSize[w] /\ viewSize[w] - n \in Nat
          /\ viewSize[w] - n >= viewSize[w]
      BY <1>a, <3>1, OfNothing
    <3>4. viewCall' = <<"back dropped", v, w, n>> /\ S!Set(v, viewData[w], viewSize[w])
      BY <2>2, <3>3
    <3>5. PICK m \in Nat : m = viewSize[w] - n
      BY <3>3
    <3>6. m >= viewSize[w]
      BY <3>3, <3>5
    <3>7. S!Shown' = [S!Shown EXCEPT ![v] = S!Abstract!FirstOf(S!Shown[w], m)]
      BY <3>4, <3>6, WholeShown
    <3>8. QED
      BY <3>4, <3>5, <3>7
  <2>3. QED
    BY <2>1, <2>2
<1>3. S!Abstract!Drop(v, w, n)
  <2>1. n <= Len(S!Shown[w])
    BY <1>1
  <2>2. QED
    BY <1>1, <1>2, <2>1 DEF S!Abstract!Drop, S!Abstract!Becomes
<1>4. QED
  BY <1>3, NextDerives

LEMMA StrTakeStep ==
  ASSUME Sound, NEW v \in Holders, NEW w \in Holders, NEW n \in Lengths,
         S!TakeFront(v, w, n) \/ S!TakeBack(v, w, n)
  PROVE  S!Abstract!Next
<1>1. n \in Nat /\ viewSize[w] \in Nat
  BY MemoryLen, ShownLen DEF Sound
<1>2. CASE n >= viewSize[w]
  <2>1. S!Set(v, viewData[w], viewSize[w])
    BY <1>2 DEF S!TakeFront, S!TakeBack
  <2>2. S!Abstract!Take(v, w, n)
    BY <1>1, <1>2, <2>1, WholeShown
    DEF S!Abstract!Take, S!Abstract!Becomes, S!TakeFront, S!TakeBack
  <2>3. QED
    BY <2>2 DEF S!Abstract!Next
<1>3. CASE ~ (n >= viewSize[w])
  <2> DEFINE m == viewSize[w] - n
  <2>1. m \in Nat /\ m <= viewSize[w] /\ viewSize[w] - m = n
    BY <1>1, <1>3
  <2>2. \/ S!TakeFront(v, w, n) /\ S!DropsBack(v, w, m)
        \/ S!TakeBack(v, w, n) /\ S!DropsFront(v, w, m)
    BY <1>3 DEF S!TakeFront, S!TakeBack
  <2> HIDE DEF m
  <2>3. viewData[w] # Null
    BY <2>2 DEF S!DropsFront, S!DropsBack, S!IsNull
  <2>4. /\ S!DropsFront(v, w, m) =>
            S!Shown' = [S!Shown EXCEPT ![v] = S!Abstract!LastOf(S!Shown[w], n)]
        /\ S!DropsBack(v, w, m) =>
               S!Shown' = [S!Shown EXCEPT ![v] = S!Abstract!FirstOf(S!Shown[w], n)]
    BY <2>1, <2>3, DropsShown DEF S!DropsFront, S!DropsBack
  <2>5. S!Abstract!Take(v, w, n)
    BY <2>2, <2>4 DEF S!Abstract!Take, S!Abstract!Becomes, S!TakeFront, S!TakeBack
  <2>6. QED
    BY <2>5 DEF S!Abstract!Next
<1>4. QED
  BY <1>2, <1>3

LEMMA StrSwapStep ==
  ASSUME Sound, NEW v \in Holders, NEW w \in Holders, S!Swap(v, w)
  PROVE  S!Abstract!Next
<1>1. /\ viewData' = [viewData EXCEPT ![v] = viewData[w], ![w] = viewData[v]]
      /\ viewSize' = [viewSize EXCEPT ![v] = viewSize[w], ![w] = viewSize[v]]
      /\ viewCall' = <<"swapped", v, w>>
  BY DEF S!Swap
<1>2. viewData \in [Holders -> Nat \cup {Null}] /\ viewSize \in [Holders -> Nat]
  BY DEF Sound, ViewInv, ViewTypes
<1>3. \A u \in Holders :
          S!Shown'[u] = IF u = w THEN S!Shown[v] ELSE IF u = v THEN S!Shown[w] ELSE S!Shown[u]
  BY <1>1, <1>2 DEF S!Shown, S!IsNull, S!ReadAll
<1>4. S!Shown = [u \in Holders |-> S!Shown[u]] /\ S!Shown' = [u \in Holders |-> S!Shown'[u]]
  BY DEF S!Shown
<1>5. S!Shown' = [S!Shown EXCEPT ![v] = S!Shown[w], ![w] = S!Shown[v]]
  BY <1>3, <1>4
<1>6. S!Abstract!Swap(v, w)
  BY <1>1, <1>5 DEF S!Abstract!Swap
<1>7. QED
  BY <1>6 DEF S!Abstract!Next

LEMMA StrObserveStep ==
  ASSUME Sound, NEW v \in Holders, S!Observe(v), ~ S!Departs'
  PROVE  S!Abstract!Next
<1>1. UNCHANGED <<viewData, viewSize>>
  BY DEF S!Observe, S!Backwards, S!Compare, S!At, S!Copy
<1>2. UNCHANGED S!Shown
  BY <1>1 DEF S!Shown, S!IsNull, S!ReadAll
<1>3. viewSize[v] \in Nat /\ Len(S!Shown[v]) = viewSize[v]
      /\ S!Shown[v] = S!ReadAll(viewData[v], viewSize[v])
  BY ShownLen, ShownText, ViewInside DEF Sound
<1>4. CASE S!Backwards(v)
  <2>1. viewCall'[1] = "backwards" /\ viewCall'[2] = v
    BY <1>4 DEF S!Backwards
  <2>2. viewSize[v] = 0
    BY <1>1, <1>3, <2>1 DEF S!Departs
  <2>3. viewCall' = <<"backwards", v, <<>> >>
    BY <1>4, <2>2 DEF S!Backwards
  <2>4. S!Shown[v] = <<>>
    BY <1>3, <2>2, ReadAllSeq
  <2>5. S!Abstract!Reverse(<<>>) = <<>>
    BY DEF S!Abstract!Reverse
  <2>6. S!Abstract!Backwards(v)
    BY <1>2, <2>3, <2>4, <2>5 DEF S!Abstract!Backwards
  <2>7. QED
    BY <2>6 DEF S!Abstract!Next
<1>5. ASSUME NEW w \in Holders, S!Compare(v, w) PROVE S!Abstract!Next
  <2>1. viewCall'[1] = "equal" /\ viewCall'[2] = v /\ viewCall'[3] = w
    BY <1>5 DEF S!Compare
  <2>2. viewSize[v] # viewSize[w]
    BY <1>1, <2>1 DEF S!Departs
  <2>3. S!Shown[v] # S!Shown[w]
    BY <1>3, <2>2, ShownLen DEF Sound
  <2>4. viewCall' = <<"equal", v, w, FALSE>>
    BY <1>5, <2>2 DEF S!Compare
  <2>5. S!Abstract!Compare(v, w)
    BY <1>2, <2>3, <2>4 DEF S!Abstract!Compare
  <2>6. QED
    BY <2>5 DEF S!Abstract!Next
<1>6. ASSUME NEW n \in Lengths, S!At(v, n) PROVE S!Abstract!Next
  <2>1. n \in Nat /\ n < viewSize[v] /\ viewCall' = <<"at", v, n, S!Read(viewData[v] + n)>>
    BY <1>6, MemoryLen DEF S!At, Sound
  <2>2. viewData[v] \in Nat
    BY <1>3, <2>1, ViewInside DEF Sound, Inside
  <2>3. n + 1 \in 1 .. viewSize[v] /\ viewData[v] + (n + 1) - 1 = viewData[v] + n
    BY <1>3, <2>1, <2>2
  <2>4. S!Shown[v][n + 1] = S!Read(viewData[v] + n)
    BY <1>3, <2>3, ReadAllSeq
  <2>5. S!Abstract!At(v, n)
    BY <1>2, <1>3, <2>1, <2>4 DEF S!Abstract!At
  <2>6. QED
    BY <2>5 DEF S!Abstract!Next
<1>7. ASSUME NEW n \in Lengths, NEW pos \in Lengths, S!Copy(v, n, pos) PROVE S!Abstract!Next
  <2>1. n \in Nat /\ pos \in Nat /\ pos <= viewSize[v]
    BY <1>7, MemoryLen DEF S!Copy, Sound
  <2> DEFINE left == viewSize[v] - pos
             rcount == IF n > left THEN left ELSE n
  <2>2. viewCall' = <<"copied", v, n, pos, S!ReadAll(viewData[v] + n, rcount), 0>>
    BY <1>7 DEF S!Copy
  <2>3. n = 0 \/ pos = viewSize[v]
    <3>1. viewCall'[1] = "copied" /\ viewCall'[2] = v /\ viewCall'[3] = n
          /\ viewCall'[4] = pos
      BY <2>2
    <3>2. QED
      BY <1>1, <2>1, <3>1 DEF S!Departs
  <2>4. rcount = 0 /\ S!Abstract!Least(n, Len(S!Shown[v]) - pos) = 0
    BY <1>3, <2>1, <2>3 DEF S!Abstract!Least
  <2>5. viewCall' = <<"copied", v, n, pos, <<>>, 0>>
    BY <2>2, <2>4, ReadAllSeq
  <2>6. S!Abstract!Part(S!Shown[v], pos, 0) = <<>>
    BY <2>1, SubSeqEmpty DEF S!Abstract!Part
  <2>7. Len(<<>>) = 0
    OBVIOUS
  <2>8. S!Abstract!Copy(v, n, pos)
    BY <1>2, <1>3, <2>1, <2>4, <2>5, <2>6, <2>7 DEF S!Abstract!Copy
  <2>9. QED
    BY <2>8 DEF S!Abstract!Next
<1>8. QED
  BY <1>4, <1>5, <1>6, <1>7 DEF S!Observe

\* Every step of the program on views is one of string views, or departs.
LEMMA StepIsString ==
  ASSUME S!SliceAssumption, ViewInv, ViewInv', S!Next, ~ S!Departs'
  PROVE  S!Abstract!Next
<1>1. Sound /\ wrapped' = (viewCall'[1] = "slice" /\ viewCall'[4] + viewCall'[5] >= ViewWord)
  BY DEF Sound, S!Next, S!Departs
<1>2. PICK v \in Holders : S!Make(v) \/ S!Modify(v) \/ S!Observe(v) \/ \E w \in Holders :
          S!Derive(v, w)
  BY DEF S!Next, S!Step
<1>3. CASE S!Modify(v)
  BY <1>1, <1>3, StrDropStep DEF S!Modify, S!RemovePrefix, S!RemoveSuffix, S!IsNull
<1>4. ASSUME NEW w \in Holders, S!Derive(v, w) PROVE S!Abstract!Next
  <2>1. ASSUME NEW n \in Lengths, S!DropFront(v, w, n) \/ S!DropBack(v, w, n) PROVE S!Abstract!Next
    BY <1>1, <2>1, StrDropStep DEF S!DropFront, S!DropBack, S!DropsFront, S!DropsBack, S!IsNull
  <2>2. ASSUME NEW n \in Lengths, NEW pos \in Lengths, S!Slice(v, w, pos, n) PROVE S!Abstract!Next
    <3>1. viewCall'[1] = "slice" /\ viewCall'[4] = pos /\ viewCall'[5] = n
      BY <2>2 DEF S!Slice
    <3>2. n \in Nat /\ pos \in Nat /\ ViewWord \in Nat
      BY <1>1, MemoryLen DEF Sound
    <3>4. ~ (pos + n >= ViewWord)
      BY <1>1, <3>1 DEF Sound
    <3>5. pos + n < ViewWord
      BY <3>2, <3>4
    <3>3. QED
      BY <1>1, <2>2, <3>5, StrSliceStep
  <2>3. QED
    BY <1>1, <1>4, <2>1, <2>2, StrTakeStep, StrSwapStep DEF S!Derive
<1>5. QED
  BY <1>1, <1>2, <1>3, <1>4, StrMakeStep, StrObserveStep

-----------------------------------------------------------------------------
(* Views of arrays: they lie in one array, and are strings of places.       *)

\* p and n are a view within an array, or no view.
InOne(p, n) ==
  /\ p \in Nat \cup {Null} /\ n \in Nat
  /\ IF p = Null THEN n = 0
     ELSE \E a \in Arrays : p >= a.first /\ p + n <= A!Last(a) + 1

RefTypes ==
  /\ refsData \in [Holders -> Nat \cup {Null}]
  /\ refsSize \in [Holders -> Nat]

RefInv == RefTypes /\ (refsWrapped \/ \A v \in Holders : InOne(refsData[v], refsSize[v]))

LEMMA ArrayFacts ==
  ASSUME A!ArrayAssumption
  PROVE  /\ Null \notin Nat /\ Lengths \subseteq Nat
         /\ \A a \in Arrays : a.first \in Nat /\ a.size \in Nat /\ a.first >= 1
         /\ \A a \in Arrays : A!Last(a) \in Int /\ A!Last(a) + 1 = a.first + a.size
         /\ ViewWord \in Nat
<1>1. \A a \in Arrays : a.first \in Nat /\ a.size \in Nat /\ a.first >= 1
  BY DEF A!ArrayAssumption
<1>2. \A a \in Arrays : A!Last(a) \in Int /\ A!Last(a) + 1 = a.first + a.size
  BY <1>1 DEF A!Last
<1>3. Null \notin Nat /\ ViewWord \in Nat /\ Lengths \subseteq 0 .. ViewWord - 1
  BY DEF A!ArrayAssumption
<1>4. QED
  BY <1>1, <1>2, <1>3

LEMMA RefInvInArray == ASSUME A!ArrayAssumption, RefInv PROVE A!InArray
<1>1. ASSUME NEW v \in Holders, InOne(refsData[v], refsSize[v]), refsData[v] # Null
      PROVE  \E a \in Arrays : /\ refsSize[v] \in 0 .. a.size
                               /\ refsData[v] >= a.first
                               /\ refsData[v] + refsSize[v] <= A!Last(a) + 1
  <2>1. PICK a \in Arrays : refsData[v] >= a.first
        /\ refsData[v] + refsSize[v] <= A!Last(a) + 1
    BY <1>1 DEF InOne
  <2>2. refsData[v] \in Nat /\ refsSize[v] \in Nat
    BY <1>1 DEF InOne
  <2>3. refsSize[v] <= a.size
    BY <2>1, <2>2, ArrayFacts
  <2>4. QED
    BY <2>1, <2>2, <2>3, ArrayFacts
<1>2. QED
  BY <1>1 DEF RefInv, A!InArray, InOne

LEMMA RefSetKeeps ==
  ASSUME RefInv, ~ refsWrapped, NEW v \in Holders, NEW p, NEW n, InOne(p, n), A!Set(v, p, n)
  PROVE  RefInv'
<1>1. /\ refsData' = [refsData EXCEPT ![v] = p] /\ refsSize' = [refsSize EXCEPT ![v] = n]
  BY DEF A!Set
<1>2. RefTypes'
  BY <1>1 DEF RefInv, RefTypes, InOne
<1>3. \A u \in Holders : InOne(refsData'[u], refsSize'[u])
  BY <1>1 DEF RefInv, RefTypes
<1>4. QED
  BY <1>2, <1>3 DEF RefInv

\* Parts of views.
LEMMA PartInOne ==
  ASSUME A!ArrayAssumption, NEW p, NEW k, InOne(p, k), p # Null,
         NEW pos \in Nat, NEW n \in Nat, pos + n <= k
  PROVE  InOne(p + pos, n)
<1>1. p \in Nat /\ k \in Nat
  BY DEF InOne
<1>2. PICK a \in Arrays : p >= a.first /\ p + k <= A!Last(a) + 1
  BY DEF InOne
<1>3. p + pos \in Nat /\ p + pos # Null /\ p + pos >= a.first
      /\ (p + pos) + n <= A!Last(a) + 1
  BY <1>1, <1>2, ArrayFacts
<1>4. QED
  BY <1>3 DEF InOne

\* What a view is made of.
LEMMA MadeInOne ==
  ASSUME A!ArrayAssumption, NEW v \in Holders,
         A!FromNull(v) \/ A!FromElement(v) \/ A!FromPointer(v) \/ A!FromArray(v)
  PROVE  \E p, n : InOne(p, n) /\ A!MadeOf(v, p, n)
                   /\ (n = 0 \/ (p \in A!Places /\ n \in 0 .. ViewWord - 1))
<1>1. CASE A!FromNull(v)
  <2>1. InOne(Null, 0)
    BY DEF InOne
  <2>2. QED
    BY <1>1, <2>1 DEF A!FromNull
<1>2. CASE A!FromElement(v)
  <2>1. PICK p \in A!Places : A!MadeOf(v, p, 1)
    BY <1>2 DEF A!FromElement
  <2>2. PICK a \in Arrays : p \in a.first .. A!Last(a)
    BY DEF A!Places
  <2>3. p \in Nat /\ p >= 1 /\ p + 1 <= A!Last(a) + 1 /\ ViewWord > 2 * p
    BY <2>2, ArrayFacts DEF A!ArrayAssumption
  <2>4. InOne(p, 1)
    BY <2>2, <2>3, ArrayFacts DEF InOne
  <2>5. 1 \in 0 .. ViewWord - 1
    BY <2>3, ArrayFacts
  <2>6. QED
    BY <2>1, <2>4, <2>5
<1>3. ASSUME NEW a \in Arrays, NEW begin \in a.first .. A!Last(a) + 1,
             NEW end \in a.first .. A!Last(a) + 1, end >= begin, A!MadeOf(v, begin, end - begin)
      PROVE  \E p, n : InOne(p, n) /\ A!MadeOf(v, p, n)
                       /\ (n = 0 \/ (p \in A!Places /\ n \in 0 .. ViewWord - 1))
  <2>1. begin \in Nat /\ end \in Nat /\ end - begin \in Nat
        /\ begin + (end - begin) <= A!Last(a) + 1
    BY <1>3, ArrayFacts
  <2>2. InOne(begin, end - begin)
    BY <2>1, ArrayFacts DEF InOne
  <2>3. CASE end = begin
    BY <1>3, <2>1, <2>2, <2>3
  <2>4. CASE end > begin
    <3>1. begin \in a.first .. A!Last(a) /\ end - 1 \in a.first .. A!Last(a)
      BY <2>1, <2>4, ArrayFacts
    <3>2. begin \in A!Places /\ end - 1 \in A!Places
      BY <3>1 DEF A!Places
    <3>3. ViewWord > 2 * (end - 1)
      BY <3>2 DEF A!ArrayAssumption
    <3>4. end - begin \in 0 .. ViewWord - 1
      BY <2>1, <2>4, <3>1, <3>3, ArrayFacts
    <3>5. QED
      BY <1>3, <2>2, <3>2, <3>4
  <2>5. QED
    BY <2>1, <2>3, <2>4, <1>3
<1>4. CASE A!FromArray(v)
  <2>1. PICK a \in Arrays : A!MadeOf(v, a.first, a.size)
    BY <1>4 DEF A!FromArray
  <2>2. a.first \in a.first .. A!Last(a) + 1 /\ A!Last(a) + 1 \in a.first .. A!Last(a) + 1
        /\ A!Last(a) + 1 >= a.first /\ (A!Last(a) + 1) - a.first = a.size
    BY ArrayFacts
  <2>3. A!MadeOf(v, a.first, (A!Last(a) + 1) - a.first)
    BY <2>1, <2>2
  <2>4. QED
    BY <1>3, <2>2, <2>3
<1>5. CASE A!FromPointer(v)
  BY <1>3, <1>5 DEF A!FromPointer
<1>6. QED
  BY <1>1, <1>2, <1>4, <1>5

\* What is left of a view w, and what of it is taken.
LEMMA RestInOne ==
  ASSUME A!ArrayAssumption, NEW p, NEW k, InOne(p, k), p # Null, NEW n \in Nat, n <= k
  PROVE  InOne(p + n, k - n) /\ InOne(p, k - n)
<1>1. p \in Nat /\ k \in Nat
  BY DEF InOne
<1>2. k - n \in Nat /\ n + (k - n) <= k /\ 0 + (k - n) <= k /\ p + 0 = p /\ 0 \in Nat
  BY <1>1
<1>3. InOne(p + n, k - n)
  BY <1>2, PartInOne
<1>4. InOne(p + 0, k - n)
  BY <1>2, PartInOne
<1>5. QED
  BY <1>2, <1>3, <1>4

LEMMA RefCutKeeps ==
  ASSUME A!ArrayAssumption, RefInv, ~ refsWrapped, NEW v \in Holders, NEW w \in Holders,
         NEW n \in Nat,
         A!Rest(v, w, n) \/ A!Front(v, w, n)
  PROVE  RefInv'
<1>1. InOne(refsData[w], refsSize[w])
  BY DEF RefInv
<1>2. refsData[w] # Null /\ n <= refsSize[w]
  BY DEF A!Rest, A!Front
<1>3. QED
  BY <1>1, <1>2, RestInOne, RefSetKeeps DEF A!Rest, A!Front

LEMMA RefTakeKeeps ==
  ASSUME A!ArrayAssumption, RefInv, ~ refsWrapped, NEW v \in Holders, NEW w \in Holders,
         NEW n \in Nat,
         A!TakeFront(v, w, n) \/ A!TakeBack(v, w, n)
  PROVE  RefInv'
<1>1. InOne(refsData[w], refsSize[w]) /\ refsSize[w] \in Nat
  BY DEF RefInv, RefTypes
<1>2. CASE A!Set(v, refsData[w], refsSize[w])
  BY <1>1, <1>2, RefSetKeeps
<1>3. CASE n < refsSize[w]
      /\ (A!Front(v, w, refsSize[w] - n) \/ A!Rest(v, w, refsSize[w] - n))
  <2>1. refsSize[w] - n \in Nat
    BY <1>1, <1>3
  <2>2. QED
    BY <1>3, <2>1, RefCutKeeps
<1>4. QED
  BY <1>2, <1>3 DEF A!TakeFront, A!TakeBack

LEMMA RefSliceKeeps ==
  ASSUME A!ArrayAssumption, RefInv, ~ refsWrapped, NEW v \in Holders, NEW w \in Holders,
         NEW n \in Lengths, NEW pos \in Lengths, A!Slice(v, w, pos, n),
         refsWrapped' = (refsCall'[1] = "slice" /\ refsCall'[4] + refsCall'[5] >= ViewWord)
  PROVE  RefInv'
<1>1. n \in Nat /\ pos \in Nat /\ refsCall' = <<"slice", v, w, pos, n>>
      /\ refsData[w] # Null
      /\ ViewWord \in Nat
  BY ArrayFacts DEF A!Slice
<1>2. CASE pos + n >= ViewWord
  <2>1. refsWrapped'
    BY <1>1, <1>2
  <2>2. refsData[w] \in Nat
    BY <1>1 DEF RefInv, RefTypes
  <2>3. RefTypes'
    BY <1>1, <2>2 DEF A!Slice, A!Set, RefInv, RefTypes
  <2>4. QED
    BY <2>1, <2>3 DEF RefInv
<1>3. CASE pos + n < ViewWord
  <2>1. A!Plus(pos, n) = pos + n
    <3>1. pos + n \in Nat
      BY <1>1
    <3>2. QED
      BY <1>1, <1>3, <3>1, Modulo DEF A!Plus
  <2>2. pos + n <= refsSize[w]
    BY <2>1 DEF A!Slice
  <2>3. InOne(refsData[w], refsSize[w])
    BY DEF RefInv
  <2>4. InOne(refsData[w] + pos, n)
    BY <1>1, <2>2, <2>3, PartInOne
  <2>5. QED
    BY <2>4, RefSetKeeps DEF A!Slice
<1>4. QED
  BY <1>1, <1>2, <1>3

\* What changes no view.
LEMMA RefStillKeeps ==
  ASSUME RefInv, ~ refsWrapped, UNCHANGED <<refsData, refsSize>>
  PROVE  RefInv'
  BY DEF RefInv, RefTypes

\* What a step does, for either type of view.
LEMMA RefStepCases ==
  ASSUME A!Step
  PROVE  \/ A!OwnerWrites
         \/ \E v \in Holders :
              \/ A!FromNull(v) \/ A!FromElement(v) \/ A!FromPointer(v) \/ A!FromArray(v)
              \/ A!Forwards(v) \/ A!Backwards(v)
              \/ \E n \in Lengths : A!At(v, n) \/ \E x \in Vals : A!WriteAt(v, n, x)
              \/ \E w \in Holders : A!Cut(v, w) \/ A!Compare(v, w)
              \/ \E a \in Arrays : A!CompareWith(v, a.first, a.size)
              \/ \E p \in A!Places : A!CompareWith(v, p, 1)
<1>1. CASE A!OwnerWrites
  BY <1>1
<1>2. ASSUME NEW v \in Holders,
             \/ A!ArrayRefStep(v) \/ A!ImmutArrayRefStep(v)
             \/ A!Forwards(v) \/ A!Backwards(v)
             \/ \E a \in Arrays : A!CompareWith(v, a.first, a.size)
             \/ \E p \in A!Places : A!CompareWith(v, p, 1)
      PROVE  \/ A!FromNull(v) \/ A!FromElement(v) \/ A!FromPointer(v) \/ A!FromArray(v)
             \/ A!Forwards(v) \/ A!Backwards(v)
             \/ \E n \in Lengths : A!At(v, n) \/ \E x \in Vals : A!WriteAt(v, n, x)
             \/ \E w \in Holders : A!Cut(v, w) \/ A!Compare(v, w)
             \/ \E a \in Arrays : A!CompareWith(v, a.first, a.size)
             \/ \E p \in A!Places : A!CompareWith(v, p, 1)
  BY <1>2 DEF A!ArrayRefStep, A!ImmutArrayRefStep, A!MakeArrayRef, A!MakeImmutArrayRef,
     A!ImmutFromElement, A!ImmutFromPointer, A!ImmutFromArray, A!ImmutAt, A!ImmutCut, A!ImmutCompare
<1>3. QED
  BY <1>1, <1>2 DEF A!Step

LEMMA NextRefInv == ASSUME A!ArrayAssumption, RefInv, [A!Next]_A!vars PROVE RefInv'
<1>1. CASE UNCHANGED A!vars
  BY <1>1 DEF A!vars, RefInv, RefTypes
<1>2. CASE A!Next
  <2>1. ~ refsWrapped
        /\ refsWrapped' = (refsCall'[1] = "slice" /\ refsCall'[4] + refsCall'[5] >= ViewWord)
    BY <1>2 DEF A!Next
  <2>2. CASE A!Return \/ A!OwnerWrites
    BY <2>1, <2>2, RefStillKeeps DEF A!Return, A!OwnerWrites, A!Answer
  <2>3. ASSUME NEW v \in Holders,
               A!FromNull(v) \/ A!FromElement(v) \/ A!FromPointer(v) \/ A!FromArray(v)
        PROVE  RefInv'
    <3>1. PICK p, n : InOne(p, n) /\ A!MadeOf(v, p, n)
      BY <2>3, MadeInOne
    <3>2. QED
      BY <2>1, <3>1, RefSetKeeps DEF A!MadeOf
  <2>4. ASSUME NEW v \in Holders, A!Forwards(v) \/ A!Backwards(v) PROVE RefInv'
    BY <2>1, <2>4, RefStillKeeps DEF A!Forwards, A!Backwards, A!Answer
  <2>5. ASSUME NEW v \in Holders, NEW n \in Lengths,
               A!At(v, n) \/ \E x \in Vals : A!WriteAt(v, n, x)
        PROVE  RefInv'
    BY <2>1, <2>5, RefStillKeeps DEF A!At, A!WriteAt, A!Answer
  <2>6. ASSUME NEW v \in Holders, NEW w \in Holders, A!Compare(v, w) PROVE RefInv'
    BY <2>1, <2>6, RefStillKeeps DEF A!Compare, A!Answer
  <2>7. ASSUME NEW v \in Holders, NEW p, NEW n, A!CompareWith(v, p, n) PROVE RefInv'
    BY <2>1, <2>7, RefStillKeeps DEF A!CompareWith, A!Answer
  <2>8. ASSUME NEW v \in Holders, NEW w \in Holders, A!Cut(v, w) PROVE RefInv'
    <3>1. PICK n \in Lengths :
            \/ A!DropFront(v, w, n) \/ A!DropBack(v, w, n)
            \/ A!TakeFront(v, w, n) \/ A!TakeBack(v, w, n)
            \/ \E pos \in Lengths : A!Slice(v, w, pos, n)
      BY <2>8 DEF A!Cut
    <3>2. n \in Nat
      BY ArrayFacts
    <3>3. CASE A!DropFront(v, w, n) \/ A!DropBack(v, w, n)
      BY <2>1, <3>2, <3>3, RefCutKeeps DEF A!DropFront, A!DropBack
    <3>4. CASE A!TakeFront(v, w, n) \/ A!TakeBack(v, w, n)
      BY <2>1, <3>2, <3>4, RefTakeKeeps
    <3>5. CASE \E pos \in Lengths : A!Slice(v, w, pos, n)
      BY <2>1, <3>5, RefSliceKeeps
    <3>6. QED
      BY <3>1, <3>3, <3>4, <3>5
  <2>9. CASE A!Step
    BY <2>2, <2>3, <2>4, <2>5, <2>6, <2>7, <2>8, <2>9, RefStepCases
  <2>10. QED
    BY <1>2, <2>2, <2>9 DEF A!Next
<1>3. QED
  BY <1>1, <1>2

LEMMA InitRefInv == ASSUME A!Init PROVE RefInv
  BY DEF A!Init, RefInv, RefTypes, InOne

-----------------------------------------------------------------------------
\* The places that a view (p, n) shows.
PlacesOf(p, n) == [i \in 1 .. n |-> p + i - 1]

LEMMA PlacesSeq ==
  ASSUME NEW p, NEW n \in Nat
  PROVE  /\ DOMAIN PlacesOf(p, n) = 1 .. n
         /\ Len(PlacesOf(p, n)) = n
         /\ \A i \in 1 .. n : PlacesOf(p, n)[i] = p + i - 1
         /\ n = 0 => PlacesOf(p, n) = <<>>
<1> DEFINE T == {p + i - 1 : i \in 1 .. n}
<1>1. PlacesOf(p, n) \in [1 .. n -> T]
  BY DEF PlacesOf
<1>2. PlacesOf(p, n) \in Seq(T)
  BY <1>1, SeqDef
<1>3. DOMAIN PlacesOf(p, n) = 1 .. n
  BY <1>1
<1>4. Len(PlacesOf(p, n)) = n
  BY <1>2, <1>3, LenProperties
<1>5. QED
  BY <1>3, <1>4 DEF PlacesOf

LEMMA PartIsPlaces ==
  ASSUME NEW p \in Nat, NEW k \in Nat, NEW n \in Nat, NEW pos \in Nat, pos + n <= k
  PROVE  A!Abstract!Part(PlacesOf(p, k), pos, n) = PlacesOf(p + pos, n)
<1> DEFINE T == {(p + pos) + i - 1 : i \in 1 .. n}
           f == PlacesOf(p + pos, n)
           s == PlacesOf(p, k)
<1>1. f \in [1 .. n -> T]
  BY DEF PlacesOf
<1>2. \A i \in 1 .. n : f[i] = s[pos + i]
  <2>1. \A i \in 1 .. n : pos + i \in 1 .. k /\ p + (pos + i) - 1 = (p + pos) + i - 1
    OBVIOUS
  <2>2. p + pos \in Nat
    OBVIOUS
  <2>3. QED
    BY <2>1, <2>2, PlacesSeq
<1> HIDE DEF f, s, T
<1>3. SubSeq(s, pos + 1, pos + n) = f
  BY <1>1, <1>2, PartIs
<1>4. QED
  BY <1>3 DEF f, s, A!Abstract!Part

LEMMA AllOfPlaces ==
  ASSUME NEW p, NEW n \in Nat
  PROVE  A!Abstract!Part(PlacesOf(p, n), 0, n) = PlacesOf(p, n)
<1> DEFINE T == {p + i - 1 : i \in 1 .. n}
           f == PlacesOf(p, n)
<1>1. f \in [1 .. n -> T]
  BY DEF PlacesOf
<1> DEFINE pos == 0
<1>2. pos \in Nat /\ \A i \in 1 .. n : f[i] = f[pos + i]
  OBVIOUS
<1> HIDE DEF f, T, pos
<1>3. SubSeq(f, pos + 1, pos + n) = f
  BY <1>1, <1>2, PartIs
<1>4. QED
  BY <1>3 DEF f, pos, A!Abstract!Part

-----------------------------------------------------------------------------
\* A step between two states in which all views lie in the arrays.
RefSound == A!ArrayAssumption /\ RefInv /\ ~ refsWrapped /\ RefInv' /\ ~ refsWrapped'

LEMMA RefShownIs ==
  ASSUME RefTypes, NEW v \in Holders
  PROVE  /\ A!Shown[v] = PlacesOf(refsData[v], refsSize[v])
         /\ refsSize[v] \in Nat /\ Len(A!Shown[v]) = refsSize[v]
<1>1. A!Shown[v] = PlacesOf(refsData[v], refsSize[v]) /\ refsSize[v] \in Nat
  BY DEF A!Shown, PlacesOf, RefTypes
<1>2. QED
  BY <1>1, PlacesSeq

LEMMA RefSetShows ==
  ASSUME RefSound, NEW v \in Holders, NEW p, NEW n, A!Set(v, p, n)
  PROVE  A!Shown' = [A!Shown EXCEPT ![v] = PlacesOf(p, n)]
<1>1. /\ refsData' = [refsData EXCEPT ![v] = p] /\ refsSize' = [refsSize EXCEPT ![v] = n]
  BY DEF A!Set
<1>2. refsData \in [Holders -> Nat \cup {Null}] /\ refsSize \in [Holders -> Nat]
  BY DEF RefSound, RefInv, RefTypes
<1>3. ASSUME NEW u \in Holders, u # v PROVE A!Shown'[u] = A!Shown[u]
  BY <1>1, <1>2, <1>3 DEF A!Shown
<1>4. A!Shown'[v] = PlacesOf(p, n)
  BY <1>1, <1>2 DEF A!Shown, PlacesOf
<1>5. A!Shown = [u \in Holders |-> A!Shown[u]] /\ A!Shown' = [u \in Holders |-> A!Shown'[u]]
  BY DEF A!Shown
<1>6. QED
  BY <1>3, <1>4, <1>5

\* The view that shows a part of another.
LEMMA RefPartShown ==
  ASSUME RefSound, NEW v \in Holders, NEW w \in Holders, NEW pos \in Nat, NEW n \in Nat,
         refsData[w] # Null, pos + n <= refsSize[w], A!Set(v, refsData[w] + pos, n)
  PROVE  A!Shown' = [A!Shown EXCEPT ![v] = A!Abstract!Part(A!Shown[w], pos, n)]
<1>1. refsData[w] \in Nat /\ refsSize[w] \in Nat
      /\ A!Shown[w] = PlacesOf(refsData[w], refsSize[w])
  BY RefShownIs DEF RefSound, RefInv, RefTypes
<1>2. A!Abstract!Part(PlacesOf(refsData[w], refsSize[w]), pos, n) =
          PlacesOf(refsData[w] + pos, n)
  <2>1. PICK p \in Nat, k \in Nat : p = refsData[w] /\ k = refsSize[w]
    BY <1>1
  <2>2. pos + n <= k
    BY <2>1
  <2>3. A!Abstract!Part(PlacesOf(p, k), pos, n) = PlacesOf(p + pos, n)
    BY <2>2, PartIsPlaces
  <2>4. QED
    BY <2>1, <2>3
<1>3. QED
  BY <1>1, <1>2, RefSetShows

LEMMA RefCutShown ==
  ASSUME RefSound, NEW v \in Holders, NEW w \in Holders, NEW n \in Nat
  PROVE  /\ A!Rest(v, w, n) =>
              /\ n <= Len(A!Shown[w])
              /\ A!Shown' = [A!Shown EXCEPT ![v] = A!Abstract!LastOf(A!Shown[w], refsSize[w] - n)]
         /\ A!Front(v, w, n) =>
              /\ n <= Len(A!Shown[w])
              /\ A!Shown' = [A!Shown EXCEPT ![v] = A!Abstract!FirstOf(A!Shown[w], refsSize[w] - n)]
<1> SUFFICES ASSUME A!Rest(v, w, n) \/ A!Front(v, w, n) PROVE
         /\ A!Rest(v, w, n) =>
              /\ n <= Len(A!Shown[w])
              /\ A!Shown' = [A!Shown EXCEPT ![v] = A!Abstract!LastOf(A!Shown[w], refsSize[w] - n)]
         /\ A!Front(v, w, n) =>
              /\ n <= Len(A!Shown[w])
              /\ A!Shown' = [A!Shown EXCEPT ![v] = A!Abstract!FirstOf(A!Shown[w], refsSize[w] - n)]
  OBVIOUS
<1>0. refsSize[w] \in Nat /\ n <= refsSize[w] /\ refsData[w] # Null /\ refsData[w] \in Nat
  BY DEF A!Rest, A!Front, RefSound, RefInv, RefTypes
<1>1. Len(A!Shown[w]) = refsSize[w]
  BY RefShownIs DEF RefSound, RefInv
<1>2. refsSize[w] - n \in Nat /\ n + (refsSize[w] - n) <= refsSize[w]
      /\ 0 + (refsSize[w] - n) <= refsSize[w]
      /\ refsSize[w] - (refsSize[w] - n) = n /\ refsData[w] + 0 = refsData[w]
  BY <1>0
<1>3. A!Abstract!Least(refsSize[w] - n, refsSize[w]) = refsSize[w] - n
  BY <1>0 DEF A!Abstract!Least
<1>4. A!Abstract!LastOf(A!Shown[w], refsSize[w] - n) =
          A!Abstract!Part(A!Shown[w], n, refsSize[w] - n)
  BY <1>1, <1>2, <1>3 DEF A!Abstract!LastOf
<1>5. A!Abstract!FirstOf(A!Shown[w], refsSize[w] - n) =
          A!Abstract!Part(A!Shown[w], 0, refsSize[w] - n)
  BY <1>1, <1>3 DEF A!Abstract!FirstOf
<1>6. A!Rest(v, w, n) =>
          A!Shown' = [A!Shown EXCEPT ![v] = A!Abstract!Part(A!Shown[w], n, refsSize[w] - n)]
  <2> SUFFICES ASSUME A!Rest(v, w, n)
               PROVE  A!Shown' = [A!Shown EXCEPT ![v] = A!Abstract!Part(A!Shown[w], n, refsSize[w] - n)]
    OBVIOUS
  <2>1. PICK m \in Nat : m = refsSize[w] - n
    BY <1>2
  <2>2. n + m <= refsSize[w] /\ n \in Nat
    BY <1>2, <2>1
  <2>3. A!Set(v, refsData[w] + n, m)
    BY <1>2, <2>1 DEF A!Rest
  <2>4. A!Shown' = [A!Shown EXCEPT ![v] = A!Abstract!Part(A!Shown[w], n, m)]
    BY <1>0, <2>2, <2>3, RefPartShown
  <2>5. QED
    BY <2>1, <2>4
<1>7. A!Front(v, w, n) =>
          A!Shown' = [A!Shown EXCEPT ![v] = A!Abstract!Part(A!Shown[w], 0, refsSize[w] - n)]
  <2> SUFFICES ASSUME A!Front(v, w, n)
               PROVE  A!Shown' = [A!Shown EXCEPT ![v] = A!Abstract!Part(A!Shown[w], 0, refsSize[w] - n)]
    OBVIOUS
  <2>1. PICK m \in Nat : m = refsSize[w] - n
    BY <1>2
  <2>2. 0 + m <= refsSize[w] /\ 0 \in Nat
    BY <1>2, <2>1
  <2>3. A!Set(v, refsData[w] + 0, m)
    BY <1>2, <2>1 DEF A!Front
  <2>4. A!Shown' = [A!Shown EXCEPT ![v] = A!Abstract!Part(A!Shown[w], 0, m)]
    BY <1>0, <2>2, <2>3, RefPartShown
  <2>5. QED
    BY <2>1, <2>4
<1>8. QED
  BY <1>0, <1>1, <1>4, <1>5, <1>6, <1>7

LEMMA RefWholeShown ==
  ASSUME RefSound, NEW v \in Holders, NEW w \in Holders, NEW n \in Nat, n >= refsSize[w],
         A!Set(v, refsData[w], refsSize[w])
  PROVE  /\ A!Shown' = [A!Shown EXCEPT ![v] = A!Abstract!FirstOf(A!Shown[w], n)]
         /\ A!Shown' = [A!Shown EXCEPT ![v] = A!Abstract!LastOf(A!Shown[w], n)]
<1>1. A!Shown[w] = PlacesOf(refsData[w], refsSize[w]) /\ refsSize[w] \in Nat
      /\ Len(A!Shown[w]) = refsSize[w]
  BY RefShownIs DEF RefSound, RefInv
<1>2. A!Abstract!Least(n, Len(A!Shown[w])) = refsSize[w]
  BY <1>1 DEF A!Abstract!Least
<1>3. A!Abstract!Part(A!Shown[w], 0, refsSize[w]) = PlacesOf(refsData[w], refsSize[w])
  BY <1>1, AllOfPlaces
<1>4. A!Shown' = [A!Shown EXCEPT ![v] = PlacesOf(refsData[w], refsSize[w])]
  BY RefSetShows
<1>5. Len(A!Shown[w]) - refsSize[w] = 0
  BY <1>1
<1>6. QED
  BY <1>2, <1>3, <1>4, <1>5 DEF A!Abstract!FirstOf, A!Abstract!LastOf

-----------------------------------------------------------------------------
\* A slice that was made ends before size_t does.
NoWrap == refsCall[1] = "slice" => ~ (refsCall[4] + refsCall[5] >= ViewWord)

LEMMA RefCutStep ==
  ASSUME RefSound, NEW v \in Holders, NEW w \in Holders, A!Cut(v, w), NoWrap'
  PROVE  refsCall'[1] \notin {"equal", "copied"} /\ UNCHANGED elements /\ A!Abstract!Next
<1>1. PICK n \in Lengths :
        \/ A!DropFront(v, w, n) \/ A!DropBack(v, w, n)
        \/ A!TakeFront(v, w, n) \/ A!TakeBack(v, w, n)
        \/ \E pos \in Lengths : A!Slice(v, w, pos, n)
  BY DEF A!Cut
<1>2. n \in Nat /\ refsSize[w] \in Nat /\ Len(A!Shown[w]) = refsSize[w] /\ ViewWord \in Nat
  BY ArrayFacts, RefShownIs DEF RefSound, RefInv
<1>3. UNCHANGED elements /\ refsCall'[1] \notin {"equal", "copied"}
  <2>1. UNCHANGED elements
    BY <1>1 DEF A!DropFront, A!DropBack, A!TakeFront, A!TakeBack, A!Slice, A!Rest, A!Front, A!Set
  <2>2. refsCall'[1] \in {"front dropped", "back dropped", "front taken", "back taken", "slice"}
    <3>1. ASSUME A!DropFront(v, w, n) PROVE refsCall'[1] = "front dropped"
      <4>1. refsCall' = <<"front dropped", v, w, n>>
        BY <3>1 DEF A!DropFront
      <4>2. QED
        BY <4>1
    <3>2. ASSUME A!DropBack(v, w, n) PROVE refsCall'[1] = "back dropped"
      <4>1. refsCall' = <<"back dropped", v, w, n>>
        BY <3>2 DEF A!DropBack
      <4>2. QED
        BY <4>1
    <3>3. ASSUME A!TakeFront(v, w, n) PROVE refsCall'[1] = "front taken"
      <4>1. refsCall' = <<"front taken", v, w, n>>
        BY <3>3 DEF A!TakeFront
      <4>2. QED
        BY <4>1
    <3>4. ASSUME A!TakeBack(v, w, n) PROVE refsCall'[1] = "back taken"
      <4>1. refsCall' = <<"back taken", v, w, n>>
        BY <3>4 DEF A!TakeBack
      <4>2. QED
        BY <4>1
    <3>5. ASSUME NEW pos \in Lengths, A!Slice(v, w, pos, n) PROVE refsCall'[1] = "slice"
      BY <3>5 DEF A!Slice
    <3>6. QED
      BY <1>1, <3>1, <3>2, <3>3, <3>4, <3>5
  <2>3. QED
    BY <2>1, <2>2
<1>4. CASE A!DropFront(v, w, n) \/ A!DropBack(v, w, n)
  <2>1. \/ /\ refsCall' = <<"front dropped", v, w, n>> /\ n <= Len(A!Shown[w])
           /\ A!Shown' = [A!Shown EXCEPT ![v] = A!Abstract!LastOf(A!Shown[w], refsSize[w] - n)]
        \/ /\ refsCall' = <<"back dropped", v, w, n>> /\ n <= Len(A!Shown[w])
           /\ A!Shown' = [A!Shown EXCEPT ![v] = A!Abstract!FirstOf(A!Shown[w], refsSize[w] - n)]
    <3>1. /\ A!Rest(v, w, n) =>
               /\ n <= Len(A!Shown[w])
               /\ A!Shown' = [A!Shown EXCEPT ![v] = A!Abstract!LastOf(A!Shown[w], refsSize[w] - n)]
          /\ A!Front(v, w, n) =>
               /\ n <= Len(A!Shown[w])
               /\ A!Shown' = [A!Shown EXCEPT ![v] = A!Abstract!FirstOf(A!Shown[w], refsSize[w] - n)]
      BY <1>2, RefCutShown
    <3>2. \/ refsCall' = <<"front dropped", v, w, n>> /\ A!Rest(v, w, n)
          \/ refsCall' = <<"back dropped", v, w, n>> /\ A!Front(v, w, n)
      BY <1>4 DEF A!DropFront, A!DropBack
    <3>3. QED
      BY <3>1, <3>2
  <2>3. A!Abstract!Drop(v, w, n)
    BY <1>2, <2>1 DEF A!Abstract!Drop, A!Abstract!Becomes
  <2>2. QED
    BY <1>3, <2>3 DEF A!Abstract!Next
<1>5. CASE A!TakeFront(v, w, n) \/ A!TakeBack(v, w, n)
  <2>1. CASE A!Set(v, refsData[w], refsSize[w]) /\ n >= refsSize[w]
    <3>1. A!Abstract!Take(v, w, n)
      BY <1>2, <1>5, <2>1, RefWholeShown
      DEF A!Abstract!Take, A!Abstract!Becomes, A!TakeFront, A!TakeBack
    <3>2. QED
      BY <1>3, <3>1 DEF A!Abstract!Next
  <2>2. CASE ~ (A!Set(v, refsData[w], refsSize[w]) /\ n >= refsSize[w])
    <3> DEFINE m == refsSize[w] - n
    <3>1. /\ n < refsSize[w]
          /\ \/ A!TakeFront(v, w, n) /\ A!Front(v, w, m)
             \/ A!TakeBack(v, w, n) /\ A!Rest(v, w, m)
      <4>1. CASE A!TakeFront(v, w, n)
        BY <2>2, <4>1 DEF A!TakeFront
      <4>2. CASE A!TakeBack(v, w, n)
        BY <2>2, <4>2 DEF A!TakeBack
      <4>3. QED
        BY <1>5, <4>1, <4>2
    <3>2. m \in Nat /\ refsSize[w] - m = n
      BY <1>2, <3>1
    <3> HIDE DEF m
    <3>3. /\ A!Rest(v, w, m) =>
              A!Shown' = [A!Shown EXCEPT ![v] = A!Abstract!LastOf(A!Shown[w], n)]
          /\ A!Front(v, w, m) =>
                 A!Shown' = [A!Shown EXCEPT ![v] = A!Abstract!FirstOf(A!Shown[w], n)]
      BY <3>2, RefCutShown
    <3>4. A!Abstract!Take(v, w, n)
      BY <3>1, <3>3 DEF A!Abstract!Take, A!Abstract!Becomes, A!TakeFront, A!TakeBack
    <3>5. QED
      BY <1>3, <3>4 DEF A!Abstract!Next
  <2>3. QED
    BY <2>1, <2>2
<1>6. ASSUME NEW pos \in Lengths, A!Slice(v, w, pos, n) PROVE A!Abstract!Next
  <2>1. pos \in Nat
    BY ArrayFacts DEF RefSound
  <2>2. refsCall'[1] = "slice" /\ refsCall'[4] = pos /\ refsCall'[5] = n
    BY <1>6 DEF A!Slice
  <2>3. ~ (pos + n >= ViewWord)
    BY <2>2 DEF NoWrap
  <2>4. pos + n < ViewWord
    BY <1>2, <2>1, <2>3
  <2>5. A!Plus(pos, n) = pos + n
    <3>1. pos + n \in Nat
      BY <1>2, <2>1
    <3>2. QED
      BY <1>2, <2>4, <3>1, Modulo DEF A!Plus
  <2>6. refsData[w] # Null /\ pos + n <= refsSize[w] /\ A!Set(v, refsData[w] + pos, n)
        /\ refsCall' = <<"slice", v, w, pos, n>>
    BY <1>6, <2>5 DEF A!Slice
  <2>7. A!Abstract!Slice(v, w, pos, n)
    BY <1>2, <2>1, <2>6, RefPartShown DEF A!Abstract!Slice, A!Abstract!Becomes
  <2>8. QED
    BY <2>7 DEF A!Abstract!Next
<1>7. QED
  BY <1>1, <1>3, <1>4, <1>5, <1>6

LEMMA RefMadeStep ==
  ASSUME RefSound, NEW v \in Holders,
         A!FromNull(v) \/ A!FromElement(v) \/ A!FromPointer(v) \/ A!FromArray(v)
  PROVE  refsCall'[1] \notin {"equal", "copied"} /\ UNCHANGED elements /\ A!Abstract!Next
<1>1. PICK p, n : InOne(p, n) /\ A!MadeOf(v, p, n)
      /\ (n = 0 \/ (p \in A!Places /\ n \in 0 .. ViewWord - 1))
  BY MadeInOne DEF RefSound
<1>2. refsCall' = <<"made", v>> /\ UNCHANGED elements
      /\ A!Shown' = [A!Shown EXCEPT ![v] = PlacesOf(p, n)]
  BY <1>1, RefSetShows DEF A!MadeOf, A!Set
<1>3. PlacesOf(p, n) \in {[i \in 1 .. m |-> q + i - 1] : q \in A!Places, m \in 0 .. ViewWord - 1}
                            \cup {<<>>}
  <2>1. CASE n = 0
    BY <2>1, PlacesSeq
  <2>2. CASE p \in A!Places /\ n \in 0 .. ViewWord - 1
    BY <2>2 DEF PlacesOf
  <2>3. QED
    BY <1>1, <2>1, <2>2
<1>4. A!Abstract!Make(v, PlacesOf(p, n))
  BY <1>2 DEF A!Abstract!Make, A!Abstract!Becomes
<1>5. QED
  BY <1>2, <1>3, <1>4 DEF A!Abstract!Next

-----------------------------------------------------------------------------
\* The calls that leave the views alone.

LEMMA RefStillShown ==
  ASSUME UNCHANGED <<refsData, refsSize>> PROVE UNCHANGED A!Shown
  BY DEF A!Shown

LEMMA ElementsAre ==
  ASSUME RefTypes, NEW v \in Holders
  PROVE  /\ A!Elements(v) = [i \in 1 .. refsSize[v] |-> elements[refsData[v] + i - 1]]
         /\ refsSize[v] \in Nat
<1>1. refsSize[v] \in Nat /\ A!Shown[v] = PlacesOf(refsData[v], refsSize[v])
  BY RefShownIs
<1>2. DOMAIN A!Shown[v] = 1 .. refsSize[v]
      /\ \A i \in 1 .. refsSize[v] : A!Shown[v][i] = refsData[v] + i - 1
  BY <1>1, PlacesSeq
<1>3. QED
  BY <1>1, <1>2 DEF A!Elements

\* isEqual compares what is shown.
LEMMA EqualMeans ==
  ASSUME RefInv, ~ refsWrapped, NEW v \in Holders, NEW p, NEW n \in Nat, p \in Nat \/ n = 0
  PROVE  A!Equal(v, p, n) <=> A!Elements(v) = [i \in 1 .. n |-> elements[p + i - 1]]
<1>1. A!Elements(v) = [i \in 1 .. refsSize[v] |-> elements[refsData[v] + i - 1]]
      /\ refsSize[v] \in Nat
      /\ InOne(refsData[v], refsSize[v])
  BY ElementsAre DEF RefInv
<1>2. ASSUME A!Equal(v, p, n) PROVE A!Elements(v) = [i \in 1 .. n |-> elements[p + i - 1]]
  <2>1. refsSize[v] = n
    BY <1>2 DEF A!Equal
  <2>2. ASSUME NEW i \in 1 .. n PROVE elements[refsData[v] + i - 1] = elements[p + i - 1]
    <3>1. i - 1 \in 0 .. n - 1
      OBVIOUS
    <3>2. elements[refsData[v] + (i - 1)] = elements[p + (i - 1)]
      BY <1>2, <3>1 DEF A!Equal
    <3>3. p \in Nat /\ refsData[v] \in Nat
      BY <1>1, <2>1 DEF InOne
    <3>4. refsData[v] + (i - 1) = refsData[v] + i - 1 /\ p + (i - 1) = p + i - 1
      BY <3>3
    <3>5. QED
      BY <3>2, <3>4
  <2>3. QED
    BY <1>1, <2>1, <2>2
<1>3. ASSUME A!Elements(v) = [i \in 1 .. n |-> elements[p + i - 1]] PROVE A!Equal(v, p, n)
  <2>1. DOMAIN A!Elements(v) = 1 .. n /\ DOMAIN A!Elements(v) = 1 .. refsSize[v]
    BY <1>1, <1>3
  <2>2. refsSize[v] = n
    BY <1>1, <2>1
  <2>3. ASSUME NEW i \in 0 .. n - 1 PROVE elements[refsData[v] + i] = elements[p + i]
    <3>1. i + 1 \in 1 .. n
      OBVIOUS
    <3>2. A!Elements(v)[i + 1] = elements[refsData[v] + (i + 1) - 1]
          /\ A!Elements(v)[i + 1] = elements[p + (i + 1) - 1]
      BY <1>1, <1>3, <2>2, <3>1
    <3>3. p \in Nat /\ refsData[v] \in Nat
      BY <1>1, <2>2 DEF InOne
    <3>4. refsData[v] + (i + 1) - 1 = refsData[v] + i /\ p + (i + 1) - 1 = p + i
      BY <3>3
    <3>5. QED
      BY <3>2, <3>4
  <2>4. QED
    BY <2>2, <2>3 DEF A!Equal
<1>4. QED
  BY <1>2, <1>3

LEMMA RefLooksStep ==
  ASSUME RefSound, NEW v \in Holders,
         \/ A!Forwards(v)
         \/ \E n \in Lengths, x \in Vals : A!WriteAt(v, n, x)
         \/ \E w \in Holders : A!Compare(v, w)
         \/ \E p, n \in Nat : A!CompareWith(v, p, n)
  PROVE  A!ElementStep
<1>1. UNCHANGED A!Shown
  BY RefStillShown DEF A!Forwards, A!WriteAt, A!Compare, A!CompareWith, A!Answer
<1>2. RefTypes /\ RefInv /\ ~ refsWrapped
  BY DEF RefSound, RefInv
<1>3. CASE A!Forwards(v)
  <2>1. UNCHANGED elements /\ refsCall' = <<"copied", v, A!Elements(v)>>
    BY <1>2, <1>3, ElementsAre DEF A!Forwards, A!Answer
  <2>2. QED
    BY <1>1, <2>1 DEF A!ElementStep
<1>4. ASSUME NEW n \in Lengths, NEW x \in Vals, A!WriteAt(v, n, x) PROVE A!ElementStep
  <2>1. n \in Nat /\ n < refsSize[v] /\ refsCall' = <<"written", v, n, x>>
        /\ elements' = [elements EXCEPT ![refsData[v] + n] = x]
    BY <1>4, ArrayFacts DEF A!WriteAt, A!Answer, RefSound
  <2>2. A!Shown[v] = PlacesOf(refsData[v], refsSize[v]) /\ refsSize[v] \in Nat
        /\ InOne(refsData[v], refsSize[v])
    BY <1>2, RefShownIs DEF RefInv
  <2>3. refsData[v] \in Nat
    BY <2>1, <2>2 DEF InOne
  <2>4. n + 1 \in 1 .. refsSize[v] /\ refsData[v] + (n + 1) - 1 = refsData[v] + n
    BY <2>1, <2>2, <2>3
  <2>5. A!Shown[v][n + 1] = refsData[v] + n
    BY <2>2, <2>4, PlacesSeq
  <2>6. refsCall'[1] = "written" /\ refsCall'[2] = v /\ refsCall'[3] = n /\ refsCall'[4] = x
    BY <2>1
  <2>7. QED
    BY <1>1, <2>1, <2>5, <2>6 DEF A!ElementStep
<1>5. ASSUME NEW w \in Holders, A!Compare(v, w) PROVE A!ElementStep
  <2>1. UNCHANGED elements
        /\ refsCall' = <<"equal", v, w, A!Equal(v, refsData[w], refsSize[w])>>
    BY <1>5 DEF A!Compare, A!Answer
  <2>2. refsSize[w] \in Nat /\ (refsData[w] \in Nat \/ refsSize[w] = 0)
        /\ A!Elements(w) = [i \in 1 .. refsSize[w] |-> elements[refsData[w] + i - 1]]
    BY <1>2, ElementsAre DEF RefInv, InOne
  <2>3. A!Equal(v, refsData[w], refsSize[w]) <=> A!Elements(v) = A!Elements(w)
    <3>1. PICK p, n : p = refsData[w] /\ n = refsSize[w]
      OBVIOUS
    <3>2. n \in Nat /\ (p \in Nat \/ n = 0)
      BY <2>2, <3>1
    <3>3. A!Equal(v, p, n) <=> A!Elements(v) = [i \in 1 .. n |-> elements[p + i - 1]]
      BY <1>2, <3>2, EqualMeans
    <3>4. A!Elements(w) = [i \in 1 .. n |-> elements[p + i - 1]]
      BY <2>2, <3>1
    <3>5. QED
      BY <3>1, <3>3, <3>4
  <2>4. refsCall'[1] = "equal" /\ refsCall'[2] = v /\ refsCall'[3] = w
        /\ refsCall'[4] = A!Equal(v, refsData[w], refsSize[w])
    BY <2>1
  <2>5. QED
    BY <1>1, <2>1, <2>3, <2>4 DEF A!ElementStep
<1>6. ASSUME NEW p \in Nat, NEW n \in Nat, A!CompareWith(v, p, n) PROVE A!ElementStep
  <2>1. UNCHANGED elements /\ refsCall' = <<"equal to", v, p, n, A!Equal(v, p, n)>>
    BY <1>6 DEF A!CompareWith, A!Answer
  <2>2. A!Equal(v, p, n) <=> A!Elements(v) = [i \in 1 .. n |-> elements[p + i - 1]]
    BY <1>2, EqualMeans
  <2>3. refsCall'[1] = "equal to" /\ refsCall'[2] = v /\ refsCall'[3] = p
        /\ refsCall'[4] = n
        /\ refsCall'[5] = A!Equal(v, p, n)
    BY <2>1
  <2>4. QED
    BY <1>1, <2>1, <2>2, <2>3 DEF A!ElementStep
<1>7. QED
  BY <1>3, <1>4, <1>5, <1>6

LEMMA RefAtStep ==
  ASSUME RefSound, NEW v \in Holders, NEW n \in Lengths, A!At(v, n)
  PROVE  refsCall'[1] \notin {"equal", "copied"} /\ UNCHANGED elements /\ A!Abstract!Next
<1>1. n \in Nat /\ n < refsSize[v] /\ refsCall' = <<"at", v, n, refsData[v] + n>>
      /\ UNCHANGED elements
  BY ArrayFacts DEF A!At, A!Answer, RefSound
<1>2. UNCHANGED A!Shown
  BY RefStillShown DEF A!At, A!Answer
<1>3. A!Shown[v] = PlacesOf(refsData[v], refsSize[v]) /\ refsSize[v] \in Nat
      /\ Len(A!Shown[v]) = refsSize[v]
      /\ InOne(refsData[v], refsSize[v])
  BY RefShownIs DEF RefSound, RefInv
<1>4. refsData[v] \in Nat
  BY <1>1, <1>3 DEF InOne
<1>5. n + 1 \in 1 .. refsSize[v] /\ refsData[v] + (n + 1) - 1 = refsData[v] + n
  BY <1>1, <1>3, <1>4
<1>6. A!Shown[v][n + 1] = refsData[v] + n
  BY <1>3, <1>5, PlacesSeq
<1>7. A!Abstract!At(v, n)
  BY <1>1, <1>2, <1>3, <1>6 DEF A!Abstract!At
<1>8. QED
  BY <1>1, <1>7 DEF A!Abstract!Next

LEMMA RefBackStep ==
  ASSUME RefSound, NEW v \in Holders, A!Backwards(v), ~ A!Departs'
  PROVE  refsCall'[1] \notin {"equal", "copied"} /\ UNCHANGED elements /\ A!Abstract!Next
<1>1. UNCHANGED A!Shown /\ UNCHANGED refsSize /\ UNCHANGED elements
  BY RefStillShown DEF A!Backwards, A!Answer
<1>2. A!Shown[v] = PlacesOf(refsData[v], refsSize[v]) /\ refsSize[v] \in Nat
  BY RefShownIs DEF RefSound, RefInv
<1>3. refsCall'[1] = "backwards" /\ refsCall'[2] = v
  BY DEF A!Backwards, A!Answer
<1>4. ~ (refsSize[v] > 0)
  BY <1>1, <1>3 DEF A!Departs
<1>5. refsSize[v] = 0
  BY <1>2, <1>4
<1>6. refsCall' = <<"backwards", v, <<>> >>
  BY <1>5 DEF A!Backwards, A!Answer
<1>7. A!Shown[v] = <<>>
  BY <1>2, <1>5, PlacesSeq
<1>8. A!Abstract!Reverse(<<>>) = <<>>
  BY DEF A!Abstract!Reverse
<1>9. A!Abstract!Backwards(v)
  BY <1>1, <1>6, <1>7, <1>8 DEF A!Abstract!Backwards
<1>10. QED
  BY <1>1, <1>3, <1>9 DEF A!Abstract!Next

\* Every step of the program on the views of arrays is one of views of
\* places, or reads and writes what stands in the places, or departs.
LEMMA StepIsPlaces ==
  ASSUME A!ArrayAssumption, RefInv, RefInv', A!Next
  PROVE  A!ArrayStep
<1>1. CASE A!Departs'
  BY <1>1 DEF A!ArrayStep
<1>2. CASE ~ A!Departs'
  <2>1. RefSound /\ refsWrapped' = (refsCall'[1] = "slice" /\ refsCall'[4] + refsCall'[5] >= ViewWord)
    BY <1>2 DEF RefSound, A!Next, A!Departs
  <2>2. CASE A!Return \/ A!OwnerWrites
    <3>1. refsCall'[1] = "none" /\ UNCHANGED A!Shown
      BY <2>2, RefStillShown DEF A!Return, A!OwnerWrites, A!Answer
    <3>2. QED
      BY <3>1 DEF A!ElementStep, A!ArrayStep
  <2>3. ASSUME NEW v \in Holders,
               \/ A!FromNull(v) \/ A!FromElement(v) \/ A!FromPointer(v) \/ A!FromArray(v)
               \/ A!Backwards(v) \/ (\E n \in Lengths : A!At(v, n))
               \/ \E w \in Holders : A!Cut(v, w)
        PROVE  A!ArrayStep
    <3>1. NoWrap'
      BY <2>1 DEF RefSound, NoWrap
    <3>2. refsCall'[1] \notin {"equal", "copied"} /\ UNCHANGED elements /\ A!Abstract!Next
      BY <1>2, <2>1, <2>3, <3>1, RefMadeStep, RefBackStep, RefAtStep, RefCutStep
    <3>3. QED
      BY <3>2 DEF A!ArrayStep
  <2>4. ASSUME NEW v \in Holders,
               \/ A!Forwards(v)
               \/ \E n \in Lengths, x \in Vals : A!WriteAt(v, n, x)
               \/ \E w \in Holders : A!Compare(v, w)
               \/ \E p, n \in Nat : A!CompareWith(v, p, n)
        PROVE  A!ArrayStep
    BY <2>1, <2>4, RefLooksStep DEF A!ArrayStep
  <2>5. /\ \A a \in Arrays : a.first \in Nat /\ a.size \in Nat
        /\ \A p \in A!Places : p \in Nat
        /\ 1 \in Nat
    <3>1. \A a \in Arrays : a.first \in Nat /\ a.size \in Nat /\ A!Last(a) \in Int
      BY <2>1, ArrayFacts DEF RefSound
    <3>2. QED
      BY <3>1 DEF A!Places
  <2>6. CASE A!Step
    BY <2>2, <2>3, <2>4, <2>5, <2>6, RefStepCases
  <2>7. QED
    BY <2>2, <2>6 DEF A!Next
<1>3. QED
  BY <1>1, <1>2

-----------------------------------------------------------------------------
(* Blocks: room for the elements, where the counts fit.                     *)

\* The counts for which is_small_alloc is right about the size too, and the
\* alignments that a type that is not overaligned asks for.
CountsFit ==
  \A T \in Types :
    M!NotOveraligned(T) =>
      /\ T.Align <= M!mi_align_minimum
      /\ \A n \in Counts(T) : M!IsSmallAlloc(T, n) => T.sizeof * n <= M!smallAllocMax

AllocInv == block = [s \in Holders |-> block[s]] /\ M!EnoughRoom

LEMMA CountFits ==
  ASSUME NEW a \in Nat \ {0}, NEW w \in Nat, NEW n \in 0 .. w \div a
  PROVE  a * n \in 0 .. w
<1>1. PICK q \in Nat : q = w \div a
  OBVIOUS
<1>2. a * q <= w
  BY <1>1
<1>3. n \in Nat /\ n <= q
  BY <1>1
<1>4. a * n <= a * q
  BY <1>3
<1>5. a * n \in Nat
  BY <1>3
<1>6. QED
  BY <1>2, <1>3, <1>4, <1>5

LEMMA SizeIs ==
  ASSUME M!MimAllocAssumption, NEW T \in Types, NEW n \in Counts(T)
  PROVE  M!Size(T, n) = T.sizeof * n /\ T.sizeof * n \in Nat
<1>1. T.sizeof \in Nat \ {0} /\ AllocWord \in Nat \ {0}
      /\ n \in 0 .. (AllocWord - 1) \div T.sizeof
  BY DEF M!MimAllocAssumption
<1>2. PICK w \in Nat : w = AllocWord - 1
  BY <1>1
<1>3. T.sizeof * n \in 0 .. w
  BY <1>1, <1>2, CountFits
<1>4. PICK m \in Nat : m = T.sizeof * n
  BY <1>3
<1>5. m < AllocWord
  BY <1>1, <1>2, <1>3, <1>4
<1>6. m % AllocWord = m
  BY <1>1, <1>5, Modulo
<1>7. QED
  BY <1>4, <1>6 DEF M!Size

LEMMA BlocksFit ==
  ASSUME M!MimAllocAssumption, CountsFit, NEW T \in Types, NEW n \in Counts(T),
         NEW b \in M!Blocks(T, n)
  PROVE  /\ b.usable >= n * T.sizeof
         /\ b.align >= T.Align
<1>1. M!Size(T, n) = T.sizeof * n /\ T.sizeof * n \in Nat /\ T.Align \in Nat
  BY SizeIs DEF M!MimAllocAssumption
<1>2. PICK m \in Nat : m = T.sizeof * n
  BY <1>1
<1>3. n * T.sizeof = m
  <2>1. T.sizeof \in Nat /\ n \in 0 .. (AllocWord - 1) \div T.sizeof
    BY DEF M!MimAllocAssumption
  <2>2. QED
    BY <1>2, <2>1
<1>4. CASE ~ M!NotOveraligned(T)
  <2>1. b \in M!mi_aligned_alloc(T.Align, m)
    BY <1>1, <1>2, <1>4 DEF M!Blocks
  <2>3. \E ok \in {x \in {TRUE} : m <= M!PTRDIFF_MAX} :
            b = [usable |-> m, align |-> T.Align]
    BY <2>1 DEF M!mi_aligned_alloc
  <2>4. b.usable = m /\ b.align = T.Align
    BY <2>3
  <2>2. QED
    BY <1>1, <1>3, <2>4
<1>5. CASE M!NotOveraligned(T)
  <2>1. T.Align <= 8 /\ (M!IsSmallAlloc(T, n) => m <= 1024)
    BY <1>2, <1>5 DEF CountsFit, M!mi_align_minimum, M!smallAllocMax, M!mi_small_count
  <2>2. b \in M!mi_malloc(m)
    BY <1>1, <1>2, <1>5, <2>1 DEF M!Blocks, M!mi_malloc_small
  <2>5. \E ok \in {x \in {TRUE} : m <= M!PTRDIFF_MAX} :
          b = [usable |-> m, align |-> IF m > 8 THEN 16 ELSE 8]
    BY <2>2 DEF M!mi_malloc
  <2>3. b.usable = m /\ b.align \in {8, 16}
    BY <2>5
  <2>4. QED
    BY <1>1, <1>3, <2>1, <2>3
<1>6. QED
  BY <1>4, <1>5

LEMMA InitAlloc == ASSUME M!Init PROVE AllocInv
  BY DEF M!Init, AllocInv, M!EnoughRoom

LEMMA NextAlloc ==
  ASSUME M!MimAllocAssumption, CountsFit, AllocInv, [M!Next]_M!vars
  PROVE  AllocInv'
<1>1. CASE UNCHANGED M!vars
  BY <1>1 DEF M!vars, AllocInv, M!EnoughRoom
<1>2. ASSUME NEW s \in Holders, M!Deallocate(s) PROVE AllocInv'
  <2>1. block' = [block EXCEPT ![s] = Null]
    BY <1>2 DEF M!Deallocate
  <2>2. block' = [r \in Holders |-> block'[r]]
    BY <2>1 DEF AllocInv
  <2>3. \A r \in Holders : block'[r] = IF r = s THEN Null ELSE block[r]
    BY <2>1 DEF AllocInv
  <2>4. M!EnoughRoom'
    BY <2>3 DEF AllocInv, M!EnoughRoom
  <2>5. QED
    BY <2>2, <2>4 DEF AllocInv
<1>3. ASSUME NEW s \in Holders, NEW T \in Types, NEW n \in Counts(T), M!Allocate(s, T, n)
      PROVE  AllocInv'
  <2>1. PICK b \in M!Blocks(T, n) :
          block' = [block EXCEPT ![s] = [type |-> T, count |-> n,
                                       usable |-> b.usable, align |-> b.align]]
    BY <1>3 DEF M!Allocate
  <2> DEFINE new == [type |-> T, count |-> n, usable |-> b.usable, align |-> b.align]
  <2>2. new.usable >= new.count * new.type.sizeof /\ new.align >= new.type.Align
    BY BlocksFit
  <2>3. block' = [block EXCEPT ![s] = new]
    BY <2>1
  <2> HIDE DEF new
  <2>4. block' = [r \in Holders |-> block'[r]]
    BY <2>3 DEF AllocInv
  <2>5. \A r \in Holders : block'[r] = IF r = s THEN new ELSE block[r]
    BY <2>3 DEF AllocInv
  <2>6. M!EnoughRoom'
    BY <2>2, <2>5 DEF AllocInv, M!EnoughRoom
  <2>7. QED
    BY <2>4, <2>6 DEF AllocInv
<1>4. QED
  BY <1>1, <1>2, <1>3 DEF M!Next

-----------------------------------------------------------------------------
(* The program.                                                             *)

LEMMA ViewSteps ==
  ASSUME [Next]_vars PROVE [S!Next]_S!vars /\ [A!Next]_A!vars /\ [M!Next]_M!vars
<1>1. CASE StrRef
  BY <1>1 DEF StrRef, arrayVars, allocVars, A!vars, M!vars
<1>2. CASE ArrayRef
  BY <1>2 DEF ArrayRef, viewVars, allocVars, S!vars, M!vars
<1>3. CASE MimAllocator
  BY <1>3 DEF MimAllocator, viewVars, arrayVars, S!vars, A!vars
<1>4. CASE Option \/ OptionRef \/ OptionOrder \/ Result \/ Poly
  BY <1>4 DEF Option, OptionRef, OptionOrder, Result, Poly, viewVars, arrayVars, allocVars,
     S!vars, A!vars, M!vars
<1>5. CASE Box \/ ScopedLock \/ UNCHANGED vars
  BY <1>5 DEF Box, ScopedLock, vars, viewVars, arrayVars, allocVars,
     S!vars, A!vars, M!vars
<1>6. QED
  BY <1>1, <1>2, <1>3, <1>4, <1>5 DEF Next

\* A step that changes a view is one of its type's.
LEMMA UsedStep ==
  ASSUME Next
  PROVE  /\ uses = "StrRef" => S!Next
         /\ uses = "ArrayRef" => A!Next
  BY DEF Next, Option, OptionRef, OptionOrder, Result, Poly, Box, StrRef, ArrayRef,
     MimAllocator, ScopedLock

LEMMA ViewsInductive ==
  /\ Init => ViewInv /\ RefInv
  /\ ViewInv /\ RefInv /\ [Next]_vars => ViewInv' /\ RefInv'
<1>1. Init => ViewInv /\ RefInv
  BY ValueTypesAssumption, InitViewInv, InitRefInv DEF Init
<1>2. ViewInv /\ RefInv /\ [Next]_vars => ViewInv' /\ RefInv'
  BY ValueTypesAssumption, ViewSteps, NextViewInv, NextRefInv
<1>3. QED
  BY <1>1, <1>2

\* However StrRefs and ArrayRefs are cut out of each other, they stay within
\* the memory, or the array, that the first was made of, unless the end of a
\* slice wraps around in size_t; and no such slice is behind a view that is
\* looked at (StrRef.hpp:61, ArrayRef.hpp:60).
THEOREM ViewsStayIn == Spec => [](S!InBounds /\ A!InArray)
<1>1. ViewInv /\ RefInv => S!InBounds /\ A!InArray
  BY ValueTypesAssumption, RefInvInArray DEF ViewInv
<1>2. QED
  BY <1>1, ViewsInductive, PTL DEF Spec

\* In addition the block that MimAllocator gives for n elements has room for n
\* elements and is aligned for them, provided that the counts and types are
\* those for which SmartAllocate's choice is right (CountsFit): a count for
\* which is_small_alloc speaks of a number of bytes, and no alignment beyond
\* that of mimalloc for a type that does not ask for it itself.
THEOREM StaysInBounds == CountsFit => (Spec => []InBounds)
<1> SUFFICES ASSUME CountsFit PROVE Spec => []InBounds
  OBVIOUS
<1>1. Init => AllocInv
  BY InitAlloc DEF Init
<1>2. AllocInv /\ [Next]_vars => AllocInv'
  BY ValueTypesAssumption, ViewSteps, NextAlloc
<1>3. ViewInv /\ RefInv /\ AllocInv => InBounds
  BY ValueTypesAssumption, RefInvInArray DEF ViewInv, AllocInv, InBounds
<1>4. QED
  BY <1>1, <1>2, <1>3, ViewsInductive, PTL DEF Spec

\* Every call on a StrRef shows and answers what a std::string_view would, and
\* every call on an ArrayRef is one on a string of places or reads and writes
\* what stands in them, with the departures that the modules name and that no
\* later call remembers.
THEOREM ViewsAreStrings == Spec => IsStrings
<1>1. /\ ViewInv /\ ViewInv' /\ S!Next => S!StringStep
      /\ RefInv /\ RefInv' /\ A!Next => A!ArrayStep
  BY ValueTypesAssumption, StepIsString, StepIsPlaces DEF S!StringStep
<1>2. ViewInv /\ RefInv /\ ViewInv' /\ RefInv' /\ [Next]_vars =>
        [/\ uses = "StrRef"   => S!StringStep
         /\ uses = "ArrayRef" => A!ArrayStep]_<<viewVars, arrayVars>>
  <2>1. CASE Next
    BY <1>1, <2>1, UsedStep
  <2>2. CASE UNCHANGED vars
    BY <2>2 DEF vars
  <2>3. QED
    BY <2>1, <2>2
<1>3. QED
  BY <1>2, ViewsInductive, PTL DEF Spec, IsStrings
=============================================================================
