-------------------------- MODULE MiServices_proofs --------------------------
(***************************************************************************)
(* What is proved of the lists of abandoned segments (MiAbandoned_proofs)  *)
(* holds where they are a part of the program beside others.  Of the data  *)
(* of threads, of the segment map and of the operating system layer it is  *)
(* proved here, for any number of threads, of slots and blocks, of words   *)
(* and bits of a word, and of pages of the address space.                  *)
(***************************************************************************)
EXTENDS MiServices, FiniteSetTheorems, TLAPS

AP == INSTANCE MiAbandoned_proofs WITH Segments <- Pages, NoThread <- None, Null <- None

-----------------------------------------------------------------------------
(* The lists of abandoned segments.  The two instances say the same.       *)

LEMMA SameLists == A!Init => AP!Init
  BY DEF A!Init, AP!Init, A!NoLocal, AP!NoLocal

LEMMA SameFollows == AP!FollowsMapped => FollowsMapped
  BY DEF FollowsMapped, A!FollowsMapped, AP!FollowsMapped

LEMMA ListsAssumption == AP!MiAbandonedAssumption
  BY MiServicesAssumption DEF A!MiAbandonedAssumption, AP!MiAbandonedAssumption

LEMMA SameListsNext == A!Next => AP!Next
  BY DEF A!Next, A!Alloc, A!Free, A!Abandon, A!AwaitReaders, A!Release, A!PushLoad,
     A!PushLink, A!PushSwap, A!PushAgain, A!VisitLoad, A!VisitLink, A!VisitSwap, A!Collect,
     A!RevisitNothing, A!RevisitCheck, A!Grab, A!PlaceLoad, A!PlaceSwap, A!Walk,
     A!JoinLoad, A!JoinLink, A!JoinSwap, A!JoinAgain, A!PopCheck, A!PopEnter, A!PopLoad,
     A!PopRead, A!PopTake, A!PopAgain, A!PopLeave, A!PopClear, A!Popped,
     A!At, A!Goto, A!Set, A!Quit, A!Swap, A!shared, A!NoLocal, A!Forced, A!RevisitTrue,
     A!RevisitFalse,
     AP!Next, AP!Alloc, AP!Free, AP!Abandon, AP!AwaitReaders, AP!Release, AP!PushLoad,
     AP!PushLink, AP!PushSwap, AP!PushAgain, AP!VisitLoad, AP!VisitLink, AP!VisitSwap,
     AP!Collect, AP!RevisitNothing, AP!RevisitCheck, AP!Grab, AP!PlaceLoad, AP!PlaceSwap,
     AP!Walk, AP!JoinLoad, AP!JoinLink, AP!JoinSwap, AP!JoinAgain, AP!PopCheck,
     AP!PopEnter, AP!PopLoad, AP!PopRead, AP!PopTake, AP!PopAgain, AP!PopLeave,
     AP!PopClear, AP!Popped,
     AP!At, AP!Goto, AP!Set, AP!Quit, AP!Swap, AP!shared, AP!NoLocal, AP!Forced,
     AP!RevisitTrue, AP!RevisitFalse

\* A step of the program is one of the lists, or leaves them alone.
LEMMA ListSteps == ASSUME [ServicesNext]_everything PROVE [AP!Next]_AP!vars
<1>1. CASE AbandonedLists
  BY <1>1, SameListsNext DEF AbandonedLists
<1>2. CASE PageQueues \/ Os \/ ThreadData \/ SegmentMap
  BY <1>2 DEF PageQueues, Os, ThreadData, SegmentMap, Others, abandonedVars, AP!vars
<1>3. CASE UNCHANGED everything
  BY <1>3 DEF everything, abandonedVars, AP!vars
<1>4. QED
  BY <1>1, <1>2, <1>3 DEF ServicesNext

\* What a thread holds, reads or writes behind has memory, for any number of
\* threads and segments: nobody reads a segment that another thread has given
\* back (mi_abandoned_pop, segment.c 1174 to 1204).
THEOREM Follows == ServicesSpec => []FollowsMapped
<1>1. ServicesInit => AP!IInv
  BY SameLists, ListsAssumption, AP!InitIInv DEF ServicesInit
<1>2. AP!IInv /\ [ServicesNext]_everything => AP!IInv'
  BY ListsAssumption, ListSteps, AP!NextIInv
<1>3. AP!IInv => FollowsMapped
  BY SameFollows, AP!IInvFollows
<1>4. QED
  BY <1>1, <1>2, <1>3, PTL DEF ServicesSpec

-----------------------------------------------------------------------------
(* The data of threads.  What a thread has loaded from a slot is not its   *)
(* own before the exchange, so TdHas is what it has; with the slots of the *)
(* cache it divides the blocks (TdOneHolder).                              *)

TdBlocks == Pages \cup {None}

TdOutside == {"out", "find", "alloc", "collect", "take"}
TdHolding == {"in", "put", "cas", "free", "clear"}
TdAtSlot == {"exchange", "cas", "take"}

\* The type of every variable.
TdTypes ==
  /\ td_cache \in [1 .. Slots -> TdBlocks]
  /\ given \in SUBSET Pages
  /\ memid \in [Pages -> {"OS", "NONE"}]
  /\ td \in [T!Everyone -> TdBlocks]
  /\ at \in [T!Everyone -> TdOutside \cup TdHolding \cup {"exchange", "give"}]
  /\ slot \in [T!Everyone -> Nat \ {0}]
  /\ thread_count \in Nat
  /\ refused \in Nat

\* A thread that takes, holds or gives back a block; the main thread only
\* collects.
TdPlace(t) ==
  /\ at[t] \in TdOutside => td[t] = None
  /\ at[t] \in TdHolding => td[t] # None
  /\ at[t] \in TdAtSlot => slot[t] =< Slots
  /\ at[t] \in {"collect", "take", "give"} => t = Main
  /\ t = Main => at[t] \in {"out", "collect", "take", "give"}

\* The block that t has.
TdHas(t) == IF at[t] = "exchange" THEN None ELSE td[t]

TdOneHolder ==
  /\ \A t \in T!Everyone : TdHas(t) # None => TdHas(t) \in given
  /\ \A s \in 1 .. Slots : td_cache[s] # None => td_cache[s] \in given
  /\ \A t, u \in T!Everyone : TdHas(t) = TdHas(u) => t = u \/ TdHas(t) = None
  /\ \A s, r \in 1 .. Slots : td_cache[s] = td_cache[r] => s = r \/ td_cache[s] = None
  /\ \A t \in T!Everyone, s \in 1 .. Slots : TdHas(t) = td_cache[s] => TdHas(t) = None

\* _mi_current_thread_count counts the threads, the main one and those that
\* were refused.
TdIn == {t \in Threads : at[t] = "in"}
TdCounted == IsFiniteSet(TdIn) /\ thread_count = 1 + refused + Cardinality(TdIn)

TdIInv ==
  /\ TdTypes
  /\ \A t \in T!Everyone : TdPlace(t)
  /\ TdOneHolder
  /\ TdCounted

-----------------------------------------------------------------------------
(* A step of one thread.                                                   *)

\* t goes to p with d at slot n.
LEMMA TdGoMoves ==
  ASSUME TdTypes, NEW t \in T!Everyone, NEW p, NEW d, NEW n, T!Go(t, p, d, n),
         p \in TdOutside \cup TdHolding \cup {"exchange", "give"}, d \in TdBlocks, n \in Nat \ {0}
  PROVE  /\ at' \in [T!Everyone -> TdOutside \cup TdHolding \cup {"exchange", "give"}]
         /\ td' \in [T!Everyone -> TdBlocks] /\ slot' \in [T!Everyone -> Nat \ {0}]
         /\ at'[t] = p /\ td'[t] = d /\ slot'[t] = n
         /\ \A u \in T!Everyone \ {t} : at'[u] = at[u] /\ td'[u] = td[u] /\ slot'[u] = slot[u]
  BY DEF TdTypes, T!Go

\* The count when t comes, goes, or does neither.
LEMMA TdCountedStill ==
  ASSUME TdCounted, TdTypes, NEW t \in T!Everyone,
         \A u \in T!Everyone \ {t} : at'[u] = at[u],
         t = Main \/ (at'[t] = "in" <=> at[t] = "in"), Main \notin Threads,
         thread_count' = thread_count, refused' = refused
  PROVE  TdCounted'
<1>1. TdIn' = TdIn
  BY DEF TdIn, T!Everyone
<1>2. QED
  BY <1>1 DEF TdCounted

\* One more thread is in, or was refused.
LEMMA TdCountedMore ==
  ASSUME TdCounted, TdTypes, NEW t \in Threads,
         \A u \in T!Everyone \ {t} : at'[u] = at[u],
         at[t] # "in", thread_count' = thread_count + 1,
         \/ at'[t] = "in" /\ refused' = refused
         \/ at'[t] # "in" /\ refused' = refused + 1
  PROVE  TdCounted'
<1>1. CASE at'[t] = "in"
  <2>1. TdIn' = TdIn \cup {t} /\ t \notin TdIn
    BY <1>1 DEF TdIn, T!Everyone
  <2>2. IsFiniteSet(TdIn \cup {t}) /\ Cardinality(TdIn \cup {t}) = Cardinality(TdIn) + 1
        /\ Cardinality(TdIn) \in Nat
    BY <2>1, FS_AddElement, FS_CardinalityType DEF TdCounted
  <2>3. QED
    BY <1>1, <2>1, <2>2 DEF TdCounted, TdTypes
<1>2. CASE at'[t] # "in"
  <2>1. TdIn' = TdIn
    BY <1>2 DEF TdIn, T!Everyone
  <2>2. IsFiniteSet(TdIn) /\ Cardinality(TdIn) \in Nat /\ refused \in Nat
        /\ thread_count = 1 + refused + Cardinality(TdIn)
    BY FS_CardinalityType DEF TdCounted, TdTypes
  <2>3. thread_count' = 1 + refused' + Cardinality(TdIn)
    BY <1>2, <2>2
  <2>4. QED
    BY <2>1, <2>2, <2>3 DEF TdCounted
<1>3. QED
  BY <1>1, <1>2

\* One thread leaves.
LEMMA TdCountedLess ==
  ASSUME TdCounted, TdTypes, NEW t \in Threads,
         \A u \in T!Everyone \ {t} : at'[u] = at[u],
         at[t] = "in", at'[t] # "in", thread_count' = thread_count - 1, refused' = refused
  PROVE  TdCounted' /\ thread_count' \in Nat
<1>1. TdIn' = TdIn \ {t} /\ t \in TdIn
  BY DEF TdIn, T!Everyone
<1>2. IsFiniteSet(TdIn \ {t}) /\ Cardinality(TdIn \ {t}) = Cardinality(TdIn) - 1
      /\ Cardinality(TdIn) \in Nat /\ Cardinality(TdIn \ {t}) \in Nat
  BY <1>1, FS_RemoveElement, FS_CardinalityType DEF TdCounted
<1>3. thread_count = 1 + refused + Cardinality(TdIn) /\ refused \in Nat
  BY DEF TdCounted, TdTypes
<1>4. thread_count' = 1 + refused' + Cardinality(TdIn \ {t})
  BY <1>2, <1>3
<1>5. QED
  BY <1>1, <1>2, <1>3, <1>4 DEF TdCounted

\* What others have.
LEMMA TdHasStill ==
  ASSUME NEW t \in T!Everyone, \A u \in T!Everyone \ {t} : at'[u] = at[u] /\ td'[u] = td[u]
  PROVE  \A u \in T!Everyone \ {t} : TdHas(u)' = TdHas(u)
  BY DEF TdHas

\* What a thread has is a block or nothing.
LEMMA TdHasTyped == ASSUME TdTypes PROVE \A t \in T!Everyone : TdHas(t) \in TdBlocks
  BY DEF TdTypes, TdHas, TdBlocks

\* t keeps what it has, or gives it up; what it gives up may go back.
LEMMA TdKeptHolder ==
  ASSUME T!MiThreadsAssumption, TdTypes, TdOneHolder, NEW t \in T!Everyone,
         \A u \in T!Everyone \ {t} : TdHas(u)' = TdHas(u),
         td_cache' = td_cache,
         \/ TdHas(t)' = TdHas(t) /\ given' = given
         \/ TdHas(t)' = None /\ given \ {TdHas(t)} \subseteq given'
  PROVE  TdOneHolder'
  BY TdHasTyped DEF TdOneHolder, TdTypes

\* t empties a slot.
LEMMA TdTakenHolder ==
  ASSUME T!MiThreadsAssumption, TdTypes, TdOneHolder, NEW t \in T!Everyone, NEW s \in 1 .. Slots,
         \A u \in T!Everyone \ {t} : TdHas(u)' = TdHas(u),
         td_cache' = [td_cache EXCEPT ![s] = None], given' = given,
         TdHas(t) = None, TdHas(t)' = td_cache[s]
  PROVE  TdOneHolder'
<1>1. td_cache'[s] = None /\ \A r \in 1 .. Slots : r # s => td_cache'[r] = td_cache[r]
  BY DEF TdTypes
<1>2. \A u \in T!Everyone : TdHas(u)' = TdHas(u) \/ u = t
  OBVIOUS
<1>3. /\ \A u \in T!Everyone : TdHas(u)' # None => TdHas(u)' \in given'
      /\ \A r \in 1 .. Slots : td_cache'[r] # None => td_cache'[r] \in given'
  BY <1>1, <1>2 DEF TdOneHolder
<1>4. \A u, v \in T!Everyone : TdHas(u)' = TdHas(v)' => u = v \/ TdHas(u)' = None
  BY <1>1, <1>2 DEF TdOneHolder
<1>5. \A r, q \in 1 .. Slots : td_cache'[r] = td_cache'[q] => r = q \/ td_cache'[r] = None
  BY <1>1 DEF TdOneHolder
<1>6. \A u \in T!Everyone, r \in 1 .. Slots : TdHas(u)' = td_cache'[r] => TdHas(u)' = None
  BY <1>1, <1>2 DEF TdOneHolder
<1>7. QED
  BY <1>3, <1>4, <1>5, <1>6 DEF TdOneHolder

\* t fills an empty slot.
LEMMA TdGivenHolder ==
  ASSUME T!MiThreadsAssumption, TdTypes, TdOneHolder, NEW t \in T!Everyone, NEW s \in 1 .. Slots,
         \A u \in T!Everyone \ {t} : TdHas(u)' = TdHas(u),
         td_cache' = [td_cache EXCEPT ![s] = TdHas(t)], given' = given,
         td_cache[s] = None, TdHas(t)' = None
  PROVE  TdOneHolder'
<1>1. td_cache'[s] = TdHas(t) /\ \A r \in 1 .. Slots : r # s => td_cache'[r] = td_cache[r]
  BY DEF TdTypes
<1>2. \A u \in T!Everyone : TdHas(u)' = TdHas(u) \/ u = t
  OBVIOUS
<1>3. /\ \A u \in T!Everyone : TdHas(u)' # None => TdHas(u)' \in given'
      /\ \A r \in 1 .. Slots : td_cache'[r] # None => td_cache'[r] \in given'
  BY <1>1, <1>2 DEF TdOneHolder
<1>4. \A u, v \in T!Everyone : TdHas(u)' = TdHas(v)' => u = v \/ TdHas(u)' = None
  BY <1>1, <1>2 DEF TdOneHolder
<1>5. \A r, q \in 1 .. Slots : td_cache'[r] = td_cache'[q] => r = q \/ td_cache'[r] = None
  BY <1>1 DEF TdOneHolder
<1>6. \A u \in T!Everyone, r \in 1 .. Slots : TdHas(u)' = td_cache'[r] => TdHas(u)' = None
  BY <1>1, <1>2 DEF TdOneHolder
<1>7. QED
  BY <1>3, <1>4, <1>5, <1>6 DEF TdOneHolder

\* t gets a new block.
LEMMA TdNewHolder ==
  ASSUME T!MiThreadsAssumption, TdTypes, TdOneHolder, NEW t \in T!Everyone, NEW d \in Pages \ given,
         \A u \in T!Everyone \ {t} : TdHas(u)' = TdHas(u),
         td_cache' = td_cache, given' = given \cup {d},
         TdHas(t) = None, TdHas(t)' = d
  PROVE  TdOneHolder'
<1>1. \A u \in T!Everyone : TdHas(u)' = TdHas(u) \/ u = t
  OBVIOUS
<1>2. d \notin given /\ given \subseteq given' /\ d \in given'
  OBVIOUS
<1>3. /\ \A u \in T!Everyone : TdHas(u)' # None => TdHas(u)' \in given'
      /\ \A r \in 1 .. Slots : td_cache'[r] # None => td_cache'[r] \in given'
  BY <1>1, <1>2 DEF TdOneHolder
<1>4. \A u, v \in T!Everyone : TdHas(u)' = TdHas(v)' => u = v \/ TdHas(u)' = None
  BY <1>1, <1>2 DEF TdOneHolder
<1>5. \A r, q \in 1 .. Slots : td_cache'[r] = td_cache'[q] => r = q \/ td_cache'[r] = None
  BY DEF TdOneHolder
<1>6. \A u \in T!Everyone, r \in 1 .. Slots : TdHas(u)' = td_cache'[r] => TdHas(u)' = None
  BY <1>1, <1>2 DEF TdOneHolder
<1>7. QED
  BY <1>3, <1>4, <1>5, <1>6 DEF TdOneHolder

\* The rest of the invariant after a step of t.
TdFits(t, p, d, n) ==
  /\ p \in TdOutside \cup TdHolding \cup {"exchange", "give"} /\ d \in TdBlocks /\ n \in Nat \ {0}
  /\ p \in TdOutside => d = None
  /\ p \in TdHolding => d # None
  /\ p \in TdAtSlot => n =< Slots
  /\ p \in {"collect", "take", "give"} => t = Main
  /\ t = Main => p \in {"out", "collect", "take", "give"}

\* A step of t preserves the invariant when it preserves OneHolder and Counted.
LEMMA TdStep ==
  ASSUME T!MiThreadsAssumption, TdIInv, NEW t \in T!Everyone, NEW p, NEW d, NEW n,
         T!Go(t, p, d, n), TdFits(t, p, d, n),
         td_cache' \in [1 .. Slots -> TdBlocks], given' \in SUBSET Pages,
         memid' \in [Pages -> {"OS", "NONE"}], thread_count' \in Nat, refused' \in Nat,
         TdOneHolder', TdCounted'
  PROVE  TdIInv'
<1>1. /\ at' \in [T!Everyone -> TdOutside \cup TdHolding \cup {"exchange", "give"}]
      /\ td' \in [T!Everyone -> TdBlocks] /\ slot' \in [T!Everyone -> Nat \ {0}]
      /\ at'[t] = p /\ td'[t] = d /\ slot'[t] = n
      /\ \A u \in T!Everyone \ {t} : at'[u] = at[u] /\ td'[u] = td[u] /\ slot'[u] = slot[u]
  BY TdGoMoves DEF TdIInv, TdFits
<1>2. TdTypes'
  BY <1>1 DEF TdTypes
<1>3. ASSUME NEW u \in T!Everyone PROVE TdPlace(u)'
  <2>1. CASE u = t
    BY <1>1, <2>1 DEF TdPlace, TdFits
  <2>2. CASE u # t
    BY <1>1, <2>2 DEF TdPlace, TdIInv
  <2>3. QED
    BY <2>1, <2>2
<1>4. QED
  BY <1>2, <1>3 DEF TdIInv

\* t goes elsewhere, with what it has, or gives it up.
LEMMA TdWalks ==
  ASSUME T!MiThreadsAssumption, TdIInv, NEW t \in T!Everyone, NEW p, NEW d, NEW n,
         T!Go(t, p, d, n), TdFits(t, p, d, n), p = "in" <=> at[t] = "in",
         UNCHANGED <<td_cache, memid, thread_count, refused>>, given' \in SUBSET Pages,
         \/ (IF p = "exchange" THEN None ELSE d) = TdHas(t) /\ given' = given
         \/ p # "exchange" /\ d = None /\ given \ {TdHas(t)} \subseteq given'
  PROVE  TdIInv'
<1>1. /\ at'[t] = p /\ td'[t] = d
      /\ \A u \in T!Everyone \ {t} : at'[u] = at[u] /\ td'[u] = td[u] /\ slot'[u] = slot[u]
  BY TdGoMoves DEF TdIInv, TdFits
<1>2. \A u \in T!Everyone \ {t} : TdHas(u)' = TdHas(u)
  BY <1>1, TdHasStill
<1>3. TdHas(t)' = IF p = "exchange" THEN None ELSE d
  BY <1>1 DEF TdHas
<1>4. TdOneHolder'
  BY <1>2, <1>3, TdKeptHolder DEF TdIInv
<1>5. TdCounted'
  BY <1>1, TdCountedStill DEF TdIInv, T!MiThreadsAssumption
<1>6. QED
  BY <1>4, <1>5, TdStep DEF TdIInv, TdTypes

-----------------------------------------------------------------------------
(* The actions.                                                            *)

\* The parts of the invariant for t.
LEMMA TdTyped ==
  ASSUME T!MiThreadsAssumption, TdIInv, NEW t \in T!Everyone
  PROVE  /\ TdTypes /\ TdOneHolder /\ TdCounted /\ TdPlace(t)
         /\ td[t] \in TdBlocks /\ slot[t] \in Nat \ {0}
         /\ slot[t] =< Slots => slot[t] \in 1 .. Slots
         /\ slot[t] =< Slots => td_cache[slot[t]] \in TdBlocks
<1>1. TdTypes /\ TdOneHolder /\ TdCounted /\ TdPlace(t)
  BY DEF TdIInv
<1>2. td[t] \in TdBlocks /\ slot[t] \in Nat \ {0}
  BY <1>1 DEF TdTypes
<1>3. slot[t] =< Slots => slot[t] \in 1 .. Slots
  BY <1>2 DEF T!MiThreadsAssumption
<1>4. QED
  BY <1>1, <1>2, <1>3 DEF TdTypes

\* Start preserves the invariant.
LEMMA TdStartKeeps ==
  ASSUME T!MiThreadsAssumption, TdIInv, NEW t \in Threads, T!Start(t) PROVE TdIInv'
<1>1. t \in T!Everyone /\ t # Main /\ TdPlace(t) /\ None \in TdBlocks
  BY TdTyped DEF T!MiThreadsAssumption, T!Everyone, TdBlocks
<1>2. TdFits(t, "find", None, 1) /\ TdHas(t) = None
  BY <1>1 DEF TdFits, TdOutside, TdHolding, TdAtSlot, T!Start, TdHas, TdPlace
<1>3. given' \in SUBSET Pages
  BY DEF T!Start, TdIInv, TdTypes
<1>4. QED
  BY <1>1, <1>2, <1>3, TdWalks DEF T!Start

\* FindLoad preserves the invariant.
LEMMA TdFindLoadKeeps ==
  ASSUME T!MiThreadsAssumption, TdIInv, NEW t \in Threads, T!FindLoad(t) PROVE TdIInv'
<1>1. t \in T!Everyone /\ t # Main /\ TdPlace(t) /\ None \in TdBlocks /\ slot[t] \in Nat \ {0}
      /\ (slot[t] =< Slots => td_cache[slot[t]] \in TdBlocks) /\ Slots \in Nat
  BY TdTyped DEF T!MiThreadsAssumption, T!Everyone, TdBlocks
<1>2. TdHas(t) = None /\ at[t] = "find"
  BY <1>1 DEF TdOutside, T!FindLoad, TdHas, TdPlace
<1>3. given' \in SUBSET Pages
  BY DEF T!FindLoad, TdIInv, TdTypes
<1>4. CASE slot[t] > Slots
  <2>1. TdFits(t, "alloc", None, 1)
    BY <1>1 DEF TdFits, TdOutside, TdHolding, TdAtSlot
  <2>2. QED
    BY <1>1, <1>2, <1>3, <1>4, <2>1, TdWalks DEF T!FindLoad
<1>5. CASE slot[t] =< Slots /\ td_cache[slot[t]] = None
  <2>1. TdFits(t, "find", None, slot[t] + 1)
    BY <1>1 DEF TdFits, TdOutside, TdHolding, TdAtSlot
  <2>2. QED
    BY <1>1, <1>2, <1>3, <1>5, <2>1, TdWalks DEF T!FindLoad
<1>6. CASE slot[t] =< Slots /\ td_cache[slot[t]] # None
  <2>1. TdFits(t, "exchange", td_cache[slot[t]], slot[t])
    BY <1>1, <1>6 DEF TdFits, TdOutside, TdHolding, TdAtSlot
  <2>2. QED
    BY <1>1, <1>2, <1>3, <1>6, <2>1, TdWalks DEF T!FindLoad
<1>7. QED
  BY <1>1, <1>4, <1>5, <1>6

\* t takes what is in its slot.
LEMMA TdTakes ==
  ASSUME T!MiThreadsAssumption, TdIInv, NEW t \in T!Everyone, NEW p, NEW d, NEW n,
         T!Go(t, p, d, n), TdFits(t, p, d, n), p \notin {"in", "exchange"}, at[t] # "in",
         slot[t] =< Slots, T!Store(t, None), d = td_cache[slot[t]], TdHas(t) = None,
         UNCHANGED <<given, memid, thread_count, refused>>
  PROVE  TdIInv'
<1>1. /\ at'[t] = p /\ td'[t] = d
      /\ \A u \in T!Everyone \ {t} : at'[u] = at[u] /\ td'[u] = td[u] /\ slot'[u] = slot[u]
  BY TdGoMoves DEF TdIInv, TdFits
<1>2. \A u \in T!Everyone \ {t} : TdHas(u)' = TdHas(u)
  BY <1>1, TdHasStill
<1>3. PICK s \in 1 .. Slots : s = slot[t]
  BY TdTyped
<1>4. TdHas(t)' = td_cache[s]
  BY <1>1, <1>3 DEF TdHas
<1>5. TdOneHolder'
  BY <1>2, <1>3, <1>4, TdTakenHolder DEF TdIInv, T!Store
<1>6. TdCounted'
  BY <1>1, TdCountedStill DEF TdIInv, T!MiThreadsAssumption
<1>7. td_cache' \in [1 .. Slots -> TdBlocks]
  BY DEF T!Store, TdIInv, TdTypes, TdBlocks
<1>8. QED
  BY <1>5, <1>6, <1>7, TdStep DEF TdIInv, TdTypes

\* FindExchange preserves the invariant.
LEMMA TdFindExchangeKeeps ==
  ASSUME T!MiThreadsAssumption, TdIInv, NEW t \in Threads, T!FindExchange(t) PROVE TdIInv'
<1>1. t \in T!Everyone /\ t # Main /\ TdPlace(t) /\ None \in TdBlocks /\ slot[t] \in Nat \ {0}
      /\ (slot[t] =< Slots => td_cache[slot[t]] \in TdBlocks) /\ Slots \in Nat
  BY TdTyped DEF T!MiThreadsAssumption, T!Everyone, TdBlocks
<1>2. TdHas(t) = None /\ at[t] = "exchange" /\ slot[t] =< Slots
  BY <1>1 DEF TdAtSlot, T!FindExchange, TdHas, TdPlace
<1>3. CASE td_cache[slot[t]] = None
  <2>1. TdFits(t, "find", None, slot[t] + 1)
    BY <1>1 DEF TdFits, TdOutside, TdHolding, TdAtSlot
  <2>2. /\ T!Store(t, None) /\ T!Go(t, "find", None, slot[t] + 1)
        /\ UNCHANGED <<given, memid, thread_count, refused>>
    BY <1>3 DEF T!FindExchange
  <2>3. QED
    BY <1>1, <1>2, <1>3, <2>1, <2>2, TdTakes
<1>4. CASE td_cache[slot[t]] # None
  <2>1. TdFits(t, "clear", td_cache[slot[t]], 1)
    BY <1>1, <1>2, <1>4 DEF TdFits, TdOutside, TdHolding, TdAtSlot
  <2>2. QED
    BY <1>1, <1>2, <1>4, <2>1, TdTakes DEF T!FindExchange
<1>5. QED
  BY <1>3, <1>4

\* Alloc preserves the invariant.
LEMMA TdAllocKeeps ==
  ASSUME T!MiThreadsAssumption, TdIInv, NEW t \in Threads, T!Alloc(t) PROVE TdIInv'
<1>1. t \in T!Everyone /\ t # Main /\ TdPlace(t) /\ None \in TdBlocks
  BY TdTyped DEF T!MiThreadsAssumption, T!Everyone, TdBlocks
<1>2. TdHas(t) = None /\ at[t] = "alloc"
  BY <1>1 DEF TdOutside, T!Alloc, TdHas, TdPlace
<1>3. thread_count' \in Nat
  BY DEF T!Alloc, TdIInv, TdTypes
<1>4. ASSUME NEW d \in Pages \ given, given' = given \cup {d},
             memid' = [memid EXCEPT ![d] = "OS"], T!Go(t, "in", d, 1), UNCHANGED refused
      PROVE  TdIInv'
  <2>1. TdFits(t, "in", d, 1)
    BY <1>1 DEF TdFits, TdOutside, TdHolding, TdAtSlot, TdBlocks, T!MiThreadsAssumption
  <2>2. /\ at'[t] = "in" /\ td'[t] = d
        /\ \A u \in T!Everyone \ {t} : at'[u] = at[u] /\ td'[u] = td[u] /\ slot'[u] = slot[u]
    BY <1>1, <1>4, <2>1, TdGoMoves DEF TdIInv, TdFits
  <2>3. TdOneHolder'
    BY <1>1, <1>2, <1>4, <2>2, TdHasStill, TdNewHolder DEF T!Alloc, TdHas, TdIInv
  <2>4. TdCounted'
    BY <1>1, <1>2, <1>4, <2>2, TdCountedMore DEF T!Alloc, TdIInv
  <2>5. memid' \in [Pages -> {"OS", "NONE"}] /\ given' \in SUBSET Pages
        /\ td_cache' \in [1 .. Slots -> TdBlocks] /\ refused' \in Nat
    BY <1>4 DEF T!Alloc, TdIInv, TdTypes
  <2>6. QED
    BY <1>1, <1>3, <1>4, <2>1, <2>3, <2>4, <2>5, TdStep
<1>5. CASE refused' = refused + 1 /\ T!Go(t, "out", None, 1) /\ UNCHANGED <<given, memid>>
  <2>1. TdFits(t, "out", None, 1)
    BY <1>1 DEF TdFits, TdOutside, TdHolding, TdAtSlot
  <2>2. /\ at'[t] = "out" /\ td'[t] = None
        /\ \A u \in T!Everyone \ {t} : at'[u] = at[u] /\ td'[u] = td[u] /\ slot'[u] = slot[u]
    BY <1>1, <1>5, <2>1, TdGoMoves DEF TdIInv, TdFits
  <2>3. TdOneHolder'
    BY <1>1, <1>2, <1>5, <2>2, TdHasStill, TdKeptHolder DEF T!Alloc, TdHas, TdIInv
  <2>4. TdCounted'
    BY <1>1, <1>2, <1>5, <2>2, TdCountedMore DEF T!Alloc, TdIInv
  <2>5. memid' \in [Pages -> {"OS", "NONE"}] /\ given' \in SUBSET Pages
        /\ td_cache' \in [1 .. Slots -> TdBlocks] /\ refused' \in Nat
    BY <1>5 DEF T!Alloc, TdIInv, TdTypes
  <2>6. QED
    BY <1>1, <1>3, <1>5, <2>1, <2>3, <2>4, <2>5, TdStep
<1>6. QED
  BY <1>4, <1>5 DEF T!Alloc

\* Clear preserves the invariant.
LEMMA TdClearKeeps ==
  ASSUME T!MiThreadsAssumption, TdIInv, NEW t \in Threads, T!Clear(t) PROVE TdIInv'
<1>1. t \in T!Everyone /\ t # Main /\ TdPlace(t) /\ td[t] \in TdBlocks
  BY TdTyped DEF T!MiThreadsAssumption, T!Everyone
<1>2. td[t] # None /\ at[t] = "clear"
  BY <1>1 DEF TdHolding, T!Clear, TdPlace
<1>3. TdFits(t, "in", td[t], 1)
  BY <1>1, <1>2 DEF TdFits, TdOutside, TdHolding, TdAtSlot
<1>4. /\ at'[t] = "in" /\ td'[t] = td[t]
      /\ \A u \in T!Everyone \ {t} : at'[u] = at[u] /\ td'[u] = td[u] /\ slot'[u] = slot[u]
  BY <1>1, <1>3, TdGoMoves DEF TdIInv, TdFits, T!Clear
<1>5. TdOneHolder'
  <2>1. TdHas(t)' = TdHas(t)
    BY <1>2, <1>4 DEF TdHas
  <2>2. QED
    BY <1>1, <1>4, <2>1, TdHasStill, TdKeptHolder DEF T!Clear, TdIInv
<1>6. TdCounted'
  BY <1>1, <1>2, <1>4, TdCountedMore DEF T!Clear, TdIInv
<1>7. memid' \in [Pages -> {"OS", "NONE"}]
  BY DEF T!Clear, TdIInv, TdTypes
<1>8. thread_count' \in Nat
  BY DEF T!Clear, TdIInv, TdTypes
<1>9. QED
  BY <1>1, <1>3, <1>5, <1>6, <1>7, <1>8, TdStep DEF T!Clear, TdIInv, TdTypes

\* Done preserves the invariant.
LEMMA TdDoneKeeps ==
  ASSUME T!MiThreadsAssumption, TdIInv, NEW t \in Threads, T!Done(t) PROVE TdIInv'
<1>1. t \in T!Everyone /\ t # Main /\ TdPlace(t) /\ td[t] \in TdBlocks
  BY TdTyped DEF T!MiThreadsAssumption, T!Everyone
<1>2. td[t] # None /\ at[t] = "in"
  BY <1>1 DEF TdHolding, T!Done, TdPlace
<1>3. TdFits(t, "put", td[t], 1)
  BY <1>1, <1>2 DEF TdFits, TdOutside, TdHolding, TdAtSlot
<1>4. /\ at'[t] = "put" /\ td'[t] = td[t]
      /\ \A u \in T!Everyone \ {t} : at'[u] = at[u] /\ td'[u] = td[u] /\ slot'[u] = slot[u]
  BY <1>1, <1>3, TdGoMoves DEF TdIInv, TdFits, T!Done
<1>5. TdOneHolder'
  <2>1. TdHas(t)' = TdHas(t)
    BY <1>2, <1>4 DEF TdHas
  <2>2. QED
    BY <1>1, <1>4, <2>1, TdHasStill, TdKeptHolder DEF T!Done, TdIInv
<1>6. TdCounted' /\ thread_count' \in Nat
  BY <1>1, <1>2, <1>4, TdCountedLess DEF T!Done, TdIInv
<1>7. QED
  BY <1>1, <1>3, <1>5, <1>6, TdStep DEF T!Done, TdIInv, TdTypes

\* PutLoad preserves the invariant.
LEMMA TdPutLoadKeeps ==
  ASSUME T!MiThreadsAssumption, TdIInv, NEW t \in Threads, T!PutLoad(t) PROVE TdIInv'
<1>1. t \in T!Everyone /\ t # Main /\ TdPlace(t) /\ td[t] \in TdBlocks /\ slot[t] \in Nat \ {0}
      /\ Slots \in Nat
  BY TdTyped DEF T!MiThreadsAssumption, T!Everyone, TdBlocks
<1>2. td[t] # None /\ TdHas(t) = td[t] /\ at[t] = "put"
  BY <1>1 DEF TdHolding, T!PutLoad, TdHas, TdPlace
<1>3. given' \in SUBSET Pages
  BY DEF T!PutLoad, TdIInv, TdTypes
<1>4. /\ TdFits(t, "free", td[t], 1) /\ TdFits(t, "put", td[t], slot[t] + 1)
      /\ slot[t] =< Slots => TdFits(t, "cas", td[t], slot[t])
  BY <1>1, <1>2 DEF TdFits, TdOutside, TdHolding, TdAtSlot
<1>5. CASE slot[t] > Slots
  BY <1>1, <1>2, <1>3, <1>4, <1>5, TdWalks DEF T!PutLoad
<1>6. CASE slot[t] =< Slots /\ td_cache[slot[t]] = None
  BY <1>1, <1>2, <1>3, <1>4, <1>6, TdWalks DEF T!PutLoad
<1>7. CASE slot[t] =< Slots /\ td_cache[slot[t]] # None
  BY <1>1, <1>2, <1>3, <1>4, <1>7, TdWalks DEF T!PutLoad
<1>8. QED
  BY <1>1, <1>5, <1>6, <1>7

\* PutCas preserves the invariant.
LEMMA TdPutCasKeeps ==
  ASSUME T!MiThreadsAssumption, TdIInv, NEW t \in Threads, T!PutCas(t) PROVE TdIInv'
<1>1. t \in T!Everyone /\ t # Main /\ TdPlace(t) /\ td[t] \in TdBlocks /\ slot[t] \in Nat \ {0}
      /\ None \in TdBlocks
  BY TdTyped DEF T!MiThreadsAssumption, T!Everyone, TdBlocks
<1>2. td[t] # None /\ TdHas(t) = td[t] /\ at[t] = "cas" /\ slot[t] =< Slots
  BY <1>1 DEF TdHolding, TdAtSlot, T!PutCas, TdHas, TdPlace
<1>3. TdFits(t, "out", None, 1) /\ TdFits(t, "put", td[t], slot[t] + 1)
  BY <1>1, <1>2 DEF TdFits, TdOutside, TdHolding, TdAtSlot
<1>4. CASE td_cache[slot[t]] = None /\ T!Store(t, td[t]) /\ T!Go(t, "out", None, 1)
  <2>1. /\ at'[t] = "out" /\ td'[t] = None
        /\ \A u \in T!Everyone \ {t} : at'[u] = at[u] /\ td'[u] = td[u] /\ slot'[u] = slot[u]
    BY <1>1, <1>3, <1>4, TdGoMoves DEF TdIInv, TdFits
  <2>2. PICK s \in 1 .. Slots : s = slot[t]
    BY <1>1, <1>2, TdTyped
  <2>3. TdOneHolder'
    <3>1. TdHas(t)' = None /\ \A u \in T!Everyone \ {t} : TdHas(u)' = TdHas(u)
      BY <1>1, <2>1, TdHasStill DEF TdHas
    <3>2. td_cache' = [td_cache EXCEPT ![s] = TdHas(t)] /\ td_cache[s] = None /\ given' = given
      BY <1>2, <1>4, <2>2 DEF T!Store, T!PutCas
    <3>3. QED
      BY <1>1, <3>1, <3>2, TdGivenHolder DEF TdIInv
  <2>4. TdCounted'
    BY <1>1, <1>2, <2>1, TdCountedStill DEF T!PutCas, TdIInv, T!MiThreadsAssumption
  <2>5. td_cache' \in [1 .. Slots -> TdBlocks]
    BY <1>1, <1>4 DEF T!Store, TdIInv, TdTypes
  <2>6. QED
    BY <1>1, <1>3, <1>4, <2>3, <2>4, <2>5, TdStep DEF T!PutCas, TdIInv, TdTypes
<1>5. CASE T!Go(t, "put", td[t], slot[t] + 1) /\ UNCHANGED td_cache
  <2>1. given' \in SUBSET Pages
    BY DEF T!PutCas, TdIInv, TdTypes
  <2>2. QED
    BY <1>1, <1>2, <1>3, <1>5, <2>1, TdWalks DEF T!PutCas
<1>6. QED
  BY <1>4, <1>5 DEF T!PutCas

\* Free preserves the invariant.
LEMMA TdFreeKeeps ==
  ASSUME T!MiThreadsAssumption, TdIInv, NEW t \in Threads, T!Free(t) PROVE TdIInv'
<1>1. t \in T!Everyone /\ t # Main /\ TdPlace(t) /\ None \in TdBlocks
  BY TdTyped DEF T!MiThreadsAssumption, T!Everyone, TdBlocks
<1>2. TdHas(t) = td[t] /\ at[t] = "free"
  BY DEF T!Free, TdHas
<1>3. TdFits(t, "out", None, 1)
  BY <1>1 DEF TdFits, TdOutside, TdHolding, TdAtSlot
<1>4. given' \in SUBSET Pages /\ given \ {TdHas(t)} \subseteq given'
  BY <1>2 DEF T!Free, T!OsFree, TdIInv, TdTypes
<1>5. QED
  BY <1>1, <1>2, <1>3, <1>4, TdWalks DEF T!Free

\* Collect preserves the invariant.
LEMMA TdCollectKeeps == ASSUME T!MiThreadsAssumption, TdIInv, T!Collect PROVE TdIInv'
<1>1. Main \in T!Everyone /\ TdPlace(Main) /\ None \in TdBlocks
  BY TdTyped DEF T!Everyone, TdBlocks
<1>2. TdHas(Main) = None /\ at[Main] = "out"
  BY <1>1 DEF TdOutside, T!Collect, TdHas, TdPlace
<1>3. TdFits(Main, "collect", None, 1)
  BY <1>1 DEF TdFits, TdOutside, TdHolding, TdAtSlot
<1>4. given' \in SUBSET Pages
  BY DEF T!Collect, TdIInv, TdTypes
<1>5. QED
  BY <1>1, <1>2, <1>3, <1>4, TdWalks DEF T!Collect

\* CollectLoad preserves the invariant.
LEMMA TdCollectLoadKeeps == ASSUME T!MiThreadsAssumption, TdIInv, T!CollectLoad PROVE TdIInv'
<1>1. Main \in T!Everyone /\ TdPlace(Main) /\ None \in TdBlocks /\ slot[Main] \in Nat \ {0} /\ Slots \in Nat
  BY TdTyped DEF T!Everyone, TdBlocks, T!MiThreadsAssumption
<1>2. TdHas(Main) = None /\ at[Main] = "collect"
  BY <1>1 DEF TdOutside, T!CollectLoad, TdHas, TdPlace
<1>3. /\ TdFits(Main, "out", None, 1) /\ TdFits(Main, "collect", None, slot[Main] + 1)
      /\ slot[Main] =< Slots => TdFits(Main, "take", None, slot[Main])
  BY <1>1 DEF TdFits, TdOutside, TdHolding, TdAtSlot
<1>4. given' \in SUBSET Pages
  BY DEF T!CollectLoad, TdIInv, TdTypes
<1>5. CASE slot[Main] > Slots
  BY <1>1, <1>2, <1>3, <1>4, <1>5, TdWalks DEF T!CollectLoad
<1>6. CASE slot[Main] =< Slots /\ td_cache[slot[Main]] = None
  BY <1>1, <1>2, <1>3, <1>4, <1>6, TdWalks DEF T!CollectLoad
<1>7. CASE slot[Main] =< Slots /\ td_cache[slot[Main]] # None
  BY <1>1, <1>2, <1>3, <1>4, <1>7, TdWalks DEF T!CollectLoad
<1>8. slot[Main] > Slots \/ slot[Main] =< Slots
  BY <1>1
<1>9. QED
  BY <1>5, <1>6, <1>7, <1>8

\* CollectExchange preserves the invariant.
LEMMA TdCollectExchangeKeeps == ASSUME T!MiThreadsAssumption, TdIInv, T!CollectExchange PROVE TdIInv'
<1>1. Main \in T!Everyone /\ TdPlace(Main) /\ slot[Main] \in Nat \ {0}
      /\ (slot[Main] =< Slots => td_cache[slot[Main]] \in TdBlocks)
  BY TdTyped DEF T!Everyone
<1>2. TdHas(Main) = None /\ at[Main] = "take" /\ slot[Main] =< Slots
  BY <1>1 DEF TdOutside, TdAtSlot, T!CollectExchange, TdHas, TdPlace
<1>3. TdFits(Main, "give", td_cache[slot[Main]], slot[Main])
  BY <1>1, <1>2 DEF TdFits, TdOutside, TdHolding, TdAtSlot
<1>4. T!Go(Main, "give", td_cache[slot[Main]], slot[Main]) /\ T!Store(Main, None)
      /\ UNCHANGED <<given, memid, thread_count, refused>>
  BY DEF T!CollectExchange
<1>5. "give" \notin {"in", "exchange"} /\ at[Main] # "in"
  BY <1>2
<1>6. QED
  BY <1>1, <1>2, <1>3, <1>4, <1>5, TdTakes

\* CollectFree preserves the invariant.
LEMMA TdCollectFreeKeeps == ASSUME T!MiThreadsAssumption, TdIInv, T!CollectFree PROVE TdIInv'
<1>1. Main \in T!Everyone /\ TdPlace(Main) /\ None \in TdBlocks /\ slot[Main] \in Nat \ {0}
  BY TdTyped DEF T!Everyone, TdBlocks
<1>2. TdHas(Main) = td[Main] /\ at[Main] = "give"
  BY DEF T!CollectFree, TdHas
<1>3. TdFits(Main, "collect", None, slot[Main] + 1)
  BY <1>1 DEF TdFits, TdOutside, TdHolding, TdAtSlot
<1>4. given' \in SUBSET Pages /\ given \ {TdHas(Main)} \subseteq given'
  BY <1>2 DEF T!CollectFree, T!OsFree, TdIInv, TdTypes
<1>5. QED
  BY <1>1, <1>2, <1>3, <1>4, TdWalks DEF T!CollectFree

-----------------------------------------------------------------------------
LEMMA TdInitIInv == ASSUME T!MiThreadsAssumption, T!Init PROVE TdIInv
<1>1. TdTypes
  BY DEF T!Init, TdTypes, TdBlocks, TdOutside
<1>2. \A t \in T!Everyone : TdPlace(t)
  BY DEF T!Init, TdPlace, TdOutside, TdHolding, TdAtSlot
<1>3. TdOneHolder
  BY DEF T!Init, TdOneHolder, TdHas
<1>4. TdIn = {}
  BY DEF T!Init, TdIn, T!Everyone
<1>5. TdCounted
  BY <1>4, FS_EmptySet DEF T!Init, TdCounted
<1>6. QED
  BY <1>1, <1>2, <1>3, <1>5 DEF TdIInv

\* A step that changes nothing.
LEMMA TdUnmoved == ASSUME TdIInv, UNCHANGED T!vars PROVE TdIInv'
  BY DEF T!vars, TdIInv, TdTypes, TdPlace, TdOneHolder, TdHas, TdCounted, TdIn

\* Every step.
LEMMA TdNextIInv == ASSUME T!MiThreadsAssumption, TdIInv, [T!Next]_T!vars PROVE TdIInv'
  BY TdUnmoved, TdStartKeeps, TdFindLoadKeeps, TdFindExchangeKeeps, TdAllocKeeps, TdClearKeeps,
     TdDoneKeeps, TdPutLoadKeeps, TdPutCasKeeps, TdFreeKeeps, TdCollectKeeps, TdCollectLoadKeeps,
     TdCollectExchangeKeeps, TdCollectFreeKeeps DEF T!Next

\* A set without two elements.
LEMMA TdAtMostOne ==
  ASSUME NEW X, \A x, y \in X : x = y PROVE Cardinality(X) =< 1
<1>1. CASE X = {}
  BY <1>1, FS_EmptySet
<1>2. CASE X # {}
  <2>1. PICK x : x \in X
    BY <1>2
  <2>2. X = {x}
    BY <2>1
  <2>3. Cardinality({x}) = 1
    BY FS_Singleton
  <2>4. QED
    BY <2>2, <2>3
<1>3. QED
  BY <1>1, <1>2

\* What the invariant is for.
LEMMA TdIInvHolder == ASSUME T!MiThreadsAssumption, TdIInv PROVE T!DataHasOneHolder
<1>1. ASSUME NEW d \in Pages
      PROVE  Cardinality(T!Holders(d)) =< 1 /\ (T!Holders(d) # {} => d \in given)
  <2>1. d # None
    BY DEF T!MiThreadsAssumption
  <2>2. ASSUME NEW x \in T!Holders(d)
        PROVE  \/ x \in T!Everyone /\ TdHas(x) = d
               \/ x \in 1 .. Slots /\ td_cache[x] = d
    BY DEF T!Holders, TdHas
  <2>3. ASSUME NEW x \in T!Holders(d), NEW y \in T!Holders(d) PROVE x = y
    BY <2>1, <2>2 DEF TdIInv, TdOneHolder
  <2>4. ASSUME NEW x \in T!Holders(d) PROVE d \in given
    BY <2>1, <2>2 DEF TdIInv, TdOneHolder
  <2>5. QED
    BY <2>3, <2>4, TdAtMostOne
<1>2. \A X : T!Cardinality(X) = Cardinality(X)
  BY DEF T!Cardinality, Cardinality
<1>3. QED
  BY <1>1, <1>2 DEF T!DataHasOneHolder, TdIInv, TdCounted, TdIn

LEMMA ThreadSteps == ASSUME [ServicesNext]_everything PROVE [T!Next]_T!vars
<1>1. CASE ThreadData
  BY <1>1 DEF ThreadData
<1>2. CASE AbandonedLists \/ PageQueues \/ Os \/ SegmentMap
  BY <1>2 DEF AbandonedLists, PageQueues, Os, SegmentMap, Others, threadVars, T!vars
<1>3. CASE UNCHANGED everything
  BY <1>3 DEF everything, threadVars, T!vars
<1>4. QED
  BY <1>1, <1>2, <1>3 DEF ServicesNext

\* A block of thread data is with one thread, or in one slot of the cache, or
\* with nobody, and whoever has it has its memory, for any number of threads,
\* slots and blocks; and the count of threads is right (init.c 221 to 283).
THEOREM OneHolder == ServicesSpec => []DataHasOneHolder
<1>1. ServicesInit => TdIInv
  BY MiServicesAssumption, TdInitIInv DEF ServicesInit
<1>2. TdIInv /\ [ServicesNext]_everything => TdIInv'
  BY MiServicesAssumption, ThreadSteps, TdNextIInv
<1>3. TdIInv => DataHasOneHolder
  BY MiServicesAssumption, TdIInvHolder DEF DataHasOneHolder
<1>4. QED
  BY <1>1, <1>2, <1>3, PTL DEF ServicesSpec

-----------------------------------------------------------------------------
(* The map of segments.  What a thread changes in it is a mark of its own  *)
(* (MarksOwn), and no two segments have one mark, since they share no      *)
(* place.  A search for a pointer into a segment of the thread can leave   *)
(* the word of the pointer, or go to a mark that is not the segment's,     *)
(* only when the segment does not start in that word (MapFinder), whatever *)
(* others mark, unmark and unmap meanwhile.                                *)

MapSegments == M!Places \X Lengths

MapOp ==
  [at : {"idle"}] \cup [at : {"unmap"}, segment : MapSegments]
    \cup [at : {"update"}, segment : MapSegments, set : BOOLEAN, mask : SUBSET (0 .. WordBits - 1)]
    \cup [at : {"down"}, p : M!Places, w : 0 .. Words - 1]
    \cup [at : {"reach", "answer"}, p : M!Places, start : Nat]
    \cup [at : {"lost"}, p : M!Places]

MapTypes ==
  /\ mi_segment_map \in [0 .. Words - 1 -> SUBSET (0 .. WordBits - 1)]
  /\ owned \in [Threads -> SUBSET MapSegments]
  /\ op \in [Threads -> MapOp]

\* The word w has the bit of s.
Marked(s) == M!Bit(s[1]) \in mi_segment_map[M!Index(s[1])]

\* No place is in two segments.
SegmentsDisjoint ==
  \A t, u \in Threads : \A s \in owned[t], o \in owned[u] :
    M!Extent(s) \cap M!Extent(o) # {} => t = u /\ s = o

SegmentsInside == \A t \in Threads : \A s \in owned[t] : M!Extent(s) \subseteq M!Places

\* A bit stands for a segment that has memory.
MarksStand ==
  \A w \in 0 .. Words - 1 : \A b \in mi_segment_map[w] :
    \E t \in Threads : \E s \in owned[t] : M!Index(s[1]) = w /\ M!Bit(s[1]) = b

\* What a thread changes is its own, has no mark when it is unmapped, and
\* whatever it does not change has one.
MarksOwn(t) ==
  /\ op[t].at \in {"update", "unmap"} => op[t].segment \in owned[t]
  /\ op[t].at = "unmap" => ~ Marked(op[t].segment)
  /\ \A s \in owned[t] :
       Marked(s) \/ (op[t].at \in {"update", "unmap"} /\ op[t].segment = s)

\* The segment that p is in does not start in the word of p when the search
\* has left it, or is lost; which mark it follows; and what is answered.
MapFinder(t) ==
  /\ op[t].at = "down" => op[t].w < M!Index(op[t].p)
  /\ op[t].at \in {"down", "lost"} =>
       \A s \in owned[t] : op[t].p \in M!Extent(s) => M!Index(op[t].p) # M!Index(s[1])
  /\ op[t].at \in {"reach", "answer"} =>
       \A s \in owned[t] : op[t].p \in M!Extent(s) /\
         M!Index(op[t].p) = M!Index(s[1]) => op[t].start = s[1]
  /\ op[t].at = "answer" =>
       \A s \in owned[t] : op[t].p \in M!Extent(s) => op[t].start \in {s[1], M!NoStart}

MapInv ==
  /\ MapTypes /\ SegmentsDisjoint /\ SegmentsInside /\ MarksStand
  /\ \A t \in Threads : MarksOwn(t) /\ MapFinder(t)

-----------------------------------------------------------------------------
\* A place is its word and its bit.
LEMMA Division ==
  ASSUME M!MiSegmentMapAssumption, NEW p \in M!Places
  PROVE  /\ M!Index(p) \in 0 .. Words - 1
         /\ M!Bit(p) \in 0 .. WordBits - 1
         /\ p = M!Index(p) * WordBits + M!Bit(p)
<1>1. WordBits \in Nat /\ WordBits > 0 /\ p \in Nat /\ p >= 1 /\ p <= Words * WordBits - 1
  BY DEF M!MiSegmentMapAssumption, M!Places
<1>2. p = M!Index(p) * WordBits + M!Bit(p) /\ M!Bit(p) \in 0 .. WordBits - 1 /\ M!Index(p) \in Int
  BY <1>1 DEF M!Index, M!Bit
<1>3. M!Index(p) >= 0
  BY <1>1, <1>2 DEF M!Index
<1>4. M!Index(p) < Words
  BY <1>1, <1>2 DEF M!MiSegmentMapAssumption
<1>5. QED
  BY <1>2, <1>3, <1>4 DEF M!MiSegmentMapAssumption

\* Two places with one bit are one.
LEMMA SamePlace ==
  ASSUME M!MiSegmentMapAssumption, NEW p \in M!Places, NEW q \in M!Places, M!Index(p) = M!Index(q)
  PROVE  /\ M!Bit(p) = M!Bit(q) => p = q
         /\ p < q => M!Bit(p) < M!Bit(q)
<1> DEFINE base == M!Index(p) * WordBits
<1>1. p = base + M!Bit(p) /\ q = base + M!Bit(q) /\ M!Bit(p) \in Int /\ M!Bit(q) \in Int
  BY Division
<1>2. base \in Int
  BY Division DEF M!MiSegmentMapAssumption
<1>3. QED
  <2> HIDE DEF base
  <2>1. QED
    BY <1>1, <1>2

\* A set of bits has a last one.
LEMMA MaxIsIn ==
  ASSUME M!MiSegmentMapAssumption, NEW S \in SUBSET (0 .. WordBits - 1), S # {}
  PROVE  M!Max(S) \in S /\ \A k \in S : M!Max(S) >= k
<1> DEFINE Above(n) == {k \in S : k >= n}
           Aboves == {Above(n) : n \in S}
<1>0. S \subseteq Nat /\ IsFiniteSet(S)
  <2>1. WordBits - 1 \in Int /\ 0 \in Int
    BY DEF M!MiSegmentMapAssumption
  <2>2. IsFiniteSet(0 .. WordBits - 1)
    BY <2>1, FS_Interval
  <2>3. IsFiniteSet(S)
    BY <2>2, FS_Subset
  <2>4. QED
    BY <2>3
<1>1. Aboves \subseteq FiniteSubsetsOf(S) /\ Aboves # {}
  <2>1. \A n \in S : Above(n) \in SUBSET S
    OBVIOUS
  <2>2. \A n \in S : IsFiniteSet(Above(n))
    <3> HIDE DEF Above
    <3>1. QED
      BY <1>0, <2>1, FS_Subset
  <2>3. QED
    BY <2>1, <2>2 DEF FiniteSubsetsOf
<1>2. IsWellFoundedOn(StrictSubsetOrdering(S), FiniteSubsetsOf(S))
  BY FS_StrictSubsetOrderingWellFounded
<1>3. PICK B \in Aboves : \A C \in Aboves : ~ (<<C, B>> \in StrictSubsetOrdering(S))
  <2> HIDE DEF Aboves
  <2>1. QED
    BY <1>1, <1>2, WFMin
<1>4. PICK n \in S : B = Above(n)
  OBVIOUS
<1>5. ASSUME NEW k \in S, k > n PROVE FALSE
  <2>1. k \in Nat /\ n \in Nat
    BY <1>0
  <2>2. \A j \in S : j >= k => j >= n
    BY <1>0, <1>5, <2>1
  <2>3. n >= n /\ ~ (n >= k)
    BY <1>5, <2>1
  <2>4. Above(k) \subseteq Above(n) /\ n \in Above(n) /\ n \notin Above(k)
    BY <2>2, <2>3
  <2>5. <<Above(k), Above(n)>> \in StrictSubsetOrdering(S)
    BY <2>4 DEF StrictSubsetOrdering
  <2>6. Above(k) \in Aboves
    OBVIOUS
  <2>7. QED
    BY <1>3, <1>4, <2>5, <2>6
<1>6. \A k \in S : n >= k
  BY <1>0, <1>5
<1>7. QED
  BY <1>6 DEF M!Max

-----------------------------------------------------------------------------
\* A segment has its first place, and places behind it without a gap.
LEMMA FirstPlace ==
  ASSUME M!MiSegmentMapAssumption, MapTypes, SegmentsInside, NEW t \in Threads, NEW s \in owned[t]
  PROVE  /\ s[1] \in M!Places /\ s[1] \in M!Extent(s)
         /\ \A p \in M!Extent(s) : \A q \in M!Places : s[1] <= q /\ q <= p => q \in M!Extent(s)
<1>1. s[1] \in M!Places /\ s[2] \in Nat /\ s[2] > 0
  <2>1. s \in MapSegments
    BY DEF MapTypes
  <2>2. s[1] \in M!Places /\ s[2] \in Lengths
    BY <2>1 DEF MapSegments
  <2>3. s[2] \in Nat \ {0}
    BY <2>2 DEF M!MiSegmentMapAssumption
  <2>4. QED
    BY <2>2, <2>3
<1>2. s[1] \in Int
  BY <1>1 DEF M!Places
<1>3. QED
  BY <1>1, <1>2 DEF M!Extent, M!Places

\* Two segments that start at one place are one, and so are two with a place
\* in common.
LEMMA OneSegment ==
  ASSUME M!MiSegmentMapAssumption, MapTypes, SegmentsInside, SegmentsDisjoint,
         NEW t \in Threads, NEW u \in Threads, NEW s \in owned[t], NEW o \in owned[u],
         NEW p, p \in M!Extent(s), p \in M!Extent(o)
  PROVE  t = u /\ s = o
  BY DEF SegmentsDisjoint

LEMMA OneMark ==
  ASSUME M!MiSegmentMapAssumption, MapTypes, SegmentsInside, SegmentsDisjoint,
         NEW t \in Threads, NEW u \in Threads, NEW s \in owned[t], NEW o \in owned[u],
         M!Index(s[1]) = M!Index(o[1]), M!Bit(s[1]) = M!Bit(o[1])
  PROVE  t = u /\ s = o
  BY FirstPlace, SamePlace, OneSegment

LEMMA MapInit == ASSUME M!MiSegmentMapAssumption, M!Init PROVE MapInv
  BY DEF M!Init, MapInv, MapTypes, SegmentsDisjoint, SegmentsInside, MarksStand, MarksOwn,
     MapFinder, M!Idle, MapOp

\* A step of t that leaves the map and the segments alone, to a place where
\* it changes nothing or something of its own.
LEMMA QuietMapStep ==
  ASSUME M!MiSegmentMapAssumption, MapInv, NEW t \in Threads, NEW r \in MapOp, M!Becomes(t, r),
         UNCHANGED <<mi_segment_map, owned>>, MarksOwn(t)', MapFinder(t)'
  PROVE  MapInv'
<1>1. op' = [op EXCEPT ![t] = r] /\ mi_segment_map' = mi_segment_map /\ owned' = owned
  BY DEF M!Becomes
<1>2. MapTypes' /\ SegmentsDisjoint' /\ SegmentsInside' /\ MarksStand'
  BY <1>1 DEF MapInv, MapTypes, SegmentsDisjoint, SegmentsInside, MarksStand
<1>3. ASSUME NEW u \in Threads, u # t PROVE MarksOwn(u)' /\ MapFinder(u)'
  BY <1>1, <1>3 DEF MapInv, MapTypes, MarksOwn, MapFinder, Marked
<1>4. QED
  BY <1>2, <1>3 DEF MapInv

LEMMA MapAllocKeeps ==
  ASSUME M!MiSegmentMapAssumption, MapInv, NEW t \in Threads, NEW s \in MapSegments, M!Alloc(t, s)
  PROVE  MapInv'
<1> DEFINE r == [at |-> "update", segment |-> s, set |-> TRUE,
                 mask |-> mi_segment_map[M!Index(s[1])]]
<1>0. MapTypes /\ SegmentsDisjoint /\ SegmentsInside /\ MarksStand
  BY DEF MapInv
<1>1. /\ op' = [op EXCEPT ![t] = r] /\ mi_segment_map' = mi_segment_map
      /\ owned' = [owned EXCEPT ![t] = @ \cup {s}]
  BY DEF M!Alloc, M!Becomes
<1>2. r \in MapOp
  <2>1. s[1] \in M!Places
    BY DEF MapSegments
  <2>2. mi_segment_map[M!Index(s[1])] \in SUBSET (0 .. WordBits - 1)
    BY <1>0, <2>1, Division DEF MapTypes
  <2>3. QED
    BY <2>2 DEF MapOp
<1>3. MapTypes'
  BY <1>0, <1>1, <1>2 DEF MapTypes
<1>4. \A u \in Threads : \A o \in owned[u] : M!Extent(s) \cap M!Extent(o) = {}
  BY DEF M!Alloc, M!Mapped
<1>5. \A u \in Threads : \A o \in owned'[u] : o \in owned[u] \/ (u = t /\ o = s)
  BY <1>0, <1>1 DEF MapTypes
<1>6. \A u \in Threads : owned[u] \subseteq owned'[u]
  BY <1>0, <1>1 DEF MapTypes
<1>7. SegmentsDisjoint'
  BY <1>0, <1>4, <1>5 DEF SegmentsDisjoint
<1>8. SegmentsInside'
  BY <1>0, <1>5 DEF SegmentsInside, M!Alloc
<1>9. MarksStand'
  BY <1>0, <1>1, <1>6 DEF MarksStand
<1>10. ASSUME NEW u \in Threads PROVE MarksOwn(u)' /\ MapFinder(u)'
  <2>1. CASE u = t
    <3>1. op'[t] = r /\ s \in owned'[t] /\ op[t].at = "idle"
      BY <1>0, <1>1 DEF MapTypes, M!Alloc, M!Idle
    <3>2. QED
      BY <1>1, <1>5, <2>1, <3>1 DEF MapInv, MarksOwn, MapFinder, Marked
  <2>2. CASE u # t
    <3>1. op'[u] = op[u] /\ owned'[u] = owned[u]
      BY <1>0, <1>1, <2>2 DEF MapTypes
    <3>2. QED
      BY <1>1, <3>1 DEF MapInv, MarksOwn, MapFinder, Marked
  <2>3. QED
    BY <2>1, <2>2
<1>11. QED
  BY <1>3, <1>7, <1>8, <1>9, <1>10 DEF MapInv

LEMMA MapFreeKeeps ==
  ASSUME M!MiSegmentMapAssumption, MapInv, NEW t \in Threads, NEW s \in MapSegments, M!Free(t, s)
  PROVE  MapInv'
<1> DEFINE r == [at |-> "update", segment |-> s, set |-> FALSE,
                 mask |-> mi_segment_map[M!Index(s[1])]]
<1>1. s[1] \in M!Places
  BY DEF MapSegments
<1>2. mi_segment_map[M!Index(s[1])] \in SUBSET (0 .. WordBits - 1)
  BY <1>1, Division DEF MapInv, MapTypes
<1>3. r \in MapOp
  BY <1>2 DEF MapOp
<1>4. M!Becomes(t, r) /\ UNCHANGED <<mi_segment_map, owned>> /\ s \in owned[t] /\ op[t].at = "idle"
  BY DEF M!Free, M!Idle
<1>5. op'[t] = r
  BY <1>4 DEF M!Becomes, MapInv, MapTypes
<1>6. MarksOwn(t)' /\ MapFinder(t)'
  BY <1>4, <1>5 DEF MapInv, MarksOwn, MapFinder, Marked
<1>7. QED
  BY <1>3, <1>4, <1>6, QuietMapStep

LEMMA MapUnmapKeeps ==
  ASSUME M!MiSegmentMapAssumption, MapInv, NEW t \in Threads, M!Unmap(t)
  PROVE  MapInv'
<1> DEFINE s == op[t].segment
<1>0. MapTypes /\ SegmentsDisjoint /\ SegmentsInside /\ MarksStand /\ MarksOwn(t)
  BY DEF MapInv
<1>1. /\ op' = [op EXCEPT ![t] = M!Idle] /\ mi_segment_map' = mi_segment_map
      /\ owned' = [owned EXCEPT ![t] = @ \ {s}]
      /\ op[t].at = "unmap"
  BY DEF M!Unmap, M!Becomes
<1>2. s \in owned[t] /\ ~ Marked(s)
  BY <1>0, <1>1 DEF MarksOwn
<1>3. MapTypes'
  BY <1>0, <1>1 DEF MapTypes, MapOp, M!Idle
<1>4. \A u \in Threads :
        owned'[u] \subseteq owned[u] /\ \A o \in owned[u] : o \in owned'[u] \/ (u = t /\ o = s)
  BY <1>0, <1>1 DEF MapTypes
<1>5. SegmentsDisjoint' /\ SegmentsInside'
  BY <1>0, <1>4 DEF SegmentsDisjoint, SegmentsInside
<1>6. MarksStand'
  <2> SUFFICES ASSUME NEW w \in 0 .. Words - 1, NEW b \in mi_segment_map[w]
      PROVE  \E u \in Threads : \E o \in owned'[u] : M!Index(o[1]) = w /\ M!Bit(o[1]) = b
    BY <1>1 DEF MarksStand
  <2>1. PICK u \in Threads : \E o \in owned[u] : M!Index(o[1]) = w /\ M!Bit(o[1]) = b
    BY <1>0 DEF MarksStand
  <2>4. PICK o \in owned[u] : M!Index(o[1]) = w /\ M!Bit(o[1]) = b
    BY <2>1
  <2>2. o # s
    BY <1>2, <2>4 DEF Marked
  <2>3. QED
    BY <1>4, <2>4, <2>2
<1>7. ASSUME NEW u \in Threads PROVE MarksOwn(u)' /\ MapFinder(u)'
  <2>1. CASE u = t
    <3>1. op'[t] = M!Idle /\ owned'[t] = owned[t] \ {s}
      BY <1>0, <1>1 DEF MapTypes
    <3>2. QED
      BY <1>0, <1>1, <2>1, <3>1 DEF MarksOwn, MapFinder, Marked, M!Idle
  <2>2. CASE u # t
    <3>1. op'[u] = op[u] /\ owned'[u] = owned[u]
      BY <1>0, <1>1, <2>2 DEF MapTypes
    <3>2. QED
      BY <1>1, <3>1 DEF MapInv, MarksOwn, MapFinder, Marked
  <2>3. QED
    BY <2>1, <2>2
<1>8. QED
  BY <1>3, <1>5, <1>6, <1>7 DEF MapInv

LEMMA MapUpdateKeeps ==
  ASSUME M!MiSegmentMapAssumption, MapInv, NEW t \in Threads, M!Update(t)
  PROVE  MapInv'
<1>0. MapTypes /\ SegmentsDisjoint /\ SegmentsInside /\ MarksStand /\ MarksOwn(t)
  BY DEF MapInv
<1>1. op[t].at = "update" /\ owned' = owned /\ op[t] \in MapOp
  BY <1>0 DEF M!Update, MapTypes
<1>a. op[t].segment \in owned[t] /\ op[t].set \in BOOLEAN /\ op[t].segment \in MapSegments
  BY <1>0, <1>1 DEF MarksOwn, MapOp
<1>s. PICK s \in owned[t] : s = op[t].segment
  BY <1>a
<1>r. PICK set \in BOOLEAN : set = op[t].set
  BY <1>a
<1> DEFINE w == M!Index(s[1])
           b == M!Bit(s[1])
           next == IF set THEN M!Idle ELSE [at |-> "unmap", segment |-> s]
<1>2. s \in owned[t] /\ s \in MapSegments
  BY <1>a, <1>s
<1>3. w \in 0 .. Words - 1 /\ b \in 0 .. WordBits - 1
  BY <1>0, <1>2, Division DEF MapSegments
<1>4. CASE /\ mi_segment_map' = [mi_segment_map EXCEPT ![w] = IF set THEN @ \cup {b} ELSE @ \ {b}]
           /\ M!Becomes(t, next)
  <2>1. op' = [op EXCEPT ![t] = next] /\ next \in MapOp
    BY <1>2, <1>4 DEF M!Becomes, MapOp, M!Idle
  <2>2. MapTypes'
    BY <1>0, <1>1, <1>2, <1>3, <1>4, <2>1 DEF MapTypes
  <2>3. SegmentsDisjoint' /\ SegmentsInside'
    BY <1>0, <1>1 DEF SegmentsDisjoint, SegmentsInside
  <2>4. \A v \in 0 .. Words - 1 : \A c :
          c \in mi_segment_map'[v] <=> IF v = w /\ c = b THEN set ELSE c \in mi_segment_map[v]
    BY <1>0, <1>2, <1>3, <1>4 DEF MapTypes
  <2>5. MarksStand'
    <3> SUFFICES ASSUME NEW v \in 0 .. Words - 1, NEW c \in mi_segment_map'[v]
        PROVE  \E u \in Threads : \E o \in owned[u] : M!Index(o[1]) = v /\ M!Bit(o[1]) = c
      BY <1>1 DEF MarksStand
    <3>1. CASE v = w /\ c = b
      BY <1>2, <3>1
    <3>2. CASE ~ (v = w /\ c = b)
      BY <1>0, <2>4, <3>2 DEF MarksStand
    <3>3. QED
      BY <3>1, <3>2
  <2>6. ASSUME NEW u \in Threads, NEW o \in owned[u], ~ (u = t /\ o = s)
        PROVE  Marked(o)' <=> Marked(o)
    <3>1. o[1] \in M!Places
      BY <1>0 DEF MapTypes, MapSegments
    <3>2. ~ (M!Index(o[1]) = w /\ M!Bit(o[1]) = b)
      BY <1>0, <1>2, <2>6, OneMark
    <3>3. M!Index(o[1]) \in 0 .. Words - 1
      BY <3>1, Division
    <3>4. QED
      BY <2>4, <3>2, <3>3 DEF Marked
  <2>7. Marked(s)' <=> set
    BY <1>2, <1>3, <2>4 DEF Marked
  <2>8. ASSUME NEW u \in Threads PROVE MarksOwn(u)' /\ MapFinder(u)'
    <3>1. CASE u = t
      <4>1. op'[t] = next
        BY <1>0, <2>1 DEF MapTypes
      <4>2. \A o \in owned[t] : o # s => Marked(o)'
        BY <1>0, <1>1, <1>s, <2>6 DEF MarksOwn
      <4>3. MapFinder(t)'
        BY <4>1, <1>2 DEF MapFinder, M!Idle
      <4>4. CASE set
        <5>1. op'[t].at = "idle"
          BY <4>1, <4>4 DEF M!Idle
        <5>2. \A o \in owned[t] : Marked(o)'
          BY <2>7, <4>2, <4>4
        <5>3. QED
          BY <1>1, <3>1, <4>3, <5>1, <5>2 DEF MarksOwn, Marked
      <4>5. CASE ~ set
        <5>1. op'[t].at = "unmap" /\ op'[t].segment = s
          BY <4>1, <4>5
        <5>2. QED
          BY <1>1, <1>2, <2>7, <3>1, <4>2, <4>3, <4>5, <5>1 DEF MarksOwn, Marked
      <4>6. QED
        BY <3>1, <4>3, <4>4, <4>5
    <3>2. CASE u # t
      <4>1. op'[u] = op[u] /\ owned'[u] = owned[u]
        BY <1>0, <1>1, <2>1, <3>2 DEF MapTypes
      <4>2. \A o \in owned[u] : Marked(o)' <=> Marked(o)
        BY <2>6, <3>2
      <4>3. MarksOwn(u) /\ MapFinder(u)
        BY DEF MapInv
      <4>4. MarksOwn(u)'
        BY <4>1, <4>2, <4>3 DEF MarksOwn
      <4>5. MapFinder(u)'
        BY <4>1, <4>3 DEF MapFinder
      <4>6. QED
        BY <4>4, <4>5
    <3>3. QED
      BY <3>1, <3>2
  <2>9. QED
    BY <2>2, <2>3, <2>5, <2>8 DEF MapInv
<1>5. CASE M!Becomes(t, [op[t] EXCEPT !.mask = mi_segment_map[w]]) /\ UNCHANGED mi_segment_map
  <2> DEFINE q == [op[t] EXCEPT !.mask = mi_segment_map[w]]
  <2>1. q \in MapOp /\ q.at = "update" /\ q.segment = s
    BY <1>0, <1>1, <1>3, <1>s DEF MapTypes, MapOp
  <2>2. op'[t].at = "update" /\ op'[t].segment = s
    BY <1>0, <1>5, <2>1 DEF MapTypes, M!Becomes
  <2>3. MarksOwn(t)' /\ MapFinder(t)'
    BY <1>0, <1>1, <1>5, <1>s, <2>2 DEF MarksOwn, MapFinder, Marked
  <2>4. QED
    BY <1>1, <1>5, <2>1, <2>3, QuietMapStep
<1>6. QED
  BY <1>4, <1>5, <1>s, <1>r DEF M!Update

-----------------------------------------------------------------------------
\* The last mark below p in its word is that of the segment of p, when that
\* starts in the word.
LEMMA LastMark ==
  ASSUME M!MiSegmentMapAssumption, MapInv, NEW t \in Threads, NEW s \in owned[t], Marked(s),
         NEW p \in M!Extent(s), M!Index(p) = M!Index(s[1]),
         M!Bit(p) \notin mi_segment_map[M!Index(p)]
  PROVE  LET lobits == {b \in mi_segment_map[M!Index(p)] : b < M!Bit(p)} IN
         lobits # {} /\ M!Index(p) * WordBits + M!Max(lobits) = s[1]
<1> DEFINE lobits == {b \in mi_segment_map[M!Index(p)] : b < M!Bit(p)}
           base == M!Index(p) * WordBits
<1>1. MapTypes /\ SegmentsInside /\ SegmentsDisjoint /\ MarksStand
  BY DEF MapInv
<1>2. p \in M!Places /\ s[1] \in M!Places /\ s[1] <= p
  BY <1>1, FirstPlace DEF SegmentsInside, M!Extent
<1>3. /\ M!Index(p) \in 0 .. Words - 1 /\ M!Bit(p) \in Int /\ M!Bit(s[1]) \in Int
      /\ p = base + M!Bit(p) /\ s[1] = base + M!Bit(s[1])
  BY <1>2, Division
<1>4. base \in Int
  BY <1>3 DEF M!MiSegmentMapAssumption
<1>5. M!Bit(s[1]) # M!Bit(p)
  BY DEF Marked
<1>6. M!Bit(s[1]) < M!Bit(p)
  <2> HIDE DEF base
  <2>1. QED
    BY <1>2, <1>3, <1>4, <1>5
<1>7. M!Bit(s[1]) \in lobits
  BY <1>6 DEF Marked
<1>8. lobits \in SUBSET (0 .. WordBits - 1) /\ lobits # {}
  BY <1>1, <1>3, <1>7 DEF MapTypes
<1> DEFINE m == M!Max(lobits)
<1>9. m \in lobits /\ m >= M!Bit(s[1]) /\ m \in Int /\ m < M!Bit(p)
  <2>1. M!Max(lobits) \in lobits /\ \A k \in lobits : M!Max(lobits) >= k
    <3> HIDE DEF lobits
    <3>1. QED
      BY <1>8, MaxIsIn
  <2>2. QED
    BY <1>7, <1>8, <2>1
<1> HIDE DEF m
<1>10. PICK u \in Threads : \E o \in owned[u] : M!Index(o[1]) = M!Index(p) /\ M!Bit(o[1]) = m
  BY <1>1, <1>3, <1>9 DEF MarksStand
<1>11. PICK o \in owned[u] : M!Index(o[1]) = M!Index(p) /\ M!Bit(o[1]) = m
  BY <1>10
<1>12. o[1] = base + m /\ o[1] \in M!Places /\ o[1] \in M!Extent(o)
  BY <1>1, <1>11, FirstPlace, Division
<1>13. s[1] <= o[1] /\ o[1] <= p
  <2> HIDE DEF base
  <2>1. QED
    BY <1>3, <1>4, <1>9, <1>12
<1>14. o[1] \in M!Extent(s)
  BY <1>1, <1>12, <1>13, FirstPlace
<1>15. o = s
  BY <1>1, <1>12, <1>14, OneSegment
<1>16. QED
  BY <1>8, <1>12, <1>15 DEF m

\* A thread that has answered.
LEMMA AnswerKeeps ==
  ASSUME M!MiSegmentMapAssumption, MapInv, NEW t \in Threads, NEW p \in M!Places, NEW start \in Nat,
         op[t].at \in {"idle", "down", "reach"}, M!Answer(t, p, start), UNCHANGED <<mi_segment_map, owned>>,
         \A s \in owned[t] : p \in M!Extent(s) =>
           start \in {s[1], M!NoStart} /\ (M!Index(p) = M!Index(s[1]) => start = s[1])
  PROVE  MapInv'
<1> DEFINE r == [at |-> "answer", p |-> p, start |-> start]
<1>1. r \in MapOp /\ M!Becomes(t, r)
  BY DEF MapOp, M!Answer
<1>2. op'[t] = r
  BY <1>1 DEF M!Becomes, MapInv, MapTypes
<1>3. MarksOwn(t)' /\ MapFinder(t)'
  BY <1>2 DEF MapInv, MarksOwn, MapFinder, Marked
<1>4. QED
  BY <1>1, <1>3, QuietMapStep

\* A thread that follows the last mark of a set of bits of word w.
LEMMA FoundKeeps ==
  ASSUME M!MiSegmentMapAssumption, MapInv, NEW t \in Threads, NEW p \in M!Places,
         NEW w \in 0 .. Words - 1, NEW bits \in SUBSET mi_segment_map[w], bits # {},
         NEW start, start = w * WordBits + M!Max(bits), op[t].at \in {"idle", "down"},
         M!Found(t, p, start), UNCHANGED <<mi_segment_map, owned>>,
         \A s \in owned[t] : p \in M!Extent(s) /\ M!Index(p) = M!Index(s[1]) => start = s[1]
  PROVE  MapInv'
<1> DEFINE r == [at |-> "reach", p |-> p, start |-> start]
<1>1. bits \in SUBSET (0 .. WordBits - 1)
  BY DEF MapInv, MapTypes
<1>2. M!Max(bits) \in Nat
  <2>1. M!Max(bits) \in bits
    BY <1>1, MaxIsIn
  <2>2. \A k \in 0 .. WordBits - 1 : k \in Nat
    OBVIOUS
  <2>3. QED
    BY <1>1, <2>1, <2>2
<1>3. start \in Nat
  BY <1>2 DEF M!MiSegmentMapAssumption
<1>4. r \in MapOp /\ M!Becomes(t, r)
  BY <1>3 DEF MapOp, M!Found
<1>5. op'[t] = r
  BY <1>4 DEF M!Becomes, MapInv, MapTypes
<1>6. MarksOwn(t)' /\ MapFinder(t)'
  BY <1>5 DEF MapInv, MarksOwn, MapFinder, Marked
<1>7. QED
  BY <1>4, <1>6, QuietMapStep

LEMMA MapLookupKeeps ==
  ASSUME M!MiSegmentMapAssumption, MapInv, NEW t \in Threads, NEW p \in M!Places, M!Lookup(t, p)
  PROVE  MapInv'
<1> DEFINE mask == mi_segment_map[M!Index(p)]
           lobits == {b \in mask : b < M!Bit(p)}
           q == M!Index(p) * WordBits + M!Max(lobits)
           r == [at |-> "down", p |-> p, w |-> M!Index(p) - 1]
<1>0. MapTypes /\ SegmentsInside /\ SegmentsDisjoint /\ MarksStand /\ MarksOwn(t)
  BY DEF MapInv
<1>1. op[t].at = "idle" /\ UNCHANGED <<mi_segment_map, owned>>
  BY DEF M!Lookup, M!Idle
<1>2. M!Index(p) \in 0 .. Words - 1 /\ p \in Nat
  BY Division DEF M!Places
<1>3. \A s \in owned[t] : Marked(s)
  BY <1>0, <1>1 DEF MarksOwn
<1>4. ASSUME M!Bit(p) \notin mask, NEW s \in owned[t], p \in M!Extent(s), M!Index(p) = M!Index(s[1])
      PROVE  lobits # {} /\ q = s[1]
  BY <1>3, <1>4, LastMark
<1>5. CASE M!Bit(p) \in mask /\ M!Answer(t, p, p)
  <2>1. PICK u \in Threads : \E o \in owned[u] : M!Index(o[1]) = M!Index(p) /\ M!Bit(o[1]) = M!Bit(p)
    BY <1>0, <1>2, <1>5 DEF MarksStand
  <2>2. PICK o \in owned[u] : M!Index(o[1]) = M!Index(p) /\ M!Bit(o[1]) = M!Bit(p)
    BY <2>1
  <2>3. o[1] = p /\ p \in M!Extent(o)
    BY <1>0, <2>2, FirstPlace, SamePlace
  <2>4. \A s \in owned[t] : p \in M!Extent(s) => p = s[1]
    BY <1>0, <2>3, OneSegment
  <2>5. QED
    BY <1>1, <1>2, <1>5, <2>4, AnswerKeeps
<1>6. CASE M!Bit(p) \notin mask /\ lobits # {} /\ M!Found(t, p, q)
  <2>1. \A s \in owned[t] : p \in M!Extent(s) /\ M!Index(p) = M!Index(s[1]) => q = s[1]
    <3> HIDE DEF q, lobits, mask
    <3>1. QED
      BY <1>4, <1>6
  <2>2. lobits \in SUBSET mi_segment_map[M!Index(p)]
    OBVIOUS
  <2>3. PICK start : start = q
    OBVIOUS
  <2>4. start = M!Index(p) * WordBits + M!Max(lobits)
    BY <2>3
  <2>5. QED
    <3> HIDE DEF q, lobits
    <3>1. QED
      BY <1>1, <1>2, <1>6, <2>1, <2>2, <2>3, <2>4, FoundKeeps
<1>7. CASE M!Bit(p) \notin mask /\ lobits = {} /\ M!Answer(t, p, M!NoStart)
  <2>1. \A s \in owned[t] : p \in M!Extent(s) => M!Index(p) # M!Index(s[1])
    BY <1>4, <1>7
  <2>2. M!NoStart \in Nat
    BY DEF M!NoStart
  <2>3. QED
    BY <1>1, <1>7, <2>1, <2>2, AnswerKeeps
<1>8. CASE M!Bit(p) \notin mask /\ lobits = {} /\ M!Index(p) # 0 /\ M!Becomes(t, r)
  <2>1. \A s \in owned[t] : p \in M!Extent(s) => M!Index(s[1]) # M!Index(p)
    BY <1>4, <1>8
  <2>2. M!Index(p) - 1 \in 0 .. Words - 1 /\ M!Index(p) - 1 < M!Index(p)
    BY <1>2, <1>8 DEF M!MiSegmentMapAssumption
  <2>3. r \in MapOp
    BY <2>2 DEF MapOp
  <2>4. op'[t] = r
    BY <1>0, <1>8 DEF M!Becomes, MapTypes
  <2>5. MarksOwn(t)' /\ MapFinder(t)'
    BY <1>0, <1>1, <2>1, <2>2, <2>4 DEF MarksOwn, MapFinder, Marked
  <2>6. QED
    BY <1>1, <1>8, <2>3, <2>5, QuietMapStep
<1>9. QED
  BY <1>5, <1>6, <1>7, <1>8 DEF M!Lookup

LEMMA MapLookDownKeeps ==
  ASSUME M!MiSegmentMapAssumption, MapInv, NEW t \in Threads, M!LookDown(t)
  PROVE  MapInv'
<1>0. MapTypes /\ MarksOwn(t) /\ MapFinder(t) /\ op[t].at = "down"
      /\ UNCHANGED <<mi_segment_map, owned>>
  BY DEF MapInv, M!LookDown
<1>1. PICK p \in M!Places : p = op[t].p
  BY <1>0 DEF MapTypes, MapOp
<1>2. PICK w \in 0 .. Words - 1 : w = op[t].w
  BY <1>0 DEF MapTypes, MapOp
<1> DEFINE q == w * WordBits + M!Max(mi_segment_map[w])
<1>3. w < M!Index(p) /\ \A s \in owned[t] : p \in M!Extent(s) => M!Index(s[1]) # M!Index(p)
  BY <1>0, <1>1, <1>2 DEF MapFinder
<1>4. CASE w > 0 /\ M!Becomes(t, [op[t] EXCEPT !.w = @ - 1])
  <2>1. w - 1 \in 0 .. Words - 1 /\ w - 1 < M!Index(p)
    BY <1>1, <1>3, <1>4, Division DEF M!MiSegmentMapAssumption
  <2> DEFINE r == [at |-> "down", p |-> p, w |-> w - 1]
  <2>2. [op[t] EXCEPT !.w = @ - 1] = r
    BY <1>0, <1>1, <1>2 DEF MapTypes, MapOp
  <2>3. r \in MapOp /\ M!Becomes(t, r)
    BY <1>4, <2>1, <2>2 DEF MapOp
  <2>4. op'[t] = r
    BY <1>0, <2>3 DEF M!Becomes, MapTypes
  <2>5. MarksOwn(t)' /\ MapFinder(t)'
    BY <1>0, <1>3, <2>1, <2>4 DEF MarksOwn, MapFinder, Marked
  <2>6. QED
    BY <1>0, <2>3, <2>5, QuietMapStep
<1>5. CASE M!Answer(t, p, M!NoStart)
  <2>1. M!NoStart \in Nat
    BY DEF M!NoStart
  <2>2. QED
    BY <1>0, <1>3, <1>5, <2>1, AnswerKeeps
<1>6. CASE mi_segment_map[w] # {} /\ M!Found(t, p, q)
  <2>1. PICK start : start = q
    OBVIOUS
  <2>2. start = w * WordBits + M!Max(mi_segment_map[w])
    BY <2>1
  <2> HIDE DEF q
  <2>3. QED
    BY <1>0, <1>3, <1>6, <2>1, <2>2, FoundKeeps
<1>7. QED
  BY <1>1, <1>2, <1>4, <1>5, <1>6 DEF M!LookDown

\* The mark is that of the segment of p, or p's segment does not start in the
\* word of p; and no other segment reaches p.
LEMMA MapReachKeeps ==
  ASSUME M!MiSegmentMapAssumption, MapInv, NEW t \in Threads, M!Reach(t)
  PROVE  MapInv'
<1>0. /\ MapTypes /\ SegmentsInside /\ SegmentsDisjoint /\ MarksOwn(t) /\ MapFinder(t)
      /\ op[t].at = "reach" /\ UNCHANGED <<mi_segment_map, owned>>
  BY DEF MapInv, M!Reach
<1>1. PICK p \in M!Places : p = op[t].p
  BY <1>0 DEF MapTypes, MapOp
<1>2. PICK start \in Nat : start = op[t].start
  BY <1>0 DEF MapTypes, MapOp
<1>3. \A s \in owned[t] : p \in M!Extent(s) /\ M!Index(p) = M!Index(s[1]) => start = s[1]
  BY <1>0, <1>1, <1>2 DEF MapFinder
<1>4. M!NoStart \in Nat
  BY DEF M!NoStart
<1>5. ASSUME NEW s \in owned[t], p \in M!Extent(s), NEW o \in M!Mapped, o[1] = start,
             p \in M!Extent(o) \/ start = s[1]
      PROVE  o = s
  <2>1. PICK u \in Threads : o \in owned[u]
    BY DEF M!Mapped
  <2>2. CASE p \in M!Extent(o)
    BY <1>0, <1>5, <2>1, <2>2, OneSegment
  <2>3. CASE start = s[1]
    <3>1. s[1] \in M!Extent(s) /\ s[1] \in M!Extent(o)
      BY <1>0, <1>5, <2>1, <2>3, FirstPlace
    <3>2. QED
      BY <1>0, <2>1, <3>1, OneSegment
  <2>4. QED
    BY <1>5, <2>2, <2>3
<1>6. CASE (\A s \in M!Mapped : s[1] # start) /\ M!Becomes(t, [at |-> "lost", p |-> p])
  <2> DEFINE r == [at |-> "lost", p |-> p]
  <2>1. r \in MapOp /\ M!Becomes(t, r)
    BY <1>6 DEF MapOp
  <2>2. op'[t] = r
    BY <1>0, <2>1 DEF M!Becomes, MapTypes
  <2>3. \A s \in owned[t] : p \in M!Extent(s) => M!Index(p) # M!Index(s[1])
    BY <1>3, <1>6 DEF M!Mapped
  <2>4. MarksOwn(t)' /\ MapFinder(t)'
    BY <1>0, <2>2, <2>3 DEF MarksOwn, MapFinder, Marked
  <2>5. QED
    BY <1>0, <2>1, <2>4, QuietMapStep
<1>7. ASSUME NEW o \in M!Mapped, o[1] = start, p \in M!Extent(o), M!Answer(t, p, start)
      PROVE  MapInv'
  <2>1. \A s \in owned[t] : p \in M!Extent(s) => start = s[1]
    BY <1>5, <1>7
  <2>2. QED
    BY <1>0, <1>7, <2>1, AnswerKeeps
<1>8. ASSUME NEW o \in M!Mapped, o[1] = start, p \notin M!Extent(o) \/ o \notin owned[t],
             M!Answer(t, p, M!NoStart)
      PROVE  MapInv'
  <2>1. ASSUME NEW s \in owned[t], p \in M!Extent(s) PROVE M!Index(p) # M!Index(s[1])
    BY <1>3, <1>5, <1>8, <2>1
  <2>2. QED
    BY <1>0, <1>4, <1>8, <2>1, AnswerKeeps
<1>9. QED
  BY <1>1, <1>2, <1>6, <1>7, <1>8 DEF M!Reach

LEMMA MapReturnKeeps ==
  ASSUME M!MiSegmentMapAssumption, MapInv, NEW t \in Threads, M!Return(t)
  PROVE  MapInv'
<1>1. M!Idle \in MapOp /\ M!Becomes(t, M!Idle) /\ UNCHANGED <<mi_segment_map, owned>>
      /\ op[t].at \in {"answer", "lost"}
  BY DEF M!Return, MapOp, M!Idle
<1>2. op'[t] = M!Idle
  BY <1>1 DEF M!Becomes, MapInv, MapTypes
<1>3. MarksOwn(t)' /\ MapFinder(t)'
  BY <1>1, <1>2 DEF MapInv, MarksOwn, MapFinder, Marked, M!Idle
<1>4. QED
  BY <1>1, <1>3, QuietMapStep

LEMMA MapNext == ASSUME M!MiSegmentMapAssumption, MapInv, [M!Next]_M!vars PROVE MapInv'
<1>1. CASE UNCHANGED M!vars
  <2>1. MapTypes' /\ SegmentsDisjoint' /\ SegmentsInside' /\ MarksStand'
    BY <1>1 DEF M!vars, MapInv, MapTypes, SegmentsDisjoint, SegmentsInside, MarksStand
  <2>2. \A t \in Threads : MarksOwn(t)' /\ MapFinder(t)'
    BY <1>1 DEF M!vars, MapInv, MarksOwn, MapFinder, Marked
  <2>3. QED
    BY <2>1, <2>2 DEF MapInv
<1>2. CASE M!Next
  <2>1. \A t \in Threads, s \in MapSegments : M!Alloc(t, s) \/ M!Free(t, s) => MapInv'
    BY MapAllocKeeps, MapFreeKeeps
  <2>2. QED
    BY <1>2, <2>1, MapUpdateKeeps, MapUnmapKeeps, MapLookupKeeps, MapLookDownKeeps, MapReachKeeps,
       MapReturnKeeps
    DEF M!Next, MapSegments
<1>3. QED
  BY <1>1, <1>2

LEMMA MapInvFinds == ASSUME M!MiSegmentMapAssumption, MapInv PROVE M!MapFinds
<1>1. \A s \in M!Mapped \ M!Changing : Marked(s)
  BY DEF MapInv, MarksOwn, M!Mapped, M!Changing
<1>2. ASSUME NEW p \in M!Places, M!Bit(p) \in mi_segment_map[M!Index(p)]
      PROVE  \E s \in M!Mapped : s[1] = p
  <2>1. M!Index(p) \in 0 .. Words - 1
    BY Division
  <2>2. PICK t \in Threads : \E s \in owned[t] : M!Index(s[1]) = M!Index(p) /\ M!Bit(s[1]) = M!Bit(p)
    BY <1>2, <2>1 DEF MapInv, MarksStand
  <2>3. PICK s \in owned[t] : M!Index(s[1]) = M!Index(p) /\ M!Bit(s[1]) = M!Bit(p)
    BY <2>2
  <2>4. s[1] = p
    BY <2>3, FirstPlace, SamePlace DEF MapInv
  <2>5. QED
    BY <2>4 DEF M!Mapped
<1>3. QED
  BY <1>1, <1>2 DEF M!MapFinds, Marked, MapInv, MapFinder

LEMMA MapSteps == ASSUME [ServicesNext]_everything PROVE [M!Next]_M!vars
<1>1. CASE SegmentMap
  BY <1>1 DEF SegmentMap
<1>2. CASE AbandonedLists \/ PageQueues \/ Os \/ ThreadData
  BY <1>2 DEF AbandonedLists, PageQueues, Os, ThreadData, Others, mapVars, M!vars
<1>3. CASE UNCHANGED everything
  BY <1>3 DEF everything, mapVars, M!vars
<1>4. QED
  BY <1>1, <1>2, <1>3 DEF ServicesNext

\* The map has the bits of the segments in use and no others, whatever threads
\* mark and unmark at a time; a thread finds its segment from a pointer into the
\* word it starts in, without a look at any other's header, and from one further
\* in finds no other segment (_mi_segment_of, segment-map.c 79 to 124).
THEOREM Found == ServicesSpec => []MapFinds
<1>1. ServicesInit => MapInv
  BY MiServicesAssumption, MapInit DEF ServicesInit
<1>2. MapInv /\ [ServicesNext]_everything => MapInv'
  BY MiServicesAssumption, MapSteps, MapNext
<1>3. MapInv => MapFinds
  BY MiServicesAssumption, MapInvFinds DEF MapFinds
<1>4. QED
  BY <1>1, <1>2, <1>3, PTL DEF ServicesSpec

-----------------------------------------------------------------------------
(* The operating system layer.  Each block knows enough of how it was      *)
(* mapped for the free to find exactly that again (OsBlock), whichever     *)
(* system it runs on; nothing lies in the area of huge pages above the     *)
(* first unclaimed one (OsHugeFree); and a range that is rounded inwards   *)
(* has only pages of its own, one rounded outwards only the block's.       *)

OsPages == 1 .. O!Top

\* What every block is: inside the address space, with room for what was asked
\* for, and such that the free gives back what it has and nothing else.
OsBlock(h) ==
  /\ h \in [kind : {"OS", "OS_HUGE"}, p : Nat, size : Nat, base : Nat, got : SUBSET OsPages,
            usable : SUBSET Nat, expect : SUBSET Nat, lost : SUBSET Nat]
  /\ \A q \in Int : h.p <= q /\ 2 * q < 2 * h.p + h.size => q \in h.got
  /\ O!LeftOf(h) = {} /\ O!Beyond(h) = {}
  /\ h.usable \subseteq O!Units(h.got) /\ h.expect \subseteq O!Units(h.got)

OsHugeFree ==
  /\ mi_huge_start \in Nat \ {0}
  /\ \A q \in OsPages : q > Low + (mi_huge_start - 1) * O!HugeSize => prot[q] = "unmapped"

OsTypes ==
  /\ system \in {"unix", "unix debug", "windows"}
  /\ prot \in [OsPages -> {"unmapped", "none", "rw"}]
  /\ \A h \in held : OsBlock(h)

OsInv == OsTypes /\ OsHugeFree /\ O!MappedIsHeld /\ O!UsableIsIntact

-----------------------------------------------------------------------------
\* Rounding.

LEMMA OsAlignUpIs ==
  ASSUME NEW n \in Nat, NEW al \in Nat \ {0}
  PROVE  O!AlignUp(n, al) \in Nat /\ O!AlignUp(n, al) >= n /\ O!AlignUp(n, al) < n + al
<1> DEFINE k == (n + al - 1) \div al
           r == (n + al - 1) % al
<1>1. n + al - 1 = al * k + r /\ r \in 0 .. al - 1 /\ k \in Int
  OBVIOUS
<1>2. k * al = al * k /\ k * al \in Int
  BY <1>1
<1> HIDE DEF k, r
<1>3. k * al >= n /\ k * al < n + al
  BY <1>1, <1>2
<1>4. O!AlignUp(n, al) = k * al
  BY DEF O!AlignUp, k
<1>5. QED
  BY <1>2, <1>3, <1>4

LEMMA OsGoodIs ==
  ASSUME NEW size \in Nat
  PROVE  /\ O!GoodPages(size) \in Nat /\ O!GoodSize(size) = 2 * O!GoodPages(size)
         /\ size <= 2 * O!GoodPages(size)
         /\ size % 4 = 0 => O!GoodSize(size) = size
  BY DEF O!GoodPages, O!GoodSize, O!AlignUp

LEMMA OsHalfIs ==
  ASSUME NEW u \in Nat
  PROVE  /\ u \div 2 \in Nat
         /\ u = 2 * (u \div 2) \/ u = 2 * (u \div 2) + 1
  OBVIOUS

LEMMA OsUnitsAre ==
  ASSUME NEW pages \in SUBSET Nat, NEW u
  PROVE  u \in O!Units(pages) <=> u \in Nat /\ u \div 2 \in pages
<1>1. ASSUME u \in O!Units(pages) PROVE u \in Nat /\ u \div 2 \in pages
  <2>1. PICK p \in pages : u \in {2 * p, 2 * p + 1}
    BY <1>1 DEF O!Units
  <2>2. QED
    BY <2>1
<1>2. ASSUME u \in Nat, u \div 2 \in pages PROVE u \in O!Units(pages)
  <2>1. u \in {2 * (u \div 2), 2 * (u \div 2) + 1}
    BY <1>2, OsHalfIs
  <2>2. QED
    BY <1>2, <2>1 DEF O!Units
<1>3. QED
  BY <1>1, <1>2

LEMMA OsIntervalIs ==
  ASSUME NEW p \in Int, NEW n \in Int
  PROVE  \A q : q \in O!Interval(p, n) <=> q \in Int /\ p <= q /\ q < p + n
  BY DEF O!Interval

\* The units of a range lie in its pages.
LEMMA OsRangeIn ==
  ASSUME NEW p \in Nat, NEW size \in Nat, NEW got \in SUBSET Nat,
         \A q \in Int : p <= q /\ 2 * q < 2 * p + size => q \in got
  PROVE  O!Interval(2 * p, size) \subseteq O!Units(got)
<1>1. ASSUME NEW u \in O!Interval(2 * p, size) PROVE u \in O!Units(got)
  <2>1. u \in Nat /\ 2 * p <= u /\ u < 2 * p + size
    BY OsIntervalIs
  <2>2. p <= u \div 2 /\ 2 * (u \div 2) < 2 * p + size
    BY <2>1, OsHalfIs
  <2>3. QED
    BY <2>1, <2>2, OsHalfIs, OsUnitsAre
<1>2. QED
  BY <1>1

-----------------------------------------------------------------------------
\* What the system gives.

LEMMA OsTopIs == ASSUME O!OsAssumption PROVE O!Top \in Nat /\ Low <= O!Top /\ OsPages \subseteq Nat
  BY DEF O!OsAssumption, O!Top, O!HugeSize, OsPages

LEMMA OsPlacedIs ==
  ASSUME O!OsAssumption, NEW n \in Nat, NEW b \in O!Placed(n)
  PROVE  /\ b \in Nat \ {0}
         /\ \A q : q \in O!Interval(b, n) <=> q \in Int /\ b <= q /\ q < b + n
         /\ \A q \in O!Interval(b, n) : q \in OsPages /\ q <= Low /\ prot[q] = "unmapped"
<1>1. b \in 1 .. Low /\ b + n - 1 <= Low /\ \A q \in O!Interval(b, n) : prot[q] = "unmapped"
  BY DEF O!Placed
<1>2. b \in Nat \ {0}
  BY <1>1
<1>3. \A q : q \in O!Interval(b, n) <=> q \in Int /\ b <= q /\ q < b + n
  BY <1>2, OsIntervalIs
<1>4. ASSUME NEW q \in O!Interval(b, n) PROVE q \in OsPages /\ q <= Low
  BY <1>1, <1>2, <1>3, OsTopIs DEF OsPages, O!OsAssumption
<1>5. QED
  BY <1>1, <1>2, <1>3, <1>4

\* A region for n pages from r.p.
OsRegion(r, n) ==
  /\ r.p \in Nat \ {0} /\ r.base \in Nat \ {0} /\ r.base <= r.p
  /\ \A q \in r.got : q \in OsPages /\ q <= Low /\ prot[q] = "unmapped"
  /\ \A q \in Int : r.p <= q /\ q < r.p + n => q \in r.got
  /\ ~O!must_free_whole => r.base = r.p /\ r.got = O!Interval(r.p, n)
  /\ O!must_free_whole => r.base \in r.got \/ r.got = {}

LEMMA OsPlacedRegion ==
  ASSUME O!OsAssumption, NEW n \in Nat, NEW b \in O!Placed(n)
  PROVE  OsRegion(O!Region(b, b, O!Interval(b, n)), n)
<1> DEFINE r == O!Region(b, b, O!Interval(b, n))
<1>1. r.p = b /\ r.base = b /\ r.got = O!Interval(b, n)
  BY DEF O!Region
<1>2. b \in O!Interval(b, n) \/ O!Interval(b, n) = {}
  BY OsPlacedIs
<1> HIDE DEF r
<1>3. QED
  <2>1. OsRegion(r, n)
    BY <1>1, <1>2, OsPlacedIs DEF OsRegion
  <2>2. QED
    BY <2>1 DEF r

\* More is mapped and what is around the aligned part unmapped.
LEMMA OsTrimmedRegion ==
  ASSUME O!OsAssumption, NEW n \in Nat, NEW al \in Nat \ {0}, NEW b \in O!Placed(n + al)
  PROVE  LET q == O!AlignUp(b, al)
             over == n + al
         IN  OsRegion(IF O!must_free_whole THEN O!Region(q, b, O!Interval(b, over))
                      ELSE O!Region(q, q, (O!Interval(b, over) \ O!Interval(b, q - b))
                                          \ O!Interval(q + n, over - (q - b) - n)), n)
<1> DEFINE q == O!AlignUp(b, al)
           over == n + al
           whole == O!Region(q, b, O!Interval(b, over))
           kept == (O!Interval(b, over) \ O!Interval(b, q - b)) \ O!Interval(q + n, over - (q - b) - n)
           trimmed == O!Region(q, q, kept)
<1>1. /\ b \in Nat \ {0} /\ over \in Nat
      /\ \A x : x \in O!Interval(b, over) <=> x \in Int /\ b <= x /\ x < b + over
      /\ \A x \in O!Interval(b, over) : x \in OsPages /\ x <= Low /\ prot[x] = "unmapped"
  BY OsPlacedIs
<1>2. q \in Nat \ {0} /\ b <= q /\ q < b + al
  <2>1. b \in Nat /\ b > 0
    BY <1>1
  <2>2. q \in Nat /\ q >= b /\ q < b + al
    BY <2>1, OsAlignUpIs
  <2> HIDE DEF q
  <2>3. QED
    BY <2>1, <2>2
<1> HIDE DEF q
<1>3. CASE O!must_free_whole
  <2>1. whole.p = q /\ whole.base = b /\ whole.got = O!Interval(b, over)
    BY DEF O!Region
  <2>2. b \in O!Interval(b, over)
    BY <1>1
  <2>3. \A x \in Int : q <= x /\ x < q + n => x \in O!Interval(b, over)
    BY <1>1, <1>2
  <2> HIDE DEF whole
  <2>4. OsRegion(whole, n)
    BY <1>1, <1>2, <1>3, <2>1, <2>2, <2>3 DEF OsRegion
  <2>5. QED
    BY <1>3, <2>4 DEF whole, q
<1>4. CASE ~O!must_free_whole
  <2>1. trimmed.p = q /\ trimmed.base = q /\ trimmed.got = kept
    BY DEF O!Region
  <2>2. /\ \A x : x \in O!Interval(b, q - b) <=> x \in Int /\ b <= x /\ x < q
        /\ \A x : x \in O!Interval(q + n, over - (q - b) - n) <=>
                    x \in Int /\ q + n <= x /\ x < b + over
        /\ \A x : x \in O!Interval(q, n) <=> x \in Int /\ q <= x /\ x < q + n
    <3>1. q - b \in Int /\ q + n \in Int /\ over - (q - b) - n \in Int
      BY <1>1, <1>2
    <3>2. b + (q - b) = q /\ (q + n) + (over - (q - b) - n) = b + over
      BY <1>1, <1>2
    <3>3. QED
      BY <1>1, <1>2, <3>1, <3>2, OsIntervalIs
  <2>3. kept = O!Interval(q, n)
    <3>1. \A x : x \in kept <=> x \in O!Interval(q, n)
      BY <1>1, <1>2, <2>2
    <3>2. QED
      BY <3>1
  <2>4. \A x \in kept : x \in OsPages /\ x <= Low /\ prot[x] = "unmapped"
    BY <1>1
  <2> HIDE DEF trimmed, kept
  <2>5. OsRegion(trimmed, n)
    BY <1>1, <1>2, <1>4, <2>1, <2>2, <2>3, <2>4 DEF OsRegion
  <2>6. QED
    BY <1>4, <2>5 DEF trimmed, kept, q
<1>5. QED
  BY <1>3, <1>4

LEMMA OsAlignedIs ==
  ASSUME O!OsAssumption, NEW n \in Nat, NEW al \in Nat \ {0}, NEW r \in O!Aligned(n, al)
  PROVE  OsRegion(r, n)
<1>1. CASE r \in {O!Region(b, b, O!Interval(b, n)) : b \in {c \in O!Placed(n) : c % al = 0}}
  BY <1>1, OsPlacedRegion
<1>2. CASE \E b \in O!Placed(n + al) :
             r = LET q == O!AlignUp(b, al)
                     over == n + al
                 IN  IF O!must_free_whole THEN O!Region(q, b, O!Interval(b, over))
                     ELSE O!Region(q, q, (O!Interval(b, over) \ O!Interval(b, q - b))
                                         \ O!Interval(q + n, over - (q - b) - n))
  BY <1>2, OsTrimmedRegion
<1>3. QED
  BY <1>1, <1>2 DEF O!Aligned

-----------------------------------------------------------------------------
\* A step with one block.

LEMMA OsBlockStill ==
  ASSUME system' = system
  PROVE  \A h : OsBlock(h)' <=> OsBlock(h)
  BY DEF OsBlock, O!LeftOf, O!Beyond, O!Unmapped, O!must_free_whole

LEMMA OsBlockUnits ==
  ASSUME O!OsAssumption, NEW h, OsBlock(h)
  PROVE  /\ h.got \subseteq Nat
         /\ \A u \in h.usable \cup h.expect : u \in Nat /\ u \div 2 \in h.got
  BY OsTopIs, OsUnitsAre DEF OsBlock

\* A block that has been mapped where nothing was.
LEMMA OsHoldKeeps ==
  ASSUME O!OsAssumption, OsInv, NEW h, OsBlock(h), NEW open \in SUBSET h.got,
         \A q \in h.got : prot[q] = "unmapped",
         h.usable \ h.lost \subseteq O!Units(open), h.expect = h.usable,
         held' = held \cup {h}, data' = data \cup (h.usable \ h.lost),
         prot' = [q \in 1 .. O!Top |-> IF q \in open THEN "rw"
                                     ELSE IF q \in h.got THEN "none" ELSE prot[q]],
         system' = system, OsHugeFree'
  PROVE  OsInv'
<1>1. h.got \subseteq OsPages /\ h.got \subseteq Nat
  BY OsBlockUnits DEF OsBlock
<1>2. /\ prot' \in [OsPages -> {"unmapped", "none", "rw"}]
      /\ \A q \in OsPages : q \notin h.got => prot'[q] = prot[q]
      /\ \A q \in h.got : prot'[q] # "unmapped"
      /\ \A q \in open : prot'[q] = "rw"
  BY <1>1 DEF OsInv, OsTypes, OsPages
<1>3. OsTypes'
  BY <1>2, OsBlockStill DEF OsInv, OsTypes
<1>4. \A g \in held : g.got \cap h.got = {}
  BY <1>1 DEF OsInv, O!MappedIsHeld, OsPages
<1>5. O!MappedIsHeld'
  <2>1. \A f, g \in held' : f # g => f.got \cap g.got = {}
    BY <1>4 DEF OsInv, O!MappedIsHeld
  <2>2. \A q : q \in UNION {g.got : g \in held'} <=> q \in h.got \/ q \in UNION {g.got : g \in held}
    OBVIOUS
  <2>3. \A q \in OsPages : prot'[q] # "unmapped" <=> q \in h.got \/ prot[q] # "unmapped"
    BY <1>2
  <2>4. \A q : q \in UNION {g.got : g \in held} <=> q \in OsPages /\ prot[q] # "unmapped"
    BY DEF OsInv, O!MappedIsHeld, OsPages
  <2>5. {q \in 1 .. O!Top : prot'[q] # "unmapped"} = UNION {g.got : g \in held'}
    BY <1>1, <2>2, <2>3, <2>4 DEF OsPages
  <2>6. QED
    BY <2>1, <2>5 DEF O!MappedIsHeld
<1>6. O!UsableIsIntact'
  <2>1. ASSUME NEW g \in held
        PROVE  /\ \A u \in g.usable \ g.lost : prot'[u \div 2] = "rw"
               /\ g.expect \subseteq data' \cup g.lost
    <3>1. OsBlock(g)
      BY DEF OsInv, OsTypes
    <3>2. \A u \in g.usable : u \div 2 \in g.got /\ u \div 2 \in OsPages
      BY <3>1, OsBlockUnits DEF OsBlock
    <3>3. QED
      BY <1>2, <1>4, <3>2 DEF OsInv, O!UsableIsIntact
  <2>2. /\ \A u \in h.usable \ h.lost : prot'[u \div 2] = "rw"
        /\ h.expect \subseteq data' \cup h.lost
    <3>1. open \in SUBSET Nat
      BY <1>1
    <3>2. \A u \in h.usable \ h.lost : u \div 2 \in open
      BY <3>1, OsUnitsAre
    <3>3. QED
      BY <1>2, <3>2
  <2>3. QED
    BY <2>1, <2>2 DEF O!UsableIsIntact
<1>7. QED
  BY <1>3, <1>5, <1>6 DEF OsInv

\* A block h whose pages and units are used anew, as g.
LEMMA OsBecomesKeeps ==
  ASSUME O!OsAssumption, OsInv, NEW h \in held, NEW use, NEW expect, NEW lost \in SUBSET h.lost,
         O!Becomes(h, use, expect, lost), use \subseteq O!Units(h.got), expect \subseteq O!Units(h.got),
         prot' \in [OsPages -> {"unmapped", "none", "rw"}],
         \A q \in h.got : prot'[q] # "unmapped",
         \A q \in OsPages \ h.got : prot'[q] = prot[q],
         \A u \in Nat : u \div 2 \notin h.got /\ u \in data => u \in data',
         \A u \in use \ lost : prot'[u \div 2] = "rw",
         expect \subseteq data' \cup lost,
         system' = system, mi_huge_start' = mi_huge_start
  PROVE  OsInv'
<1> DEFINE g == [h EXCEPT !.usable = use, !.expect = expect, !.lost = lost]
<1>1. OsBlock(h) /\ h.got \subseteq OsPages /\ h.got \subseteq Nat
  BY OsBlockUnits DEF OsInv, OsTypes, OsBlock
<1>2. /\ g.got = h.got /\ g.usable = use /\ g.expect = expect /\ g.lost = lost
      /\ g.kind = h.kind /\ g.p = h.p /\ g.size = h.size /\ g.base = h.base
      /\ g \in [kind : {"OS", "OS_HUGE"}, p : Nat, size : Nat, base : Nat,
                got : SUBSET OsPages, usable : SUBSET Nat, expect : SUBSET Nat,
                lost : SUBSET Nat]
  <2>1. use \subseteq Nat /\ expect \subseteq Nat
    BY <1>1, OsUnitsAre
  <2>2. QED
    BY <1>1, <2>1 DEF OsBlock
<1>3. held' = (held \ {h}) \cup {g}
  BY DEF O!Becomes
<1> HIDE DEF g
<1>4. OsBlock(g)
  BY <1>1, <1>2 DEF OsBlock, O!LeftOf, O!Beyond
<1>5. OsTypes'
  BY <1>3, <1>4, OsBlockStill DEF OsInv, OsTypes
<1>6. \A q \in OsPages : prot'[q] # "unmapped" <=> prot[q] # "unmapped"
  BY <1>1 DEF OsInv, O!MappedIsHeld, OsPages
<1>7. OsHugeFree'
  BY <1>6 DEF OsInv, OsHugeFree
<1>8. O!MappedIsHeld'
  <2>1. \A e, f \in held' : e # f => e.got \cap f.got = {}
    BY <1>2, <1>3 DEF OsInv, O!MappedIsHeld
  <2>2. UNION {f.got : f \in held'} = UNION {f.got : f \in held}
    BY <1>2, <1>3
  <2>3. {q \in 1 .. O!Top : prot'[q] # "unmapped"} = {q \in 1 .. O!Top : prot[q] # "unmapped"}
    BY <1>6 DEF OsPages
  <2>4. QED
    BY <2>1, <2>2, <2>3 DEF OsInv, O!MappedIsHeld
<1>9. O!UsableIsIntact'
  <2>1. ASSUME NEW f \in held, f # h
        PROVE  /\ \A u \in f.usable \ f.lost : prot'[u \div 2] = "rw"
               /\ f.expect \subseteq data' \cup f.lost
    <3>1. OsBlock(f) /\ f.got \cap h.got = {}
      BY <2>1 DEF OsInv, OsTypes, O!MappedIsHeld
    <3>2. \A u \in f.usable \cup f.expect :
            u \in Nat /\ u \div 2 \in OsPages /\ u \div 2 \notin h.got
      BY <3>1, OsBlockUnits DEF OsBlock
    <3>3. QED
      BY <3>2 DEF OsInv, O!UsableIsIntact
  <2>2. QED
    BY <1>2, <1>3, <2>1 DEF O!UsableIsIntact
<1>10. QED
  BY <1>5, <1>7, <1>8, <1>9 DEF OsInv

-----------------------------------------------------------------------------
\* The allocations.

LEMMA OsRegionIs == ASSUME NEW p, NEW b, NEW got
                  PROVE  LET r == O!Region(p, b, got) IN r.p = p /\ r.base = b /\ r.got = got
  BY DEF O!Region

\* A block for size units at p in the region r, which the free finds again.
OsFits(kind, p, size, r) ==
  /\ r.base \in Nat
  /\ \A q \in r.got : q \in OsPages /\ prot[q] = "unmapped"
  /\ \A q \in Int : p <= q /\ 2 * q < 2 * p + size => q \in r.got
  /\ \A h : /\ h.kind = kind /\ h.p = p /\ h.size = size /\ h.base = r.base /\ h.got = r.got
            => O!LeftOf(h) = {} /\ O!Beyond(h) = {}

LEMMA OsHolds ==
  ASSUME O!OsAssumption, OsInv, NEW kind \in {"OS", "OS_HUGE"}, NEW p \in Nat, NEW size \in Nat,
         NEW r, OsFits(kind, p, size, r), NEW open \in SUBSET r.got, NEW use \in SUBSET O!Units(r.got),
         NEW lost \in SUBSET use, NEW wrote \in SUBSET O!Units(open), wrote = use \ lost,
         O!Map(r, open, wrote), O!Hold(kind, r, p, size, use, lost), system' = system, OsHugeFree'
  PROVE  OsInv'
<1> DEFINE h == [kind |-> kind, p |-> p, size |-> size, base |-> r.base, got |-> r.got,
                 usable |-> use, expect |-> use, lost |-> lost]
<1>1. /\ h.kind = kind /\ h.p = p /\ h.size = size /\ h.base = r.base /\ h.got = r.got
      /\ h.usable = use /\ h.expect = use /\ h.lost = lost
      /\ h \in [kind : {"OS", "OS_HUGE"}, p : Nat, size : Nat, base : Nat,
                got : SUBSET OsPages, usable : SUBSET Nat, expect : SUBSET Nat,
                lost : SUBSET Nat]
  <2>1. r.got \in SUBSET Nat
    BY OsTopIs DEF OsFits
  <2>2. use \subseteq Nat
    BY <2>1, OsUnitsAre
  <2>3. QED
    BY <2>2 DEF OsFits
<1>2. held' = held \cup {h}
  BY DEF O!Hold
<1> HIDE DEF h
<1>3. h.usable \ h.lost = wrote
  BY <1>1
<1>4. OsBlock(h)
  BY <1>1 DEF OsBlock, OsFits
<1>5. QED
  BY <1>1, <1>2, <1>3, <1>4, OsHoldKeeps DEF O!Map, OsFits

\* The free of a block of the system's, at the base its memid has or at p.
LEMMA OsFound ==
  ASSUME NEW h, h.kind = "OS", NEW base \in Nat, base = IF h.base = 0 THEN h.p ELSE h.base,
         ~O!must_free_whole => h.got = O!Interval(base, O!GoodPages(h.size) + (h.p - base)),
         O!must_free_whole => base \in h.got \/ h.got = {}
  PROVE  O!LeftOf(h) = {} /\ O!Beyond(h) = {}
<1>1. O!LeftOf(h) = O!Unmapped(h.got, base, O!GoodPages(h.size) + (h.p - base))
  BY DEF O!LeftOf
<1>2. O!Beyond(h) = IF O!must_free_whole THEN {}
                  ELSE O!Interval(base, O!GoodPages(h.size) + (h.p - base)) \ h.got
  BY DEF O!Beyond
<1>3. CASE O!must_free_whole
  BY <1>1, <1>2, <1>3 DEF O!Unmapped, O!UnmappedWindows
<1>4. CASE ~O!must_free_whole
  BY <1>1, <1>2, <1>4 DEF O!Unmapped, O!UnmappedUnix
<1>5. QED
  BY <1>3, <1>4

\* Nothing is mapped in the area of huge pages but by AllocHuge.
LEMMA OsLowAlone ==
  ASSUME O!OsAssumption, OsInv, NEW r, NEW open \in SUBSET r.got, NEW use, O!Map(r, open, use),
         \A q \in r.got : q \in OsPages /\ q <= Low, mi_huge_start' = mi_huge_start
  PROVE  OsHugeFree'
<1>1. mi_huge_start \in Nat \ {0} /\ Low \in Nat
  BY DEF OsInv, OsHugeFree, O!OsAssumption
<1>2. \A q \in OsPages : q > Low + (mi_huge_start - 1) * O!HugeSize => q > Low
  BY <1>1 DEF O!HugeSize, OsPages
<1>3. \A q \in OsPages : q > Low => prot'[q] = prot[q]
  BY <1>1 DEF O!Map, OsPages
<1>4. QED
  BY <1>1, <1>2, <1>3 DEF OsInv, OsHugeFree

LEMMA OsAllocKeeps ==
  ASSUME O!OsAssumption, OsInv, NEW size \in Sizes, O!Alloc(size) PROVE OsInv'
<1> DEFINE n == O!GoodPages(size)
<1>1. size \in Nat /\ n \in Nat /\ size <= 2 * n
  BY OsGoodIs DEF O!OsAssumption
<1>2. PICK p \in O!Placed(n) :
        LET r == O!Region(p, 0, O!Interval(p, n))
            use == O!Interval(2 * p, size)
        IN  O!Map(r, r.got, use) /\ O!Hold("OS", r, p, size, use, {})
  BY DEF O!Alloc
<1>3. PICK r : r = O!Region(p, 0, O!Interval(p, n))
  OBVIOUS
<1>4. r.p = p /\ r.base = 0 /\ r.got = O!Interval(p, n)
  BY <1>3, OsRegionIs
<1> DEFINE use == O!Interval(2 * p, size)
<1>5. O!Map(r, r.got, use) /\ O!Hold("OS", r, p, size, use, {})
  BY <1>2, <1>3
<1> HIDE DEF n
<1>6. /\ p \in Nat /\ p # 0
      /\ \A q : q \in r.got <=> q \in Int /\ p <= q /\ q < p + n
      /\ \A q \in r.got : q \in OsPages /\ q <= Low /\ prot[q] = "unmapped"
  BY <1>1, <1>4, OsPlacedIs
<1>7. \A q \in Int : p <= q /\ 2 * q < 2 * p + size => q \in r.got
  BY <1>1, <1>6
<1>8. use \subseteq O!Units(r.got)
  BY <1>1, <1>6, <1>7, OsRangeIn, OsTopIs
<1>9. ASSUME NEW h, h.kind = "OS", h.p = p, h.size = size, h.base = r.base, h.got = r.got
      PROVE  O!LeftOf(h) = {} /\ O!Beyond(h) = {}
  <2>1. O!GoodPages(h.size) + (h.p - p) = n
    BY <1>1, <1>6, <1>9 DEF n
  <2>2. p \in h.got \/ h.got = {}
    BY <1>1, <1>6, <1>9
  <2>3. QED
    BY <1>4, <1>6, <1>9, <2>1, <2>2, OsFound
<1>10. system' = system /\ mi_huge_start' = mi_huge_start
  BY DEF O!Alloc
<1> HIDE DEF use
<1>11. OsHugeFree'
  BY <1>5, <1>6, <1>10, OsLowAlone
<1>12. OsFits("OS", p, size, r)
  BY <1>4, <1>6, <1>7, <1>9 DEF OsFits
<1>13. QED
  BY <1>1, <1>5, <1>6, <1>8, <1>10, <1>11, <1>12, OsHolds

\* Aligned memory, at whose start the block is.
LEMMA OsAllocAlignedKeeps ==
  ASSUME O!OsAssumption, OsInv, NEW size \in Sizes, NEW al \in PageAlignments, NEW commit \in BOOLEAN,
         O!AllocAligned(size, al, commit)
  PROVE  OsInv'
<1> DEFINE n == O!GoodPages(size)
<1>1. size \in Nat /\ n \in Nat /\ size <= 2 * n /\ al \in Nat \ {0}
  BY OsGoodIs DEF O!OsAssumption
<1>2. PICK r \in O!Aligned(n, al), fails \in BOOLEAN :
        LET use == IF commit THEN O!Interval(2 * r.p, size) ELSE {}
            lost == IF fails THEN use ELSE {}
            open == IF commit /\ ~fails THEN O!Interval(r.p, n) ELSE {}
        IN  /\ O!Map(r, open, use \ lost)
            /\ O!Hold("OS", r, r.p, size, use, lost)
  BY DEF O!AllocAligned
<1> DEFINE use == IF commit THEN O!Interval(2 * r.p, size) ELSE {}
           lost == IF fails THEN use ELSE {}
           wrote == use \ lost
           open == IF commit /\ ~fails THEN O!Interval(r.p, n) ELSE {}
<1>3. O!Map(r, open, wrote) /\ O!Hold("OS", r, r.p, size, use, lost)
  BY <1>2
<1> HIDE DEF n
<1>4. OsRegion(r, n) /\ r.p \in Nat /\ r.p # 0
  BY <1>1, <1>2, OsAlignedIs DEF OsRegion
<1>5. \A q : q \in O!Interval(r.p, n) <=> q \in Int /\ r.p <= q /\ q < r.p + n
  BY <1>1, <1>4, OsIntervalIs
<1>6. open \in SUBSET r.got
  BY <1>4, <1>5 DEF OsRegion
<1>7. /\ use \in SUBSET O!Units(r.got) /\ lost \in SUBSET use
      /\ wrote \in SUBSET O!Units(open)
  <2>1. use \in SUBSET O!Units(r.got)
    <3>1. \A q \in Int : r.p <= q /\ 2 * q < 2 * r.p + size => q \in r.got
      BY <1>1, <1>4 DEF OsRegion
    <3>2. r.got \in SUBSET Nat
      BY <1>4, OsTopIs DEF OsRegion
    <3>3. QED
      BY <1>1, <1>4, <3>1, <3>2, OsRangeIn
  <2>2. CASE commit /\ ~fails
    <3>1. \A q \in Int : r.p <= q /\ 2 * q < 2 * r.p + size => q \in open
      BY <1>1, <1>4, <1>5, <2>2
    <3>2. open \in SUBSET Nat
      BY <1>4, <1>5
    <3> HIDE DEF open
    <3>3. QED
      BY <1>1, <1>4, <2>1, <2>2, <3>1, <3>2, OsRangeIn
  <2>3. QED
    BY <2>1, <2>2
<1>8. ASSUME NEW h, h.kind = "OS", h.p = r.p, h.size = size, h.base = r.base, h.got = r.got
      PROVE  O!LeftOf(h) = {} /\ O!Beyond(h) = {}
  <2>1. r.base \in Nat /\ r.base # 0 /\ r.base = IF h.base = 0 THEN h.p ELSE h.base
    BY <1>4, <1>8 DEF OsRegion
  <2>2. ~O!must_free_whole => O!GoodPages(h.size) + (h.p - r.base) = n /\ r.got = O!Interval(r.base, n)
    BY <1>1, <1>4, <1>8 DEF n, OsRegion
  <2>3. O!must_free_whole => r.base \in r.got \/ r.got = {}
    BY <1>4 DEF OsRegion
  <2>4. QED
    BY <1>8, <2>1, <2>2, <2>3, OsFound
<1>9. system' = system /\ mi_huge_start' = mi_huge_start
  BY DEF O!AllocAligned
<1>10. OsFits("OS", r.p, size, r)
  <2>1. \A q \in Int : r.p <= q /\ 2 * q < 2 * r.p + size => q \in r.got
    BY <1>1, <1>4 DEF OsRegion
  <2>2. QED
    BY <1>8, <2>1, <1>4 DEF OsFits, OsRegion
<1>10a. wrote = use \ lost
  OBVIOUS
<1> HIDE DEF use, lost, wrote, open
<1>11. OsHugeFree'
  BY <1>3, <1>4, <1>6, <1>9, OsLowAlone DEF OsRegion
<1>12. QED
  BY <1>1, <1>3, <1>4, <1>6, <1>7, <1>9, <1>10, <1>11, <1>10a, OsHolds

\* Sizes of whole segments are good sizes, with what is in front of them too.
LEMMA OsGoodSums ==
  ASSUME NEW size \in Nat, NEW extra \in Nat, size % 4 = 0, (2 * extra) % 4 = 0
  PROVE  O!GoodPages(size + 2 * extra) = O!GoodPages(size) + extra
<1>1. (size + 2 * extra) % 4 = 0
  OBVIOUS
<1>2. O!GoodSize(size) = size /\ O!GoodSize(size + 2 * extra) = size + 2 * extra
  <2>1. size + 2 * extra \in Nat
    OBVIOUS
  <2>2. QED
    BY <1>1, <2>1, OsGoodIs
<1>3. O!GoodPages(size) = size \div 2 /\ O!GoodPages(size + 2 * extra) = (size + 2 * extra) \div 2
  BY <1>2 DEF O!GoodPages
<1>4. QED
  BY <1>3

LEMMA OsAllocAlignedAtOffsetKeeps ==
  ASSUME O!OsAssumption, OsInv, NEW size \in Sizes, NEW al \in PageAlignments, NEW offset \in 1 .. 4,
         NEW commit \in BOOLEAN, O!AllocAlignedAtOffset(size, al, offset, commit)
  PROVE  OsInv'
<1> DEFINE extra == O!AlignUp(offset, al) - offset
           n == O!GoodPages(size + 2 * extra)
<1>1. size \in Nat /\ al \in Nat \ {0} /\ extra \in Nat
  <2>1. offset \in Nat /\ size \in Nat /\ al \in Nat \ {0}
    BY DEF O!OsAssumption
  <2>2. O!AlignUp(offset, al) \in Nat /\ O!AlignUp(offset, al) >= offset
    BY <2>1, OsAlignUpIs
  <2>3. QED
    BY <2>1, <2>2
<1>2. /\ size % 4 = 0 /\ (2 * extra) % 4 = 0
      /\ \E r \in O!Aligned(n, al), fails \in BOOLEAN :
           LET p == r.p + extra
               use == IF commit THEN O!Interval(2 * p, size) ELSE {}
               lost == IF fails THEN use ELSE {}
               front == IF extra > 1 /\ O!needs_recommit THEN O!Interval(r.p, extra) ELSE {}
               open == IF commit /\ ~fails THEN O!Interval(r.p, n) \ front ELSE {}
           IN  /\ O!Map(r, open, use \ lost)
               /\ O!Hold("OS", r, p, size, use, lost)
      /\ system' = system /\ mi_huge_start' = mi_huge_start
  BY DEF O!AllocAlignedAtOffset
<1> HIDE DEF extra
<1>3. n = O!GoodPages(size) + extra /\ O!GoodPages(size) \in Nat /\ size <= 2 * O!GoodPages(size)
  BY <1>1, <1>2, OsGoodSums, OsGoodIs
<1> DEFINE m == O!GoodPages(size)
<1>4. n \in Nat
  BY <1>1, <1>3
<1>5. PICK r \in O!Aligned(n, al), fails \in BOOLEAN :
         LET p == r.p + extra
             use == IF commit THEN O!Interval(2 * p, size) ELSE {}
             lost == IF fails THEN use ELSE {}
             front == IF extra > 1 /\ O!needs_recommit THEN O!Interval(r.p, extra) ELSE {}
             open == IF commit /\ ~fails THEN O!Interval(r.p, n) \ front ELSE {}
         IN  /\ O!Map(r, open, use \ lost)
             /\ O!Hold("OS", r, p, size, use, lost)
  BY <1>2
<1> DEFINE p == r.p + extra
           use == IF commit THEN O!Interval(2 * p, size) ELSE {}
           lost == IF fails THEN use ELSE {}
           wrote == use \ lost
           front == IF extra > 1 /\ O!needs_recommit THEN O!Interval(r.p, extra) ELSE {}
           open == IF commit /\ ~fails THEN O!Interval(r.p, n) \ front ELSE {}
<1>6. O!Map(r, open, wrote) /\ O!Hold("OS", r, p, size, use, lost)
  BY <1>5
<1> HIDE DEF n
<1>7. OsRegion(r, n) /\ r.p \in Nat /\ r.p # 0
  BY <1>1, <1>4, <1>5, OsAlignedIs DEF OsRegion
<1>8. /\ \A q : q \in O!Interval(r.p, n) <=> q \in Int /\ r.p <= q /\ q < r.p + n
      /\ \A q : q \in O!Interval(r.p, extra) <=> q \in Int /\ r.p <= q /\ q < r.p + extra
  BY <1>1, <1>4, <1>7, OsIntervalIs
<1>9. open \in SUBSET r.got
  BY <1>7, <1>8 DEF OsRegion
<1> HIDE DEF m
<1>10. p \in Nat /\ m \in Nat /\ size <= 2 * m /\ r.p + n = p + m /\ p = r.p + extra
  BY <1>1, <1>3, <1>7 DEF m
<1>11. /\ use \in SUBSET O!Units(r.got) /\ lost \in SUBSET use
       /\ wrote \in SUBSET O!Units(open)
  <2>3. use \in SUBSET O!Units(r.got)
    <3>1. \A q \in Int : p <= q /\ 2 * q < 2 * p + size => q \in r.got
      <4> HIDE DEF p
      <4>1. ASSUME NEW q \in Int, p <= q, 2 * q < 2 * p + size PROVE q \in r.got
        <5>1. r.p <= q /\ q < r.p + n
          BY <1>1, <1>7, <1>10, <4>1
        <5>2. QED
          BY <1>7, <5>1 DEF OsRegion
      <4>2. QED
        BY <4>1
    <3>2. r.got \in SUBSET Nat
      BY <1>7, OsTopIs DEF OsRegion
    <3> HIDE DEF p
    <3>3. QED
      BY <1>1, <1>10, <3>1, <3>2, OsRangeIn
  <2>1. CASE commit /\ ~fails
    <3>1. \A q \in Int : p <= q /\ 2 * q < 2 * p + size => q \in open
      <4> HIDE DEF p
      <4>1. ASSUME NEW q \in Int, p <= q, 2 * q < 2 * p + size PROVE q \in open
        <5>1. r.p <= q /\ q < r.p + n /\ ~(q < r.p + extra)
          BY <1>1, <1>7, <1>10, <4>1
        <5>2. QED
          BY <1>8, <2>1, <5>1
      <4>2. QED
        BY <4>1
    <3>2. open \in SUBSET Nat
      BY <1>7, <1>8
    <3> HIDE DEF open, p
    <3>3. QED
      BY <1>1, <1>10, <2>1, <2>3, <3>1, <3>2, OsRangeIn
  <2>2. QED
    BY <2>1, <2>3
<1>11a. wrote = use \ lost
  OBVIOUS
<1> HIDE DEF use, lost, wrote, open, p
<1>12. ASSUME NEW h, h.kind = "OS", h.p = p, h.size = size, h.base = r.base, h.got = r.got
      PROVE  O!LeftOf(h) = {} /\ O!Beyond(h) = {}
  <2>1. r.base \in Nat /\ r.base # 0 /\ r.base = IF h.base = 0 THEN h.p ELSE h.base
    BY <1>7, <1>12 DEF OsRegion
  <2>2. ~O!must_free_whole => O!GoodPages(h.size) + (h.p - r.base) = n /\ r.got = O!Interval(r.base, n)
    <3>1. ~O!must_free_whole => r.base = r.p /\ r.got = O!Interval(r.p, n)
      BY <1>7 DEF OsRegion
    <3>2. O!GoodPages(h.size) + (h.p - r.p) = n
      BY <1>1, <1>3, <1>7, <1>10, <1>12 DEF m
    <3>3. QED
      BY <3>1, <3>2
  <2>3. O!must_free_whole => r.base \in r.got \/ r.got = {}
    BY <1>7 DEF OsRegion
  <2>4. QED
    BY <1>12, <2>1, <2>2, <2>3, OsFound
<1>13. OsFits("OS", p, size, r)
  <2>1. ASSUME NEW q \in Int, p <= q, 2 * q < 2 * p + size PROVE q \in r.got
    <3>1. r.p <= q /\ q < r.p + n
      BY <1>1, <1>7, <1>10, <2>1
    <3>2. QED
      BY <1>7, <3>1 DEF OsRegion
  <2>2. r.base \in Nat /\ \A q \in r.got : q \in OsPages /\ prot[q] = "unmapped"
    BY <1>7 DEF OsRegion
  <2>3. QED
    BY <1>12, <2>1, <2>2 DEF OsFits
<1>14. OsHugeFree'
  BY <1>2, <1>6, <1>7, <1>9, OsLowAlone DEF OsRegion
<1>15. QED
  BY <1>1, <1>2, <1>6, <1>9, <1>10, <1>11, <1>13, <1>14, <1>11a, OsHolds

LEMMA OsHugeSizes ==
  ASSUME NEW pgs \in Nat
  PROVE  /\ O!GoodPages(2 * pgs * O!HugeSize) = pgs * O!HugeSize
         /\ O!AlignDown(pgs * O!HugeSize, O!HugeSize) = pgs * O!HugeSize
         /\ pgs * O!HugeSize \in Nat
<1>1. O!HugeSize = 2 /\ pgs * O!HugeSize = 2 * pgs /\ 2 * pgs * O!HugeSize = 4 * pgs
  BY DEF O!HugeSize
<1>2. (4 * pgs) % 4 = 0 /\ 4 * pgs \in Nat
  OBVIOUS
<1>3. O!GoodSize(4 * pgs) = 4 * pgs
  BY <1>2, OsGoodIs
<1>4. O!GoodPages(4 * pgs) = 2 * pgs
  BY <1>3 DEF O!GoodPages
<1>5. O!AlignDown(2 * pgs, 2) = 2 * pgs
  BY DEF O!AlignDown
<1>6. QED
  BY <1>1, <1>4, <1>5

LEMMA OsAllocHugeKeeps ==
  ASSUME O!OsAssumption, OsInv, NEW n \in 1 .. HugePages, O!AllocHuge(n) PROVE OsInv'
<1> DEFINE start == Low + 1 + (mi_huge_start - 1) * O!HugeSize
<1>1. /\ n \in Nat /\ n # 0 /\ mi_huge_start \in Nat /\ mi_huge_start # 0 /\ Low \in Nat
      /\ mi_huge_start + n <= HugePages + 1 /\ mi_huge_start' = mi_huge_start + n
      /\ HugePages \in Nat /\ system' = system /\ O!HugeSize = 2
  BY DEF O!AllocHuge, O!OsAssumption, OsInv, OsHugeFree, O!HugeSize
<1>2. start \in Nat /\ start = Low + 1 + (mi_huge_start - 1) * 2 /\ start + n * 2 <= O!Top + 1
  BY <1>1 DEF O!Top
<1>3. \A q \in OsPages : q >= start => prot[q] = "unmapped"
  BY <1>1 DEF OsInv, OsHugeFree, OsPages
<1>4. \A q \in OsPages : q > Low + (mi_huge_start' - 1) * O!HugeSize => q >= start + n * 2
  BY <1>1, <1>2 DEF OsPages
<1>5. mi_huge_start' \in Nat \ {0}
  BY <1>1
<1>6. PICK pgs \in 0 .. n :
        IF pgs = 0 THEN UNCHANGED <<prot, data, held>>
        ELSE LET r == O!Region(start, 0, O!Interval(start, pgs * O!HugeSize))
                 use == O!Units(r.got)
             IN  /\ O!Map(r, r.got, use)
                 /\ O!Hold("OS_HUGE", r, start, 2 * pgs * O!HugeSize, use, {})
  BY DEF O!AllocHuge
<1> HIDE DEF start
<1>7. CASE pgs = 0
  <2>1. OsHugeFree'
    BY <1>1, <1>2, <1>3, <1>4, <1>5, <1>6, <1>7 DEF OsHugeFree, OsPages
  <2>2. OsTypes'
    BY <1>1, <1>6, <1>7, OsBlockStill DEF OsInv, OsTypes
  <2>3. O!MappedIsHeld' /\ O!UsableIsIntact'
    BY <1>6, <1>7 DEF OsInv, O!MappedIsHeld, O!UsableIsIntact
  <2>4. QED
    BY <2>1, <2>2, <2>3 DEF OsInv
<1>8. CASE pgs # 0
  <2>1. pgs \in Nat /\ pgs * O!HugeSize = 2 * pgs /\ pgs <= n
    BY <1>1
  <2>2. PICK r : r = O!Region(start, 0, O!Interval(start, pgs * O!HugeSize))
    OBVIOUS
  <2>3. r.p = start /\ r.base = 0 /\ r.got = O!Interval(start, pgs * O!HugeSize)
    BY <2>2, OsRegionIs
  <2> DEFINE use == O!Units(r.got)
             size == 2 * pgs * O!HugeSize
  <2>4. O!Map(r, r.got, use) /\ O!Hold("OS_HUGE", r, start, size, use, {})
    BY <1>6, <1>8, <2>2
  <2>5. \A q : q \in r.got <=> q \in Int /\ start <= q /\ q < start + 2 * pgs
    BY <1>2, <2>1, <2>3, OsIntervalIs
  <2>6. \A q \in r.got : q \in OsPages /\ prot[q] = "unmapped"
    BY <1>1, <1>2, <1>3, <2>1, <2>5, OsTopIs DEF OsPages
  <2>7. size = 4 * pgs /\ size \in Nat
    BY <1>1, <2>1
  <2> HIDE DEF size
  <2>8. ASSUME NEW h, h.kind = "OS_HUGE", h.p = start, h.size = size, h.base = 0, h.got = r.got
        PROVE  O!LeftOf(h) = {} /\ O!Beyond(h) = {}
    <3>1. O!GoodPages(h.size) + (h.p - start) = pgs * O!HugeSize
      BY <1>2, <2>1, <2>8, OsHugeSizes DEF size
    <3>2. O!LeftOf(h) = h.got \ O!Interval(start, O!AlignDown(pgs * O!HugeSize, O!HugeSize))
      BY <2>8, <3>1 DEF O!LeftOf
    <3>3. O!Beyond(h) \subseteq O!Interval(start, pgs * O!HugeSize) \ h.got
      BY <2>8, <3>1 DEF O!Beyond
    <3>4. QED
      BY <2>1, <2>3, <2>8, <3>2, <3>3, OsHugeSizes
  <2>9. OsFits("OS_HUGE", start, size, r)
    <3>1. \A q \in Int : start <= q /\ 2 * q < 2 * start + size => q \in r.got
      BY <1>2, <2>1, <2>5, <2>7
    <3>2. QED
      BY <2>3, <2>6, <2>8, <3>1 DEF OsFits
  <2>10. OsHugeFree'
    <3>1. \A q \in OsPages : q >= start + n * 2 => q \notin r.got
      BY <1>1, <1>2, <2>1, <2>5 DEF OsPages
    <3>2. \A q \in OsPages : q \notin r.got => prot'[q] = prot[q]
      BY <2>4 DEF O!Map, OsPages
    <3>3. \A q \in OsPages : q >= start + n * 2 => q >= start
      BY <1>1, <1>2 DEF OsPages
    <3>4. QED
      BY <1>3, <1>4, <1>5, <3>1, <3>2, <3>3 DEF OsHugeFree
  <2>11. r.got \in SUBSET r.got /\ use \in SUBSET O!Units(r.got)
    OBVIOUS
  <2> HIDE DEF use
  <2>12. QED
    BY <1>1, <1>2, <2>4, <2>7, <2>9, <2>10, <2>11, OsHolds
<1>9. QED
  BY <1>7, <1>8

-----------------------------------------------------------------------------
\* The free unmaps what the block had.

LEMMA OsFreeKeeps == ASSUME O!OsAssumption, OsInv, NEW h \in held, O!Free(h) PROVE OsInv'
<1>1. OsBlock(h) /\ h.got \subseteq OsPages /\ h.got \subseteq Nat
  BY OsBlockUnits DEF OsInv, OsTypes, OsBlock
<1>2. /\ prot' = [q \in 1 .. O!Top |-> IF q \in h.got THEN "unmapped" ELSE prot[q]]
      /\ data' = data \ (O!Units(h.got) \cup h.expect)
      /\ held' = held \ {h} /\ system' = system /\ mi_huge_start' = mi_huge_start
  <2>1. (h.got \ O!LeftOf(h)) \cup O!Beyond(h) = h.got
    BY <1>1 DEF OsBlock
  <2>2. QED
    BY <2>1 DEF O!Free
<1>3. /\ prot' \in [OsPages -> {"unmapped", "none", "rw"}]
      /\ \A q \in OsPages : prot'[q] = IF q \in h.got THEN "unmapped" ELSE prot[q]
  BY <1>2 DEF OsInv, OsTypes, OsPages
<1>4. OsTypes'
  BY <1>2, <1>3, OsBlockStill DEF OsInv, OsTypes
<1>5. OsHugeFree'
  BY <1>2, <1>3 DEF OsInv, OsHugeFree
<1>6. O!MappedIsHeld'
  <2>1. \A f, g \in held' : f # g => f.got \cap g.got = {}
    BY <1>2 DEF OsInv, O!MappedIsHeld
  <2>2. \A q : q \in UNION {g.got : g \in held} <=> q \in OsPages /\ prot[q] # "unmapped"
    BY DEF OsInv, O!MappedIsHeld, OsPages
  <2>3. \A q : q \in UNION {g.got : g \in held'} <=>
                 q \in UNION {g.got : g \in held} /\ q \notin h.got
    BY <1>2 DEF OsInv, O!MappedIsHeld
  <2>4. {q \in 1 .. O!Top : prot'[q] # "unmapped"} = UNION {g.got : g \in held'}
    BY <1>3, <2>2, <2>3 DEF OsPages
  <2>5. QED
    BY <2>1, <2>4 DEF O!MappedIsHeld
<1>7. O!UsableIsIntact'
  <2>1. ASSUME NEW g \in held, g # h
        PROVE  /\ \A u \in g.usable \ g.lost : prot'[u \div 2] = "rw"
               /\ g.expect \subseteq data' \cup g.lost
    <3>1. OsBlock(g) /\ g.got \cap h.got = {}
      BY <2>1 DEF OsInv, OsTypes, O!MappedIsHeld
    <3>2. \A u \in g.usable \cup g.expect :
            u \in Nat /\ u \div 2 \in OsPages /\ u \div 2 \notin h.got
      BY <3>1, OsBlockUnits DEF OsBlock
    <3>3. \A u \in g.expect : u \notin O!Units(h.got) /\ u \notin h.expect
      BY <1>1, <3>2, OsBlockUnits, OsUnitsAre
    <3>4. QED
      BY <1>2, <1>3, <3>2, <3>3 DEF OsInv, O!UsableIsIntact
  <2>2. QED
    BY <1>2, <2>1 DEF O!UsableIsIntact
<1>8. QED
  BY <1>4, <1>5, <1>6, <1>7 DEF OsInv

-----------------------------------------------------------------------------
\* The ranges of a block: the pages inside a range have only units of it, and
\* all its units are in the pages around it, which the block has.

LEMMA OsRoundedIs ==
  ASSUME O!OsAssumption, OsInv, NEW h \in held, NEW r \in Ranges, O!Within(h, r)
  PROVE  /\ OsBlock(h) /\ h.got \subseteq OsPages /\ h.got \subseteq Nat
         /\ \A q \in h.got : prot[q] # "unmapped"
         /\ O!RangeUnits(h, r) \subseteq O!Units(h.got)
         /\ O!Outwards(h, r) \subseteq h.got /\ O!Inwards(h, r) \subseteq h.got
         /\ \A u \in O!RangeUnits(h, r) : u \in Nat /\ u \div 2 \in O!Outwards(h, r)
         /\ \A u \in Nat : u \div 2 \in O!Inwards(h, r) => u \in O!RangeUnits(h, r)
         /\ prot \in [OsPages -> {"unmapped", "none", "rw"}]
<1>1. /\ OsBlock(h) /\ h.got \subseteq OsPages /\ h.got \subseteq Nat /\ h.p \in Nat
      /\ h.size \in Nat
      /\ \A q \in Int : h.p <= q /\ 2 * q < 2 * h.p + h.size => q \in h.got
  BY OsBlockUnits DEF OsInv, OsTypes, OsBlock
<1>2. r[1] \in Nat /\ r[2] \in Nat /\ r[1] + r[2] <= h.size
  BY DEF O!OsAssumption, O!Within
<1> DEFINE from == 2 * h.p + r[1]
           to == from + r[2]
<1>3. from \in Nat /\ to \in Nat /\ 2 * h.p <= from /\ to <= 2 * h.p + h.size /\ from <= to
  BY <1>1, <1>2
<1>4. /\ \A u : u \in O!RangeUnits(h, r) <=> u \in Int /\ from <= u /\ u < to
      /\ O!Outwards(h, r) = from \div 2 .. O!AlignUp(to, 2) \div 2 - 1
      /\ O!Inwards(h, r) = O!AlignUp(from, 2) \div 2 .. to \div 2 - 1
  <2>1. O!RangeUnits(h, r) = O!Interval(from, r[2])
    BY DEF O!RangeUnits
  <2>2. QED
    BY <1>2, <1>3, <2>1, OsIntervalIs DEF O!Outwards, O!Inwards
<1> HIDE DEF from, to
<1>5. /\ O!AlignUp(to, 2) \div 2 = (to + 1) \div 2 /\ O!AlignUp(from, 2) \div 2 = (from + 1) \div 2
  BY <1>3 DEF O!AlignUp
<1>6. ASSUME NEW q \in O!Outwards(h, r) PROVE q \in h.got
  <2>1. q \in Int /\ from \div 2 <= q /\ q <= (to + 1) \div 2 - 1
    BY <1>3, <1>4, <1>5
  <2>2. h.p <= q /\ 2 * q < to
    BY <1>1, <1>3, <2>1
  <2>3. QED
    BY <1>1, <1>3, <2>1, <2>2
<1>7. ASSUME NEW q \in O!Inwards(h, r) PROVE q \in O!Outwards(h, r)
  BY <1>3, <1>4, <1>5
<1>8. ASSUME NEW u \in O!RangeUnits(h, r) PROVE u \in Nat /\ u \div 2 \in O!Outwards(h, r)
  BY <1>3, <1>4, <1>5
<1>9. ASSUME NEW u \in Nat, u \div 2 \in O!Inwards(h, r) PROVE u \in O!RangeUnits(h, r)
  <2>1. (from + 1) \div 2 <= u \div 2 /\ u \div 2 < to \div 2
    BY <1>3, <1>4, <1>5, <1>9
  <2>2. from <= u /\ u < to
    BY <1>3, <2>1
  <2>3. QED
    BY <1>4, <2>2
<1>10. O!RangeUnits(h, r) \subseteq O!Units(h.got)
  BY <1>1, <1>6, <1>8, OsUnitsAre
<1>11. \A q \in h.got : prot[q] # "unmapped"
  BY <1>1 DEF OsInv, O!MappedIsHeld, OsPages
<1>12. prot \in [OsPages -> {"unmapped", "none", "rw"}]
  BY DEF OsInv, OsTypes
<1>13. QED
  BY <1>1, <1>6, <1>7, <1>8, <1>9, <1>10, <1>11, <1>12

LEMMA OsProtectedIs ==
  ASSUME NEW pages, NEW how \in {"none", "rw"}, O!Protected(pages, how),
         prot \in [OsPages -> {"unmapped", "none", "rw"}]
  PROVE  /\ prot' \in [OsPages -> {"unmapped", "none", "rw"}]
         /\ \A q \in OsPages : prot'[q] = IF q \in pages THEN how ELSE prot[q]
  BY DEF O!Protected, OsPages

\* What the caller may use and counts on.
LEMMA OsUsableIs ==
  ASSUME O!OsAssumption, OsInv, NEW h \in held
  PROVE  /\ h.usable \subseteq O!Units(h.got) /\ h.expect \subseteq O!Units(h.got)
         /\ \A u \in h.usable \cup h.expect : u \in Nat /\ u \div 2 \in h.got
         /\ \A u \in h.usable \ h.lost : prot[u \div 2] = "rw"
         /\ h.expect \subseteq data \cup h.lost
<1>1. OsBlock(h)
  BY DEF OsInv, OsTypes
<1>2. QED
  BY <1>1, OsBlockUnits DEF OsBlock, OsInv, O!UsableIsIntact

LEMMA OsCommitKeeps ==
  ASSUME O!OsAssumption, OsInv, NEW h \in held, NEW r \in Ranges, O!Commit(h, r) PROVE OsInv'
<1> DEFINE use == h.usable \cup O!RangeUnits(h, r)
           expect == h.expect \cup O!RangeUnits(h, r)
           lost == h.lost \ O!RangeUnits(h, r)
<1>1. /\ O!Within(h, r) /\ O!Protected(O!Outwards(h, r), "rw")
      /\ O!Becomes(h, use, expect, lost)
      /\ data' = data \cup O!RangeUnits(h, r) /\ system' = system
      /\ mi_huge_start' = mi_huge_start
  BY DEF O!Commit
<1>2. /\ O!RangeUnits(h, r) \subseteq O!Units(h.got) /\ O!Outwards(h, r) \subseteq h.got
      /\ \A q \in h.got : q \in OsPages /\ prot[q] # "unmapped"
      /\ \A u \in O!RangeUnits(h, r) : u \div 2 \in O!Outwards(h, r)
  BY <1>1, OsRoundedIs
<1>3. /\ prot' \in [OsPages -> {"unmapped", "none", "rw"}]
      /\ \A q \in OsPages : prot'[q] = IF q \in O!Outwards(h, r) THEN "rw" ELSE prot[q]
  BY <1>1, OsRoundedIs, OsProtectedIs
<1>4. \A u \in use \ lost : prot'[u \div 2] = "rw"
  BY <1>2, <1>3, OsUsableIs
<1>5. /\ use \subseteq O!Units(h.got) /\ expect \subseteq O!Units(h.got)
      /\ expect \subseteq data' \cup lost /\ lost \in SUBSET h.lost
  BY <1>1, <1>2, OsUsableIs
<1>6. /\ \A q \in h.got : prot'[q] # "unmapped"
      /\ \A q \in OsPages \ h.got : prot'[q] = prot[q]
  BY <1>2, <1>3
<1>7. \A u \in Nat : u \div 2 \notin h.got /\ u \in data => u \in data'
  BY <1>1
<1> HIDE DEF use, expect, lost
<1>8. QED
  BY <1>1, <1>3, <1>4, <1>5, <1>6, <1>7, OsBecomesKeeps

\* Less of the block is usable, or as much; the pages inside the range become
\* inaccessible, or nothing does; and what is inside the range may be lost.
LEMMA OsLessKeeps ==
  ASSUME O!OsAssumption, OsInv, NEW h \in held, NEW r \in Ranges, O!Within(h, r),
         NEW use \in SUBSET h.usable, NEW expect \in SUBSET h.expect,
         O!Becomes(h, use, expect, h.lost),
         \/ prot' = prot
         \/ O!Protected(O!Inwards(h, r), "none") /\ use \cap O!RangeUnits(h, r) = {},
         \/ data' = data
         \/ data' = data \ O!Units(O!Inwards(h, r)) /\ expect \cap O!RangeUnits(h, r) = {},
         system' = system, mi_huge_start' = mi_huge_start
  PROVE  OsInv'
<1>1. /\ O!Inwards(h, r) \subseteq h.got /\ h.got \subseteq Nat
      /\ \A q \in h.got : q \in OsPages /\ prot[q] # "unmapped"
      /\ \A u \in Nat : u \div 2 \in O!Inwards(h, r) => u \in O!RangeUnits(h, r)
      /\ prot \in [OsPages -> {"unmapped", "none", "rw"}]
  BY OsRoundedIs
<1>2. /\ \A u \in h.usable \cup h.expect : u \in Nat /\ u \div 2 \in h.got
      /\ \A u \in h.usable \ h.lost : prot[u \div 2] = "rw"
      /\ h.usable \subseteq O!Units(h.got) /\ h.expect \subseteq O!Units(h.got)
      /\ h.expect \subseteq data \cup h.lost
  BY OsUsableIs
<1>3. /\ prot' \in [OsPages -> {"unmapped", "none", "rw"}]
      /\ \A q \in h.got : prot'[q] # "unmapped"
      /\ \A q \in OsPages \ h.got : prot'[q] = prot[q]
      /\ \A u \in use \ h.lost : prot'[u \div 2] = "rw"
  <2>1. CASE prot' = prot
    BY <1>1, <1>2, <2>1
  <2>2. CASE O!Protected(O!Inwards(h, r), "none") /\ use \cap O!RangeUnits(h, r) = {}
    <3>1. /\ prot' \in [OsPages -> {"unmapped", "none", "rw"}]
          /\ \A q \in OsPages : prot'[q] = IF q \in O!Inwards(h, r) THEN "none" ELSE prot[q]
      BY <1>1, <2>2, OsProtectedIs
    <3>2. \A u \in use : u \div 2 \notin O!Inwards(h, r) /\ u \div 2 \in OsPages
      BY <1>1, <1>2, <2>2
    <3>3. QED
      BY <1>1, <1>2, <3>1, <3>2
  <2>3. QED
    BY <2>1, <2>2
<1>4. /\ \A u \in Nat : u \div 2 \notin h.got /\ u \in data => u \in data'
      /\ expect \subseteq data' \cup h.lost
  <2>1. \A u \in O!Units(O!Inwards(h, r)) : u \in Nat /\ u \div 2 \in O!Inwards(h, r)
    BY <1>1, OsUnitsAre
  <2>2. QED
    BY <1>1, <1>2, <2>1
<1>5. use \subseteq O!Units(h.got) /\ expect \subseteq O!Units(h.got)
  BY <1>2
<1>6. QED
  BY <1>3, <1>4, <1>5, OsBecomesKeeps

LEMMA OsDecommitKeeps ==
  ASSUME O!OsAssumption, OsInv, NEW h \in held, NEW r \in Ranges, O!Decommit(h, r) PROVE OsInv'
<1> DEFINE use == IF O!needs_recommit THEN h.usable \ O!RangeUnits(h, r) ELSE h.usable
           expect == h.expect \ O!RangeUnits(h, r)
<1>1. /\ O!Within(h, r) /\ O!Becomes(h, use, expect, h.lost) /\ system' = system
      /\ mi_huge_start' = mi_huge_start /\ data' = data \ O!Units(O!Inwards(h, r))
      /\ IF O!needs_recommit THEN O!Protected(O!Inwards(h, r), "none") ELSE prot' = prot
  BY DEF O!Decommit
<1>2. use \in SUBSET h.usable /\ expect \in SUBSET h.expect /\ expect \cap O!RangeUnits(h, r) = {}
  OBVIOUS
<1>3. \/ prot' = prot
      \/ O!Protected(O!Inwards(h, r), "none") /\ use \cap O!RangeUnits(h, r) = {}
  BY <1>1
<1> HIDE DEF use, expect
<1>4. QED
  BY <1>1, <1>2, <1>3, OsLessKeeps

LEMMA OsResetKeeps ==
  ASSUME O!OsAssumption, OsInv, NEW h \in held, NEW r \in Ranges, O!Reset(h, r) PROVE OsInv'
<1> DEFINE expect == h.expect \ O!RangeUnits(h, r)
<1>1. /\ O!Within(h, r) /\ O!Becomes(h, h.usable, expect, h.lost) /\ system' = system /\ prot' = prot
      /\ mi_huge_start' = mi_huge_start /\ data' \in {data, data \ O!Units(O!Inwards(h, r))}
  BY DEF O!Reset
<1>2. expect \in SUBSET h.expect /\ expect \cap O!RangeUnits(h, r) = {}
  OBVIOUS
<1> HIDE DEF expect
<1>3. QED
  BY <1>1, <1>2, OsLessKeeps

LEMMA OsProtectKeeps ==
  ASSUME O!OsAssumption, OsInv, NEW h \in held, NEW r \in Ranges, O!Protect(h, r) PROVE OsInv'
<1> DEFINE use == h.usable \ O!RangeUnits(h, r)
<1>1. /\ O!Within(h, r) /\ O!Becomes(h, use, h.expect, h.lost) /\ system' = system /\ data' = data
      /\ mi_huge_start' = mi_huge_start /\ O!Protected(O!Inwards(h, r), "none")
  BY DEF O!Protect
<1>2. use \in SUBSET h.usable /\ use \cap O!RangeUnits(h, r) = {}
  OBVIOUS
<1> HIDE DEF use
<1>3. QED
  BY <1>1, <1>2, OsLessKeeps

LEMMA OsUnprotectKeeps ==
  ASSUME O!OsAssumption, OsInv, NEW h \in held, NEW r \in Ranges, O!Unprotect(h, r) PROVE OsInv'
<1> DEFINE use == h.usable \cup (O!Units(O!Inwards(h, r)) \cap O!RangeUnits(h, r))
<1>1. /\ O!Within(h, r) /\ O!Becomes(h, use, h.expect, h.lost) /\ system' = system /\ data' = data
      /\ mi_huge_start' = mi_huge_start /\ O!Protected(O!Inwards(h, r), "rw")
  BY DEF O!Unprotect
<1>2. /\ O!Inwards(h, r) \subseteq h.got /\ h.got \subseteq Nat
      /\ \A q \in h.got : q \in OsPages /\ prot[q] # "unmapped"
      /\ O!RangeUnits(h, r) \subseteq O!Units(h.got)
  BY <1>1, OsRoundedIs
<1>3. /\ prot' \in [OsPages -> {"unmapped", "none", "rw"}]
      /\ \A q \in OsPages : prot'[q] = IF q \in O!Inwards(h, r) THEN "rw" ELSE prot[q]
  BY <1>1, OsRoundedIs, OsProtectedIs
<1>4. \A u \in O!Units(O!Inwards(h, r)) : u \div 2 \in O!Inwards(h, r)
  BY <1>2, OsUnitsAre
<1>5. \A u \in use \ h.lost : prot'[u \div 2] = "rw"
  BY <1>2, <1>3, <1>4, OsUsableIs
<1>6. /\ use \subseteq O!Units(h.got) /\ h.expect \subseteq O!Units(h.got)
      /\ h.expect \subseteq data' \cup h.lost
  BY <1>1, <1>2, OsUsableIs
<1>7. /\ \A q \in h.got : prot'[q] # "unmapped"
      /\ \A q \in OsPages \ h.got : prot'[q] = prot[q]
      /\ \A u \in Nat : u \div 2 \notin h.got /\ u \in data => u \in data'
  BY <1>1, <1>2, <1>3
<1> HIDE DEF use
<1>8. QED
  BY <1>1, <1>3, <1>5, <1>6, <1>7, OsBecomesKeeps

-----------------------------------------------------------------------------
LEMMA OsInit == ASSUME O!OsAssumption, O!Init PROVE OsInv
<1>1. /\ prot \in [OsPages -> {"unmapped", "none", "rw"}]
      /\ \A q \in OsPages : prot[q] = "unmapped"
      /\ held = {} /\ mi_huge_start = 1 /\ system \in {"unix", "unix debug", "windows"}
  BY DEF O!Init, OsPages
<1>2. O!MappedIsHeld /\ O!UsableIsIntact
  BY DEF O!Init, O!MappedIsHeld, O!UsableIsIntact
<1>3. OsTypes /\ OsHugeFree
  <2>1. OsTypes
    BY <1>1 DEF OsTypes
  <2>2. mi_huge_start = 1
    BY <1>1
  <2>3. \A q \in OsPages : q > Low + (mi_huge_start - 1) * O!HugeSize => prot[q] = "unmapped"
    BY <1>1
  <2>4. 1 \in Nat \ {0}
    OBVIOUS
  <2>5. QED
    BY <2>1, <2>2, <2>3, <2>4 DEF OsHugeFree
<1>4. QED
  BY <1>2, <1>3 DEF OsInv

LEMMA OsSame == ASSUME OsInv, UNCHANGED O!vars PROVE OsInv'
<1>1. OsTypes'
  BY OsBlockStill DEF OsInv, OsTypes, O!vars
<1>2. OsHugeFree' /\ O!MappedIsHeld' /\ O!UsableIsIntact'
  BY DEF OsInv, OsHugeFree, O!MappedIsHeld, O!UsableIsIntact, O!vars
<1>3. QED
  BY <1>1, <1>2 DEF OsInv

LEMMA OsNext == ASSUME O!OsAssumption, OsInv, O!Next PROVE OsInv'
<1>1. ASSUME NEW size \in Sizes,
             \/ O!Alloc(size)
             \/ \E al \in PageAlignments, commit \in BOOLEAN :
                  \/ O!AllocAligned(size, al, commit)
                  \/ \E offset \in 1 .. 4 : O!AllocAlignedAtOffset(size, al, offset, commit)
      PROVE  OsInv'
  BY <1>1, OsAllocKeeps, OsAllocAlignedKeeps, OsAllocAlignedAtOffsetKeeps
<1>2. ASSUME NEW h \in held,
             \/ O!Free(h)
             \/ \E r \in Ranges : \/ O!Commit(h, r) \/ O!Decommit(h, r) \/ O!Reset(h, r)
                                  \/ O!Protect(h, r) \/ O!Unprotect(h, r)
      PROVE  OsInv'
  BY <1>2, OsFreeKeeps, OsCommitKeeps, OsDecommitKeeps, OsResetKeeps, OsProtectKeeps, OsUnprotectKeeps
<1>3. QED
  BY <1>1, <1>2, OsAllocHugeKeeps DEF O!Next

LEMMA OsSteps == ASSUME [ServicesNext]_everything PROVE O!Next \/ UNCHANGED O!vars
<1>1. CASE Os
  BY <1>1 DEF Os
<1>2. CASE AbandonedLists \/ PageQueues \/ ThreadData \/ SegmentMap
  BY <1>2 DEF AbandonedLists, PageQueues, ThreadData, SegmentMap, Others, osVars, O!vars
<1>3. CASE UNCHANGED everything
  BY <1>3 DEF everything, osVars, O!vars
<1>4. QED
  BY <1>1, <1>2, <1>3 DEF ServicesNext

\* What the layer over the operating system has mapped is what callers hold,
\* and what was committed stays accessible and keeps its contents, for an
\* address space, sizes, alignments, ranges and numbers of blocks of any size:
\* aligning leaves nothing behind, a free gives back all of its block, also
\* what lies in front of it, and a range that is decommitted, reset or
\* protected takes nothing of what is beside it (os.c 142 to 657).
THEOREM MemoryIsKept == ServicesSpec => []OsKeepsMemory
<1>1. ServicesInit => OsInv
  BY MiServicesAssumption, OsInit DEF ServicesInit
<1>2. OsInv /\ [ServicesNext]_everything => OsInv'
  BY MiServicesAssumption, OsSteps, OsNext, OsSame
<1>3. OsInv => OsKeepsMemory
  BY DEF OsInv, OsKeepsMemory, O!OsKeepsMemory
<1>4. QED
  BY <1>1, <1>2, <1>3, PTL DEF ServicesSpec
=============================================================================
