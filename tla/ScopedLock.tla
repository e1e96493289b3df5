----------------------------- MODULE ScopedLock -----------------------------
(***************************************************************************)
(* Mtx and ScopedLock of Mtx.hpp: threads that nest scopes, each of which  *)
(* locks a set of mutexes in its constructor and unlocks them one by one   *)
(* in its destructor, and that also use Mtx::tryLock and AdoptLock.        *)
(*                                                                         *)
(* The constructor of a scope over two or more mutexes calls std::lock,    *)
(* which is external: it blocks on one mutex, tries the others, and gives  *)
(* everything back when a try fails.  Which one it blocks on is its own    *)
(* affair, so the arguments are a set.  With one mutex the constructor is  *)
(* mt.lock(), which is the same blocking step.                             *)
(***************************************************************************)
EXTENDS Naturals, Sequences, SequencesExt

CONSTANTS
  Threads,    \* the threads of the program
  Mutexes,    \* the mutexes they share
  NoThread,   \* owner of a free mutex
  MaxScopes   \* bound: scopes a thread has open

LockAssumption ==
  /\ NoThread \notin Threads
  /\ MaxScopes \in Nat

VARIABLES
  owner,    \* the thread that owns each std::mutex
  pc,       \* where each thread is
  args,     \* mtxs_ of the ScopedLock being constructed or destroyed
  got,      \* mutexes std::lock has taken so far
  scopes,   \* the ScopedLocks in scope, outermost first
  raw       \* mutexes taken with tryLock and not adopted

vars == <<owner, pc, args, got, scopes, raw>>

Owned(t) == {m \in Mutexes : owner[m] = t}

Release(m) == owner' = [owner EXCEPT ![m] = NoThread]

Init ==
  /\ owner = [m \in Mutexes |-> NoThread]
  /\ pc = [t \in Threads |-> "run"]
  /\ args = [t \in Threads |-> {}]
  /\ got = [t \in Threads |-> {}]
  /\ scopes = [t \in Threads |-> <<>>]
  /\ raw = [t \in Threads |-> {}]

---------------------------------------------------------------------------
\* Mtx::tryLock.

TryLock(t, m) ==
  /\ pc[t] = "run"
  /\ owner[m] = NoThread
  /\ owner' = [owner EXCEPT ![m] = t]
  /\ raw' = [raw EXCEPT ![t] = @ \cup {m}]
  /\ UNCHANGED <<pc, args, got, scopes>>

\* unlock() by the program, of what it took with tryLock.
Unlock(t, m) ==
  /\ pc[t] = "run"
  /\ m \in raw[t]
  /\ Release(m)
  /\ raw' = [raw EXCEPT ![t] = @ \ {m}]
  /\ UNCHANGED <<pc, args, got, scopes>>

---------------------------------------------------------------------------
\* The constructors.

\* ScopedLock(MTs&...): locking a mutex one owns is undefined, so a program
\* asks only for others.  ScopedLock<>() has nothing to lock.
Enter(t, S) ==
  /\ pc[t] = "run"
  /\ Len(scopes[t]) < MaxScopes
  /\ S \cap Owned(t) = {}
  /\ IF S = {}
     THEN /\ scopes' = [scopes EXCEPT ![t] = Append(@, S)]
          /\ UNCHANGED <<pc, args>>
     ELSE /\ pc' = [pc EXCEPT ![t] = "lock"]
          /\ args' = [args EXCEPT ![t] = S]
          /\ UNCHANGED scopes
  /\ UNCHANGED <<owner, got, raw>>

\* Mutant of Take: the constructor calls lock() on one mutex after the other,
\* in place of std::lock on all of them.
TakeOneByOne(t, m) ==
  /\ owner' = [owner EXCEPT ![m] = t]
  /\ IF got[t] \cup {m} = args[t]
     THEN /\ pc' = [pc EXCEPT ![t] = "run"]
          /\ args' = [args EXCEPT ![t] = {}]
          /\ got' = [got EXCEPT ![t] = {}]
          /\ scopes' = [scopes EXCEPT ![t] = Append(@, args[t])]
     ELSE /\ got' = [got EXCEPT ![t] = @ \cup {m}]
          /\ UNCHANGED <<pc, args, scopes>>
  /\ UNCHANGED raw

\* The constructor takes m, and returns when m was the last one.
Take(t, m) ==
  /\ owner' = [owner EXCEPT ![m] = t]
  /\ IF got[t] \cup {m} = args[t]
     THEN /\ pc' = [pc EXCEPT ![t] = "run"]
          /\ args' = [args EXCEPT ![t] = {}]
          /\ got' = [got EXCEPT ![t] = {}]
          /\ scopes' = [scopes EXCEPT ![t] = Append(@, args[t])]
     ELSE /\ pc' = [pc EXCEPT ![t] = "try"]
          /\ got' = [got EXCEPT ![t] = @ \cup {m}]
          /\ UNCHANGED <<args, scopes>>
  /\ UNCHANGED raw

\* The blocking step: mt.lock(), or the first lock of std::lock.
LockFirst(t, m) ==
  /\ pc[t] = "lock"
  /\ m \in args[t]
  /\ owner[m] = NoThread
  /\ Take(t, m)

TryNext(t, m) ==
  /\ pc[t] = "try"
  /\ m \in args[t] \ got[t]
  /\ owner[m] = NoThread
  /\ Take(t, m)

\* A failed try, which the standard also lets happen for no reason.
TryFails(t) ==
  /\ pc[t] = "try"
  /\ pc' = [pc EXCEPT ![t] = "backoff"]
  /\ UNCHANGED <<owner, args, got, scopes, raw>>

\* std::lock gives back what it took, one mutex at a time, and starts again.
BackOff(t, m) ==
  /\ pc[t] = "backoff"
  /\ m \in got[t]
  /\ Release(m)
  /\ got' = [got EXCEPT ![t] = @ \ {m}]
  /\ pc' = IF got[t] = {m} THEN [pc EXCEPT ![t] = "lock"] ELSE pc
  /\ UNCHANGED <<args, scopes, raw>>

\* ScopedLock(AdoptLock, MTs&...): takes over mutexes that are already owned.
Adopt(t, S) ==
  /\ pc[t] = "run"
  /\ Len(scopes[t]) < MaxScopes
  /\ S # {}
  /\ S \subseteq raw[t]
  /\ scopes' = [scopes EXCEPT ![t] = Append(@, S)]
  /\ raw' = [raw EXCEPT ![t] = @ \ S]
  /\ UNCHANGED <<owner, pc, args, got>>

---------------------------------------------------------------------------
\* The destructor of the innermost scope: scoped_unlock over mtxs_.  The
\* unlocks are arguments of one call, so their order is unspecified.

Leave(t) ==
  /\ pc[t] = "run"
  /\ scopes[t] # <<>>
  /\ args' = [args EXCEPT ![t] = Last(scopes[t])]
  /\ pc' = IF Last(scopes[t]) = {} THEN pc
                                   ELSE [pc EXCEPT ![t] = "unlock"]
  /\ scopes' = [scopes EXCEPT ![t] = Front(@)]
  /\ UNCHANGED <<owner, got, raw>>

UnlockOne(t, m) ==
  /\ pc[t] = "unlock"
  /\ m \in args[t]
  /\ Release(m)
  /\ args' = [args EXCEPT ![t] = @ \ {m}]
  /\ pc' = IF args[t] = {m} THEN [pc EXCEPT ![t] = "run"] ELSE pc
  /\ UNCHANGED <<got, scopes, raw>>

---------------------------------------------------------------------------
Step(t) ==
  \/ \E m \in Mutexes : \/ TryLock(t, m) \/ Unlock(t, m)
                        \/ LockFirst(t, m) \/ TryNext(t, m)
                        \/ BackOff(t, m) \/ UnlockOne(t, m)
  \/ \E S \in SUBSET Mutexes : Enter(t, S) \/ Adopt(t, S)
  \/ TryFails(t)
  \/ Leave(t)

Next == \E t \in Threads : Step(t)

Spec == Init /\ [][Next]_vars

---------------------------------------------------------------------------
\* Every variable keeps its type.
TypeOK ==
  /\ owner \in [Mutexes -> Threads \cup {NoThread}]
  /\ pc \in [Threads -> {"run", "lock", "try", "backoff", "unlock"}]
  /\ args \in [Threads -> SUBSET Mutexes]
  /\ got \in [Threads -> SUBSET Mutexes]
  /\ scopes \in [Threads -> Seq(SUBSET Mutexes)]
  /\ raw \in [Threads -> SUBSET Mutexes]

\* The places from which a thread will unlock a mutex: its scopes, the one
\* under destruction, what std::lock has taken so far, what tryLock took.
Keepers(t, m) ==
  {<<"scope", i>> : i \in {j \in DOMAIN scopes[t] : m \in scopes[t][j]}}
    \cup (IF m \in raw[t] THEN {"raw"} ELSE {})
    \cup (IF m \in got[t] THEN {"got"} ELSE {})
    \cup (IF pc[t] = "unlock" /\ m \in args[t] THEN {"unlock"} ELSE {})

\* A thread owns exactly the mutexes that something of its will unlock, and
\* only one thing will: no mutex stays locked with nobody left to unlock it,
\* and none is unlocked twice or by a thread that does not own it
\* (~ScopedLock and AdoptLock against Mtx::tryLock and std::lock's back-off).
OneKeeper ==
  \A t \in Threads, m \in Mutexes :
    /\ m \in Owned(t) <=> Keepers(t, m) # {}
    /\ \A k, l \in Keepers(t, m) : k = l

\* "It holds the locks while in scope" (Mtx.hpp:133): a scope that is open,
\* at whatever depth, owns every one of its mutexes, and so no two threads
\* have open scopes over the same mutex.
HoldsWhileInScope ==
  \A t, u \in Threads :
    \A i \in DOMAIN scopes[t] :
      /\ scopes[t][i] \subseteq Owned(t)
      /\ t # u => \A j \in DOMAIN scopes[u] :
                    scopes[t][i] \cap scopes[u][j] = {}

\* Blocked with no step to take but the one on a mutex somebody owns.
WaitsFor(t) == IF pc[t] = "lock" THEN {owner[m] : m \in args[t]} ELSE {}

\* Threads that wait while they own nothing but what the constructor has
\* taken never wait for each other in a circle, in whatever order their
\* scopes name the mutexes: std::lock blocks only while it has taken nothing.
Flat(t) == scopes[t] = <<>> /\ raw[t] = {}

NoWaitCycle ==
  \A S \in (SUBSET {t \in Threads : Flat(t)}) \ {{}} :
    \E t \in S : WaitsFor(t) = {} \/ ~(WaitsFor(t) \subseteq S)

---------------------------------------------------------------------------
\* To the others, mutexes that a constructor has taken only in part are free.
Settled == [m \in Mutexes |-> IF \E t \in Threads : m \in got[t]
                              THEN NoThread ELSE owner[m]]

Sets == INSTANCE MutexSets WITH holder <- Settled

\* A scope over several mutexes is entered atomically: the constructor's
\* locks, tries and back-offs implement taking the whole set in one step.
SetsStep == [Sets!Next]_Settled
=============================================================================
