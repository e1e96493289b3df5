----------------------------- MODULE MutexSets -----------------------------
(***************************************************************************)
(* What ScopedLock promises (the comment of Mtx.hpp:133: it "holds the     *)
(* locks while in scope, and releases them when it goes out of scope"):    *)
(* threads take whole sets of mutexes in one step, nobody takes one that   *)
(* another thread holds, and a mutex is given back by its holder only.     *)
(***************************************************************************)
CONSTANTS
  Threads,    \* the threads of the program
  Mutexes,    \* the mutexes they share
  NoThread    \* holder of a free mutex

VARIABLE holder   \* the thread each mutex is held by

Init == holder = [m \in Mutexes |-> NoThread]

\* One thread gets every mutex of S at once, or waits.
Acquire(t, S) ==
  /\ \A m \in S : holder[m] = NoThread
  /\ holder' = [m \in Mutexes |-> IF m \in S THEN t ELSE holder[m]]

Release(t, m) ==
  /\ holder[m] = t
  /\ holder' = [holder EXCEPT ![m] = NoThread]

Next ==
  \E t \in Threads :
    \/ \E S \in SUBSET Mutexes : Acquire(t, S)
    \/ \E m \in Mutexes : Release(t, m)

Spec == Init /\ [][Next]_holder
=============================================================================
