-------------------------- MODULE ScopedLock_proofs --------------------------
(***************************************************************************)
(* Proofs about ScopedLock, for any number of threads and mutexes and any  *)
(* depth of scopes.  What a thread owns is divided between its scopes, the *)
(* mutexes it took with tryLock, those that std::lock has taken so far and *)
(* those of the scope it leaves (Owning, Apart).                           *)
(***************************************************************************)
EXTENDS ScopedLock, TLAPS

\* The scopes of s hold m; and no two of them do.
Holds(s, m) == \E i \in 1 .. Len(s) : m \in s[i]
Once(s) == \A i, j \in 1 .. Len(s) : \A m \in s[i] : m \in s[j] => i = j

\* What a thread is about to do with args and got.
Shape(t) ==
  /\ pc[t] = "run" => args[t] = {} /\ got[t] = {}
  /\ pc[t] \in {"lock", "unlock"} => got[t] = {}
  /\ pc[t] \in {"try", "backoff"} => got[t] \subseteq args[t]

Unlocks(t) == IF pc[t] = "unlock" THEN args[t] ELSE {}

Keeps(t, m) == Holds(scopes[t], m) \/ m \in raw[t] \/ m \in got[t] \/ m \in Unlocks(t)

Owning == \A t \in Threads, m \in Mutexes : owner[m] = t <=> Keeps(t, m)

Apart(t) ==
  /\ Once(scopes[t])
  /\ \A m \in Mutexes : /\ Holds(scopes[t], m) => m \notin raw[t] \cup got[t] \cup Unlocks(t)
                        /\ m \in raw[t] => m \notin got[t] \cup Unlocks(t)

IInv ==
  /\ TypeOK
  /\ \A t \in Threads : Shape(t) /\ Apart(t)
  /\ Owning

-----------------------------------------------------------------------------
(* Scopes.                                                                 *)

Scopes == Seq(SUBSET Mutexes)

\* A scope is entered.
LEMMA Appended ==
  ASSUME NEW s \in Scopes, NEW S \in SUBSET Mutexes
  PROVE  /\ Append(s, S) \in Scopes
         /\ \A m : Holds(Append(s, S), m) <=> Holds(s, m) \/ m \in S
         /\ Once(s) /\ (\A m \in S : ~Holds(s, m)) => Once(Append(s, S))
<1>1. /\ Append(s, S) \in Scopes /\ Len(s) \in Nat /\ Len(Append(s, S)) = Len(s) + 1
      /\ \A i \in 1 .. Len(s) : Append(s, S)[i] = s[i]
      /\ Append(s, S)[Len(s) + 1] = S
  BY DEF Scopes
<1>2. \A i : i \in 1 .. Len(s) + 1 <=> i \in 1 .. Len(s) \/ i = Len(s) + 1
  BY <1>1
<1>3. \A m : Holds(Append(s, S), m) <=> Holds(s, m) \/ m \in S
  BY <1>1, <1>2 DEF Holds
<1>4. ASSUME Once(s), \A m \in S : ~Holds(s, m) PROVE Once(Append(s, S))
  BY <1>1, <1>2, <1>4 DEF Once, Holds
<1>5. QED
  BY <1>1, <1>3, <1>4

\* The innermost scope is left.
LEMMA Fronted ==
  ASSUME NEW s \in Scopes, s # <<>>
  PROVE  /\ Front(s) \in Scopes /\ Last(s) \in SUBSET Mutexes
         /\ \A m : Holds(s, m) <=> Holds(Front(s), m) \/ m \in Last(s)
         /\ Once(s) => Once(Front(s)) /\ \A m \in Last(s) : ~Holds(Front(s), m)
<1>1. PICK n \in Nat : Len(s) = n + 1
  BY DEF Scopes
<1>2. /\ Front(s) \in Scopes /\ Len(Front(s)) = n
      /\ \A i \in 1 .. n : Front(s)[i] = s[i]
      /\ Last(s) = s[n + 1]
  BY <1>1 DEF Scopes, Front, Last
<1>3. Last(s) \in SUBSET Mutexes
  BY <1>1, <1>2 DEF Scopes
<1>4. \A i : i \in 1 .. n + 1 <=> i \in 1 .. n \/ i = n + 1
  BY <1>1
<1>5. \A m : Holds(s, m) <=> Holds(Front(s), m) \/ m \in Last(s)
  BY <1>1, <1>2, <1>4 DEF Holds
<1>6. ASSUME Once(s) PROVE Once(Front(s)) /\ \A m \in Last(s) : ~Holds(Front(s), m)
  BY <1>1, <1>2, <1>4, <1>6 DEF Once, Holds
<1>7. QED
  BY <1>2, <1>3, <1>5, <1>6

-----------------------------------------------------------------------------
(* A step of t.                                                            *)

\* The others keep what they have, and t keeps what it then owns.
LEMMA OwnStep ==
  ASSUME LockAssumption, IInv, NEW t \in Threads, TypeOK',
         \A u \in Threads \ {t} : /\ pc'[u] = pc[u] /\ args'[u] = args[u] /\ got'[u] = got[u]
                                  /\ scopes'[u] = scopes[u] /\ raw'[u] = raw[u],
         \A m \in Mutexes : \/ owner'[m] = owner[m]
                            \/ owner[m] = t /\ owner'[m] = NoThread
                            \/ owner[m] = NoThread /\ owner'[m] = t,
         Shape(t)', Apart(t)', \A m \in Mutexes : owner'[m] = t <=> Keeps(t, m)'
  PROVE  IInv'
<1>1. ASSUME NEW u \in Threads PROVE Shape(u)' /\ Apart(u)'
  <2>1. CASE u = t
    BY <2>1
  <2>2. CASE u # t
    BY <2>2 DEF IInv, Shape, Apart, Unlocks
  <2>3. QED
    BY <2>1, <2>2
<1>2. ASSUME NEW u \in Threads, NEW m \in Mutexes PROVE owner'[m] = u <=> Keeps(u, m)'
  <2>1. CASE u = t
    BY <2>1
  <2>2. CASE u # t
    <3>1. owner'[m] = u <=> owner[m] = u
      BY <2>2 DEF LockAssumption
    <3>2. Keeps(u, m)' <=> Keeps(u, m)
      BY <2>2 DEF Keeps, Unlocks
    <3>3. QED
      BY <3>1, <3>2 DEF IInv, Owning
  <2>3. QED
    BY <2>1, <2>2
<1>3. QED
  BY <1>1, <1>2 DEF IInv, Owning

\* The variables of t.
LEMMA Typed ==
  ASSUME IInv, NEW t \in Threads
  PROVE  /\ TypeOK /\ Shape(t) /\ Apart(t)
         /\ \A m \in Mutexes : owner[m] = t <=> Keeps(t, m)
         /\ args[t] \in SUBSET Mutexes /\ got[t] \in SUBSET Mutexes
         /\ scopes[t] \in Scopes /\ raw[t] \in SUBSET Mutexes
  BY DEF IInv, TypeOK, Owning, Scopes

\* TryLock preserves the invariant.
LEMMA TryLockKeeps ==
  ASSUME LockAssumption, IInv, NEW t \in Threads, NEW m \in Mutexes, TryLock(t, m)
  PROVE  IInv'
<1>1. TypeOK'
  BY DEF TryLock, IInv, TypeOK
<1>2. /\ pc[t] = "run" /\ pc'[t] = "run" /\ args'[t] = args[t] /\ got'[t] = got[t]
      /\ scopes'[t] = scopes[t] /\ raw'[t] = raw[t] \cup {m}
  BY DEF TryLock, IInv, TypeOK
<1>3. \A x \in Mutexes : owner'[x] = IF x = m THEN t ELSE owner[x]
  BY DEF TryLock, IInv, TypeOK
<1>4. ~Keeps(t, m) /\ owner[m] = NoThread
  BY Typed DEF TryLock, LockAssumption
<1>5. Shape(t)' /\ Apart(t)'
  BY <1>2, <1>4, Typed DEF Shape, Apart, Unlocks, Keeps
<1>6. \A x \in Mutexes : owner'[x] = t <=> Keeps(t, x)'
  BY <1>2, <1>3, Typed DEF Keeps, Unlocks
<1>7. QED
  BY <1>1, <1>3, <1>4, <1>5, <1>6, OwnStep DEF TryLock, IInv, TypeOK

\* Unlock preserves the invariant.
LEMMA UnlockKeeps ==
  ASSUME LockAssumption, IInv, NEW t \in Threads, NEW m \in Mutexes, Unlock(t, m)
  PROVE  IInv'
<1>1. TypeOK'
  BY DEF Unlock, Release, IInv, TypeOK
<1>2. /\ pc[t] = "run" /\ pc'[t] = "run" /\ args'[t] = args[t] /\ got'[t] = got[t]
      /\ scopes'[t] = scopes[t] /\ raw'[t] = raw[t] \ {m} /\ m \in raw[t]
  BY DEF Unlock, IInv, TypeOK
<1>3. \A x \in Mutexes : owner'[x] = IF x = m THEN NoThread ELSE owner[x]
  BY DEF Unlock, Release, IInv, TypeOK
<1>4. owner[m] = t
  BY <1>2, Typed DEF Keeps
<1>5. Shape(t)' /\ Apart(t)'
  BY <1>2, Typed DEF Shape, Apart, Unlocks
<1>6. \A x \in Mutexes : owner'[x] = t <=> Keeps(t, x)'
  BY <1>2, <1>3, Typed DEF Keeps, Unlocks, Apart, Shape, LockAssumption
<1>7. QED
  BY <1>1, <1>3, <1>4, <1>5, <1>6, OwnStep DEF Unlock, IInv, TypeOK

\* Enter preserves the invariant.
LEMMA EnterKeeps ==
  ASSUME LockAssumption, IInv, NEW t \in Threads, NEW S \in SUBSET Mutexes, Enter(t, S)
  PROVE  IInv'
<1>1. CASE S = {}
  <2>1. Append(scopes[t], S) \in Scopes
    BY Appended, Typed
  <2>2. TypeOK'
    BY <1>1, <2>1 DEF Enter, IInv, TypeOK, Scopes
  <2>3. /\ pc'[t] = pc[t] /\ args'[t] = args[t] /\ got'[t] = got[t]
        /\ scopes'[t] = Append(scopes[t], S) /\ raw'[t] = raw[t]
    BY <1>1 DEF Enter, IInv, TypeOK
  <2>4. \A x : Holds(scopes'[t], x) <=> Holds(scopes[t], x)
    BY <1>1, <2>3, Appended, Typed
  <2>5. Once(scopes'[t])
    BY <1>1, <2>3, Appended, Typed DEF Apart
  <2>6. Shape(t)' /\ Apart(t)'
    BY <2>3, <2>4, <2>5, Typed DEF Shape, Apart, Unlocks
  <2>7. \A x \in Mutexes : owner'[x] = t <=> Keeps(t, x)'
    BY <2>3, <2>4, Typed DEF Enter, Keeps, Unlocks
  <2>8. QED
    BY <1>1, <2>2, <2>6, <2>7, OwnStep DEF Enter, IInv, TypeOK
<1>2. CASE S # {}
  <2>1. TypeOK'
    BY <1>2 DEF Enter, IInv, TypeOK
  <2>2. /\ pc[t] = "run" /\ pc'[t] = "lock" /\ got'[t] = got[t]
        /\ scopes'[t] = scopes[t] /\ raw'[t] = raw[t]
    BY <1>2 DEF Enter, IInv, TypeOK
  <2>3. Shape(t)' /\ Apart(t)'
    BY <2>2, Typed DEF Shape, Apart, Unlocks
  <2>4. \A x \in Mutexes : owner'[x] = t <=> Keeps(t, x)'
    BY <2>2, Typed DEF Enter, Keeps, Unlocks
  <2>5. QED
    BY <1>2, <2>1, <2>3, <2>4, OwnStep DEF Enter, IInv, TypeOK
<1>3. QED
  BY <1>1, <1>2

\* The constructor takes a free mutex.
LEMMA TakeKeeps ==
  ASSUME LockAssumption, IInv, NEW t \in Threads, NEW m \in Mutexes,
         pc[t] \in {"lock", "try"}, m \in args[t], owner[m] = NoThread, Take(t, m)
  PROVE  IInv'
<1>1. \A x \in Mutexes : owner'[x] = IF x = m THEN t ELSE owner[x]
  BY DEF Take, IInv, TypeOK
<1>2. ~Keeps(t, m) /\ got[t] \subseteq args[t] /\ raw'[t] = raw[t]
  BY Typed DEF Take, LockAssumption, Shape
<1>3. CASE got[t] \cup {m} = args[t]
  <2>1. Append(scopes[t], args[t]) \in Scopes
    BY Appended, Typed
  <2>2. TypeOK'
    BY <1>3, <2>1 DEF Take, IInv, TypeOK, Scopes
  <2>3. /\ pc'[t] = "run" /\ args'[t] = {} /\ got'[t] = {}
        /\ scopes'[t] = Append(scopes[t], args[t])
    BY <1>3 DEF Take, IInv, TypeOK
  <2>4. \A x : Holds(scopes'[t], x) <=> Holds(scopes[t], x) \/ x \in got[t] \/ x = m
    BY <1>3, <2>3, Appended, Typed
  <2>5. \A x \in args[t] : ~Holds(scopes[t], x)
    BY <1>2, <1>3, Typed DEF Apart, Keeps
  <2>6. Once(scopes'[t])
    BY <2>3, <2>5, Appended, Typed DEF Apart
  <2>7. Shape(t)' /\ Apart(t)'
    BY <1>2, <2>3, <2>4, <2>6, Typed DEF Shape, Apart, Unlocks, Keeps
  <2>8. \A x \in Mutexes : owner'[x] = t <=> Keeps(t, x)'
    BY <1>1, <1>2, <2>3, <2>4, Typed DEF Keeps, Unlocks
  <2>9. \A u \in Threads \ {t} : /\ pc'[u] = pc[u] /\ args'[u] = args[u] /\ got'[u] = got[u]
                                 /\ scopes'[u] = scopes[u] /\ raw'[u] = raw[u]
    BY <1>3 DEF Take, IInv, TypeOK
  <2>10. QED
    BY <1>1, <2>2, <2>7, <2>8, <2>9, OwnStep
<1>4. CASE got[t] \cup {m} # args[t]
  <2>1. TypeOK'
    <3>1. PICK g \in SUBSET Mutexes : g = got[t] \cup {m}
      BY Typed
    <3>2. got' = [got EXCEPT ![t] = g]
      BY <1>4, <3>1 DEF Take
    <3>3. QED
      BY <1>4, <3>2 DEF Take, IInv, TypeOK
  <2>2. /\ pc'[t] = "try" /\ args'[t] = args[t] /\ got'[t] = got[t] \cup {m}
        /\ scopes'[t] = scopes[t]
    BY <1>4 DEF Take, IInv, TypeOK
  <2>3. Shape(t)' /\ Apart(t)'
    BY <1>2, <2>2, Typed DEF Shape, Apart, Unlocks, Keeps
  <2>4. \A x \in Mutexes : owner'[x] = t <=> Keeps(t, x)'
    BY <1>1, <1>2, <2>2, Typed DEF Keeps, Unlocks
  <2>5. QED
    BY <1>1, <1>4, <2>1, <2>3, <2>4, OwnStep DEF Take, IInv, TypeOK
<1>5. QED
  BY <1>3, <1>4

\* TryFails preserves the invariant.
LEMMA TryFailsKeeps ==
  ASSUME LockAssumption, IInv, NEW t \in Threads, TryFails(t) PROVE IInv'
<1>1. TypeOK'
  BY DEF TryFails, IInv, TypeOK
<1>2. pc[t] = "try" /\ pc'[t] = "backoff"
  BY DEF TryFails, IInv, TypeOK
<1>3. Shape(t)' /\ Apart(t)'
  BY <1>2, Typed DEF TryFails, Shape, Apart, Unlocks
<1>4. \A x \in Mutexes : owner'[x] = t <=> Keeps(t, x)'
  BY <1>2, Typed DEF TryFails, Keeps, Unlocks
<1>5. QED
  BY <1>1, <1>3, <1>4, OwnStep DEF TryFails, IInv, TypeOK

\* BackOff preserves the invariant.
LEMMA BackOffKeeps ==
  ASSUME LockAssumption, IInv, NEW t \in Threads, NEW m \in Mutexes, BackOff(t, m)
  PROVE  IInv'
<1>1. TypeOK'
  BY DEF BackOff, Release, IInv, TypeOK
<1>2. /\ pc[t] = "backoff" /\ m \in got[t] /\ args'[t] = args[t] /\ got'[t] = got[t] \ {m}
      /\ scopes'[t] = scopes[t] /\ raw'[t] = raw[t]
      /\ pc'[t] = IF got[t] = {m} THEN "lock" ELSE "backoff"
  BY DEF BackOff, IInv, TypeOK
<1>3. \A x \in Mutexes : owner'[x] = IF x = m THEN NoThread ELSE owner[x]
  BY DEF BackOff, Release, IInv, TypeOK
<1>4. owner[m] = t
  BY <1>2, Typed DEF Keeps
<1>5. Shape(t)' /\ Apart(t)'
  BY <1>2, Typed DEF Shape, Apart, Unlocks
<1>6. \A x \in Mutexes : owner'[x] = t <=> Keeps(t, x)'
  BY <1>2, <1>3, Typed DEF Keeps, Unlocks, Apart, LockAssumption
<1>7. QED
  BY <1>1, <1>3, <1>4, <1>5, <1>6, OwnStep DEF BackOff, IInv, TypeOK

\* Adopt preserves the invariant.
LEMMA AdoptKeeps ==
  ASSUME LockAssumption, IInv, NEW t \in Threads, NEW S \in SUBSET Mutexes, Adopt(t, S)
  PROVE  IInv'
<1>1. Append(scopes[t], S) \in Scopes
  BY Appended, Typed
<1>2. TypeOK'
  BY <1>1 DEF Adopt, IInv, TypeOK, Scopes
<1>3. /\ pc'[t] = pc[t] /\ args'[t] = args[t] /\ got'[t] = got[t] /\ S \subseteq raw[t]
      /\ scopes'[t] = Append(scopes[t], S) /\ raw'[t] = raw[t] \ S
  BY DEF Adopt, IInv, TypeOK
<1>4. \A x : Holds(scopes'[t], x) <=> Holds(scopes[t], x) \/ x \in S
  BY <1>3, Appended, Typed
<1>5. \A x \in S : ~Holds(scopes[t], x)
  BY <1>3, Typed DEF Apart
<1>6. Once(scopes'[t])
  BY <1>3, <1>5, Appended, Typed DEF Apart
<1>7. Shape(t)' /\ Apart(t)'
  BY <1>3, <1>4, <1>6, Typed DEF Shape, Apart, Unlocks
<1>8. \A x \in Mutexes : owner'[x] = t <=> Keeps(t, x)'
  BY <1>3, <1>4, Typed DEF Adopt, Keeps, Unlocks
<1>9. QED
  BY <1>2, <1>7, <1>8, OwnStep DEF Adopt, IInv, TypeOK

\* Leave preserves the invariant.
LEMMA LeaveKeeps ==
  ASSUME LockAssumption, IInv, NEW t \in Threads, Leave(t) PROVE IInv'
<1>1. PICK s \in Scopes : s = scopes[t]
  BY Typed
<1>2. s # <<>> /\ Front(s) \in Scopes /\ Last(s) \in SUBSET Mutexes
  BY <1>1, Fronted DEF Leave
<1>3. TypeOK'
  BY <1>1, <1>2 DEF Leave, IInv, TypeOK, Scopes
<1>4. /\ pc[t] = "run" /\ args'[t] = Last(s) /\ got'[t] = got[t] /\ raw'[t] = raw[t]
      /\ scopes'[t] = Front(s) /\ pc'[t] = IF Last(s) = {} THEN "run" ELSE "unlock"
  BY <1>1 DEF Leave, IInv, TypeOK
<1>5. \A x : Holds(s, x) <=> Holds(Front(s), x) \/ x \in Last(s)
  BY <1>2, Fronted
<1>6. Once(Front(s)) /\ \A x \in Last(s) : ~Holds(Front(s), x)
  BY <1>1, <1>2, Fronted, Typed DEF Apart
<1>7. Unlocks(t)' = Last(s) /\ Unlocks(t) = {} /\ got[t] = {}
  BY <1>4, Typed DEF Unlocks, Shape
<1>8. Shape(t)' /\ Apart(t)'
  BY <1>1, <1>2, <1>4, <1>5, <1>6, <1>7, Typed DEF Shape, Apart
<1>9. \A x \in Mutexes : owner'[x] = t <=> Keeps(t, x)'
  BY <1>1, <1>4, <1>5, <1>7, Typed DEF Leave, Keeps
<1>10. QED
  BY <1>3, <1>8, <1>9, OwnStep DEF Leave, IInv, TypeOK

\* UnlockOne preserves the invariant.
LEMMA UnlockOneKeeps ==
  ASSUME LockAssumption, IInv, NEW t \in Threads, NEW m \in Mutexes, UnlockOne(t, m)
  PROVE  IInv'
<1>1. TypeOK'
  BY DEF UnlockOne, Release, IInv, TypeOK
<1>2. /\ pc[t] = "unlock" /\ m \in args[t] /\ args'[t] = args[t] \ {m} /\ got'[t] = got[t]
      /\ scopes'[t] = scopes[t] /\ raw'[t] = raw[t]
      /\ pc'[t] = IF args[t] = {m} THEN "run" ELSE "unlock"
  BY DEF UnlockOne, IInv, TypeOK
<1>3. \A x \in Mutexes : owner'[x] = IF x = m THEN NoThread ELSE owner[x]
  BY DEF UnlockOne, Release, IInv, TypeOK
<1>4. Unlocks(t) = args[t] /\ Unlocks(t)' = args[t] \ {m} /\ got[t] = {}
  BY <1>2, Typed DEF Unlocks, Shape
<1>5. owner[m] = t
  BY <1>2, <1>4, Typed DEF Keeps
<1>6. Shape(t)' /\ Apart(t)'
  BY <1>2, <1>4, Typed DEF Shape, Apart
<1>7. \A x \in Mutexes : owner'[x] = t <=> Keeps(t, x)'
  BY <1>2, <1>3, <1>4, Typed DEF Keeps, Apart, LockAssumption
<1>8. QED
  BY <1>1, <1>3, <1>5, <1>6, <1>7, OwnStep DEF UnlockOne, IInv, TypeOK

\* Initially.
LEMMA InitIInv == ASSUME LockAssumption, Init PROVE IInv
<1>1. TypeOK
  BY DEF Init, TypeOK
<1>2. ASSUME NEW t \in Threads
      PROVE  /\ scopes[t] = <<>> /\ pc[t] = "run" /\ args[t] = {} /\ got[t] = {} /\ raw[t] = {}
  BY DEF Init
<1>3. ASSUME NEW t \in Threads PROVE Shape(t) /\ Apart(t) /\ \A m \in Mutexes : ~Keeps(t, m)
  BY <1>2 DEF Shape, Apart, Keeps, Holds, Once, Unlocks
<1>4. QED
  BY <1>1, <1>3 DEF IInv, Owning, Init, LockAssumption

\* A step that changes nothing.
LEMMA Unmoved == ASSUME IInv, UNCHANGED vars PROVE IInv'
  BY DEF vars, IInv, TypeOK, Shape, Apart, Owning, Keeps, Unlocks

\* Every step.
LEMMA NextIInv == ASSUME LockAssumption, IInv, [Next]_vars PROVE IInv'
<1>1. CASE UNCHANGED vars
  BY <1>1, Unmoved
<1>2. ASSUME NEW t \in Threads, NEW m \in Mutexes,
             \/ TryLock(t, m) \/ Unlock(t, m) \/ BackOff(t, m) \/ UnlockOne(t, m)
      PROVE  IInv'
  BY <1>2, TryLockKeeps, UnlockKeeps, BackOffKeeps, UnlockOneKeeps
<1>3. ASSUME NEW t \in Threads, NEW m \in Mutexes, LockFirst(t, m) \/ TryNext(t, m)
      PROVE  IInv'
  BY <1>3, TakeKeeps DEF LockFirst, TryNext
<1>4. ASSUME NEW t \in Threads, NEW S \in SUBSET Mutexes, Enter(t, S) \/ Adopt(t, S)
      PROVE  IInv'
  BY <1>4, EnterKeeps, AdoptKeeps
<1>5. ASSUME NEW t \in Threads, TryFails(t) \/ Leave(t) PROVE IInv'
  BY <1>5, TryFailsKeeps, LeaveKeeps
<1>6. QED
  BY <1>1, <1>2, <1>3, <1>4, <1>5 DEF Next, Step

\* The invariant holds in every state.
THEOREM Invariant == ASSUME LockAssumption PROVE Spec => []IInv
<1>1. Init => IInv
  BY InitIInv
<1>2. IInv /\ [Next]_vars => IInv'
  BY NextIInv
<1>3. QED
  BY <1>1, <1>2, PTL DEF Spec

-----------------------------------------------------------------------------
(* What it says of the program.                                            *)

\* The invariant implies each of the properties.
LEMMA IInvKeeper == ASSUME IInv PROVE OneKeeper
<1>1. ASSUME NEW t \in Threads, NEW m \in Mutexes
      PROVE  /\ m \in Owned(t) <=> Keepers(t, m) # {}
             /\ \A k, l \in Keepers(t, m) : k = l
  <2>1. DOMAIN scopes[t] = 1 .. Len(scopes[t])
    BY Typed DEF Scopes
  <2>2. ASSUME NEW k
        PROVE  k \in Keepers(t, m) <=>
                 \/ \E i \in 1 .. Len(scopes[t]) : k = <<"scope", i>> /\ m \in scopes[t][i]
                 \/ k = "raw" /\ m \in raw[t]
                 \/ k = "got" /\ m \in got[t]
                 \/ k = "unlock" /\ m \in Unlocks(t)
    BY <2>1, Zenon DEF Keepers, Unlocks
  <2>3. Keepers(t, m) # {} <=> Keeps(t, m)
    BY <2>2 DEF Keeps, Holds
  <2>4. m \in Owned(t) <=> Keeps(t, m)
    BY Typed DEF Owned
  <2>5. ASSUME NEW k \in Keepers(t, m), NEW l \in Keepers(t, m) PROVE k = l
    <3>1. /\ \A i, j \in 1 .. Len(scopes[t]) : m \in scopes[t][i] /\ m \in scopes[t][j] => i = j
          /\ (\E i \in 1 .. Len(scopes[t]) : m \in scopes[t][i]) =>
                m \notin raw[t] /\ m \notin got[t] /\ m \notin Unlocks(t)
          /\ m \in raw[t] => m \notin got[t] /\ m \notin Unlocks(t)
          /\ m \in got[t] => m \notin Unlocks(t)
      BY Typed DEF Apart, Holds, Once, Shape, Unlocks
    <3>2. CASE \E i \in 1 .. Len(scopes[t]) : m \in scopes[t][i]
      BY <2>2, <2>5, <3>1, <3>2
    <3>3. CASE ~\E i \in 1 .. Len(scopes[t]) : m \in scopes[t][i]
      BY <2>2, <2>5, <3>1, <3>3
    <3>4. QED
      BY <3>2, <3>3
  <2>6. QED
    BY <2>3, <2>4, <2>5
<1>2. QED
  BY <1>1 DEF OneKeeper

LEMMA IInvScope == ASSUME IInv PROVE HoldsWhileInScope
<1>1. ASSUME NEW t \in Threads, NEW i \in DOMAIN scopes[t], NEW m \in scopes[t][i]
      PROVE  m \in Owned(t)
  <2>1. scopes[t][i] \in SUBSET Mutexes /\ i \in 1 .. Len(scopes[t])
    BY <1>1, Typed DEF Scopes
  <2>2. QED
    BY <2>1, Typed DEF Owned, Keeps, Holds
<1>2. QED
  BY <1>1 DEF HoldsWhileInScope, Owned

LEMMA IInvCircle == ASSUME IInv PROVE NoWaitCycle
<1>1. ASSUME NEW S \in SUBSET {t \in Threads : Flat(t)}, S # {},
             \A t \in S : WaitsFor(t) # {} /\ WaitsFor(t) \subseteq S
      PROVE  FALSE
  <2>1. PICK t \in S : TRUE
    BY <1>1
  <2>2. PICK m \in args[t] : owner[m] \in S
    BY <1>1, <2>1 DEF WaitsFor
  <2>3. PICK u \in S : owner[m] = u
    BY <2>2
  <2>4. u \in Threads /\ pc[u] = "lock" /\ scopes[u] = <<>> /\ raw[u] = {}
    BY <1>1, <2>3 DEF WaitsFor, Flat
  <2>5. m \in Mutexes
    BY <2>1, <2>2, Typed
  <2>6. ~Keeps(u, m)
    BY <2>4, Typed DEF Keeps, Holds, Shape, Unlocks
  <2>7. QED
    BY <2>3, <2>4, <2>5, <2>6, Typed
<1>2. QED
  BY <1>1 DEF NoWaitCycle

-----------------------------------------------------------------------------
(* A scope over several mutexes is entered in one step.                    *)

InPart(m) == \E t \in Threads : m \in got[t]

\* What the others see of the mutexes.
LEMMA SettledIs ==
  /\ Settled = [m \in Mutexes |-> IF InPart(m) THEN NoThread ELSE owner[m]]
  /\ Settled' = [m \in Mutexes |-> IF InPart(m)' THEN NoThread ELSE owner'[m]]
  BY DEF Settled, InPart

\* std::lock has only taken what nothing else of the thread will unlock.
LEMMA GotIsOwned ==
  ASSUME LockAssumption, IInv, NEW m \in Mutexes
  PROVE  /\ \A t \in Threads : m \in got[t] => owner[m] = t /\ m \notin raw[t] /\ m \notin Unlocks(t)
         /\ owner[m] = NoThread => ~InPart(m)
<1>1. ASSUME NEW t \in Threads, m \in got[t]
      PROVE  owner[m] = t /\ m \notin raw[t] /\ m \notin Unlocks(t)
  BY <1>1, Typed DEF Keeps, Apart, Shape, Unlocks
<1>2. QED
  BY <1>1 DEF InPart, LockAssumption

\* Nobody notices.
LEMMA SettledStill ==
  ASSUME \A m \in Mutexes : (IF InPart(m)' THEN NoThread ELSE owner'[m]) =
                              IF InPart(m) THEN NoThread ELSE owner[m]
  PROVE  SetsStep
<1>1. Settled' = Settled
  BY SettledIs
<1>2. QED
  BY <1>1 DEF SetsStep

\* t takes the mutexes of S.
LEMMA SettledTaken ==
  ASSUME NEW t \in Threads, NEW S \in SUBSET Mutexes,
         \A m \in S : InPart(m) \/ owner[m] = NoThread,
         \A m \in Mutexes : (IF InPart(m)' THEN NoThread ELSE owner'[m]) =
                              IF m \in S THEN t ELSE IF InPart(m) THEN NoThread ELSE owner[m]
  PROVE  SetsStep
<1>1. \A m \in S : Settled[m] = NoThread
  BY SettledIs
<1>2. Settled' = [m \in Mutexes |-> IF m \in S THEN t ELSE Settled[m]]
  BY SettledIs
<1>3. Sets!Acquire(t, S)
  BY <1>1, <1>2 DEF Sets!Acquire
<1>4. QED
  BY <1>3 DEF SetsStep, Sets!Next

\* t gives m back.
LEMMA SettledReleased ==
  ASSUME LockAssumption, IInv, NEW t \in Threads, NEW m \in Mutexes, m \in raw[t] \cup Unlocks(t),
         got' = got, owner' = [owner EXCEPT ![m] = NoThread]
  PROVE  SetsStep
<1>1. owner[m] = t /\ owner \in [Mutexes -> Threads \cup {NoThread}]
  BY Typed DEF Keeps, TypeOK
<1>2. ~InPart(m)
  BY <1>1, GotIsOwned DEF InPart
<1>3. \A x : InPart(x)' <=> InPart(x)
  BY DEF InPart
<1>4. Settled[m] = t
  BY <1>1, <1>2, SettledIs
<1>5. Settled' = [Settled EXCEPT ![m] = NoThread]
  BY <1>1, <1>3, SettledIs
<1>6. Sets!Release(t, m)
  BY <1>4, <1>5 DEF Sets!Release
<1>7. QED
  BY <1>6 DEF SetsStep, Sets!Next

\* The constructor takes a mutex, the last one or not.
LEMMA TakeSets ==
  ASSUME LockAssumption, IInv, NEW t \in Threads, NEW m \in Mutexes,
         pc[t] \in {"lock", "try"}, m \in args[t], owner[m] = NoThread, Take(t, m)
  PROVE  SetsStep
<1>1. \A x \in Mutexes : owner'[x] = IF x = m THEN t ELSE owner[x]
  BY DEF Take, IInv, TypeOK
<1>2. ~InPart(m)
  BY GotIsOwned
<1>3. CASE got[t] \cup {m} = args[t]
  <2>1. got'[t] = {} /\ \A u \in Threads \ {t} : got'[u] = got[u]
    BY <1>3 DEF Take, IInv, TypeOK
  <2>2. \A x \in args[t] : (InPart(x) \/ owner[x] = NoThread) /\ owner'[x] = t /\ ~InPart(x)'
    <3>1. ASSUME NEW x \in args[t]
          PROVE  (InPart(x) \/ owner[x] = NoThread) /\ owner'[x] = t /\ ~InPart(x)'
      <4>1. x \in Mutexes /\ (x = m \/ x \in got[t])
        BY <1>3, Typed
      <4>2. owner'[x] = t /\ (InPart(x) \/ owner[x] = NoThread)
        BY <1>1, <4>1, GotIsOwned DEF InPart
      <4>3. ASSUME NEW u \in Threads \ {t} PROVE x \notin got[u]
        BY <1>2, <4>1, GotIsOwned DEF InPart
      <4>4. QED
        BY <2>1, <4>2, <4>3 DEF InPart
    <3>2. QED
      BY <3>1
  <2>3. ASSUME NEW x \in Mutexes \ args[t]
        PROVE  owner'[x] = owner[x] /\ (InPart(x)' <=> InPart(x))
    BY <1>1, <1>3, <2>1 DEF InPart
  <2>4. args[t] \in SUBSET Mutexes
    BY Typed
  <2>5. QED
    BY <2>2, <2>3, <2>4, SettledTaken
<1>4. CASE got[t] \cup {m} # args[t]
  <2>1. got'[t] = got[t] \cup {m} /\ \A u \in Threads \ {t} : got'[u] = got[u]
    BY <1>4 DEF Take, IInv, TypeOK
  <2>2. \A x : InPart(x)' <=> InPart(x) \/ x = m
    BY <2>1 DEF InPart
  <2>3. QED
    BY <1>1, <1>2, <2>2, SettledStill
<1>5. QED
  BY <1>3, <1>4

\* Every step.
LEMMA NextSets == ASSUME LockAssumption, IInv, [Next]_vars PROVE SetsStep
<1>1. ASSUME UNCHANGED <<owner, got>> PROVE SetsStep
  <2>1. \A x : InPart(x)' <=> InPart(x)
    BY <1>1 DEF InPart
  <2>2. QED
    BY <1>1, <2>1, SettledStill
<1>2. ASSUME NEW t \in Threads, NEW m \in Mutexes, TryLock(t, m) PROVE SetsStep
  <2>1. \A x \in Mutexes : owner'[x] = IF x = m THEN t ELSE owner[x]
    BY <1>2 DEF TryLock, IInv, TypeOK
  <2>2. owner[m] = NoThread /\ ~InPart(m) /\ \A x : InPart(x)' <=> InPart(x)
    BY <1>2, GotIsOwned DEF TryLock, InPart
  <2>3. PICK S \in SUBSET Mutexes : S = {m}
    OBVIOUS
  <2>4. \A x \in S : InPart(x) \/ owner[x] = NoThread
    BY <2>2, <2>3
  <2>5. ASSUME NEW x \in Mutexes
        PROVE  (IF InPart(x)' THEN NoThread ELSE owner'[x]) =
                 IF x \in S THEN t ELSE IF InPart(x) THEN NoThread ELSE owner[x]
    BY <2>1, <2>2, <2>3
  <2>6. QED
    BY <2>4, <2>5, SettledTaken
<1>3. ASSUME NEW t \in Threads, NEW m \in Mutexes, Unlock(t, m) \/ UnlockOne(t, m) PROVE SetsStep
  BY <1>3, SettledReleased DEF Unlock, UnlockOne, Release, Unlocks
<1>4. ASSUME NEW t \in Threads, NEW m \in Mutexes, LockFirst(t, m) \/ TryNext(t, m) PROVE SetsStep
  BY <1>4, TakeSets, Typed DEF LockFirst, TryNext
<1>5. ASSUME NEW t \in Threads, NEW m \in Mutexes, BackOff(t, m) PROVE SetsStep
  <2>1. \A x \in Mutexes : owner'[x] = IF x = m THEN NoThread ELSE owner[x]
    BY <1>5 DEF BackOff, Release, IInv, TypeOK
  <2>2. \A x : x # m => (InPart(x)' <=> InPart(x))
    BY <1>5 DEF BackOff, InPart, IInv, TypeOK
  <2>3. InPart(m)
    BY <1>5 DEF BackOff, InPart
  <2>4. QED
    BY <2>1, <2>2, <2>3, SettledStill
<1>6. ASSUME NEW t \in Threads, NEW S \in SUBSET Mutexes, Enter(t, S) \/ Adopt(t, S) PROVE SetsStep
  BY <1>1, <1>6 DEF Enter, Adopt
<1>7. ASSUME NEW t \in Threads, TryFails(t) \/ Leave(t) PROVE SetsStep
  BY <1>1, <1>7 DEF TryFails, Leave
<1>8. CASE UNCHANGED vars
  BY <1>1, <1>8 DEF vars
<1>9. QED
  BY <1>2, <1>3, <1>4, <1>5, <1>6, <1>7, <1>8 DEF Next, Step

-----------------------------------------------------------------------------
(* The theorems.                                                           *)

\* A thread owns exactly the mutexes that one thing of its will unlock.
THEOREM Keeper == ASSUME LockAssumption PROVE Spec => []OneKeeper
<1>1. IInv => OneKeeper
  BY IInvKeeper
<1>2. QED
  BY <1>1, Invariant, PTL

\* An open scope owns all of its mutexes (Mtx.hpp:133).
THEOREM Scope == ASSUME LockAssumption PROVE Spec => []HoldsWhileInScope
<1>1. IInv => HoldsWhileInScope
  BY IInvScope
<1>2. QED
  BY <1>1, Invariant, PTL

\* Threads that own nothing but what a constructor has taken never wait for
\* each other in a circle.
THEOREM Circle == ASSUME LockAssumption PROVE Spec => []NoWaitCycle
<1>1. IInv => NoWaitCycle
  BY IInvCircle
<1>2. QED
  BY <1>1, Invariant, PTL

\* ScopedLock implements MutexSets: every step of it is one of MutexSets, or
\* changes nothing there.
THEOREM Atomic == ASSUME LockAssumption PROVE Spec => Sets!Spec
<1>1. Init => Sets!Init
  <2>1. ASSUME Init PROVE Settled = [m \in Mutexes |-> NoThread]
    BY <2>1, SettledIs DEF Init, InPart
  <2>2. QED
    BY <2>1 DEF Sets!Init
<1>2. IInv /\ [Next]_vars => [Sets!Next]_Settled
  BY NextSets DEF SetsStep
<1>3. QED
  BY <1>1, <1>2, Invariant, PTL DEF Spec, Sets!Spec
=============================================================================
