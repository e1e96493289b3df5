----------------------------- MODULE Optionals -----------------------------
(***************************************************************************)
(* What an optional promises (N3793, which Cxx14Base.hpp names as its      *)
(* model): each one in scope is empty or holds one value; a copy leaves    *)
(* its source alone, a move passes the value on, a swap exchanges, and an  *)
(* operation that fails leaves its target as it was or empty, and          *)
(* everything else as it was.                                              *)
(***************************************************************************)
CONSTANTS
  Opts,     \* the optionals
  Values,   \* the values they may hold
  Moved,    \* the value of a moved-from object
  Nothing,  \* what an empty optional holds
  Out       \* what one that is out of scope holds

VARIABLES
  held,   \* the value each one holds, or Moved, Nothing, Out
  call    \* the last operation and what it was applied to

vars == <<held, call>>

Empty(x) == held[x] = Nothing
InScope(x) == held[x] # Out

Init ==
  /\ held = [x \in Opts |-> Out]
  /\ call = <<"none">>

Value(x, v) ==
  /\ call' = <<"value", x, v>>
  /\ held' = [held EXCEPT ![x] = v]

Reset(x) ==
  /\ call' = <<"nothing", x>>
  /\ held' = [held EXCEPT ![x] = Nothing]

End(x) ==
  /\ InScope(x)
  /\ call' = <<"end", x>>
  /\ held' = [held EXCEPT ![x] = Out]

Copy(x, y) ==
  /\ InScope(y)
  /\ call' = <<"copy", x, y>>
  /\ held' = [held EXCEPT ![x] = held[y]]

\* Moved onto itself an optional keeps its value or a moved-from one.
Move(x, y) ==
  /\ InScope(y)
  /\ call' = <<"move", x, y>>
  /\ \/ held' = [held EXCEPT ![x] = held[y],
                             ![y] = IF Empty(y) THEN Nothing ELSE Moved]
     \/ x = y /\ UNCHANGED held

Swap(x, y) ==
  /\ InScope(x) /\ InScope(y)
  /\ call' = <<"swap", x, y>>
  /\ held' = [held EXCEPT ![x] = held[y], ![y] = held[x]]

\* The value is moved out to the caller.
TakeOut(x) ==
  /\ InScope(x) /\ ~Empty(x)
  /\ call' = <<"take", x>>
  /\ held' = [held EXCEPT ![x] = Moved]

\* A constructor that fails leaves its target out of scope.
Fail(x) ==
  /\ call' = <<"threw", x>>
  /\ \/ UNCHANGED held
     \/ InScope(x) /\ held' = [held EXCEPT ![x] = Nothing]

Next ==
  \E x \in Opts :
    \/ Reset(x) \/ End(x) \/ TakeOut(x) \/ Fail(x)
    \/ \E v \in Values : Value(x, v)
    \/ \E y \in Opts : Copy(x, y) \/ Move(x, y) \/ Swap(x, y)

Spec == Init /\ [][Next]_vars
=============================================================================
