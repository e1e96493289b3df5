------------------------------ MODULE PolyCell ------------------------------
(***************************************************************************)
(* Poly<Base, Derived...> of Poly.hpp: storage for one object of Base or   *)
(* of a class derived from it, and the number id_ of its class.  A program *)
(* applies the operations in any order to a few of them.  A Poly cannot be *)
(* copied or moved; it is assigned values that are not inside it.          *)
(***************************************************************************)
EXTENDS Lifetimes

CONSTANTS
  Polys,     \* the polys of the program
  Classes,   \* Base and its derived classes; id_ is the class itself
  Base,      \* the class with id_ = 0
  Vals       \* the values an object may have

emptyState == "emptyState"

\* No class is what a storage shows that has none, and no value the one of
\* what was moved from.
PolyAssumption ==
  /\ Base \in Classes
  /\ {"none", "out", "empty", "moved", emptyState} \cap Classes = {}
  /\ Moved \notin Vals

VARIABLES
  mem,      \* obj: the object in data_; id: id_; broken: Lifetimes
  scope,    \* the polys in scope
  cxx17,    \* the build: is it C++17 or later?
  call,     \* history: the last operation, as its caller sees it
  spoilt    \* history: the polys that met one of the faults of Spoils

vars == <<mem, scope, cxx17, call, spoilt>>

HoldsAny(m, p) == m.id[p] # emptyState
HoldsType(m, p, c) == m.id[p] = c

Init ==
  /\ mem = [obj |-> [p \in Polys |-> NoObject],
            id |-> [p \in Polys |-> emptyState],
            broken |-> {}]
  /\ scope = {}
  /\ cxx17 \in BOOLEAN
  /\ call = <<"none">>
  /\ spoilt = {}

---------------------------------------------------------------------------
\* The nodes of NodeValues: the one whose number is id_ destroys the object
\* through its own class, which a virtual destructor turns into the object's.
DestroyById(m, p) == Destroy(m, p, m.id[p])

\* clear_: a Base is destroyed through asBase(), anything else by its node.
\* Before C++17 each node runs only if (id_ == idValue<Base>), which was dealt
\* with just above.
Clear_(m, p) ==
  IF ~HoldsAny(m, p) THEN m
  ELSE IF HoldsType(m, p, Base) \/ cxx17 THEN DestroyById(m, p)
  ELSE m

\* clear().
Clear(m, p) == [Clear_(m, p) EXCEPT !.id[p] = emptyState]

\* id_ first, then the object.
Put(m, p, c, v) == Construct([m EXCEPT !.id[p] = c], p, c, v)

---------------------------------------------------------------------------
Begin(p) == p \notin scope /\ scope' = scope \cup {p}

Default(p) ==
  /\ Begin(p)
  /\ mem' = [mem EXCEPT !.id[p] = emptyState]
  /\ call' = <<"nothing", p>>

\* Poly(const T&) and Poly(T&&).
Make(p, c, v) ==
  /\ Begin(p)
  /\ mem' = Put(mem, p, c, v)
  /\ call' = <<"value", p, [type |-> c, val |-> v]>>

\* operator=(const T&) and operator=(T&&): clear, set id_, construct.
Assign_(p, c, v) ==
  /\ p \in scope
  /\ mem' = Put(Clear(mem, p), p, c, v)
  /\ call' = <<"value", p, [type |-> c, val |-> v]>>
  /\ UNCHANGED scope

\* A constructor that throws leaves the number of an object never made.
AssignThrows(p, c) ==
  /\ p \in scope
  /\ mem' = [Clear(mem, p) EXCEPT !.id[p] = c]
  /\ call' = <<"lost", p>>
  /\ UNCHANGED scope

ClearAll(p) ==
  /\ p \in scope
  /\ mem' = Clear(mem, p)
  /\ call' = <<"nothing", p>>
  /\ UNCHANGED scope

\* ~Poly.
Destruct(p) ==
  /\ p \in scope
  /\ scope' = scope \ {p}
  /\ mem' = Clear(mem, p)
  /\ call' = <<"end", p>>

\* downcastUnchecked()&&, which asserts that the class is right.
TakeOut(p, c) ==
  /\ p \in scope
  /\ HoldsType(mem, p, c)
  /\ mem' = MoveOut(mem, p, c)
  /\ call' = <<"take", p>>
  /\ UNCHANGED scope

---------------------------------------------------------------------------
\* The step is one of the two after which the number and the storage of p
\* differ: an assignment whose constructor throws, and, before C++17, the
\* removal of a derived object.
Spoils(p) ==
  \/ call' = <<"lost", p>>
  \/ /\ ~cxx17 /\ mem.id[p] \in Classes \ {Base}
     /\ call'[2] = p /\ call'[1] # "take"

Step ==
  \E p \in Polys :
    \/ Default(p) \/ ClearAll(p) \/ Destruct(p)
    \/ \E c \in Classes : \/ TakeOut(p, c) \/ AssignThrows(p, c)
                          \/ \E v \in Vals : Make(p, c, v) \/ Assign_(p, c, v)

\* After a use of a dead object the language promises nothing.
Next ==
  /\ "dead" \notin mem.broken
  /\ Step
  /\ spoilt' = spoilt \cup {p \in Polys : Spoils(p)}
  /\ UNCHANGED cxx17

Spec == Init /\ [][Next]_vars

---------------------------------------------------------------------------
\* "Type-checked polymorphic objects" (Poly.hpp:19): holdsAny() and
\* holdsType() say what is alive in the storage, so a checked downcast never
\* reaches an object of another class or none, and no sequence of
\* assignments loses an object without its destructor.  Only Spoils does
\* otherwise, and the damage stays in the poly it was done to.
TypeChecked ==
  /\ mem.broken = {} \/ spoilt # {}
  /\ \A p \in Polys \ spoilt :
       /\ Alive(mem, p) <=> p \in scope /\ HoldsAny(mem, p)
       /\ \A c \in Classes :
            p \in scope => (HoldsType(mem, p, c) <=> mem.obj[p].type = c)

\* What a user of a poly sees of it.
Special(what) == [type |-> what, val |-> "none"]

Held == [p \in Polys |-> IF p \notin scope THEN Special("out")
                         ELSE IF ~HoldsAny(mem, p) THEN Special("empty")
                         ELSE IF mem.obj[p].val = Moved THEN Special("moved")
                         ELSE mem.obj[p]]

Abstract == INSTANCE Optionals WITH
  Opts <- Polys,
  Values <- [type : Classes, val : Vals],
  Moved <- Special("moved"),
  Nothing <- Special("empty"),
  Out <- Special("out"),
  held <- Held

\* A poly is an optional of any of its classes: each operation changes its
\* own object and leaves in it what was assigned, with its class.  This is
\* claimed up to the first of the faults of Spoils.
PolyStep == spoilt' = {} => Abstract!Next

IsPoly == Abstract!Init /\ [][PolyStep]_<<Held, call>>
=============================================================================
