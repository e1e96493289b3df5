----------------------------- MODULE OptionCell -----------------------------
(***************************************************************************)
(* Option<T> before C++17 (Option.hpp and Option/Cxx14Base.hpp): a flag    *)
(* and a union, with the life of the element managed by hand.  A program   *)
(* applies the operations in any order to a few options, itself to itself  *)
(* included; copying an element may throw, moving one does not.            *)
(*                                                                         *)
(* T is not trivially destructible.  For a trivial T the code differs only *)
(* in that destroy() does nothing.                                         *)
(***************************************************************************)
EXTENDS Lifetimes

CONSTANTS
  Opts,      \* the options of the program
  Values,    \* the values of T
  Throws     \* may T's copy construction and copy assignment throw?

\* No value is what a storage shows that has none, or has lost it.
OptionAssumption ==
  Throws \in BOOLEAN /\ {Moved, "empty", "out"} \cap Values = {}

VARIABLES
  mem,      \* obj: the element in data_; active: active_; broken: Lifetimes
  scope,    \* the options in scope
  call      \* history: the last operation, as its caller sees it

vars == <<mem, scope, call>>

T == "T"

Init ==
  /\ mem = [obj |-> [x \in Opts |-> NoObject],
            active |-> [x \in Opts |-> FALSE],
            broken |-> {}]
  /\ scope = {}
  /\ call = <<"none">>

---------------------------------------------------------------------------
\* The private helpers, from a memory to a memory.

\* Mutant of Clear: the flag stays set.
ClearKeepsFlag(m, x) == IF m.active[x] THEN Destroy(m, x, T) ELSE m

\* OptionBase::clear.
Clear(m, x) ==
  [(IF m.active[x] THEN Destroy(m, x, T) ELSE m) EXCEPT !.active[x] = FALSE]

\* initialize, which asserts that there is no element yet.
Initialize(m, x, v) ==
  [(IF m.active[x] THEN Break(m, "assert") ELSE Construct(m, x, T, v))
     EXCEPT !.active[x] = TRUE]

\* What the copying constructors do to their empty base.
Constructed(m, x, v) == [Construct(m, x, T, v) EXCEPT !.active[x] = TRUE]

\* The value a reference to the element of y gives.
Element(m, y) == m.obj[y].val

\* An operation on x that copies an element: it is done, or the copy throws
\* and leaves the memory as it was at that moment.
OrThrows(done, then, x, c) ==
  \/ mem' = done /\ call' = c
  \/ Throws /\ mem' = then /\ call' = <<"threw", x>>

---------------------------------------------------------------------------
\* Constructors and the destructor.  A constructor that throws leaves
\* nothing in scope, which is no step.

Begin(x) == x \notin scope /\ scope' = scope \cup {x}

Default(x) ==
  /\ Begin(x)
  /\ mem' = [mem EXCEPT !.active[x] = FALSE]
  /\ call' = <<"nothing", x>>

\* From a value, or in place.
FromValue(x, v) ==
  /\ Begin(x)
  /\ mem' = Constructed(mem, x, v)
  /\ call' = <<"value", x, v>>

CopyConstruct(x, y) ==
  /\ y \in scope
  /\ Begin(x)
  /\ mem' = IF mem.active[y] THEN Constructed(mem, x, Element(mem, y))
                             ELSE [mem EXCEPT !.active[x] = FALSE]
  /\ call' = <<"copy", x, y>>

MoveConstruct(x, y) ==
  /\ y \in scope
  /\ Begin(x)
  /\ mem' = IF mem.active[y]
            THEN MoveOut(Constructed(mem, x, Element(mem, y)), y, T)
            ELSE [mem EXCEPT !.active[x] = FALSE]
  /\ call' = <<"move", x, y>>

\* ~OptionBase: the flag is read, and no longer written.
Destruct(x) ==
  /\ x \in scope
  /\ scope' = scope \ {x}
  /\ mem' = IF mem.active[x] THEN Destroy(mem, x, T) ELSE mem
  /\ call' = <<"end", x>>

---------------------------------------------------------------------------
\* Assignment.

\* operator=(NullOpt) and reset().
Reset(x) ==
  /\ x \in scope
  /\ mem' = Clear(mem, x)
  /\ call' = <<"nothing", x>>
  /\ UNCHANGED scope

\* operator=(const Option&); x and y may be the same.
AssignCopy(x, y) ==
  /\ {x, y} \subseteq scope
  /\ LET v == Element(mem, y)
         c == <<"copy", x, y>>
     IN  IF ~mem.active[y] THEN mem' = Clear(mem, x) /\ call' = c
         ELSE IF mem.active[x] THEN OrThrows(Assign(mem, x, T, v), mem, x, c)
         ELSE OrThrows(Initialize(mem, x, v), mem, x, c)
  /\ UNCHANGED scope

\* operator=(Option&&).  Moved onto itself, T may lose its value or keep it.
AssignMove(x, y) ==
  /\ {x, y} \subseteq scope
  /\ LET v == Element(mem, y)
     IN  mem' \in IF ~mem.active[y] THEN {Clear(mem, x)}
                  ELSE IF x = y THEN {mem, MoveOut(mem, x, T)}
                  ELSE IF mem.active[x]
                       THEN {MoveOut(Assign(mem, x, T, v), y, T)}
                       ELSE {MoveOut(Initialize(mem, x, v), y, T)}
  /\ call' = <<"move", x, y>>
  /\ UNCHANGED scope

\* operator=(U&&).
AssignValue(x, v) ==
  /\ x \in scope
  /\ OrThrows(IF mem.active[x] THEN Assign(mem, x, T, v)
                               ELSE Initialize(mem, x, v),
              mem, x, <<"value", x, v>>)
  /\ UNCHANGED scope

\* emplace: what was there is gone before the new element is built.
Emplaced(m, x, v) == Initialize(Clear(m, x), x, v)

Emplace(x, v) ==
  /\ x \in scope
  /\ OrThrows(Emplaced(mem, x, v), Clear(mem, x), x, <<"value", x, v>>)
  /\ UNCHANGED scope

---------------------------------------------------------------------------
\* swap, member and std::swap.

\* x has an element and y has none.
PassOn(m, x, y) == Clear(MoveOut(Emplaced(m, y, Element(m, x)), x, T), x)

Swap(x, y) ==
  /\ {x, y} \subseteq scope
  /\ mem' = IF mem.active[x] /\ mem.active[y]
            THEN Assign(Assign(mem, x, T, Element(mem, y)), y, T, Element(mem, x))
            ELSE IF mem.active[x] THEN PassOn(mem, x, y)
            ELSE IF mem.active[y] THEN PassOn(mem, y, x)
            ELSE mem
  /\ call' = <<"swap", x, y>>
  /\ UNCHANGED scope

---------------------------------------------------------------------------
\* The observers that give the element away: unwrap()&&, unwrapOr()&&,
\* andThen()&& and transform()&& pass it on as an rvalue.

TakeOut(x) ==
  /\ x \in scope
  /\ mem.active[x]
  /\ mem' = MoveOut(mem, x, T)
  /\ call' = <<"take", x>>
  /\ UNCHANGED scope

\* orElse()&&: z is the option returned.
OrElse(z, x) ==
  /\ x \in scope
  /\ IF mem.active[x]
     THEN MoveConstruct(z, x)
     ELSE Default(z) \/ \E v \in Values : FromValue(z, v)

---------------------------------------------------------------------------
Next ==
  \E x \in Opts :
    \/ Default(x) \/ Destruct(x) \/ Reset(x) \/ TakeOut(x)
    \/ \E v \in Values : FromValue(x, v) \/ AssignValue(x, v) \/ Emplace(x, v)
    \/ \E y \in Opts : \/ CopyConstruct(x, y) \/ MoveConstruct(x, y)
                       \/ AssignCopy(x, y) \/ AssignMove(x, y)
                       \/ Swap(x, y) \/ OrElse(x, y)

Spec == Init /\ [][Next]_vars

---------------------------------------------------------------------------
\* The memory and the scope keep their type.
TypeOK ==
  /\ scope \subseteq Opts
  /\ mem.active \in [Opts -> BOOLEAN]
  /\ mem.obj \in [Opts -> {NoObject} \cup
                          [type : {T}, val : Values \cup {Moved}]]
  /\ mem.broken \subseteq {"overwritten", "dead", "assert"}

\* active_ tells the truth: an option in scope has an element exactly when
\* the flag says so, nothing outlives its option, and no sequence of
\* operations, failed ones included, constructs over a live element,
\* destroys or uses a dead one, or trips initialize's assertion.
FlagMeansAlive ==
  /\ mem.broken = {}
  /\ \A x \in Opts : Alive(mem, x) <=> x \in scope /\ mem.active[x]

\* What a user of an option sees of it.
Held == [x \in Opts |-> IF x \notin scope THEN "out"
                        ELSE IF mem.active[x] THEN Element(mem, x)
                        ELSE "empty"]

Abstract == INSTANCE Optionals WITH
  held <- Held, Nothing <- "empty", Out <- "out"

\* Option implements an optional: every operation gives and takes whole
\* values, and one that throws part of the way leaves its target as it was
\* or empty, and its source untouched.
OptionStep == Abstract!Next

IsOptional == Abstract!Init /\ [][OptionStep]_<<Held, call>>
=============================================================================
