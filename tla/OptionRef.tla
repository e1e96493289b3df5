------------------------------ MODULE OptionRef ------------------------------
(***************************************************************************)
(* Option<T&> (Option.hpp): a pointer that is null when the option is      *)
(* empty.  Nothing it does can fail, and no lifetime depends on it: what   *)
(* can go wrong is that an operation leaves a reference to the wrong       *)
(* object, in itself or in the option it took it from.                     *)
(***************************************************************************)
CONSTANTS
  Opts,       \* the options of the program
  Referents,  \* the objects they may refer to
  Null        \* the null pointer

\* No object is what an option shows that refers to none.
RefAssumption == {Null, "empty", "out"} \cap Referents = {}

VARIABLES
  data_,    \* the pointer in each option
  scope,    \* the options in scope
  call      \* history: the last operation, as its caller sees it

vars == <<data_, scope, call>>

Init ==
  /\ data_ = [x \in Opts |-> Null]
  /\ scope = {}
  /\ call = <<"none">>

Active(x) == data_[x] # Null

Begin(x) == x \notin scope /\ scope' = scope \cup {x}

Default(x) ==
  /\ Begin(x)
  /\ data_' = [data_ EXCEPT ![x] = Null]
  /\ call' = <<"nothing", x>>

\* From an object, of T or of a class derived from it.
FromObject(x, o) ==
  /\ Begin(x)
  /\ data_' = [data_ EXCEPT ![x] = o]
  /\ call' = <<"value", x, o>>

CopyConstruct(x, y) ==
  /\ y \in scope
  /\ Begin(x)
  /\ data_' = [data_ EXCEPT ![x] = data_[y]]
  /\ call' = <<"copy", x, y>>

MoveConstruct(x, y) ==
  /\ y \in scope
  /\ Begin(x)
  /\ data_' = [data_ EXCEPT ![x] = data_[y], ![y] = Null]
  /\ call' = <<"move", x, y>>

\* The destructor is defaulted.
Destruct(x) ==
  /\ x \in scope
  /\ scope' = scope \ {x}
  /\ call' = <<"end", x>>
  /\ UNCHANGED data_

\* operator=(NullOpt) and reset().
Reset(x) ==
  /\ x \in scope
  /\ data_' = [data_ EXCEPT ![x] = Null]
  /\ call' = <<"nothing", x>>
  /\ UNCHANGED scope

AssignCopy(x, y) ==
  /\ {x, y} \subseteq scope
  /\ data_' = [data_ EXCEPT ![x] = data_[y]]
  /\ call' = <<"copy", x, y>>
  /\ UNCHANGED scope

\* Moved onto itself, an option loses its reference: the source is cleared
\* last.
AssignMove(x, y) ==
  /\ {x, y} \subseteq scope
  /\ data_' = [data_ EXCEPT ![x] = data_[y], ![y] = Null]
  /\ call' = <<"move", x, y>>
  /\ UNCHANGED scope

\* operator=(U&) and emplace.
AssignObject(x, o) ==
  /\ x \in scope
  /\ data_' = [data_ EXCEPT ![x] = o]
  /\ call' = <<"value", x, o>>
  /\ UNCHANGED scope

Swap(x, y) ==
  /\ {x, y} \subseteq scope
  /\ data_' = [data_ EXCEPT ![x] = data_[y], ![y] = data_[x]]
  /\ call' = <<"swap", x, y>>
  /\ UNCHANGED scope

\* orElse: z is the option returned; the rvalue form moves out of x.
OrElse(z, x) ==
  /\ x \in scope
  /\ IF Active(x)
     THEN MoveConstruct(z, x) \/ CopyConstruct(z, x)
     ELSE Default(z) \/ \E o \in Referents : FromObject(z, o)

Next ==
  \E x \in Opts :
    \/ Default(x) \/ Destruct(x) \/ Reset(x)
    \/ \E o \in Referents : FromObject(x, o) \/ AssignObject(x, o)
    \/ \E y \in Opts : \/ CopyConstruct(x, y) \/ MoveConstruct(x, y)
                       \/ AssignCopy(x, y) \/ AssignMove(x, y)
                       \/ Swap(x, y) \/ OrElse(x, y)

Spec == Init /\ [][Next]_vars

---------------------------------------------------------------------------
\* What a user of an option sees of it.
Held == [x \in Opts |-> IF x \notin scope THEN "out"
                        ELSE IF Active(x) THEN data_[x]
                        ELSE "empty"]

\* A moved-from option is empty.
Abstract == INSTANCE Optionals WITH
  held <- Held, Values <- Referents,
  Moved <- "empty", Nothing <- "empty", Out <- "out"

\* An option of a reference implements an optional: every operation leaves
\* in it and in its argument the references its caller expects.
OptionStep == Abstract!Next

IsOptional == Abstract!Init /\ [][OptionStep]_<<Held, call>>
=============================================================================
