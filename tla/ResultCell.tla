----------------------------- MODULE ResultCell -----------------------------
(***************************************************************************)
(* Result<T, E> of Result.hpp and Result/Base.hpp: a flag and a union of a *)
(* value and an error, one of which is always there.  A program applies    *)
(* the operations in any order to a few results.  A Result<void, E> is one *)
(* whose T has a single value and a trivial destructor.                    *)
(***************************************************************************)
EXTENDS Lifetimes

CONSTANTS
  Results,       \* the results of the program
  Vals,          \* the values of T
  DefaultVal,    \* the value of T's default constructor
  Errs           \* the values of E

\* No value and no error is the one of what was moved from.
ResultAssumption == DefaultVal \in Vals /\ Moved \notin Vals \cup Errs

VARIABLES
  mem,      \* obj: what is alive in data_; active: active_; broken: Lifetimes
  scope,    \* the results in scope
  trivial,  \* the T of the program: is it trivially destructible?
  call,     \* history: the last operation, as its caller sees it
  spoilt    \* history: the results that met one of the faults of Spoils

vars == <<mem, scope, trivial, call, spoilt>>

\* The member of the union that active_ names.
Member(active) == IF active THEN "T" ELSE "E"

\* A result before its life: the flag is whatever it is.
Init ==
  /\ mem = [obj |-> [r \in Results |-> NoObject],
            active |-> [r \in Results |-> FALSE],
            broken |-> {}]
  /\ scope = {}
  /\ trivial \in BOOLEAN
  /\ call = <<"none">>
  /\ spoilt = {}

---------------------------------------------------------------------------
\* The private helpers, from a memory to a memory.

\* X11::construct on a member.  Building over a T with a trivial destructor
\* loses nothing.
Build(m, r, type, v) ==
  IF trivial /\ m.obj[r].type = "T"
  THEN [m EXCEPT !.obj[r] = [type |-> type, val |-> v]]
  ELSE Construct(m, r, type, v)

\* ResultBase::destroy: the flag says which member, and is not changed.
Clear(m, r) == Destroy(m, r, Member(m.active[r]))

\* initialize_data and initialize_err.
Initialize(m, r, active, v) ==
  [Build(Clear(m, r), r, Member(active), v) EXCEPT !.active[r] = active]

\* The value of q's member, read after what was done to m.
Content(m, q) == m.obj[q].val

\* The base of the copying and moving constructors: data_ default-constructs
\* a T, then active_ is copied.
Based(m, r, active) ==
  [Construct(m, r, "T", DefaultVal) EXCEPT !.active[r] = active]

\* An operation that copies is done, or the copy throws once the old member
\* has been destroyed.
OrLost(done, r, c) ==
  \/ mem' = done /\ call' = c
  \/ mem' = Clear(mem, r) /\ call' = <<"lost", r>>

Value(v) == [type |-> "T", val |-> v]
Error(e) == [type |-> "E", val |-> e]

---------------------------------------------------------------------------
\* Constructors and the destructor.

Begin(r) == r \notin scope /\ scope' = scope \cup {r}

\* Result(), Result(U&&), Result(in_place_t, ...), and with an Error<Err>.
Make(r, active, v) ==
  /\ Begin(r)
  /\ mem' = [Construct(mem, r, Member(active), v) EXCEPT !.active[r] = active]
  /\ call' = <<"value", r, [type |-> Member(active), val |-> v]>>

\* Result(const Result&).
CopyConstruct(r, q) ==
  /\ q \in scope
  /\ Begin(r)
  /\ LET a == mem.active[q]
     IN  mem' = Build(Based(Use(mem, q, Member(a)), r, a),
                      r, Member(a), Content(mem, q))
  /\ call' = <<"copy", r, q>>

\* When that copy throws, ~ResultBase destroys the member active_ names.
CopyConstructThrows(r, q) ==
  /\ q \in scope
  /\ r \notin scope
  /\ mem' = Clear(Based(mem, r, mem.active[q]), r)
  /\ call' = <<IF mem.active[q] THEN "threw" ELSE "lost", r>>
  /\ UNCHANGED scope

\* Result(Result&&).
MoveConstruct(r, q) ==
  /\ q \in scope
  /\ Begin(r)
  /\ LET a == mem.active[q]
     IN  mem' = MoveOut(Build(Based(mem, r, a), r, Member(a), Content(mem, q)),
                        q, Member(a))
  /\ call' = <<"move", r, q>>

\* ~ResultBase.
Destruct(r) ==
  /\ r \in scope
  /\ scope' = scope \ {r}
  /\ mem' = Clear(mem, r)
  /\ call' = <<"end", r>>

---------------------------------------------------------------------------
\* Assignment.

\* The argument is read only after this result's own member is destroyed.
Copied(r, q) ==
  LET cleared == Clear(mem, r)
      a == mem.active[q]
  IN  [Build(Use(cleared, q, Member(a)), r, Member(a), Content(cleared, q))
         EXCEPT !.active[r] = a]

\* Mutant of AssignCopy: the source is passed on as an rvalue.
AssignCopyMoves(r, q) ==
  /\ {r, q} \subseteq scope
  /\ r # q
  /\ mem' = MoveOut(Copied(r, q), q, Member(mem.active[q]))
  /\ call' = <<"copy", r, q>>
  /\ UNCHANGED scope

\* operator=(const Result&).
AssignCopy(r, q) ==
  /\ {r, q} \subseteq scope
  /\ OrLost(Copied(r, q), r, <<"copy", r, q>>)
  /\ UNCHANGED scope

\* operator=(Result&&).
AssignMove(r, q) ==
  /\ {r, q} \subseteq scope
  /\ mem' = IF r = q THEN Copied(r, q)
            ELSE MoveOut(Copied(r, q), q, Member(mem.active[q]))
  /\ call' = <<"move", r, q>>
  /\ UNCHANGED scope

\* operator=(U&&).
AssignValue(r, v) ==
  /\ r \in scope
  /\ IF mem.active[r]
     THEN \/ mem' = Assign(mem, r, "T", v) /\ call' = <<"value", r, Value(v)>>
          \/ mem' = mem /\ call' = <<"threw", r>>
     ELSE OrLost(Initialize(mem, r, TRUE, v), r, <<"value", r, Value(v)>>)
  /\ UNCHANGED scope

\* An Error<E> makes a temporary Result, which is then moved in.
AssignError(r, e) ==
  /\ r \in scope
  /\ mem' = Initialize(mem, r, FALSE, e)
  /\ call' = <<"value", r, Error(e)>>
  /\ UNCHANGED scope

\* emplace is NOEXCEPT: a constructor that throws ends the program.
Emplace(r, v) ==
  /\ r \in scope
  /\ mem' = Initialize(mem, r, TRUE, v)
  /\ call' = <<"value", r, Value(v)>>
  /\ UNCHANGED scope

\* unwrap()&&, error()&& and $unwrap give the member away.
TakeOut(r) ==
  /\ r \in scope
  /\ mem' = MoveOut(mem, r, Member(mem.active[r]))
  /\ call' = <<"take", r>>
  /\ UNCHANGED scope

---------------------------------------------------------------------------
\* The step is one of the three after which the code leaves r without the
\* member its flag names, or with one too many: a copy that throws after the
\* destruction of what was there, an assignment of r to itself, and a copying
\* constructor over a T whose destructor matters.
Spoils(r) ==
  \/ call' = <<"lost", r>>
  \/ call' \in {<<"copy", r, r>>, <<"move", r, r>>}
  \/ ~trivial /\ r \notin scope /\ \E q \in Results :
                                       call' \in {<<"copy", r, q>>, <<"move", r, q>>}

Step ==
  \E r \in Results :
    \/ Destruct(r) \/ TakeOut(r)
    \/ \E v \in Vals : Make(r, TRUE, v) \/ AssignValue(r, v) \/ Emplace(r, v)
    \/ \E e \in Errs : Make(r, FALSE, e) \/ AssignError(r, e)
    \/ \E q \in Results : \/ CopyConstruct(r, q) \/ CopyConstructThrows(r, q)
                          \/ MoveConstruct(r, q)
                          \/ AssignCopy(r, q) \/ AssignMove(r, q)

\* After a use of a dead object the language promises nothing.
Next ==
  /\ "dead" \notin mem.broken
  /\ Step
  /\ spoilt' = spoilt \cup {r \in Results : Spoils(r)}
  /\ UNCHANGED trivial

Spec == Init /\ [][Next]_vars

---------------------------------------------------------------------------
\* "An object which can contain a value or an error" (Result.hpp:95): a
\* result in scope has exactly the member active_ names, whatever was done to
\* it or to others, and no member is left behind, destroyed twice or read
\* after its destruction.  Only Spoils does otherwise, and the damage stays
\* in the result it was done to.
ValueOrError ==
  /\ mem.broken = {} \/ spoilt # {}
  /\ "dead" \notin mem.broken =>
       \A r \in Results \ spoilt :
         mem.obj[r].type = IF r \in scope THEN Member(mem.active[r]) ELSE "none"

\* What a user of a result sees of it.
Special(what) == [type |-> what, val |-> "none"]

Held == [r \in Results |-> IF r \notin scope THEN Special("out")
                           ELSE IF mem.obj[r].val = Moved
                                THEN Special("moved")
                                ELSE mem.obj[r]]

Abstract == INSTANCE Optionals WITH
  Opts <- Results,
  Values <- [type : {"T"}, val : Vals] \cup [type : {"E"}, val : Errs],
  Moved <- Special("moved"),
  Nothing <- Special("empty"),
  Out <- Special("out"),
  held <- Held

\* When copying throws, whatever becomes of the target, the source and every
\* other result keep their flag and their member.
OthersSurvive ==
  call'[1] \in {"threw", "lost"} =>
    \A q \in Results \ {call'[2]} :
      mem'.active[q] = mem.active[q] /\ mem'.obj[q] = mem.obj[q]

\* A result is an optional that is never empty: copies leave their source
\* alone, moves pass on a value as a value and an error as an error.  This is
\* claimed up to the first of the faults of Spoils, and after it too a
\* copy that throws leaves the others as they were.
ResultStep == OthersSurvive /\ (spoilt' = {} => Abstract!Next)

IsResult == Abstract!Init /\ [][ResultStep]_vars
=============================================================================
