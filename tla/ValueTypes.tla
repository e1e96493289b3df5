----------------------------- MODULE ValueTypes -----------------------------
(***************************************************************************)
(* The types of efl-core side by side: Option, Option of a reference,      *)
(* Result, Poly, Box, StrRef, ArrayRef, MimAllocator and ScopedLock share  *)
(* no state, so a program that uses all of them does to each what a        *)
(* program does that uses only that one.  This module picks one of them    *)
(* and runs its module; what is claimed of each is stated in that module.  *)
(***************************************************************************)
EXTENDS Naturals

CONSTANTS
  Cells,         \* the options, results and polys, and the objects on the heap
  Numbers,       \* the values of options that are compared
  Datas,         \* the values in options and polys, and the errors in results
  Vals,          \* the values of a result's T ...
  DefaultVal,    \* ... and that of its default constructor
  Classes, Base, \* the classes of a poly
  Holders,         \* the boxes that are variables, the views, and the blocks
  Null,          \* the null pointer
  Memory, Nul, Outside, Lengths,  \* see StringSlice
  Arrays,        \* see ArrayViews
  ViewWord,      \* the size_t of both
  Types, Counts(_), AllocWord,    \* see MimAlloc
  MaxScopes      \* see ScopedLock, whose threads and mutexes are the Cells

VARIABLES
  uses,          \* the type that the program uses
  optionMem, optionScope, optionCall,
  refData, refScope, refCall,
  compared,
  resultMem, resultScope, trivial, resultCall, resultSpoilt,
  polyMem, polyScope, cxx17, polyCall, polySpoilt,
  boxData, boxScope, life, released, todo, wrong, inside,
  viewData, viewSize, viewCall, wrapped,
  immut, elements, refsData, refsSize, refsCall, refsWrapped,
  block, asserted,
  owner, pc, args, got, scopes, raw

O == INSTANCE OptionCell WITH
  Opts <- Cells, Values <- Datas, Throws <- TRUE,
  mem <- optionMem, scope <- optionScope, call <- optionCall

F == INSTANCE OptionRef WITH
  Opts <- Cells, Referents <- Datas,
  data_ <- refData, scope <- refScope, call <- refCall

C == INSTANCE OptionOrder

R == INSTANCE ResultCell WITH
  Results <- Cells, Errs <- Datas,
  mem <- resultMem, scope <- resultScope, call <- resultCall,
  spoilt <- resultSpoilt

P == INSTANCE PolyCell WITH
  Polys <- Cells, Vals <- Datas,
  mem <- polyMem, scope <- polyScope, call <- polyCall, spoilt <- polySpoilt

B == INSTANCE BoxOwner WITH
  Vars <- Holders, Objects <- Cells, data_ <- boxData, scope <- boxScope

S == INSTANCE StringSlice WITH
  Views <- Holders, WordSize <- ViewWord,
  data_ <- viewData, size_ <- viewSize, call <- viewCall

A == INSTANCE ArrayViews WITH
  Views <- Holders, Values <- Vals, Initial <- DefaultVal,
  WordSize <- ViewWord, cells <- elements, data_ <- refsData,
  size_ <- refsSize, call <- refsCall, wrapped <- refsWrapped

M == INSTANCE MimAlloc WITH
  Slots <- Holders, WordSize <- AllocWord, NoBlock <- Null, held <- block

L == INSTANCE ScopedLock WITH
  Threads <- Cells, Mutexes <- Cells, NoThread <- Null

ASSUME ValueTypesAssumption ==
  /\ O!OptionAssumption
  /\ C!OrderAssumption
  /\ F!RefAssumption
  /\ R!ResultAssumption
  /\ P!PolyAssumption
  /\ B!BoxAssumption
  /\ S!SliceAssumption
  /\ A!ArrayAssumption
  /\ M!MimAllocAssumption
  /\ L!LockAssumption

Kinds == {"Option", "Option&", "Option <", "Result", "Poly", "Box",
          "StrRef", "ArrayRef", "MimAllocator", "ScopedLock"}

optionVars == <<optionMem, optionScope, optionCall>>
refVars == <<refData, refScope, refCall>>
orderVars == <<compared>>
resultVars == <<resultMem, resultScope, trivial, resultCall, resultSpoilt>>
polyVars == <<polyMem, polyScope, cxx17, polyCall, polySpoilt>>
boxVars == <<boxData, boxScope, life, released, todo, wrong, inside>>
viewVars == <<viewData, viewSize, viewCall, wrapped>>
arrayVars == <<immut, elements, refsData, refsSize, refsCall, refsWrapped>>
allocVars == <<block, asserted>>
lockVars == <<owner, pc, args, got, scopes, raw>>

vars ==
  <<uses, optionVars, refVars, orderVars, resultVars, polyVars, boxVars,
    viewVars, arrayVars, allocVars, lockVars>>

Init ==
  /\ uses \in Kinds
  /\ O!Init /\ F!Init /\ C!Init /\ R!Init /\ P!Init
  /\ B!Init /\ S!Init /\ A!Init /\ M!Init /\ L!Init
  /\ uses # "Result" => ~trivial
  /\ uses # "Poly" => ~cxx17
  /\ uses # "ArrayRef" => ~immut

Option ==
  /\ uses = "Option" /\ O!Next
  /\ UNCHANGED <<uses, refVars, orderVars, resultVars, polyVars, boxVars,
                 viewVars, arrayVars, allocVars, lockVars>>

OptionRef ==
  /\ uses = "Option&" /\ F!Next
  /\ UNCHANGED <<uses, optionVars, orderVars, resultVars, polyVars, boxVars,
                 viewVars, arrayVars, allocVars, lockVars>>

OptionOrder ==
  /\ uses = "Option <" /\ C!Next
  /\ UNCHANGED <<uses, optionVars, refVars, resultVars, polyVars, boxVars,
                 viewVars, arrayVars, allocVars, lockVars>>

Result ==
  /\ uses = "Result" /\ R!Next
  /\ UNCHANGED <<uses, optionVars, refVars, orderVars, polyVars, boxVars,
                 viewVars, arrayVars, allocVars, lockVars>>

Poly ==
  /\ uses = "Poly" /\ P!Next
  /\ UNCHANGED <<uses, optionVars, refVars, orderVars, resultVars, boxVars,
                 viewVars, arrayVars, allocVars, lockVars>>

Box ==
  /\ uses = "Box" /\ B!Next
  /\ UNCHANGED <<uses, optionVars, refVars, orderVars, resultVars, polyVars,
                 viewVars, arrayVars, allocVars, lockVars>>

StrRef ==
  /\ uses = "StrRef" /\ S!Next
  /\ UNCHANGED <<uses, optionVars, refVars, orderVars, resultVars, polyVars,
                 boxVars, arrayVars, allocVars, lockVars>>

ArrayRef ==
  /\ uses = "ArrayRef" /\ A!Next
  /\ UNCHANGED <<uses, optionVars, refVars, orderVars, resultVars, polyVars,
                 boxVars, viewVars, allocVars, lockVars>>

MimAllocator ==
  /\ uses = "MimAllocator" /\ M!Next
  /\ UNCHANGED <<uses, optionVars, refVars, orderVars, resultVars, polyVars,
                 boxVars, viewVars, arrayVars, lockVars>>

ScopedLock ==
  /\ uses = "ScopedLock" /\ L!Next
  /\ UNCHANGED <<uses, optionVars, refVars, orderVars, resultVars, polyVars,
                 boxVars, viewVars, arrayVars, allocVars>>

Next ==
  \/ Option \/ OptionRef \/ OptionOrder \/ Result \/ Poly \/ Box
  \/ StrRef \/ ArrayRef \/ MimAllocator \/ ScopedLock

Spec == Init /\ [][Next]_vars

---------------------------------------------------------------------------
\* Option, Result, Poly: what the flag, the member or the class number says
\* is alive in a storage is what is alive there, and no sequence of
\* operations, failed ones included, builds over, destroys or uses a wrong
\* one, but for the faults their modules list.  Box: between operations every
\* object on the heap has exactly one owner, and during the chains of
\* deletions that one operation starts nothing is destroyed twice or touched
\* after its destruction.
StoragesAreTruthful ==
  /\ O!FlagMeansAlive /\ R!ValueOrError /\ P!TypeChecked
  /\ B!OneOwner /\ B!NothingDangles

\* Option, Option of a reference, Result and Poly implement what an optional
\* promises (Optionals): copies leave their source alone, moves pass the
\* value on with its type, and an operation that throws changes nothing but
\* its target.  The comparisons of options all agree on the order of
\* optionals, with the departures their module lists.
CellsAreOptionals ==
  [][/\ uses = "Option"  => O!OptionStep
     /\ uses = "Option&" => F!OptionStep
     /\ uses = "Result"  => R!ResultStep
     /\ uses = "Poly"    => P!PolyStep
     /\ uses = "Option <" => C!OneOrder']_<<optionVars, refVars, orderVars,
                                            resultVars, polyVars>>

\* StrRef, ArrayRef and MimAllocator: however views are cut out of views,
\* they stay within the memory that the first one was made of; and the block
\* given for n elements has room for n elements and is aligned for them.
InBounds == S!InBounds /\ A!InArray /\ M!EnoughRoom

\* MimAllocator: the assertions of the fast paths hold.
AssertionsHold == M!AssertionsHold

\* StrRef shows and answers what a std::string_view would (Strings), with
\* the departures its module lists; and ArrayRef is such a string of places,
\* whose elements anybody may write.
IsStrings ==
  [][/\ uses = "StrRef"   => S!StringStep
     /\ uses = "ArrayRef" => A!ArrayStep]_<<viewVars, arrayVars>>

\* ScopedLock: a thread owns exactly the mutexes that one thing of its will
\* unlock, an open scope owns every one of its mutexes, and threads that own
\* nothing but what a constructor has taken never wait for each other in a
\* circle.
LocksAreKept == L!OneKeeper /\ L!HoldsWhileInScope /\ L!NoWaitCycle
=============================================================================
