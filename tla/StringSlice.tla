----------------------------- MODULE StringSlice -----------------------------
(***************************************************************************)
(* StrRef, and the operations that ArrayRef and ImmutArrayRef share with   *)
(* it: a pointer and a size into characters that somebody else owns.       *)
(* Addresses are indices into the memory, size_t wraps, and the caller     *)
(* keeps what the debug assertions of an operation ask: they are its       *)
(* guard.                                                                  *)
(***************************************************************************)
EXTENDS Naturals, Sequences, SequencesExt

CONSTANTS
  Views,     \* the views
  Memory,    \* the characters of a literal and its NUL
  Nul,       \* the character that ends it
  Null,      \* the null pointer
  Outside,   \* what is read where there is no character of the literal
  WordSize,  \* size_t counts modulo this
  Lengths    \* the numbers the program passes

SliceAssumption ==
  /\ Memory \in Seq(Range(Memory))
  /\ Len(Memory) > 0 /\ Memory[Len(Memory)] = Nul
  /\ \A i \in 1 .. Len(Memory) - 1 : Memory[i] # Nul
  /\ Null \notin Nat
  /\ WordSize \in Nat /\ WordSize > 2 * Len(Memory)
  /\ Lengths \subseteq 0 .. WordSize - 1

VARIABLES
  data_,  \* where each view begins
  size_,  \* how many characters it shows
  call,   \* the last call, with its arguments and its answer
  wrapped \* history: did the end of a slice wrap around in size_t?

vars == <<data_, size_, call, wrapped>>

npos == WordSize - 1

Plus(a, b) == (a + b) % WordSize

\* The character at an address, and n of them.
Read(p) == IF p \in 1 .. Len(Memory) THEN Memory[p] ELSE Outside
ReadAll(p, n) == [i \in 1 .. n |-> Read(p + i - 1)]

Init ==
  /\ data_ = [v \in Views |-> Null]
  /\ size_ = [v \in Views |-> 0]
  /\ call = <<"none">>
  /\ wrapped = FALSE

\* v becomes the view StrRef(p, n).
Set(v, p, n) ==
  /\ data_' = [data_ EXCEPT ![v] = p]
  /\ size_' = [size_ EXCEPT ![v] = n]

IsNull(v) == data_[v] = Null

---------------------------------------------------------------------------
\* StrRef(const char*): the characters up to the NUL.
FromLiteral(v, p) ==
  /\ call' = <<"made", v>>
  /\ Set(v, p, Len(Memory) - p)

\* StrRef(const char*, size_type).
FromPointer(v, p, n) ==
  /\ call' = <<"made", v>>
  /\ p + n <= Len(Memory)
  /\ Set(v, p, n)

\* slice(pos, n).
Slice(v, w, pos, n) ==
  /\ call' = <<"slice", v, w, pos, n>>
  /\ ~IsNull(w) /\ Plus(pos, n) <= size_[w]
  /\ Set(v, data_[w] + pos, n)

\* slice(n) and dropFront(n): the rest of the string.
DropsFront(v, w, n) ==
  /\ ~IsNull(w) /\ n <= size_[w]
  /\ Set(v, data_[w] + n, size_[w] - n)

DropFront(v, w, n) ==
  call' = <<"front dropped", v, w, n>> /\ DropsFront(v, w, n)

\* dropBack(n) is slice(0, size_ - n).
DropsBack(v, w, n) ==
  /\ ~IsNull(w) /\ n <= size_[w]
  /\ Set(v, data_[w], size_[w] - n)

DropBack(v, w, n) ==
  call' = <<"back dropped", v, w, n>> /\ DropsBack(v, w, n)

\* takeFront(n).
TakeFront(v, w, n) ==
  /\ call' = <<"front taken", v, w, n>>
  /\ IF n >= size_[w] THEN Set(v, data_[w], size_[w])
     ELSE DropsBack(v, w, size_[w] - n)

\* Mutant of TakeBack: n is dropped and not what is left of n.
TakeBackDropsN(v, w, n) ==
  /\ call' = <<"back taken", v, w, n>>
  /\ IF n >= size_[w] THEN Set(v, data_[w], size_[w])
     ELSE DropsFront(v, w, n)

\* takeBack(n).
TakeBack(v, w, n) ==
  /\ call' = <<"back taken", v, w, n>>
  /\ IF n >= size_[w] THEN Set(v, data_[w], size_[w])
     ELSE DropsFront(v, w, size_[w] - n)

\* Mutant of RemovePrefix: the size stays.
RemovePrefixKeepsSize(v, n) ==
  /\ call' = <<"front dropped", v, v, n>>
  /\ ~IsNull(v) /\ n <= size_[v]
  /\ Set(v, data_[v] + n, size_[v])

\* removePrefix(n) and removePrefixWith.
RemovePrefix(v, n) ==
  /\ call' = <<"front dropped", v, v, n>>
  /\ ~IsNull(v) /\ n <= size_[v]
  /\ Set(v, data_[v] + n, size_[v] - n)

\* removeSuffix(n) and removeSuffixWith, of the null view too.
RemoveSuffix(v, n) ==
  /\ call' = <<"back dropped", v, v, n>>
  /\ n <= size_[v]
  /\ Set(v, data_[v], size_[v] - n)

\* swap(s).
Swap(v, w) ==
  /\ call' = <<"swapped", v, w>>
  /\ data_' = [data_ EXCEPT ![v] = data_[w], ![w] = data_[v]]
  /\ size_' = [size_ EXCEPT ![v] = size_[w], ![w] = size_[v]]

---------------------------------------------------------------------------
\* operator[], front (n = 0) and back (n = size_ - 1).
At(v, n) ==
  /\ n < size_[v]
  /\ call' = <<"at", v, n, Read(data_[v] + n)>>
  /\ UNCHANGED <<data_, size_>>

\* copy(dst, count, pos): Traits::copy reads from data_ + count, and returns
\* dst, whose distance from dst is the number that copy returns.
Copy(v, count, pos) ==
  /\ ~IsNull(v) /\ pos <= size_[v]
  /\ LET left   == size_[v] - pos
         rcount == IF count > left THEN left ELSE count
     IN  call' = <<"copied", v, count, pos, ReadAll(data_[v] + count, rcount), 0>>
  /\ UNCHANGED <<data_, size_>>

\* isEqual(str), at run time: CxprMemcmp is true where the characters differ.
Compare(v, w) ==
  /\ call' = <<"equal", v, w,
               /\ size_[v] = size_[w]
               /\ ReadAll(data_[v], size_[v]) # ReadAll(data_[w], size_[w])>>
  /\ UNCHANGED <<data_, size_>>

\* A loop from rbegin() to rend(): rbegin() stands before begin() and moves
\* away from rend(), so that it ends only where the two are equal; otherwise
\* its first step reads in front of the string.
Backwards(v) ==
  /\ call' = <<"backwards", v,
               IF size_[v] = 0 THEN <<>> ELSE <<Read(data_[v] - 1)>>>>
  /\ UNCHANGED <<data_, size_>>

---------------------------------------------------------------------------
Derive(v, w) ==
  \/ Swap(v, w)
  \/ \E n \in Lengths :
       \/ DropFront(v, w, n) \/ DropBack(v, w, n)
       \/ TakeFront(v, w, n) \/ TakeBack(v, w, n)
       \/ \E pos \in Lengths : Slice(v, w, pos, n)

Modify(v) == \E n \in Lengths : RemovePrefix(v, n) \/ RemoveSuffix(v, n)

Make(v) ==
  \E p \in 1 .. Len(Memory) :
    FromLiteral(v, p) \/ \E n \in Lengths : FromPointer(v, p, n)

Observe(v) ==
  \/ Backwards(v)
  \/ \E w \in Views : Compare(v, w)
  \/ \E n \in Lengths : At(v, n) \/ \E pos \in Lengths : Copy(v, n, pos)

Step ==
  \E v \in Views :
    Make(v) \/ Modify(v) \/ Observe(v) \/ \E w \in Views : Derive(v, w)

\* A view that does not lie in the memory must not be read.
Next ==
  /\ ~wrapped
  /\ Step
  /\ wrapped' = (call'[1] = "slice" /\ call'[4] + call'[5] >= WordSize)

Spec == Init /\ [][Next]_vars

---------------------------------------------------------------------------
\* "Non-owning view over a constant string" (StrRef.hpp:61): however a view
\* was cut out of others, it lies within the memory they were made of, and
\* the null view is empty; only a slice whose end wraps around escapes.
InBounds ==
  wrapped \/ \A v \in Views :
    /\ size_[v] \in 0 .. npos
    /\ IF IsNull(v) THEN size_[v] = 0
       ELSE data_[v] >= 1 /\ data_[v] + size_[v] <= Len(Memory) + 1

\* The string that each view shows.
Shown == [v \in Views |-> IF IsNull(v) THEN <<>>
                          ELSE ReadAll(data_[v], size_[v])]

Abstract == INSTANCE Strings WITH
  text <- Shown,
  Contents <- {SubSeq(Memory, i, j) : i \in 1 .. Len(Memory) + 1,
                                      j \in 0 .. Len(Memory)}

\* The calls known not to do what std::string_view does: a slice whose end
\* wraps around, copy() of some characters, isEqual() of strings of one
\* length, and the way from rbegin() to rend() over some characters.
Departs ==
  \/ wrapped
  \/ call[1] = "copied" /\ call[3] > 0 /\ call[4] # size_[call[2]]
  \/ call[1] = "equal" /\ size_[call[2]] = size_[call[3]]
  \/ call[1] = "backwards" /\ size_[call[2]] > 0

\* "Implementation/extension of `std::string_view`" (StrRef.hpp:63): in every
\* sequence of calls each view shows what the calls promise, and each
\* observer answers what the string says, with the exception of Departs,
\* which no later call of another kind remembers.
StringStep == Departs' \/ Abstract!Next

IsStrings == Abstract!Init /\ [][StringStep]_<<Shown, call>>
=============================================================================
