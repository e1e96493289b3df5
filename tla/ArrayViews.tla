----------------------------- MODULE ArrayViews -----------------------------
(***************************************************************************)
(* ArrayRef and ImmutArrayRef: a pointer and a size into an array that     *)
(* somebody else owns and may write to.  The arrays lie side by side;      *)
(* addresses are indices into the places, size_t wraps, and the caller     *)
(* keeps what the debug assertions of an operation ask: they are its       *)
(* guard.  Neither type converts to the other, so that the views that are  *)
(* cut out of each other and compared are all of one of them.              *)
(***************************************************************************)
EXTENDS Naturals, Sequences

CONSTANTS
  Views,     \* the views
  Arrays,    \* the arrays: the address of the first element and their number
  Values,    \* the values of an element ...
  Initial,   \* ... and the one they all have at first
  Null,      \* the null pointer
  WordSize,  \* size_t counts modulo this
  Lengths    \* the numbers the program passes

Last(a) == a.first + a.size - 1
Places == UNION {a.first .. Last(a) : a \in Arrays}

ArrayAssumption ==
  /\ \A a \in Arrays : a.first \in Nat \ {0} /\ a.size \in Nat
  /\ \A a, b \in Arrays :
       a # b => (a.first .. Last(a)) \cap (b.first .. Last(b)) = {}
  /\ WordSize \in Nat /\ \A p \in Places : WordSize > 2 * p
  /\ Initial \in Values
  /\ Null \notin Nat
  /\ Lengths \subseteq 0 .. WordSize - 1

VARIABLES
  immut,  \* are the views ImmutArrayRefs?
  cells,  \* the elements
  data_,  \* where each view begins
  size_,  \* how many elements it shows
  call,   \* the call just made, with its arguments and its answer
  wrapped \* history: did the end of a slice wrap around in size_t?

vars == <<immut, cells, data_, size_, call, wrapped>>

Init ==
  /\ immut \in BOOLEAN
  /\ cells = [p \in Places |-> Initial]
  /\ data_ = [v \in Views |-> Null]
  /\ size_ = [v \in Views |-> 0]
  /\ call = <<"none">>
  /\ wrapped = FALSE

Plus(a, b) == (a + b) % WordSize

\* v becomes the view (p, n).
Set(v, p, n) ==
  /\ data_' = [data_ EXCEPT ![v] = p]
  /\ size_' = [size_ EXCEPT ![v] = n]
  /\ UNCHANGED cells

---------------------------------------------------------------------------
\* The constructors.

MadeOf(v, p, n) == call' = <<"made", v>> /\ Set(v, p, n)

\* From nothing, and from nullopt.
FromNull(v) == MadeOf(v, Null, 0)

\* From one element.
FromElement(v) == \E p \in Places : MadeOf(v, p, 1)

\* From a pointer into an array and a length, and from two pointers.
FromPointer(v) ==
  \E a \in Arrays : \E begin, end \in a.first .. Last(a) + 1 :
    end >= begin /\ MadeOf(v, begin, end - begin)

\* From a std::vector, an Array or a raw array.
FromArray(v) == \E a \in Arrays : MadeOf(v, a.first, a.size)

\* make_arrayref, one overload per constructor.
MakeArrayRef(v) == FromElement(v) \/ FromPointer(v) \/ FromArray(v)

\* ImmutArrayRef's constructors pass their arguments on.
ImmutFromElement(v) == FromElement(v)
ImmutFromPointer(v) == FromPointer(v)
ImmutFromArray(v) == FromArray(v)
MakeImmutArrayRef(v) ==
  ImmutFromElement(v) \/ ImmutFromPointer(v) \/ ImmutFromArray(v)

---------------------------------------------------------------------------
\* The operations that cut a view w out.

\* slice(pos, n).
Slice(v, w, pos, n) ==
  /\ call' = <<"slice", v, w, pos, n>>
  /\ data_[w] # Null /\ Plus(pos, n) <= size_[w]
  /\ Set(v, data_[w] + pos, n)

\* slice(n) and dropFront(n): the rest of the array.
Rest(v, w, n) ==
  /\ data_[w] # Null /\ n <= size_[w]
  /\ Set(v, data_[w] + n, size_[w] - n)

DropFront(v, w, n) == call' = <<"front dropped", v, w, n>> /\ Rest(v, w, n)

\* dropBack(n), by slice(0, size_ - n).
Front(v, w, n) ==
  /\ data_[w] # Null /\ n <= size_[w]
  /\ Set(v, data_[w], size_[w] - n)

DropBack(v, w, n) == call' = <<"back dropped", v, w, n>> /\ Front(v, w, n)

\* takeFront(n) and takeBack(n).
TakeFront(v, w, n) ==
  /\ call' = <<"front taken", v, w, n>>
  /\ \/ n >= size_[w] /\ Set(v, data_[w], size_[w])
     \/ n < size_[w] /\ Front(v, w, size_[w] - n)

TakeBack(v, w, n) ==
  /\ call' = <<"back taken", v, w, n>>
  /\ \/ n >= size_[w] /\ Set(v, data_[w], size_[w])
     \/ n < size_[w] /\ Rest(v, w, size_[w] - n)

Cut(v, w) ==
  \E n \in Lengths :
    \/ DropFront(v, w, n) \/ DropBack(v, w, n)
    \/ TakeFront(v, w, n) \/ TakeBack(v, w, n)
    \/ \E pos \in Lengths : Slice(v, w, pos, n)

\* ImmutArrayRef repeats them, so that they return ImmutArrayRefs.
ImmutCut(v, w) == Cut(v, w)

---------------------------------------------------------------------------
\* The operations that look at a view.  None of them changes it.

Answer(what) == call' = what /\ UNCHANGED <<data_, size_>>

\* operator[], front (n = 0) and back (n = size_ - 1): a reference.
At(v, n) ==
  /\ n < size_[v]
  /\ Answer(<<"at", v, n, data_[v] + n>>)
  /\ UNCHANGED cells

\* The program assigns to the reference it got: not from an ImmutArrayRef.
WriteAt(v, n, x) ==
  /\ ~immut /\ n < size_[v]
  /\ Answer(<<"written", v, n, x>>)
  /\ cells' = [cells EXCEPT ![data_[v] + n] = x]

\* operator[], front and back of ImmutArrayRef.
ImmutAt(v, n) == At(v, n)

\* A loop from begin() to end(), and toVec(): the elements in their order.
Forwards(v) ==
  /\ Answer(<<"copied", v, [i \in 1 .. size_[v] |-> cells[data_[v] + i - 1]]>>)
  /\ UNCHANGED cells

\* A loop from rbegin() to rend(): it ends at once where the two are equal,
\* and otherwise first reads the element in front of the view.
Backwards(v) ==
  /\ Answer(<<"backwards", v,
              IF size_[v] = 0 THEN <<>> ELSE <<data_[v] - 1>>>>)
  /\ UNCHANGED cells

\* isEqual, with the view (p, n).
Equal(v, p, n) ==
  /\ size_[v] = n
  /\ \A i \in 0 .. n - 1 : cells[data_[v] + i] = cells[p + i]

Compare(v, w) ==
  /\ Answer(<<"equal", v, w, Equal(v, data_[w], size_[w])>>)
  /\ UNCHANGED cells

\* ImmutArrayRef's isEqual.
ImmutCompare(v, w) == Compare(v, w)

\* operator== and operator!=, which make a view of their right-hand side.
CompareWith(v, p, n) ==
  /\ Answer(<<"equal to", v, p, n, Equal(v, p, n)>>)
  /\ UNCHANGED cells

---------------------------------------------------------------------------
ArrayRefStep(v) ==
  /\ ~immut
  /\ \/ FromNull(v) \/ MakeArrayRef(v)
     \/ \E n \in Lengths : At(v, n) \/ \E x \in Values : WriteAt(v, n, x)
     \/ \E w \in Views : Cut(v, w) \/ Compare(v, w)

ImmutArrayRefStep(v) ==
  /\ immut
  /\ \/ FromNull(v) \/ MakeImmutArrayRef(v)
     \/ \E n \in Lengths : ImmutAt(v, n)
     \/ \E w \in Views : ImmutCut(v, w) \/ ImmutCompare(v, w)

\* The program writes to an array.
OwnerWrites ==
  /\ \E p \in Places, x \in Values : cells' = [cells EXCEPT ![p] = x]
  /\ Answer(<<"none">>)

\* The answer has been looked at.
Return ==
  /\ call # <<"none">>
  /\ Answer(<<"none">>)
  /\ UNCHANGED cells

Step ==
  /\ call = <<"none">>
  /\ \/ OwnerWrites
     \/ \E v \in Views :
          \/ ArrayRefStep(v) \/ ImmutArrayRefStep(v)
          \/ Forwards(v) \/ Backwards(v)
          \/ \E a \in Arrays : CompareWith(v, a.first, a.size)
          \/ \E p \in Places : CompareWith(v, p, 1)

\* A view that does not lie in an array must not be read.
Next ==
  /\ ~wrapped
  /\ Step \/ Return
  /\ wrapped' = (call'[1] = "slice" /\ call'[4] + call'[5] >= WordSize)
  /\ UNCHANGED immut

Spec == Init /\ [][Next]_vars

---------------------------------------------------------------------------
\* "Non-owning view over a contiguous buffer" (ArrayRef.hpp:60): however it
\* was cut, a view lies within one array, and never reaches into the next;
\* only a slice whose end wraps around does.
InArray ==
  wrapped \/ \A v \in Views :
    IF data_[v] = Null THEN size_[v] = 0
    ELSE \E a \in Arrays : /\ size_[v] \in 0 .. a.size
                           /\ data_[v] >= a.first
                           /\ data_[v] + size_[v] <= Last(a) + 1

\* The places that each view shows: the string that it is.
Shown == [v \in Views |-> [i \in 1 .. size_[v] |-> data_[v] + i - 1]]

Abstract == INSTANCE Strings WITH
  text <- Shown,
  Contents <- {[i \in 1 .. n |-> p + i - 1] : p \in Places, n \in 0 .. WordSize - 1}
                \cup {<<>>}

\* What each view shows now.
Elements(v) == [i \in DOMAIN Shown[v] |-> cells[Shown[v][i]]]

\* The calls that Strings does not know: they read and write the elements in
\* the places of a view, and a write reaches every view of the place.
ElementStep ==
  /\ UNCHANGED Shown
  /\ \/ call'[1] = "none"
     \/ /\ call'[1] = "written"
        /\ cells' = [cells EXCEPT ![Shown[call'[2]][call'[3] + 1]] = call'[4]]
     \/ /\ UNCHANGED cells
        /\ \/ call'[1] = "copied" /\ call'[3] = Elements(call'[2])
           \/ /\ call'[1] = "equal"
              /\ call'[4] <=> Elements(call'[2]) = Elements(call'[3])
           \/ /\ call'[1] = "equal to"
              /\ call'[5] <=> Elements(call'[2])
                                = [i \in 1 .. call'[4] |-> cells[call'[3] + i - 1]]

\* Known not to do what a string would: a slice whose end wraps around, and
\* the way from rbegin() to rend() over some elements.
Departs == wrapped \/ (call[1] = "backwards" /\ size_[call[2]] > 0)

\* A view is a string of places: every cut shows the places it promises, and
\* what is read and compared is what stands there at that time.
ArrayStep ==
  \/ Departs' \/ ElementStep
  \/ call'[1] \notin {"equal", "copied"} /\ UNCHANGED cells /\ Abstract!Next
=============================================================================
