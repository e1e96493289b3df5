----------------------------- MODULE OptionOrder -----------------------------
(***************************************************************************)
(* The comparisons of Option (Option/Compare.hpp), each overload written   *)
(* out by hand: of two options, of an option and a value, of an option and *)
(* nullopt, in both orders, and the three-way comparisons of C++20.  An    *)
(* option is a sequence of at most one element.                            *)
(***************************************************************************)
EXTENDS Naturals, Sequences

CONSTANT Numbers  \* the values of T

OrderAssumption == Numbers \subseteq Nat

VARIABLE compared  \* the last comparison: its sides and the answers to it

vars == <<compared>>

Options == {<<>>} \cup {<<n>> : n \in Numbers}

Has(t) == t # <<>>

Init == compared = <<>>

\* The answers are the sets of those that the operator may give: reading the
\* element of an empty option may give any.
Only(answer) == {answer}

\* The answer of <=> on two elements, or on two flags as 0 and 1.
ThreeWay(a, b) ==
  IF a < b THEN "less" ELSE IF a = b THEN "equal" ELSE "greater"
Flag(t) == Len(t)

---------------------------------------------------------------------------
\* operator!= of two options, which reads the element of an empty left side.
NotEqual(t, u) ==
  IF Has(t) = Has(u) THEN Only(FALSE)
  ELSE IF Has(t) THEN Only(TRUE) ELSE BOOLEAN

\* The operators on two options.
OfOptions(t, u) ==
  [eq |-> Only(Has(t) = Has(u) /\ (~Has(t) \/ t[1] = u[1])),
   ne |-> NotEqual(t, u),
   lt |-> Only(Has(u) /\ (~Has(t) \/ t[1] < u[1])),
   gt |-> Only(Has(t) /\ (~Has(u) \/ t[1] > u[1])),
   le |-> Only(~Has(t) \/ (Has(u) /\ t[1] <= u[1])),
   ge |-> Only(~Has(u) \/ (Has(t) /\ t[1] >= u[1]))]

\* operator<=> of two options.
OrderOfOptions(t, u) ==
  IF Has(t) /\ Has(u) THEN ThreeWay(t[1], u[1]) ELSE ThreeWay(Flag(t), Flag(u))

\* An option on the left and a value on the right.
OfValue(t, n) ==
  [eq |-> Only(Has(t) /\ t[1] = n),
   ne |-> Only(~Has(t) \/ t[1] # n),
   lt |-> Only(~Has(t) \/ t[1] < n),
   gt |-> Only(Has(t) /\ t[1] > n),
   le |-> Only(~Has(t) \/ t[1] <= n),
   ge |-> Only(Has(t) /\ t[1] >= n)]

\* A value on the left and an option on the right.
ToOption(n, t) ==
  [eq |-> Only(Has(t) /\ n = t[1]),
   ne |-> Only(~Has(t) \/ n # t[1]),
   lt |-> Only(Has(t) /\ n < t[1]),
   gt |-> Only(~Has(t) \/ n > t[1]),
   le |-> Only(Has(t) /\ n <= t[1]),
   ge |-> Only(~Has(t) \/ n >= t[1])]

\* operator<=> of an option and a value.
OrderOfValue(t, n) == IF Has(t) THEN ThreeWay(t[1], n) ELSE "less"

\* An option on the left, or on the right, and nullopt.
OfNull(t) ==
  [eq |-> Only(~Has(t)), ne |-> Only(Has(t)), lt |-> Only(FALSE),
   gt |-> Only(Has(t)), le |-> Only(~Has(t)), ge |-> Only(TRUE)]
ToNull(t) ==
  [eq |-> Only(~Has(t)), ne |-> Only(Has(t)), lt |-> Only(Has(t)),
   gt |-> Only(FALSE), le |-> Only(TRUE), ge |-> Only(~Has(t))]

\* operator<=> of an option and nullopt.
OrderOfNull(t) == ThreeWay(Flag(t), 0)

---------------------------------------------------------------------------
Compared(l, r, answers, order) ==
  compared' = [left |-> l, right |-> r, answers |-> answers, order |-> order]

\* The program compares; from C++20 there is <=> with the option on the left.
CompareOptions ==
  \E t, u \in Options : Compared(t, u, OfOptions(t, u), OrderOfOptions(t, u))
CompareValue ==
  \E t \in Options, n \in Numbers :
    \/ Compared(t, <<n>>, OfValue(t, n), OrderOfValue(t, n))
    \/ Compared(<<n>>, t, ToOption(n, t), "none")
CompareNull ==
  \E t \in Options : \/ Compared(t, <<>>, OfNull(t), OrderOfNull(t))
                     \/ Compared(<<>>, t, ToNull(t), "none")

Next == CompareOptions \/ CompareValue \/ CompareNull

Spec == Init /\ [][Next]_vars

---------------------------------------------------------------------------
\* The order that std::optional has: nothing lies below every value.
Below(l, r) == Len(l) < Len(r) \/ (Has(l) /\ Has(r) /\ l[1] < r[1])

\* All overloads say of two sides what one total order says, whichever of
\* them the types select: the six operators are consistent with each other
\* and with <=>.  Only operator!= of two options departs, when the left one
\* is empty and when both are full and differ.
OneOrder ==
  compared # <<>> =>
    LET l == compared.left
        r == compared.right
        a == compared.answers
    IN  /\ a.eq = {l = r}
        /\ \/ a.ne = {l # r}
           \/ a.ne = BOOLEAN /\ ~Has(l)
           \/ a.ne = {FALSE} /\ Has(l) /\ Has(r)
        /\ a.lt = {Below(l, r)} /\ a.gt = {Below(r, l)}
        /\ a.le = {~Below(r, l)} /\ a.ge = {~Below(l, r)}
        /\ compared.order \in
             {"none",
              IF l = r THEN "equal" ELSE IF Below(l, r) THEN "less" ELSE "greater"}
=============================================================================
