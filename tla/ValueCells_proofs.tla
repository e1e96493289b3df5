------------------------- MODULE ValueCells_proofs -------------------------
(***************************************************************************)
(* Proofs about the storages of efl, for any values, errors, classes and   *)
(* objects: Option, Option of a reference, Result, Poly and Box, and the   *)
(* comparisons of options.                                                 *)
(*                                                                         *)
(* For the first four the invariant says of each storage on its own what   *)
(* is in it, so that the step of an operation is looked at where its one   *)
(* or two cells are.  For Box it is about who points to whom: while the    *)
(* chain of deletions that one operation starts is under way, what is yet  *)
(* to be destroyed, reset or taken is owned by nothing that stays (BoxInv).*)
(***************************************************************************)
EXTENDS ValueTypes, FiniteSetTheorems, SequenceTheorems, TLAPS

-----------------------------------------------------------------------------
(* The comparisons of options. *)

\* What OneOrder says of a comparison of l and r.
OrderAgree(l, r, a, order) ==
  /\ a.eq = {l = r}
  /\ \/ a.ne = {l # r}
     \/ a.ne = BOOLEAN /\ ~C!Has(l)
     \/ a.ne = {FALSE} /\ C!Has(l) /\ C!Has(r)
  /\ a.lt = {C!Below(l, r)} /\ a.gt = {C!Below(r, l)}
  /\ a.le = {~C!Below(r, l)} /\ a.ge = {~C!Below(l, r)}
  /\ order \in {"none",
                IF l = r THEN "equal" ELSE IF C!Below(l, r) THEN "less" ELSE "greater"}

LEMMA OrderAgreeStep ==
  ASSUME NEW l, NEW r, NEW a, NEW order, C!Compared(l, r, a, order), OrderAgree(l, r, a, order)
  PROVE  C!OneOrder'
<1>1. /\ compared'.left = l /\ compared'.right = r
      /\ compared'.answers = a /\ compared'.order = order
  BY DEF C!Compared
<1>2. QED
  BY <1>1 DEF OrderAgree, C!OneOrder

\* A side of a comparison is nothing or one number.
LEMMA OrderSides ==
  ASSUME C!OrderAssumption, NEW t \in C!Options
  PROVE  \/ t = <<>> /\ ~C!Has(t) /\ C!Flag(t) = 0 /\ Len(t) = 0
         \/ \E n \in Nat : t = <<n>> /\ C!Has(t) /\ C!Flag(t) = 1 /\ Len(t) = 1 /\ t[1] = n
  BY DEF C!Options, C!OrderAssumption, C!Has, C!Flag

LEMMA OrderSingle ==
  ASSUME C!OrderAssumption, NEW n \in Numbers
  PROVE  <<n>> \in C!Options /\ n \in Nat /\ C!Has(<<n>>) /\ Len(<<n>>) = 1 /\ <<n>>[1] = n
  BY DEF C!Options, C!OrderAssumption, C!Has

LEMMA OrderNothing == <<>> \in C!Options /\ ~C!Has(<<>>) /\ Len(<<>>) = 0
  BY DEF C!Options, C!Has

\* Two options.
LEMMA OrderOptionsAgree ==
  ASSUME C!OrderAssumption, NEW t \in C!Options, NEW u \in C!Options
  PROVE  OrderAgree(t, u, C!OfOptions(t, u), C!OrderOfOptions(t, u))
<1> DEFINE a == C!OfOptions(t, u)
<1>1. /\ a.eq = {C!Has(t) = C!Has(u) /\ (~C!Has(t) \/ t[1] = u[1])}
      /\ a.lt = {C!Has(u) /\ (~C!Has(t) \/ t[1] < u[1])}
      /\ a.gt = {C!Has(t) /\ (~C!Has(u) \/ t[1] > u[1])}
      /\ a.le = {~C!Has(t) \/ (C!Has(u) /\ t[1] <= u[1])}
      /\ a.ge = {~C!Has(u) \/ (C!Has(t) /\ t[1] >= u[1])}
  BY SMT DEF C!OfOptions, C!Only
<1>2. /\ (C!Has(t) = C!Has(u) /\ (~C!Has(t) \/ t[1] = u[1])) = (t = u)
      /\ (C!Has(u) /\ (~C!Has(t) \/ t[1] < u[1])) = (C!Below(t, u))
      /\ (C!Has(t) /\ (~C!Has(u) \/ t[1] > u[1])) = (C!Below(u, t))
      /\ (~C!Has(t) \/ (C!Has(u) /\ t[1] <= u[1])) = (~C!Below(u, t))
      /\ (~C!Has(u) \/ (C!Has(t) /\ t[1] >= u[1])) = (~C!Below(t, u))
  BY OrderSides DEF C!Below, C!Has
<1>3. \/ a.ne = {t # u}
      \/ a.ne = BOOLEAN /\ ~C!Has(t)
      \/ a.ne = {FALSE} /\ C!Has(t) /\ C!Has(u)
  <2>1. a.ne = C!NotEqual(t, u)
    BY SMT DEF C!OfOptions
  <2>2. CASE C!Has(t) = C!Has(u) /\ ~C!Has(t)
    BY <2>1, <2>2, OrderSides DEF C!NotEqual, C!Only
  <2>3. CASE C!Has(t) /\ C!Has(u)
    BY <2>1, <2>3, Zenon DEF C!NotEqual, C!Only
  <2>4. CASE C!Has(t) /\ ~C!Has(u)
    BY <2>1, <2>4, OrderSides DEF C!NotEqual, C!Only
  <2>5. CASE ~C!Has(t) /\ C!Has(u)
    BY <2>1, <2>5, Zenon DEF C!NotEqual, C!Only
  <2>6. QED
    BY <2>2, <2>3, <2>4, <2>5, OrderSides
<1>4. C!OrderOfOptions(t, u) \in {"none", IF t = u THEN "equal"
                         ELSE IF C!Below(t, u) THEN "less" ELSE "greater"}
  BY OrderSides DEF C!OrderOfOptions, C!Below, C!ThreeWay, C!Flag
<1> HIDE DEF a
<1>5. OrderAgree(t, u, a, C!OrderOfOptions(t, u))
  BY <1>1, <1>2, <1>3, <1>4, Zenon DEF OrderAgree
<1>6. QED
  BY <1>5 DEF a

\* An option and a value.
LEMMA OrderValueAgrees ==
  ASSUME C!OrderAssumption, NEW t \in C!Options, NEW n \in Numbers
  PROVE  OrderAgree(t, <<n>>, C!OfValue(t, n), C!OrderOfValue(t, n))
<1> DEFINE a == C!OfValue(t, n)
<1>1. /\ a.eq = {C!Has(t) /\ t[1] = n}
      /\ a.lt = {~C!Has(t) \/ t[1] < n}
      /\ a.gt = {C!Has(t) /\ t[1] > n}
      /\ a.le = {~C!Has(t) \/ t[1] <= n}
      /\ a.ge = {C!Has(t) /\ t[1] >= n}
  BY SMT DEF C!OfValue, C!Only
<1>2. /\ (C!Has(t) /\ t[1] = n) = (t = <<n>>)
      /\ (~C!Has(t) \/ t[1] < n) = (C!Below(t, <<n>>))
      /\ (C!Has(t) /\ t[1] > n) = (C!Below(<<n>>, t))
      /\ (~C!Has(t) \/ t[1] <= n) = (~C!Below(<<n>>, t))
      /\ (C!Has(t) /\ t[1] >= n) = (~C!Below(t, <<n>>))
  <2>1. CASE t = <<>>
    BY <2>1, OrderSingle DEF C!Below, C!Has
  <2>2. CASE t # <<>>
    <3>1. PICK m \in Nat : t = <<m>> /\ C!Has(t) /\ Len(t) = 1 /\ t[1] = m
      BY <2>2, OrderSides
    <3>2. n \in Nat /\ C!Has(<<n>>) /\ Len(<<n>>) = 1 /\ <<n>>[1] = n
      BY OrderSingle
    <3>3. QED
      BY <3>1, <3>2 DEF C!Below
  <2>3. QED
    BY <2>1, <2>2
<1>3. \/ a.ne = {t # <<n>>}
      \/ a.ne = BOOLEAN /\ ~C!Has(t)
      \/ a.ne = {FALSE} /\ C!Has(t) /\ C!Has(<<n>>)
  <2>1. a.ne = {~C!Has(t) \/ t[1] # n}
    BY SMT DEF C!OfValue, C!Only
  <2>2. (~C!Has(t) \/ t[1] # n) = (t # <<n>>)
    BY OrderSides, OrderSingle DEF C!Has
  <2>3. QED
    BY <2>1, <2>2, Zenon
<1>4. C!OrderOfValue(t, n) \in {"none", IF t = <<n>> THEN "equal"
                         ELSE IF C!Below(t, <<n>>) THEN "less" ELSE "greater"}
  BY OrderSides, OrderSingle DEF C!OrderOfValue, C!Below, C!ThreeWay, C!Flag
<1> HIDE DEF a
<1>5. OrderAgree(t, <<n>>, a, C!OrderOfValue(t, n))
  BY <1>1, <1>2, <1>3, <1>4, Zenon DEF OrderAgree
<1>6. QED
  BY <1>5 DEF a

\* A value and an option.
LEMMA OrderOptionAgrees ==
  ASSUME C!OrderAssumption, NEW t \in C!Options, NEW n \in Numbers
  PROVE  OrderAgree(<<n>>, t, C!ToOption(n, t), "none")
<1> DEFINE a == C!ToOption(n, t)
<1>1. /\ a.eq = {C!Has(t) /\ n = t[1]}
      /\ a.lt = {C!Has(t) /\ n < t[1]}
      /\ a.gt = {~C!Has(t) \/ n > t[1]}
      /\ a.le = {C!Has(t) /\ n <= t[1]}
      /\ a.ge = {~C!Has(t) \/ n >= t[1]}
  BY SMT DEF C!ToOption, C!Only
<1>2. /\ (C!Has(t) /\ n = t[1]) = (<<n>> = t)
      /\ (C!Has(t) /\ n < t[1]) = (C!Below(<<n>>, t))
      /\ (~C!Has(t) \/ n > t[1]) = (C!Below(t, <<n>>))
      /\ (C!Has(t) /\ n <= t[1]) = (~C!Below(t, <<n>>))
      /\ (~C!Has(t) \/ n >= t[1]) = (~C!Below(<<n>>, t))
  <2>1. CASE t = <<>>
    BY <2>1, OrderSingle DEF C!Below, C!Has
  <2>2. CASE t # <<>>
    <3>1. PICK m \in Nat : t = <<m>> /\ C!Has(t) /\ Len(t) = 1 /\ t[1] = m
      BY <2>2, OrderSides
    <3>2. n \in Nat /\ C!Has(<<n>>) /\ Len(<<n>>) = 1 /\ <<n>>[1] = n
      BY OrderSingle
    <3>3. QED
      BY <3>1, <3>2 DEF C!Below
  <2>3. QED
    BY <2>1, <2>2
<1>3. \/ a.ne = {<<n>> # t}
      \/ a.ne = BOOLEAN /\ ~C!Has(<<n>>)
      \/ a.ne = {FALSE} /\ C!Has(<<n>>) /\ C!Has(t)
  <2>1. a.ne = {~C!Has(t) \/ n # t[1]}
    BY SMT DEF C!ToOption, C!Only
  <2>2. (~C!Has(t) \/ n # t[1]) = (<<n>> # t)
    BY OrderSides, OrderSingle DEF C!Has
  <2>3. QED
    BY <2>1, <2>2, Zenon
<1>4. "none" \in {"none", IF <<n>> = t THEN "equal"
                        ELSE IF C!Below(<<n>>, t) THEN "less" ELSE "greater"}
  OBVIOUS
<1> HIDE DEF a
<1>5. OrderAgree(<<n>>, t, a, "none")
  BY <1>1, <1>2, <1>3, <1>4, Zenon DEF OrderAgree
<1>6. QED
  BY <1>5 DEF a

\* An option and nullopt.
LEMMA OrderNullAgrees ==
  ASSUME C!OrderAssumption, NEW t \in C!Options
  PROVE  OrderAgree(t, <<>>, C!OfNull(t), C!OrderOfNull(t))
<1> DEFINE a == C!OfNull(t)
<1>1. /\ a.eq = {~C!Has(t)}
      /\ a.lt = {FALSE}
      /\ a.gt = {C!Has(t)}
      /\ a.le = {~C!Has(t)}
      /\ a.ge = {TRUE}
  BY SMT DEF C!OfNull, C!Only
<1>2. /\ (~C!Has(t)) = (t = <<>>)
      /\ (FALSE) = (C!Below(t, <<>>))
      /\ (C!Has(t)) = (C!Below(<<>>, t))
      /\ (~C!Has(t)) = (~C!Below(<<>>, t))
      /\ (TRUE) = (~C!Below(t, <<>>))
  BY OrderSides, OrderNothing DEF C!Below, C!Has
<1>3. \/ a.ne = {t # <<>>}
      \/ a.ne = BOOLEAN /\ ~C!Has(t)
      \/ a.ne = {FALSE} /\ C!Has(t) /\ C!Has(<<>>)
  <2>1. a.ne = {C!Has(t)}
    BY SMT DEF C!OfNull, C!Only
  <2>2. (C!Has(t)) = (t # <<>>)
    BY OrderSides, OrderNothing DEF C!Has
  <2>3. QED
    BY <2>1, <2>2, Zenon
<1>4. C!OrderOfNull(t) \in {"none", IF t = <<>> THEN "equal"
                         ELSE IF C!Below(t, <<>>) THEN "less" ELSE "greater"}
  BY OrderSides, OrderNothing DEF C!OrderOfNull, C!Below, C!ThreeWay, C!Flag
<1> HIDE DEF a
<1>5. OrderAgree(t, <<>>, a, C!OrderOfNull(t))
  BY <1>1, <1>2, <1>3, <1>4, Zenon DEF OrderAgree
<1>6. QED
  BY <1>5 DEF a

\* nullopt and an option.
LEMMA OrderToNullAgrees ==
  ASSUME C!OrderAssumption, NEW t \in C!Options
  PROVE  OrderAgree(<<>>, t, C!ToNull(t), "none")
<1> DEFINE a == C!ToNull(t)
<1>1. /\ a.eq = {~C!Has(t)}
      /\ a.lt = {C!Has(t)}
      /\ a.gt = {FALSE}
      /\ a.le = {TRUE}
      /\ a.ge = {~C!Has(t)}
  BY SMT DEF C!ToNull, C!Only
<1>2. /\ (~C!Has(t)) = (<<>> = t)
      /\ (C!Has(t)) = (C!Below(<<>>, t))
      /\ (FALSE) = (C!Below(t, <<>>))
      /\ (TRUE) = (~C!Below(t, <<>>))
      /\ (~C!Has(t)) = (~C!Below(<<>>, t))
  BY OrderSides, OrderNothing DEF C!Below, C!Has
<1>3. \/ a.ne = {<<>> # t}
      \/ a.ne = BOOLEAN /\ ~C!Has(<<>>)
      \/ a.ne = {FALSE} /\ C!Has(<<>>) /\ C!Has(t)
  <2>1. a.ne = {C!Has(t)}
    BY SMT DEF C!ToNull, C!Only
  <2>2. (C!Has(t)) = (<<>> # t)
    BY OrderSides, OrderNothing DEF C!Has
  <2>3. QED
    BY <2>1, <2>2, Zenon
<1>4. "none" \in {"none", IF <<>> = t THEN "equal"
                        ELSE IF C!Below(<<>>, t) THEN "less" ELSE "greater"}
  OBVIOUS
<1> HIDE DEF a
<1>5. OrderAgree(<<>>, t, a, "none")
  BY <1>1, <1>2, <1>3, <1>4, Zenon DEF OrderAgree
<1>6. QED
  BY <1>5 DEF a

LEMMA OrderStep == ASSUME C!OrderAssumption, C!Next PROVE C!OneOrder'
<1>1. ASSUME C!CompareOptions PROVE C!OneOrder'
  BY <1>1, OrderOptionsAgree, OrderAgreeStep DEF C!CompareOptions
<1>2. ASSUME C!CompareValue PROVE C!OneOrder'
  BY <1>2, OrderValueAgrees, OrderOptionAgrees, OrderAgreeStep DEF C!CompareValue
<1>3. ASSUME C!CompareNull PROVE C!OneOrder'
  BY <1>3, OrderNullAgrees, OrderToNullAgrees, OrderAgreeStep DEF C!CompareNull
<1>4. QED
  BY <1>1, <1>2, <1>3 DEF C!Next

-----------------------------------------------------------------------------
(* Option of a reference. *)

RefTyped == refData \in [Cells -> Datas \cup {Null}]

LEMMA RefTypedInit == ASSUME F!Init PROVE RefTyped
  BY DEF F!Init, RefTyped

\* orElse is one of the constructors.
LEMMA RefCases ==
  ASSUME F!Next
  PROVE  \E x \in Cells :
           \/ F!Default(x) \/ F!Destruct(x) \/ F!Reset(x)
           \/ \E o \in Datas : F!FromObject(x, o) \/ F!AssignObject(x, o)
           \/ \E y \in Cells : \/ F!CopyConstruct(x, y) \/ F!MoveConstruct(x, y)
                               \/ F!AssignCopy(x, y) \/ F!AssignMove(x, y)
                               \/ F!Swap(x, y)
  BY DEF F!Next, F!OrElse

LEMMA RefTypedNext == ASSUME RefTyped, F!Next PROVE RefTyped'
<1> USE DEF RefTyped
<1>1. ASSUME NEW x \in Cells, NEW y \in Cells,
             \/ F!Default(x) \/ F!Destruct(x) \/ F!Reset(x)
             \/ F!CopyConstruct(x, y) \/ F!MoveConstruct(x, y)
             \/ F!AssignCopy(x, y) \/ F!AssignMove(x, y) \/ F!Swap(x, y)
      PROVE  RefTyped'
  BY <1>1 DEF F!Default, F!Destruct, F!Reset, F!CopyConstruct, F!MoveConstruct, F!AssignCopy,
     F!AssignMove, F!Swap
<1>2. ASSUME NEW x \in Cells, NEW o \in Datas, F!FromObject(x, o) \/ F!AssignObject(x, o)
      PROVE  RefTyped'
  BY <1>2 DEF F!FromObject, F!AssignObject
<1>3. QED
  BY <1>1, <1>2, RefCases

\* What a user sees of an option, in scope and out of it.
LEMMA RefHeld ==
  ASSUME F!RefAssumption, RefTyped, NEW x \in Cells
  PROVE  /\ x \notin refScope <=> F!Held[x] = "out"
         /\ x \in refScope => /\ refData[x] = Null <=> F!Held[x] = "empty"
                              /\ refData[x] # Null => F!Held[x] = refData[x]
  BY DEF F!RefAssumption, RefTyped, F!Held, F!Active

\* One option is now in scope and refers to o, or to nothing.
LEMMA RefBegun ==
  ASSUME F!RefAssumption, RefTyped, NEW x \in Cells, NEW p \in Datas \cup {Null},
         refScope' = refScope \cup {x}, refData' = [refData EXCEPT ![x] = p]
  PROVE  F!Held' = [F!Held EXCEPT ![x] = IF p = Null THEN "empty" ELSE p]
  BY DEF F!RefAssumption, RefTyped, F!Held, F!Active

LEMMA RefStep ==
  ASSUME F!RefAssumption, RefTyped, F!Next
  PROVE  F!OptionStep
<1> USE DEF RefTyped, F!OptionStep, F!Abstract!Next
<1>1. ASSUME NEW x \in Cells, F!Default(x) \/ F!Reset(x)
      PROVE  F!OptionStep
  <2>1. refScope' = refScope \cup {x} /\ refData' = [refData EXCEPT ![x] = Null]
    BY <1>1 DEF F!Default, F!Reset, F!Begin
  <2>2. F!Held' = [F!Held EXCEPT ![x] = "empty"]
    BY <2>1, RefBegun
  <2>3. F!Abstract!Reset(x)
    BY <1>1, <2>2 DEF F!Default, F!Reset, F!Abstract!Reset
  <2>4. QED
    BY <2>3
<1>2. ASSUME NEW x \in Cells, NEW o \in Datas, F!FromObject(x, o) \/ F!AssignObject(x, o)
      PROVE  F!OptionStep
  <2>1. refScope' = refScope \cup {x} /\ refData' = [refData EXCEPT ![x] = o]
    BY <1>2 DEF F!FromObject, F!AssignObject, F!Begin
  <2>2. F!Held' = [F!Held EXCEPT ![x] = o]
    BY <2>1, RefBegun DEF F!RefAssumption
  <2>3. F!Abstract!Value(x, o)
    BY <1>2, <2>2 DEF F!FromObject, F!AssignObject, F!Abstract!Value
  <2>4. QED
    BY <2>3
<1>3. ASSUME NEW x \in Cells, NEW y \in Cells, F!CopyConstruct(x, y) \/ F!AssignCopy(x, y)
      PROVE  F!OptionStep
  <2>1. y \in refScope /\ refScope' = refScope \cup {x} /\ refData' = [refData EXCEPT ![x] = refData[y]]
    BY <1>3 DEF F!CopyConstruct, F!AssignCopy, F!Begin
  <2>2. F!Held' = [F!Held EXCEPT ![x] = F!Held[y]] /\ F!Held[y] # "out"
    BY <2>1, RefBegun, RefHeld
  <2>3. F!Abstract!Copy(x, y)
    BY <1>3, <2>2 DEF F!CopyConstruct, F!AssignCopy, F!Abstract!Copy, F!Abstract!InScope
  <2>4. QED
    BY <2>3
<1>4. ASSUME NEW x \in Cells, NEW y \in Cells, F!MoveConstruct(x, y) \/ F!AssignMove(x, y)
      PROVE  F!OptionStep
  <2>1. /\ y \in refScope /\ refScope' = refScope \cup {x}
        /\ refData' = [refData EXCEPT ![x] = refData[y], ![y] = Null]
    BY <1>4 DEF F!MoveConstruct, F!AssignMove, F!Begin
  <2>2. F!Held' = [F!Held EXCEPT ![x] = F!Held[y], ![y] = "empty"]
    BY <2>1 DEF F!Held, F!Active, F!RefAssumption
  <2>3. F!Held[y] # "out"
    BY <2>1, RefHeld
  <2>4. F!Abstract!Move(x, y)
    BY <1>4, <2>2, <2>3 DEF F!MoveConstruct, F!AssignMove, F!Abstract!Move, F!Abstract!InScope
  <2>5. QED
    BY <2>4
<1>5. ASSUME NEW x \in Cells, NEW y \in Cells, F!Swap(x, y)
      PROVE  F!OptionStep
  <2>1. F!Held' = [F!Held EXCEPT ![x] = F!Held[y], ![y] = F!Held[x]]
    BY <1>5 DEF F!Swap, F!Held, F!Active, F!RefAssumption
  <2>2. F!Held[x] # "out" /\ F!Held[y] # "out"
    BY <1>5, RefHeld DEF F!Swap
  <2>3. F!Abstract!Swap(x, y)
    BY <1>5, <2>1, <2>2 DEF F!Swap, F!Abstract!Swap, F!Abstract!InScope
  <2>4. QED
    BY <2>3
<1>6. ASSUME NEW x \in Cells, F!Destruct(x)
      PROVE  F!OptionStep
  <2>1. F!Held' = [F!Held EXCEPT ![x] = "out"] /\ F!Held[x] # "out"
    BY <1>6, RefHeld DEF F!Destruct, F!Held, F!Active
  <2>2. F!Abstract!End(x)
    BY <1>6, <2>1 DEF F!Destruct, F!Abstract!End, F!Abstract!InScope
  <2>3. QED
    BY <2>2
<1>7. QED
  BY <1>1, <1>2, <1>3, <1>4, <1>5, <1>6, RefCases

-----------------------------------------------------------------------------
(* Option. *)

\* A memory in which an object, or a flag, is another one.
OptionSetObj(m, x, w) == [m EXCEPT !.obj[x] = w]
OptionSetFlag(m, x, b) == [m EXCEPT !.active[x] = b]

-----------------------------------------------------------------------------
OptionFull(v) == [type |-> O!T, val |-> v]
OptionElements == {OptionFull(v) : v \in Datas \cup {O!Moved}}
OptionMem == [obj : [Cells -> {O!NoObject} \cup OptionElements], active : [Cells -> BOOLEAN],
              broken : {{}}]

LEMMA OptionSetObjIs ==
  ASSUME NEW m \in OptionMem, NEW x \in Cells, NEW w \in {O!NoObject} \cup OptionElements
  PROVE  /\ OptionSetObj(m, x, w) \in OptionMem
         /\ OptionSetObj(m, x, w).active = m.active
         /\ OptionSetObj(m, x, w).obj[x] = w
         /\ \A z \in Cells \ {x} : OptionSetObj(m, x, w).obj[z] = m.obj[z]
  BY DEF OptionSetObj, OptionMem

LEMMA OptionSetFlagIs ==
  ASSUME NEW m \in OptionMem, NEW x \in Cells
  PROVE  /\ OptionSetFlag(m, x, TRUE) \in OptionMem /\ OptionSetFlag(m, x, FALSE) \in OptionMem
         /\ OptionSetFlag(m, x, TRUE).obj = m.obj /\ OptionSetFlag(m, x, FALSE).obj = m.obj
         /\ OptionSetFlag(m, x, TRUE).active[x] /\ ~OptionSetFlag(m, x, FALSE).active[x]
         /\ \A z \in Cells \ {x} : /\ OptionSetFlag(m, x, TRUE).active[z] <=> m.active[z]
                                   /\ OptionSetFlag(m, x, FALSE).active[z] <=> m.active[z]
  BY DEF OptionSetFlag, OptionMem

LEMMA OptionElementFacts ==
  /\ O!NoObject \notin OptionElements
  /\ O!NoObject.type # O!T
  /\ \A e \in OptionElements : e.type = O!T /\ e = OptionFull(e.val) /\ e.val \in Datas \cup {O!Moved}
  /\ \A v \in Datas \cup {O!Moved} : OptionFull(v) \in OptionElements
  /\ \A v : OptionFull(v).val = v /\ OptionFull(v).type = O!T
<1>1. \A v : OptionFull(v).val = v /\ OptionFull(v).type = O!T
  BY DEF OptionFull
<1>2. O!NoObject.type # O!T
  BY DEF O!NoObject, O!T
<1>3. QED
  BY <1>1, <1>2 DEF OptionElements

\* What the helpers do to a memory in which nothing is broken.
LEMMA OptionConstructSets ==
  ASSUME NEW m \in OptionMem, NEW x \in Cells, NEW v, m.obj[x] = O!NoObject
  PROVE  O!Construct(m, x, O!T, v) = OptionSetObj(m, x, OptionFull(v))
  BY DEF O!Construct, O!Alive, OptionSetObj, OptionFull

LEMMA OptionAssignSets ==
  ASSUME NEW m \in OptionMem, NEW x \in Cells, NEW v, m.obj[x] \in OptionElements
  PROVE  O!Assign(m, x, O!T, v) = OptionSetObj(m, x, OptionFull(v))
<1>1. m.obj[x].type = O!T /\ m.obj[x] = OptionFull(m.obj[x].val)
  BY OptionElementFacts
<1>2. [m.obj[x] EXCEPT !.val = v] = OptionFull(v)
  BY <1>1 DEF OptionFull
<1>3. QED
  BY <1>1, <1>2 DEF O!Assign, OptionSetObj

LEMMA OptionDestroySets ==
  ASSUME NEW m \in OptionMem, NEW x \in Cells, m.obj[x] \in OptionElements
  PROVE  O!Destroy(m, x, O!T) = OptionSetObj(m, x, O!NoObject)
  BY OptionElementFacts DEF O!Destroy, OptionSetObj

LEMMA OptionClearSets ==
  ASSUME NEW m, NEW x
  PROVE  /\ m.active[x] => O!Clear(m, x) = OptionSetFlag(O!Destroy(m, x, O!T), x, FALSE)
         /\ ~m.active[x] => O!Clear(m, x) = OptionSetFlag(m, x, FALSE)
  BY DEF O!Clear, OptionSetFlag

LEMMA OptionBuildSets ==
  ASSUME NEW m, NEW x, NEW v
  PROVE  /\ ~m.active[x] => O!Initialize(m, x, v) = OptionSetFlag(O!Construct(m, x, O!T, v), x, TRUE)
         /\ O!Constructed(m, x, v) = OptionSetFlag(O!Construct(m, x, O!T, v), x, TRUE)
  BY DEF O!Initialize, O!Constructed, OptionSetFlag

\* The memory n differs from m at x, where it has an element of value v, or
\* where it has none.
OptionFills(m, n, x, v) ==
  /\ n \in OptionMem
  /\ n.obj[x] = OptionFull(v) /\ n.active[x]
  /\ \A z \in Cells \ {x} : n.obj[z] = m.obj[z] /\ (n.active[z] <=> m.active[z])
OptionEmpties(m, n, x) ==
  /\ n \in OptionMem
  /\ n.obj[x] = O!NoObject /\ ~n.active[x]
  /\ \A z \in Cells \ {x} : n.obj[z] = m.obj[z] /\ (n.active[z] <=> m.active[z])

LEMMA OptionFlagFills ==
  ASSUME NEW m \in OptionMem, NEW n \in OptionMem, NEW x \in Cells, NEW v,
         \A z \in Cells : n.active[z] <=> m.active[z],
         n.obj[x] = OptionFull(v), \A z \in Cells \ {x} : n.obj[z] = m.obj[z]
  PROVE  OptionFills(m, OptionSetFlag(n, x, TRUE), x, v)
<1> DEFINE k == OptionSetFlag(n, x, TRUE)
<1>1. k \in OptionMem /\ k.obj = n.obj /\ k.active[x]
  BY OptionSetFlagIs
<1>2. \A z \in Cells \ {x} : k.active[z] <=> n.active[z]
  BY OptionSetFlagIs
<1> HIDE DEF k
<1>3. OptionFills(m, k, x, v)
  BY <1>1, <1>2 DEF OptionFills
<1>4. QED
  BY <1>3 DEF k

LEMMA OptionFlagEmpties ==
  ASSUME NEW m \in OptionMem, NEW n \in OptionMem, NEW x \in Cells,
         \A z \in Cells : n.active[z] <=> m.active[z],
         n.obj[x] = O!NoObject, \A z \in Cells \ {x} : n.obj[z] = m.obj[z]
  PROVE  OptionEmpties(m, OptionSetFlag(n, x, FALSE), x)
<1> DEFINE k == OptionSetFlag(n, x, FALSE)
<1>1. k \in OptionMem /\ k.obj = n.obj /\ ~k.active[x]
  BY OptionSetFlagIs
<1>2. \A z \in Cells \ {x} : k.active[z] <=> n.active[z]
  BY OptionSetFlagIs
<1> HIDE DEF k
<1>3. OptionEmpties(m, k, x)
  BY <1>1, <1>2 DEF OptionEmpties
<1>4. QED
  BY <1>3 DEF k

LEMMA OptionClearEmpties ==
  ASSUME NEW m \in OptionMem, NEW x \in Cells, m.obj[x] \in OptionElements <=> m.active[x]
  PROVE  OptionEmpties(m, O!Clear(m, x), x)
<1>1. CASE m.active[x]
  <2> DEFINE n == OptionSetObj(m, x, O!NoObject)
  <2>1. O!Clear(m, x) = OptionSetFlag(n, x, FALSE)
    <3>1. O!Destroy(m, x, O!T) = n
      BY <1>1, OptionDestroySets
    <3>2. O!Clear(m, x) = OptionSetFlag(O!Destroy(m, x, O!T), x, FALSE)
      BY <1>1, OptionClearSets
    <3>3. QED
      BY <3>1, <3>2
  <2>2. /\ n \in OptionMem /\ n.active = m.active /\ n.obj[x] = O!NoObject
        /\ \A z \in Cells \ {x} : n.obj[z] = m.obj[z]
    BY OptionSetObjIs DEF OptionMem
  <2> HIDE DEF n
  <2>3. QED
    BY <2>1, <2>2, OptionFlagEmpties
<1>2. CASE ~m.active[x]
  <2>1. O!Clear(m, x) = OptionSetFlag(m, x, FALSE) /\ m.obj[x] = O!NoObject
    BY <1>2, OptionClearSets DEF OptionMem
  <2>2. QED
    BY <2>1, OptionFlagEmpties
<1>3. QED
  BY <1>1, <1>2

LEMMA OptionConstructedFills ==
  ASSUME NEW m \in OptionMem, NEW x \in Cells, NEW v \in Datas \cup {O!Moved},
         m.obj[x] = O!NoObject
  PROVE  /\ OptionFills(m, O!Constructed(m, x, v), x, v)
         /\ ~m.active[x] => OptionFills(m, O!Initialize(m, x, v), x, v)
<1> DEFINE n == OptionSetObj(m, x, OptionFull(v))
<1>1. /\ O!Constructed(m, x, v) = OptionSetFlag(n, x, TRUE)
      /\ ~m.active[x] => O!Initialize(m, x, v) = OptionSetFlag(n, x, TRUE)
  <2>1. O!Construct(m, x, O!T, v) = n
    BY OptionConstructSets
  <2>2. /\ O!Constructed(m, x, v) = OptionSetFlag(O!Construct(m, x, O!T, v), x, TRUE)
        /\ ~m.active[x] => O!Initialize(m, x, v) = OptionSetFlag(O!Construct(m, x, O!T, v), x, TRUE)
    BY OptionBuildSets
  <2>3. QED
    BY <2>1, <2>2
<1>2. /\ n \in OptionMem /\ n.active = m.active /\ n.obj[x] = OptionFull(v)
      /\ \A z \in Cells \ {x} : n.obj[z] = m.obj[z]
  BY OptionSetObjIs, OptionElementFacts DEF OptionMem
<1> HIDE DEF n
<1>3. OptionFills(m, OptionSetFlag(n, x, TRUE), x, v)
  BY <1>2, OptionFlagFills
<1>4. QED
  BY <1>1, <1>3

LEMMA OptionAssignFills ==
  ASSUME NEW m \in OptionMem, NEW x \in Cells, NEW v \in Datas \cup {O!Moved},
         m.obj[x] \in OptionElements, m.active[x]
  PROVE  OptionFills(m, O!Assign(m, x, O!T, v), x, v) /\ OptionFills(m, O!MoveOut(m, x, O!T), x, O!Moved)
<1>1. /\ O!Assign(m, x, O!T, v) = OptionSetObj(m, x, OptionFull(v))
      /\ O!MoveOut(m, x, O!T) = OptionSetObj(m, x, OptionFull(O!Moved))
  BY OptionAssignSets DEF O!MoveOut
<1>2. OptionFull(v) \in OptionElements /\ OptionFull(O!Moved) \in OptionElements
  BY OptionElementFacts
<1>3. QED
  BY <1>1, <1>2, OptionSetObjIs DEF OptionMem, OptionFills

LEMMA OptionEmplacedFills ==
  ASSUME NEW m \in OptionMem, NEW x \in Cells, NEW v \in Datas \cup {O!Moved},
         m.obj[x] \in OptionElements <=> m.active[x]
  PROVE  OptionFills(m, O!Emplaced(m, x, v), x, v)
<1>1. OptionEmpties(m, O!Clear(m, x), x)
  BY OptionClearEmpties
<1>2. OptionFills(O!Clear(m, x), O!Initialize(O!Clear(m, x), x, v), x, v)
  BY <1>1, OptionConstructedFills DEF OptionEmpties
<1>3. QED
  BY <1>1, <1>2 DEF OptionEmpties, OptionFills, O!Emplaced

-----------------------------------------------------------------------------
\* What is alive is what the flags of the options in scope say, and what the
\* users of a memory m with the options s in scope see.
OptionTruthful(m, s) ==
  /\ m \in OptionMem
  /\ s \subseteq Cells
  /\ \A x \in Cells : m.obj[x] \in OptionElements <=> x \in s /\ m.active[x]
OptionHeldOf(m, s) == [x \in Cells |-> IF x \notin s THEN "out"
                                ELSE IF m.active[x] THEN m.obj[x].val ELSE "empty"]

OptionInv == OptionTruthful(optionMem, optionScope)

LEMMA OptionHeldIs ==
  /\ O!Held = OptionHeldOf(optionMem, optionScope)
  /\ O!Held' = OptionHeldOf(optionMem', optionScope')
  BY DEF O!Held, OptionHeldOf, O!Element

LEMMA OptionSeenBy ==
  ASSUME O!OptionAssumption, NEW m, NEW s, OptionTruthful(m, s), NEW x \in Cells
  PROVE  /\ x \notin s => OptionHeldOf(m, s)[x] = "out" /\ m.obj[x] = O!NoObject
         /\ x \in s => OptionHeldOf(m, s)[x] # "out"
         /\ x \in s /\ m.active[x] => /\ OptionHeldOf(m, s)[x] = m.obj[x].val
                                      /\ OptionHeldOf(m, s)[x] \in Datas \cup {O!Moved}
                                      /\ OptionHeldOf(m, s)[x] # "empty"
                                      /\ m.obj[x] \in OptionElements
         /\ x \in s /\ ~m.active[x] => OptionHeldOf(m, s)[x] = "empty" /\ m.obj[x] = O!NoObject
<1>1. m.obj[x] \in {O!NoObject} \cup OptionElements
  BY DEF OptionTruthful, OptionMem
<1>2. m.obj[x] \in OptionElements => m.obj[x].val \in Datas \cup {O!Moved}
  BY OptionElementFacts
<1>3. "moved" # "empty" /\ "moved" # "out"
  OBVIOUS
<1>4. QED
  BY <1>1, <1>2, <1>3 DEF OptionTruthful, OptionHeldOf, O!OptionAssumption, O!Moved

\* The memory m with s in scope becomes n with k in scope.
OptionFillsIn(m, s, n, k, x, v) ==
  /\ x \in Cells /\ v \in Datas \cup {O!Moved}
  /\ OptionTruthful(m, s) /\ OptionFills(m, n, x, v) /\ k = s \cup {x}
OptionEmptiesIn(m, s, n, k, x) ==
  /\ x \in Cells
  /\ OptionTruthful(m, s) /\ OptionEmpties(m, n, x) /\ k = s \cup {x}

LEMMA OptionFillsSeen ==
  ASSUME NEW m, NEW s, NEW n, NEW k, NEW x, NEW v, OptionFillsIn(m, s, n, k, x, v)
  PROVE  /\ OptionTruthful(n, k)
         /\ OptionHeldOf(n, k)[x] = v
         /\ \A z \in Cells \ {x} : OptionHeldOf(n, k)[z] = OptionHeldOf(m, s)[z]
<1>1. OptionFull(v) \in OptionElements /\ OptionFull(v).val = v
  BY OptionElementFacts DEF OptionFillsIn
<1>2. QED
  BY <1>1 DEF OptionFillsIn, OptionTruthful, OptionFills, OptionHeldOf

LEMMA OptionEmptiesSeen ==
  ASSUME NEW m, NEW s, NEW n, NEW k, NEW x, OptionEmptiesIn(m, s, n, k, x)
  PROVE  /\ OptionTruthful(n, k)
         /\ OptionHeldOf(n, k)[x] = "empty"
         /\ \A z \in Cells \ {x} : OptionHeldOf(n, k)[z] = OptionHeldOf(m, s)[z]
  BY OptionElementFacts DEF OptionEmptiesIn, OptionTruthful, OptionEmpties, OptionHeldOf

\* The memory becomes n, with x in scope.
OptionEnds(n, x) == optionMem' = n /\ optionScope' = optionScope \cup {x}

LEMMA OptionFilledStep ==
  ASSUME OptionInv, NEW x \in Cells, NEW v \in Datas \cup {O!Moved}, NEW n,
         OptionFills(optionMem, n, x, v), OptionEnds(n, x)
  PROVE  OptionInv' /\ O!Held' = [O!Held EXCEPT ![x] = v]
<1> DEFINE h == OptionHeldOf(n, optionScope')
<1>1. OptionTruthful(n, optionScope') /\ h[x] = v
      /\ \A z \in Cells \ {x} : h[z] = OptionHeldOf(optionMem, optionScope)[z]
  <2>1. OptionFillsIn(optionMem, optionScope, n, optionScope', x, v)
    BY DEF OptionFillsIn, OptionInv, OptionEnds
  <2>2. QED
    BY <2>1, OptionFillsSeen
<1>2. O!Held = OptionHeldOf(optionMem, optionScope) /\ O!Held' = h
  BY OptionHeldIs DEF OptionEnds
<1>3. h = [z \in Cells |-> h[z]] /\ O!Held = [z \in Cells |-> O!Held[z]]
  BY DEF OptionHeldOf, O!Held
<1> HIDE DEF h
<1>4. O!Held' = [O!Held EXCEPT ![x] = v]
  BY <1>1, <1>2, <1>3
<1>5. QED
  BY <1>1, <1>4 DEF OptionInv, OptionEnds

LEMMA OptionEmptiedStep ==
  ASSUME OptionInv, NEW x \in Cells, NEW n, OptionEmpties(optionMem, n, x), OptionEnds(n, x)
  PROVE  OptionInv' /\ O!Held' = [O!Held EXCEPT ![x] = "empty"]
<1> DEFINE h == OptionHeldOf(n, optionScope')
<1>1. OptionTruthful(n, optionScope') /\ h[x] = "empty"
      /\ \A z \in Cells \ {x} : h[z] = OptionHeldOf(optionMem, optionScope)[z]
  <2>1. OptionEmptiesIn(optionMem, optionScope, n, optionScope', x)
    BY DEF OptionEmptiesIn, OptionInv, OptionEnds
  <2>2. QED
    BY <2>1, OptionEmptiesSeen
<1>2. O!Held = OptionHeldOf(optionMem, optionScope) /\ O!Held' = h
  BY OptionHeldIs DEF OptionEnds
<1>3. h = [z \in Cells |-> h[z]] /\ O!Held = [z \in Cells |-> O!Held[z]]
  BY DEF OptionHeldOf, O!Held
<1> HIDE DEF h
<1>4. O!Held' = [O!Held EXCEPT ![x] = "empty"]
  BY <1>1, <1>2, <1>3
<1>5. QED
  BY <1>1, <1>4 DEF OptionInv, OptionEnds

\* x gets the value of y, and y loses it, or has its value moved out.
\* An operation fills x and then changes what y holds.
OptionRefills(m, n, x, v, y, w) ==
  /\ x # y /\ y \in optionScope /\ v \in Datas \cup {O!Moved} /\ w \in Datas \cup {O!Moved}
  /\ OptionFills(optionMem, m, x, v) /\ OptionFills(m, n, y, w) /\ OptionEnds(n, x)

LEMMA OptionFilledTwice ==
  ASSUME OptionInv, NEW x \in Cells, NEW y \in Cells, NEW v, NEW w, NEW m, NEW n,
         OptionRefills(m, n, x, v, y, w)
  PROVE  OptionInv' /\ O!Held' = [O!Held EXCEPT ![x] = v, ![y] = w]
<1>0. /\ x # y /\ y \in optionScope /\ v \in Datas \cup {O!Moved} /\ w \in Datas \cup {O!Moved}
      /\ OptionFills(optionMem, m, x, v) /\ OptionFills(m, n, y, w) /\ OptionEnds(n, x)
  BY DEF OptionRefills
<1> DEFINE g == OptionHeldOf(m, optionScope')
           h == OptionHeldOf(n, optionScope')
<1>1. OptionTruthful(m, optionScope') /\ g[x] = v /\ \A z \in Cells \ {x} : g[z] = OptionHeldOf(optionMem, optionScope)[z]
  <2>1. OptionFillsIn(optionMem, optionScope, m, optionScope', x, v)
    BY <1>0 DEF OptionFillsIn, OptionInv, OptionEnds
  <2>2. QED
    BY <2>1, OptionFillsSeen
<1>2. y \in Cells /\ optionScope' = optionScope' \cup {y}
  BY <1>0 DEF OptionInv, OptionTruthful, OptionEnds
<1>3. OptionTruthful(n, optionScope') /\ h[y] = w /\ \A z \in Cells \ {y} : h[z] = g[z]
  <2>1. OptionFillsIn(m, optionScope', n, optionScope', y, w)
    BY <1>0, <1>1, <1>2 DEF OptionFillsIn
  <2>2. QED
    BY <2>1, OptionFillsSeen
<1>4. O!Held = OptionHeldOf(optionMem, optionScope) /\ O!Held' = h
  BY <1>0, OptionHeldIs DEF OptionEnds
<1>5. h = [z \in Cells |-> h[z]] /\ O!Held = [z \in Cells |-> O!Held[z]]
  BY DEF OptionHeldOf, O!Held
<1> HIDE DEF h, g
<1>6. O!Held' = [O!Held EXCEPT ![x] = v, ![y] = w]
  BY <1>0, <1>1, <1>2, <1>3, <1>4, <1>5
<1>7. QED
  BY <1>0, <1>3, <1>6 DEF OptionInv, OptionEnds

-----------------------------------------------------------------------------
\* The operations: each keeps the invariant and is one of an optional.

\* What is in the storage of an option.
LEMMA OptionStorage ==
  ASSUME O!OptionAssumption, OptionInv, NEW x \in Cells
  PROVE  /\ optionMem \in OptionMem
         /\ x \notin optionScope => optionMem.obj[x] = O!NoObject /\ O!Held[x] = "out"
         /\ x \in optionScope => O!Held[x] # "out" /\ (optionMem.obj[x] \in OptionElements <=> optionMem.active[x])
         /\ x \in optionScope /\ optionMem.active[x] =>
              /\ O!Element(optionMem, x) \in Datas \cup {O!Moved}
              /\ O!Held[x] = O!Element(optionMem, x) /\ O!Held[x] # "empty"
         /\ x \in optionScope /\ ~optionMem.active[x] => O!Held[x] = "empty" /\ optionMem.obj[x] = O!NoObject
<1>1. OptionTruthful(optionMem, optionScope) /\ O!Held = OptionHeldOf(optionMem, optionScope)
  BY OptionHeldIs DEF OptionInv
<1>2. optionMem \in OptionMem /\ (x \in optionScope => (optionMem.obj[x] \in OptionElements <=> optionMem.active[x]))
  BY <1>1 DEF OptionTruthful
<1>3. QED
  BY <1>1, <1>2, OptionSeenBy DEF O!Element

LEMMA OptionNothingStep ==
  ASSUME O!OptionAssumption, OptionInv, NEW x \in Cells, O!Default(x) \/ O!Reset(x)
  PROVE  OptionInv' /\ O!OptionStep
<1>1. OptionEnds(optionMem', x)
  BY DEF O!Default, O!Reset, O!Begin, OptionEnds
<1>2. CASE O!Default(x)
  <2>1. x \notin optionScope /\ optionMem' = OptionSetFlag(optionMem, x, FALSE)
    BY <1>2 DEF O!Default, O!Begin, OptionSetFlag
  <2>2. OptionEmpties(optionMem, optionMem', x)
    BY <2>1, OptionStorage, OptionFlagEmpties
  <2>3. OptionInv' /\ O!Held' = [O!Held EXCEPT ![x] = "empty"]
    BY <1>1, <2>2, OptionEmptiedStep
  <2>4. O!Abstract!Reset(x)
    BY <1>2, <2>3 DEF O!Default, O!Abstract!Reset
  <2>5. QED
    BY <2>3, <2>4 DEF O!OptionStep, O!Abstract!Next
<1>3. CASE O!Reset(x)
  <2>1. OptionEmpties(optionMem, optionMem', x)
    BY <1>3, OptionStorage, OptionClearEmpties DEF O!Reset
  <2>2. OptionInv' /\ O!Held' = [O!Held EXCEPT ![x] = "empty"]
    BY <1>1, <2>1, OptionEmptiedStep
  <2>3. O!Abstract!Reset(x)
    BY <1>3, <2>2 DEF O!Reset, O!Abstract!Reset
  <2>4. QED
    BY <2>2, <2>3 DEF O!OptionStep, O!Abstract!Next
<1>4. QED
  BY <1>2, <1>3

LEMMA OptionDestructStep ==
  ASSUME O!OptionAssumption, OptionInv, NEW x \in Cells, O!Destruct(x)
  PROVE  OptionInv' /\ O!OptionStep
<1>1. /\ x \in optionScope /\ optionScope' = optionScope \ {x}
      /\ optionMem' \in OptionMem /\ optionMem'.active = optionMem.active /\ optionMem'.obj[x] = O!NoObject
      /\ \A z \in Cells \ {x} : optionMem'.obj[z] = optionMem.obj[z]
  <2>1. CASE optionMem.active[x]
    <3>1. optionMem' = OptionSetObj(optionMem, x, O!NoObject)
      BY <2>1, OptionStorage, OptionDestroySets DEF O!Destruct
    <3>2. QED
      BY <3>1, OptionStorage, OptionSetObjIs DEF O!Destruct
  <2>2. CASE ~optionMem.active[x]
    BY <2>2, OptionStorage DEF O!Destruct
  <2>3. QED
    BY <2>1, <2>2
<1>2. OptionInv'
  BY <1>1, OptionElementFacts DEF OptionInv, OptionTruthful
<1>3. O!Held' = [O!Held EXCEPT ![x] = "out"]
  BY <1>1 DEF O!Held, O!Element
<1>4. O!Abstract!End(x)
  BY <1>1, <1>3, OptionStorage DEF O!Destruct, O!Abstract!End, O!Abstract!InScope
<1>5. QED
  BY <1>2, <1>4 DEF O!OptionStep, O!Abstract!Next

\* The copy of an element threw: the memory is as it was, or x is empty.
LEMMA OptionThrownStep ==
  ASSUME O!OptionAssumption, OptionInv, NEW x \in optionScope, UNCHANGED optionScope,
         optionMem' = optionMem \/ optionMem' = O!Clear(optionMem, x), optionCall' = <<"threw", x>>
  PROVE  OptionInv' /\ O!OptionStep
<1>1. x \in Cells
  BY DEF OptionInv, OptionTruthful
<1>2. CASE optionMem' = optionMem
  <2>1. O!Held' = O!Held /\ OptionInv'
    BY <1>2 DEF O!Held, O!Element, OptionInv, OptionTruthful
  <2>2. O!Abstract!Fail(x)
    BY <2>1 DEF O!Abstract!Fail
  <2>3. QED
    BY <1>1, <2>1, <2>2 DEF O!OptionStep, O!Abstract!Next
<1>3. CASE optionMem' = O!Clear(optionMem, x)
  <2>1. OptionEmpties(optionMem, optionMem', x) /\ OptionEnds(optionMem', x)
    BY <1>1, <1>3, OptionStorage, OptionClearEmpties DEF OptionEnds
  <2>2. OptionInv' /\ O!Held' = [O!Held EXCEPT ![x] = "empty"]
    BY <1>1, <2>1, OptionEmptiedStep
  <2>3. O!Abstract!Fail(x)
    BY <1>1, <2>2, OptionStorage DEF O!Abstract!Fail, O!Abstract!InScope
  <2>4. QED
    BY <1>1, <2>2, <2>3 DEF O!OptionStep, O!Abstract!Next
<1>4. QED
  BY <1>2, <1>3

LEMMA OptionValueStep ==
  ASSUME O!OptionAssumption, OptionInv, NEW x \in Cells, NEW v \in Datas,
         O!FromValue(x, v) \/ O!AssignValue(x, v) \/ O!Emplace(x, v)
  PROVE  OptionInv' /\ O!OptionStep
<1>1. ASSUME OptionFills(optionMem, optionMem', x, v), OptionEnds(optionMem', x), optionCall' = <<"value", x, v>>
      PROVE  OptionInv' /\ O!OptionStep
  <2>1. OptionInv' /\ O!Held' = [O!Held EXCEPT ![x] = v]
    BY <1>1, OptionFilledStep
  <2>2. O!Abstract!Value(x, v)
    BY <1>1, <2>1 DEF O!Abstract!Value
  <2>3. QED
    BY <2>1, <2>2 DEF O!OptionStep, O!Abstract!Next
<1>2. CASE O!FromValue(x, v)
  BY <1>1, <1>2, OptionStorage, OptionConstructedFills DEF O!FromValue, O!Begin, OptionEnds
<1>3. CASE O!AssignValue(x, v)
  <2>1. CASE optionMem' = optionMem /\ optionCall' = <<"threw", x>>
    BY <1>3, <2>1, OptionThrownStep DEF O!AssignValue
  <2>2. CASE optionMem' = O!Assign(optionMem, x, O!T, v) /\ optionMem.active[x] /\ optionCall' = <<"value", x, v>>
    BY <1>1, <1>3, <2>2, OptionStorage, OptionAssignFills DEF O!AssignValue, OptionEnds
  <2>3. CASE optionMem' = O!Initialize(optionMem, x, v) /\ ~optionMem.active[x] /\ optionCall' = <<"value", x, v>>
    BY <1>1, <1>3, <2>3, OptionStorage, OptionConstructedFills DEF O!AssignValue, OptionEnds
  <2>4. QED
    BY <1>3, <2>1, <2>2, <2>3 DEF O!AssignValue, O!OrThrows
<1>4. CASE O!Emplace(x, v)
  <2>1. CASE optionMem' = O!Clear(optionMem, x) /\ optionCall' = <<"threw", x>>
    BY <1>4, <2>1, OptionThrownStep DEF O!Emplace
  <2>2. CASE optionMem' = O!Emplaced(optionMem, x, v) /\ optionCall' = <<"value", x, v>>
    BY <1>1, <1>4, <2>2, OptionStorage, OptionEmplacedFills DEF O!Emplace, OptionEnds
  <2>3. QED
    BY <1>4, <2>1, <2>2 DEF O!Emplace, O!OrThrows
<1>5. QED
  BY <1>2, <1>3, <1>4

LEMMA OptionCopyStep ==
  ASSUME O!OptionAssumption, OptionInv, NEW x \in Cells, NEW y \in Cells,
         O!CopyConstruct(x, y) \/ O!AssignCopy(x, y)
  PROVE  OptionInv' /\ O!OptionStep
<1>1. ASSUME OptionEnds(optionMem', x), optionCall' = <<"copy", x, y>>, y \in optionScope,
             \/ optionMem.active[y] /\ OptionFills(optionMem, optionMem', x, O!Element(optionMem, y))
             \/ ~optionMem.active[y] /\ OptionEmpties(optionMem, optionMem', x)
      PROVE  OptionInv' /\ O!OptionStep
  <2>1. OptionInv' /\ O!Held' = [O!Held EXCEPT ![x] = O!Held[y]]
    BY <1>1, OptionFilledStep, OptionEmptiedStep, OptionStorage
  <2>2. O!Abstract!Copy(x, y)
    BY <1>1, <2>1, OptionStorage DEF O!Abstract!Copy, O!Abstract!InScope
  <2>3. QED
    BY <2>1, <2>2 DEF O!OptionStep, O!Abstract!Next
<1>2. CASE O!CopyConstruct(x, y)
  <2>1. /\ OptionEnds(optionMem', x) /\ optionCall' = <<"copy", x, y>>
        /\ y \in optionScope /\ x \notin optionScope
    BY <1>2 DEF O!CopyConstruct, O!Begin, OptionEnds
  <2>2. CASE optionMem.active[y]
    <3>1. optionMem' = O!Constructed(optionMem, x, O!Element(optionMem, y))
      BY <1>2, <2>2 DEF O!CopyConstruct
    <3>2. OptionFills(optionMem, optionMem', x, O!Element(optionMem, y))
      BY <2>1, <2>2, <3>1, OptionStorage, OptionConstructedFills
    <3>3. QED
      BY <1>1, <2>1, <2>2, <3>2
  <2>3. CASE ~optionMem.active[y]
    <3>1. optionMem' = OptionSetFlag(optionMem, x, FALSE)
      BY <1>2, <2>3 DEF O!CopyConstruct, OptionSetFlag
    <3>2. OptionEmpties(optionMem, optionMem', x)
      BY <2>1, <3>1, OptionStorage, OptionFlagEmpties
    <3>3. QED
      BY <1>1, <2>1, <2>3, <3>2
  <2>4. QED
    BY <2>2, <2>3
<1>3. CASE O!AssignCopy(x, y)
  <2>1. OptionEnds(optionMem', x) /\ x \in optionScope /\ y \in optionScope
    BY <1>3 DEF O!AssignCopy, OptionEnds
  <2>2. CASE optionMem' = optionMem /\ optionCall' = <<"threw", x>>
    BY <1>3, <2>1, <2>2, OptionThrownStep DEF O!AssignCopy
  <2>3. CASE optionMem' = O!Clear(optionMem, x) /\ ~optionMem.active[y] /\ optionCall' = <<"copy", x, y>>
    BY <1>1, <2>1, <2>3, OptionStorage, OptionClearEmpties
  <2>4. CASE /\ optionMem' = O!Assign(optionMem, x, O!T, O!Element(optionMem, y))
             /\ optionMem.active[y] /\ optionMem.active[x] /\ optionCall' = <<"copy", x, y>>
    <3>1. OptionFills(optionMem, optionMem', x, O!Element(optionMem, y))
      BY <2>1, <2>4, OptionStorage, OptionAssignFills
    <3>2. QED
      BY <1>1, <2>1, <2>4, <3>1
  <2>5. CASE /\ optionMem' = O!Initialize(optionMem, x, O!Element(optionMem, y))
             /\ optionMem.active[y] /\ ~optionMem.active[x] /\ optionCall' = <<"copy", x, y>>
    <3>1. OptionFills(optionMem, optionMem', x, O!Element(optionMem, y))
      BY <2>1, <2>5, OptionStorage, OptionConstructedFills
    <3>2. QED
      BY <1>1, <2>1, <2>5, <3>1
  <2>6. QED
    BY <1>3, <2>2, <2>3, <2>4, <2>5 DEF O!AssignCopy, O!OrThrows
<1>4. QED
  BY <1>2, <1>3

\* The source still has an element in a memory that differs at x only.
LEMMA OptionOtherStays ==
  ASSUME O!OptionAssumption, OptionInv, NEW x \in Cells, NEW y \in optionScope, x # y, optionMem.active[y],
         NEW m, NEW v, OptionFills(optionMem, m, x, v)
  PROVE  m \in OptionMem /\ m.active[y] /\ m.obj[y] \in OptionElements
<1>1. y \in Cells /\ optionMem.obj[y] \in OptionElements
  BY OptionStorage DEF OptionInv, OptionTruthful
<1>2. QED
  BY <1>1 DEF OptionFills

LEMMA OptionMoveStep ==
  ASSUME O!OptionAssumption, OptionInv, NEW x \in Cells, NEW y \in Cells,
         O!MoveConstruct(x, y) \/ O!AssignMove(x, y)
  PROVE  OptionInv' /\ O!OptionStep
<1> DEFINE v == O!Element(optionMem, y)
<1>1. /\ OptionEnds(optionMem', x) /\ y \in optionScope /\ optionCall' = <<"move", x, y>>
      /\ x \notin optionScope \/ x \in optionScope
    BY DEF O!MoveConstruct, O!AssignMove, O!Begin, OptionEnds
<1>2. ASSUME NEW m, x # y, optionMem.active[y], OptionFills(optionMem, m, x, v), optionMem' = O!MoveOut(m, y, O!T)
      PROVE  OptionInv' /\ O!OptionStep
  <2>1. v \in Datas \cup {O!Moved} /\ O!Moved \in Datas \cup {O!Moved}
    BY <1>1, <1>2, OptionStorage
  <2>2. m \in OptionMem /\ m.active[y] /\ m.obj[y] \in OptionElements
    BY <1>1, <1>2, OptionOtherStays
  <2>3. OptionFills(m, optionMem', y, O!Moved)
    BY <1>2, <2>1, <2>2, OptionAssignFills
  <2>4. OptionInv' /\ O!Held' = [O!Held EXCEPT ![x] = v, ![y] = O!Moved]
    <3>1. OptionRefills(m, optionMem', x, v, y, O!Moved)
      BY <1>1, <1>2, <2>1, <2>3 DEF OptionRefills
    <3> HIDE DEF v
    <3>2. QED
      BY <3>1, OptionFilledTwice
  <2>5. O!Held[y] = v /\ O!Held[y] # "empty" /\ O!Held[y] # "out"
    BY <1>1, <1>2, OptionStorage
  <2>6. O!Abstract!Move(x, y)
    BY <1>1, <2>4, <2>5 DEF O!Abstract!Move, O!Abstract!InScope, O!Abstract!Empty
  <2>7. QED
    BY <2>4, <2>6 DEF O!OptionStep, O!Abstract!Next
<1>3. ASSUME ~optionMem.active[y], OptionEmpties(optionMem, optionMem', x)
      PROVE  OptionInv' /\ O!OptionStep
  <2>1. OptionInv' /\ O!Held' = [O!Held EXCEPT ![x] = "empty"]
    BY <1>1, <1>3, OptionEmptiedStep
  <2>2. O!Held[y] = "empty" /\ O!Held[y] # "out"
    BY <1>1, <1>3, OptionStorage
  <2>3. O!Held' = [O!Held EXCEPT ![x] = O!Held[y], ![y] = "empty"]
    BY <2>1, <2>2 DEF O!Held
  <2>4. O!Abstract!Move(x, y)
    BY <1>1, <2>2, <2>3 DEF O!Abstract!Move, O!Abstract!InScope, O!Abstract!Empty
  <2>5. QED
    BY <2>1, <2>4 DEF O!OptionStep, O!Abstract!Next
<1>4. ASSUME x = y, optionMem.active[x], optionMem' = optionMem \/ optionMem' = O!MoveOut(optionMem, x, O!T)
      PROVE  OptionInv' /\ O!OptionStep
  <2>1. O!Held[x] = v /\ O!Held[x] # "empty" /\ O!Held[x] # "out"
    BY <1>1, <1>4, OptionStorage
  <2>2. CASE optionMem' = optionMem
    <3>1. optionScope' = optionScope
      BY <1>1, <1>4 DEF OptionEnds
    <3>2. O!Held' = O!Held /\ OptionInv'
      BY <2>2, <3>1 DEF O!Held, O!Element, OptionInv, OptionTruthful
    <3>3. O!Abstract!Move(x, y)
      BY <1>1, <1>4, <2>1, <3>2 DEF O!Abstract!Move, O!Abstract!InScope
    <3>4. QED
      BY <3>2, <3>3 DEF O!OptionStep, O!Abstract!Next
  <2>3. CASE optionMem' = O!MoveOut(optionMem, x, O!T)
    <3>1. OptionFills(optionMem, optionMem', x, O!Moved)
      BY <1>1, <1>4, <2>3, OptionStorage, OptionAssignFills
    <3>2. OptionInv' /\ O!Held' = [O!Held EXCEPT ![x] = O!Moved]
      BY <1>1, <3>1, OptionFilledStep
    <3>3. O!Held' = [O!Held EXCEPT ![x] = O!Held[y], ![y] = O!Moved]
      BY <1>4, <3>2 DEF O!Held
    <3>4. O!Abstract!Move(x, y)
      BY <1>1, <1>4, <2>1, <3>3 DEF O!Abstract!Move, O!Abstract!InScope, O!Abstract!Empty
    <3>5. QED
      BY <3>2, <3>4 DEF O!OptionStep, O!Abstract!Next
  <2>4. QED
    BY <1>4, <2>2, <2>3
<1>5. CASE O!MoveConstruct(x, y)
  <2>1. x \notin optionScope /\ x # y
    BY <1>1, <1>5 DEF O!MoveConstruct, O!Begin
  <2>2. CASE optionMem.active[y]
    <3>1. optionMem' = O!MoveOut(O!Constructed(optionMem, x, v), y, O!T)
      BY <1>5, <2>2 DEF O!MoveConstruct
    <3>2. OptionFills(optionMem, O!Constructed(optionMem, x, v), x, v)
      BY <1>1, <2>1, <2>2, OptionStorage, OptionConstructedFills
    <3>3. QED
      BY <1>2, <2>1, <2>2, <3>1, <3>2
  <2>3. CASE ~optionMem.active[y]
    <3>1. optionMem' = OptionSetFlag(optionMem, x, FALSE)
      BY <1>5, <2>3 DEF O!MoveConstruct, OptionSetFlag
    <3>2. OptionEmpties(optionMem, optionMem', x)
      BY <2>1, <3>1, OptionStorage, OptionFlagEmpties
    <3>3. QED
      BY <1>3, <2>3, <3>2
  <2>4. QED
    BY <2>2, <2>3
<1>6. CASE O!AssignMove(x, y)
  <2>1. x \in optionScope
    BY <1>6 DEF O!AssignMove
  <2>2. CASE optionMem' = O!Clear(optionMem, x) /\ ~optionMem.active[y]
    BY <1>3, <2>1, <2>2, OptionStorage, OptionClearEmpties
  <2>3. CASE x = y /\ optionMem.active[x] /\ (optionMem' = optionMem \/ optionMem' = O!MoveOut(optionMem, x, O!T))
    BY <1>4, <2>3
  <2>4. CASE /\ x # y /\ optionMem.active[y] /\ optionMem.active[x]
             /\ optionMem' = O!MoveOut(O!Assign(optionMem, x, O!T, v), y, O!T)
    <3>1. OptionFills(optionMem, O!Assign(optionMem, x, O!T, v), x, v)
      BY <1>1, <2>1, <2>4, OptionStorage, OptionAssignFills
    <3>2. QED
      BY <1>2, <2>4, <3>1
  <2>5. CASE /\ x # y /\ optionMem.active[y] /\ ~optionMem.active[x]
             /\ optionMem' = O!MoveOut(O!Initialize(optionMem, x, v), y, O!T)
    <3>1. OptionFills(optionMem, O!Initialize(optionMem, x, v), x, v)
      BY <1>1, <2>1, <2>5, OptionStorage, OptionConstructedFills
    <3>2. QED
      BY <1>2, <2>5, <3>1
  <2>6. QED
    BY <1>6, <2>2, <2>3, <2>4, <2>5 DEF O!AssignMove
<1>7. QED
  BY <1>5, <1>6

LEMMA OptionTakeStep ==
  ASSUME O!OptionAssumption, OptionInv, NEW x \in Cells, O!TakeOut(x)
  PROVE  OptionInv' /\ O!OptionStep
<1>1. OptionFills(optionMem, optionMem', x, O!Moved) /\ OptionEnds(optionMem', x)
  BY OptionStorage, OptionAssignFills DEF O!TakeOut, OptionEnds
<1>2. OptionInv' /\ O!Held' = [O!Held EXCEPT ![x] = O!Moved]
  BY <1>1, OptionFilledStep
<1>3. O!Abstract!TakeOut(x)
  BY <1>2, OptionStorage DEF O!TakeOut, O!Abstract!TakeOut, O!Abstract!InScope, O!Abstract!Empty
<1>4. QED
  BY <1>2, <1>3 DEF O!OptionStep, O!Abstract!Next

\* The element of x passes to y, which has none.
LEMMA OptionPassOnHolds ==
  ASSUME O!OptionAssumption, OptionInv, NEW x \in optionScope, NEW y \in optionScope, x # y,
         optionMem.active[x], ~optionMem.active[y], optionMem' = O!PassOn(optionMem, x, y), UNCHANGED optionScope
  PROVE  OptionInv' /\ O!Held' = [O!Held EXCEPT ![x] = "empty", ![y] = O!Held[x]]
<1> DEFINE v == O!Element(optionMem, x)
           m == O!Emplaced(optionMem, y, v)
           n == O!MoveOut(m, x, O!T)
<1>1. x \in Cells /\ y \in Cells /\ v \in Datas \cup {O!Moved} /\ O!Held[x] = v
  BY OptionStorage DEF OptionInv, OptionTruthful
<1>2. OptionFills(optionMem, m, y, v)
  BY <1>1, OptionStorage, OptionEmplacedFills
<1>3. m \in OptionMem /\ m.active[x] /\ m.obj[x] \in OptionElements
  BY <1>1, <1>2, OptionOtherStays
<1>4. OptionFills(m, n, x, O!Moved)
  BY <1>1, <1>3, OptionAssignFills
<1>5. optionMem' = O!Clear(n, x)
  BY DEF O!PassOn
<1> HIDE DEF m, n
<1>6. OptionEmpties(n, optionMem', x)
  <2>1. n \in OptionMem /\ n.obj[x] \in OptionElements /\ n.active[x]
    BY <1>4, OptionElementFacts DEF OptionFills
  <2>2. QED
    BY <1>1, <1>5, <2>1, OptionClearEmpties
<1> DEFINE g == OptionHeldOf(m, optionScope)
           h == OptionHeldOf(n, optionScope)
           f == OptionHeldOf(optionMem', optionScope)
<1>7. OptionTruthful(m, optionScope) /\ g[y] = v /\ \A z \in Cells \ {y} : g[z] = OptionHeldOf(optionMem, optionScope)[z]
  <2>1. OptionFillsIn(optionMem, optionScope, m, optionScope, y, v)
    BY <1>1, <1>2 DEF OptionFillsIn, OptionInv
  <2>2. QED
    BY <2>1, OptionFillsSeen
<1>8. OptionTruthful(n, optionScope) /\ \A z \in Cells \ {x} : h[z] = g[z]
  <2>1. OptionFillsIn(m, optionScope, n, optionScope, x, O!Moved)
    BY <1>1, <1>4, <1>7 DEF OptionFillsIn
  <2>2. QED
    BY <2>1, OptionFillsSeen
<1>9. OptionTruthful(optionMem', optionScope) /\ f[x] = "empty" /\ \A z \in Cells \ {x} : f[z] = h[z]
  <2>1. OptionEmptiesIn(n, optionScope, optionMem', optionScope, x)
    BY <1>1, <1>6, <1>8 DEF OptionEmptiesIn
  <2>2. QED
    BY <2>1, OptionEmptiesSeen
<1>10. O!Held = OptionHeldOf(optionMem, optionScope) /\ O!Held' = f
  BY OptionHeldIs
<1>11. f = [z \in Cells |-> f[z]] /\ O!Held = [z \in Cells |-> O!Held[z]]
  BY DEF OptionHeldOf, O!Held
<1> HIDE DEF f, g, h
<1>12. O!Held' = [O!Held EXCEPT ![x] = "empty", ![y] = O!Held[x]]
  BY <1>1, <1>7, <1>8, <1>9, <1>10, <1>11
<1>13. QED
  BY <1>9, <1>12 DEF OptionInv

LEMMA OptionSwapStep ==
  ASSUME O!OptionAssumption, OptionInv, NEW x \in Cells, NEW y \in Cells, O!Swap(x, y)
  PROVE  OptionInv' /\ O!OptionStep
<1>1. x \in optionScope /\ y \in optionScope /\ UNCHANGED optionScope /\ optionCall' = <<"swap", x, y>>
  BY DEF O!Swap
<1>2. ASSUME OptionInv', O!Held' = [O!Held EXCEPT ![x] = O!Held[y], ![y] = O!Held[x]]
      PROVE  OptionInv' /\ O!OptionStep
  <2>1. O!Abstract!Swap(x, y)
    BY <1>1, <1>2, OptionStorage DEF O!Abstract!Swap, O!Abstract!InScope
  <2>2. QED
    BY <1>2, <2>1 DEF O!OptionStep, O!Abstract!Next
<1>3. CASE optionMem.active[x] /\ optionMem.active[y]
  <2> DEFINE v == O!Element(optionMem, y)
             w == O!Element(optionMem, x)
             m == O!Assign(optionMem, x, O!T, v)
  <2>1. /\ v \in Datas \cup {O!Moved} /\ w \in Datas \cup {O!Moved}
        /\ O!Held[x] = w /\ O!Held[y] = v
    BY <1>1, <1>3, OptionStorage
  <2>2. OptionFills(optionMem, m, x, v)
    BY <1>1, <1>3, <2>1, OptionStorage, OptionAssignFills
  <2>3. optionMem' = O!Assign(m, y, O!T, w)
    BY <1>3 DEF O!Swap
  <2> HIDE DEF m
  <2>4. m \in OptionMem /\ m.active[y] /\ m.obj[y] \in OptionElements
    <3>1. CASE x = y
      BY <2>1, <2>2, <3>1, OptionElementFacts DEF OptionFills
    <3>2. CASE x # y
      BY <1>1, <1>3, <2>2, <3>2, OptionOtherStays
    <3>3. QED
      BY <3>1, <3>2
  <2>5. OptionFills(m, optionMem', y, w)
    BY <2>1, <2>3, <2>4, OptionAssignFills
  <2>6. OptionEnds(optionMem', x)
    BY <1>1 DEF OptionEnds
  <2>7. CASE x # y
    <3>1. OptionInv' /\ O!Held' = [O!Held EXCEPT ![x] = v, ![y] = w]
      <4>1. OptionRefills(m, optionMem', x, v, y, w)
        BY <1>1, <2>1, <2>2, <2>5, <2>6, <2>7 DEF OptionRefills
      <4> HIDE DEF v, w
      <4>2. QED
        BY <4>1, OptionFilledTwice
    <3>2. QED
      BY <1>2, <2>1, <3>1
  <2>8. CASE x = y
    <3>1. OptionFills(optionMem, optionMem', x, w)
      BY <2>2, <2>5, <2>8 DEF OptionFills
    <3>2. OptionInv' /\ O!Held' = [O!Held EXCEPT ![x] = w]
      BY <2>1, <2>6, <3>1, OptionFilledStep
    <3>3. O!Held' = [O!Held EXCEPT ![x] = O!Held[y], ![y] = O!Held[x]]
      BY <2>1, <2>8, <3>2 DEF O!Held
    <3>4. QED
      BY <1>2, <3>2, <3>3
  <2>9. QED
    BY <2>7, <2>8
<1>4. CASE optionMem.active[x] /\ ~optionMem.active[y]
  <2>1. optionMem' = O!PassOn(optionMem, x, y) /\ x # y /\ O!Held[y] = "empty"
    BY <1>1, <1>4, OptionStorage DEF O!Swap
  <2>2. OptionInv' /\ O!Held' = [O!Held EXCEPT ![x] = "empty", ![y] = O!Held[x]]
    BY <1>1, <1>4, <2>1, OptionPassOnHolds
  <2>3. QED
    BY <1>2, <2>1, <2>2
<1>5. CASE ~optionMem.active[x] /\ optionMem.active[y]
  <2>1. optionMem' = O!PassOn(optionMem, y, x) /\ x # y /\ O!Held[x] = "empty"
    BY <1>1, <1>5, OptionStorage DEF O!Swap
  <2>2. OptionInv' /\ O!Held' = [O!Held EXCEPT ![y] = "empty", ![x] = O!Held[y]]
    BY <1>1, <1>5, <2>1, OptionPassOnHolds
  <2>3. O!Held' = [O!Held EXCEPT ![x] = O!Held[y], ![y] = O!Held[x]]
    BY <2>1, <2>2 DEF O!Held
  <2>4. QED
    BY <1>2, <2>2, <2>3
<1>6. CASE ~optionMem.active[x] /\ ~optionMem.active[y]
  <2>1. optionMem' = optionMem /\ O!Held[x] = "empty" /\ O!Held[y] = "empty"
    BY <1>1, <1>6, OptionStorage DEF O!Swap
  <2>2. O!Held' = O!Held /\ OptionInv'
    BY <1>1, <2>1 DEF O!Held, O!Element, OptionInv, OptionTruthful
  <2>3. O!Held' = [O!Held EXCEPT ![x] = O!Held[y], ![y] = O!Held[x]]
    BY <2>1, <2>2 DEF O!Held
  <2>4. QED
    BY <1>2, <2>2, <2>3
<1>7. QED
  BY <1>3, <1>4, <1>5, <1>6

LEMMA OptionCases ==
  ASSUME O!Next
  PROVE  \E x \in Cells :
           \/ O!Default(x) \/ O!Destruct(x) \/ O!Reset(x) \/ O!TakeOut(x)
           \/ \E v \in Datas : O!FromValue(x, v) \/ O!AssignValue(x, v) \/ O!Emplace(x, v)
           \/ \E y \in Cells : \/ O!CopyConstruct(x, y) \/ O!MoveConstruct(x, y)
                               \/ O!AssignCopy(x, y) \/ O!AssignMove(x, y) \/ O!Swap(x, y)
  BY DEF O!Next, O!OrElse

LEMMA OptionKeeps ==
  ASSUME O!OptionAssumption, OptionInv, O!Next
  PROVE  OptionInv' /\ O!OptionStep
  BY OptionCases, OptionNothingStep, OptionDestructStep, OptionTakeStep, OptionValueStep,
     OptionCopyStep, OptionMoveStep,
     OptionSwapStep

LEMMA OptionInit == ASSUME O!Init PROVE OptionInv
<1>1. optionMem \in OptionMem
  BY DEF O!Init, OptionMem
<1>2. QED
  BY <1>1, OptionElementFacts DEF O!Init, OptionInv, OptionTruthful

LEMMA OptionTells == ASSUME OptionInv PROVE O!FlagMeansAlive
<1>1. optionMem.broken = {} /\ \A x \in Cells : optionMem.obj[x] \in {O!NoObject} \cup OptionElements
  BY DEF OptionInv, OptionTruthful, OptionMem
<1>2. QED
  BY <1>1, OptionElementFacts DEF OptionInv, OptionTruthful, O!FlagMeansAlive, O!Alive

-----------------------------------------------------------------------------
(* Result. *)

\* A memory in which an object, or a flag, is another one.
ResultSetObj(m, p, w) == [m EXCEPT !.obj[p] = w]
ResultSetFlag(m, p, b) == [m EXCEPT !.active[p] = b]

-----------------------------------------------------------------------------
ResultObject(c, v) == [type |-> c, val |-> v]
ResultContents == Vals \cup Datas \cup {R!Moved, "none"}
ResultObjects == [type : {"T", "E", "none"}, val : ResultContents]
ResultMem == [obj : [Cells -> ResultObjects], active : [Cells -> BOOLEAN],
              broken : SUBSET {"overwritten", "dead"}]

LEMMA ResultObjectFacts ==
  /\ R!NoObject \in ResultObjects /\ R!NoObject.type = "none"
  /\ \A c \in {"T", "E"}, v \in ResultContents : ResultObject(c, v) \in ResultObjects
  /\ \A c, v : ResultObject(c, v).type = c /\ ResultObject(c, v).val = v
  /\ \A o \in ResultObjects : o = ResultObject(o.type, o.val) /\ o.val \in ResultContents
  /\ \A b \in BOOLEAN : R!Member(b) \in {"T", "E"}
  BY DEF R!NoObject, ResultObjects, ResultObject, ResultContents, R!Member

LEMMA ResultSetObjIs ==
  ASSUME NEW m \in ResultMem, NEW p \in Cells, NEW w \in ResultObjects
  PROVE  /\ ResultSetObj(m, p, w) \in ResultMem
         /\ ResultSetObj(m, p, w).active = m.active /\ ResultSetObj(m, p, w).broken = m.broken
         /\ ResultSetObj(m, p, w).obj[p] = w
         /\ \A z \in Cells \ {p} : ResultSetObj(m, p, w).obj[z] = m.obj[z]
  BY DEF ResultSetObj, ResultMem

LEMMA ResultSetFlagIs ==
  ASSUME NEW m \in ResultMem, NEW p \in Cells, NEW b \in BOOLEAN
  PROVE  /\ ResultSetFlag(m, p, b) \in ResultMem
         /\ ResultSetFlag(m, p, b).obj = m.obj /\ ResultSetFlag(m, p, b).broken = m.broken
         /\ (ResultSetFlag(m, p, b).active[p] <=> b)
         /\ \A z \in Cells \ {p} : ResultSetFlag(m, p, b).active[z] <=> m.active[z]
  BY DEF ResultSetFlag, ResultMem

LEMMA ResultBreakIs ==
  ASSUME NEW m \in ResultMem, NEW what \in {"overwritten", "dead"}
  PROVE  /\ R!Break(m, what) \in ResultMem
         /\ R!Break(m, what).obj = m.obj /\ R!Break(m, what).active = m.active
  BY DEF R!Break, ResultMem

\* The memory n differs from m at p only, and in what is broken.
ResultChanges(m, n, p) ==
  /\ n \in ResultMem
  /\ \A z \in Cells \ {p} : n.obj[z] = m.obj[z] /\ (n.active[z] <=> m.active[z])

LEMMA ResultChangesTwice ==
  ASSUME NEW m, NEW n, NEW k, NEW p, ResultChanges(m, n, p), ResultChanges(n, k, p)
  PROVE  ResultChanges(m, k, p)
  BY DEF ResultChanges

LEMMA ResultSetChanges ==
  ASSUME NEW m \in ResultMem, NEW p \in Cells
  PROVE  /\ \A w \in ResultObjects : ResultChanges(m, ResultSetObj(m, p, w), p)
         /\ \A b \in BOOLEAN : ResultChanges(m, ResultSetFlag(m, p, b), p)
         /\ ResultChanges(m, R!Break(m, "overwritten"), p) /\ ResultChanges(m, R!Break(m, "dead"), p)
         /\ ResultChanges(m, m, p)
  BY ResultSetObjIs, ResultSetFlagIs, ResultBreakIs DEF ResultChanges

LEMMA ResultConstructChanges ==
  ASSUME NEW m \in ResultMem, NEW p \in Cells, NEW c \in {"T", "E"}, NEW v \in ResultContents
  PROVE  /\ ResultChanges(m, R!Construct(m, p, c, v), p)
         /\ R!Construct(m, p, c, v).active = m.active
         /\ R!Construct(m, p, c, v).obj[p] = ResultObject(c, v)
         /\ m.obj[p] = R!NoObject => R!Construct(m, p, c, v).broken = m.broken
<1> DEFINE n == ResultSetObj(m, p, ResultObject(c, v))
<1>1. R!Construct(m, p, c, v) = IF m.obj[p] # R!NoObject THEN R!Break(n, "overwritten") ELSE n
  BY DEF R!Construct, R!Alive, ResultSetObj, ResultObject
<1>2. /\ n \in ResultMem /\ ResultChanges(m, n, p) /\ n.active = m.active
      /\ n.obj[p] = ResultObject(c, v) /\ n.broken = m.broken
  BY ResultObjectFacts, ResultSetObjIs, ResultSetChanges
<1> HIDE DEF n
<1>3. /\ ResultChanges(m, R!Break(n, "overwritten"), p) /\ R!Break(n, "overwritten").active = m.active
      /\ R!Break(n, "overwritten").obj = n.obj
  BY <1>2, ResultSetChanges, ResultChangesTwice, ResultBreakIs
<1>4. QED
  BY <1>1, <1>2, <1>3

LEMMA ResultBuildChanges ==
  ASSUME NEW m \in ResultMem, NEW p \in Cells, NEW c \in {"T", "E"}, NEW v \in ResultContents
  PROVE  /\ ResultChanges(m, R!Build(m, p, c, v), p)
         /\ R!Build(m, p, c, v).active = m.active
         /\ R!Build(m, p, c, v).obj[p] = ResultObject(c, v)
         /\ m.obj[p] = R!NoObject \/ (trivial /\ m.obj[p].type = "T") =>
              R!Build(m, p, c, v).broken = m.broken
<1>1. CASE trivial /\ m.obj[p].type = "T"
  <2>1. R!Build(m, p, c, v) = ResultSetObj(m, p, ResultObject(c, v))
    BY <1>1 DEF R!Build, ResultSetObj, ResultObject
  <2>2. QED
    BY <2>1, ResultObjectFacts, ResultSetObjIs, ResultSetChanges
<1>2. CASE ~(trivial /\ m.obj[p].type = "T")
  <2>1. R!Build(m, p, c, v) = R!Construct(m, p, c, v)
    BY <1>2 DEF R!Build
  <2>2. QED
    BY <1>2, <2>1, ResultConstructChanges
<1>3. QED
  BY <1>1, <1>2

LEMMA ResultClearChanges ==
  ASSUME NEW m \in ResultMem, NEW p \in Cells
  PROVE  /\ ResultChanges(m, R!Clear(m, p), p) /\ R!Clear(m, p).active = m.active
         /\ R!Clear(m, p).obj[p] = R!NoObject
         /\ m.obj[p].type = R!Member(m.active[p]) => R!Clear(m, p).broken = m.broken
<1> DEFINE n == ResultSetObj(m, p, R!NoObject)
<1>1. R!Clear(m, p) = IF m.obj[p].type = R!Member(m.active[p]) THEN n ELSE R!Break(n, "dead")
  BY DEF R!Clear, R!Destroy, ResultSetObj
<1>2. /\ n \in ResultMem /\ ResultChanges(m, n, p) /\ n.active = m.active
      /\ n.obj[p] = R!NoObject /\ n.broken = m.broken
  BY ResultObjectFacts, ResultSetObjIs, ResultSetChanges
<1> HIDE DEF n
<1>3. /\ ResultChanges(m, R!Break(n, "dead"), p) /\ R!Break(n, "dead").active = m.active
      /\ R!Break(n, "dead").obj[p] = R!NoObject
  BY <1>2, ResultSetChanges, ResultChangesTwice, ResultBreakIs
<1>4. QED
  BY <1>1, <1>2, <1>3

\* A member is built over nothing, or over a T that is trivial to destroy, and
\* the flag is set to name it.
LEMMA ResultFlaggedChanges ==
  ASSUME NEW m \in ResultMem, NEW p \in Cells, NEW b \in BOOLEAN, NEW v \in ResultContents,
         NEW n \in {R!Build(m, p, R!Member(b), v), R!Construct(m, p, R!Member(b), v)}
  PROVE  /\ ResultChanges(m, ResultSetFlag(n, p, b), p)
         /\ (ResultSetFlag(n, p, b).active[p] <=> b)
         /\ ResultSetFlag(n, p, b).obj[p] = ResultObject(R!Member(b), v)
         /\ m.obj[p] = R!NoObject => ResultSetFlag(n, p, b).broken = m.broken
<1>1. R!Member(b) \in {"T", "E"}
  BY ResultObjectFacts
<1>2. /\ ResultChanges(m, n, p) /\ n.obj[p] = ResultObject(R!Member(b), v)
      /\ m.obj[p] = R!NoObject => n.broken = m.broken
  BY <1>1, ResultBuildChanges, ResultConstructChanges
<1>3. n \in ResultMem
  BY <1>2 DEF ResultChanges
<1>4. ResultChanges(m, ResultSetFlag(n, p, b), p)
  BY <1>2, <1>3, ResultSetChanges, ResultChangesTwice
<1>5. QED
  BY <1>2, <1>3, <1>4, ResultSetFlagIs

LEMMA ResultInitializeChanges ==
  ASSUME NEW m \in ResultMem, NEW p \in Cells, NEW b \in BOOLEAN, NEW v \in ResultContents
  PROVE  /\ ResultChanges(m, R!Initialize(m, p, b, v), p)
         /\ (R!Initialize(m, p, b, v).active[p] <=> b)
         /\ R!Initialize(m, p, b, v).obj[p] = ResultObject(R!Member(b), v)
         /\ m.obj[p].type = R!Member(m.active[p]) => R!Initialize(m, p, b, v).broken = m.broken
<1> DEFINE n == R!Clear(m, p)
           k == R!Build(n, p, R!Member(b), v)
<1>1. R!Initialize(m, p, b, v) = ResultSetFlag(k, p, b)
  BY DEF R!Initialize, ResultSetFlag
<1>2. /\ n \in ResultMem /\ ResultChanges(m, n, p) /\ n.obj[p] = R!NoObject
      /\ m.obj[p].type = R!Member(m.active[p]) => n.broken = m.broken
  BY ResultClearChanges DEF ResultChanges
<1> HIDE DEF n
<1>3. /\ ResultChanges(n, ResultSetFlag(k, p, b), p)
      /\ (ResultSetFlag(k, p, b).active[p] <=> b)
      /\ ResultSetFlag(k, p, b).obj[p] = ResultObject(R!Member(b), v)
      /\ n.obj[p] = R!NoObject => ResultSetFlag(k, p, b).broken = n.broken
  BY <1>2, ResultFlaggedChanges
<1> HIDE DEF k
<1>4. QED
  BY <1>1, <1>2, <1>3, ResultChangesTwice

LEMMA ResultMoveOutChanges ==
  ASSUME NEW m \in ResultMem, NEW p \in Cells, NEW c, NEW v \in ResultContents
  PROVE  /\ ResultChanges(m, R!Assign(m, p, c, v), p) /\ R!Assign(m, p, c, v).active = m.active
         /\ R!Assign(m, p, c, v).obj[p].type = m.obj[p].type
         /\ m.obj[p].type = c => /\ R!Assign(m, p, c, v).obj[p] = ResultObject(c, v)
                                 /\ R!Assign(m, p, c, v).broken = m.broken
<1>1. CASE m.obj[p].type = c
  <2>1. m.obj[p] \in ResultObjects /\ m.obj[p] = ResultObject(c, m.obj[p].val)
    BY <1>1, ResultObjectFacts DEF ResultMem
  <2>2. [m.obj[p] EXCEPT !.val = v] = ResultObject(c, v)
    BY <2>1 DEF ResultObject
  <2>3. R!Assign(m, p, c, v) = ResultSetObj(m, p, ResultObject(c, v))
    BY <1>1, <2>2 DEF R!Assign, ResultSetObj
  <2>4. ResultObject(c, v) \in ResultObjects
    BY <1>1, <2>1 DEF ResultObjects, ResultObject
  <2>5. QED
    BY <1>1, <2>3, <2>4, ResultObjectFacts, ResultSetObjIs, ResultSetChanges
<1>2. CASE m.obj[p].type # c
  <2>1. R!Assign(m, p, c, v) = R!Break(m, "dead")
    BY <1>2 DEF R!Assign
  <2>2. QED
    BY <1>2, <2>1, ResultSetChanges, ResultBreakIs
<1>3. QED
  BY <1>1, <1>2

LEMMA ResultUseChanges ==
  ASSUME NEW m \in ResultMem, NEW p \in Cells, NEW q \in Cells, NEW c
  PROVE  /\ ResultChanges(m, R!Use(m, q, c), p) /\ R!Use(m, q, c).active = m.active
         /\ R!Use(m, q, c).obj = m.obj
         /\ m.obj[q].type = c => R!Use(m, q, c) = m
  BY ResultSetChanges, ResultBreakIs DEF R!Use

\* The copying assignment, for a source that is another result or this one.
LEMMA ResultCopiedChanges ==
  ASSUME NEW p \in Cells, NEW q \in Cells, resultMem \in ResultMem
  PROVE  /\ ResultChanges(resultMem, R!Copied(p, q), p)
         /\ (R!Copied(p, q).active[p] <=> resultMem.active[q])
         /\ R!Copied(p, q).obj[p].type = R!Member(resultMem.active[q])
         /\ p # q /\ resultMem.obj[p].type = R!Member(resultMem.active[p])
                  /\ resultMem.obj[q].type = R!Member(resultMem.active[q]) =>
              /\ R!Copied(p, q).obj[p] = ResultObject(R!Member(resultMem.active[q]), resultMem.obj[q].val)
              /\ R!Copied(p, q).broken = resultMem.broken
<1> DEFINE n == R!Clear(resultMem, p)
           a == resultMem.active[q]
           k == R!Use(n, q, R!Member(a))
           v == R!Content(n, q)
           l == R!Build(k, p, R!Member(a), v)
<1>1. R!Copied(p, q) = ResultSetFlag(l, p, a)
  BY DEF R!Copied, ResultSetFlag
<1>2. /\ n \in ResultMem /\ ResultChanges(resultMem, n, p) /\ n.obj[p] = R!NoObject
      /\ resultMem.obj[p].type = R!Member(resultMem.active[p]) => n.broken = resultMem.broken
      /\ p # q => n.obj[q] = resultMem.obj[q]
  BY ResultClearChanges DEF ResultChanges
<1>3. a \in BOOLEAN /\ R!Member(a) \in {"T", "E"}
  BY ResultObjectFacts DEF ResultMem
<1> HIDE DEF n, a
<1>4. /\ k \in ResultMem /\ ResultChanges(n, k, p) /\ k.obj = n.obj
      /\ n.obj[q].type = R!Member(a) => k = n
  BY <1>2, ResultUseChanges DEF ResultChanges
<1>5. v \in ResultContents
  BY <1>2, ResultObjectFacts DEF R!Content, ResultMem
<1>6. p # q => v = resultMem.obj[q].val
  BY <1>2 DEF R!Content
<1> HIDE DEF k, v
<1>7. /\ ResultChanges(k, ResultSetFlag(l, p, a), p) /\ (ResultSetFlag(l, p, a).active[p] <=> a)
      /\ ResultSetFlag(l, p, a).obj[p] = ResultObject(R!Member(a), v)
      /\ k.obj[p] = R!NoObject => ResultSetFlag(l, p, a).broken = k.broken
  BY <1>3, <1>4, <1>5, ResultFlaggedChanges
<1> HIDE DEF l
<1>8. ResultChanges(resultMem, ResultSetFlag(l, p, a), p)
  BY <1>2, <1>4, <1>7, ResultChangesTwice
<1>9. QED
  BY <1>1, <1>2, <1>4, <1>6, <1>7, <1>8, ResultObjectFacts DEF a

\* The base of the constructors that copy and move.
LEMMA ResultBasedChanges ==
  ASSUME NEW m \in ResultMem, NEW p \in Cells, NEW b \in BOOLEAN, DefaultVal \in ResultContents
  PROVE  /\ ResultChanges(m, R!Based(m, p, b), p)
         /\ (R!Based(m, p, b).active[p] <=> b)
         /\ R!Based(m, p, b).obj[p] = ResultObject("T", DefaultVal)
         /\ m.obj[p] = R!NoObject => R!Based(m, p, b).broken = m.broken
<1> DEFINE n == R!Construct(m, p, "T", DefaultVal)
<1>1. R!Based(m, p, b) = ResultSetFlag(n, p, b)
  BY DEF R!Based, ResultSetFlag
<1>2. /\ n \in ResultMem /\ ResultChanges(m, n, p) /\ n.obj[p] = ResultObject("T", DefaultVal)
      /\ m.obj[p] = R!NoObject => n.broken = m.broken
  BY ResultConstructChanges DEF ResultChanges
<1> HIDE DEF n
<1>3. QED
  BY <1>1, <1>2, ResultSetFlagIs, ResultSetChanges, ResultChangesTwice

LEMMA ResultBuiltOverBase ==
  ASSUME NEW m \in ResultMem, NEW p \in Cells, NEW b \in BOOLEAN, NEW v \in ResultContents,
         DefaultVal \in ResultContents
  PROVE  LET n == R!Build(R!Based(m, p, b), p, R!Member(b), v)
         IN  /\ ResultChanges(m, n, p) /\ (n.active[p] <=> b)
             /\ n.obj[p] = ResultObject(R!Member(b), v)
             /\ trivial /\ m.obj[p] = R!NoObject => n.broken = m.broken
<1> DEFINE k == R!Based(m, p, b)
           n == R!Build(k, p, R!Member(b), v)
<1>1. /\ k \in ResultMem /\ ResultChanges(m, k, p) /\ (k.active[p] <=> b)
      /\ k.obj[p].type = "T"
      /\ m.obj[p] = R!NoObject => k.broken = m.broken
  BY ResultBasedChanges, ResultObjectFacts DEF ResultChanges
<1> HIDE DEF k
<1>2. R!Member(b) \in {"T", "E"}
  BY ResultObjectFacts
<1>3. /\ ResultChanges(k, n, p) /\ n.active = k.active
      /\ n.obj[p] = ResultObject(R!Member(b), v)
      /\ trivial => n.broken = k.broken
  BY <1>1, <1>2, ResultBuildChanges
<1> HIDE DEF n
<1>4. QED
  BY <1>1, <1>3, ResultChangesTwice DEF n, k

-----------------------------------------------------------------------------
\* What the flag says of p is what is in its storage.
ResultSays(m, s, p) == IF p \in s THEN m.obj[p].type = R!Member(m.active[p])
                            ELSE m.obj[p] = R!NoObject

ResultInv ==
  /\ resultMem \in ResultMem /\ resultScope \subseteq Cells /\ resultSpoilt \subseteq Cells
  /\ resultMem.broken = {} \/ resultSpoilt # {}
  /\ \A p \in Cells \ resultSpoilt : ResultSays(resultMem, resultScope, p)

\* The memory n differs from m at p, and in what is broken; and q has another
\* value of the same type.
ResultTouches(m, n, p, q) ==
  /\ n \in ResultMem
  /\ \A z \in Cells \ {p} : /\ n.active[z] <=> m.active[z]
                            /\ n.obj[z].type = m.obj[z].type
                            /\ z # q => n.obj[z] = m.obj[z]

LEMMA ResultTouchesBoth ==
  ASSUME NEW m, NEW n, NEW k, NEW p, NEW q \in Cells, p # q,
         ResultChanges(m, n, p), ResultChanges(n, k, q), k.active = n.active,
         k.obj[q].type = n.obj[q].type
  PROVE  ResultTouches(m, k, p, q)
  BY DEF ResultChanges, ResultTouches

LEMMA ResultChangesTouches ==
  ASSUME NEW m, NEW n, NEW p, ResultChanges(m, n, p)
  PROVE  ResultTouches(m, n, p, p)
  BY DEF ResultChanges, ResultTouches

ResultSpoiling == resultSpoilt' = resultSpoilt \cup {r \in Cells : R!Spoils(r)}

LEMMA ResultInvKept ==
  ASSUME ResultInv, ResultSpoiling, NEW p \in Cells, NEW q \in resultScope \cup {p},
         ResultTouches(resultMem, resultMem', p, q), resultScope' \ {p} = resultScope \ {p}, resultScope' \subseteq Cells,
         p \in resultSpoilt' \/ ResultSays(resultMem', resultScope', p), resultSpoilt' = {} => resultMem'.broken = resultMem.broken
  PROVE  ResultInv'
<1>1. resultMem' \in ResultMem /\ resultSpoilt' \subseteq Cells /\ resultSpoilt \subseteq resultSpoilt'
  BY DEF ResultTouches, ResultInv, ResultSpoiling
<1>2. resultMem'.broken = {} \/ resultSpoilt' # {}
  BY <1>1 DEF ResultInv
<1>3. ASSUME NEW z \in Cells \ resultSpoilt', z # p
      PROVE  ResultSays(resultMem', resultScope', z)
  <2>1. ResultSays(resultMem, resultScope, z) /\ (z \in resultScope' <=> z \in resultScope)
    BY <1>1, <1>3 DEF ResultInv
  <2>2. (resultMem'.active[z] <=> resultMem.active[z]) /\ resultMem'.obj[z].type = resultMem.obj[z].type
    BY <1>3 DEF ResultTouches
  <2>3. R!Member(resultMem'.active[z]) = R!Member(resultMem.active[z])
    BY <2>2 DEF R!Member
  <2>4. z \notin resultScope => resultMem'.obj[z] = resultMem.obj[z]
    BY <1>3 DEF ResultTouches
  <2>5. QED
    BY <2>1, <2>2, <2>3, <2>4 DEF ResultSays
<1>4. QED
  BY <1>1, <1>2, <1>3 DEF ResultInv

LEMMA ResultClean ==
  ASSUME ResultInv, ResultSpoiling, resultSpoilt' = {}
  PROVE  resultSpoilt = {} /\ \A p \in Cells : ResultSays(resultMem, resultScope, p) /\ ~R!Spoils(p)
  BY DEF ResultInv, ResultSpoiling

\* What the user of a result sees.
ResultHeldOf(m, s) == [p \in Cells |-> IF p \notin s THEN R!Special("out")
                                   ELSE IF m.obj[p].val = R!Moved THEN R!Special("moved")
                                   ELSE m.obj[p]]

LEMMA ResultHeldIs == R!Held = ResultHeldOf(resultMem, resultScope) /\ R!Held' = ResultHeldOf(resultMem', resultScope')
  BY DEF R!Held, ResultHeldOf

LEMMA ResultHeldChanges ==
  ASSUME NEW p \in Cells, NEW q \in Cells, ResultTouches(resultMem, resultMem', p, q),
         resultScope' \ {p} = resultScope \ {p}
  PROVE  /\ R!Held' = [R!Held EXCEPT ![p] = R!Held'[p], ![q] = R!Held'[q]]
         /\ p = q => R!Held' = [R!Held EXCEPT ![p] = R!Held'[p]]
<1> DEFINE f == ResultHeldOf(resultMem, resultScope)
           h == ResultHeldOf(resultMem', resultScope')
<1>1. \A z \in Cells \ {p, q} : h[z] = f[z]
  BY DEF ResultTouches, ResultHeldOf
<1>2. f = [z \in Cells |-> f[z]] /\ h = [z \in Cells |-> h[z]]
  BY DEF ResultHeldOf
<1> HIDE DEF f, h
<1>3. /\ h = [f EXCEPT ![p] = h[p], ![q] = h[q]]
      /\ p = q => h = [f EXCEPT ![p] = h[p]]
  BY <1>1, <1>2
<1>4. QED
  BY <1>3, ResultHeldIs DEF f, h

LEMMA ResultSeen ==
  ASSUME NEW p \in Cells
  PROVE  /\ p \notin resultScope' => R!Held'[p] = R!Special("out")
         /\ \A c, v : p \in resultScope' /\ resultMem'.obj[p] = ResultObject(c, v) =>
              R!Held'[p] = IF v = R!Moved THEN R!Special("moved") ELSE ResultObject(c, v)
<1>1. R!Held' = ResultHeldOf(resultMem', resultScope')
  BY ResultHeldIs
<1>2. QED
  BY <1>1, ResultObjectFacts DEF ResultHeldOf

LEMMA ResultShown ==
  ASSUME ResultInv, NEW p \in Cells, ResultSays(resultMem, resultScope, p)
  PROVE  /\ p \notin resultScope => R!Held[p] = R!Special("out")
         /\ p \in resultScope =>
              /\ R!Held[p] # R!Special("out") /\ R!Held[p] # R!Special("empty")
              /\ R!Held[p] = IF resultMem.obj[p].val = R!Moved THEN R!Special("moved")
                           ELSE ResultObject(R!Member(resultMem.active[p]), resultMem.obj[p].val)
<1>1. R!Held = ResultHeldOf(resultMem, resultScope)
  BY ResultHeldIs
<1>2. CASE p \notin resultScope
  BY <1>1, <1>2 DEF ResultHeldOf
<1>3. CASE p \in resultScope
  <2>1. /\ resultMem.obj[p] = ResultObject(R!Member(resultMem.active[p]), resultMem.obj[p].val)
        /\ R!Member(resultMem.active[p]) \in {"T", "E"}
    BY <1>3, ResultObjectFacts DEF ResultSays, ResultInv, ResultMem
  <2>2. R!Held[p] = IF resultMem.obj[p].val = R!Moved THEN R!Special("moved") ELSE resultMem.obj[p]
    BY <1>1, <1>3 DEF ResultHeldOf
  <2>3. \A c \in {"T", "E"} : \A v : /\ ResultObject(c, v) # R!Special("out")
                                     /\ ResultObject(c, v) # R!Special("empty")
    BY DEF ResultObject, R!Special
  <2>4. R!Special("moved") # R!Special("out") /\ R!Special("moved") # R!Special("empty")
    BY DEF R!Special
  <2>5. QED
    BY <1>3, <2>1, <2>2, <2>3, <2>4
<1>4. QED
  BY <1>2, <1>3

-----------------------------------------------------------------------------
\* The operations: each keeps the invariant and the others, and unless one of
\* the faults has happened it is one of an optional.

ResultMembers == [type : {"T"}, val : Vals] \cup [type : {"E"}, val : Datas]

LEMMA ResultMembersAre ==
  /\ \A v \in Vals : ResultObject("T", v) \in ResultMembers
  /\ \A e \in Datas : ResultObject("E", e) \in ResultMembers
  BY DEF ResultObject, ResultMembers

\* A result is given a member of its own: by a constructor, an assignment of a
\* value or an error, or emplace.
ResultGivenBy(r, b, v) ==
  /\ ResultChanges(resultMem, resultMem', r)
  /\ (resultMem'.active[r] <=> b) /\ resultMem'.obj[r] = ResultObject(R!Member(b), v)
  /\ ResultSays(resultMem, resultScope, r) => resultMem'.broken = resultMem.broken
  /\ resultCall' = <<"value", r, ResultObject(R!Member(b), v)>>
  /\ resultScope' = resultScope \cup {r}

LEMMA ResultGivenStep ==
  ASSUME R!ResultAssumption, ResultInv, ResultSpoiling, NEW r \in Cells, NEW b \in BOOLEAN, NEW v,
         v \in Vals \cup Datas, ResultObject(R!Member(b), v) \in ResultMembers, ResultGivenBy(r, b, v)
  PROVE  ResultInv' /\ R!ResultStep
<1>1. ResultTouches(resultMem, resultMem', r, r)
  BY ResultChangesTouches DEF ResultGivenBy
<1>2. ResultSays(resultMem', resultScope', r)
  <2>1. R!Member(resultMem'.active[r]) = R!Member(b)
    BY DEF ResultGivenBy, R!Member
  <2>2. QED
    BY <2>1, ResultObjectFacts DEF ResultGivenBy, ResultSays
<1>3. ResultInv'
  BY <1>1, <1>2, ResultInvKept, ResultClean DEF ResultGivenBy, ResultInv
<1>4. R!OthersSurvive
  <2>1. resultCall' = <<"value", r, ResultObject(R!Member(b), v)>>
    BY DEF ResultGivenBy
  <2>2. resultCall'[1] = "value"
    BY <2>1
  <2>3. QED
    BY <2>2 DEF R!OthersSurvive
<1>5. R!Held' = [R!Held EXCEPT ![r] = ResultObject(R!Member(b), v)]
  <2>1. v # R!Moved
    BY DEF R!ResultAssumption
  <2>2. R!Held' = [R!Held EXCEPT ![r] = R!Held'[r]]
    BY <1>1, ResultHeldChanges DEF ResultGivenBy
  <2>3. R!Held'[r] = ResultObject(R!Member(b), v)
    BY <2>1, ResultSeen DEF ResultGivenBy
  <2>4. QED
    BY <2>2, <2>3
<1>6. R!Abstract!Value(r, ResultObject(R!Member(b), v))
  BY <1>5 DEF R!Abstract!Value, ResultGivenBy
<1>7. QED
  BY <1>3, <1>4, <1>6 DEF R!ResultStep, R!Abstract!Next, ResultMembers

\* A copy threw: the target is as it was, or the old member is gone; nobody
\* else is touched.
LEMMA ResultLostStep ==
  ASSUME ResultInv, ResultSpoiling, NEW r \in Cells,
         ResultChanges(resultMem, resultMem', r), resultScope' = resultScope, resultCall' = <<"lost", r>>
  PROVE  ResultInv' /\ R!ResultStep
<1>1. ResultTouches(resultMem, resultMem', r, r)
  BY ResultChangesTouches
<1>2. r \in resultSpoilt'
  BY DEF ResultSpoiling, R!Spoils
<1>3. ResultInv'
  BY <1>1, <1>2, ResultInvKept DEF ResultInv
<1>4. resultCall'[2] = r
  OBVIOUS
<1>5. R!OthersSurvive
  <2>1. \A z \in Cells \ {r} : resultMem'.active[z] = resultMem.active[z] /\ resultMem'.obj[z] = resultMem.obj[z]
    BY DEF ResultChanges, ResultMem, ResultInv
  <2>2. QED
    BY <1>4, <2>1 DEF R!OthersSurvive
<1>6. QED
  BY <1>2, <1>3, <1>5 DEF R!ResultStep

LEMMA ResultThrewStep ==
  ASSUME ResultInv, ResultSpoiling, NEW r \in Cells,
         ResultChanges(resultMem, resultMem', r), ResultSays(resultMem', resultScope', r),
         ResultSays(resultMem, resultScope, r) => resultMem'.broken = resultMem.broken /\ R!Held'[r] = R!Held[r],
         resultScope' = resultScope, resultCall' = <<"threw", r>>
  PROVE  ResultInv' /\ R!ResultStep
<1>1. ResultTouches(resultMem, resultMem', r, r)
  BY ResultChangesTouches
<1>2. ResultInv'
  BY <1>1, ResultInvKept, ResultClean DEF ResultInv
<1>3. resultCall'[2] = r
  OBVIOUS
<1>4. R!OthersSurvive
  <2>1. \A z \in Cells \ {r} : resultMem'.active[z] = resultMem.active[z] /\ resultMem'.obj[z] = resultMem.obj[z]
    BY DEF ResultChanges, ResultMem, ResultInv
  <2>2. QED
    BY <1>3, <2>1 DEF R!OthersSurvive
<1>5. ASSUME resultSpoilt' = {} PROVE R!Abstract!Next
  <2>1. R!Held' = [R!Held EXCEPT ![r] = R!Held'[r]] /\ R!Held'[r] = R!Held[r]
    BY <1>1, <1>5, ResultHeldChanges, ResultClean
  <2>2. R!Held' = R!Held
    BY <2>1 DEF R!Held
  <2>3. R!Abstract!Fail(r)
    BY <2>2 DEF R!Abstract!Fail
  <2>4. QED
    BY <2>3 DEF R!Abstract!Next
<1>6. QED
  BY <1>2, <1>4, <1>5 DEF R!ResultStep

LEMMA ResultMakeStep ==
  ASSUME R!ResultAssumption, ResultInv, ResultSpoiling, NEW r \in Cells, NEW b \in BOOLEAN, NEW v,
         v \in Vals \cup Datas, ResultObject(R!Member(b), v) \in ResultMembers, R!Make(r, b, v)
  PROVE  ResultInv' /\ R!ResultStep
<1>1. /\ r \notin resultScope /\ resultMem \in ResultMem /\ v \in ResultContents
      /\ resultMem' = ResultSetFlag(R!Construct(resultMem, r, R!Member(b), v), r, b)
  BY DEF R!Make, R!Begin, ResultInv, ResultContents, ResultSetFlag
<1>2. /\ ResultChanges(resultMem, resultMem', r)
      /\ (resultMem'.active[r] <=> b) /\ resultMem'.obj[r] = ResultObject(R!Member(b), v)
      /\ resultMem.obj[r] = R!NoObject => resultMem'.broken = resultMem.broken
  BY <1>1, ResultFlaggedChanges
<1>3. /\ resultCall' = <<"value", r, ResultObject(R!Member(b), v)>>
      /\ resultScope' = resultScope \cup {r}
  BY DEF R!Make, R!Begin, ResultObject
<1>4. ResultGivenBy(r, b, v)
  BY <1>1, <1>2, <1>3 DEF ResultGivenBy, ResultSays
<1>5. QED
  BY <1>4, ResultGivenStep

LEMMA ResultInitializeStep ==
  ASSUME R!ResultAssumption, ResultInv, ResultSpoiling, NEW r \in resultScope, NEW b \in BOOLEAN, NEW v,
         v \in Vals \cup Datas, ResultObject(R!Member(b), v) \in ResultMembers, resultMem' = R!Initialize(resultMem, r, b, v),
         resultCall' = <<"value", r, ResultObject(R!Member(b), v)>>, UNCHANGED resultScope
  PROVE  ResultInv' /\ R!ResultStep
<1>1. r \in Cells /\ resultMem \in ResultMem /\ v \in ResultContents
  BY DEF ResultInv, ResultContents
<1>2. ResultGivenBy(r, b, v)
  BY <1>1, ResultInitializeChanges DEF ResultGivenBy, ResultSays
<1>3. QED
  BY <1>1, <1>2, ResultGivenStep

LEMMA ResultValueStep ==
  ASSUME R!ResultAssumption, ResultInv, ResultSpoiling, NEW r \in Cells, NEW v \in Vals,
         R!AssignValue(r, v) \/ R!Emplace(r, v)
  PROVE  ResultInv' /\ R!ResultStep
<1>1. r \in resultScope /\ UNCHANGED resultScope /\ resultMem \in ResultMem /\ v \in ResultContents
  BY DEF R!AssignValue, R!Emplace, ResultInv, ResultContents
<1>2. ResultObject("T", v) = R!Value(v) /\ R!Member(TRUE) = "T"
  BY DEF ResultObject, R!Value, R!Member
<1>3. CASE resultMem' = R!Initialize(resultMem, r, TRUE, v) /\ resultCall' = <<"value", r, R!Value(v)>>
  <2>1. PICK b \in BOOLEAN : b = TRUE
    OBVIOUS
  <2>2. resultMem' = R!Initialize(resultMem, r, b, v) /\ resultCall' = <<"value", r, ResultObject(R!Member(b), v)>>
    BY <1>2, <1>3, <2>1
  <2>3. ResultObject(R!Member(b), v) \in ResultMembers
    BY <1>2, <2>1, ResultMembersAre
  <2>4. QED
    BY <1>1, <2>2, <2>3, ResultInitializeStep
<1>4. CASE /\ resultMem.active[r] /\ resultMem' = R!Assign(resultMem, r, "T", v)
           /\ resultCall' = <<"value", r, R!Value(v)>>
  <2>1. R!Member(resultMem.active[r]) = "T"
    BY <1>4 DEF R!Member
  <2>2. /\ ResultChanges(resultMem, resultMem', r) /\ resultMem'.active = resultMem.active
        /\ resultMem'.obj[r].type = resultMem.obj[r].type
        /\ resultMem.obj[r].type = "T" => resultMem'.obj[r] = ResultObject("T", v) /\ resultMem'.broken = resultMem.broken
    BY <1>1, <1>4, ResultMoveOutChanges
  <2>3. CASE resultMem.obj[r].type = "T"
    <3>1. PICK b \in BOOLEAN : b = TRUE
      OBVIOUS
    <3>2. ResultObject(R!Member(b), v) = ResultObject("T", v)
      BY <3>1 DEF R!Member
    <3>3. ResultGivenBy(r, b, v)
      BY <1>1, <1>2, <1>4, <2>2, <2>3, <3>1, <3>2 DEF ResultGivenBy
    <3>4. ResultObject(R!Member(b), v) \in ResultMembers
      BY <3>2, ResultMembersAre
    <3>5. QED
      BY <3>3, <3>4, ResultGivenStep
  <2>4. CASE resultMem.obj[r].type # "T"
    <3>1. r \in resultSpoilt
      BY <1>1, <2>1, <2>4 DEF ResultInv, ResultSays
    <3>2. ResultTouches(resultMem, resultMem', r, r) /\ resultSpoilt' # {} /\ r \in resultSpoilt'
      BY <2>2, <3>1, ResultChangesTouches DEF ResultSpoiling
    <3>3. ResultInv'
      BY <1>1, <3>2, ResultInvKept DEF ResultInv
    <3>4. resultCall'[1] = "value"
      BY <1>4
    <3>5. QED
      BY <3>2, <3>3, <3>4 DEF R!ResultStep, R!OthersSurvive
  <2>5. QED
    BY <2>3, <2>4
<1>5. CASE resultMem' = resultMem /\ resultCall' = <<"threw", r>>
  <2>1. ResultChanges(resultMem, resultMem', r) /\ (r \in resultSpoilt \/ ResultSays(resultMem', resultScope', r))
    BY <1>1, <1>5, ResultSetChanges DEF ResultInv, ResultSays
  <2>2. R!Held' = R!Held
    BY <1>1, <1>5 DEF R!Held
  <2>3. CASE r \notin resultSpoilt
    BY <1>1, <1>5, <2>1, <2>2, <2>3, ResultThrewStep
  <2>4. CASE r \in resultSpoilt
    <3>1. ResultTouches(resultMem, resultMem', r, r) /\ resultSpoilt' # {} /\ r \in resultSpoilt'
      BY <2>1, <2>4, ResultChangesTouches DEF ResultSpoiling
    <3>2. ResultInv'
      BY <1>1, <3>1, ResultInvKept DEF ResultInv
    <3>3. QED
      BY <1>5, <3>1, <3>2 DEF R!ResultStep, R!OthersSurvive
  <2>5. QED
    BY <2>3, <2>4
<1>6. CASE resultMem' = R!Clear(resultMem, r) /\ resultCall' = <<"lost", r>>
  BY <1>1, <1>6, ResultClearChanges, ResultLostStep
<1>7. QED
  BY <1>3, <1>4, <1>5, <1>6 DEF R!AssignValue, R!Emplace, R!OrLost

LEMMA ResultErrorStep ==
  ASSUME R!ResultAssumption, ResultInv, ResultSpoiling, NEW r \in Cells, NEW e \in Datas,
         R!AssignError(r, e)
  PROVE  ResultInv' /\ R!ResultStep
<1>1. PICK b \in BOOLEAN : b = FALSE
  OBVIOUS
<1>2. ResultObject(R!Member(b), e) = R!Error(e) /\ ResultObject(R!Member(b), e) \in ResultMembers
  BY <1>1, ResultMembersAre DEF ResultObject, R!Error, R!Member
<1>3. resultMem' = R!Initialize(resultMem, r, b, e) /\ resultCall' = <<"value", r, ResultObject(R!Member(b), e)>>
  BY <1>1, <1>2 DEF R!AssignError
<1>4. QED
  BY <1>2, <1>3, ResultInitializeStep DEF R!AssignError

LEMMA ResultDestructStep ==
  ASSUME ResultInv, ResultSpoiling, NEW r \in Cells, R!Destruct(r)
  PROVE  ResultInv' /\ R!ResultStep
<1>1. /\ r \in resultScope /\ resultScope' = resultScope \ {r} /\ resultMem \in ResultMem
      /\ resultMem' = R!Clear(resultMem, r) /\ resultCall' = <<"end", r>>
  BY DEF R!Destruct, ResultInv
<1>2. /\ ResultChanges(resultMem, resultMem', r) /\ resultMem'.obj[r] = R!NoObject
      /\ ResultSays(resultMem, resultScope, r) => resultMem'.broken = resultMem.broken
  BY <1>1, ResultClearChanges DEF ResultSays
<1>3. ResultTouches(resultMem, resultMem', r, r)
  BY <1>2, ResultChangesTouches
<1>4. ResultInv'
  BY <1>1, <1>2, <1>3, ResultInvKept, ResultClean DEF ResultInv, ResultSays
<1>5. R!OthersSurvive
  <2>1. resultCall'[1] = "end"
    BY <1>1
  <2>2. QED
    BY <2>1 DEF R!OthersSurvive
<1>6. ASSUME resultSpoilt' = {} PROVE R!Abstract!Next
  <2>1. R!Held' = [R!Held EXCEPT ![r] = R!Special("out")]
    BY <1>1, <1>3, ResultHeldChanges, ResultSeen
  <2>2. R!Held[r] # R!Special("out")
    BY <1>1, <1>6, ResultClean, ResultShown
  <2>3. R!Abstract!End(r)
    BY <1>1, <2>1, <2>2 DEF R!Abstract!End, R!Abstract!InScope
  <2>4. QED
    BY <2>3 DEF R!Abstract!Next
<1>7. QED
  BY <1>4, <1>5, <1>6 DEF R!ResultStep

LEMMA ResultTakeStep ==
  ASSUME ResultInv, ResultSpoiling, NEW r \in Cells, R!TakeOut(r)
  PROVE  ResultInv' /\ R!ResultStep
<1> DEFINE c == R!Member(resultMem.active[r])
<1>1. /\ r \in resultScope /\ resultScope' = resultScope /\ resultMem \in ResultMem /\ R!Moved \in ResultContents
      /\ resultMem' = R!Assign(resultMem, r, c, R!Moved) /\ resultCall' = <<"take", r>>
  BY DEF R!TakeOut, R!MoveOut, ResultInv, ResultContents
<1>2. /\ ResultChanges(resultMem, resultMem', r) /\ resultMem'.active = resultMem.active
      /\ resultMem'.obj[r].type = resultMem.obj[r].type
      /\ ResultSays(resultMem, resultScope, r) => resultMem'.obj[r] = ResultObject(c, R!Moved) /\ resultMem'.broken = resultMem.broken
  BY <1>1, ResultMoveOutChanges DEF ResultSays
<1>3. ResultTouches(resultMem, resultMem', r, r) /\ (r \in resultSpoilt' \/ ResultSays(resultMem', resultScope', r))
  BY <1>1, <1>2, ResultChangesTouches DEF ResultSays, ResultInv, ResultSpoiling
<1>4. ResultInv'
  BY <1>1, <1>2, <1>3, ResultInvKept, ResultClean DEF ResultInv
<1>5. R!OthersSurvive
  <2>1. resultCall'[1] = "take"
    BY <1>1
  <2>2. QED
    BY <2>1 DEF R!OthersSurvive
<1>6. ASSUME resultSpoilt' = {} PROVE R!Abstract!Next
  <2>1. R!Held' = [R!Held EXCEPT ![r] = R!Special("moved")]
    BY <1>1, <1>2, <1>3, <1>6, ResultHeldChanges, ResultSeen, ResultClean
  <2>2. R!Held[r] # R!Special("out") /\ R!Held[r] # R!Special("empty")
    BY <1>1, <1>6, ResultClean, ResultShown
  <2>3. R!Abstract!TakeOut(r)
    BY <1>1, <2>1, <2>2 DEF R!Abstract!TakeOut, R!Abstract!InScope, R!Abstract!Empty
  <2>4. QED
    BY <2>3 DEF R!Abstract!Next
<1>7. QED
  BY <1>4, <1>5, <1>6 DEF R!ResultStep

\* The member that q's flag names is made in r.
ResultFollowsBy(m, r, q) ==
  /\ ResultChanges(resultMem, m, r)
  /\ (m.active[r] <=> resultMem.active[q]) /\ m.obj[r].type = R!Member(resultMem.active[q])
  /\ resultSpoilt' = {} => /\ r # q /\ m.broken = resultMem.broken
                           /\ m.obj[r] = ResultObject(R!Member(resultMem.active[q]), resultMem.obj[q].val)

LEMMA ResultFollowsSays ==
  ASSUME NEW m, NEW r \in Cells, NEW q, ResultFollowsBy(m, r, q), NEW s, r \in s
  PROVE  ResultSays(m, s, r)
<1>1. R!Member(m.active[r]) = R!Member(resultMem.active[q])
  BY DEF ResultFollowsBy, R!Member
<1>2. QED
  BY <1>1 DEF ResultFollowsBy, ResultSays

LEMMA ResultCopiedStep ==
  ASSUME ResultInv, ResultSpoiling, NEW r \in Cells, NEW q \in resultScope, ResultFollowsBy(resultMem', r, q),
         resultScope' = resultScope \cup {r}, resultCall' = <<"copy", r, q>>
  PROVE  ResultInv' /\ R!ResultStep
<1>1. ResultTouches(resultMem, resultMem', r, r) /\ ResultSays(resultMem', resultScope', r)
  BY ResultChangesTouches, ResultFollowsSays DEF ResultFollowsBy
<1>2. ResultInv'
  BY <1>1, ResultInvKept DEF ResultInv, ResultFollowsBy
<1>3. R!OthersSurvive
  <2>1. resultCall'[1] = "copy"
    OBVIOUS
  <2>2. QED
    BY <2>1 DEF R!OthersSurvive
<1>4. ASSUME resultSpoilt' = {} PROVE R!Abstract!Next
  <2>1. q \in Cells /\ ResultSays(resultMem, resultScope, q)
    BY <1>4, ResultClean DEF ResultInv
  <2>2. /\ R!Held[q] # R!Special("out")
        /\ R!Held[q] = IF resultMem.obj[q].val = R!Moved THEN R!Special("moved")
                     ELSE ResultObject(R!Member(resultMem.active[q]), resultMem.obj[q].val)
    BY <2>1, ResultShown
  <2>3. R!Held' = [R!Held EXCEPT ![r] = R!Held'[r]]
    BY <1>1, ResultHeldChanges
  <2>4. R!Held'[r] = R!Held[q]
    BY <1>4, <2>2, ResultSeen DEF ResultFollowsBy
  <2>5. R!Abstract!Copy(r, q)
    BY <2>2, <2>3, <2>4 DEF R!Abstract!Copy, R!Abstract!InScope
  <2>6. QED
    BY <2>1, <2>5 DEF R!Abstract!Next
<1>5. QED
  BY <1>2, <1>3, <1>4 DEF R!ResultStep

\* ... and then q is moved from.
LEMMA ResultMovedStep ==
  ASSUME ResultInv, ResultSpoiling, NEW r \in Cells, NEW q \in resultScope, r # q,
         NEW m, ResultFollowsBy(m, r, q), resultMem' = R!MoveOut(m, q, R!Member(resultMem.active[q])),
         resultScope' = resultScope \cup {r}, resultCall' = <<"move", r, q>>
  PROVE  ResultInv' /\ R!ResultStep
<1> DEFINE c == R!Member(resultMem.active[q])
<1>1. /\ q \in Cells /\ m \in ResultMem /\ ResultChanges(resultMem, m, r) /\ R!Moved \in ResultContents
      /\ m.obj[q] = resultMem.obj[q] /\ resultMem' = R!Assign(m, q, c, R!Moved)
  BY DEF ResultFollowsBy, ResultChanges, ResultInv, ResultContents, R!MoveOut
<1>2. /\ ResultChanges(m, resultMem', q) /\ resultMem'.active = m.active
      /\ resultMem'.obj[q].type = m.obj[q].type
      /\ m.obj[q].type = c => resultMem'.obj[q] = ResultObject(c, R!Moved) /\ resultMem'.broken = m.broken
  BY <1>1, ResultMoveOutChanges
<1> HIDE DEF c
<1>3. ResultTouches(resultMem, resultMem', r, q)
  BY <1>1, <1>2, ResultTouchesBoth
<1>4. ResultSays(resultMem', resultScope', r) /\ resultMem'.obj[r] = m.obj[r]
  <2>1. ResultSays(m, resultScope', r)
    BY ResultFollowsSays
  <2>2. resultMem'.obj[r] = m.obj[r] /\ resultMem'.active[r] = m.active[r]
    BY <1>2 DEF ResultChanges
  <2>3. QED
    BY <2>1, <2>2 DEF ResultSays
<1>5. ASSUME resultSpoilt' = {}
      PROVE  /\ ResultSays(resultMem, resultScope, q) /\ m.broken = resultMem.broken /\ resultMem'.broken = m.broken
             /\ resultMem'.obj[q] = ResultObject(c, R!Moved)
             /\ resultMem'.obj[r] = ResultObject(c, resultMem.obj[q].val)
  <2>1. ResultSays(resultMem, resultScope, q)
    BY <1>1, <1>5, ResultClean
  <2>2. m.obj[q].type = c
    BY <1>1, <2>1 DEF ResultSays, c
  <2>3. QED
    BY <1>2, <1>4, <1>5, <2>1, <2>2 DEF ResultFollowsBy, c
<1>6. ResultInv'
  BY <1>3, <1>4, <1>5, ResultInvKept DEF ResultInv
<1>7. R!OthersSurvive
  <2>1. resultCall'[1] = "move"
    OBVIOUS
  <2>2. QED
    BY <2>1 DEF R!OthersSurvive
<1>8. ASSUME resultSpoilt' = {} PROVE R!Abstract!Next
  <2>1. /\ R!Held[q] # R!Special("out") /\ R!Held[q] # R!Special("empty")
        /\ R!Held[q] = IF resultMem.obj[q].val = R!Moved THEN R!Special("moved")
                     ELSE ResultObject(c, resultMem.obj[q].val)
    BY <1>1, <1>5, <1>8, ResultShown DEF c
  <2>2. R!Held' = [R!Held EXCEPT ![r] = R!Held'[r], ![q] = R!Held'[q]]
    BY <1>1, <1>3, ResultHeldChanges
  <2>3. q \in resultScope' /\ r \in resultScope'
    OBVIOUS
  <2>4. R!Held'[r] = R!Held[q]
    BY <1>5, <1>8, <2>1, <2>3, ResultSeen
  <2>5. R!Held'[q] = R!Special("moved")
    BY <1>1, <1>5, <1>8, <2>3, ResultSeen
  <2>6. R!Abstract!Move(r, q)
    BY <2>1, <2>2, <2>4, <2>5 DEF R!Abstract!Move, R!Abstract!InScope, R!Abstract!Empty
  <2>7. QED
    BY <1>1, <2>6 DEF R!Abstract!Next
<1>9. QED
  BY <1>6, <1>7, <1>8 DEF R!ResultStep

LEMMA ResultDefaultFits == ASSUME R!ResultAssumption PROVE DefaultVal \in ResultContents
  BY DEF R!ResultAssumption, ResultContents

LEMMA ResultCopyConstructStep ==
  ASSUME R!ResultAssumption, ResultInv, ResultSpoiling, NEW r \in Cells, NEW q \in Cells,
         R!CopyConstruct(r, q)
  PROVE  ResultInv' /\ R!ResultStep
<1> DEFINE a == resultMem.active[q]
           v == R!Content(resultMem, q)
           n == R!Use(resultMem, q, R!Member(a))
           k == R!Build(R!Based(n, r, a), r, R!Member(a), v)
<1>1. /\ q \in resultScope /\ r \notin resultScope /\ resultScope' = resultScope \cup {r}
      /\ resultMem' = k /\ resultCall' = <<"copy", r, q>>
  BY DEF R!CopyConstruct, R!Begin
<1>2. resultMem \in ResultMem /\ a \in BOOLEAN /\ v \in ResultContents /\ DefaultVal \in ResultContents
  BY ResultDefaultFits, ResultObjectFacts DEF ResultInv, ResultMem, R!Content
<1>3. v = resultMem.obj[q].val
  BY DEF R!Content
<1>4. /\ n \in ResultMem /\ ResultChanges(resultMem, n, r) /\ n.obj = resultMem.obj
      /\ resultMem.obj[q].type = R!Member(a) => n = resultMem
  BY <1>2, ResultUseChanges DEF ResultChanges
<1> HIDE DEF n, a, v
<1>5. /\ ResultChanges(n, k, r) /\ (k.active[r] <=> a) /\ k.obj[r] = ResultObject(R!Member(a), v)
      /\ trivial /\ n.obj[r] = R!NoObject => k.broken = n.broken
  BY <1>2, <1>4, ResultBuiltOverBase
<1> HIDE DEF k
<1>6. ResultChanges(resultMem, k, r)
  BY <1>4, <1>5, ResultChangesTwice
<1>7. ASSUME resultSpoilt' = {}
      PROVE  k.broken = resultMem.broken
  <2>1. ~R!Spoils(r) /\ ResultSays(resultMem, resultScope, q) /\ ResultSays(resultMem, resultScope, r)
    BY <1>7, ResultClean
  <2>2. trivial
    BY <1>1, <2>1 DEF R!Spoils
  <2>3. resultMem.obj[q].type = R!Member(a) /\ resultMem.obj[r] = R!NoObject
    BY <1>1, <2>1 DEF ResultSays, a
  <2>4. QED
    BY <1>4, <1>5, <2>2, <2>3
<1>8. ResultFollowsBy(resultMem', r, q)
  BY <1>1, <1>3, <1>5, <1>6, <1>7, ResultObjectFacts DEF ResultFollowsBy, a
<1>9. QED
  BY <1>1, <1>8, ResultCopiedStep

LEMMA ResultMoveConstructStep ==
  ASSUME R!ResultAssumption, ResultInv, ResultSpoiling, NEW r \in Cells, NEW q \in Cells,
         R!MoveConstruct(r, q)
  PROVE  ResultInv' /\ R!ResultStep
<1> DEFINE a == resultMem.active[q]
           v == R!Content(resultMem, q)
           k == R!Build(R!Based(resultMem, r, a), r, R!Member(a), v)
<1>1. /\ q \in resultScope /\ r \notin resultScope /\ resultScope' = resultScope \cup {r}
      /\ resultMem' = R!MoveOut(k, q, R!Member(resultMem.active[q])) /\ resultCall' = <<"move", r, q>>
  BY DEF R!MoveConstruct, R!Begin
<1>2. resultMem \in ResultMem /\ a \in BOOLEAN /\ v \in ResultContents /\ DefaultVal \in ResultContents
  BY ResultDefaultFits, ResultObjectFacts DEF ResultInv, ResultMem, R!Content
<1>3. v = resultMem.obj[q].val
  BY DEF R!Content
<1> HIDE DEF a, v
<1>4. /\ ResultChanges(resultMem, k, r) /\ (k.active[r] <=> a) /\ k.obj[r] = ResultObject(R!Member(a), v)
      /\ trivial /\ resultMem.obj[r] = R!NoObject => k.broken = resultMem.broken
  BY <1>2, ResultBuiltOverBase
<1> HIDE DEF k
<1>5. ASSUME resultSpoilt' = {}
      PROVE  k.broken = resultMem.broken
  <2>1. ~R!Spoils(r) /\ ResultSays(resultMem, resultScope, r)
    BY <1>5, ResultClean
  <2>2. trivial
    BY <1>1, <2>1 DEF R!Spoils
  <2>3. resultMem.obj[r] = R!NoObject
    BY <1>1, <2>1 DEF ResultSays
  <2>4. QED
    BY <1>4, <2>2, <2>3
<1>6. ResultFollowsBy(k, r, q)
  BY <1>1, <1>3, <1>4, <1>5, ResultObjectFacts DEF ResultFollowsBy, a
<1>7. QED
  BY <1>1, <1>6, ResultMovedStep

\* The copy threw: the T that the base made is destroyed if the flag says so.
LEMMA ResultCopyConstructThrowsStep ==
  ASSUME R!ResultAssumption, ResultInv, ResultSpoiling, NEW r \in Cells, NEW q \in Cells,
         R!CopyConstructThrows(r, q)
  PROVE  ResultInv' /\ R!ResultStep
<1> DEFINE a == resultMem.active[q]
           n == R!Based(resultMem, r, a)
<1>1. /\ r \notin resultScope /\ resultScope' = resultScope /\ resultMem' = R!Clear(n, r)
      /\ resultCall' = <<IF a THEN "threw" ELSE "lost", r>>
  BY DEF R!CopyConstructThrows
<1>2. resultMem \in ResultMem /\ a \in BOOLEAN /\ DefaultVal \in ResultContents
  BY ResultDefaultFits DEF ResultInv, ResultMem
<1> HIDE DEF a
<1>3. /\ ResultChanges(resultMem, n, r) /\ (n.active[r] <=> a) /\ n.obj[r].type = "T"
      /\ resultMem.obj[r] = R!NoObject => n.broken = resultMem.broken
  BY <1>2, ResultBasedChanges, ResultObjectFacts
<1>4. n \in ResultMem
  BY <1>3 DEF ResultChanges
<1> HIDE DEF n
<1>5. /\ ResultChanges(resultMem, resultMem', r) /\ resultMem'.obj[r] = R!NoObject
      /\ n.obj[r].type = R!Member(n.active[r]) => resultMem'.broken = n.broken
  BY <1>1, <1>3, <1>4, ResultClearChanges, ResultChangesTwice
<1>6. CASE a
  <2>1. resultCall' = <<"threw", r>>
    BY <1>1, <1>6
  <2>2. R!Member(n.active[r]) = "T"
    BY <1>3, <1>6 DEF R!Member
  <2>3. ResultSays(resultMem, resultScope, r) => resultMem'.broken = resultMem.broken
    BY <1>1, <1>3, <1>5, <2>2 DEF ResultSays
  <2>4. ResultSays(resultMem', resultScope', r)
    BY <1>1, <1>5 DEF ResultSays
  <2>5. R!Held'[r] = R!Held[r]
    BY <1>1 DEF R!Held
  <2>6. QED
    BY <1>1, <1>5, <2>1, <2>3, <2>4, <2>5, ResultThrewStep
<1>7. CASE ~a
  <2>1. resultCall' = <<"lost", r>>
    BY <1>1, <1>7
  <2>2. QED
    BY <1>1, <1>5, <2>1, ResultLostStep
<1>8. QED
  BY <1>6, <1>7

LEMMA ResultCopiedFollows ==
  ASSUME ResultInv, ResultSpoiling, NEW r \in resultScope, NEW q \in resultScope,
         r = q => R!Spoils(r)
  PROVE  ResultFollowsBy(R!Copied(r, q), r, q)
<1>1. r \in Cells /\ q \in Cells /\ resultMem \in ResultMem
  BY DEF ResultInv
<1> DEFINE m == R!Copied(r, q)
<1>2. /\ ResultChanges(resultMem, m, r)
      /\ (m.active[r] <=> resultMem.active[q]) /\ m.obj[r].type = R!Member(resultMem.active[q])
      /\ r # q /\ resultMem.obj[r].type = R!Member(resultMem.active[r])
               /\ resultMem.obj[q].type = R!Member(resultMem.active[q]) =>
           /\ m.obj[r] = ResultObject(R!Member(resultMem.active[q]), resultMem.obj[q].val)
           /\ m.broken = resultMem.broken
  BY <1>1, ResultCopiedChanges
<1> HIDE DEF m
<1>3. ASSUME resultSpoilt' = {}
      PROVE  /\ r # q /\ resultMem.obj[r].type = R!Member(resultMem.active[r])
             /\ resultMem.obj[q].type = R!Member(resultMem.active[q])
  BY <1>1, <1>3, ResultClean DEF ResultSays
<1>4. ResultFollowsBy(m, r, q)
  BY <1>2, <1>3 DEF ResultFollowsBy
<1>5. QED
  BY <1>4 DEF m

LEMMA ResultAssignStep ==
  ASSUME ResultInv, ResultSpoiling, NEW r \in Cells, NEW q \in Cells,
         R!AssignCopy(r, q) \/ R!AssignMove(r, q)
  PROVE  ResultInv' /\ R!ResultStep
<1>1. r \in resultScope /\ q \in resultScope /\ resultScope' = resultScope /\ resultScope' = resultScope \cup {r}
  BY DEF R!AssignCopy, R!AssignMove
<1>2. CASE resultMem' = R!Clear(resultMem, r) /\ resultCall' = <<"lost", r>>
  BY <1>1, <1>2, ResultClearChanges, ResultLostStep DEF ResultInv
<1>3. CASE resultMem' = R!Copied(r, q) /\ resultCall' = <<"copy", r, q>>
  <2>1. r = q => R!Spoils(r)
    BY <1>3 DEF R!Spoils
  <2>2. ResultFollowsBy(resultMem', r, q)
    BY <1>1, <1>3, <2>1, ResultCopiedFollows
  <2>3. QED
    BY <1>1, <1>3, <2>2, ResultCopiedStep
<1>4. CASE r = q /\ resultMem' = R!Copied(r, q) /\ resultCall' = <<"move", r, q>>
  <2>1. R!Spoils(r)
    BY <1>4 DEF R!Spoils
  <2>2. ResultFollowsBy(resultMem', r, q)
    BY <1>1, <1>4, <2>1, ResultCopiedFollows
  <2>3. ResultTouches(resultMem, resultMem', r, r) /\ ResultSays(resultMem', resultScope', r) /\ resultSpoilt' # {}
    BY <1>1, <2>1, <2>2, ResultChangesTouches, ResultFollowsSays DEF ResultFollowsBy,
       ResultSpoiling
  <2>4. ResultInv'
    BY <1>1, <2>3, ResultInvKept DEF ResultInv
  <2>5. resultCall'[1] = "move"
    BY <1>4
  <2>6. QED
    BY <2>3, <2>4, <2>5 DEF R!ResultStep, R!OthersSurvive
<1>5. CASE /\ r # q /\ resultMem' = R!MoveOut(R!Copied(r, q), q, R!Member(resultMem.active[q]))
           /\ resultCall' = <<"move", r, q>>
  <2>1. ResultFollowsBy(R!Copied(r, q), r, q)
    BY <1>1, <1>5, ResultCopiedFollows
  <2>2. QED
    BY <1>1, <1>5, <2>1, ResultMovedStep
<1>6. QED
  BY <1>2, <1>3, <1>4, <1>5 DEF R!AssignCopy, R!AssignMove, R!OrLost

LEMMA ResultMakesStep ==
  ASSUME R!ResultAssumption, ResultInv, ResultSpoiling, NEW r \in Cells,
         \/ \E v \in Vals : R!Make(r, TRUE, v)
         \/ \E e \in Datas : R!Make(r, FALSE, e)
  PROVE  ResultInv' /\ R!ResultStep
<1>1. CASE \E v \in Vals : R!Make(r, TRUE, v)
  <2>1. PICK v \in Vals, b \in BOOLEAN : b = TRUE /\ R!Make(r, TRUE, v)
    BY <1>1
  <2>2. R!Make(r, b, v) /\ ResultObject(R!Member(b), v) \in ResultMembers
    BY <2>1, ResultMembersAre DEF R!Member
  <2>3. QED
    BY <2>2, ResultMakeStep
<1>2. CASE \E e \in Datas : R!Make(r, FALSE, e)
  <2>1. PICK e \in Datas, b \in BOOLEAN : b = FALSE /\ R!Make(r, FALSE, e)
    BY <1>2
  <2>2. R!Make(r, b, e) /\ ResultObject(R!Member(b), e) \in ResultMembers
    BY <2>1, ResultMembersAre DEF R!Member
  <2>3. QED
    BY <2>2, ResultMakeStep
<1>3. QED
  BY <1>1, <1>2

LEMMA ResultKeeps ==
  ASSUME R!ResultAssumption, ResultInv, R!Next
  PROVE  ResultInv' /\ R!ResultStep
<1>1. R!Step /\ ResultSpoiling
  BY DEF R!Next, ResultSpoiling
<1>2. QED
  BY <1>1, ResultMakesStep, ResultValueStep, ResultErrorStep, ResultDestructStep,
     ResultTakeStep, ResultAssignStep,
     ResultCopyConstructStep, ResultCopyConstructThrowsStep, ResultMoveConstructStep DEF R!Step

LEMMA ResultInit == ASSUME R!Init PROVE ResultInv
  BY ResultObjectFacts DEF R!Init, ResultInv, ResultMem, ResultSays

LEMMA ResultTells == ASSUME ResultInv PROVE R!ValueOrError
  BY ResultObjectFacts DEF ResultInv, ResultSays, R!ValueOrError

-----------------------------------------------------------------------------
(* Poly. *)

\* A memory in which an object, or a number, is another one.
PolySetObj(m, p, w) == [m EXCEPT !.obj[p] = w]
PolySetId(m, p, c) == [m EXCEPT !.id[p] = c]

-----------------------------------------------------------------------------
PolyObject(c, v) == [type |-> c, val |-> v]
PolyObjects == [type : Classes, val : Datas \cup {P!Moved}]
PolyMem == [obj : [Cells -> {P!NoObject} \cup PolyObjects],
            id : [Cells -> {P!emptyState} \cup Classes],
            broken : SUBSET {"overwritten", "dead"}]

LEMMA PolySetObjIs ==
  ASSUME NEW m \in PolyMem, NEW p \in Cells, NEW w \in {P!NoObject} \cup PolyObjects
  PROVE  /\ PolySetObj(m, p, w) \in PolyMem
         /\ PolySetObj(m, p, w).id = m.id /\ PolySetObj(m, p, w).broken = m.broken
         /\ PolySetObj(m, p, w).obj[p] = w
         /\ \A z \in Cells \ {p} : PolySetObj(m, p, w).obj[z] = m.obj[z]
  BY DEF PolySetObj, PolyMem

LEMMA PolySetIdIs ==
  ASSUME NEW m \in PolyMem, NEW p \in Cells, NEW c \in {P!emptyState} \cup Classes
  PROVE  /\ PolySetId(m, p, c) \in PolyMem
         /\ PolySetId(m, p, c).obj = m.obj /\ PolySetId(m, p, c).broken = m.broken
         /\ PolySetId(m, p, c).id[p] = c
         /\ \A z \in Cells \ {p} : PolySetId(m, p, c).id[z] = m.id[z]
  BY DEF PolySetId, PolyMem

LEMMA PolyBreakIs ==
  ASSUME NEW m \in PolyMem, NEW what \in {"overwritten", "dead"}
  PROVE  /\ P!Break(m, what) \in PolyMem
         /\ P!Break(m, what).obj = m.obj /\ P!Break(m, what).id = m.id
  BY DEF P!Break, PolyMem

LEMMA PolyObjectFacts ==
  ASSUME P!PolyAssumption
  PROVE  /\ P!NoObject \notin PolyObjects /\ P!NoObject.type \notin Classes
         /\ \A c \in Classes, v \in Datas \cup {P!Moved} :
              PolyObject(c, v) \in PolyObjects /\ PolyObject(c, v).type = c /\ PolyObject(c, v).val = v
         /\ \A o \in PolyObjects : o = PolyObject(o.type, o.val) /\ o.type \in Classes
                                   /\ o.val \in Datas \cup {P!Moved}
<1>1. P!NoObject.type = "none"
  BY DEF P!NoObject
<1>2. P!NoObject.type \notin Classes
  BY <1>1 DEF P!PolyAssumption
<1>3. QED
  BY <1>2 DEF PolyObjects, PolyObject

\* The memory n differs from m at p only, and in what is broken.
PolyChanges(m, n, p) ==
  /\ n \in PolyMem
  /\ \A z \in Cells \ {p} : n.obj[z] = m.obj[z] /\ n.id[z] = m.id[z]

LEMMA PolyChangesTwice ==
  ASSUME NEW m, NEW n, NEW k, NEW p, PolyChanges(m, n, p), PolyChanges(n, k, p)
  PROVE  PolyChanges(m, k, p)
  BY DEF PolyChanges

LEMMA PolySetChanges ==
  ASSUME NEW m \in PolyMem, NEW p \in Cells
  PROVE  /\ \A w \in {P!NoObject} \cup PolyObjects : PolyChanges(m, PolySetObj(m, p, w), p)
         /\ \A c \in {P!emptyState} \cup Classes : PolyChanges(m, PolySetId(m, p, c), p)
         /\ PolyChanges(m, P!Break(m, "overwritten"), p) /\ PolyChanges(m, P!Break(m, "dead"), p)
         /\ PolyChanges(m, m, p)
  BY PolySetObjIs, PolySetIdIs, PolyBreakIs DEF PolyChanges

LEMMA PolyConstructChanges ==
  ASSUME P!PolyAssumption, NEW m \in PolyMem, NEW p \in Cells, NEW c \in Classes,
         NEW v \in Datas \cup {P!Moved}
  PROVE  /\ PolyChanges(m, P!Construct(m, p, c, v), p)
         /\ P!Construct(m, p, c, v).id = m.id
         /\ m.obj[p] = P!NoObject => /\ P!Construct(m, p, c, v).obj[p] = PolyObject(c, v)
                                     /\ P!Construct(m, p, c, v).broken = m.broken
<1> DEFINE n == PolySetObj(m, p, PolyObject(c, v))
<1>1. P!Construct(m, p, c, v) = IF m.obj[p] # P!NoObject THEN P!Break(n, "overwritten") ELSE n
  BY DEF P!Construct, P!Alive, PolySetObj, PolyObject
<1>2. /\ n \in PolyMem /\ PolyChanges(m, n, p) /\ n.id = m.id
      /\ n.obj[p] = PolyObject(c, v) /\ n.broken = m.broken
  BY PolyObjectFacts, PolySetObjIs, PolySetChanges
<1> HIDE DEF n
<1>3. PolyChanges(m, P!Break(n, "overwritten"), p) /\ P!Break(n, "overwritten").id = m.id
  BY <1>2, PolySetChanges, PolyChangesTwice, PolyBreakIs
<1>4. QED
  BY <1>1, <1>2, <1>3

LEMMA PolyDestroyChanges ==
  ASSUME NEW m \in PolyMem, NEW p \in Cells, NEW c
  PROVE  /\ PolyChanges(m, P!Destroy(m, p, c), p)
         /\ P!Destroy(m, p, c).obj[p] = P!NoObject /\ P!Destroy(m, p, c).id = m.id
         /\ m.obj[p].type = c => P!Destroy(m, p, c).broken = m.broken
<1> DEFINE n == PolySetObj(m, p, P!NoObject)
<1>1. P!Destroy(m, p, c) = IF m.obj[p].type = c THEN n ELSE P!Break(n, "dead")
  BY DEF P!Destroy, PolySetObj
<1>2. /\ n \in PolyMem /\ PolyChanges(m, n, p) /\ n.id = m.id
      /\ n.obj[p] = P!NoObject /\ n.broken = m.broken
  BY PolySetObjIs, PolySetChanges
<1> HIDE DEF n
<1>3. /\ PolyChanges(m, P!Break(n, "dead"), p) /\ P!Break(n, "dead").id = m.id
      /\ P!Break(n, "dead").obj[p] = P!NoObject
  BY <1>2, PolySetChanges, PolyChangesTwice, PolyBreakIs
<1>4. QED
  BY <1>1, <1>2, <1>3

\* What the number says of p is what is in its storage.
PolySays(m, p) ==
  \/ m.id[p] = P!emptyState /\ m.obj[p] = P!NoObject
  \/ m.id[p] \in Classes /\ m.obj[p] \in PolyObjects /\ m.obj[p].type = m.id[p]

LEMMA PolyClearChanges ==
  ASSUME P!PolyAssumption, NEW m \in PolyMem, NEW p \in Cells
  PROVE  /\ PolyChanges(m, P!Clear(m, p), p) /\ P!Clear(m, p).id[p] = P!emptyState
         /\ PolySays(m, p) /\ (cxx17 \/ m.id[p] \notin Classes \ {Base}) =>
              P!Clear(m, p).obj[p] = P!NoObject /\ P!Clear(m, p).broken = m.broken
<1> DEFINE n == P!Clear_(m, p)
<1>1. n = m \/ n = P!Destroy(m, p, m.id[p])
  BY DEF P!Clear_, P!DestroyById
<1>2. n \in PolyMem /\ PolyChanges(m, n, p)
  BY <1>1, PolyDestroyChanges, PolySetChanges DEF PolyChanges
<1>3. ASSUME PolySays(m, p), cxx17 \/ m.id[p] \notin Classes \ {Base}
      PROVE  n.obj[p] = P!NoObject /\ n.broken = m.broken
  <2>1. CASE m.id[p] = P!emptyState
    <3>1. n = m
      BY <2>1 DEF P!Clear_, P!HoldsAny
    <3>2. P!emptyState \notin Classes
      BY DEF P!PolyAssumption
    <3>3. QED
      BY <1>3, <2>1, <3>1, <3>2 DEF PolySays
  <2>2. CASE m.id[p] # P!emptyState
    <3>1. m.obj[p].type = m.id[p] /\ m.id[p] \in Classes
      BY <1>3, <2>2 DEF PolySays
    <3>2. n = P!Destroy(m, p, m.id[p])
      BY <1>3, <2>2, <3>1 DEF P!Clear_, P!DestroyById, P!HoldsAny, P!HoldsType
    <3>3. QED
      BY <3>1, <3>2, PolyDestroyChanges
  <2>3. QED
    BY <2>1, <2>2
<1>4. P!Clear(m, p) = PolySetId(n, p, P!emptyState)
  BY DEF P!Clear, PolySetId
<1> HIDE DEF n
<1>5. PolyChanges(m, PolySetId(n, p, P!emptyState), p)
  BY <1>2, PolySetChanges, PolyChangesTwice
<1>6. QED
  BY <1>2, <1>3, <1>4, <1>5, PolySetIdIs

LEMMA PolyPutChanges ==
  ASSUME P!PolyAssumption, NEW m \in PolyMem, NEW p \in Cells, NEW c \in Classes,
         NEW v \in Datas \cup {P!Moved}
  PROVE  /\ PolyChanges(m, P!Put(m, p, c, v), p) /\ P!Put(m, p, c, v).id[p] = c
         /\ m.obj[p] = P!NoObject => /\ P!Put(m, p, c, v).obj[p] = PolyObject(c, v)
                                     /\ P!Put(m, p, c, v).broken = m.broken
<1> DEFINE n == PolySetId(m, p, c)
<1>1. P!Put(m, p, c, v) = P!Construct(n, p, c, v)
  BY DEF P!Put, PolySetId
<1>2. /\ n \in PolyMem /\ PolyChanges(m, n, p) /\ n.id[p] = c
      /\ n.obj = m.obj /\ n.broken = m.broken
  BY PolySetIdIs, PolySetChanges
<1> HIDE DEF n
<1>3. QED
  BY <1>1, <1>2, PolyConstructChanges, PolyChangesTwice

LEMMA PolyMoveOutChanges ==
  ASSUME P!PolyAssumption, NEW m \in PolyMem, NEW p \in Cells, NEW c \in Classes
  PROVE  /\ PolyChanges(m, P!MoveOut(m, p, c), p) /\ P!MoveOut(m, p, c).id = m.id
         /\ m.obj[p] \in PolyObjects /\ m.obj[p].type = c =>
              /\ P!MoveOut(m, p, c).obj[p] = PolyObject(c, P!Moved)
              /\ P!MoveOut(m, p, c).broken = m.broken
<1>1. CASE m.obj[p].type = c
  <2>1. m.obj[p] \in PolyObjects
    BY <1>1, PolyObjectFacts DEF PolyMem
  <2>2. m.obj[p] = PolyObject(c, m.obj[p].val)
    BY <1>1, <2>1, PolyObjectFacts
  <2>3. [m.obj[p] EXCEPT !.val = P!Moved] = PolyObject(c, P!Moved)
    BY <2>2 DEF PolyObject
  <2>4. P!MoveOut(m, p, c) = PolySetObj(m, p, PolyObject(c, P!Moved))
    BY <1>1, <2>3 DEF P!MoveOut, P!Assign, PolySetObj
  <2>5. PolyObject(c, P!Moved) \in PolyObjects
    BY PolyObjectFacts
  <2>6. QED
    BY <2>4, <2>5, PolySetObjIs, PolySetChanges
<1>2. CASE m.obj[p].type # c
  <2>1. P!MoveOut(m, p, c) = P!Break(m, "dead")
    BY <1>2 DEF P!MoveOut, P!Assign
  <2>2. QED
    BY <1>2, <2>1, PolySetChanges, PolyBreakIs
<1>3. QED
  BY <1>1, <1>2

-----------------------------------------------------------------------------
PolyInv ==
  /\ polyMem \in PolyMem /\ polyScope \subseteq Cells /\ polySpoilt \subseteq Cells
  /\ polyMem.broken = {} \/ polySpoilt # {}
  /\ \A p \in Cells \ polySpoilt : IF p \in polyScope THEN PolySays(polyMem, p)
                                              ELSE polyMem.obj[p] = P!NoObject

\* A step with p that leaves the others alone, and p as its number says.
LEMMA PolyInvKept ==
  ASSUME PolyInv, NEW p \in Cells, PolyChanges(polyMem, polyMem', p),
         polyScope' \ {p} = polyScope \ {p}, polyScope' \subseteq Cells,
         polySpoilt' = polySpoilt \cup {q \in Cells : P!Spoils(q)},
         p \in polySpoilt \/ P!Spoils(p) \/
           /\ polyMem'.broken = polyMem.broken
           /\ IF p \in polyScope' THEN PolySays(polyMem', p) ELSE polyMem'.obj[p] = P!NoObject
  PROVE  PolyInv'
<1>1. polyMem' \in PolyMem /\ polySpoilt' \subseteq Cells /\ polySpoilt \subseteq polySpoilt'
  BY DEF PolyChanges, PolyInv
<1>2. polyMem'.broken = {} \/ polySpoilt' # {}
  BY <1>1 DEF PolyInv
<1>3. ASSUME NEW z \in Cells \ polySpoilt'
      PROVE  IF z \in polyScope' THEN PolySays(polyMem', z) ELSE polyMem'.obj[z] = P!NoObject
  <2>1. CASE z = p
    BY <1>3, <2>1
  <2>2. CASE z # p
    BY <1>1, <1>3, <2>2 DEF PolyChanges, PolyInv, PolySays
  <2>3. QED
    BY <2>1, <2>2
<1>4. QED
  BY <1>1, <1>2, <1>3 DEF PolyInv

\* What the user of a poly sees.
PolyHeldOf(m, s) == [p \in Cells |-> IF p \notin s THEN P!Special("out")
                                 ELSE IF m.id[p] = P!emptyState THEN P!Special("empty")
                                 ELSE IF m.obj[p].val = P!Moved THEN P!Special("moved")
                                 ELSE m.obj[p]]

LEMMA PolyHeldIs == P!Held = PolyHeldOf(polyMem, polyScope) /\ P!Held' = PolyHeldOf(polyMem', polyScope')
  BY DEF P!Held, PolyHeldOf, P!HoldsAny

LEMMA PolyHeldChanges ==
  ASSUME NEW p \in Cells, PolyChanges(polyMem, polyMem', p), polyScope' \ {p} = polyScope \ {p}
  PROVE  P!Held' = [P!Held EXCEPT ![p] = P!Held'[p]]
<1> DEFINE f == PolyHeldOf(polyMem, polyScope)
           h == PolyHeldOf(polyMem', polyScope')
<1>1. \A z \in Cells \ {p} : h[z] = f[z]
  BY DEF PolyChanges, PolyHeldOf
<1>2. f = [z \in Cells |-> f[z]] /\ h = [z \in Cells |-> h[z]]
  BY DEF PolyHeldOf
<1> HIDE DEF f, h
<1>3. h = [f EXCEPT ![p] = h[p]]
  BY <1>1, <1>2
<1>4. QED
  BY <1>3, PolyHeldIs DEF f, h

LEMMA PolySeen ==
  ASSUME P!PolyAssumption, NEW p \in Cells
  PROVE  /\ p \notin polyScope' => P!Held'[p] = P!Special("out")
         /\ p \in polyScope' /\ polyMem'.id[p] = P!emptyState => P!Held'[p] = P!Special("empty")
         /\ \A c \in Classes, v \in Datas :
              p \in polyScope' /\ polyMem'.id[p] = c /\ polyMem'.obj[p] = PolyObject(c, v) =>
                P!Held'[p] = PolyObject(c, v)
         /\ \A c \in Classes :
              p \in polyScope' /\ polyMem'.id[p] = c /\ polyMem'.obj[p] = PolyObject(c, P!Moved) =>
                P!Held'[p] = P!Special("moved")
<1>1. \A c \in Classes : c # P!emptyState
  BY DEF P!PolyAssumption
<1>2. \A v \in Datas : v # P!Moved
  BY DEF P!PolyAssumption
<1>3. P!Held' = PolyHeldOf(polyMem', polyScope')
  BY PolyHeldIs
<1>4. \A c, v : PolyObject(c, v).val = v
  BY DEF PolyObject
<1>5. QED
  BY <1>1, <1>2, <1>3, <1>4 DEF PolyHeldOf

LEMMA PolyShown ==
  ASSUME P!PolyAssumption, NEW p \in polyScope, p \in Cells, PolyInv, p \notin polySpoilt
  PROVE  /\ P!Held[p] # P!Special("out")
         /\ P!HoldsAny(polyMem, p) => P!Held[p] # P!Special("empty")
<1>1. PolySays(polyMem, p)
  BY DEF PolyInv
<1>2. CASE polyMem.id[p] = P!emptyState
  <2>1. P!Held[p] = P!Special("empty")
    BY <1>2, PolyHeldIs DEF PolyHeldOf
  <2>2. QED
    BY <1>2, <2>1 DEF P!Special, P!HoldsAny
<1>3. CASE polyMem.id[p] # P!emptyState
  <2>1. polyMem.obj[p] \in PolyObjects /\ polyMem.obj[p].type \in Classes
    BY <1>1, <1>3, PolyObjectFacts DEF PolySays
  <2>2. P!Held[p] = P!Special("moved") \/ P!Held[p] = polyMem.obj[p]
    BY <1>3, PolyHeldIs DEF PolyHeldOf
  <2>3. "out" \notin Classes /\ "empty" \notin Classes
    BY DEF P!PolyAssumption
  <2>4. QED
    BY <2>1, <2>2, <2>3 DEF P!Special
<1>4. QED
  BY <1>2, <1>3

-----------------------------------------------------------------------------
\* The operations: each keeps the invariant, and unless it is one of the
\* faults it is one of an optional.
PolySpoiling == polySpoilt' = polySpoilt \cup {p \in Cells : P!Spoils(p)}

\* A step from which nobody is spoilt.
PolyGood(p) == p \notin polySpoilt /\ ~P!Spoils(p)

LEMMA PolyUnspoilt ==
  ASSUME PolyInv, PolySpoiling, NEW p \in Cells, polySpoilt' = {}
  PROVE  PolyGood(p)
  BY DEF PolySpoiling, PolyGood

\* Default, clear, and what ends with an object or with none.
LEMMA PolyNothingStep ==
  ASSUME P!PolyAssumption, PolyInv, PolySpoiling, NEW p \in Cells, P!Default(p) \/ P!ClearAll(p)
  PROVE  PolyInv' /\ P!PolyStep
<1>1. /\ polyCall' = <<"nothing", p>>
      /\ polyScope' = polyScope \cup {p} /\ polyScope \subseteq Cells /\ polyMem \in PolyMem
  BY DEF P!Default, P!ClearAll, P!Begin, PolyInv
<1>2. polyCall'[1] = "nothing" /\ polyCall'[2] = p
  BY <1>1
<1>3. /\ PolyChanges(polyMem, polyMem', p)
      /\ PolyGood(p) => /\ polyMem'.broken = polyMem.broken
                        /\ polyMem'.id[p] = P!emptyState /\ polyMem'.obj[p] = P!NoObject
  <2>1. CASE P!Default(p)
    <3>1. polyMem' = PolySetId(polyMem, p, P!emptyState) /\ p \notin polyScope
      BY <2>1 DEF P!Default, P!Begin, PolySetId
    <3>2. PolyGood(p) => polyMem.obj[p] = P!NoObject
      BY <3>1 DEF PolyGood, PolyInv
    <3>3. QED
      BY <1>1, <3>1, <3>2, PolySetChanges, PolySetIdIs
  <2>2. CASE P!ClearAll(p)
    <3>1. polyMem' = P!Clear(polyMem, p) /\ p \in polyScope
      BY <2>2 DEF P!ClearAll
    <3>2. PolyGood(p) => PolySays(polyMem, p) /\ (cxx17 \/ polyMem.id[p] \notin Classes \ {Base})
      BY <1>2, <3>1 DEF PolyGood, P!Spoils, PolyInv
    <3>3. QED
      BY <1>1, <3>1, <3>2, PolyClearChanges
  <2>3. QED
    BY <2>1, <2>2
<1>4. PolyInv'
  BY <1>1, <1>3, PolyInvKept DEF PolyGood, PolySays, PolySpoiling
<1>5. ASSUME polySpoilt' = {} PROVE P!Abstract!Next
  <2>1. PolyGood(p)
    BY <1>5, PolyUnspoilt
  <2>2. P!Held' = [P!Held EXCEPT ![p] = P!Special("empty")]
    BY <1>1, <1>3, <2>1, PolyHeldChanges, PolySeen
  <2>3. P!Abstract!Reset(p)
    BY <1>1, <2>2 DEF P!Abstract!Reset
  <2>4. QED
    BY <2>3 DEF P!Abstract!Next
<1>6. QED
  BY <1>4, <1>5 DEF P!PolyStep

LEMMA PolyDestructStep ==
  ASSUME P!PolyAssumption, PolyInv, PolySpoiling, NEW p \in Cells, P!Destruct(p)
  PROVE  PolyInv' /\ P!PolyStep
<1>1. /\ polyCall' = <<"end", p>> /\ p \in polyScope
      /\ polyScope' = polyScope \ {p} /\ polyScope \subseteq Cells /\ polyMem \in PolyMem
      /\ polyMem' = P!Clear(polyMem, p)
  BY DEF P!Destruct, PolyInv
<1>2. polyCall'[1] = "end" /\ polyCall'[2] = p
  BY <1>1
<1>3. PolyGood(p) => PolySays(polyMem, p) /\ (cxx17 \/ polyMem.id[p] \notin Classes \ {Base})
  BY <1>1, <1>2 DEF PolyGood, P!Spoils, PolyInv
<1>4. /\ PolyChanges(polyMem, polyMem', p)
      /\ PolyGood(p) => polyMem'.broken = polyMem.broken /\ polyMem'.obj[p] = P!NoObject
  BY <1>1, <1>3, PolyClearChanges
<1>5. PolyInv'
  BY <1>1, <1>4, PolyInvKept DEF PolyGood, PolySpoiling
<1>6. ASSUME polySpoilt' = {} PROVE P!Abstract!Next
  <2>1. PolyGood(p)
    BY <1>6, PolyUnspoilt
  <2>2. P!Held' = [P!Held EXCEPT ![p] = P!Special("out")]
    BY <1>1, <1>4, PolyHeldChanges, PolySeen
  <2>3. P!Held[p] # P!Special("out")
    BY <1>1, <2>1, PolyShown DEF PolyGood
  <2>4. P!Abstract!End(p)
    BY <1>1, <2>2, <2>3 DEF P!Abstract!End, P!Abstract!InScope
  <2>5. QED
    BY <2>4 DEF P!Abstract!Next
<1>7. QED
  BY <1>5, <1>6 DEF P!PolyStep

LEMMA PolyValueStep ==
  ASSUME P!PolyAssumption, PolyInv, PolySpoiling, NEW p \in Cells, NEW c \in Classes, NEW v \in Datas,
         P!Make(p, c, v) \/ P!Assign_(p, c, v)
  PROVE  PolyInv' /\ P!PolyStep
<1>1. /\ polyCall' = <<"value", p, PolyObject(c, v)>>
      /\ polyScope' = polyScope \cup {p} /\ polyScope \subseteq Cells /\ polyMem \in PolyMem
  BY DEF P!Make, P!Assign_, P!Begin, PolyInv, PolyObject
<1>2. polyCall'[1] = "value" /\ polyCall'[2] = p
  BY <1>1
<1>3. /\ PolyChanges(polyMem, polyMem', p)
      /\ PolyGood(p) => /\ polyMem'.broken = polyMem.broken
                        /\ polyMem'.id[p] = c /\ polyMem'.obj[p] = PolyObject(c, v)
  <2>1. CASE P!Make(p, c, v)
    <3>1. polyMem' = P!Put(polyMem, p, c, v) /\ p \notin polyScope
      BY <2>1 DEF P!Make, P!Begin
    <3>2. PolyGood(p) => polyMem.obj[p] = P!NoObject
      BY <3>1 DEF PolyGood, PolyInv
    <3>3. QED
      BY <1>1, <3>1, <3>2, PolyPutChanges
  <2>2. CASE P!Assign_(p, c, v)
    <3> DEFINE n == P!Clear(polyMem, p)
    <3>1. polyMem' = P!Put(n, p, c, v) /\ p \in polyScope
      BY <2>2 DEF P!Assign_
    <3>2. PolyGood(p) => PolySays(polyMem, p) /\ (cxx17 \/ polyMem.id[p] \notin Classes \ {Base})
      BY <1>2, <3>1 DEF PolyGood, P!Spoils, PolyInv
    <3>3. /\ PolyChanges(polyMem, n, p) /\ n \in PolyMem
          /\ PolyGood(p) => n.obj[p] = P!NoObject /\ n.broken = polyMem.broken
      BY <1>1, <3>2, PolyClearChanges DEF PolyChanges
    <3> HIDE DEF n
    <3>4. /\ PolyChanges(n, polyMem', p) /\ polyMem'.id[p] = c
          /\ PolyGood(p) => polyMem'.obj[p] = PolyObject(c, v) /\ polyMem'.broken = n.broken
      BY <3>1, <3>3, PolyPutChanges
    <3>5. QED
      BY <3>3, <3>4, PolyChangesTwice
  <2>3. QED
    BY <2>1, <2>2
<1>4. PolyObject(c, v) \in PolyObjects /\ PolyObject(c, v).type = c
  BY PolyObjectFacts
<1>5. PolyInv'
  BY <1>1, <1>3, <1>4, PolyInvKept DEF PolyGood, PolySays, PolySpoiling
<1>6. ASSUME polySpoilt' = {} PROVE P!Abstract!Next
  <2>1. PolyGood(p)
    BY <1>6, PolyUnspoilt
  <2>2. P!Held' = [P!Held EXCEPT ![p] = PolyObject(c, v)]
    BY <1>1, <1>3, <2>1, PolyHeldChanges, PolySeen
  <2>3. P!Abstract!Value(p, PolyObject(c, v))
    BY <1>1, <2>2 DEF P!Abstract!Value
  <2>4. PolyObject(c, v) \in [type : Classes, val : Datas]
    BY DEF PolyObject
  <2>5. QED
    BY <2>3, <2>4 DEF P!Abstract!Next
<1>7. QED
  BY <1>5, <1>6 DEF P!PolyStep

\* The constructor threw: p is spoilt.
LEMMA PolyLostStep ==
  ASSUME P!PolyAssumption, PolyInv, PolySpoiling, NEW p \in Cells, NEW c \in Classes,
         P!AssignThrows(p, c)
  PROVE  PolyInv' /\ P!PolyStep
<1> DEFINE n == P!Clear(polyMem, p)
<1>1. /\ P!Spoils(p) /\ polyScope' = polyScope /\ polyScope \subseteq Cells /\ polyMem \in PolyMem
      /\ polyMem' = PolySetId(n, p, c)
  BY DEF P!AssignThrows, P!Spoils, PolyInv, PolySetId
<1>2. PolyChanges(polyMem, n, p) /\ n \in PolyMem
  BY <1>1, PolyClearChanges DEF PolyChanges
<1> HIDE DEF n
<1>3. PolyChanges(polyMem, polyMem', p)
  BY <1>1, <1>2, PolySetChanges, PolyChangesTwice
<1>4. PolyInv'
  BY <1>1, <1>3, PolyInvKept DEF PolySpoiling
<1>5. polySpoilt' # {}
  BY <1>1 DEF PolySpoiling
<1>6. QED
  BY <1>4, <1>5 DEF P!PolyStep

LEMMA PolyTakeStep ==
  ASSUME P!PolyAssumption, PolyInv, PolySpoiling, NEW p \in Cells, NEW c \in Classes, P!TakeOut(p, c)
  PROVE  PolyInv' /\ P!PolyStep
<1>1. /\ polyCall' = <<"take", p>> /\ p \in polyScope /\ polyMem.id[p] = c
      /\ polyScope' = polyScope /\ polyScope \subseteq Cells /\ polyMem \in PolyMem
      /\ polyMem' = P!MoveOut(polyMem, p, c)
  BY DEF P!TakeOut, P!HoldsType, PolyInv
<1>2. c # P!emptyState
  BY DEF P!PolyAssumption
<1>3. PolyGood(p) => polyMem.obj[p] \in PolyObjects /\ polyMem.obj[p].type = c
  BY <1>1, <1>2 DEF PolyGood, PolyInv, PolySays
<1>4. /\ PolyChanges(polyMem, polyMem', p) /\ polyMem'.id[p] = c
      /\ PolyGood(p) => polyMem'.broken = polyMem.broken /\ polyMem'.obj[p] = PolyObject(c, P!Moved)
  BY <1>1, <1>3, PolyMoveOutChanges
<1>5. PolyObject(c, P!Moved) \in PolyObjects /\ PolyObject(c, P!Moved).type = c
  BY PolyObjectFacts
<1>6. PolyInv'
  BY <1>1, <1>4, <1>5, PolyInvKept DEF PolyGood, PolySays, PolySpoiling
<1>7. ASSUME polySpoilt' = {} PROVE P!Abstract!Next
  <2>1. PolyGood(p)
    BY <1>7, PolyUnspoilt
  <2>2. P!Held' = [P!Held EXCEPT ![p] = P!Special("moved")]
    BY <1>1, <1>4, <2>1, PolyHeldChanges, PolySeen
  <2>3. P!Held[p] # P!Special("out") /\ P!Held[p] # P!Special("empty")
    BY <1>1, <1>2, <2>1, PolyShown DEF PolyGood, P!HoldsAny
  <2>4. P!Abstract!TakeOut(p)
    BY <1>1, <2>2, <2>3 DEF P!Abstract!TakeOut, P!Abstract!InScope, P!Abstract!Empty
  <2>5. QED
    BY <2>4 DEF P!Abstract!Next
<1>8. QED
  BY <1>6, <1>7 DEF P!PolyStep

LEMMA PolyKeeps ==
  ASSUME P!PolyAssumption, PolyInv, P!Next
  PROVE  PolyInv' /\ P!PolyStep
<1>1. P!Step /\ PolySpoiling
  BY DEF P!Next, PolySpoiling
<1>2. QED
  BY <1>1, PolyNothingStep, PolyDestructStep, PolyValueStep, PolyLostStep, PolyTakeStep
     DEF P!Step

LEMMA PolyInit == ASSUME P!Init PROVE PolyInv
  BY DEF P!Init, PolyInv, PolyMem

LEMMA PolyTells == ASSUME P!PolyAssumption, PolyInv PROVE P!TypeChecked
<1>1. ASSUME NEW p \in Cells \ polySpoilt
      PROVE  /\ P!Alive(polyMem, p) <=> p \in polyScope /\ P!HoldsAny(polyMem, p)
             /\ \A c \in Classes :
                  p \in polyScope => (P!HoldsType(polyMem, p, c) <=> polyMem.obj[p].type = c)
  <2>1. CASE p \notin polyScope
    BY <1>1, <2>1 DEF PolyInv, P!Alive
  <2>2. CASE p \in polyScope /\ polyMem.id[p] = P!emptyState
    <3>1. polyMem.obj[p] = P!NoObject /\ P!emptyState \notin Classes
      BY <1>1, <2>2 DEF PolyInv, PolySays, P!PolyAssumption
    <3>2. QED
      BY <2>2, <3>1, PolyObjectFacts DEF P!Alive, P!HoldsAny, P!HoldsType
  <2>3. CASE p \in polyScope /\ polyMem.id[p] # P!emptyState
    <3>1. polyMem.obj[p] \in PolyObjects /\ polyMem.obj[p].type = polyMem.id[p]
      BY <1>1, <2>3 DEF PolyInv, PolySays
    <3>2. QED
      BY <2>3, <3>1, PolyObjectFacts DEF P!Alive, P!HoldsAny, P!HoldsType
  <2>4. QED
    BY <2>1, <2>2, <2>3
<1>2. QED
  BY <1>1 DEF P!TypeChecked, PolyInv

-----------------------------------------------------------------------------
(* Box. *)

BoxSteps == {<<"destruct", o>> : o \in Cells} \cup {<<"free", o>> : o \in Cells}
           \cup {<<"reset", b>> : b \in B!Boxes} \cup {<<"take", a, b>> : a \in B!Boxes, b \in B!Boxes}

LEMMA BoxShortSeq ==
  ASSUME NEW s \in Seq(BoxSteps)
  PROVE  /\ Len(s) = 0 => s = <<>>
         /\ Len(s) = 1 => s = <<s[1]>>
<1>1. CASE Len(s) = 1
  <2>1. DOMAIN s = 1..1 /\ DOMAIN <<s[1]>> = 1..1 /\ \A i \in 1..1 : s[i] = <<s[1]>>[i]
    BY <1>1
  <2>2. s = [i \in 1..1 |-> s[i]] /\ <<s[1]>> = [i \in 1..1 |-> <<s[1]>>[i]]
    BY <2>1
  <2>3. QED
    BY <2>1, <2>2
<1>2. QED
  BY <1>1

LEMMA BoxSecondIs ==
  ASSUME NEW Elements, NEW s \in Seq(Elements), Len(s) = 2 PROVE Tail(s)[1] = s[2]
<1>1. s # <<>> /\ Len(s) \in Nat
  OBVIOUS
<1>2. 1 \in 1 .. (Len(s) - 1) /\ 1 + 1 = 2
  BY <1>1
<1>3. \A j \in 1 .. (Len(s) - 1) : Tail(s)[j] = s[j + 1]
  BY <1>1, HeadTailProperties
<1>4. Tail(s)[1] = s[1 + 1]
  BY <1>2, <1>3
<1>5. QED
  BY <1>2, <1>4

LEMMA BoxShortTail ==
  ASSUME NEW s \in Seq(BoxSteps), s # <<>>
  PROVE  /\ Len(s) = 1 => Tail(s) = <<>>
         /\ Len(s) = 2 => Tail(s) = <<s[2]>>
<1> DEFINE t == Tail(s)
<1>1. t \in Seq(BoxSteps) /\ Len(t) = Len(s) - 1
  OBVIOUS
<1>2. Len(s) = 2 => t[1] = s[2]
  BY BoxSecondIs
<1> HIDE DEF t
<1>3. (Len(s) = 1 => Len(t) = 0) /\ (Len(s) = 2 => Len(t) = 1)
  BY <1>1
<1>4. QED
  BY <1>1, <1>2, <1>3, BoxShortSeq DEF t

BoxHas(s, x) == \E i \in 1..Len(s) : s[i] = x

\* Frees of different objects, and at the end what reset and operator= do.
BoxCalm(s) ==
  /\ \A i \in 1..Len(s) :
       \/ \E o \in Cells : s[i] = <<"free", o>>
       \/ \E b \in B!Boxes : /\ s[i] = <<"reset", b>>
                             /\ \/ i = Len(s)
                                \/ i + 1 = Len(s) /\ \E c \in B!Boxes : s[Len(s)] = <<"take", b, c>>
       \/ i = Len(s) /\ \E a, b \in B!Boxes : s[i] = <<"take", a, b>>
  /\ \A i, j \in 1..Len(s) : s[i] = s[j] /\ s[i][1] = "free" => i = j

LEMMA BoxTailHas ==
  ASSUME NEW s \in Seq(BoxSteps), s # <<>>
  PROVE  /\ Tail(s) \in Seq(BoxSteps) /\ Head(s) \in BoxSteps
         /\ \A x : BoxHas(s, x) <=> x = Head(s) \/ BoxHas(Tail(s), x)
<1>1. /\ Tail(s) \in Seq(BoxSteps) /\ Head(s) \in BoxSteps /\ Head(s) = s[1] /\ Len(s) \in Nat
      /\ Len(Tail(s)) = Len(s) - 1 /\ Len(s) > 0
      /\ \A i \in 1..Len(Tail(s)) : Tail(s)[i] = s[i + 1]
  OBVIOUS
<1>2. ASSUME NEW x, BoxHas(s, x), x # Head(s)
      PROVE  BoxHas(Tail(s), x)
  <2>1. PICK i \in 1..Len(s) : s[i] = x
    BY <1>2 DEF BoxHas
  <2>2. i - 1 \in 1..Len(Tail(s)) /\ Tail(s)[i - 1] = x
    BY <1>1, <1>2, <2>1
  <2>3. QED
    BY <2>2 DEF BoxHas
<1>3. ASSUME NEW x, BoxHas(Tail(s), x)
      PROVE  BoxHas(s, x)
  <2>1. PICK i \in 1..Len(Tail(s)) : Tail(s)[i] = x
    BY <1>3 DEF BoxHas
  <2>2. i + 1 \in 1..Len(s) /\ s[i + 1] = x
    BY <1>1, <2>1
  <2>3. QED
    BY <2>2 DEF BoxHas
<1>4. 1 \in 1..Len(s)
  BY <1>1
<1>5. QED
  BY <1>1, <1>2, <1>3, <1>4 DEF BoxHas

LEMMA BoxPairIs ==
  ASSUME NEW x \in BoxSteps, NEW y \in BoxSteps
  PROVE  <<x, y>> = <<x>> \o <<y>>
<1>1. <<x, y>> \in Seq(BoxSteps) /\ <<x>> \in Seq(BoxSteps) /\ <<y>> \in Seq(BoxSteps)
  OBVIOUS
<1> DEFINE s == <<x>>
           t == <<y>>
           u == <<x, y>>
<1>2. /\ Len(s) = 1 /\ s[1] = x /\ Len(t) = 1 /\ t[1] = y
      /\ Len(u) = 2 /\ u[1] = x /\ u[2] = y
  OBVIOUS
<1> HIDE DEF s, t, u
<1>3. /\ s \o t \in Seq(BoxSteps) /\ Len(s \o t) = 2
      /\ (s \o t)[1] = x /\ (s \o t)[2] = y
  <2>1. /\ s \o t \in Seq(BoxSteps) /\ Len(s \o t) = Len(s) + Len(t)
        /\ \A i \in 1 .. Len(s) + Len(t) :
             (s \o t)[i] = IF i <= Len(s) THEN s[i] ELSE t[i - Len(s)]
    BY <1>1, ConcatProperties DEF s, t
  <2>2. 1 \in 1 .. Len(s) + Len(t) /\ 2 \in 1 .. Len(s) + Len(t)
    BY <1>2
  <2>3. QED
    BY <1>2, <2>1, <2>2
<1>4. u = s \o t
  <2>1. \A i \in 1..2 : u[i] = (s \o t)[i]
    BY <1>2, <1>3
  <2>2. QED
    BY <1>1, <1>2, <1>3, <2>1, SeqEqual DEF u
<1>5. QED
  BY <1>4 DEF s, t, u

LEMMA BoxConsHas ==
  ASSUME NEW s \in Seq(BoxSteps), NEW y \in BoxSteps
  PROVE  /\ <<y>> \o s \in Seq(BoxSteps) /\ <<y>> \o s # <<>>
         /\ Head(<<y>> \o s) = y /\ Tail(<<y>> \o s) = s
         /\ \A x : BoxHas(<<y>> \o s, x) <=> x = y \/ BoxHas(s, x)
<1> DEFINE t == <<y>> \o s
<1>1. t \in Seq(BoxSteps) /\ t # <<>> /\ Head(t) = y /\ Tail(t) = s
  OBVIOUS
<1> HIDE DEF t
<1>2. QED
  BY <1>1, BoxTailHas DEF t

LEMMA BoxCalmTail ==
  ASSUME NEW s \in Seq(BoxSteps), s # <<>>, BoxCalm(s)
  PROVE  /\ BoxCalm(Tail(s))
         /\ \A o : Head(s) = <<"free", o>> => ~BoxHas(Tail(s), <<"free", o>>)
         /\ \A a : Head(s) = <<"reset", a>> =>
                     \/ Tail(s) = <<>>
                     \/ \E b \in B!Boxes : Tail(s) = <<<<"take", a, b>>>>
         /\ \A a, b : Head(s) = <<"take", a, b>> => Tail(s) = <<>>
         /\ \A o : ~BoxHas(s, <<"destruct", o>>)
<1>1. /\ Tail(s) \in Seq(BoxSteps) /\ Head(s) = s[1] /\ Len(s) \in Nat
      /\ Len(Tail(s)) = Len(s) - 1 /\ Len(s) > 0
      /\ \A i \in 1..Len(Tail(s)) : Tail(s)[i] = s[i + 1]
  OBVIOUS
<1>2. BoxCalm(Tail(s))
  <2>1. ASSUME NEW i \in 1..Len(Tail(s))
        PROVE  \/ \E o \in Cells : Tail(s)[i] = <<"free", o>>
               \/ \E b \in B!Boxes :
                    /\ Tail(s)[i] = <<"reset", b>>
                    /\ \/ i = Len(Tail(s))
                       \/ /\ i + 1 = Len(Tail(s))
                          /\ \E c \in B!Boxes : Tail(s)[Len(Tail(s))] = <<"take", b, c>>
               \/ i = Len(Tail(s)) /\ \E a, b \in B!Boxes : Tail(s)[i] = <<"take", a, b>>
    <3>1. i + 1 \in 1..Len(s) /\ Tail(s)[i] = s[i + 1]
          /\ (i + 1 = Len(s) <=> i = Len(Tail(s)))
          /\ (i + 1 + 1 = Len(s) <=> i + 1 = Len(Tail(s)))
          /\ Tail(s)[Len(Tail(s))] = s[Len(s)]
      BY <1>1
    <3>2. QED
      BY <3>1 DEF BoxCalm
  <2>2. ASSUME NEW i \in 1..Len(Tail(s)), NEW j \in 1..Len(Tail(s)),
               Tail(s)[i] = Tail(s)[j], Tail(s)[i][1] = "free"
        PROVE  i = j
    <3>1. i + 1 \in 1..Len(s) /\ j + 1 \in 1..Len(s) /\ s[i + 1] = s[j + 1]
          /\ s[i + 1][1] = "free"
      BY <1>1, <2>2
    <3>2. i + 1 = j + 1
      BY <3>1 DEF BoxCalm
    <3>3. QED
      BY <3>2
  <2>3. QED
    BY <2>1, <2>2 DEF BoxCalm
<1>3. ASSUME NEW o, Head(s) = <<"free", o>>
      PROVE  ~BoxHas(Tail(s), <<"free", o>>)
  <2>1. SUFFICES ASSUME NEW i \in 1..Len(Tail(s)), Tail(s)[i] = <<"free", o>> PROVE FALSE
    BY DEF BoxHas
  <2>2. 1 \in 1..Len(s) /\ i + 1 \in 1..Len(s) /\ s[1] = s[i + 1] /\ s[1] = <<"free", o>>
    BY <1>1, <1>3, <2>1
  <2>3. s[1][1] = "free"
    BY <2>2
  <2>4. 1 = i + 1
    BY <2>2, <2>3 DEF BoxCalm
  <2>5. QED
    BY <2>4
<1>4. \/ \E o \in Cells : s[1] = <<"free", o>>
      \/ \E b \in B!Boxes : /\ s[1] = <<"reset", b>>
                            /\ \/ 1 = Len(s)
                               \/ 1 + 1 = Len(s) /\ \E c \in B!Boxes : s[Len(s)] = <<"take", b, c>>
      \/ 1 = Len(s) /\ \E a, b \in B!Boxes : s[1] = <<"take", a, b>>
  <2>1. 1 \in 1..Len(s)
    BY <1>1
  <2>2. QED
    BY <2>1 DEF BoxCalm
<1>5. ASSUME NEW a, Head(s) = <<"reset", a>>
      PROVE  Tail(s) = <<>> \/ \E b \in B!Boxes : Tail(s) = <<<<"take", a, b>>>>
  <2>1. \/ 1 = Len(s)
        \/ 1 + 1 = Len(s) /\ \E c \in B!Boxes : s[Len(s)] = <<"take", a, c>>
    BY <1>1, <1>4, <1>5
  <2>2. CASE 1 = Len(s)
    BY <2>2, BoxShortTail
  <2>3. CASE 1 + 1 = Len(s)
    <3>1. Len(s) = 2
      BY <2>3
    <3>2. PICK c \in B!Boxes : s[2] = <<"take", a, c>>
      BY <2>1, <3>1
    <3>3. QED
      BY <3>1, <3>2, BoxShortTail
  <2>4. QED
    BY <2>1, <2>2, <2>3
<1>6. ASSUME NEW a, NEW b, Head(s) = <<"take", a, b>>
      PROVE  Tail(s) = <<>>
  <2>1. 1 = Len(s)
    BY <1>1, <1>4, <1>6
  <2>2. QED
    BY <2>1, BoxShortTail
<1>7. ASSUME NEW o, BoxHas(s, <<"destruct", o>>) PROVE FALSE
  <2>1. PICK i \in 1..Len(s) : s[i] = <<"destruct", o>>
    BY <1>7 DEF BoxHas
  <2>2. \/ \E q \in Cells : s[i] = <<"free", q>>
        \/ \E b \in B!Boxes : s[i] = <<"reset", b>>
        \/ \E a, b \in B!Boxes : s[i] = <<"take", a, b>>
    BY DEF BoxCalm
  <2>3. s[i][1] = "free" \/ s[i][1] = "reset" \/ s[i][1] = "take"
    BY <2>2
  <2>4. s[i][1] = "destruct"
    BY <2>1
  <2>5. QED
    BY <2>3, <2>4
<1>8. QED
  BY <1>2, <1>3, <1>5, <1>6, <1>7

LEMMA BoxCalmCons ==
  ASSUME NEW s \in Seq(BoxSteps), BoxCalm(s), NEW o \in Cells, ~BoxHas(s, <<"free", o>>)
  PROVE  BoxCalm(<<<<"free", o>>>> \o s)
<1> DEFINE t == <<<<"free", o>>>> \o s
<1>1. /\ Len(t) = Len(s) + 1 /\ t[1] = <<"free", o>> /\ Len(s) \in Nat
      /\ \A i \in 1..Len(t) : i # 1 => i - 1 \in 1..Len(s) /\ t[i] = s[i - 1]
  OBVIOUS
<1> HIDE DEF t
<1>2. ASSUME NEW i \in 1..Len(t)
      PROVE  \/ \E q \in Cells : t[i] = <<"free", q>>
             \/ \E b \in B!Boxes :
                  /\ t[i] = <<"reset", b>>
                  /\ \/ i = Len(t)
                     \/ i + 1 = Len(t) /\ \E c \in B!Boxes : t[Len(t)] = <<"take", b, c>>
             \/ i = Len(t) /\ \E a, b \in B!Boxes : t[i] = <<"take", a, b>>
  <2>1. CASE i = 1
    BY <1>1, <2>1
  <2>2. CASE i # 1
    <3>1. /\ i - 1 \in 1..Len(s) /\ t[i] = s[i - 1]
          /\ (i - 1 = Len(s) <=> i = Len(t))
          /\ ((i - 1) + 1 = Len(s) <=> i + 1 = Len(t))
          /\ t[Len(t)] = s[Len(s)]
      BY <1>1, <2>2
    <3>2. QED
      BY <3>1 DEF BoxCalm
  <2>3. QED
    BY <2>1, <2>2
<1>3. ASSUME NEW i \in 1..Len(t), NEW j \in 1..Len(t), t[i] = t[j], t[i][1] = "free"
      PROVE  i = j
  <2>1. CASE i # 1 /\ j # 1
    <3>1. i - 1 = j - 1
      BY <1>1, <1>3, <2>1 DEF BoxCalm
    <3>2. QED
      BY <3>1
  <2>2. CASE i = 1 /\ j # 1
    BY <1>1, <1>3, <2>2 DEF BoxHas
  <2>3. CASE i # 1 /\ j = 1
    BY <1>1, <1>3, <2>3 DEF BoxHas
  <2>4. QED
    BY <2>1, <2>2, <2>3
<1>4. BoxCalm(t)
  BY <1>2, <1>3 DEF BoxCalm
<1>5. QED
  BY <1>4 DEF t

-----------------------------------------------------------------------------
\* What the running operation has left to do, and with what.
BoxDoomed(o) == BoxHas(todo, <<"destruct", o>>)
BoxFreeing(o) == BoxHas(todo, <<"free", o>>)
BoxResets(b) == BoxHas(todo, <<"reset", b>>)
BoxTakes(a, b) == BoxHas(todo, <<"take", a, b>>)
BoxTarget(a) == BoxResets(a) \/ \E b \in B!Boxes : BoxTakes(a, b)

BoxShape ==
  /\ todo \in Seq(BoxSteps)
  /\ \/ BoxCalm(todo)
     \/ /\ todo # <<>> /\ \E o \in Cells : Head(todo) = <<"destruct", o>>
                                            /\ Tail(todo) # <<>>
                                            /\ Head(Tail(todo)) = <<"free", o>>
        /\ BoxCalm(Tail(todo))

BoxTyped ==
  /\ boxData \in [B!Boxes -> Cells \cup {Null}]
  /\ boxScope \subseteq Holders
  /\ life \in [Cells -> {"free", "alive", "dead"}]
  /\ released \subseteq Cells
  /\ inside \in BOOLEAN

\* The boxes that will delete what they point to: those that are alive, but
\* for the one whose object is being deleted.
BoxLive(b) == b \in boxScope \/ (b \in Cells /\ life[b] = "alive")
BoxOwns(b, o) == boxData[b] = o /\ BoxLive(b) /\ ~BoxResets(b)

\* An object is dead while its free is pending, and exactly then.
BoxDying == \A o \in Cells : life[o] = "dead" <=> BoxFreeing(o) /\ ~BoxDoomed(o)

\* One that is alive has exactly one owner: a box, the program, or the running
\* operation; one that is not has none.
BoxOwned ==
  /\ \A o \in Cells : life[o] = "alive" =>
       o \in released \/ BoxDoomed(o) \/ \E b \in B!Boxes : BoxOwns(b, o)
  /\ \A o \in Cells : o \in released => life[o] = "alive" /\ ~BoxDoomed(o)
  /\ \A o \in Cells : BoxDoomed(o) => life[o] = "alive"
  /\ \A o \in Cells, b \in B!Boxes : BoxOwns(b, o) =>
       life[o] = "alive" /\ o \notin released /\ ~BoxDoomed(o)
  /\ \A o \in Cells, b, c \in B!Boxes : BoxOwns(b, o) /\ BoxOwns(c, o) => b = c

BoxForgotten == \A o \in Cells : life[o] = "free" => boxData[o] = Null

\* There is a set of objects that holds what is about to be destroyed and all
\* below it, and does not hold the box that is being reset or assigned; the
\* source of the assignment neither, or it was inside.
BoxClear(X) ==
  /\ X \subseteq Cells /\ B!Closed(X)
  /\ \A o \in Cells : BoxDoomed(o) => o \in X
  /\ \A a \in B!Boxes : BoxTarget(a) => a \notin X /\ BoxLive(a)
  /\ \A a, b \in B!Boxes : BoxTakes(a, b) =>
       (b \notin X /\ BoxLive(b)) \/ (inside /\ b \in Cells)
BoxStays == \E X : BoxClear(X)

\* The target of an assignment was reset.
BoxWasReset == \A a \in B!Boxes : BoxTarget(a) /\ ~BoxResets(a) => boxData[a] = Null

BoxInv ==
  /\ BoxTyped /\ BoxShape /\ BoxDying /\ BoxOwned /\ BoxForgotten /\ BoxStays /\ BoxWasReset
  /\ wrong = {} \/ inside

-----------------------------------------------------------------------------
\* What the program can name is not below itself.
LEMMA BoxBelowIs ==
  ASSUME BoxTyped, NEW a \in B!Boxes
  PROVE  /\ B!Below(a) \subseteq Cells /\ B!Closed(B!Below(a))
         /\ boxData[a] # Null => boxData[a] \in B!Below(a)
         /\ \A y \in B!Below(a) : boxData[a] = y \/ \E x \in B!Below(a) : boxData[x] = y
<1>1. B!Below(a) \subseteq Cells
  BY DEF B!Below
<1>2. \A X \in SUBSET Cells, x \in B!Below(a) :
        (boxData[a] # Null => boxData[a] \in X) /\ B!Closed(X) => x \in X
  BY DEF B!Below
<1>3. B!Closed(B!Below(a))
  <2>1. SUFFICES ASSUME NEW x \in B!Below(a), boxData[x] # Null PROVE boxData[x] \in B!Below(a)
    BY DEF B!Closed
  <2>2. x \in Cells /\ boxData[x] \in Cells
    BY <1>1, <2>1 DEF BoxTyped, B!Boxes
  <2>3. ASSUME NEW X \in SUBSET Cells, boxData[a] # Null => boxData[a] \in X, B!Closed(X)
        PROVE  boxData[x] \in X
    <3>1. x \in X
      BY <1>2, <2>3
    <3>2. QED
      BY <2>1, <2>3, <3>1 DEF B!Closed
  <2>4. QED
    BY <2>2, <2>3 DEF B!Below
<1>4. boxData[a] # Null => boxData[a] \in B!Below(a)
  BY DEF B!Below, BoxTyped
<1>5. ASSUME NEW y \in B!Below(a), boxData[a] # y, \A x \in B!Below(a) : boxData[x] # y
      PROVE  FALSE
  <2> DEFINE X == B!Below(a) \ {y}
  <2>1. X \in SUBSET Cells /\ (boxData[a] # Null => boxData[a] \in X)
    BY <1>1, <1>4, <1>5
  <2>2. B!Closed(X)
    BY <1>3, <1>5 DEF B!Closed
  <2>3. y \in X
    BY <1>2, <2>1, <2>2
  <2>4. QED
    BY <2>3
<1>6. QED
  BY <1>1, <1>3, <1>4, <1>5

LEMMA BoxIdleIs ==
  ASSUME B!Idle
  PROVE  \A o, a, b : ~BoxDoomed(o) /\ ~BoxFreeing(o) /\ ~BoxResets(a) /\ ~BoxTakes(a, b)
<1>1. \A x : ~BoxHas(<<>>, x)
  BY DEF BoxHas
<1>2. QED
  BY <1>1 DEF B!Idle, BoxDoomed, BoxFreeing, BoxResets, BoxTakes

BoxRoots == ({boxData[v] : v \in boxScope} \cup released) \ {Null}

LEMMA BoxKnownIs ==
  ASSUME NEW X \in SUBSET Cells, BoxRoots \subseteq X, B!Closed(X)
  PROVE  B!Known \subseteq X
  BY DEF B!Known, BoxRoots

LEMMA BoxKnownHolds ==
  ASSUME BoxTyped, B!BoxAssumption
  PROVE  B!Known \subseteq Cells /\ BoxRoots \subseteq B!Known /\ B!Closed(B!Known)
<1>1. B!Known \subseteq Cells
  BY DEF B!Known
<1>2. \A x \in B!Known, X \in SUBSET Cells : BoxRoots \subseteq X /\ B!Closed(X) => x \in X
  BY DEF B!Known, BoxRoots
<1>3. BoxRoots \subseteq Cells
  <2>1. \A v \in boxScope : boxData[v] \in Cells \cup {Null}
    BY DEF BoxTyped, B!Boxes
  <2>2. QED
    BY <2>1 DEF BoxRoots, BoxTyped
<1>4. BoxRoots \subseteq B!Known
  BY <1>3 DEF B!Known, BoxRoots
<1>5. B!Closed(B!Known)
  <2>1. SUFFICES ASSUME NEW x \in B!Known, boxData[x] # Null PROVE boxData[x] \in B!Known
    BY DEF B!Closed
  <2>2. boxData[x] \in Cells
    BY <1>1, <2>1 DEF BoxTyped, B!Boxes
  <2>3. ASSUME NEW X \in SUBSET Cells, BoxRoots \subseteq X, B!Closed(X)
        PROVE  boxData[x] \in X
    <3>1. x \in X
      BY <1>2, <2>3
    <3>2. QED
      BY <2>1, <2>3, <3>1 DEF B!Closed
  <2>4. QED
    BY <2>2, <2>3 DEF B!Known, BoxRoots
<1>6. QED
  BY <1>1, <1>4, <1>5

LEMMA BoxNamedLive ==
  ASSUME BoxInv, B!Idle, B!BoxAssumption, NEW a \in B!Named
  PROVE  BoxLive(a) /\ a \in B!Boxes
<1> DEFINE X == {o \in Cells : life[o] = "alive"}
<1>1. \A b \in B!Boxes : BoxLive(b) /\ boxData[b] # Null => boxData[b] \in X
  <2>1. SUFFICES ASSUME NEW b \in B!Boxes, BoxLive(b), boxData[b] # Null PROVE boxData[b] \in X
    OBVIOUS
  <2>2. boxData[b] \in Cells /\ BoxOwns(b, boxData[b])
    BY <2>1, BoxIdleIs DEF BoxInv, BoxTyped, BoxOwns
  <2>3. QED
    BY <2>2 DEF BoxInv, BoxOwned
<1>2. B!Closed(X)
  BY <1>1 DEF B!Closed, BoxLive, B!Boxes
<1>3. released \subseteq X
  BY DEF BoxInv, BoxOwned, BoxTyped
<1>4. BoxRoots \subseteq X
  BY <1>1, <1>3 DEF BoxRoots, BoxLive, B!Boxes, BoxInv, BoxTyped
<1>5. B!Known \subseteq X
  BY <1>2, <1>4, BoxKnownIs
<1>6. CASE a \in boxScope
  BY <1>6 DEF BoxLive, B!Boxes, BoxInv, BoxTyped
<1>7. CASE a \in B!Known
  BY <1>5, <1>7 DEF BoxLive, B!Boxes
<1>8. QED
  BY <1>6, <1>7 DEF B!Named

LEMMA BoxNamedApart ==
  ASSUME BoxInv, B!Idle, B!BoxAssumption, NEW a \in B!Named
  PROVE  a \notin B!Below(a)
<1>1. a \in B!Boxes /\ BoxLive(a)
  BY BoxNamedLive
<1>2. SUFFICES ASSUME a \in B!Below(a) PROVE FALSE
  OBVIOUS
<1>3. /\ B!Below(a) \subseteq Cells /\ B!Closed(B!Below(a))
      /\ \A y \in B!Below(a) : \E x \in B!Below(a) : boxData[x] = y
  BY <1>1, <1>2, BoxBelowIs DEF BoxInv
<1>4. a \in B!Known
  BY <1>2, <1>3 DEF B!Named, BoxInv, BoxTyped, B!BoxAssumption
<1> DEFINE D == B!Known \ B!Below(a)
<1>5. B!Known \subseteq Cells /\ BoxRoots \subseteq B!Known /\ B!Closed(B!Known)
  BY BoxKnownHolds DEF BoxInv
<1>6. \A x \in B!Known : BoxLive(x)
  <2>1. SUFFICES ASSUME NEW x \in B!Known PROVE BoxLive(x)
    OBVIOUS
  <2>2. x \in B!Named
    BY DEF B!Named
  <2>3. QED
    BY <2>2, BoxNamedLive
<1>7. \A x \in B!Below(a) : x \in B!Known
  <2>1. SUFFICES ASSUME NEW x \in B!Below(a) PROVE x \in B!Known
    OBVIOUS
  <2>2. boxData[a] # Null => boxData[a] \in B!Known
    BY <1>4, <1>5 DEF B!Closed
  <2>3. QED
    BY <1>5, <2>2 DEF B!Below
\* Whoever owns an object below a is below a.
<1>8. ASSUME NEW b \in B!Boxes, BoxLive(b), boxData[b] \in B!Below(a)
      PROVE  b \in B!Below(a)
  <2>1. PICK x \in B!Below(a) : boxData[x] = boxData[b]
    BY <1>3, <1>8
  <2>2. x \in B!Boxes /\ BoxLive(x) /\ boxData[b] \in Cells
    BY <1>3, <1>6, <1>7, <1>8, <2>1 DEF B!Boxes
  <2>3. BoxOwns(x, boxData[b]) /\ BoxOwns(b, boxData[b])
    BY <1>8, <2>1, <2>2, BoxIdleIs DEF BoxOwns
  <2>4. QED
    BY <1>8, <2>2, <2>3 DEF BoxInv, BoxOwned
<1>9. BoxRoots \subseteq D
  <2>1. ASSUME NEW v \in boxScope, boxData[v] # Null PROVE boxData[v] \notin B!Below(a)
    <3>1. v \in B!Boxes /\ BoxLive(v) /\ v \notin Cells
      BY DEF BoxInv, BoxTyped, B!BoxAssumption, B!Boxes, BoxLive
    <3>2. QED
      BY <1>3, <1>8, <3>1
  <2>2. ASSUME NEW o \in released PROVE o \notin B!Below(a)
    <3>1. SUFFICES ASSUME o \in B!Below(a) PROVE FALSE
      OBVIOUS
    <3>2. PICK x \in B!Below(a) : boxData[x] = o
      BY <1>3, <3>1
    <3>3. BoxOwns(x, o) /\ o \in Cells /\ x \in B!Boxes
      BY <1>3, <1>6, <1>7, <3>1, <3>2, BoxIdleIs DEF BoxOwns, B!Boxes
    <3>4. QED
      BY <2>2, <3>3 DEF BoxInv, BoxOwned
  <2>3. QED
    BY <1>5, <2>1, <2>2 DEF BoxRoots
<1>10. B!Closed(D)
  <2>1. SUFFICES ASSUME NEW x \in D, boxData[x] # Null PROVE boxData[x] \in D
    BY DEF B!Closed
  <2>2. x \in B!Boxes /\ BoxLive(x) /\ boxData[x] \in B!Known
    BY <1>5, <1>6, <2>1 DEF B!Closed, B!Boxes
  <2>3. QED
    BY <1>8, <2>1, <2>2
<1>11. B!Known \subseteq D
  BY <1>5, <1>9, <1>10, BoxKnownIs
<1>12. QED
  BY <1>2, <1>4, <1>11

-----------------------------------------------------------------------------
\* The operations that delete nothing.

\* What the invariant says between operations.
BoxHasOwner ==
  /\ \A o \in Cells : life[o] = "alive" =>
       o \in released \/ \E b \in B!Boxes : boxData[b] = o /\ BoxLive(b)
  /\ \A o \in released : life[o] = "alive"
  /\ \A b \in B!Boxes : BoxLive(b) /\ boxData[b] # Null =>
       life[boxData[b]] = "alive" /\ boxData[b] \notin released
  /\ \A b, c \in B!Boxes : BoxLive(b) /\ BoxLive(c) /\ boxData[b] = boxData[c] /\ boxData[b] # Null => b = c
BoxAtRest ==
  /\ BoxTyped /\ BoxHasOwner /\ BoxForgotten
  /\ \A o \in Cells : life[o] # "dead"

LEMMA BoxRestIs == ASSUME B!Idle, BoxInv, B!BoxAssumption PROVE BoxAtRest
<1>1. /\ \A o \in Cells : ~BoxDoomed(o) /\ ~BoxFreeing(o)
      /\ \A b \in B!Boxes, o \in Cells : BoxOwns(b, o) <=> boxData[b] = o /\ BoxLive(b)
  BY BoxIdleIs DEF BoxOwns
<1>2. \A b \in B!Boxes : boxData[b] # Null => boxData[b] \in Cells
  BY DEF BoxInv, BoxTyped
<1>3. BoxHasOwner
  BY <1>1, <1>2 DEF BoxHasOwner, BoxInv, BoxOwned, BoxTyped
<1>4. \A o \in Cells : life[o] # "dead"
  BY <1>1 DEF BoxInv, BoxDying
<1>5. QED
  BY <1>3, <1>4 DEF BoxAtRest, BoxInv

LEMMA BoxRestHolds ==
  ASSUME B!BoxAssumption, B!Idle', BoxAtRest', wrong' = {} \/ inside'
  PROVE  BoxInv'
<1>1. /\ \A o, a, b : ~BoxDoomed(o)' /\ ~BoxFreeing(o)' /\ ~BoxResets(a)' /\ ~BoxTakes(a, b)'
      /\ \A b \in B!Boxes, o \in Cells : BoxOwns(b, o)' <=> boxData'[b] = o /\ BoxLive(b)'
  <2>1. \A x : ~BoxHas(<<>>, x)
    BY DEF BoxHas
  <2>2. QED
    BY <2>1 DEF B!Idle, BoxDoomed, BoxFreeing, BoxResets, BoxTakes, BoxOwns
<1>2. BoxShape'
  <2>1. BoxCalm(<<>>) /\ <<>> \in Seq(BoxSteps)
    BY DEF BoxCalm
  <2>2. QED
    BY <2>1 DEF BoxShape, B!Idle
<1>3. BoxDying'
  BY <1>1 DEF BoxAtRest, BoxDying
<1>4. BoxOwned'
  <2>1. \A b \in B!Boxes : boxData'[b] # Null => boxData'[b] \in Cells
    BY DEF BoxAtRest, BoxTyped
  <2>2. Null \notin Cells
    BY DEF B!BoxAssumption
  <2>3. QED
    BY <1>1, <2>1, <2>2 DEF BoxAtRest, BoxHasOwner, BoxOwned, BoxTyped
<1>5. BoxClear(Cells)'
  BY <1>1 DEF BoxClear, B!Closed, BoxTarget, BoxAtRest, BoxTyped, B!Boxes
<1>6. BoxWasReset'
  BY <1>1 DEF BoxWasReset, BoxTarget
<1>7. QED
  BY <1>2, <1>3, <1>4, <1>5, <1>6 DEF BoxInv, BoxAtRest, BoxStays

LEMMA BoxDefaultKeeps ==
  ASSUME BoxInv, B!BoxAssumption, NEW v \in Holders, B!Default(v)
  PROVE  BoxInv'
<1>1. BoxAtRest /\ B!Idle'
  BY BoxRestIs DEF B!Default, B!Idle
<1>2. /\ v \notin Cells /\ v \in B!Boxes /\ Null \notin Cells
      /\ \A b \in B!Boxes : BoxLive(b)' <=> BoxLive(b) \/ b = v
  BY DEF B!BoxAssumption, B!Boxes, B!Default, B!Declare, BoxLive
<1>3. BoxAtRest'
  BY <1>1, <1>2 DEF BoxAtRest, BoxTyped, BoxHasOwner, BoxForgotten, B!Default, B!Declare,
     B!Boxes, BoxLive
<1>4. QED
  BY <1>1, <1>3, BoxRestHolds DEF B!Default, BoxInv

LEMMA BoxNewKeeps ==
  ASSUME BoxInv, B!BoxAssumption, NEW v \in Holders, NEW o \in Cells, B!New(v, o)
  PROVE  BoxInv'
<1>1. BoxAtRest /\ B!Idle'
  BY BoxRestIs DEF B!New, B!Idle
<1>2. /\ v \notin boxScope /\ life[o] = "free" /\ boxScope' = boxScope \cup {v}
      /\ released' = released /\ inside' = inside /\ wrong' = wrong
      /\ v \notin Cells /\ v \in B!Boxes /\ o \in B!Boxes /\ v # o /\ Null \notin Cells
      /\ boxData'[v] = o /\ boxData'[o] = Null
      /\ \A b \in B!Boxes \ {v, o} : boxData'[b] = boxData[b]
      /\ life'[o] = "alive" /\ \A q \in Cells \ {o} : life'[q] = life[q]
  BY <1>1 DEF B!New, B!BoxAssumption, B!Boxes, BoxAtRest, BoxTyped
<1>3. BoxTyped'
  BY <1>1 DEF B!New, BoxAtRest, BoxTyped, B!Boxes
<1>4. /\ BoxLive(v)' /\ BoxLive(o)' /\ ~BoxLive(v) /\ ~BoxLive(o)
      /\ \A b \in B!Boxes \ {v, o} : BoxLive(b)' <=> BoxLive(b)
  BY <1>1, <1>2 DEF BoxLive, B!Boxes, BoxAtRest, BoxTyped, B!BoxAssumption
<1>5. /\ o \notin released
      /\ \A b \in B!Boxes : BoxLive(b) => boxData[b] # o
  BY <1>1, <1>2 DEF BoxAtRest, BoxHasOwner
<1>6. BoxHasOwner'
  <2>1. ASSUME NEW q \in Cells, life'[q] = "alive"
        PROVE  q \in released' \/ \E b \in B!Boxes : boxData'[b] = q /\ BoxLive(b)'
    <3>1. CASE q = o
      BY <1>2, <1>4, <3>1
    <3>2. CASE q # o
      <4>1. q \in released \/ \E b \in B!Boxes : boxData[b] = q /\ BoxLive(b)
        BY <1>1, <1>2, <2>1, <3>2 DEF BoxAtRest, BoxHasOwner
      <4>2. QED
        BY <1>2, <1>4, <4>1
    <3>3. QED
      BY <3>1, <3>2
  <2>2. \A q \in released' : life'[q] = "alive"
    BY <1>1, <1>2 DEF BoxAtRest, BoxHasOwner, BoxTyped
  <2>3. ASSUME NEW b \in B!Boxes, BoxLive(b)', boxData'[b] # Null
        PROVE  life'[boxData'[b]] = "alive" /\ boxData'[b] \notin released'
    <3>1. CASE b = v
      BY <1>2, <1>5, <3>1
    <3>2. CASE b # v
      <4>1. b # o /\ BoxLive(b) /\ boxData'[b] = boxData[b] /\ boxData[b] \in Cells \ {o}
        BY <1>1, <1>2, <1>4, <1>5, <2>3, <3>2 DEF BoxAtRest, BoxTyped
      <4>2. QED
        BY <1>1, <1>2, <2>3, <4>1 DEF BoxAtRest, BoxHasOwner
    <3>3. QED
      BY <3>1, <3>2
  <2>4. ASSUME NEW b \in B!Boxes, NEW c \in B!Boxes, BoxLive(b)', BoxLive(c)',
               boxData'[b] = boxData'[c], boxData'[b] # Null
        PROVE  b = c
    BY <1>1, <1>2, <1>4, <1>5, <2>4 DEF BoxAtRest, BoxHasOwner
  <2>5. QED
    BY <2>1, <2>2, <2>3, <2>4 DEF BoxHasOwner
<1>7. BoxForgotten' /\ \A q \in Cells : life'[q] # "dead"
  BY <1>1, <1>2 DEF BoxAtRest, BoxForgotten, B!Boxes
<1>8. QED
  BY <1>1, <1>2, <1>3, <1>6, <1>7, BoxRestHolds DEF BoxAtRest, BoxInv

LEMMA BoxNewFromPtrKeeps ==
  ASSUME BoxInv, B!BoxAssumption, NEW v \in Holders, NEW o \in Cells, B!NewFromPtr(v, o)
  PROVE  BoxInv'
<1>1. BoxAtRest /\ B!Idle'
  BY BoxRestIs DEF B!NewFromPtr, B!Idle
<1>2. /\ v \notin boxScope /\ boxScope' = boxScope \cup {v} /\ o \in released
      /\ released' = released \ {o} /\ life' = life /\ inside' = inside /\ wrong' = wrong
      /\ v \notin Cells /\ v \in B!Boxes /\ o \in B!Boxes /\ v # o /\ Null \notin Cells
      /\ boxData'[v] = o
      /\ \A b \in B!Boxes \ {v} : boxData'[b] = boxData[b]
  BY <1>1 DEF B!NewFromPtr, B!Declare, B!BoxAssumption, B!Boxes, BoxAtRest, BoxTyped
<1>3. BoxTyped'
  BY <1>1 DEF B!NewFromPtr, B!Declare, BoxAtRest, BoxTyped, B!Boxes
<1>4. /\ BoxLive(v)' /\ ~BoxLive(v)
      /\ \A b \in B!Boxes \ {v} : BoxLive(b)' <=> BoxLive(b)
  BY <1>1, <1>2 DEF BoxLive
<1>5. /\ life[o] = "alive"
      /\ \A b \in B!Boxes : BoxLive(b) => boxData[b] # o
  BY <1>1, <1>2 DEF BoxAtRest, BoxHasOwner
<1>6. BoxHasOwner'
  <2>1. ASSUME NEW q \in Cells, life'[q] = "alive"
        PROVE  q \in released' \/ \E b \in B!Boxes : boxData'[b] = q /\ BoxLive(b)'
    <3>1. CASE q = o
      BY <1>2, <1>4, <3>1
    <3>2. CASE q # o
      <4>1. q \in released \/ \E b \in B!Boxes : boxData[b] = q /\ BoxLive(b)
        BY <1>1, <1>2, <2>1, <3>2 DEF BoxAtRest, BoxHasOwner
      <4>2. QED
        BY <1>2, <1>4, <3>2, <4>1
    <3>3. QED
      BY <3>1, <3>2
  <2>2. \A q \in released' : life'[q] = "alive"
    BY <1>1, <1>2 DEF BoxAtRest, BoxHasOwner, BoxTyped
  <2>3. ASSUME NEW b \in B!Boxes, BoxLive(b)', boxData'[b] # Null
        PROVE  life'[boxData'[b]] = "alive" /\ boxData'[b] \notin released'
    BY <1>1, <1>2, <1>4, <1>5, <2>3 DEF BoxAtRest, BoxHasOwner
  <2>4. ASSUME NEW b \in B!Boxes, NEW c \in B!Boxes, BoxLive(b)', BoxLive(c)',
               boxData'[b] = boxData'[c], boxData'[b] # Null
        PROVE  b = c
    BY <1>1, <1>2, <1>4, <1>5, <2>4 DEF BoxAtRest, BoxHasOwner
  <2>5. QED
    BY <2>1, <2>2, <2>3, <2>4 DEF BoxHasOwner
<1>7. BoxForgotten' /\ \A q \in Cells : life'[q] # "dead"
  BY <1>1, <1>2 DEF BoxAtRest, BoxForgotten, B!Boxes
<1>8. QED
  BY <1>1, <1>2, <1>3, <1>6, <1>7, BoxRestHolds DEF BoxAtRest, BoxInv

LEMMA BoxMoveConstructKeeps ==
  ASSUME BoxInv, B!BoxAssumption, NEW v \in Holders, NEW a \in B!Boxes, B!MoveConstruct(v, a)
  PROVE  BoxInv'
<1>1. BoxAtRest /\ B!Idle' /\ BoxLive(a)
  BY BoxRestIs, BoxNamedLive DEF B!MoveConstruct, B!Idle
<1>2. /\ v \notin boxScope /\ boxScope' = boxScope \cup {v}
      /\ released' = released /\ life' = life /\ inside' = inside /\ wrong' = wrong
      /\ v \notin Cells /\ v \in B!Boxes /\ Null \notin Cells
  BY <1>1 DEF B!MoveConstruct, B!BoxAssumption, B!Boxes
<1>3. v # a /\ ~BoxLive(v)
  BY <1>1, <1>2 DEF BoxLive
<1>4. /\ boxData'[v] = boxData[a] /\ boxData'[a] = Null
      /\ \A b \in B!Boxes \ {v, a} : boxData'[b] = boxData[b]
  BY <1>1, <1>2, <1>3 DEF B!MoveConstruct, BoxAtRest, BoxTyped
<1>5. BoxTyped'
  BY <1>1 DEF B!MoveConstruct, BoxAtRest, BoxTyped, B!Boxes
<1>6. BoxLive(v)' /\ \A b \in B!Boxes \ {v} : BoxLive(b)' <=> BoxLive(b)
  BY <1>2 DEF BoxLive
<1>7. BoxHasOwner'
  <2>1. ASSUME NEW q \in Cells, life'[q] = "alive"
        PROVE  q \in released' \/ \E b \in B!Boxes : boxData'[b] = q /\ BoxLive(b)'
    <3>1. q \in released \/ \E b \in B!Boxes : boxData[b] = q /\ BoxLive(b)
      BY <1>1, <1>2, <2>1 DEF BoxAtRest, BoxHasOwner
    <3>2. QED
      BY <1>2, <1>3, <1>4, <1>6, <3>1
  <2>2. \A q \in released' : life'[q] = "alive"
    BY <1>1, <1>2 DEF BoxAtRest, BoxHasOwner
  <2>3. ASSUME NEW b \in B!Boxes, BoxLive(b)', boxData'[b] # Null
        PROVE  life'[boxData'[b]] = "alive" /\ boxData'[b] \notin released'
    BY <1>1, <1>2, <1>3, <1>4, <1>6, <2>3 DEF BoxAtRest, BoxHasOwner
  <2>4. ASSUME NEW b \in B!Boxes, NEW c \in B!Boxes, BoxLive(b)', BoxLive(c)',
               boxData'[b] = boxData'[c], boxData'[b] # Null
        PROVE  b = c
    BY <1>1, <1>2, <1>3, <1>4, <1>6, <2>4 DEF BoxAtRest, BoxHasOwner
  <2>5. QED
    BY <2>1, <2>2, <2>3, <2>4 DEF BoxHasOwner
<1>8. BoxForgotten' /\ \A q \in Cells : life'[q] # "dead"
  BY <1>1, <1>2, <1>4 DEF BoxAtRest, BoxForgotten, B!Boxes
<1>9. QED
  BY <1>1, <1>2, <1>5, <1>7, <1>8, BoxRestHolds DEF BoxAtRest, BoxInv

LEMMA BoxReleaseKeeps ==
  ASSUME BoxInv, B!BoxAssumption, NEW a \in B!Boxes, B!Release(a)
  PROVE  BoxInv'
<1>1. BoxAtRest /\ B!Idle' /\ BoxLive(a)
  BY BoxRestIs, BoxNamedLive DEF B!Release, B!Idle
<1>2. /\ boxScope' = boxScope /\ boxData[a] # Null /\ boxData[a] \in Cells
      /\ released' = released \cup {boxData[a]} /\ life' = life /\ inside' = inside
      /\ wrong' = wrong /\ boxData'[a] = Null
      /\ \A b \in B!Boxes \ {a} : boxData'[b] = boxData[b]
  BY <1>1 DEF B!Release, BoxAtRest, BoxTyped
<1>3. BoxTyped'
  BY <1>1, <1>2 DEF B!Release, BoxAtRest, BoxTyped
<1>4. \A b \in B!Boxes : BoxLive(b)' <=> BoxLive(b)
  BY <1>2 DEF BoxLive
<1>5. BoxHasOwner'
  <2>1. ASSUME NEW q \in Cells, life'[q] = "alive"
        PROVE  q \in released' \/ \E b \in B!Boxes : boxData'[b] = q /\ BoxLive(b)'
    <3>1. q \in released \/ \E b \in B!Boxes : boxData[b] = q /\ BoxLive(b)
      BY <1>1, <1>2, <2>1 DEF BoxAtRest, BoxHasOwner
    <3>2. QED
      BY <1>2, <1>4, <3>1
  <2>2. \A q \in released' : life'[q] = "alive"
    BY <1>1, <1>2 DEF BoxAtRest, BoxHasOwner
  <2>3. ASSUME NEW b \in B!Boxes, BoxLive(b)', boxData'[b] # Null
        PROVE  life'[boxData'[b]] = "alive" /\ boxData'[b] \notin released'
    BY <1>1, <1>2, <1>4, <2>3 DEF BoxAtRest, BoxHasOwner
  <2>4. ASSUME NEW b \in B!Boxes, NEW c \in B!Boxes, BoxLive(b)', BoxLive(c)',
               boxData'[b] = boxData'[c], boxData'[b] # Null
        PROVE  b = c
    BY <1>1, <1>2, <1>4, <2>4 DEF BoxAtRest, BoxHasOwner
  <2>5. QED
    BY <2>1, <2>2, <2>3, <2>4 DEF BoxHasOwner
<1>6. BoxForgotten' /\ \A q \in Cells : life'[q] # "dead"
  BY <1>1, <1>2 DEF BoxAtRest, BoxForgotten, B!Boxes
<1>7. QED
  BY <1>1, <1>2, <1>3, <1>5, <1>6, BoxRestHolds DEF BoxAtRest, BoxInv

LEMMA BoxSwapKeeps ==
  ASSUME BoxInv, B!BoxAssumption, NEW a \in B!Boxes, NEW d \in B!Boxes, B!Swap(a, d)
  PROVE  BoxInv'
<1>1. BoxAtRest /\ B!Idle' /\ BoxLive(a) /\ BoxLive(d)
  <2>1. a \in B!Named /\ d \in B!Named /\ B!Idle
    BY DEF B!Swap
  <2>2. QED
    BY <2>1, BoxRestIs, BoxNamedLive DEF B!Swap, B!Idle
<1>2. /\ boxScope' = boxScope /\ released' = released /\ life' = life /\ inside' = inside
      /\ wrong' = wrong /\ boxData'[a] = boxData[d] /\ boxData'[d] = boxData[a]
      /\ \A b \in B!Boxes \ {a, d} : boxData'[b] = boxData[b]
  BY <1>1 DEF B!Swap, BoxAtRest, BoxTyped
<1>3. BoxTyped'
  BY <1>1, <1>2 DEF B!Swap, BoxAtRest, BoxTyped
<1>4. \A b \in B!Boxes : BoxLive(b)' <=> BoxLive(b)
  BY <1>2 DEF BoxLive
<1>5. BoxHasOwner'
  <2>1. ASSUME NEW q \in Cells, life'[q] = "alive"
        PROVE  q \in released' \/ \E b \in B!Boxes : boxData'[b] = q /\ BoxLive(b)'
    <3>1. q \in released \/ \E b \in B!Boxes : boxData[b] = q /\ BoxLive(b)
      BY <1>1, <1>2, <2>1 DEF BoxAtRest, BoxHasOwner
    <3>2. QED
      BY <1>1, <1>2, <1>4, <3>1
  <2>2. \A q \in released' : life'[q] = "alive"
    BY <1>1, <1>2 DEF BoxAtRest, BoxHasOwner
  <2>3. ASSUME NEW b \in B!Boxes, BoxLive(b)', boxData'[b] # Null
        PROVE  life'[boxData'[b]] = "alive" /\ boxData'[b] \notin released'
    BY <1>1, <1>2, <1>4, <2>3 DEF BoxAtRest, BoxHasOwner
  <2>4. ASSUME NEW b \in B!Boxes, NEW c \in B!Boxes, BoxLive(b)', BoxLive(c)',
               boxData'[b] = boxData'[c], boxData'[b] # Null
        PROVE  b = c
    BY <1>1, <1>2, <1>4, <2>4 DEF BoxAtRest, BoxHasOwner
  <2>5. QED
    BY <2>1, <2>2, <2>3, <2>4 DEF BoxHasOwner
<1>6. BoxForgotten' /\ \A q \in Cells : life'[q] # "dead"
  <2>1. \A q \in Cells : life[q] = "free" => q # a /\ q # d
    BY <1>1 DEF BoxLive, BoxAtRest, BoxTyped, B!BoxAssumption
  <2>2. QED
    BY <1>1, <1>2, <2>1 DEF BoxAtRest, BoxForgotten, B!Boxes
<1>7. QED
  BY <1>1, <1>2, <1>3, <1>5, <1>6, BoxRestHolds DEF BoxAtRest, BoxInv

-----------------------------------------------------------------------------
\* The operations that delete.
LEMMA BoxDeletionHas ==
  ASSUME B!BoxAssumption, NEW p \in Cells \cup {Null}, NEW r \in Seq(BoxSteps), BoxCalm(r),
         ~BoxHas(r, <<"free", p>>), todo' = B!Deletion(p) \o r
  PROVE  /\ BoxShape'
         /\ p = Null => todo' = r
         /\ \A o \in Cells : BoxDoomed(o)' <=> (p # Null /\ o = p)
         /\ \A o \in Cells : BoxFreeing(o)' <=> (p # Null /\ o = p) \/ BoxHas(r, <<"free", o>>)
         /\ \A a : BoxResets(a)' <=> BoxHas(r, <<"reset", a>>)
         /\ \A a, b : BoxTakes(a, b)' <=> BoxHas(r, <<"take", a, b>>)
<1>1. \A o : ~BoxHas(r, <<"destruct", o>>)
  <2>1. CASE r = <<>>
    BY <2>1 DEF BoxHas
  <2>2. CASE r # <<>>
    BY <2>2, BoxCalmTail
  <2>3. QED
    BY <2>1, <2>2
<1>2. CASE p = Null
  <2>1. todo' = r
    BY <1>2 DEF B!Deletion
  <2>2. QED
    BY <1>1, <1>2, <2>1 DEF BoxShape, BoxDoomed, BoxFreeing, BoxResets, BoxTakes
<1>3. CASE p # Null
  <2> DEFINE d == <<"destruct", p>>
             f == <<"free", p>>
             s == <<f>> \o r
  <2>1. p \in Cells /\ d \in BoxSteps /\ f \in BoxSteps
    BY <1>3 DEF BoxSteps
  <2>2. todo' = <<d>> \o s
    <3>0. todo' = <<d, f>> \o r
      BY <1>3 DEF B!Deletion
    <3>1. todo' = <<d, f>> \o r /\ <<d, f>> = <<d>> \o <<f>>
      BY <2>1, <3>0, BoxPairIs
    <3>2. <<d>> \in Seq(BoxSteps) /\ <<f>> \in Seq(BoxSteps)
      BY <2>1
    <3>3. (<<d>> \o <<f>>) \o r = <<d>> \o (<<f>> \o r)
      BY <3>2, ConcatAssociative
    <3>4. QED
      BY <3>1, <3>3
  <2>3. /\ s \in Seq(BoxSteps) /\ s # <<>> /\ Head(s) = f /\ BoxCalm(s)
        /\ \A x : BoxHas(s, x) <=> x = f \/ BoxHas(r, x)
    BY <2>1, BoxConsHas, BoxCalmCons
  <2>4. /\ todo' \in Seq(BoxSteps) /\ todo' # <<>> /\ Head(todo') = d /\ Tail(todo') = s
        /\ \A x : BoxHas(todo', x) <=> x = d \/ x = f \/ BoxHas(r, x)
    <3> HIDE DEF s, d, f
    <3>1. QED
      BY <2>1, <2>2, <2>3, BoxConsHas
  <2> HIDE DEF s
  <2>5. BoxShape'
    BY <2>1, <2>3, <2>4 DEF BoxShape
  <2>6. /\ \A o : BoxHas(todo', <<"destruct", o>>) <=> o = p
        /\ \A o : BoxHas(todo', <<"free", o>>) <=> o = p \/ BoxHas(r, <<"free", o>>)
    BY <1>1, <2>4
  <2>7. /\ \A a : BoxHas(todo', <<"reset", a>>) <=> BoxHas(r, <<"reset", a>>)
        /\ \A a, b : BoxHas(todo', <<"take", a, b>>) <=> BoxHas(r, <<"take", a, b>>)
    BY <2>4
  <2>8. QED
    BY <1>3, <2>5, <2>6, <2>7 DEF BoxDoomed, BoxFreeing, BoxResets, BoxTakes
<1>4. QED
  BY <1>2, <1>3

\* An operation that deletes what p points to, whose owner it was, and goes on
\* with the box a, or with none.
BoxDeletesFor(p, a, b, r) ==
  /\ p \in Cells \cup {Null} /\ todo' = B!Deletion(p) \o r
  /\ \/ r = <<>>
     \/ a \in B!Boxes /\ r = <<<<"reset", a>>>>
     \/ a \in B!Boxes /\ b \in B!Boxes /\ r = <<<<"reset", a>>, <<"take", a, b>>>>

LEMMA BoxRestOfOperation ==
  ASSUME NEW p, NEW a, NEW b, NEW r, BoxDeletesFor(p, a, b, r)
  PROVE  /\ r \in Seq(BoxSteps) /\ BoxCalm(r)
         /\ \A o : ~BoxHas(r, <<"free", o>>)
         /\ \A c : BoxHas(r, <<"reset", c>>) <=> r # <<>> /\ c = a
         /\ \A c, d : BoxHas(r, <<"take", c, d>>) =>
              c = a /\ d = b /\ r = <<<<"reset", a>>, <<"take", a, b>>>>
<1>1. CASE r = <<>>
  BY <1>1 DEF BoxCalm, BoxHas
<1>2. CASE a \in B!Boxes /\ r = <<<<"reset", a>>>>
  <2>1. <<"reset", a>> \in BoxSteps
    BY <1>2 DEF BoxSteps
  <2>2. r \in Seq(BoxSteps) /\ Len(r) = 1 /\ r[1] = <<"reset", a>> /\ r # <<>>
    BY <1>2, <2>1
  <2>3. BoxCalm(r)
    BY <1>2, <2>2 DEF BoxCalm
  <2>4. \A x : BoxHas(r, x) <=> x = <<"reset", a>>
    <3>1. 1 \in 1..Len(r) /\ \A i \in 1..Len(r) : i = 1
      BY <2>2
    <3>2. QED
      BY <2>2, <3>1 DEF BoxHas
  <2>5. QED
    BY <2>2, <2>3, <2>4
<1>3. CASE a \in B!Boxes /\ b \in B!Boxes /\ r = <<<<"reset", a>>, <<"take", a, b>>>>
  <2>1. <<"reset", a>> \in BoxSteps /\ <<"take", a, b>> \in BoxSteps
    BY <1>3 DEF BoxSteps
  <2>2. /\ r \in Seq(BoxSteps) /\ Len(r) = 2 /\ r[1] = <<"reset", a>>
        /\ r[2] = <<"take", a, b>> /\ r # <<>>
    BY <1>3, <2>1
  <2>3. BoxCalm(r)
    <3>1. /\ <<"reset", a>>[1] # "free" /\ <<"take", a, b>>[1] # "free"
      OBVIOUS
    <3>2. \A i \in 1..Len(r) : i = 1 \/ i = 2
      BY <2>2
    <3>3. \A i \in 1..Len(r) : r[i][1] # "free"
      BY <2>2, <3>1, <3>2
    <3>4. QED
      BY <1>3, <2>2, <3>2, <3>3 DEF BoxCalm
  <2>4. \A x : BoxHas(r, x) <=> x = <<"reset", a>> \/ x = <<"take", a, b>>
    <3>1. {1, 2} \subseteq 1..Len(r) /\ \A i \in 1..Len(r) : i = 1 \/ i = 2
      BY <2>2
    <3>2. QED
      BY <2>2, <3>1 DEF BoxHas
  <2>5. QED
    BY <1>3, <2>2, <2>3, <2>4
<1>4. QED
  BY <1>1, <1>2, <1>3 DEF BoxDeletesFor

LEMMA BoxBegunHas ==
  ASSUME B!BoxAssumption, NEW p, NEW a, NEW b, NEW r, BoxDeletesFor(p, a, b, r)
  PROVE  /\ BoxShape'
         /\ \A o \in Cells : BoxDoomed(o)' <=> (p # Null /\ o = p)
         /\ \A o \in Cells : BoxFreeing(o)' <=> (p # Null /\ o = p)
         /\ \A c : BoxResets(c)' <=> r # <<>> /\ c = a
         /\ \A c, d : BoxTakes(c, d)' =>
              c = a /\ d = b /\ r = <<<<"reset", a>>, <<"take", a, b>>>>
<1>1. /\ r \in Seq(BoxSteps) /\ BoxCalm(r)
      /\ \A o : ~BoxHas(r, <<"free", o>>)
      /\ \A c : BoxHas(r, <<"reset", c>>) <=> r # <<>> /\ c = a
      /\ \A c, d : BoxHas(r, <<"take", c, d>>) =>
           c = a /\ d = b /\ r = <<<<"reset", a>>, <<"take", a, b>>>>
  BY BoxRestOfOperation
<1>2. p \in Cells \cup {Null} /\ todo' = B!Deletion(p) \o r
  BY DEF BoxDeletesFor
<1>3. /\ BoxShape'
      /\ \A o \in Cells : BoxDoomed(o)' <=> (p # Null /\ o = p)
      /\ \A o \in Cells : BoxFreeing(o)' <=> (p # Null /\ o = p) \/ BoxHas(r, <<"free", o>>)
      /\ \A c : BoxResets(c)' <=> BoxHas(r, <<"reset", c>>)
      /\ \A c, d : BoxTakes(c, d)' <=> BoxHas(r, <<"take", c, d>>)
  BY <1>1, <1>2, BoxDeletionHas
<1>4. QED
  BY <1>1, <1>3

LEMMA BoxBegins ==
  ASSUME BoxInv, B!Idle, B!BoxAssumption,
         NEW p, NEW a, NEW b, NEW r, BoxDeletesFor(p, a, b, r),
         p = Null \/ life[p] = "alive",
         boxData' = boxData, life' = life, wrong' = wrong, boxScope' \subseteq boxScope,
         released' = released \ {p}, inside' \in BOOLEAN, inside => inside',
         \A c \in B!Boxes : boxData[c] # Null =>
           (BoxLive(c)' /\ ~BoxResets(c)' <=> BoxLive(c) /\ boxData[c] # p),
         BoxStays'
  PROVE  BoxInv'
<1>1. BoxAtRest
  BY BoxRestIs
<1>2. /\ BoxShape' /\ p \in Cells \cup {Null} /\ Null \notin Cells
      /\ \A o \in Cells : BoxDoomed(o)' <=> (p # Null /\ o = p)
      /\ \A o \in Cells : BoxFreeing(o)' <=> (p # Null /\ o = p)
      /\ \A c : BoxResets(c)' <=> r # <<>> /\ c = a
      /\ \A c, d : BoxTakes(c, d)' => c = a /\ r # <<>>
  <2>1. <<<<"reset", a>>, <<"take", a, b>>>> # <<>>
    OBVIOUS
  <2>2. p \in Cells \cup {Null} /\ Null \notin Cells
    BY DEF BoxDeletesFor, B!BoxAssumption
  <2> HIDE DEF BoxDeletesFor
  <2>3. QED
    BY <2>1, <2>2, BoxBegunHas
<1>3. BoxTyped'
  BY <1>1 DEF BoxAtRest, BoxTyped
<1>4. BoxDying' /\ BoxForgotten' /\ BoxWasReset'
  BY <1>1, <1>2 DEF BoxAtRest, BoxDying, BoxForgotten, BoxWasReset, BoxTarget
<1>5. \A c \in B!Boxes, o \in Cells : BoxOwns(c, o)' <=> boxData[c] = o /\ BoxLive(c) /\ o # p
  BY <1>2 DEF BoxOwns
<1>6. BoxOwned'
  <2>1. \A o \in Cells : life'[o] = "alive" =>
          o \in released' \/ BoxDoomed(o)' \/ \E c \in B!Boxes : BoxOwns(c, o)'
    BY <1>1, <1>2, <1>5 DEF BoxAtRest, BoxHasOwner
  <2>2. \A o \in Cells : o \in released' => life'[o] = "alive" /\ ~BoxDoomed(o)'
    BY <1>1, <1>2 DEF BoxAtRest, BoxHasOwner
  <2>3. \A o \in Cells : BoxDoomed(o)' => life'[o] = "alive"
    BY <1>2
  <2>4. ASSUME NEW o \in Cells, NEW c \in B!Boxes, BoxOwns(c, o)'
        PROVE  life'[o] = "alive" /\ o \notin released' /\ ~BoxDoomed(o)'
    <3>1. boxData[c] = o /\ BoxLive(c) /\ o # p /\ o # Null
      BY <1>2, <1>5, <2>4
    <3>2. QED
      BY <1>1, <1>2, <3>1 DEF BoxAtRest, BoxHasOwner
  <2>5. ASSUME NEW o \in Cells, NEW c \in B!Boxes, NEW d \in B!Boxes, BoxOwns(c, o)', BoxOwns(d, o)'
        PROVE  c = d
    BY <1>1, <1>2, <1>5, <2>5 DEF BoxAtRest, BoxHasOwner
  <2>6. QED
    BY <2>1, <2>2, <2>3, <2>4, <2>5 DEF BoxOwned
<1>7. QED
  BY <1>2, <1>3, <1>4, <1>6 DEF BoxInv

\* With nobody to come back to, nothing is in the way.
LEMMA BoxNoTarget ==
  ASSUME BoxTyped', \A c, d \in B!Boxes : ~BoxResets(c)' /\ ~BoxTakes(c, d)'
  PROVE  BoxStays'
<1>1. BoxClear(Cells)'
  BY DEF BoxClear, B!Closed, BoxTarget, BoxTyped, B!Boxes
<1>2. QED
  BY <1>1 DEF BoxStays

LEMMA BoxDestructKeeps ==
  ASSUME BoxInv, B!BoxAssumption, NEW v \in Holders, B!Destruct(v)
  PROVE  BoxInv'
<1> DEFINE p == boxData[v]
<1>1. /\ B!Idle /\ v \in boxScope /\ boxScope' = boxScope \ {v} /\ todo' = B!Deletion(p)
      /\ boxData' = boxData /\ life' = life /\ released' = released /\ wrong' = wrong
      /\ inside' = inside /\ v \in B!Boxes /\ v \notin Cells
  BY DEF B!Destruct, B!BoxAssumption, B!Boxes
<1>2. BoxAtRest /\ BoxLive(v) /\ p \in Cells \cup {Null} /\ Null \notin Cells
  BY <1>1, BoxRestIs DEF BoxLive, BoxAtRest, BoxTyped, B!BoxAssumption
<1>3. BoxDeletesFor(p, v, v, <<>>)
  <2>1. B!Deletion(p) \in Seq(BoxSteps)
    <3>1. p # Null => <<"destruct", p>> \in BoxSteps /\ <<"free", p>> \in BoxSteps
      BY <1>2 DEF BoxSteps
    <3>2. QED
      BY <3>1 DEF B!Deletion
  <2>2. B!Deletion(p) \o <<>> = B!Deletion(p)
    BY <2>1, ConcatEmptySeq
  <2>3. QED
    BY <1>1, <1>2, <2>2 DEF BoxDeletesFor
<1>4. \A c, d : ~BoxResets(c)' /\ ~BoxTakes(c, d)'
  BY <1>3, BoxBegunHas
<1>5. BoxStays'
  BY <1>1, <1>2, <1>4, BoxNoTarget DEF BoxAtRest, BoxTyped
<1>6. \A c \in B!Boxes : BoxLive(c)' <=> BoxLive(c) /\ c # v
  BY <1>1 DEF BoxLive, B!Boxes
<1>7. \A c \in B!Boxes : BoxLive(c) /\ boxData[c] = p /\ p # Null => c = v
  BY <1>1, <1>2 DEF BoxAtRest, BoxHasOwner
<1>8. p = Null \/ (life[p] = "alive" /\ p \notin released)
  BY <1>1, <1>2 DEF BoxAtRest, BoxHasOwner
<1>9. p \notin released
  BY <1>2, <1>8 DEF BoxAtRest, BoxTyped
<1> HIDE DEF p
<1>10. released' = released \ {p} /\ boxScope' \subseteq boxScope
  BY <1>1, <1>9
<1>11. \A c \in B!Boxes : boxData[c] # Null =>
         (BoxLive(c)' /\ ~BoxResets(c)' <=> BoxLive(c) /\ boxData[c] # p)
  BY <1>4, <1>6, <1>7 DEF p
<1>12. QED
  BY <1>1, <1>2, <1>3, <1>5, <1>8, <1>10, <1>11, BoxBegins DEF BoxAtRest, BoxTyped

LEMMA BoxDeletePtrKeeps ==
  ASSUME BoxInv, B!BoxAssumption, NEW o \in Cells, B!DeletePtr(o)
  PROVE  BoxInv'
<1>1. /\ B!Idle /\ o \in released /\ boxScope' = boxScope /\ todo' = B!Deletion(o)
      /\ boxData' = boxData /\ life' = life /\ released' = released \ {o} /\ wrong' = wrong
      /\ inside' = inside
  BY DEF B!DeletePtr
<1>2. BoxAtRest
  BY <1>1, BoxRestIs
<1>3. BoxDeletesFor(o, o, o, <<>>)
  <2>1. <<"destruct", o>> \in BoxSteps /\ <<"free", o>> \in BoxSteps
    BY DEF BoxSteps
  <2>2. B!Deletion(o) \in Seq(BoxSteps)
    BY <2>1 DEF B!Deletion
  <2>3. B!Deletion(o) \o <<>> = B!Deletion(o)
    BY <2>2, ConcatEmptySeq
  <2>4. QED
    BY <1>1, <2>3 DEF BoxDeletesFor
<1>4. \A c, d : ~BoxResets(c)' /\ ~BoxTakes(c, d)'
  BY <1>3, BoxBegunHas
<1>5. BoxStays'
  BY <1>1, <1>2, <1>4, BoxNoTarget DEF BoxAtRest, BoxTyped
<1>6. \A c \in B!Boxes : (BoxLive(c)' <=> BoxLive(c)) /\ (BoxLive(c) /\ boxData[c] # Null => boxData[c] # o)
  BY <1>1, <1>2 DEF BoxLive, BoxAtRest, BoxHasOwner
<1>7. life[o] = "alive"
  BY <1>1, <1>2 DEF BoxAtRest, BoxHasOwner
<1>8. \A c \in B!Boxes : boxData[c] # Null =>
        (BoxLive(c)' /\ ~BoxResets(c)' <=> BoxLive(c) /\ boxData[c] # o)
  BY <1>4, <1>6
<1>9. QED
  BY <1>1, <1>2, <1>3, <1>5, <1>7, <1>8, BoxBegins DEF BoxAtRest, BoxTyped

LEMMA BoxResetKeeps ==
  ASSUME BoxInv, B!BoxAssumption, NEW a \in B!Boxes, NEW b \in B!Boxes,
         B!Reset(a) \/ B!MoveAssign(a, b)
  PROVE  BoxInv'
<1> DEFINE p == boxData[a]
<1>1. /\ B!Idle /\ a \in B!Named /\ boxScope' = boxScope /\ boxData' = boxData /\ life' = life
      /\ released' = released /\ wrong' = wrong
  BY DEF B!Reset, B!MoveAssign
<1>2. BoxAtRest /\ BoxLive(a) /\ p \in Cells \cup {Null} /\ Null \notin Cells
  BY <1>1, BoxRestIs, BoxNamedLive DEF BoxAtRest, BoxTyped, B!BoxAssumption
<1>3. PICK r : /\ BoxDeletesFor(p, a, b, r) /\ r # <<>>
               /\ \/ r = <<<<"reset", a>>>> /\ inside' = inside
                  \/ b \in B!Named /\ inside' = (inside \/ b \in B!Below(a))
  <2>1. CASE B!Reset(a)
    BY <1>2, <2>1 DEF B!Reset, BoxDeletesFor
  <2>2. CASE B!MoveAssign(a, b)
    BY <1>2, <2>2 DEF B!MoveAssign, BoxDeletesFor
  <2>3. QED
    BY <2>1, <2>2
<1>4. /\ \A c : BoxResets(c)' <=> c = a
      /\ \A c, d : BoxTakes(c, d)' =>
           c = a /\ d = b /\ r = <<<<"reset", a>>, <<"take", a, b>>>>
      /\ \A o \in Cells : BoxDoomed(o)' <=> (p # Null /\ o = p)
  BY <1>3, BoxBegunHas
<1>5. inside' \in BOOLEAN /\ (inside => inside')
  <2>1. inside \in BOOLEAN
    BY <1>2 DEF BoxAtRest, BoxTyped
  <2>2. CASE inside' = inside
    BY <2>1, <2>2
  <2>3. CASE inside' = (inside \/ b \in B!Below(a))
    BY <2>1, <2>3, Zenon
  <2>4. QED
    BY <1>3, <2>2, <2>3
<1>6. \A c \in B!Boxes : BoxLive(c)' <=> BoxLive(c)
  BY <1>1 DEF BoxLive
<1>7. BoxStays'
  <2>1. /\ B!Below(a) \subseteq Cells /\ B!Closed(B!Below(a)) /\ a \notin B!Below(a)
        /\ p # Null => p \in B!Below(a)
    BY <1>1, <1>2, BoxBelowIs, BoxNamedApart DEF BoxAtRest
  <2>2. ASSUME NEW c \in B!Boxes, NEW d \in B!Boxes, BoxTakes(c, d)'
        PROVE  (d \notin B!Below(a) /\ BoxLive(d)') \/ (inside' /\ d \in Cells)
    <3>1. d = b /\ r = <<<<"reset", a>>, <<"take", a, b>>>>
      BY <1>4, <2>2
    <3>2. <<<<"reset", a>>, <<"take", a, b>>>> # <<<<"reset", a>>>>
      OBVIOUS
    <3>3. b \in B!Named /\ inside' = (inside \/ b \in B!Below(a))
      BY <1>3, <3>1, <3>2
    <3>4. BoxLive(b)'
      BY <1>1, <1>6, <3>3, BoxNamedLive
    <3>5. QED
      BY <2>1, <3>1, <3>3, <3>4
  <2>3. PICK X : /\ X \subseteq Cells /\ B!Closed(X) /\ a \notin X
                 /\ p # Null => p \in X
                 /\ \A c, d \in B!Boxes : BoxTakes(c, d)' =>
                      (d \notin X /\ BoxLive(d)') \/ (inside' /\ d \in Cells)
    BY <2>1, <2>2
  <2>4. \E D : BoxClear(D)'
    <3>1. B!Closed(X)'
      BY <1>1, <2>3 DEF B!Closed
    <3>2. \A c \in B!Boxes : BoxTarget(c)' => c = a /\ BoxLive(c)'
      BY <1>2, <1>4, <1>6 DEF BoxTarget
    <3>3. \A o \in Cells : BoxDoomed(o)' => o \in X
      BY <1>4, <2>3
    <3>4. BoxClear(X)'
      BY <2>3, <3>1, <3>2, <3>3 DEF BoxClear
    <3>5. QED
      BY <3>4
  <2>5. QED
    BY <2>4 DEF BoxStays
<1>8. p = Null \/ (life[p] = "alive" /\ p \notin released)
  BY <1>2 DEF BoxAtRest, BoxHasOwner
<1>9. p \notin released
  BY <1>2, <1>8 DEF BoxAtRest, BoxTyped
<1>10. \A c \in B!Boxes : BoxLive(c) /\ boxData[c] = p /\ p # Null => c = a
  BY <1>2 DEF BoxAtRest, BoxHasOwner
<1>11. \A c \in B!Boxes : boxData[c] # Null =>
         (BoxLive(c)' /\ ~BoxResets(c)' <=> BoxLive(c) /\ boxData[c] # p)
  BY <1>4, <1>6, <1>10
<1> HIDE DEF p
<1>12. released' = released \ {p} /\ boxScope' \subseteq boxScope
  BY <1>1, <1>9
<1>13. p = Null \/ life[p] = "alive"
  BY <1>8
<1>14. QED
  BY <1>1, <1>3, <1>5, <1>7, <1>11, <1>12, <1>13, BoxBegins

-----------------------------------------------------------------------------
\* What the running operation does next.
LEMMA BoxHeadIs ==
  ASSUME BoxInv, B!BoxAssumption, todo # <<>>
  PROVE  /\ Head(todo)[1] = "destruct" => /\ Head(todo) = <<"destruct", Head(todo)[2]>>
                                          /\ Head(todo)[2] \in Cells
         /\ Head(todo)[1] = "free" => /\ Head(todo) = <<"free", Head(todo)[2]>>
                                      /\ Head(todo)[2] \in Cells
         /\ Head(todo)[1] = "reset" => /\ Head(todo) = <<"reset", Head(todo)[2]>>
                                       /\ Head(todo)[2] \in B!Boxes
         /\ Head(todo)[1] = "take" =>
              /\ Head(todo) = <<"take", Head(todo)[2], Head(todo)[3]>>
              /\ Head(todo)[2] \in B!Boxes /\ Head(todo)[3] \in B!Boxes
<1>1. Head(todo) \in BoxSteps
  BY BoxTailHas DEF BoxInv, BoxShape
<1>2. QED
  BY <1>1 DEF BoxSteps

LEMMA BoxDestroyHas ==
  ASSUME BoxInv, B!BoxAssumption, B!DestroyObject
  PROVE  \E o \in Cells :
           /\ Tail(todo) \in Seq(BoxSteps) /\ BoxCalm(Tail(todo))
           /\ \A x : BoxHas(todo, x) <=> x = <<"destruct", o>> \/ BoxHas(Tail(todo), x)
           /\ Head(todo)[2] = o
           /\ BoxFreeing(o)
           /\ \A q : BoxDoomed(q) <=> q = o
           /\ life[o] = "alive" /\ ~BoxResets(o)
           /\ boxData[o] # Null => BoxOwns(o, boxData[o])
<1>1. todo # <<>> /\ Head(todo)[1] = "destruct" /\ todo \in Seq(BoxSteps)
  BY DEF B!DestroyObject, B!Resume, BoxInv, BoxShape
<1>2. PICK o \in Cells : Head(todo) = <<"destruct", o>> /\ Head(todo)[2] = o
  BY <1>1, BoxHeadIs
<1>3. \A x : BoxHas(todo, x) <=> x = <<"destruct", o>> \/ BoxHas(Tail(todo), x)
  BY <1>1, <1>2, BoxTailHas
<1>4. ~BoxCalm(todo)
  BY <1>1, <1>3, BoxCalmTail
<1>5. /\ Tail(todo) \in Seq(BoxSteps) /\ Tail(todo) # <<>> /\ BoxCalm(Tail(todo))
      /\ \E q \in Cells : Head(todo) = <<"destruct", q>> /\ Head(Tail(todo)) = <<"free", q>>
  BY <1>1, <1>4, BoxTailHas DEF BoxInv, BoxShape
<1>6. Head(Tail(todo)) = <<"free", o>>
  BY <1>2, <1>5
<1>7. BoxHas(Tail(todo), <<"free", o>>) /\ \A q : ~BoxHas(Tail(todo), <<"destruct", q>>)
  BY <1>5, <1>6, BoxTailHas, BoxCalmTail
<1>8. BoxFreeing(o) /\ \A q : BoxDoomed(q) <=> q = o
  BY <1>3, <1>7 DEF BoxFreeing, BoxDoomed
<1>9. life[o] = "alive"
  BY <1>8 DEF BoxInv, BoxOwned
<1>10. ~BoxResets(o)
  <2>1. PICK X : BoxClear(X)
    BY DEF BoxInv, BoxStays
  <2>2. o \in X
    BY <1>8, <2>1 DEF BoxClear
  <2>3. QED
    BY <2>1, <2>2 DEF BoxClear, BoxTarget, B!Boxes
<1>11. BoxLive(o)
  BY <1>9 DEF BoxLive
<1>12. QED
  BY <1>2, <1>3, <1>5, <1>8, <1>9, <1>10, <1>11 DEF BoxOwns

LEMMA BoxDestroyKeeps ==
  ASSUME BoxInv, B!BoxAssumption, B!DestroyObject
  PROVE  BoxInv'
<1>1. PICK o \in Cells :
        /\ Tail(todo) \in Seq(BoxSteps) /\ BoxCalm(Tail(todo))
        /\ \A x : BoxHas(todo, x) <=> x = <<"destruct", o>> \/ BoxHas(Tail(todo), x)
        /\ Head(todo)[2] = o
        /\ BoxFreeing(o)
        /\ \A q : BoxDoomed(q) <=> q = o
        /\ life[o] = "alive" /\ ~BoxResets(o)
        /\ boxData[o] # Null => BoxOwns(o, boxData[o])
  BY BoxDestroyHas
<1>2. PICK p : p = boxData[o]
  OBVIOUS
<1>3. PICK t : t = Tail(todo)
  OBVIOUS
<1>4. /\ boxScope' = boxScope /\ released' = released /\ boxData' = boxData /\ inside' = inside
      /\ life' = [life EXCEPT ![o] = "dead"] /\ todo' = B!Deletion(p) \o t
      /\ wrong' = wrong
  BY <1>1, <1>2, <1>3 DEF B!DestroyObject, B!Fault
<1>5. p \in Cells \cup {Null} /\ o \in B!Boxes /\ o \notin boxScope /\ Null \notin Cells
  BY <1>2 DEF BoxInv, BoxTyped, B!Boxes, B!BoxAssumption
<1>6. p # Null => BoxOwns(o, p) /\ life[p] = "alive" /\ p \notin released /\ p # o
  BY <1>1, <1>2, <1>5 DEF BoxInv, BoxOwned
<1>7. ~BoxHas(t, <<"free", p>>)
  <2>1. CASE p = Null
    <3>1. <<"free", p>> \notin BoxSteps
      BY <1>5, <2>1 DEF BoxSteps
    <3>2. \A i \in 1..Len(t) : t[i] \in BoxSteps
      BY <1>1, <1>3
    <3>3. QED
      BY <3>1, <3>2 DEF BoxHas
  <2>2. CASE p # Null
    <3>1. ~BoxFreeing(p)
      BY <1>1, <1>5, <1>6, <2>2 DEF BoxInv, BoxDying
    <3>2. QED
      BY <1>1, <1>3, <3>1 DEF BoxFreeing
  <2>3. QED
    BY <2>1, <2>2
<1>8. /\ BoxShape'
      /\ \A q \in Cells : BoxDoomed(q)' <=> (p # Null /\ q = p)
      /\ \A q \in Cells : BoxFreeing(q)' <=> (p # Null /\ q = p) \/ BoxHas(t, <<"free", q>>)
      /\ \A a : BoxResets(a)' <=> BoxHas(t, <<"reset", a>>)
      /\ \A a, b : BoxTakes(a, b)' <=> BoxHas(t, <<"take", a, b>>)
  BY <1>1, <1>3, <1>4, <1>5, <1>7, BoxDeletionHas
<1>9. /\ \A q \in Cells : BoxFreeing(q)' <=> (p # Null /\ q = p) \/ BoxFreeing(q)
      /\ \A a : BoxResets(a)' <=> BoxResets(a)
      /\ \A a, b : BoxTakes(a, b)' <=> BoxTakes(a, b)
  <2>1. /\ \A q : BoxHas(todo, <<"free", q>>) <=> BoxHas(t, <<"free", q>>)
        /\ \A a : BoxHas(todo, <<"reset", a>>) <=> BoxHas(t, <<"reset", a>>)
        /\ \A a, b : BoxHas(todo, <<"take", a, b>>) <=> BoxHas(t, <<"take", a, b>>)
    BY <1>1, <1>3
  <2>2. QED
    BY <1>8, <2>1 DEF BoxFreeing, BoxResets, BoxTakes
<1>10. /\ life'[o] = "dead" /\ \A q \in Cells \ {o} : life'[q] = life[q]
       /\ BoxTyped'
  BY <1>4 DEF BoxInv, BoxTyped
<1>11. /\ \A b \in B!Boxes : BoxLive(b)' <=> BoxLive(b) /\ b # o
       /\ \A b \in B!Boxes, q \in Cells : BoxOwns(b, q)' <=> BoxOwns(b, q) /\ b # o
  <2>1. \A b \in B!Boxes : BoxLive(b)' <=> BoxLive(b) /\ b # o
    BY <1>4, <1>5, <1>10 DEF BoxLive
  <2>2. QED
    BY <1>4, <1>9, <2>1 DEF BoxOwns
<1>12. BoxDying'
  <2>1. SUFFICES ASSUME NEW q \in Cells
                 PROVE  life'[q] = "dead" <=> BoxFreeing(q)' /\ ~BoxDoomed(q)'
    BY DEF BoxDying
  <2>2. life[q] = "dead" <=> BoxFreeing(q) /\ q # o
    BY <1>1 DEF BoxInv, BoxDying
  <2>3. QED
    BY <1>1, <1>6, <1>8, <1>9, <1>10, <2>2
<1>13. BoxOwned'
  <2>1. ASSUME NEW q \in Cells, life'[q] = "alive"
        PROVE  q \in released' \/ BoxDoomed(q)' \/ \E b \in B!Boxes : BoxOwns(b, q)'
    <3>1. q # o /\ life[q] = "alive"
      BY <1>10, <2>1
    <3>2. q \in released \/ \E b \in B!Boxes : BoxOwns(b, q)
      BY <1>1, <3>1 DEF BoxInv, BoxOwned
    <3>3. BoxOwns(o, q) => q = p /\ p # Null
      BY <1>2, <1>5 DEF BoxOwns
    <3>4. QED
      BY <1>4, <1>8, <1>11, <3>2, <3>3
  <2>2. \A q \in Cells : q \in released' => life'[q] = "alive" /\ ~BoxDoomed(q)'
    BY <1>1, <1>4, <1>6, <1>8, <1>10 DEF BoxInv, BoxOwned
  <2>3. \A q \in Cells : BoxDoomed(q)' => life'[q] = "alive"
    BY <1>6, <1>8, <1>10
  <2>4. ASSUME NEW q \in Cells, NEW b \in B!Boxes, BoxOwns(b, q)'
        PROVE  life'[q] = "alive" /\ q \notin released' /\ ~BoxDoomed(q)'
    <3>1. BoxOwns(b, q) /\ b # o /\ life[q] = "alive" /\ q \notin released /\ q # o
      BY <1>1, <1>11, <2>4 DEF BoxInv, BoxOwned
    <3>2. q = p /\ p # Null => FALSE
      BY <1>5, <1>6, <3>1 DEF BoxInv, BoxOwned
    <3>3. QED
      BY <1>4, <1>8, <1>10, <3>1, <3>2
  <2>5. \A q \in Cells, b, c \in B!Boxes : BoxOwns(b, q)' /\ BoxOwns(c, q)' => b = c
    BY <1>11 DEF BoxInv, BoxOwned
  <2>6. QED
    BY <2>1, <2>2, <2>3, <2>4, <2>5 DEF BoxOwned
<1>14. BoxForgotten'
  BY <1>4, <1>10 DEF BoxInv, BoxForgotten
<1>15. BoxStays'
  <2>1. PICK X : BoxClear(X)
    BY DEF BoxInv, BoxStays
  <2>2. o \in X /\ X \subseteq Cells /\ B!Closed(X)
    BY <1>1, <2>1 DEF BoxClear
  <2>3. p # Null => p \in X
    BY <1>2, <2>2 DEF B!Closed
  <2>4. B!Closed(X)'
    BY <1>4, <2>2 DEF B!Closed
  <2>5. \A a \in B!Boxes : BoxTarget(a)' => BoxTarget(a)
    BY <1>9 DEF BoxTarget
  <2>6. BoxClear(X)'
    BY <1>4, <1>8, <1>9, <1>11, <2>1, <2>2, <2>3, <2>4, <2>5 DEF BoxClear
  <2>7. QED
    BY <2>6 DEF BoxStays
<1>16. BoxWasReset'
  BY <1>4, <1>9 DEF BoxInv, BoxWasReset, BoxTarget
<1>17. QED
  BY <1>4, <1>8, <1>10, <1>12, <1>13, <1>14, <1>15, <1>16 DEF BoxInv

\* What is left when a free, a reset or an assignment is next.
LEMMA BoxCalmIs ==
  ASSUME BoxInv, B!BoxAssumption, todo # <<>>, Head(todo)[1] # "destruct"
  PROVE  /\ BoxCalm(todo) /\ todo \in Seq(BoxSteps) /\ Tail(todo) \in Seq(BoxSteps)
         /\ BoxCalm(Tail(todo)) /\ \A o : ~BoxDoomed(o)
         /\ \A x : BoxHas(todo, x) <=> x = Head(todo) \/ BoxHas(Tail(todo), x)
<1>1. todo \in Seq(BoxSteps)
  BY DEF BoxInv, BoxShape
<1>2. BoxCalm(todo)
  <2>1. SUFFICES ASSUME NEW o, Head(todo) = <<"destruct", o>> PROVE FALSE
    BY DEF BoxInv, BoxShape
  <2>2. Head(todo)[1] = "destruct"
    BY <2>1
  <2>3. QED
    BY <2>2
<1>3. QED
  BY <1>1, <1>2, BoxTailHas, BoxCalmTail DEF BoxDoomed

LEMMA BoxFreeKeeps ==
  ASSUME BoxInv, B!BoxAssumption, B!FreeObject
  PROVE  BoxInv'
<1>1. todo # <<>> /\ Head(todo)[1] = "free"
  BY DEF B!FreeObject, B!Resume
<1>2. PICK o \in Cells : Head(todo) = <<"free", o>> /\ Head(todo)[2] = o
  BY <1>1, BoxHeadIs
<1>3. PICK t : t = Tail(todo)
  OBVIOUS
<1>4. /\ BoxCalm(todo) /\ todo \in Seq(BoxSteps) /\ t \in Seq(BoxSteps)
      /\ BoxCalm(t) /\ \A q : ~BoxDoomed(q)
      /\ \A x : BoxHas(todo, x) <=> x = <<"free", o>> \/ BoxHas(t, x)
      /\ ~BoxHas(t, <<"free", o>>)
  BY <1>1, <1>2, <1>3, BoxCalmIs, BoxCalmTail
<1>5. /\ \A q : ~BoxDoomed(q)' /\ (BoxFreeing(q)' <=> BoxFreeing(q) /\ q # o)
      /\ \A a : BoxResets(a)' <=> BoxResets(a)
      /\ \A a, b : BoxTakes(a, b)' <=> BoxTakes(a, b)
      /\ BoxShape' /\ BoxFreeing(o)
  <2>1. todo' = t
    BY <1>3 DEF B!FreeObject
  <2>2. /\ \A q : BoxHas(todo, <<"free", q>>) <=> q = o \/ BoxHas(t, <<"free", q>>)
        /\ \A q : ~BoxHas(t, <<"destruct", q>>)
        /\ \A a : BoxHas(todo, <<"reset", a>>) <=> BoxHas(t, <<"reset", a>>)
        /\ \A a, b : BoxHas(todo, <<"take", a, b>>) <=> BoxHas(t, <<"take", a, b>>)
    BY <1>4 DEF BoxDoomed
  <2>3. QED
    BY <1>4, <2>1, <2>2 DEF BoxDoomed, BoxFreeing, BoxResets, BoxTakes, BoxShape
<1>6. life[o] = "dead"
  BY <1>4, <1>5 DEF BoxInv, BoxDying
<1>7. /\ boxScope' = boxScope /\ released' = released /\ inside' = inside /\ wrong' = wrong
      /\ life' = [life EXCEPT ![o] = "free"] /\ boxData' = [boxData EXCEPT ![o] = Null]
  BY <1>2, <1>6 DEF B!FreeObject, B!Fault
<1>8. o \in B!Boxes /\ o \notin boxScope /\ Null \notin Cells
  BY DEF BoxInv, BoxTyped, B!Boxes, B!BoxAssumption
<1>9. /\ BoxTyped' /\ life'[o] = "free" /\ \A q \in Cells \ {o} : life'[q] = life[q]
      /\ boxData'[o] = Null /\ \A b \in B!Boxes \ {o} : boxData'[b] = boxData[b]
  BY <1>7, <1>8 DEF BoxInv, BoxTyped
<1>10. ~BoxLive(o) /\ \A b \in B!Boxes : BoxLive(b)' <=> BoxLive(b)
  BY <1>6, <1>7, <1>8, <1>9 DEF BoxLive
<1>11. \A b \in B!Boxes, q \in Cells : BoxOwns(b, q)' <=> BoxOwns(b, q)
  BY <1>5, <1>8, <1>9, <1>10 DEF BoxOwns
<1>12. BoxDying'
  BY <1>4, <1>5, <1>9 DEF BoxInv, BoxDying
<1>13. BoxOwned'
  <2>1. ASSUME NEW q \in Cells
        PROVE  life'[q] = "alive" <=> life[q] = "alive"
    BY <1>6, <1>9
  <2>2. QED
    BY <1>4, <1>5, <1>7, <1>11, <2>1 DEF BoxInv, BoxOwned
<1>14. BoxForgotten'
  BY <1>8, <1>9 DEF BoxInv, BoxForgotten, B!Boxes
<1>15. BoxStays'
  <2>1. PICK X : BoxClear(X)
    BY DEF BoxInv, BoxStays
  <2>2. B!Closed(X)'
    BY <1>8, <1>9, <2>1 DEF B!Closed, BoxClear, B!Boxes
  <2>3. \A a \in B!Boxes : BoxTarget(a)' => BoxTarget(a)
    BY <1>5 DEF BoxTarget
  <2>4. BoxClear(X)'
    BY <1>5, <1>7, <1>10, <2>1, <2>2, <2>3 DEF BoxClear
  <2>5. QED
    BY <2>4 DEF BoxStays
<1>16. BoxWasReset'
  <2>1. \A a \in B!Boxes : BoxTarget(a)' /\ ~BoxResets(a)' => boxData[a] = Null
    BY <1>5 DEF BoxInv, BoxWasReset, BoxTarget
  <2>2. QED
    BY <1>9, <2>1 DEF BoxWasReset
<1>17. QED
  BY <1>5, <1>7, <1>9, <1>12, <1>13, <1>14, <1>15, <1>16 DEF BoxInv

LEMMA BoxFinishResetKeeps ==
  ASSUME BoxInv, B!BoxAssumption, B!FinishReset
  PROVE  BoxInv'
<1>1. todo # <<>> /\ Head(todo)[1] = "reset"
  BY DEF B!FinishReset, B!Resume
<1>2. PICK a \in B!Boxes : Head(todo) = <<"reset", a>> /\ Head(todo)[2] = a
  BY <1>1, BoxHeadIs
<1>3. PICK t : t = Tail(todo)
  OBVIOUS
<1>4. /\ BoxCalm(todo) /\ todo \in Seq(BoxSteps) /\ t \in Seq(BoxSteps)
      /\ BoxCalm(t) /\ \A q : ~BoxDoomed(q)
      /\ \A x : BoxHas(todo, x) <=> x = <<"reset", a>> \/ BoxHas(t, x)
      /\ t = <<>> \/ \E b \in B!Boxes : t = <<<<"take", a, b>>>>
  BY <1>1, <1>2, <1>3, BoxCalmIs, BoxCalmTail
<1>5. /\ \A q : ~BoxHas(t, <<"free", q>>) /\ ~BoxHas(t, <<"destruct", q>>)
      /\ \A c : ~BoxHas(t, <<"reset", c>>)
      /\ \A c, d : BoxHas(t, <<"take", c, d>>) => c = a
  <2>1. \A i \in 1..Len(t) : \E b \in B!Boxes : t[i] = <<"take", a, b>>
    <3>1. CASE t = <<>>
      BY <3>1
    <3>2. CASE \E b \in B!Boxes : t = <<<<"take", a, b>>>>
      BY <3>2
    <3>3. QED
      BY <1>4, <3>1, <3>2
  <2>2. QED
    BY <2>1 DEF BoxHas
<1>6. /\ \A q : ~BoxDoomed(q)' /\ ~BoxFreeing(q)' /\ ~BoxFreeing(q)
      /\ \A c : ~BoxResets(c)' /\ (BoxResets(c) <=> c = a)
      /\ \A c, d : BoxTakes(c, d)' <=> BoxTakes(c, d)
      /\ \A c, d : BoxTakes(c, d) => c = a
      /\ BoxShape'
  <2>1. todo' = t
    BY <1>3 DEF B!FinishReset
  <2>2. /\ \A q : ~BoxHas(todo, <<"free", q>>)
        /\ \A c : BoxHas(todo, <<"reset", c>>) <=> c = a
        /\ \A c, d : BoxHas(todo, <<"take", c, d>>) <=> BoxHas(t, <<"take", c, d>>)
    BY <1>4, <1>5
  <2>3. QED
    BY <1>4, <1>5, <2>1, <2>2 DEF BoxDoomed, BoxFreeing, BoxResets, BoxTakes, BoxShape
<1>7. PICK X : BoxClear(X)
  BY DEF BoxInv, BoxStays
<1>8. a \notin X /\ BoxLive(a)
  BY <1>6, <1>7 DEF BoxClear, BoxTarget
<1>9. B!There(a)
  BY <1>8 DEF BoxLive, B!There, BoxInv, BoxTyped
<1>10. /\ boxScope' = boxScope /\ released' = released /\ inside' = inside /\ wrong' = wrong
       /\ life' = life /\ boxData' = [boxData EXCEPT ![a] = Null]
  BY <1>2, <1>9 DEF B!FinishReset, B!Fault
<1>11. Null \notin Cells
  BY DEF B!BoxAssumption
<1>12. /\ BoxTyped' /\ boxData'[a] = Null
       /\ \A b \in B!Boxes \ {a} : boxData'[b] = boxData[b]
  BY <1>10 DEF BoxInv, BoxTyped
<1>13. \A b \in B!Boxes : BoxLive(b)' <=> BoxLive(b)
  BY <1>10 DEF BoxLive
<1>14. \A b \in B!Boxes, q \in Cells : BoxOwns(b, q)' <=> BoxOwns(b, q)
  BY <1>6, <1>11, <1>12, <1>13 DEF BoxOwns
<1>15. BoxDying'
  BY <1>6, <1>10 DEF BoxInv, BoxDying
<1>16. BoxOwned'
  BY <1>4, <1>6, <1>10, <1>14 DEF BoxInv, BoxOwned
<1>17. BoxForgotten'
  <2>1. \A o \in Cells : life[o] = "free" => boxData[o] = Null
    BY DEF BoxInv, BoxForgotten
  <2>2. QED
    BY <1>10, <1>12, <2>1 DEF BoxForgotten, B!Boxes
<1>18. BoxStays'
  <2>1. B!Closed(X)'
    BY <1>7, <1>8, <1>12 DEF B!Closed, BoxClear, B!Boxes
  <2>2. \A c \in B!Boxes : BoxTarget(c)' => BoxTarget(c)
    BY <1>6 DEF BoxTarget
  <2>3. BoxClear(X)'
    BY <1>6, <1>7, <1>10, <1>13, <2>1, <2>2 DEF BoxClear
  <2>4. QED
    BY <2>3 DEF BoxStays
<1>19. BoxWasReset'
  BY <1>6, <1>12 DEF BoxWasReset, BoxTarget
<1>20. QED
  BY <1>6, <1>10, <1>12, <1>15, <1>16, <1>17, <1>18, <1>19 DEF BoxInv

LEMMA BoxFinishAssignKeeps ==
  ASSUME BoxInv, B!BoxAssumption, B!FinishAssign
  PROVE  BoxInv'
<1>1. todo # <<>> /\ Head(todo)[1] = "take"
  BY DEF B!FinishAssign, B!Resume
<1>2. PICK a \in B!Boxes, b \in B!Boxes :
        Head(todo) = <<"take", a, b>> /\ Head(todo)[2] = a /\ Head(todo)[3] = b
  BY <1>1, BoxHeadIs
<1>3. /\ BoxCalm(todo) /\ todo \in Seq(BoxSteps) /\ \A q : ~BoxDoomed(q)
      /\ \A x : BoxHas(todo, x) <=> x = <<"take", a, b>> \/ BoxHas(Tail(todo), x)
      /\ Tail(todo) = <<>>
  BY <1>1, <1>2, BoxCalmIs, BoxCalmTail
<1>4. \A x : BoxHas(todo, x) <=> x = <<"take", a, b>>
  <2>1. \A x : ~BoxHas(<<>>, x)
    BY DEF BoxHas
  <2>2. QED
    BY <1>3, <2>1
<1>5. /\ BoxTakes(a, b) /\ \A q : ~BoxResets(q) /\ ~BoxFreeing(q)
      /\ B!Idle'
  BY <1>3, <1>4 DEF BoxTakes, BoxResets, BoxFreeing, B!Idle, B!FinishAssign
<1>6. PICK X : BoxClear(X)
  BY DEF BoxInv, BoxStays
<1>7. /\ BoxLive(a) /\ boxData[a] = Null
      /\ BoxLive(b) \/ (inside /\ b \in Cells)
  BY <1>5, <1>6 DEF BoxClear, BoxTarget, BoxInv, BoxWasReset
<1>8. BoxLive(b) => B!There(b)
  BY DEF BoxLive, B!There, BoxInv, BoxTyped
<1>9. /\ boxScope' = boxScope /\ released' = released /\ inside' = inside /\ life' = life
      /\ wrong' = {} \/ inside'
      /\ boxData'[b] = Null /\ (a # b => boxData'[a] = boxData[b])
      /\ \A c \in B!Boxes \ {a, b} : boxData'[c] = boxData[c]
      /\ BoxTyped'
  BY <1>2, <1>7, <1>8 DEF B!FinishAssign, B!Fault, BoxInv, BoxTyped
<1>10. /\ \A o \in Cells : life[o] # "dead"
       /\ Null \notin Cells
  BY <1>3, <1>5 DEF BoxInv, BoxDying, B!BoxAssumption
<1>11. ~BoxLive(b) => boxData[b] = Null
  BY <1>7, <1>10 DEF BoxLive, BoxInv, BoxForgotten, BoxTyped
<1>12. \A c \in B!Boxes : BoxLive(c)' <=> BoxLive(c)
  BY <1>9 DEF BoxLive
<1>13. \A c \in B!Boxes, o \in Cells : BoxOwns(c, o) <=> boxData[c] = o /\ BoxLive(c)
  BY <1>5 DEF BoxOwns
<1>14. BoxHasOwner
  <2>1. \A c \in B!Boxes : boxData[c] # Null => boxData[c] \in Cells
    BY DEF BoxInv, BoxTyped
  <2>2. QED
    BY <1>3, <1>13, <2>1 DEF BoxHasOwner, BoxInv, BoxOwned, BoxTyped
<1>15. BoxHasOwner'
  <2>1. ASSUME NEW q \in Cells, life'[q] = "alive"
        PROVE  q \in released' \/ \E c \in B!Boxes : boxData'[c] = q /\ BoxLive(c)'
    <3>1. q \in released \/ \E c \in B!Boxes : boxData[c] = q /\ BoxLive(c)
      BY <1>9, <1>14, <2>1 DEF BoxHasOwner
    <3>2. QED
      BY <1>7, <1>9, <1>10, <1>12, <3>1
  <2>2. \A q \in released' : life'[q] = "alive"
    BY <1>9, <1>14 DEF BoxHasOwner
  <2>3. ASSUME NEW c \in B!Boxes, BoxLive(c)', boxData'[c] # Null
        PROVE  life'[boxData'[c]] = "alive" /\ boxData'[c] \notin released'
    BY <1>7, <1>9, <1>11, <1>12, <1>14, <2>3 DEF BoxHasOwner
  <2>4. ASSUME NEW c \in B!Boxes, NEW d \in B!Boxes, BoxLive(c)', BoxLive(d)',
               boxData'[c] = boxData'[d], boxData'[c] # Null
        PROVE  c = d
    BY <1>7, <1>9, <1>11, <1>12, <1>14, <2>4 DEF BoxHasOwner
  <2>5. QED
    BY <2>1, <2>2, <2>3, <2>4 DEF BoxHasOwner
<1>16. BoxForgotten'
  <2>1. \A q \in Cells : life[q] = "free" => q # a /\ boxData[q] = Null
    BY <1>7 DEF BoxLive, BoxInv, BoxForgotten, BoxTyped, B!BoxAssumption
  <2>2. QED
    BY <1>9, <2>1 DEF BoxForgotten, B!Boxes
<1>17. QED
  BY <1>5, <1>9, <1>10, <1>15, <1>16, BoxRestHolds DEF BoxAtRest

-----------------------------------------------------------------------------
\* Every operation of the program keeps the invariant, and every continuation.
LEMMA BoxInit == ASSUME B!BoxAssumption, B!Init PROVE BoxInv
<1>1. B!Idle
  BY DEF B!Init, B!Idle
<1>2. /\ \A o, a, b : ~BoxDoomed(o) /\ ~BoxFreeing(o) /\ ~BoxResets(a) /\ ~BoxTakes(a, b)
      /\ \A b \in B!Boxes : boxData[b] = Null
      /\ Null \notin Cells
      /\ \A o \in Cells : life[o] = "free"
      /\ \A b \in B!Boxes : ~BoxLive(b)
  BY <1>1, BoxIdleIs DEF B!Init, B!BoxAssumption, B!Boxes, BoxLive
<1>3. BoxTyped
  BY DEF B!Init, BoxTyped
<1>4. BoxShape
  <2>1. BoxCalm(<<>>) /\ <<>> \in Seq(BoxSteps)
    BY DEF BoxCalm
  <2>2. QED
    BY <2>1 DEF BoxShape, B!Init
<1>5. BoxOwned
  BY <1>2 DEF BoxOwned, BoxOwns, B!Init
<1>6. BoxClear(Cells)
  BY <1>2 DEF BoxClear, B!Closed, BoxTarget, B!Boxes
<1>7. QED
  BY <1>2, <1>3, <1>4, <1>5, <1>6
  DEF BoxInv, BoxDying, BoxForgotten, BoxStays, BoxWasReset, BoxTarget, B!Init, B!Boxes

LEMMA BoxKeeps == ASSUME BoxInv, B!BoxAssumption, B!Next PROVE BoxInv'
<1>1. ASSUME NEW v \in Holders, B!Default(v) \/ B!Destruct(v)
      PROVE  BoxInv'
  BY <1>1, BoxDefaultKeeps, BoxDestructKeeps
<1>2. ASSUME NEW v \in Holders, NEW o \in Cells, B!New(v, o) \/ B!NewFromPtr(v, o)
      PROVE  BoxInv'
  BY <1>2, BoxNewKeeps, BoxNewFromPtrKeeps
<1>3. ASSUME NEW v \in Holders, NEW b \in B!Boxes, B!MoveConstruct(v, b)
      PROVE  BoxInv'
  BY <1>3, BoxMoveConstructKeeps
<1>4. ASSUME NEW a \in B!Boxes, B!Release(a)
      PROVE  BoxInv'
  BY <1>4, BoxReleaseKeeps
<1>5. ASSUME NEW a \in B!Boxes, B!Reset(a) \/ \E b \in B!Boxes : B!MoveAssign(a, b)
      PROVE  BoxInv'
  BY <1>5, BoxResetKeeps
<1>6. ASSUME NEW a \in B!Boxes, NEW b \in B!Boxes, B!Swap(a, b)
      PROVE  BoxInv'
  BY <1>6, BoxSwapKeeps
<1>7. ASSUME NEW o \in Cells, B!DeletePtr(o)
      PROVE  BoxInv'
  BY <1>7, BoxDeletePtrKeeps
<1>8. ASSUME B!Program PROVE BoxInv'
  BY <1>1, <1>2, <1>3, <1>4, <1>5, <1>6, <1>7, <1>8 DEF B!Program
<1>9. QED
  BY <1>8, BoxDestroyKeeps, BoxFreeKeeps, BoxFinishResetKeeps, BoxFinishAssignKeeps DEF B!Next

LEMMA BoxTells == ASSUME BoxInv, B!BoxAssumption PROVE B!OneOwner /\ B!NothingDangles
<1>1. B!NothingDangles
  BY DEF BoxInv, B!NothingDangles
<1>2. SUFFICES ASSUME B!Idle, NEW o \in Cells
               PROVE  /\ life[o] # "dead"
                      /\ Cardinality(B!Owners(o)) = IF life[o] = "alive" THEN 1 ELSE 0
  <2>1. \A X : B!Cardinality(X) = Cardinality(X)
    BY DEF B!Cardinality, Cardinality
  <2>2. QED
    BY <1>1, <2>1 DEF B!OneOwner
<1>3. /\ BoxAtRest /\ "released" \notin B!Boxes /\ o # Null
      /\ life[o] \in {"free", "alive", "dead"}
  BY <1>2, BoxRestIs DEF B!BoxAssumption, B!Boxes, BoxInv, BoxTyped
<1> DEFINE Boxed == {b \in B!Boxes : boxData[b] = o /\ BoxLive(b)}
           Freed == IF o \in released THEN {"released"} ELSE {}
<1>4. /\ B!Owners(o) = Boxed \cup Freed
      /\ \A x : x \in Boxed <=> x \in B!Boxes /\ boxData[x] = o /\ BoxLive(x)
      /\ \A x : x \in Freed <=> x = "released" /\ o \in released
  <2>1. B!Owners(o) = Boxed \cup Freed
    BY DEF B!Owners, BoxLive
  <2>2. QED
    BY <2>1
<1> HIDE DEF Boxed, Freed
<1>5. CASE life[o] = "alive"
  <2>1. CASE o \in released
    <3>1. \A b \in B!Boxes : ~(boxData[b] = o /\ BoxLive(b))
      BY <1>3, <2>1 DEF BoxAtRest, BoxHasOwner
    <3>2. B!Owners(o) = {"released"}
      BY <1>4, <2>1, <3>1
    <3>3. QED
      BY <1>5, <3>2, FS_Singleton
  <2>2. CASE o \notin released
    <3>1. PICK b \in B!Boxes : boxData[b] = o /\ BoxLive(b)
      BY <1>3, <1>5, <2>2 DEF BoxAtRest, BoxHasOwner
    <3>2. \A c \in B!Boxes : boxData[c] = o /\ BoxLive(c) => c = b
      BY <1>3, <3>1 DEF BoxAtRest, BoxHasOwner
    <3>3. B!Owners(o) = {b}
      <4>1. \A x : x \in Boxed <=> x = b
        BY <1>4, <3>1, <3>2
      <4>2. QED
        BY <1>4, <2>2, <4>1
    <3>4. QED
      BY <1>5, <3>3, FS_Singleton
  <2>3. QED
    BY <2>1, <2>2
<1>6. CASE life[o] # "alive"
  <2>1. o \notin released /\ \A b \in B!Boxes : ~(boxData[b] = o /\ BoxLive(b))
    BY <1>3, <1>6 DEF BoxAtRest, BoxHasOwner
  <2>2. B!Owners(o) = {}
    BY <1>4, <2>1
  <2>3. life[o] # "dead"
    BY <1>3 DEF BoxAtRest
  <2>4. QED
    BY <1>6, <2>2, <2>3, FS_EmptySet
<1>7. QED
  BY <1>5, <1>6

-----------------------------------------------------------------------------
(* The program.                                                             *)

\* A program that uses another type leaves an invariant as it is.
LEMMA OptionSame == ASSUME OptionInv, UNCHANGED optionVars PROVE OptionInv'
  BY DEF OptionInv, optionVars

LEMMA RefSame == ASSUME RefTyped, UNCHANGED refVars PROVE RefTyped'
  BY DEF RefTyped, refVars

LEMMA ResultSame == ASSUME ResultInv, UNCHANGED resultVars PROVE ResultInv'
  BY DEF ResultInv, resultVars

LEMMA PolySame == ASSUME PolyInv, UNCHANGED polyVars PROVE PolyInv'
  BY DEF PolyInv, polyVars

LEMMA BoxSame == ASSUME BoxInv, UNCHANGED boxVars PROVE BoxInv'
<1> USE DEF boxVars
<1>1. /\ \A o : BoxDoomed(o)' <=> BoxDoomed(o)
      /\ \A o : BoxFreeing(o)' <=> BoxFreeing(o)
      /\ \A a : BoxResets(a)' <=> BoxResets(a)
      /\ \A a, b : BoxTakes(a, b)' <=> BoxTakes(a, b)
      /\ \A b : BoxLive(b)' <=> BoxLive(b)
  BY DEF BoxDoomed, BoxFreeing, BoxResets, BoxTakes, BoxLive
<1>2. /\ \A a : BoxTarget(a)' <=> BoxTarget(a)
      /\ \A b, o : BoxOwns(b, o)' <=> BoxOwns(b, o)
      /\ \A X : B!Closed(X)' <=> B!Closed(X)
  BY <1>1 DEF BoxTarget, BoxOwns, B!Closed
<1>3. \A X : BoxClear(X)' <=> BoxClear(X)
  BY <1>1, <1>2 DEF BoxClear
<1>4. BoxStays'
  BY <1>3 DEF BoxInv, BoxStays
<1>5. BoxOwned'
  BY <1>1, <1>2 DEF BoxInv, BoxOwned
<1>6. BoxTyped' /\ BoxShape' /\ BoxForgotten'
  BY DEF BoxInv, BoxTyped, BoxShape, BoxForgotten
<1>7. BoxDying' /\ BoxWasReset'
  BY <1>1, <1>2 DEF BoxInv, BoxDying, BoxWasReset
<1>8. QED
  BY <1>4, <1>5, <1>6, <1>7 DEF BoxInv

LEMMA CellSteps ==
  ASSUME [Next]_vars
  PROVE  /\ (uses = "Option" /\ O!Next) \/ UNCHANGED optionVars
         /\ (uses = "Option&" /\ F!Next) \/ UNCHANGED refVars
         /\ (uses = "Option <" /\ C!Next) \/ UNCHANGED orderVars
         /\ (uses = "Result" /\ R!Next) \/ UNCHANGED resultVars
         /\ (uses = "Poly" /\ P!Next) \/ UNCHANGED polyVars
         /\ B!Next \/ UNCHANGED boxVars
<1>1. CASE Option
  BY <1>1 DEF Option
<1>2. CASE OptionRef
  BY <1>2 DEF OptionRef
<1>3. CASE OptionOrder
  BY <1>3 DEF OptionOrder
<1>4. CASE Result
  BY <1>4 DEF Result
<1>5. CASE Poly
  BY <1>5 DEF Poly
<1>6. CASE Box \/ StrRef \/ ArrayRef
  BY <1>6 DEF Box, StrRef, ArrayRef
<1>7. CASE MimAllocator \/ ScopedLock \/ UNCHANGED vars
  BY <1>7 DEF MimAllocator, ScopedLock, vars
<1>8. QED
  BY <1>1, <1>2, <1>3, <1>4, <1>5, <1>6, <1>7 DEF Next

\* The invariant of all of them.
CellInv == OptionInv /\ RefTyped /\ ResultInv /\ PolyInv /\ BoxInv

LEMMA CellsInductive ==
  /\ Init => CellInv
  /\ CellInv /\ [Next]_vars => CellInv'
<1>1. Init => CellInv
  BY ValueTypesAssumption, OptionInit, RefTypedInit, ResultInit, PolyInit, BoxInit
     DEF Init, CellInv
<1>2. ASSUME CellInv, [Next]_vars PROVE CellInv'
  <2>1. OptionInv'
    BY <1>2, ValueTypesAssumption, CellSteps, OptionKeeps, OptionSame DEF CellInv
  <2>2. RefTyped'
    BY <1>2, CellSteps, RefTypedNext, RefSame DEF CellInv
  <2>3. ResultInv'
    BY <1>2, ValueTypesAssumption, CellSteps, ResultKeeps, ResultSame DEF CellInv
  <2>4. PolyInv'
    BY <1>2, ValueTypesAssumption, CellSteps, PolyKeeps, PolySame DEF CellInv
  <2>5. BoxInv'
    BY <1>2, ValueTypesAssumption, CellSteps, BoxKeeps, BoxSame DEF CellInv
  <2>6. QED
    BY <2>1, <2>2, <2>3, <2>4, <2>5 DEF CellInv
<1>3. QED
  BY <1>1, <1>2

\* A step that changes a cell is one of its type's.
LEMMA UsedCell ==
  ASSUME Next
  PROVE  /\ uses = "Option"  => O!Next
         /\ uses = "Option&" => F!Next
         /\ uses = "Result"  => R!Next
         /\ uses = "Poly"    => P!Next
         /\ uses = "Option <" => C!Next
  BY DEF Next, Option, OptionRef, OptionOrder, Result, Poly, Box, StrRef, ArrayRef,
     MimAllocator, ScopedLock

\* However options, results and polys are built, assigned, moved from, swapped
\* and destroyed, what their flag, member or class number says is alive is what
\* is alive in their storage ("can contain a value or an error", Result.hpp:95;
\* "Type-checked polymorphic objects", Poly.hpp:19), whether or not an operation
\* of the value throws, but for the faults that Spoils names.  However boxes
\* that own each other are, every object on the heap has exactly one owner
\* whenever no deletion runs, and while one runs nothing is destroyed twice or
\* touched after it, as with std::unique_ptr (Box.hpp:20), unless a box was
\* assigned out of what its own target owned.
THEOREM StoragesStayTruthful == Spec => []StoragesAreTruthful
<1>1. CellInv => StoragesAreTruthful
  BY ValueTypesAssumption, OptionTells, ResultTells, PolyTells, BoxTells
     DEF CellInv, StoragesAreTruthful
<1>2. QED
  BY <1>1, CellsInductive, PTL DEF Spec

\* Every step of an option, of an option of a reference, of a result and of a
\* poly is one of an optional, with the departures that the modules name; and
\* every comparison of options agrees on the one order of optionals.
THEOREM CellsStayOptionals == Spec => CellsAreOptionals
<1>1. ASSUME CellInv, Next
      PROVE  /\ uses = "Option"  => O!OptionStep
             /\ uses = "Option&" => F!OptionStep
             /\ uses = "Result"  => R!ResultStep
             /\ uses = "Poly"    => P!PolyStep
             /\ uses = "Option <" => C!OneOrder'
  BY <1>1, ValueTypesAssumption, UsedCell, OptionKeeps, RefStep, ResultKeeps, PolyKeeps,
     OrderStep DEF CellInv
<1>2. CellInv /\ [Next]_vars =>
        [/\ uses = "Option"  => O!OptionStep
         /\ uses = "Option&" => F!OptionStep
         /\ uses = "Result"  => R!ResultStep
         /\ uses = "Poly"    => P!PolyStep
         /\ uses = "Option <" => C!OneOrder']_<<optionVars, refVars, orderVars,
                                                resultVars, polyVars>>
  <2>1. CASE Next
    BY <1>1, <2>1
  <2>2. CASE UNCHANGED vars
    BY <2>2 DEF vars
  <2>3. QED
    BY <2>1, <2>2
<1>3. QED
  BY <1>2, CellsInductive, PTL DEF Spec, CellsAreOptionals
=============================================================================
