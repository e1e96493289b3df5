------------------------------- MODULE Strings -------------------------------
(***************************************************************************)
(* What a string_view promises, which StrRef "implements" (StrRef.hpp:63)  *)
(* and ArrayRef has in common with it: each view shows a string, its       *)
(* operations are those of strings, and an observer answers what the       *)
(* string says.  The variable "call" is the last call with its arguments   *)
(* and its answer: an operation that does what another one promises is     *)
(* not taken for it.                                                       *)
(***************************************************************************)
EXTENDS Naturals, Sequences, SequencesExt

CONSTANTS
  Views,    \* the views
  Lengths,  \* the numbers the program passes to the operations
  Contents  \* the strings a view may be made of

VARIABLES
  text,     \* the string that each view shows
  call      \* the last call

vars == <<text, call>>

Least(a, b) == IF a < b THEN a ELSE b
Part(s, pos, n) == SubSeq(s, pos + 1, pos + n)
FirstOf(s, n) == Part(s, 0, Least(n, Len(s)))
LastOf(s, n) == Part(s, Len(s) - Least(n, Len(s)), Least(n, Len(s)))

Init ==
  /\ text = [v \in Views |-> <<>>]
  /\ call = <<"none">>

Becomes(v, s) == text' = [text EXCEPT ![v] = s]

Make(v, s) ==
  call' = <<"made", v>> /\ Becomes(v, s)

Slice(v, w, pos, n) ==
  /\ call' = <<"slice", v, w, pos, n>>
  /\ pos + n <= Len(text[w])
  /\ Becomes(v, Part(text[w], pos, n))

Drop(v, w, n) ==
  /\ n <= Len(text[w])
  /\ \/ call' = <<"front dropped", v, w, n>>
        /\ Becomes(v, LastOf(text[w], Len(text[w]) - n))
     \/ call' = <<"back dropped", v, w, n>>
        /\ Becomes(v, FirstOf(text[w], Len(text[w]) - n))

Take(v, w, n) ==
  \/ call' = <<"front taken", v, w, n>> /\ Becomes(v, FirstOf(text[w], n))
  \/ call' = <<"back taken", v, w, n>> /\ Becomes(v, LastOf(text[w], n))

Swap(v, w) ==
  /\ call' = <<"swapped", v, w>>
  /\ text' = [text EXCEPT ![v] = text[w], ![w] = text[v]]

At(v, n) ==
  /\ n < Len(text[v])
  /\ call' = <<"at", v, n, text[v][n + 1]>>
  /\ UNCHANGED text

Copy(v, count, pos) ==
  /\ pos <= Len(text[v])
  /\ LET part == Part(text[v], pos, Least(count, Len(text[v]) - pos))
     IN  call' = <<"copied", v, count, pos, part, Len(part)>>
  /\ UNCHANGED text

Compare(v, w) ==
  call' = <<"equal", v, w, text[v] = text[w]>> /\ UNCHANGED text

Backwards(v) ==
  call' = <<"backwards", v, Reverse(text[v])>> /\ UNCHANGED text

Next ==
  \E v \in Views :
    \/ \E s \in Contents : Make(v, s)
    \/ Backwards(v)
    \/ \E n, pos \in Lengths : At(v, n) \/ Copy(v, n, pos)
    \/ \E w \in Views :
         \/ Swap(v, w) \/ Compare(v, w)
         \/ \E n \in Lengths : \/ Drop(v, w, n) \/ Take(v, w, n)
                               \/ \E pos \in Lengths : Slice(v, w, pos, n)

Spec == Init /\ [][Next]_vars
=============================================================================
