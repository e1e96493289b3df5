------------------------------ MODULE Lifetimes ------------------------------
(***************************************************************************)
(* What C++ says of objects that a program constructs and destroys by hand *)
(* in storage it owns, as Option, Result, Poly and Box do.  A memory is a  *)
(* record with at least the fields                                         *)
(*   obj     the object in each place, or NoObject                         *)
(*   broken  what has been done that the language leaves undefined, or     *)
(*           that makes an object's destructor never run                   *)
(* External: these are the language's rules and not code of the library.   *)
(***************************************************************************)

\* Storage with no object in it, and the value of a moved-from object.
Moved == "moved"
NoObject == [type |-> "none", val |-> "none"]

Break(m, what) == [m EXCEPT !.broken = @ \cup {what}]

Alive(m, p) == m.obj[p] # NoObject

\* Placement new.  Over a live object it ends that object's life without
\* its destructor.
Construct(m, p, type, val) ==
  LET n == [m EXCEPT !.obj[p] = [type |-> type, val |-> val]]
  IN  IF Alive(m, p) THEN Break(n, "overwritten") ELSE n

\* An explicit destructor call, through a pointer to the given type.
Destroy(m, p, type) ==
  LET n == [m EXCEPT !.obj[p] = NoObject]
  IN  IF m.obj[p].type = type THEN n ELSE Break(n, "dead")

\* A use of the object of the given type in p.
Use(m, p, type) == IF m.obj[p].type = type THEN m ELSE Break(m, "dead")

\* Assign to the object of the given type in p, and move out of it.
Assign(m, p, type, val) ==
  IF m.obj[p].type = type THEN [m EXCEPT !.obj[p].val = val]
                          ELSE Break(m, "dead")
MoveOut(m, p, type) == Assign(m, p, type, Moved)
=============================================================================
