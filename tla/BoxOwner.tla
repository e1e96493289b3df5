------------------------------ MODULE BoxOwner ------------------------------
(***************************************************************************)
(* Box and BoxAllocator of Box.hpp over a heap of objects, each of which   *)
(* holds a Box of its own, as the nodes of a list do: deleting an object   *)
(* deletes what its box owns.  The program is sequential, but a deletion   *)
(* runs over several objects, and the code that started it carries on      *)
(* afterwards; "todo" is what is left of it.                               *)
(***************************************************************************)
EXTENDS Naturals, Sequences, FiniteSets

CONSTANTS
  Vars,      \* the boxes that are variables of the program
  Objects,   \* the objects the heap has room for
  Null       \* the null pointer

BoxAssumption ==
  /\ Null \notin Objects
  /\ "released" \notin Vars \cup Objects
  /\ Vars \cap Objects = {}

VARIABLES
  data_,     \* the pointer of each box: of a variable, or inside an object
  scope,     \* the variables in scope
  life,      \* "free", "alive", or "dead": destroyed and not yet freed
  released,  \* pointers the program got from release()
  todo,      \* continuations of the running operation, innermost first
  wrong,     \* what was done to an object that was not there
  inside     \* history: did a box inside the object that another one owns
             \* get assigned to that other one?

vars == <<data_, scope, life, released, todo, wrong, inside>>

\* A box is named by its variable, or by the object it is inside.
Boxes == Vars \cup Objects

Init ==
  /\ data_ = [b \in Boxes |-> Null]
  /\ scope = {}
  /\ life = [o \in Objects |-> "free"]
  /\ released = {}
  /\ todo = <<>>
  /\ wrong = {}
  /\ inside = FALSE

---------------------------------------------------------------------------
\* The boxes the program can name: its variables, and what it reaches from
\* them and from its released pointers.
Closed(C) == \A o \in C : data_[o] # Null => data_[o] \in C

Known ==
  LET roots == ({data_[v] : v \in scope} \cup released) \ {Null}
  IN  {o \in Objects : \A C \in SUBSET Objects :
                         (roots \subseteq C /\ Closed(C)) => o \in C}

Named == scope \cup Known

\* The objects inside which a box lies that b owns.
Below(b) ==
  {o \in Objects : \A C \in SUBSET Objects :
     ((data_[b] # Null => data_[b] \in C) /\ Closed(C)) => o \in C}

Idle == todo = <<>>

\* Delete(p): destruct, then Deallocate; null is ignored.
Deletion(p) == IF p = Null THEN <<>> ELSE <<<<"destruct", p>>, <<"free", p>>>>

---------------------------------------------------------------------------
\* The operations of the program.

Declare(v, p) ==
  /\ v \notin scope
  /\ scope' = scope \cup {v}
  /\ data_' = [data_ EXCEPT ![v] = p]

\* Box() and Box(nullptr).
Default(v) ==
  /\ Idle
  /\ Declare(v, Null)
  /\ UNCHANGED <<life, released, todo, wrong, inside>>

\* Box::New and NewIn: BoxAllocator::New allocates and constructs.
New(v, o) ==
  /\ Idle
  /\ v \notin scope
  /\ life[o] = "free"
  /\ scope' = scope \cup {v}
  /\ data_' = [data_ EXCEPT ![v] = o, ![o] = Null]
  /\ life' = [life EXCEPT ![o] = "alive"]
  /\ UNCHANGED <<released, todo, wrong, inside>>

\* NewFromPtr: the program hands a released pointer back.
NewFromPtr(v, o) ==
  /\ Idle
  /\ o \in released
  /\ Declare(v, o)
  /\ released' = released \ {o}
  /\ UNCHANGED <<life, todo, wrong, inside>>

\* Box(Box&&).
MoveConstruct(v, b) ==
  /\ Idle
  /\ b \in Named
  /\ v \notin scope
  /\ scope' = scope \cup {v}
  /\ data_' = [data_ EXCEPT ![v] = data_[b], ![b] = Null]
  /\ UNCHANGED <<life, released, todo, wrong, inside>>

\* operator=(Box&&): reset(), and what follows it.
MoveAssign(a, b) ==
  /\ Idle
  /\ {a, b} \subseteq Named
  /\ inside' = (inside \/ b \in Below(a))
  /\ todo' = Deletion(data_[a]) \o <<<<"reset", a>>, <<"take", a, b>>>>
  /\ UNCHANGED <<data_, scope, life, released, wrong>>

\* ~Box of a variable: its pointer is deleted and not written.
Destruct(v) ==
  /\ Idle
  /\ v \in scope
  /\ scope' = scope \ {v}
  /\ todo' = Deletion(data_[v])
  /\ UNCHANGED <<data_, life, released, wrong, inside>>

\* reset().
Reset(b) ==
  /\ Idle
  /\ b \in Named
  /\ todo' = Deletion(data_[b]) \o <<<<"reset", b>>>>
  /\ UNCHANGED <<data_, scope, life, released, wrong, inside>>

\* release().
Release(b) ==
  /\ Idle
  /\ b \in Named
  /\ data_[b] # Null
  /\ released' = released \cup {data_[b]}
  /\ data_' = [data_ EXCEPT ![b] = Null]
  /\ UNCHANGED <<scope, life, todo, wrong, inside>>

\* Box::Delete, for released pointers.
DeletePtr(o) ==
  /\ Idle
  /\ o \in released
  /\ released' = released \ {o}
  /\ todo' = Deletion(o)
  /\ UNCHANGED <<data_, scope, life, wrong, inside>>

\* swap(Box&).
Swap(a, b) ==
  /\ Idle
  /\ {a, b} \subseteq Named
  /\ data_' = [data_ EXCEPT ![a] = data_[b], ![b] = data_[a]]
  /\ UNCHANGED <<scope, life, released, todo, wrong, inside>>

---------------------------------------------------------------------------
\* What an operation has left to do, one continuation at a time.

Resume(what) == todo # <<>> /\ Head(todo)[1] = what

\* A box is there to be read and written.
There(b) == b \in Vars \/ life[b] = "alive"

Fault(ok, what) == wrong' = IF ok THEN wrong ELSE wrong \cup {what}

\* X11::destruct(data): ~T, which ends with ~Box of the box inside.
DestroyObject ==
  /\ Resume("destruct")
  /\ LET o == Head(todo)[2]
     IN  /\ Fault(life[o] = "alive", "destroyed twice")
         /\ life' = [life EXCEPT ![o] = "dead"]
         /\ todo' = Deletion(data_[o]) \o Tail(todo)
  /\ UNCHANGED <<data_, scope, released, inside>>

\* Allocator::Deallocate(data).  The storage forgets what was in it.
FreeObject ==
  /\ Resume("free")
  /\ LET o == Head(todo)[2]
     IN  /\ Fault(life[o] = "dead", "freed twice")
         /\ life' = [life EXCEPT ![o] = "free"]
         /\ data_' = [data_ EXCEPT ![o] = Null]
  /\ todo' = Tail(todo)
  /\ UNCHANGED <<scope, released, inside>>

\* reset(): data_ = nullptr, after the deletion.
FinishReset ==
  /\ Resume("reset")
  /\ LET b == Head(todo)[2]
     IN  /\ Fault(There(b), "written after it was destroyed")
         /\ data_' = [data_ EXCEPT ![b] = Null]
  /\ todo' = Tail(todo)
  /\ UNCHANGED <<scope, life, released, inside>>

\* operator=(Box&&), after reset(): take the pointer, null the source.
FinishAssign ==
  /\ Resume("take")
  /\ LET a == Head(todo)[2]
         b == Head(todo)[3]
     IN  /\ Fault(There(b), "read after it was destroyed")
         /\ data_' = [[data_ EXCEPT ![a] = data_[b]] EXCEPT ![b] = Null]
  /\ todo' = Tail(todo)
  /\ UNCHANGED <<scope, life, released, inside>>

---------------------------------------------------------------------------
Program ==
  \/ \E v \in Vars : \/ Default(v) \/ Destruct(v)
                     \/ \E o \in Objects : New(v, o) \/ NewFromPtr(v, o)
                     \/ \E b \in Boxes : MoveConstruct(v, b)
  \/ \E a \in Boxes : \/ Reset(a) \/ Release(a)
                      \/ \E b \in Boxes : MoveAssign(a, b) \/ Swap(a, b)
  \/ \E o \in Objects : DeletePtr(o)

\* After a use of a dead object the language promises nothing.
Next ==
  /\ wrong = {}
  /\ Program \/ DestroyObject \/ FreeObject \/ FinishReset \/ FinishAssign

Spec == Init /\ [][Next]_vars

---------------------------------------------------------------------------
\* Every variable keeps its type.
TypeOK ==
  /\ data_ \in [Boxes -> Objects \cup {Null}]
  /\ scope \subseteq Vars
  /\ life \in [Objects -> {"free", "alive", "dead"}]
  /\ released \subseteq Objects
  /\ inside \in BOOLEAN
  /\ \A i \in DOMAIN todo :
       \/ todo[i] \in {"destruct", "free"} \X Objects
       \/ todo[i] \in {"reset"} \X Boxes
       \/ todo[i] \in {"take"} \X Boxes \X Boxes

\* Who would delete an object: the boxes that point to it and are alive, and
\* the program when it holds the released pointer.
Owners(o) ==
  {b \in Boxes : /\ data_[b] = o
                 /\ b \in scope \/ (b \in Objects /\ life[b] = "alive")}
    \cup (IF o \in released THEN {"released"} ELSE {})

\* "A heap-allocated owning pointer wrapper" (Box.hpp:19): between operations
\* every object on the heap has exactly one owner, which will delete it, and
\* no box owns what is not there.  (An object that the program has moved into
\* the box inside itself is its own owner, as with std::unique_ptr.)
OneOwner ==
  Idle => \A o \in Objects :
            /\ life[o] # "dead"
            /\ Cardinality(Owners(o)) = IF life[o] = "alive" THEN 1 ELSE 0

\* At every moment of a deletion: nothing is destroyed or freed twice, and no
\* box is read or written inside an object that has been destroyed, as with
\* the std::unique_ptr that Box is "based on" (Box.hpp:20).  operator= alone
\* departs from that, when its source lies inside what the target owns.
NothingDangles == wrong = {} \/ inside
=============================================================================
