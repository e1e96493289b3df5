----------------------------- MODULE AbandonedSet -----------------------------
(***************************************************************************)
(* What the abandoned segments promise: a set that threads put segments in *)
(* and take segments from.  A segment is with one thread, in the set, or   *)
(* not allocated.  MiAbandoned implements it with two lists.               *)
(***************************************************************************)
CONSTANTS Threads, Segments

VARIABLES
  listed,  \* the segments without an owner
  kept     \* thread -> the segments it owns or has in hand

Nowhere == Segments \ (listed \cup UNION {kept[t] : t \in Threads})

Init == listed = {} /\ kept = [t \in Threads |-> {}]

New(t, s) ==
  /\ s \in Nowhere
  /\ kept' = [kept EXCEPT ![t] = @ \cup {s}]
  /\ UNCHANGED listed
Put(t, s) ==
  /\ s \in kept[t]
  /\ kept' = [kept EXCEPT ![t] = @ \ {s}]
  /\ listed' = listed \cup {s}
Take(t, s) ==
  /\ s \in listed
  /\ kept' = [kept EXCEPT ![t] = @ \cup {s}]
  /\ listed' = listed \ {s}
Drop(t, s) ==
  /\ s \in kept[t]
  /\ kept' = [kept EXCEPT ![t] = @ \ {s}]
  /\ UNCHANGED listed

Next == \E t \in Threads, s \in Segments :
          New(t, s) \/ Put(t, s) \/ Take(t, s) \/ Drop(t, s)

Spec == Init /\ [][Next]_<<listed, kept>>
=============================================================================
