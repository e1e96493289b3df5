------------------------------ MODULE MiOutput -------------------------------
(***************************************************************************)
(* Where the messages of mimalloc go (options.c): into a buffer until the  *)
(* C library is there, then to stderr as well, and, once the program has   *)
(* registered a function, to that alone, which first gets the buffer.      *)
(* Threads that print claim their place in the buffer with an atomic       *)
(* addition and copy the message there afterwards.                         *)
(*                                                                         *)
(* A message is a number, and its text so many copies of it.               *)
(***************************************************************************)
EXTENDS Naturals, Sequences, SequencesExt

CONSTANTS
  Threads,
  Lengths,      \* of messages
  Capacity,     \* MI_MAX_DELAY_OUTPUT
  MaxMessages   \* bound

VARIABLES
  out_buf, out_len,
  mi_out_default,  \* "null", "buf_stderr", or "user"
  at, msg, start,  \* thread -> where it is, its message and its claim
  stderr, user,    \* what was written to either
  printed,         \* history: what the program has printed until it registered
  next,            \* the next message
  crossed          \* history: two of these operations have met

vars == <<out_buf, out_len, mi_out_default, at, msg, start, stderr, user,
          printed, next, crossed>>

Zero == 0
Newline == MaxMessages + 1

Init ==
  /\ out_buf = [i \in 0 .. Capacity |-> Zero]
  /\ out_len = 0
  /\ mi_out_default = "null"
  /\ at = [t \in Threads |-> "idle"]
  /\ msg = [t \in Threads |-> <<>>]
  /\ start = [t \in Threads |-> 0]
  /\ stderr = <<>> /\ user = <<>> /\ printed = <<>>
  /\ next = 1
  /\ crossed = FALSE

Smaller(m, n) == IF m < n THEN m ELSE n
Busy == \E t \in Threads : at[t] # "idle"
Goto(t, p) == at' = [at EXCEPT ![t] = p]
Text(id, n) == [i \in 1 .. n |-> id]

\* The text in the buffer: up to the first zero.
Contents(b) ==
  LET ends == {i \in 0 .. Capacity : b[i] = Zero}
      len == CHOOSE i \in ends : \A j \in ends : i <= j
  IN  [i \in 1 .. len |-> b[i - 1]]

\* _mi_fputs of a message of n characters, without a prefix.
Say(t, n) ==
  /\ at[t] = "idle" /\ next <= MaxMessages
  /\ next' = next + 1
  /\ crossed' = (crossed \/ Busy)
  /\ stderr' = IF mi_out_default = "buf_stderr" THEN stderr \o Text(next, n) ELSE stderr
  /\ user' = IF mi_out_default = "user" THEN user \o Text(next, n) ELSE user
  /\ printed' = IF mi_out_default = "user" THEN printed ELSE printed \o Text(next, n)
  /\ IF mi_out_default = "user" THEN UNCHANGED <<at, msg>>
     ELSE Goto(t, "check") /\ msg' = [msg EXCEPT ![t] = Text(next, n)]
  /\ UNCHANGED <<out_buf, out_len, mi_out_default, start>>

\* mi_out_buf: nothing, when the buffer is full; ...
Check(t) ==
  /\ at[t] = "check"
  /\ Goto(t, IF out_len >= Capacity THEN "idle" ELSE "claim")
  /\ UNCHANGED <<out_buf, out_len, mi_out_default, msg, start, stderr, user,
                 printed, next, crossed>>

\* ... the claim; ...
Claim(t) ==
  /\ at[t] = "claim"
  /\ start' = [start EXCEPT ![t] = out_len]
  /\ out_len' = out_len + Len(msg[t])
  /\ Goto(t, IF out_len >= Capacity THEN "idle" ELSE "copy")
  /\ UNCHANGED <<out_buf, mi_out_default, msg, stderr, user, printed, next, crossed>>

\* Mutant of Copied: what remains of the buffer before the message is written.
CopiedUnchecked(t) ==
  IF start[t] >= Capacity - 1 THEN 0 ELSE Len(msg[t])

\* How much of the message is copied: the last place stays zero.
Copied(t) ==
  IF start[t] + Len(msg[t]) >= Capacity THEN Capacity - start[t] - 1 ELSE Len(msg[t])

Place(t) == start[t] .. start[t] + Copied(t) - 1

\* ... and the copy.
Copy(t) ==
  /\ at[t] = "copy"
  /\ out_buf' = [i \in 0 .. Capacity |-> IF i \in Place(t) THEN msg[t][1] ELSE out_buf[i]]
  /\ Goto(t, "idle")
  /\ UNCHANGED <<out_len, mi_out_default, msg, start, stderr, user, printed, next, crossed>>

---------------------------------------------------------------------------
\* mi_add_stderr_output, by the thread that loads the process: one place is
\* claimed, for the zero that ends the text, and later for a newline.
AddStderr(t) ==
  LET count == Smaller(out_len, Capacity)
      ended == [out_buf EXCEPT ![count] = Zero]
  IN  /\ at[t] = "idle" /\ mi_out_default = "null"
      /\ \A u \in Threads : at[u] # "stderr"
      /\ out_len' = out_len + 1
      /\ out_buf' = [ended EXCEPT ![count] = Newline]
      /\ stderr' = stderr \o Contents(ended)
      /\ Goto(t, "stderr")
      /\ crossed' = (crossed \/ Busy)
      /\ UNCHANGED <<mi_out_default, msg, start, user, printed, next>>

UseStderr(t) ==
  /\ at[t] = "stderr"
  /\ mi_out_default' = "buf_stderr"
  /\ Goto(t, "idle")
  /\ UNCHANGED <<out_buf, out_len, msg, start, stderr, user, printed, next, crossed>>

\* mi_register_output of a function: no more goes to the buffer, ...
Register(t) ==
  /\ at[t] = "idle" /\ mi_out_default = "buf_stderr"
  /\ mi_out_default' = "user"
  /\ Goto(t, "flush")
  /\ crossed' = (crossed \/ Busy)
  /\ UNCHANGED <<out_buf, out_len, msg, start, stderr, user, printed, next>>

\* ... mi_out_buf_flush: the function gets what is there.
Flush(t) ==
  LET count == Smaller(out_len, Capacity)
      ended == [out_buf EXCEPT ![count] = Zero]
  IN  /\ at[t] = "flush"
      /\ out_len' = out_len + Capacity
      /\ out_buf' = ended
      /\ user' = user \o Contents(ended)
      /\ Goto(t, "idle")
      /\ UNCHANGED <<mi_out_default, msg, start, stderr, printed, next, crossed>>

Next ==
  \E t \in Threads :
    \/ \E n \in Lengths : Say(t, n)
    \/ Check(t) \/ Claim(t) \/ Copy(t)
    \/ AddStderr(t) \/ UseStderr(t) \/ Register(t) \/ Flush(t)

Spec == Init /\ [][Next]_vars

---------------------------------------------------------------------------
Texts(s) == SelectSeq(s, LAMBDA c : c # Newline)

\* Messages claim places of their own in the buffer, inside it, and what one
\* has copied there stays; and as long as the operations do not meet, stderr
\* and then the registered function get all that was printed before, in order
\* and up to the end of the buffer, whatever else stderr shows after that.
OutputIsKept ==
  LET fits == SubSeq(printed, 1, Smaller(Len(printed), Capacity - 2)) IN
  /\ \A t \in Threads : at[t] = "copy" => Place(t) \subseteq 0 .. Capacity - 1
  /\ \A t, u \in Threads :
       t # u /\ at[t] = "copy" /\ at[u] = "copy" => Place(t) \cap Place(u) = {}
  /\ ~crossed /\ ~Busy =>
       /\ mi_out_default = "buf_stderr" => IsPrefix(fits, stderr)
       /\ mi_out_default = "user" => IsPrefix(fits, Texts(user))
=============================================================================
