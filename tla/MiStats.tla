------------------------------ MODULE MiStats -------------------------------
(***************************************************************************)
(* The statistics of mimalloc (stats.c): one amount that goes up and down  *)
(* and one counter, in the statistics of each thread, which only it        *)
(* touches, and in those of the process, which every thread changes by     *)
(* atomic additions to one field after the other.  A thread adds its own   *)
(* to those of the process when it is done, when it asks to, and before    *)
(* they are printed.                                                       *)
(***************************************************************************)
EXTENDS Integers, Sequences, FiniteSetsExt

CONSTANTS
  Threads,
  MaxAdds   \* bound: additions since the last reset

VARIABLES
  main,    \* _mi_stats_main: a mi_stat_count_t and a mi_stat_counter_t
  stats,   \* thread -> its statistics
  todo,    \* thread -> the accesses to main that it has yet to make
  added,   \* history: what has been added since the last reset
  torn     \* history: a reset has come into the middle of an update

vars == <<main, stats, todo, added, torn>>

Zero == [current |-> 0, peak |-> 0, allocated |-> 0, freed |-> 0, total |-> 0, count |-> 0]
Totals == {"allocated", "freed", "total", "count"}

Init ==
  /\ main = Zero
  /\ stats = [t \in Threads |-> Zero]
  /\ todo = [t \in Threads |-> <<>>]
  /\ added = [f \in Totals |-> 0]
  /\ torn = FALSE

Idle(t) == todo[t] = <<>>
Larger(m, n) == IF m > n THEN m ELSE n
Magnitude(a) == IF a > 0 THEN a ELSE -a

\* Which total an amount goes to.
Total(amount) == IF amount > 0 THEN "allocated" ELSE "freed"

Starts(t, accesses) == todo' = [todo EXCEPT ![t] = accesses]
MayAdd == added["allocated"] + added["freed"] + added["count"] < MaxAdds

\* mi_stat_update in the process's statistics; the second access takes the
\* value that the first has left.
UpdateMain(t, amount) ==
  /\ Idle(t) /\ MayAdd
  /\ Starts(t, <<<<"current", amount>>, <<"max", 0>>,
                 <<Total(amount), Magnitude(amount)>>>>)
  /\ added' = [added EXCEPT ![Total(amount)] = @ + Magnitude(amount)]
  /\ UNCHANGED <<main, stats, torn>>

\* mi_stat_update in the thread's.
UpdateLocal(t, amount) ==
  LET current == stats[t].current + amount IN
  /\ Idle(t) /\ MayAdd
  /\ stats' = [stats EXCEPT ![t].current = current,
                            ![t].peak = Larger(@, current),
                            ![t][Total(amount)] = @ + Magnitude(amount)]
  /\ added' = [added EXCEPT ![Total(amount)] = @ + Magnitude(amount)]
  /\ UNCHANGED <<main, todo, torn>>

\* _mi_stat_counter_increase, in either.
CounterIncrease(t, amount) ==
  /\ Idle(t) /\ MayAdd
  /\ \/ /\ Starts(t, <<<<"count", 1>>, <<"total", amount>>>>)
        /\ UNCHANGED stats
     \/ /\ stats' = [stats EXCEPT ![t].count = @ + 1, ![t].total = @ + amount]
        /\ UNCHANGED todo
  /\ added' = [added EXCEPT !["count"] = @ + 1, !["total"] = @ + amount]
  /\ UNCHANGED <<main, torn>>

\* mi_stats_add; an amount that never changed is passed over.
Additions(s) ==
  (IF s.allocated = 0 /\ s.freed = 0 THEN <<>>
   ELSE <<<<"allocated", s.allocated>>, <<"current", s.current>>,
          <<"freed", s.freed>>, <<"peak", s.peak>>>>)
    \o <<<<"total", s.total>>, <<"count", s.count>>>>

\* Mutant of Merge: the thread keeps what it has added to the process's.
MergeKeeps(t) ==
  /\ Idle(t)
  /\ stats[t] # Zero
  /\ Starts(t, Additions(stats[t]))
  /\ UNCHANGED <<main, stats, added, torn>>

\* mi_stats_merge_from: by mi_stats_merge, by mi_stats_print_out, and by
\* _mi_heap_done at the end of the thread.
Merge(t) ==
  /\ Idle(t)
  /\ stats[t] # Zero
  /\ Starts(t, Append(Additions(stats[t]), <<"clear", 0>>))
  /\ UNCHANGED <<main, stats, added, torn>>

\* One access of an update or a merge.
Access(t) ==
  /\ ~Idle(t)
  /\ LET field == Head(todo[t])[1]
         amount == Head(todo[t])[2]
         rest == Tail(todo[t])
         views == rest # <<>> /\ rest[1][1] = "max"
     IN  /\ main' = CASE field = "max" -> [main EXCEPT !.peak = Larger(@, amount)]
                      [] field = "clear" -> main
                      [] OTHER -> [main EXCEPT ![field] = @ + amount]
         /\ todo' = [todo EXCEPT ![t] =
                       IF views THEN <<<<"max", main.current + amount>>>> \o Tail(rest)
                                ELSE rest]
         /\ stats' = IF field = "clear" THEN [stats EXCEPT ![t] = Zero] ELSE stats
  /\ UNCHANGED <<added, torn>>

\* mi_stats_reset: what the other threads have on their own stays.
Reset(t) ==
  /\ Idle(t)
  /\ main # Zero
  /\ main' = Zero
  /\ stats' = [stats EXCEPT ![t] = Zero]
  /\ added' = [f \in Totals |-> MapThenSumSet(LAMBDA u : stats[u][f], Threads \ {t})]
  /\ torn' = (torn \/ \E u \in Threads : ~Idle(u))
  /\ UNCHANGED todo

Next ==
  \E t \in Threads :
    \/ \E amount \in {-1, 1} : UpdateMain(t, amount) \/ UpdateLocal(t, amount)
    \/ CounterIncrease(t, 2)
    \/ Merge(t) \/ Access(t) \/ Reset(t)

Spec == Init /\ [][Next]_vars

---------------------------------------------------------------------------
\* When no update is under way, the statistics of the process and of the
\* threads together show all that was added since the last reset, nothing of
\* it twice, and each current value is what was added less what was taken
\* away.  The peak of the process may be below its current value: a merge
\* raises it last ("peak scores do not work across threads", stats.c:81).  A
\* reset in the middle of an update is not provided for: what it loses stays
\* lost.
StatsAddUp ==
  (~torn /\ \A t \in Threads : Idle(t)) =>
    /\ main.current = main.allocated - main.freed
    /\ \A t \in Threads : /\ stats[t].current = stats[t].allocated - stats[t].freed
                          /\ stats[t].peak >= stats[t].current
    /\ \A f \in Totals :
         added[f] = main[f] + MapThenSumSet(LAMBDA t : stats[t][f], Threads)
=============================================================================
