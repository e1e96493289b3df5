------------------------------ MODULE MiThreads ------------------------------
(***************************************************************************)
(* The data that mimalloc keeps for a thread (init.c): the block with its  *)
(* heap and its tld is taken from a cache of blocks that ended threads     *)
(* have left, or else from the operating system, when the thread first     *)
(* allocates, and goes back when the thread is done.  The slots of the     *)
(* cache are read and written one at a time, without a lock, by threads    *)
(* that start and end, and by the main thread when it collects everything. *)
(*                                                                         *)
(* What a thread does with its heap in between is MiDelayedFree's part.    *)
(***************************************************************************)
EXTENDS Naturals, FiniteSets

CONSTANTS
  Threads,   \* the threads but the main one
  Main,      \* the main thread, whose data is static
  Data,      \* the blocks of thread data that the system can give
  Null,      \* the null pointer
  Slots,     \* TD_CACHE_SIZE
  MaxFails   \* bound: threads that are refused their data

MiThreadsAssumption ==
  Main \notin Threads /\ Null \notin Data /\ Slots \in Nat

VARIABLES
  td_cache,      \* the cached blocks
  mapped,        \* the blocks that the system has given and not taken back
  memid,         \* what each block says of its origin: "OS" or "NONE"
  td,            \* the block each thread has, or has in hand
  at,            \* where each thread is
  i,             \* the slot at which it is
  thread_count,  \* see _mi_current_thread_count
  failed         \* history: threads that were refused their data

vars == <<td_cache, mapped, memid, td, at, i, thread_count, failed>>

Everyone == Threads \cup {Main}

Init ==
  /\ td_cache = [s \in 1 .. Slots |-> Null]
  /\ mapped = {}
  /\ memid = [d \in Data |-> "NONE"]
  /\ td = [t \in Everyone |-> Null]
  /\ at = [t \in Everyone |-> "out"]
  /\ i = [t \in Everyone |-> 1]
  /\ thread_count = 1
  /\ failed = 0

\* t goes to p, with d in hand, at slot n.
Go(t, p, d, n) ==
  /\ at' = [at EXCEPT ![t] = p]
  /\ td' = [td EXCEPT ![t] = d]
  /\ i' = [i EXCEPT ![t] = n]

Store(t, d) == td_cache' = [td_cache EXCEPT ![i[t]] = d]

\* _mi_os_free_ex: it asks the memid of the block whether it came from the
\* system.
OsFree(d) == mapped' = IF memid[d] = "OS" THEN mapped \ {d} ELSE mapped

---------------------------------------------------------------------------
\* mi_thread_init and _mi_heap_init, at the first allocation of a thread.

Start(t) ==
  /\ at[t] = "out"
  /\ Go(t, "find", Null, 1)
  /\ UNCHANGED <<td_cache, mapped, memid, thread_count, failed>>

\* mi_thread_data_zalloc: the slots in turn, ...
FindLoad(t) ==
  /\ at[t] = "find"
  /\ IF i[t] > Slots THEN Go(t, "alloc", Null, 1)
     ELSE IF td_cache[i[t]] = Null THEN Go(t, "find", Null, i[t] + 1)
     ELSE Go(t, "exchange", td_cache[i[t]], i[t])
  /\ UNCHANGED <<td_cache, mapped, memid, thread_count, failed>>

\* Mutant of FindExchange: what was loaded is taken for what was exchanged.
FindExchangeTrusts(t) ==
  /\ at[t] = "exchange"
  /\ Store(t, Null)
  /\ Go(t, "clear", td[t], 1)
  /\ UNCHANGED <<mapped, memid, thread_count, failed>>

\* ... of which somebody else may have emptied one in the meantime.
FindExchange(t) ==
  /\ at[t] = "exchange"
  /\ Store(t, Null)
  /\ IF td_cache[i[t]] = Null THEN Go(t, "find", Null, i[t] + 1)
                              ELSE Go(t, "clear", td_cache[i[t]], 1)
  /\ UNCHANGED <<mapped, memid, thread_count, failed>>

\* The system gives zeroed memory, or refuses twice; the thread is counted
\* all the same.
Alloc(t) ==
  /\ at[t] = "alloc"
  /\ \/ \E d \in Data \ mapped :
          /\ mapped' = mapped \cup {d}
          /\ memid' = [memid EXCEPT ![d] = "OS"]
          /\ Go(t, "in", d, 1)
          /\ UNCHANGED failed
     \/ /\ failed < MaxFails
        /\ failed' = failed + 1
        /\ Go(t, "out", Null, 1)
        /\ UNCHANGED <<mapped, memid>>
  /\ thread_count' = thread_count + 1
  /\ UNCHANGED td_cache

\* A block from the cache is zeroed, and its memid with the rest.
Clear(t) ==
  /\ at[t] = "clear"
  /\ memid' = [memid EXCEPT ![td[t]] = "NONE"]
  /\ Go(t, "in", td[t], 1)
  /\ thread_count' = thread_count + 1
  /\ UNCHANGED <<td_cache, mapped, failed>>

---------------------------------------------------------------------------
\* _mi_thread_done, by the program or by the destructor of the pthread key;
\* the destructor runs again for the empty heap set here, and returns.

Done(t) ==
  /\ at[t] = "in"
  /\ thread_count' = thread_count - 1
  /\ Go(t, "put", td[t], 1)
  /\ UNCHANGED <<td_cache, mapped, memid, failed>>

\* mi_thread_data_free: into the first slot that is empty, ...
PutLoad(t) ==
  /\ at[t] = "put"
  /\ IF i[t] > Slots THEN Go(t, "free", td[t], 1)
     ELSE IF td_cache[i[t]] = Null THEN Go(t, "cas", td[t], i[t])
     ELSE Go(t, "put", td[t], i[t] + 1)
  /\ UNCHANGED <<td_cache, mapped, memid, thread_count, failed>>

\* ... unless it no longer is, or the weak compare-and-swap fails for no
\* reason.
PutCas(t) ==
  /\ at[t] = "cas"
  /\ \/ /\ td_cache[i[t]] = Null
        /\ Store(t, td[t])
        /\ Go(t, "out", Null, 1)
     \/ /\ Go(t, "put", td[t], i[t] + 1)
        /\ UNCHANGED td_cache
  /\ UNCHANGED <<mapped, memid, thread_count, failed>>

Free(t) ==
  /\ at[t] = "free"
  /\ OsFree(td[t])
  /\ Go(t, "out", Null, 1)
  /\ UNCHANGED <<td_cache, memid, thread_count, failed>>

---------------------------------------------------------------------------
\* _mi_thread_data_collect, when the main thread collects with force.

Collect ==
  /\ at[Main] = "out"
  /\ Go(Main, "collect", Null, 1)
  /\ UNCHANGED <<td_cache, mapped, memid, thread_count, failed>>

CollectLoad ==
  /\ at[Main] = "collect"
  /\ IF i[Main] > Slots THEN Go(Main, "out", Null, 1)
     ELSE IF td_cache[i[Main]] = Null THEN Go(Main, "collect", Null, i[Main] + 1)
     ELSE Go(Main, "take", Null, i[Main])
  /\ UNCHANGED <<td_cache, mapped, memid, thread_count, failed>>

CollectExchange ==
  /\ at[Main] = "take"
  /\ Store(Main, Null)
  /\ Go(Main, "give", td_cache[i[Main]], i[Main])
  /\ UNCHANGED <<mapped, memid, thread_count, failed>>

CollectFree ==
  /\ at[Main] = "give"
  /\ IF td[Main] = Null THEN UNCHANGED mapped ELSE OsFree(td[Main])
  /\ Go(Main, "collect", Null, i[Main] + 1)
  /\ UNCHANGED <<td_cache, memid, thread_count, failed>>

Next ==
  \/ \E t \in Threads :
       \/ Start(t) \/ FindLoad(t) \/ FindExchange(t) \/ Alloc(t) \/ Clear(t)
       \/ Done(t) \/ PutLoad(t) \/ PutCas(t) \/ Free(t)
  \/ Collect \/ CollectLoad \/ CollectExchange \/ CollectFree

Spec == Init /\ [][Next]_vars

---------------------------------------------------------------------------
\* Who has a block: the threads that use it or have it in hand (at
\* "exchange" td is only what was loaded), and the slots of the cache.
Holders(d) ==
  {t \in Everyone : td[t] = d /\ at[t] # "exchange"}
    \cup {s \in 1 .. Slots : td_cache[s] = d}

\* No block of thread data is used by two threads, or while it is cached, or
\* after it has gone back to the system; a block goes to the cache before it
\* goes to anybody else; and the count of threads is right, but for those
\* that were refused their data and are counted for ever.
DataHasOneHolder ==
  /\ \A d \in Data : /\ Cardinality(Holders(d)) <= 1
                     /\ Holders(d) # {} => d \in mapped
  /\ thread_count =
       1 + failed + Cardinality({t \in Threads : at[t] = "in"})

\* "if that fails, just free it directly" and "free all thread metadata from
\* the cache" (init.c:268 and init.c:273): a block that the system has given
\* and not taken back is in use or cached.
NoDataIsLost == \A d \in mapped : Holders(d) # {}
=============================================================================
