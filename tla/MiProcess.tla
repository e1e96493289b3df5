------------------------------ MODULE MiProcess ------------------------------
(***************************************************************************)
(* How mimalloc starts and how its threads begin and end (init.c and, for  *)
(* the end of threads, prim/unix/prim.c): by the process loader and by the *)
(* first allocations of threads, in whatever order these come, with a      *)
(* pthread key whose destructor runs when a thread ends.                   *)
(*                                                                         *)
(* The calls that a thread has yet to make are a sequence, todo; a call    *)
(* replaces itself by those that it makes.                                 *)
(***************************************************************************)
EXTENDS Integers, Sequences, FiniteSets

CONSTANTS
  Threads, NoThread,
  Loader,      \* the thread that the process is loaded by
  Iterations   \* PTHREAD_DESTRUCTOR_ITERATIONS, 4

ProcessAssumption ==
  Loader \in Threads /\ NoThread \notin Threads /\ IsFiniteSet(Threads)

VARIABLES
  os_preloading,
  thread_id, cookie,   \* of _mi_heap_main
  process_init,        \* the mi_atomic_once_t
  tls_initialized, key,
  heap_default,        \* thread -> "empty", "main" or "own"
  heap_value,          \* thread -> the value of its key: a heap, or "none"
  count,               \* thread_count
  todo,
  rounds,              \* thread -> how often its destructor has run
  gone,                \* the threads that have ended
  loaded, os_inits, failed, \* history: loads, _mi_os_init, heaps without memory
  ready,               \* history: mi_process_init is over
  raced                \* history: a thread began while another was starting up

mainVars == <<thread_id, cookie>>
startVars == <<os_preloading, process_init, tls_initialized, key>>
heapVars == <<heap_default, heap_value, count>>
endVars == <<rounds, gone>>
history == <<loaded, os_inits, failed, ready, raced>>
vars == <<mainVars, startVars, heapVars, endVars, history, todo>>

Init ==
  /\ os_preloading = TRUE /\ process_init = FALSE
  /\ thread_id = NoThread /\ cookie = "none"
  /\ tls_initialized = FALSE /\ key = FALSE
  /\ heap_default = [t \in Threads |-> "empty"]
  /\ heap_value = [t \in Threads |-> "none"]
  /\ count = 1
  /\ todo = [t \in Threads |-> <<>>]
  /\ rounds = [t \in Threads |-> 0] /\ gone = {}
  /\ loaded = 0 /\ os_inits = 0 /\ failed = 0 /\ ready = FALSE /\ raced = FALSE

Calling(t, call) == todo[t] # <<>> /\ Head(todo[t]) = call
Calls(t, calls) == todo' = [todo EXCEPT ![t] = calls \o Tail(@)]
Done(t) == Calls(t, <<>>)

IsMainThread(t) == thread_id \in {NoThread, t}

\* _mi_heap_set_default_direct, which tells the key, if there is one.
SetDefault(t, heap) ==
  /\ heap_default' = [heap_default EXCEPT ![t] = heap]
  /\ heap_value' = IF key THEN [heap_value EXCEPT ![t] = heap] ELSE heap_value

Begin(t, calls) ==
  /\ todo[t] = <<>> /\ t \notin gone
  /\ todo' = [todo EXCEPT ![t] = calls]
  /\ raced' = (raced \/ (~ready /\ \E u \in Threads \ {t} : todo[u] # <<>>))

---------------------------------------------------------------------------
\* mi_process_load, before main.
Load ==
  /\ loaded = 0
  /\ Begin(Loader, <<"heap_main_init", "loaded", "auto_thread_done", "process_init">>)
  /\ loaded' = 1
  /\ UNCHANGED <<mainVars, startVars, heapVars, endVars, os_inits, failed, ready>>

\* An allocation by a thread without a heap: mi_thread_init.
Malloc(t) ==
  /\ heap_default[t] = "empty"
  /\ Begin(t, <<"process_init", "heap_init">>)
  /\ UNCHANGED <<mainVars, startVars, heapVars, endVars, loaded, os_inits, failed, ready>>

Preloaded(t) ==
  /\ Calling(t, "loaded")
  /\ os_preloading' = FALSE
  /\ Done(t)
  /\ UNCHANGED <<mainVars, process_init, tls_initialized, key, heapVars, endVars, history>>

\* mi_heap_main_init: the test, ...
HeapMainInit(t) ==
  /\ Calling(t, "heap_main_init")
  /\ IF cookie = "none"
     THEN thread_id' = t /\ cookie' = "one" /\ Calls(t, <<"heap_main_keys">>)
     ELSE UNCHANGED mainVars /\ Done(t)
  /\ UNCHANGED <<startVars, heapVars, endVars, history>>

\* ... and the keys.
HeapMainKeys(t) ==
  /\ Calling(t, "heap_main_keys")
  /\ cookie' = "random"
  /\ Done(t)
  /\ UNCHANGED <<thread_id, startVars, heapVars, endVars, history>>

\* mi_process_setup_auto_thread_done: the test, ...
AutoThreadDone(t) ==
  /\ Calling(t, "auto_thread_done")
  /\ Calls(t, IF tls_initialized THEN <<>> ELSE <<"auto_done", "use_main">>)
  /\ UNCHANGED <<mainVars, startVars, heapVars, endVars, history>>

\* ... the key, ...
InitAutoDone(t) ==
  /\ Calling(t, "auto_done")
  /\ tls_initialized' = TRUE /\ key' = TRUE
  /\ Done(t)
  /\ UNCHANGED <<mainVars, os_preloading, process_init, heapVars, endVars, history>>

\* ... and the main heap for this thread, whichever it is.
UseMain(t) ==
  /\ Calling(t, "use_main")
  /\ SetDefault(t, "main")
  /\ Done(t)
  /\ UNCHANGED <<mainVars, startVars, count, endVars, history>>

\* mi_process_init: the first to come runs it, and the others do not wait.
ProcessInit(t) ==
  /\ Calling(t, "process_init")
  /\ process_init' = TRUE
  /\ Calls(t, IF process_init THEN <<>>
              ELSE <<"auto_thread_done", "os_init", "heap_main_init", "heap_init", "ready">>)
  /\ UNCHANGED <<mainVars, os_preloading, tls_initialized, key, heapVars, endVars, history>>

OsInit(t) ==
  /\ Calling(t, "os_init")
  /\ os_inits' = os_inits + 1
  /\ Done(t)
  /\ UNCHANGED <<mainVars, startVars, heapVars, endVars, loaded, failed, ready, raced>>

Ready(t) ==
  /\ Calling(t, "ready")
  /\ ready' = TRUE
  /\ Done(t)
  /\ UNCHANGED <<mainVars, startVars, heapVars, endVars, loaded, os_inits, failed, raced>>

\* Mutant of HeapInit: the key is not told of the thread's own heap.
HeapInitUntold(t) ==
  /\ Calling(t, "heap_init")
  /\ \/ /\ heap_default[t] # "empty"
        /\ Done(t) /\ UNCHANGED <<heapVars, failed>>
     \/ /\ heap_default[t] = "empty" /\ IsMainThread(t)
        /\ Calls(t, <<"heap_main_init", "use_main", "count">>)
        /\ UNCHANGED <<heapVars, failed>>
     \/ /\ heap_default[t] = "empty" /\ ~IsMainThread(t)
        /\ heap_default' = [heap_default EXCEPT ![t] = "own"]
        /\ Calls(t, <<"count">>)
        /\ UNCHANGED <<heap_value, count, failed>>
  /\ UNCHANGED <<mainVars, startVars, endVars, loaded, os_inits, ready, raced>>

\* _mi_heap_init, and the rest of mi_thread_init: a heap that could not be
\* allocated is counted as well.
HeapInit(t) ==
  /\ Calling(t, "heap_init")
  /\ \/ /\ heap_default[t] # "empty"
        /\ Done(t) /\ UNCHANGED <<heapVars, failed>>
     \/ /\ heap_default[t] = "empty" /\ IsMainThread(t)
        /\ Calls(t, <<"heap_main_init", "use_main", "count">>)
        /\ UNCHANGED <<heapVars, failed>>
     \/ /\ heap_default[t] = "empty" /\ ~IsMainThread(t)
        /\ \/ SetDefault(t, "own") /\ UNCHANGED failed
           \/ failed = 0 /\ failed' = 1 /\ UNCHANGED <<heap_default, heap_value>>
        /\ Calls(t, <<"count">>)
        /\ UNCHANGED count
  /\ UNCHANGED <<mainVars, startVars, endVars, loaded, os_inits, ready, raced>>

Count(t) ==
  /\ Calling(t, "count")
  /\ count' = count + 1
  /\ Done(t)
  /\ UNCHANGED <<mainVars, startVars, heap_default, heap_value, endVars, history>>

---------------------------------------------------------------------------
\* mi_pthread_done, with the value that the key had, and is rid of now:
\* _mi_thread_done.  The default heap is reset, and with it the value, so
\* that the destructor runs again.
PthreadDone(t) ==
  LET value == heap_value[t]
      rest == IF IsMainThread(t) THEN "main" ELSE "empty"
  IN  /\ todo[t] = <<>> /\ t \notin gone
      /\ value # "none" /\ rounds[t] < Iterations
      /\ rounds' = [rounds EXCEPT ![t] = @ + 1]
      /\ IF value = "empty"
         THEN /\ heap_value' = [heap_value EXCEPT ![t] = "none"]
              /\ UNCHANGED <<heap_default, count>>
         ELSE SetDefault(t, rest) /\ count' = count - 1
      /\ UNCHANGED <<mainVars, startVars, gone, history, todo>>

\* The thread has ended: no value is left, or enough rounds were made.
Gone(t) ==
  /\ todo[t] = <<>> /\ t \notin gone
  /\ heap_value[t] = "none" \/ rounds[t] = Iterations
  /\ gone' = gone \cup {t}
  /\ UNCHANGED <<mainVars, startVars, heapVars, rounds, history, todo>>

\* mi_process_done, at exit: "don't call the C runtime anymore".
ProcessDone ==
  /\ todo[Loader] = <<>> /\ loaded = 1 /\ process_init /\ ~os_preloading
  /\ os_preloading' = TRUE
  /\ loaded' = 2
  /\ UNCHANGED <<mainVars, process_init, tls_initialized, key, heapVars, endVars,
                 os_inits, failed, ready, raced, todo>>

Next ==
  \/ Load \/ ProcessDone
  \/ \E t \in Threads :
       \/ Malloc(t) \/ Preloaded(t) \/ HeapMainInit(t) \/ HeapMainKeys(t)
       \/ AutoThreadDone(t) \/ InitAutoDone(t) \/ UseMain(t) \/ ProcessInit(t)
       \/ OsInit(t) \/ Ready(t) \/ HeapInit(t) \/ Count(t)
       \/ PthreadDone(t) \/ Gone(t)

Spec == Init /\ [][Next]_vars

---------------------------------------------------------------------------
\* Whatever comes first, the loader or an allocation, and of whichever
\* thread: the process is initialized once; the main heap has its keys before
\* a thread uses it, and is used by one thread, the one it was initialized by;
\* the other threads have heaps of their own, which are counted, until they
\* end, when none is left behind, unless the program goes on allocating in the
\* destructors of its own keys.  Threads that begin while another is still
\* starting the process up are not provided for: they do not wait for it, and
\* may even come to share the main heap.
ProcessKeeps ==
  /\ os_inits <= 1
  /\ ~raced =>
       /\ \A t \in Threads : heap_default[t] = "main" /\ todo[t] = <<>> =>
            cookie = "random" /\ thread_id = t
       /\ \A t \in gone : heap_default[t] = "own" => rounds[t] = Iterations
       /\ (\A t \in Threads : todo[t] = <<>> /\ (thread_id = t => rounds[t] = 0)) =>
            count = 1 + failed + Cardinality({t \in Threads : heap_default[t] = "own"})
=============================================================================
