---------------------------- MODULE PanicHandler ----------------------------
(***************************************************************************)
(* The panic handler of src/Panic: how the library takes over              *)
(* std::terminate at static initialisation, and what every thread that     *)
(* reaches std::terminate then goes through until the process is aborted.  *)
(*                                                                         *)
(* A thread's path is dispatch -> (panic_thandler_: lock, inspect) ->      *)
(* (std_thandler_: the saved handler) -> abort.  The steps of different    *)
(* threads interleave; nothing ever returns to "run", because every path   *)
(* is NORETURN.                                                            *)
(***************************************************************************)
EXTENDS Naturals, FiniteSets, TLAPS

CONSTANTS
  Threads,        \* the threads of the process
  NoThread,       \* owner of a free mutex
  UserHandlers,   \* what a terminate handler installed by the program may do
  PanicGuard      \* EFL_CORE_PANICGUARD: is panicSync() taken at all?

ASSUME PanicAssumption ==
  /\ NoThread \notin Threads
  /\ UserHandlers \subseteq {"aborts", "returns", "throws", "chains", "null"}
  /\ PanicGuard \in BOOLEAN

VARIABLES
  terminate_handler,  \* the handler std::terminate calls
  default_thandle_,   \* HH::default_thandle_, the handler cached by Preload
  staticInit,         \* progress of Handler.cpp's static initialisers
  userHandler,        \* behaviour of the program's own handler
  userPrev,           \* the handler the program's handler replaced
  pc,                 \* where each thread is
  exc,                \* std::current_exception() of each thread
  viaStd,             \* threads whose handler was called by std_thandler_
  entered,            \* history: threads that came past the lock of panic_thandler_
  panicSync,          \* owner of the mutex of Guard.hpp
  reports,            \* messages written to stderr, by thread
  process             \* "running" or "aborted"

vars == <<terminate_handler, default_thandle_, staticInit, userHandler,
          userPrev, pc, exc, viaStd, entered, panicSync, reports, process>>

\* What std::terminate can point to: nothing, the C++ runtime's own handler,
\* one installed by the program, or panic_thandler_.
Handlers == {"null", "runtime", "user", "panic"}

\* What std::current_exception() can be: nothing, a PanicInstance, another
\* std::exception, or an object of any other type.
Exceptions == {"none", "panic", "std", "foreign"}

Locations == {"run", "lock", "inspect", "std", "runtime", "user", "left",
              "abort", "null"}

Messages == {"panic", "runtime", "left", "null"}

\* The threads past the lock of panic_thandler_.  The function and all it
\* calls never return, so a thread that came in stays until the process is
\* dead: it looks at its exception, prints, or stands in front of abort().
InPanicHandler(t) == t \in entered

Init ==
  /\ terminate_handler = "runtime"
  /\ default_thandle_ = "null"
  /\ staticInit = "preload"
  /\ userHandler \in UserHandlers
  /\ userPrev = "none"
  /\ pc = [t \in Threads |-> "run"]
  /\ exc = [t \in Threads |-> "none"]
  /\ viaStd = {}
  /\ entered = {}
  /\ panicSync = NoThread
  /\ reports = {}
  /\ process = "running"

-----------------------------------------------------------------------------
(* Static initialisation of Handler.cpp, and the program's own handler.    *)

\* default_thandle_ caches std::get_terminate(), the first static of the file.
PreloadDefaultHandler ==
  /\ staticInit = "preload"
  /\ default_thandle_' = terminate_handler
  /\ staticInit' = "setter"
  /\ UNCHANGED <<terminate_handler, userHandler, userPrev, pc, exc, viaStd,
                 entered, panicSync, reports>>

\* phandler_setter_ installs panic_thandler_, the second static of the file.
SetPanicHandler ==
  /\ staticInit = "setter"
  /\ terminate_handler' = "panic"
  /\ staticInit' = "done"
  /\ UNCHANGED <<default_thandle_, userHandler, userPrev, pc, exc, viaStd,
                 entered, panicSync, reports>>

\* Mutant: the two statics of Handler.cpp in the other order.
StaticInitSwapped ==
  \/ /\ staticInit = "preload"
     /\ terminate_handler' = "panic"
     /\ staticInit' = "setter"
     /\ UNCHANGED <<default_thandle_, userHandler, userPrev, pc, exc, viaStd,
                    entered, panicSync, reports>>
  \/ /\ staticInit = "setter"
     /\ default_thandle_' = terminate_handler
     /\ staticInit' = "done"
     /\ UNCHANGED <<terminate_handler, userHandler, userPrev, pc, exc, viaStd,
                    entered, panicSync, reports>>

StaticInit == PreloadDefaultHandler \/ SetPanicHandler

\* The program may call std::set_terminate once, before, between or after the
\* initialisers above; a null handler counts as one.
UserInstall ==
  /\ userPrev = "none"
  /\ userPrev' = terminate_handler
  /\ terminate_handler' = IF userHandler = "null" THEN "null" ELSE "user"
  /\ UNCHANGED <<default_thandle_, staticInit, userHandler, pc, exc, viaStd,
                 entered, panicSync, reports>>

-----------------------------------------------------------------------------
(* A terminating thread.                                                   *)

\* The location a thread is at once handler h has been called.
Entry(h) == IF h = "panic" THEN "lock" ELSE h

Goto(t, loc) == pc' = [pc EXCEPT ![t] = loc]

KeepsHandlers ==
  UNCHANGED <<terminate_handler, default_thandle_, staticInit, userHandler,
              userPrev>>

\* panic_() throws a PanicInstance nobody catches, another exception escapes,
\* or std::terminate is called without one: the current handler is called.
Terminate(t, e) ==
  /\ pc[t] = "run"
  /\ exc' = [exc EXCEPT ![t] = e]
  /\ Goto(t, Entry(terminate_handler))
  /\ KeepsHandlers
  /\ UNCHANGED <<viaStd, entered, panicSync, reports>>

\* Mutant: the mutex is taken without waiting for its owner.
PanicLockBarging(t) ==
  /\ pc[t] = "lock"
  /\ IF PanicGuard THEN panicSync' = t ELSE UNCHANGED panicSync
  /\ Goto(t, "inspect")
  /\ entered' = entered \cup {t}
  /\ KeepsHandlers
  /\ UNCHANGED <<exc, viaStd, reports>>

\* EFLI_PANIC_LOCK_() at the top of panic_thandler_; a std::mutex blocks its
\* own holder too.
PanicLock(t) ==
  /\ pc[t] = "lock"
  /\ IF PanicGuard
     THEN panicSync = NoThread /\ panicSync' = t
     ELSE UNCHANGED panicSync
  /\ Goto(t, "inspect")
  /\ entered' = entered \cup {t}
  /\ KeepsHandlers
  /\ UNCHANGED <<exc, viaStd, reports>>

\* Mutant: the lock is scoped to the lookup of the exception.
PanicInspectUnlocks(t) ==
  /\ pc[t] = "inspect"
  /\ \/ exc[t] = "panic" /\ Goto(t, "abort")
                         /\ reports' = reports \cup {<<t, "panic">>}
     \/ exc[t] \in {"none", "std"} /\ Goto(t, "std") /\ UNCHANGED reports
     \/ exc[t] = "foreign" /\ Goto(t, "abort") /\ UNCHANGED reports
  /\ panicSync' = NoThread
  /\ KeepsHandlers
  /\ UNCHANGED <<exc, viaStd, entered>>

\* Mutant: a PanicInstance is caught as an ordinary exception.
PanicInspectSliced(t) ==
  /\ pc[t] = "inspect"
  /\ \/ exc[t] \in {"none", "std", "panic"} /\ Goto(t, "std")
     \/ exc[t] = "foreign" /\ Goto(t, "abort")
  /\ KeepsHandlers
  /\ UNCHANGED <<exc, viaStd, entered, panicSync, reports>>

\* A panic is reported here, a standard exception and a termination without
\* one go to std_thandler_, anything else aborts without a word.
PanicInspect(t) ==
  /\ pc[t] = "inspect"
  /\ \/ exc[t] = "panic" /\ Goto(t, "abort")
                         /\ reports' = reports \cup {<<t, "panic">>}
     \/ exc[t] \in {"none", "std"} /\ Goto(t, "std") /\ UNCHANGED reports
     \/ exc[t] = "foreign" /\ Goto(t, "abort") /\ UNCHANGED reports
  /\ KeepsHandlers
  /\ UNCHANGED <<exc, viaStd, entered, panicSync>>

\* std_thandler_ calls the cached handler, or complains that it is NULL.
StdHandler(t) ==
  /\ pc[t] = "std"
  /\ IF default_thandle_ = "null"
     THEN /\ Goto(t, "abort")
          /\ reports' = reports \cup {<<t, "null">>}
          /\ UNCHANGED viaStd
     ELSE /\ Goto(t, Entry(default_thandle_))
          /\ viaStd' = viaStd \cup {t}
          /\ UNCHANGED reports
  /\ KeepsHandlers
  /\ UNCHANGED <<exc, entered, panicSync>>

\* Mutant: std_thandler_ tries a handler that came back again.
HandlerLeftRetry(t) ==
  /\ pc[t] = "left"
  /\ Goto(t, IF t \in viaStd THEN "user" ELSE "abort")
  /\ KeepsHandlers
  /\ UNCHANGED <<exc, viaStd, entered, panicSync, reports>>

\* The cached handler returned or threw: std_thandler_ says so and aborts.
\* The C++ runtime does the same, silently, for a handler it called itself.
HandlerLeft(t) ==
  /\ pc[t] = "left"
  /\ Goto(t, "abort")
  /\ reports' = IF t \in viaStd THEN reports \cup {<<t, "left">>} ELSE reports
  /\ KeepsHandlers
  /\ UNCHANGED <<exc, viaStd, entered, panicSync>>

\* The runtime's handler names the exception and aborts.
RuntimeHandler(t) ==
  /\ pc[t] = "runtime"
  /\ Goto(t, "abort")
  /\ reports' = reports \cup {<<t, "runtime">>}
  /\ KeepsHandlers
  /\ UNCHANGED <<exc, viaStd, entered, panicSync>>

\* The program's handler aborts, comes back, or calls the one it replaced.
UserHandler(t) ==
  /\ pc[t] = "user"
  /\ \/ userHandler = "aborts" /\ Goto(t, "abort")
     \/ userHandler \in {"returns", "throws"} /\ Goto(t, "left")
     \/ userHandler = "chains" /\ Goto(t, Entry(userPrev))
  /\ KeepsHandlers
  /\ UNCHANGED <<exc, viaStd, entered, panicSync, reports>>

\* abort(), a trap, or the crash of calling a null handler.
Abort(t) ==
  /\ pc[t] \in {"abort", "null"}
  /\ process' = "aborted"
  /\ UNCHANGED <<terminate_handler, default_thandle_, staticInit, userHandler,
                 userPrev, pc, exc, viaStd, entered, panicSync, reports>>

Handle(t) == \/ PanicLock(t) \/ PanicInspect(t) \/ StdHandler(t)
             \/ HandlerLeft(t) \/ RuntimeHandler(t) \/ UserHandler(t)

\* Nothing runs in an aborted process.
Aborted == process = "aborted" /\ UNCHANGED vars

Next ==
  \/ /\ process = "running"
     /\ \/ /\ \/ StaticInit
              \/ UserInstall
              \/ \E t \in Threads, e \in Exceptions : Terminate(t, e)
              \/ \E t \in Threads : Handle(t)
           /\ UNCHANGED process
        \/ \E t \in Threads : Abort(t)
  \/ Aborted

\* A thread that has begun to terminate keeps running until the process dies:
\* nothing in the path waits for anything but the mutex.
Fairness ==
  \A t \in Threads :
    /\ WF_vars(process = "running" /\ Handle(t) /\ UNCHANGED process)
    /\ WF_vars(process = "running" /\ Abort(t))

Spec == Init /\ [][Next]_vars

FairSpec == Spec /\ Fairness

-----------------------------------------------------------------------------
(* Properties                                                              *)

\* Every variable keeps to its values.
TypeOK ==
  /\ terminate_handler \in Handlers
  /\ default_thandle_ \in Handlers
  /\ staticInit \in {"preload", "setter", "done"}
  /\ userHandler \in UserHandlers
  /\ userPrev \in Handlers \cup {"none"}
  /\ pc \in [Threads -> Locations]
  /\ exc \in [Threads -> Exceptions]
  /\ viaStd \in SUBSET Threads
  /\ entered \in SUBSET Threads
  /\ panicSync \in Threads \cup {NoThread}
  /\ reports \in SUBSET (Threads \X Messages)
  /\ process \in {"running", "aborted"}

\* With the guard, one thread at most ever comes past the lock of
\* panic_thandler_: no second thread looks at its exception, prints or aborts
\* from there while the first is anywhere between the lock and the end of the
\* process, the moment between its report and abort() included.
PanicExclusive ==
  PanicGuard =>
    \A t, u \in Threads : InPanicHandler(t) /\ InPanicHandler(u) => t = u

\* With the guard, the process's last words come from one thread: whatever
\* panic_thandler_ and the handler behind it print is never mixed with what
\* another thread prints from there.
OneVoice ==
  PanicGuard =>
    \A t, u \in Threads :
      (\E m \in {"panic", "null", "left"} : <<t, m>> \in reports) /\
      (\E m \in {"panic", "null", "left"} : <<u, m>> \in reports) => t = u

\* No thread waits for the guard while it holds it: the handler that
\* std_thandler_ hands on to is never, by any chain, panic_thandler_ itself.
\* It depends on the order of the two statics of Handler.cpp.
NoSelfDeadlock == \A t \in Threads : pc[t] = "lock" => panicSync # t

\* An uncaught panic that reaches panic_thandler_ is never treated as an
\* ordinary exception: no such thread goes on to the saved handler, and a
\* panic is reported as one only by a thread that panicked.
PanicIsPanic ==
  \A t \in Threads :
    /\ exc[t] = "panic" => pc[t] # "std" /\ t \notin viaStd
    /\ <<t, "panic">> \in reports => exc[t] = "panic"

\* Once a thread reaches std::terminate the process dies, whatever the program
\* installed and whenever it did.
EventuallyAborts == (\E t \in Threads : pc[t] # "run") ~> process = "aborted"

-----------------------------------------------------------------------------
(* Proofs, for any set of threads and any set of program handlers.          *)

USE DEF Handlers, Exceptions, Locations, Messages

\* The printing of a thread inside panic_thandler_ or behind it.
Spoke(t) == \E m \in {"panic", "null", "left"} : <<t, m>> \in reports

\* With the guard, whoever came past the lock of panic_thandler_ owns the mutex
\* for good and never waits for it; nobody is in the handler or behind it, or
\* has printed from there, who did not come that way.
LockInv ==
  /\ PanicGuard =>
       \A t \in Threads : InPanicHandler(t) => panicSync = t
  /\ \A t \in Threads : panicSync = t => pc[t] \notin {"run", "lock"}
  /\ \A t \in Threads :
       pc[t] \in {"inspect", "std"} \/ t \in viaStd \/ Spoke(t) => t \in entered

\* The saved handler predates panic_thandler_, and so does everything it
\* chains to.
OrderInv ==
  /\ default_thandle_ # "panic"
  /\ staticInit = "preload" => default_thandle_ = "null"
  /\ staticInit # "done" => terminate_handler # "panic"
  /\ userPrev = "none" => default_thandle_ # "user" /\ terminate_handler # "user"
  /\ userPrev = "panic" => default_thandle_ # "user" /\ staticInit = "done"
  /\ userPrev # "user"
  /\ \A t \in Threads :
       /\ panicSync = t /\ pc[t] = "user" => default_thandle_ = "user"
       /\ pc[t] = "user" => userPrev # "none"

\* Where a thread is says which exception it carries.
ExcInv ==
  \A t \in Threads :
    /\ pc[t] = "run" => t \notin viaStd /\ ~ Spoke(t)
    /\ pc[t] = "std" \/ t \in viaStd => exc[t] \in {"none", "std"}
    /\ <<t, "panic">> \in reports => exc[t] = "panic"

IInv == TypeOK /\ LockInv /\ OrderInv /\ ExcInv

LEMMA InitIInv == Init => IInv
  BY PanicAssumption
  DEF Init, IInv, TypeOK, LockInv, OrderInv, ExcInv, InPanicHandler, Spoke

\* Every step of the system keeps the invariant: one case per action.
LEMMA NextIInv == IInv /\ [Next]_vars => IInv'
<1> SUFFICES ASSUME IInv, [Next]_vars PROVE IInv'
  OBVIOUS
<1> USE PanicAssumption
    DEF IInv, TypeOK, LockInv, OrderInv, ExcInv, InPanicHandler, Spoke
<1>1. CASE PreloadDefaultHandler /\ UNCHANGED process
  BY <1>1 DEF PreloadDefaultHandler
<1>2. CASE SetPanicHandler /\ UNCHANGED process
  BY <1>2 DEF SetPanicHandler
<1>3. CASE UserInstall /\ UNCHANGED process
  BY <1>3 DEF UserInstall
<1>4. ASSUME NEW t \in Threads, NEW e \in Exceptions,
             Terminate(t, e), UNCHANGED process
      PROVE  IInv'
  BY <1>4 DEF Terminate, Goto, Entry, KeepsHandlers
<1>5. ASSUME NEW t \in Threads, PanicLock(t), UNCHANGED process PROVE IInv'
  BY <1>5 DEF PanicLock, Goto, KeepsHandlers
<1>6. ASSUME NEW t \in Threads, PanicInspect(t), UNCHANGED process PROVE IInv'
  BY <1>6 DEF PanicInspect, Goto, KeepsHandlers
<1>7. ASSUME NEW t \in Threads, StdHandler(t), UNCHANGED process PROVE IInv'
  BY <1>7 DEF StdHandler, Goto, Entry, KeepsHandlers
<1>8. ASSUME NEW t \in Threads, HandlerLeft(t), UNCHANGED process PROVE IInv'
  BY <1>8 DEF HandlerLeft, Goto, KeepsHandlers
<1>9. ASSUME NEW t \in Threads, RuntimeHandler(t), UNCHANGED process PROVE IInv'
  BY <1>9 DEF RuntimeHandler, Goto, KeepsHandlers
<1>10. ASSUME NEW t \in Threads, UserHandler(t), UNCHANGED process PROVE IInv'
  BY <1>10 DEF UserHandler, Goto, Entry, KeepsHandlers
<1>11. ASSUME NEW t \in Threads, Abort(t) PROVE IInv'
  BY <1>11 DEF Abort
<1>12. CASE UNCHANGED vars
  BY <1>12 DEF vars
<1>13. QED
  BY <1>1, <1>2, <1>3, <1>4, <1>5, <1>6, <1>7, <1>8, <1>9, <1>10, <1>11, <1>12
  DEF Next, StaticInit, Handle, Aborted

\* The inductive invariant is an invariant of the handler.
THEOREM IInvariant == Spec => []IInv
  BY InitIInv, NextIInv, PTL DEF Spec

\* Type correctness, for any number of threads.
THEOREM TypeCorrect == Spec => []TypeOK
<1>1. IInv => TypeOK
  BY DEF IInv
<1>2. QED
  BY <1>1, IInvariant, PTL

\* panic_thandler_ under the guard of Guard.hpp admits one thread, for good.
THEOREM PanicExclusion == Spec => []PanicExclusive
<1>1. IInv => PanicExclusive
  BY DEF IInv, LockInv, PanicExclusive
<1>2. QED
  BY <1>1, IInvariant, PTL

\* The messages of the handler come from one thread.
THEOREM OneVoiceHolds == Spec => []OneVoice
<1>1. IInv => OneVoice
  BY DEF IInv, TypeOK, LockInv, OneVoice, Spoke, InPanicHandler
<1>2. QED
  BY <1>1, IInvariant, PTL

\* No chain of handlers leads a thread back to the mutex it holds.
THEOREM NoSelfDeadlockHolds == Spec => []NoSelfDeadlock
<1>1. IInv => NoSelfDeadlock
  BY DEF IInv, LockInv, NoSelfDeadlock
<1>2. QED
  BY <1>1, IInvariant, PTL

\* A panic is reported as a panic and never passed on.
THEOREM PanicIsPanicHolds == Spec => []PanicIsPanic
<1>1. IInv => PanicIsPanic
  BY DEF IInv, ExcInv, PanicIsPanic
<1>2. QED
  BY <1>1, IInvariant, PTL
=============================================================================
