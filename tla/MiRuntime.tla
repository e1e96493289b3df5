----------------------------- MODULE MiRuntime ------------------------------
(***************************************************************************)
(* Parts of mimalloc around an arena (MiArena), side by side, as in        *)
(* MiServices: the table of arenas, the free lists of a page, the blocks   *)
(* that the allocation functions cut, how the process and its threads      *)
(* start and end, the options, the messages kept until there is an output  *)
(* for them, the statistics and the random numbers.  They share no state;  *)
(* what is claimed of each is stated in its module.  MiArena is extended   *)
(* and not instantiated, so that TLC computes its tables once.             *)
(***************************************************************************)
EXTENDS MiArena

CONSTANTS
  Areas, NoArea, MaxArenas, Spare, AreaBlocks, Kinds, Wanted, \* see MiArenas
  Reserved, MaxExtend, Slices, MapBytes, MapBits,           \* see MiFreeList
  Starters, Loader, Iterations,                         \* see MiProcess
  Options, Environments, MaxSets,                       \* see MiOptions
  Lengths, Capacity, MaxMessages,                       \* see MiOutput
  MaxAdds,                                              \* see MiStats
  Counts, Elements, BlockSizes, Alignments, Offsets, SizeMax, \* see MiBlocks
  Streams, BlockWords, Width, MaxCarries, MaxWords, MaxKeys       \* see MiRandom

VARIABLES
  part,   \* the one that runs
  mi_arenas, mi_arena_count, belongs, claims, user, request, exited,
  secure, next, free, local_free, xthread_free, capacity, used, free_is_zero,
  holds, written, freeing,
  os_preloading, thread_id, cookie, process_init, tls_initialized, key,
  heap_default, heap_value, count, calls, rounds, gone, loaded, os_inits,
  refused, ready, met,
  preloading, environment, value, init, stack, asked, raced, missed,
  out_buf, out_len, mi_out_default, at, msg, start, stderr, stdout, printed,
  message, crossed,
  padding, block,
  main, stats, todo, added, torn,
  ctx, keys, drawn, made, reused, again

As == INSTANCE MiArenas WITH
  Asks <- Wanted, None <- NoArea, pc <- user, local <- request

F == INSTANCE MiFreeList

B == INSTANCE MiBlocks WITH p <- block

P == INSTANCE MiProcess WITH
  Threads <- Starters, NoThread <- NoArea, failed <- refused, raced <- met,
  todo <- calls

Op == INSTANCE MiOptions

Out == INSTANCE MiOutput WITH user <- stdout, next <- message

St == INSTANCE MiStats

R == INSTANCE MiRandom WITH Addresses <- Streams

ASSUME MiRuntimeAssumption ==
  /\ R!RandomAssumption /\ Op!OptionsAssumption
  /\ P!ProcessAssumption /\ B!BlocksAssumption /\ As!ArenasAssumption

arenasVars ==
  <<mi_arenas, mi_arena_count, belongs, claims, user, request, exited>>
listVars ==
  <<secure, next, free, local_free, xthread_free, capacity, used,
    free_is_zero, holds, written, freeing>>
blockVars == <<padding, block>>
processVars ==
  <<os_preloading, thread_id, cookie, process_init, tls_initialized, key,
    heap_default, heap_value, count, calls, rounds, gone, loaded, os_inits,
    refused, ready, met>>
optionVars == <<preloading, environment, value, init, stack, asked, raced, missed>>
outputVars ==
  <<out_buf, out_len, mi_out_default, at, msg, start, stderr, stdout, printed,
    message, crossed>>
statVars == <<main, stats, todo, added, torn>>
randomVars == <<ctx, keys, drawn, made, reused, again>>

everything ==
  <<part, vars, arenasVars, listVars, blockVars, processVars, optionVars, outputVars,
    statVars, randomVars>>

RuntimeInit ==
  /\ part \in {"arena", "arenas", "lists", "blocks", "process", "options", "output",
               "stats", "random"}
  /\ Init /\ As!Init /\ F!Init /\ B!Init /\ P!Init /\ Op!Init /\ Out!Init /\ St!Init /\ R!Init
  /\ part # "arena" => committed = {}
  /\ part # "lists" => ~secure /\ ~free_is_zero
  /\ part # "blocks" => ~padding
  /\ part # "options" => preloading /\ environment = CHOOSE e \in Environments : TRUE

\* Only the state of the part that runs changes.
Others ==
  /\ IF part = "arena" THEN TRUE ELSE UNCHANGED vars
  /\ IF part = "arenas" THEN TRUE ELSE UNCHANGED arenasVars
  /\ IF part = "lists" THEN TRUE ELSE UNCHANGED listVars
  /\ IF part = "blocks" THEN TRUE ELSE UNCHANGED blockVars
  /\ IF part = "process" THEN TRUE ELSE UNCHANGED processVars
  /\ IF part = "options" THEN TRUE ELSE UNCHANGED optionVars
  /\ IF part = "output" THEN TRUE ELSE UNCHANGED outputVars
  /\ IF part = "stats" THEN TRUE ELSE UNCHANGED statVars
  /\ IF part = "random" THEN TRUE ELSE UNCHANGED randomVars
  /\ UNCHANGED part

Arena == part = "arena" /\ Next /\ Others
Arenas == part = "arenas" /\ As!Next /\ Others
FreeLists == part = "lists" /\ F!Next /\ Others
AllocatedBlocks == part = "blocks" /\ B!Next /\ Others
Process == part = "process" /\ P!Next /\ Others
OptionTable == part = "options" /\ Op!Next /\ Others
Output == part = "output" /\ Out!Next /\ Others
Statistics == part = "stats" /\ St!Next /\ Others
Random == part = "random" /\ R!Next /\ Others

RuntimeNext ==
  \/ Arena \/ Arenas \/ FreeLists \/ AllocatedBlocks \/ Process
  \/ OptionTable \/ Output \/ Statistics \/ Random

RuntimeSpec == RuntimeInit /\ [][RuntimeNext]_everything

---------------------------------------------------------------------------
\* An arena stays in the table from when it is added, no two have the same
\* memory, memory comes from one that suits what was asked for, and from the
\* system when there is none; and an allocation looks behind the table only if
\* another thread tries to add to the full table meanwhile.
ArenasKeep == part = "arenas" => As!ArenasKeep

\* Each block is on one free list, with the program or with the thread that
\* frees it; the owner's count, its zero flag and what a visitor is shown
\* agree with that.
ListsAreSound == part = "lists" => F!ListsAreSound

\* Blocks are large enough and aligned, keep what was written through any
\* resizing, and no correct program is told that it wrote over their end.
BlocksKeep == B!BlocksKeep

\* The process is initialized once, the main heap is the main thread's, and
\* the threads that are counted are those with a heap.
ProcessKeeps == part = "process" => P!ProcessKeeps

\* Whoever asks for an option first, it comes to have the value that the
\* environment or the program gave it, if it was not asked for in the moment
\* that preloading ended.
OptionsResolve == part = "options" => Op!OptionsResolve

\* What is reported of the program is true: messages from before there is an
\* output are written to it in full, and the statistics of the threads add
\* up in those of the process.
ReportsAreTrue == (part = "output" => Out!OutputIsKept) /\ (part = "stats" => St!StatsAddUp)

\* No random word is handed out twice, unless by streams that had one key and
\* one address.
NoWordAgain == part = "random" => R!NoWordAgain
=============================================================================
