# efl-core: models, checks and proofs

efl-core is a C++ core library (C++11 to C++23): value wrappers that construct
and destroy objects by hand (`Option`, `Result`, `Poly`, `Box`), views
(`StrRef`, `ArrayRef`), scoped locks, a panic handler that takes over
`std::terminate`, and an allocator over a bundled copy of mimalloc. These
modules describe what of it has state and a protocol; `PROJECT.json` maps every
definition to the lines it stands for.

Paths below are relative to the repository. `X.cfg` is checked with
`tlc -config X.cfg MODULE.tla`, the module of each run being the one that
section 4 names; proofs are checked with `tlapm M.tla`, the modules with proofs
being `PanicHandler` and those named `_proofs`.

## 1. Inventory

| Component | State it keeps | Operations | What is hard | What makes it correct |
|---|---|---|---|---|
| Panic handler (`src/Panic`, `Panic.hpp`, `Preload.hpp`) | two statics, the process's terminate handler, the guard mutex | static initialisation, `panic_`, `panic_thandler_`, `std_thandler_` | threads that terminate at once, order of statics, handlers of the program that return, throw or chain | one thread at a time, never meets its own mutex, a panic stays a panic, the process dies |
| Mtx, ScopedLock (`Mtx.hpp`) | ownership of mutexes, open scopes | `tryLock`, three constructors, the destructor | deadlock, partly locked sets, adoption | what is owned has one keeper, sets of mutexes are taken whole, no circular wait |
| Option, Option of a reference, Result, Poly | storage, a flag or number | constructors, assignments, emplace, swap, observers, comparisons | copies that throw, self-assignment, which destructor runs, hand-written negations | the flag names what is alive; a user sees an optional |
| Box, BoxAllocator | a pointer | `New`, move, `reset`, `release`, `swap`, `Delete` | deletions that run over boxes inside objects | one owner, nothing used after its destruction |
| MimAllocator, Vec, Str | blocks | `allocate`, `deallocate` | counts, sizes and alignments at limits | room, alignment, the assertions hold |
| StrRef, ArrayRef, ImmutArrayRef | pointer and size | slices, takes, drops, reads, writes, comparisons | views of views, wrap-around | stays in bounds, behaves as a string view |
| mimalloc: freeing from other threads (`alloc.c`, `page.c`, `heap.c`, `segment.c`, `init.c`) | page headers with an atomic list and flag, an atomic list per heap | `mi_malloc`, `mi_free`, `mi_heap_collect/new/delete/destroy`, thread end and start, reclaim | lock-free interleavings, heaps that go away, waiting loops | no block twice or lost, no memory used after it is given back, every call returns |
| mimalloc: free lists of a page (`page.c`, `alloc.c`) | three linked lists | extend, malloc, free, collect, double-free check, visit | the owner counts what others free only by walking | each block in one place, `used` exact |
| mimalloc: page queues and heaps (`page-queue.c`, `page.c`, `heap.c`) | queues per size class, `pages_free_direct`, retired range | find, retire, fill, unfull, collect, absorb, destroy | a cached head per size | cache and queues agree |
| mimalloc: segments and spans (`segment.c`) | slices, span queues, commit and purge masks | allocate, split, coalesce, commit, purge, abandon, reclaim | two ends of every span, delayed purges | spans partition a segment, pages stay committed |
| mimalloc: abandoned list (`segment.c:1033`) | two lock-free lists, a tag, a count of readers | push, pop, move the visited | ABA, release under a reader | a set of segments |
| mimalloc: arenas and bitmaps (`arena.c`, `bitmap.c`) | bitmaps of blocks, the table of arenas | claim, free, purge; add, reserve, choose | claims over several words with roll-back, purges | no block twice, committed means accessible |
| mimalloc: operating system layer (`os.c`, `prim/unix`) | what is mapped, committed, protected | aligned allocation, commit, decommit, reset, protect, free | over-allocation, rounding, offsets | everything mapped is held, what is committed keeps its contents |
| mimalloc: thread data, segment map, process and threads (`init.c`, `segment-map.c`) | caches, bits, once-flags, counts, TLS | start and end of threads and process, mark, unmark, find | order of loader, threads and destructors | one holder, one initialisation |
| mimalloc: allocation functions (`alloc.c`, `alloc-aligned.c`, `alloc-posix.c`) | one block, its padding | calloc, realloc, rezalloc, aligned, strdup, free | sizes at limits, zero growth, padding | room, alignment, contents kept |
| mimalloc: options, messages, statistics, random numbers (`options.c`, `stats.c`, `random.c`) | option table, output buffer, counters, ChaCha state | get, set, print, register, merge, reset, split, next | races declared benign, recursion through warnings | values agreed, nothing lost, no word twice |
| Preload, assertions | – | – | – | part of the panic handler and the allocator |
| Wrappers (`Ref`, `Wrapper`, `Unwrap`, `Binding`), `Array`, `AlignedStorage` | one value | construct, read | nothing after construction | – |
| `Traits`, `Tuple`, `OverloadSet`, `Casts`, `Enum`, `Endian`, `Fundamental` | none at run time | – | – | left to the compiler |

Interaction: `Vec`, `Str` and `Box` allocate through `MimAllocator`, which calls
mimalloc; `Option`, `Result` and `Box` end a failed check in `panic_`, which
throws into `std::terminate` and so into the panic handler; the handler takes
a `Mtx` in a scoped lock. Inside mimalloc a block comes from a page
(`MiFreeList`), found in the queues of a heap (`MiPageQueue`); a page is a span
of a segment (`MiSegment`), a segment is registered in the map
(`MiSegmentMap`) and lies in an arena (`MiArena`, `MiArenas`) or comes from the
system (`MiOs`); a thread's heaps lie in its thread data (`MiThreads`), made
and given up as `MiProcess` says; what a thread leaves behind goes through the
abandoned list (`MiAbandoned`), and blocks of other threads through the
protocol of `MiDelayedFree`. `PROJECT.json` lists the hazards line by line.

## 2. Plan

Modelled and model-checked: section 3. Proved: section 6. What is left is
proof, in this order:

1. `MiSegment`: `SegmentsAreValid` of a step of one owner, for any number of slices.
2. `MiPageQueue`, `MiFreeList`: `QueuesAreSound` and `ListsAreSound`, as far as
   they need no induction over a queue or a list.

No module declares a RECURSIVE operator: recursion is written as recursive
functions or folds, so that each can be proved about.
Abstract specifications: `MutexSets` (sets of mutexes taken at once),
`Optionals` (N3793), `Strings` (a string view, and the string of places that an
array view is), `AbandonedSet` (a set that segments are put in and taken from).

## 3. Modules and the code they stand for

Small components that share no state run side by side in one run: a module
picks one of them initially (`uses`, `part`) and then does only its steps.
`ValueTypes` holds the types of efl-core, `MiServices` and `MiRuntime` parts of
mimalloc. What is claimed of each is stated in its own module and named again
in the composite, where TLC looks for it. Model values are shared between the
parts, so that one symmetry serves them all, and choices of the parts that do
not run are pinned in the composite's `Init`.

**`PanicHandler`** – one thread's way from `std::terminate` to `abort()`.
`pc` is the function a thread is in; `terminate_handler`, `default_thandle_`
and `panicSync` are the variables of those names. Each static initialiser is
one action, each handler one, the lock one. The program's own handler is a
value of `UserHandlers` that aborts, returns, throws, chains to what it
replaced, or is null, and may be installed at any time. `entered` remembers who
came past the lock of `panic_thandler_`: from there on to `abort()` a thread is
in the handler, printing, handing on or at the end.

**`MiDelayedFree`** – pages, heaps and threads. `page[p]` is the header
(`xheap`, `xthread_free` as `flag` and `tfree`, `free`, `local_free`, `used`,
`capacity` as `cap`), `delayed[h]` is `thread_delayed_free`. An atomic access
is a step; a compare-and-swap loop is the one step in which it succeeds; what
only the owner sees joins the step before it. Common code (drain, find, visit)
is entered with a `job` that says for which call. Abstractions: lists and
queues are sets (`MiFreeList` and `MiPageQueue` have the lists); a segment has
one page, so that abandoning and reclaiming a segment is abandoning and
reclaiming its page; one size class and "another one"; no huge or aligned
blocks, no statistics.

**`MiSegment`** – `slice_count`, `slice_offset` and `block_size` of each slice,
the span queues of each thread, `commit_mask` and `purge_mask` as sets of
slices, and the life of a segment. A call of the owner is one step, because
nobody else touches the segment. Allocation may fail to commit; a purge is due
at once, later, or never (`PurgeDelay`).

**`MiPageQueue`** – two heaps of one thread: `heap[h].pages` as sequences,
`pages_free_direct` by word size, `retired min/max`, `page_count`. Other
threads free blocks at any time, and either heap may reclaim pages that the thread
abandoned (`no_reclaim` is not looked at, section 7). **`MiFreeList`** – `next` is the link in each
free block; `free`, `local_free` and `xthread_free` its three heads; an
extension links in order, or shuffled and in slices in a secure build.

**`MiAbandoned`** (abstract: `AbandonedSet`) – `abandoned` with its tag,
`abandoned_visited`, `abandoned_readers`; `pc` is the access a thread is at.
**`MiArena`** – `blocks_inuse`, `blocks_committed`, `blocks_purge`,
`purge_expire`; a claim across fields is one step per field, forward and back.
The delay of purges is an option: each time it is read it may be negative, zero
or positive.
**`MiArenas`** – `mi_arenas`, `mi_arena_count`, and where an allocation looks.
The static area for descriptions is left out, because the code never uses it:
`mi_arena_meta_zalloc` asks for alignment `MI_ALIGNMENT_MAX` (16 MiB), which the
test of `arena.c:155` refuses. A thread that walks the table by a count that is
too high for the moment goes past null places, or on behind its end
(`"outside"`). **`MiOs`** – what
the system has mapped (external) and what `os.c` holds of it: base, size,
offset, what is accessible and what it contains; `lost` is what was handed out
as committed although its commit was refused. **`MiThreads`** – the slots of `td_cache` with
each load, exchange and compare-and-swap. **`MiSegmentMap`** – `mi_segment_map`
by words; a search loads each word in a step, and reads the header of the
segment it found in a further one, by which time a segment of another thread
may be unmapped (`"lost"`). **`MiBlocks`** – one block: its usable size, alignment, padding, and
what each unit of it contains.

**`MiProcess`** – `todo` is the sequence of calls a thread still has to make;
a call replaces itself by those it makes. **`MiOptions`** – a stack of
`mi_option_init` per thread. Looking into the environment and giving an option
up are two steps, and so are the accesses of each setter; `missed` and `raced`
remember the options for which something came between. **`MiOutput`** – claims and copies of the early
output buffer. **`MiStats`** – one field at a time of the updates of the main
statistics. **`MiRandom`** – a word is named by key, nonce (the two halves of an address),
counter and place. Streams come and go at their addresses; `reused` remembers
those that had a key and an address of an earlier one.

**`ScopedLock`** (abstract: `MutexSets`) – `owner` is the `std::mutex`;
`got` is what `std::lock` has taken so far. `std::lock` is external: block on
one, try the others, give all back when a try fails. `scoped_unlock` is
`const` and calls non-const members, so the multi-mutex destructor does not
compile before C++17; the model is of what it says, which is also what
`std::scoped_lock` does from C++17 on.

**`OptionCell`, `OptionRef`, `ResultCell`, `PolyCell`** (abstract: `Optionals`;
common: `Lifetimes`) – `mem.obj` is what is alive in each storage, `mem.active`
or `mem.id` the flag or number, `mem.broken` what was done that the language
leaves undefined. `call` is the last operation as its caller sees it: the
refinement demands that a copy does what a copy promises and not merely
something that some operation might do. An operation is one step; where it
copies and the copy may throw, the memory at that moment is a second outcome.
`ResultCell` chooses initially whether `T` is trivially destructible,
`PolyCell` whether the build is C++17. Both keep `spoilt`, the objects that
met one of the known faults (section 7): the properties are claimed of all
others, and after a use of a dead object nothing more happens.
**`OptionOrder`** – every overload of the comparisons, against the one order
that they should all express.

**`BoxOwner`** – boxes are variables or lie inside heap objects; a deletion is
a stack of continuations `todo`, because it runs destructors of boxes inside
objects and the operation that started it carries on afterwards. `inside`
remembers the one known fault.

**`MimAlloc`** – which of mimalloc's three entry points `SmartAllocate` calls,
with what size modulo the word size. The entry points are stated by what
`alloc.c` and `alloc-aligned.c` promise.

**`StringSlice`, `ArrayViews`** (abstract: `Strings`) – views over a literal
with its NUL, and over arrays that lie side by side and are written to; debug
assertions are guards; sums wrap. `Departs` names the calls known not to do
what a string view does.

## 4. Runs

| Run (module, cfg) | Instance | Shows |
|---|---|---|
| `panic` (`PanicHandler`) | 3 threads, 5 program handlers, guard on, fair | `PanicExclusive`, `OneVoice`, `NoSelfDeadlock`, `PanicIsPanic`; `EventuallyAborts` |
| `free_abandon` (`MCMiDelayedFree`, `MiFreeAbandon.cfg`) | 2 threads with heaps and one that frees, 1 page of 3 blocks, threads end and start | `BlockInOnePlace`, `UsedExact`, `PageStays`, `SomeoneKnows`, `AbandonedUnreferenced` |
| `free_heaps` (`MiFreeHeaps.cfg`) | main thread with two heaps, 2 that free, 2 pages of 2 and 1 blocks, delete and destroy | `LiveHasPage`, `HeapStays`, `HeapEmptied` |
| `free_live` (`MiFreeLive.cfg`) | 2 threads, 3 heaps, 1 page of 2 blocks, fair | `EveryCallReturns`, `NoPageForgotten` |
| `values` (`MCValueTypes`, `ValueTypes.cfg`) | each type of efl-core: 3 cells, 2 values, 2 boxes over 3 objects, 2 views, 2 blocks, 3 threads with 3 mutexes | `StoragesAreTruthful`, `CellsAreOptionals`, `InBounds`, `IsStrings`, `LocksAreKept` |
| `segments` (`MiSegment`) | 2 threads, 2 segments of 6 slices, pages of 2 and 3 slices, huge ones | `SegmentsAreValid`, `PagesAreKept`, `AbandonedIsListed` |
| `services` (`MCMiServices`, `MiServices.cfg`) | abandoned list, page queues, system layer, thread data, segment map | `IsAbandonedSet`, `FollowsMapped`, `QueuesKeep`, `OsKeepsMemory`, `DataHasOneHolder`, `MapFinds` |
| `runtime` (`MCMiRuntime`, `MiRuntime.cfg`) | one arena, the table of arenas, free lists, blocks, process, options, messages, statistics, random numbers | `InuseIsHeld`, `CommittedIsAccessible`, `ArenasKeep`, `ListsAreSound`, `BlocksKeep`, `ProcessKeeps`, `OptionsResolve`, `ReportsAreTrue`, `NoWordAgain` |
| `allocator_small` (`MCValueTypes`, `MimAllocSmall.cfg`) | `Vec<u64>`, beside the other types | `AssertionsHold` is violated |
| `arena_purge` (`MiArena`) | 2 threads, 3 blocks | `PurgeIsDue` is violated |
| `thread_data` (`MiThreads`) | 2 threads, 1 slot | `NoDataIsLost` is violated |
| `zero_grow` (`MiBlocks`) | one block, 4 block sizes | `GrownIsZero` is violated |

Every bound is a constant of a `.cfg`, or a definition of the MC module.

*Panic handler.* It treats all threads alike and each owns at most one mutex,
so a third thread adds only a second waiter. *Delayed free.* A page can be
touched by its owner, by one thread in `MI_DELAYED_FREEING` and by one that
finds that flag raised: three threads. Three blocks make the first stranger,
one behind it and one that stays, and fill a page in two extensions
(`MaxExtend = 2`). Two heaps of one owner are what deletion needs; three heaps
let both threads wait on flags at once. *Types.* Three mutexes are the least for
which `std::lock` backs off from two; the threads and the mutexes are the three
`Cells`. Two options alias in every way; the third is a bystander. Three
objects make a chain whose middle is deleted, and every cycle. A 4-bit `size_t`
has values near its end (14, 15) far from any length in the instance; an array
of two elements has another one right behind it. *Segments.* Six slices hold
the header and three spans, so that a middle span has two neighbours; a second
segment is what reclaiming and a second queue entry need. A segment that
threads have looked at more than `Visits = 1` times in vain (the code: 3) is
reclaimed at once. The bins of a span
are those of `slice_count` up to 6: bins that several counts share (from 8 on)
do not occur. *Abandoned list.* Two threads and three segments; a tag up to
`MaxTag = 6` never wraps, as it practically does not in the code. *Queues.*
`SmallMax = 10` words (128), a medium maximum of 12, `RetireCycles = 1` (16 or
4), three pages of two blocks; sizes 3 and 13 give a small bin whose entry of
the direct array covers several word sizes, and the huge queue. *System layer.*
Ten pages and two huge ones of addresses, two blocks held, ranges in units of
half a page. *Thread data.* One slot (16) makes the cache full at once; one
failing allocation. *Blocks.* A small maximum of 12 units of half a word;
`SizeMax = 10` lets sizes wrap. *Segment map.* Three words of two bits, and
segments of one and three places, so that one crosses a word. *Arena.* Three
blocks in two words of two bits, so that a claim crosses and one bit lies
behind the end; `Small = 1` (2 fields), `Retries = 1` (3): a claim that crosses
more than two fields, whose middle fields are claimed whole, does not occur.
*Arenas.* Room for two (112, `MaxArenas`), three areas, so that the third is
one too many. *Free lists.* Four blocks reserved, extended by up to
three, two slices (64) in a secure build, a visit map of two bytes by four bits
(8 by 64). *Process.* The loader's thread and one more; four rounds of
destructors (`PTHREAD_DESTRUCTOR_ITERATIONS`). *Options.* Three options, two
environments, one set per option. *Messages.* A buffer of five characters
(32 KiB) and three messages of one and three. *Statistics.* Two additions.
*Random.* One key and two addresses under it; blocks of
two words (16) and fields modulo 4 (2^32); 34 words, which is one more block than
the two fields of a counter can tell apart, so that one stream carries into its
nonce (`MaxCarries = 1`). `RandomAssumption` says that addresses lie further
apart than carries reach: heaps are kilobytes in size, and a carry takes 2^64
blocks.

Deadlock is checked except where the system stops by itself: in `values`,
behaviours end with the undefined behaviour of a known fault, and a program
that nests scopes in opposite orders does deadlock (`LocksAreKept` is about the
threads that do not nest); in `segments`, `services` and `runtime` the parts
end when the bounds are used up or the process is over.

## 5. Fairness

* `PanicHandler`: weak fairness of each thread in the handler. The path waits
  for the mutex only, and its owner aborts the process.
* `MiDelayedFree`: weak fairness of every thread inside a call (`Step`), which
  the scheduler gives; nothing obliges the program to make calls. Strong
  fairness of `GetFresh`: `mi_segment_try_reclaim` makes at most `max_tries`
  attempts before it asks for fresh memory, so a search cannot go on through
  abandoned segments for ever. `NoPageForgotten` is conditional on `Busy`: the
  program goes on allocating from its heaps; without allocation mimalloc does
  not look at its delayed list. The run has no main thread, because
  `_mi_abandoned_reclaim_all` has no bound while others end.
* The other modules have no liveness property. Try-and-back-off in `std::lock`
  may livelock, and the compare-and-swap loops are lock-free, not wait-free.

## 6. What is proved

Every invariant below was first checked by TLC on small instances. Each is for
every value of the constants that satisfies the assumption named; `NextIInv`
(or `Inductive`) has one case per action.

**`PanicHandler`**, for any set of threads, any subset of program handlers,
guard on or off, from `PanicAssumption` (`NoThread` is no thread, the
constants have their types): `TypeCorrect`, and of the invariants of the run
`panic` `PanicExclusion`, `OneVoiceHolds`, `NoSelfDeadlockHolds`, `PanicIsPanicHolds`.
`IInv = TypeOK /\ LockInv /\ OrderInv /\ ExcInv` is inductive.
`PanicExclusive` alone is not: a thread behind `std_thandler_` may be at the
program's handler, from where chaining could lead to the lock. `LockInv` says
that whoever came past the lock owns the mutex for good and does not wait for
it, and that nobody looks at the exception, hands it on or has printed who did
not come that way. `OrderInv` says why the owner cannot get back to the lock: the cached
handler predates `panic_thandler_`, and so does all it chains to; this is
where the order of the two statics enters. `ExcInv` ties a thread's location
to the exception it carries.

**`MiDelayedFree_proofs`**, for any number of threads, heaps, page areas and
blocks: every invariant of the runs `free_abandon` and `free_heaps`. `IInv`
has these parts. `Headers`: the lists of a page share no block, and `used`
counts those the owner does not see as free. `Control`: where a thread may be,
for which call and with which heap. `PageInv` (with `Belongs`, `AtHand`,
`Refusals`, `OneWriter`): a page in use belongs to the thread of its heap; a flag
is "never" only from the end of a thread until the page is taken over; one
stranger at a time is between its two writes to `xthread_free`, and the flag
says "freeing" for as long. `RouteInv`: a delayed block lies in a page of the
heap in whose list it is, or of the first heap of that thread while the other
is being given up; so a stranger pushes on a heap that is valid. `BlockInv`:
the blocks on no list of their page are divided among the program, the heaps
and the threads. `DestroyInv`: while a heap is destroyed the program holds no
block of it. None of the properties is inductive by itself: that a block is in
one place depends on which list its stranger will push on, that on the flag,
and the flag on who is between the writes of `mi_free_block_delayed_mt`.
Two hypotheses: a program that calls `mi_heap_destroy` allocates from one thread
(`DestroysAlone`), because otherwise the invariants are false: `no_reclaim` is
not looked at (section 7), so `LiveHasPage` in particular is claimed for such
programs only; and `BlockPlaces` is of programs that do not call
it, because `mi_heap_destroy` drops the pages of blocks that are still on
their way.

**`MiAbandoned_proofs`**, for any number of threads and segments and any bound
on the tag: `Follows` (nobody reads behind a segment that was given back),
`Apart` (a segment is on one list at most) and `Exact` (a pop that succeeds
leaves what is behind the head *now*, so that a head that went and came back
does no harm). `Lists` says that the abandoned segments, the visited ones and
those that a thread moves are three lists apart: links are injective, stay
within the list and never lead to its head. `Knows` says what a thread knows of
the head it loaded: if the tag is the same, so are the head and the link behind
it. `Counted` and `Safe` say why a popper may read: while it counts as a
reader, a segment that was on a list when it came is not unmapped.

**`MiRuntime_proofs`** proves of the run `runtime` what it checks of six of its
parts; a step of the composite is one of the part, or leaves its variables alone.

* An arena, for any number of threads, fields, bits and blocks: `InuseHeld` and
  `CommittedAccessible`. What is in use is divided among the end of the bitmap,
  the callers and the threads at work (`Divided`, `Apart`); `Fits` says where the
  bits of a thread come from, so that a claim across fields that is taken back
  gives back exactly its own.
* Random numbers, for any addresses apart from each other as `RandomAssumption`
  says, and any width of a field and words of a block: `WordsAreNew`, of streams
  other than those that got a key and an address again (`reused`). The nonces of
  two addresses are apart in one of their halves even after carries.
  `RandomInv` says that each word that was drawn under a nonce of a stream lies
  behind it (`RndBehind`): its block was made before the counters the stream has
  now, in the order that carries from the counter into the nonce, or it is of the
  present block and before the words still to come.
* Options, for any number of threads and options and any environment:
  `OptionsComeOut`, of the options that were not given up in the moment that
  preloading ended (`missed`) and not set while another thread was at them
  (`raced`). `OptNested` describes the stack of initialisations that
  warnings lead to: all but the last are of the two options that warnings ask
  for, and `verbose` is turned off in one place at a time, and no other call is
  then busy with it. `OptFits` and `OptGoes` say how far an option is, by the calls that
  wait for it. That `verbose` and `show_errors` have no legacy names
  (`OptionsAssumption`) is needed: the warning about a legacy name would come
  back to the option that is being initialized.
* The process and its threads, for any finite number of threads:
  `ProcessIsKept`. `ProcessInv` has three phases: nobody has called mimalloc
  (`ProFresh`); one thread starts it up, where what it has yet to call says how
  far it is (`ProStartsUp`, one case for each point of the start by the loader
  or by an early allocation); it is up (`ProRunning`), where the threads counted
  and those about to count themselves are those with a heap (`ProCounted`).
  `ProOsOnce` holds even if threads meet in the start: the call that initializes
  the operating system layer is in one stack, once, and only if `process_init`
  was set.
* The block of the allocation functions, for any counts, sizes, alignments,
  offsets and block sizes: `BlocksAreKept`. `BlocksInv` says of the block, at
  every point of a sequence of writes, resizings and frees, that its padding
  tells what was asked for and is filled as far as a free looks at it
  (`BlkPadded`), that the pointer with what was asked for fits in front of it
  (`BlkRoomy`), and when it is zero behind what was asked for. The lemmas on
  alignment (`BlkAligns`, `BlkAdjusts`, `BlkPageAligns`) show that the three ways
  to an aligned block (a size that is aligned by itself, a chance find, a pointer
  moved inside a larger block) do what they say.
  `BlocksAssumption` is what `mi_bin` guarantees of block sizes.
* The table of arenas, for any finite number of threads, any areas, places, kinds
  of arenas and asks: `ArenasAreKept`. Places are given out in order, and the
  count is too high by exactly the threads that got none and have not taken
  their addition back (`TabPlacesKept`, with the cardinality of the set of
  these). An area is in the table or with the one thread that makes an arena of
  it (`TabAreasKept`); a claim suits its arena (`TabClaimsKept`). A walk
  leaves the array only if another thread was under way with it (`TabWalksKept`).
  That an allocation which met nobody falls back on the system
  only when nothing fits needs `TabLastKept`: every arena that fits is still
  among those it has left to try.

**`ScopedLock_proofs`**, for any number of threads and mutexes and any depth:
`Keeper`, `Scope`, `Circle`, and `Atomic`: `Spec => Sets!Spec`, the refinement of
`MutexSets` in which a set of mutexes is taken at once. What a thread
owns is divided between its scopes, its `tryLock`s, what `std::lock` took so
far and the scope it leaves (`Owning`, `Apart`, `Shape`); the mapping hides
what `std::lock` took, a try that fails stutters, and only the last lock of a
set is a step of `MutexSets`.

**`MiServices_proofs`** proves of the run `services` all but its queues and the
refinement `IsAbandonedSet`. A step of the composite is one of the part, or
leaves its variables alone. `Follows` is `MiAbandoned_proofs`' where the run
states it. `OneHolder` (`DataHasOneHolder`): what a thread has only loaded from
a slot is not its own, so the invariant is stated over `TdHas`, which the
exchange and the compare-and-swap change; `TdPlace` ties it to where a thread
is, `TdCounted` makes the thread count exact. `Found` (`MapFinds`), for any
number of words and bits of a word: the marks a thread changes are those of its
own segments (`MarksOwn`), no two segments share one, and a search leaves the
word of its pointer only when the segment does not start there (`MapFinder`),
whatever others mark and unmark meanwhile, until the header is read. `MemoryIsKept`
(`OsKeepsMemory`), for any number of pages, sizes, alignments and ranges, and
whatever the system refuses: a block is what was mapped
for it, trimmed to what its free will unmap; a range that is given up is rounded
inwards and so never reaches a page of another block or one only partly given
up, and one that is committed is rounded outwards, which is where `OsInv` needs
that `usable` lies within `got` and blocks within `1 .. Top`. Of a unit in `lost`
no access or contents are claimed.

**`ValueCells_proofs`**, for any values, errors, classes, cells, boxes and
objects, is about the storages of efl-core. For `OptionCell`, `OptionRef`,
`ResultCell` and `PolyCell` the invariant says of each storage by itself what is
in it; an operation changes one or two cells, so its proof looks at these, at
every point where a copy may throw. `CellsStayOptionals` is the refinement of
`Optionals`, operation by operation. For `BoxOwner` the invariant (`BoxInv`) is
about who points to whom: `StoragesStayTruthful` needs that while the chain of
deletions that one operation starts is under way, what is yet to be destroyed,
reset or taken is owned by nothing that stays. The assumptions are that the
marks the models use for "nothing" or "moved from" are no values of the program.

**`ValueTypes_proofs`**: `LocksKept` is `ScopedLock_proofs` where
threads and mutexes are both `Cells`. `ViewsStayIn` and `ViewsAreStrings` are
of `StrRef` and `ArrayRef`, for any memory, arrays, views and numbers: each view
is null and empty or lies in the memory, or in one array (`ViewInv`, `RefInv`,
inductive together with types). From that follows, operation by operation, that
the step is one of `Strings` under the mapping that sends a view to the
characters, or the places, it shows: a part of a part is a part
(`PartIsView`, `PartIsPlaces`). The one assumption is that `size_t` counts
twice the memory, so that of sums only the end of a slice may wrap.
`StaysInBounds` adds the blocks of `MimAllocator`, under the hypothesis
`CountsFit`: the byte size is small wherever `is_small_alloc` takes the count
for small, and no alignment beyond 8 is asked for a type that has none. Without
it `EnoughRoom` is false (section 7, run `allocator_small`);
the constants of `values` satisfy it.

Only model-checked:

* Liveness (`EventuallyAborts`, `EveryCallReturns`, `NoPageForgotten`), which
  these provers do not reach.
* `IsAbandonedSet`: the set of a list is computed by a recursive function along
  its links, and that it is what the links reach needs induction. `Lists`
  states what of it first-order reasoning can carry.
* `QueuesKeep`: the sequences of a queue and the ranges of
  `pages_free_direct` are computed by recursive functions.
* `ReportsAreTrue` (sums over threads, and the messages selected from what was
  said) and `ListsAreSound` (what a list reaches) need induction over data.
* `SegmentsAreValid`, `PagesAreKept` and `AbandonedIsListed`: not proved so far.

## 7. Known departures

Met while translating; each is in the models unless it says otherwise. Four
are shown by runs that expect a violation; the others are excluded from
properties by name (`Spoils`, `inside`, `Departs`, `wrapped`, `raced`,
`missed`, `reused`, `lost`, `crossed`), or by the instance where that is said.

Types of efl-core:

| Where (`include/efl/Core/`) | What the code does |
|---|---|
| `MimAllocator.hpp:138` | `is_small_alloc` compares the element count with a number of bytes; 129 to 1023 elements of 8 bytes reach `AllocateSmall`, whose assertion (`MimAllocator.cpp:42`) fails and without which `pages_free_direct` is indexed past its end (run `allocator_small`). |
| `MimAllocator.hpp:129` | whether a type is overaligned is decided by `alignof(T)`, so `Align` is ignored for `MimAllocator<char, 64>` (not in the instance). |
| `MimAllocator.hpp:213` | when mimalloc returns null, `allocate` returns it; it neither throws nor panics (the model holds no block then). |
| `Result.hpp:149` | `initialize_data/err` destroy, then construct; if that throws, `active_` names a member that is gone (`Spoils`). |
| `Result.hpp:171` | the copying constructors build over the default-constructed `T` of the base (`Spoils`, for a `T` whose destructor matters). |
| `Result.hpp:223` | `r = r` destroys the member and reads it afterwards (`Spoils`). |
| `Poly.hpp:148` | `id_` is written before the construction that may throw (`Spoils`). |
| `Poly.hpp:270` | before C++17 a derived object is never destroyed (`Spoils`). |
| `Box.hpp:81` | `list = std::move(list->next)` deletes the source before reading it (`inside`). |
| `Box.hpp:48` | a constructor that throws leaves the memory of `New` allocated (not modelled: allocation and constructors do not fail). |
| `Option.hpp:601` | `Option<T&>` moved onto itself is empty afterwards. |
| `Option/Compare.hpp:73` | `operator!=` of two full options is false even when they differ, and with an empty left side and a full right one it reads an element that is not there. |
| `StrRef.hpp:260`, `ArrayRef.hpp:211` | `pos + n` wraps and the assertion passes (`wrapped`). |
| `StrRef.hpp:203` | `isEqual` answers whether the strings differ, at equal lengths (`Departs`). |
| `StrRef.hpp:254` | `copy` reads from `data_ + count` and returns 0 (`Departs`). |
| `StrRef.hpp:138`, `ArrayRef.hpp:138` | `rbegin` and `rend` are made of `begin()` and `end()` (`Departs`). |
| `ArrayRef.hpp:315` | the constructor from an initializer list calls its `data()`, which it does not have; `ImmutArrayRef::isEqual(ArrayRef<T>)` needs a conversion that does not exist (neither compiles when used; not modelled). |
| `ArrayRef.hpp:110` | the assignments from temporaries are deleted in `ArrayRef`, which could not take them; `ImmutArrayRef`, which can, hides them (lifetimes are not modelled). |

mimalloc (`mimalloc/mimalloc/src/`):

| Where | What the code does |
|---|---|
| `arena.c:557` | blocks whose purge is due and that cannot be claimed get no new time (run `arena_purge`). |
| `init.c:251` | `mi_thread_data_zalloc` zeroes the `memid` of a cached block, which is then never given back (run `thread_data`). |
| `alloc.c:710` | `mi_rezalloc` leaves what is behind the size asked for as it was, and a later call in place returns it (run `zero_grow`). |
| `heap.c:221` | `no_reclaim` of `mi_heap_new` is not looked at by `mi_segment_try_reclaim`; `mi_heap_destroy` may then free blocks of an ended thread. Seen with a second allocating thread and `Destroys = TRUE`; the instance of `free_heaps` has one allocating thread. |
| `page.c:471` | a retired page that is no longer first in its queue is not counted down until it is first again. |
| `page.c:369` | a page in the full queue may have free blocks: they came back between the search and the move. |
| `heap.c:245` | `mi_heap_reset_pages` fills `pages_free_direct` with null and not with the empty page; the heap is freed next. |
| `init.c:421`, `init.c:443` | a thread that was refused its data is counted for ever; a main thread that ends twice is uncounted twice. |
| `init.c:571` | two threads that both find `mi_process_is_initialized` false go on at once, and the loser of `mi_atomic_once` does not wait: they may share the main heap (`raced`). |
| `prim/unix/prim.c` | when destructors of the program allocate in every round, the heap of the last round is left (excluded in `ProcessKeeps`). |
| `segment-map.c:103` | the search downwards in lower words goes on while a word has bits and not until it does, and ends with nothing at the first empty word: `mi_is_in_heap_region` may miss pointers into large segments, where `segment-map.c:9` and `mimalloc-doc.h:410` name no such exception. `MapFinds` promises the segment for pointers into its first word only. |
| `segment-map.c:118` | the header is read after the mark was found. For a pointer far inside a large segment the mark may be that of another thread's segment, which is unmapped by then (`"lost"`). |
| `os.c:261` | on systems that cannot free parts, the result of `_mi_os_commit` of the aligned part is not looked at: memory may be returned as committed that is not (`lost`). |
| `arena.c:155` | the static area for arena descriptions is never used: the alignment asked for is greater than the area. |
| `arena.c:738` | a failed addition raises `mi_arena_count` for a moment, so that readers look behind the array, and it leaks the description. |
| `arena.c:692` | `mi_arenas_unsafe_destroy` lowers the count to the index of the last arena that stays, which is then not looked at any more, and frees the description of every arena that stays in the array. |
| `options.c:31` | `verbose` is 1 while a bogus value is being reported; an option that the program sets while it is initialised may lose that value (`raced`). |
| `options.c:149` | `mi_option_set_default` tests the state and then writes the value, over one from the environment that another thread has found meanwhile (`raced`). |
| `options.c:568` | `_mi_preloading()` is tested again after the environment could not be read (`prim.c:709`): if preloading ended in between, the option is given up for good although the environment has it (`missed`). |
| `options.c:198` | output while the buffer is flushed may be lost or shown twice; a second registered function gets the buffer again (`crossed`). |
| `stats.c:81` | the peak of the process may lie below its current value after a merge. |
| `random.c:186` | `weak` is set and then cleared by the `memset` of `chacha_init`, so that `_mi_random_reinit_if_weak` never reseeds. |
| `random.c:138` | the nonce is an address: `mi_heap_new` at the address of a heap that was deleted, under the same key, repeats its words (`reused`). |
| `heap.c:563` | the visitor's shortcut over a run of free blocks is never taken. |
| `alloc-aligned.c`, `alloc.c` | `mi_realloc_aligned` of a block that is not aligned so returns it in place when it fits; `mi_new_n` and `mi_new_reallocn` return null on overflow even when there is a new handler. |

## 8. Not modelled

Compile-time parts, single-value wrappers, `Array`, and the C++17 `Option`
(derived from `std::optional`). Of mimalloc: formatting of messages and
statistics, what a value in the environment looks like, clocks, NUMA detection,
WASI, macOS zones and the event tracing of Windows, the forwarding of
`malloc` and its kin, guard pages and encoded links of secure builds, and user
callbacks. Arenas of exclusive heaps and the dirty bitmap are left out of
`MiArena`; the table of arenas and the bitmaps of one are in two modules.
Memory accesses are sequentially consistent everywhere. A segment whose commit
failed while memory ran out may stay in the queues with no page in use; the
instance allows it. Failed allocation and throwing constructors inside
`Box::New` have no handler in the code to model. Lifetimes of what a view
points to are the caller's.
