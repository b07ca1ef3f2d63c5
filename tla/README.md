# sri-glibc-malloc in TLA+

SRI's malloc is glibc's ptmalloc with the metadata of chunks taken out of the
chunks: what used to be the header of a chunk is a *bucket* (`struct chunkinfo`)
in a hash table of its arena. The modules here model its parts and the recorder and
replayer that come with it, TLC checks them on small instances, and TLAPS proves
most of their invariants for all instances.

## Inventory

| Component | State | Operations | Interacts with | Module |
| --- | --- | --- | --- | --- |
| chunk heap (`malloc.c`) | buckets with size, `prev_size`, `PREV_INUSE`, `md_next`, `md_prev`; bins, `binmap`, fastbins, top, `last_remainder`; the break | malloc, free, realloc, memalign, malloc_trim; sysmalloc, malloc_consolidate, systrim | sbrk and mmap; the arena's mutex; the metadata table | `ChunkHeap` |
| size arithmetic (`malloc.c`) | none: sizes of one block | request2size, bin_index, calloc, memalign, pvalloc, copies of realloc, musable | chunk heap | `Sizes` |
| metadata table (`metadata.c`) | directory, segments, bins; `p`, `maxp`, `L`, `count` | add, lookup, delete, delete_all; expansion, contraction | pools of `memcxt.c`; callers hold the arena's mutex | `MetadataTable` |
| metadata pools and cache (`memcxt.c`, `malloc.c`) | bit masks of free buckets and segments; the cache of an arena | allocate, release, replenish, register, unregister | mmap; threads of other arenas | `MetadataPool` |
| arena list (`arena.c`) | cyclic list, free list, `attached_threads`, `narenas`, mutexes, `thread_arena` | arena_get, arena_get2, reused_arena, arena_get_retry, thread exit, fork handlers | every public call | `ArenaList` |
| heaps of other arenas (`arena.c`) | chain of `heap_info`, fenceposts between them | new_heap, grow_heap, shrink_heap, heap_trim | mmap, lookup | `ArenaHeaps`, `Regions` |
| mmapped chunks (`malloc.c`) | records in the main arena, `n_mmaps` | sysmalloc, munmap_chunk, realloc, memalign | main arena's mutex, lookup | `Regions` |
| arena lookup (`lookup.c`) | sbrk regions, heap table, mmap table | lookup_arena_index, add and delete | lock-free table | `Regions`, `ChunkHeap` |
| lock-free table (`lfht.c`) | chain of tables, state, slots | find, add, remove, grow, migrate | compare-and-swap | `Lfht` |
| recorder (`mhooks/`) | log | a line for each call | the program's threads | `Replay` |
| replayer (`replay/`, `lphash/`) | table from the log's addresses to its own | replay of a line | the log, malloc | `Replay` |
| checking hooks (`hooks.c`) | magic bytes | the `_check` calls | chunk heap | none |

What makes each correct, and what is hard about it:

* chunk heap: chunks tile the memory obtained, agree with their neighbours, are in
  one place each, and the client's blocks stay apart. Hard: the many ways a call
  goes on with another (sysmalloc frees the old top, free consolidates and trims,
  realloc and memalign allocate and free), foreign sbrk calls, refusals, and the read
  of the top chunk that free makes before it has the mutex.
* sizes: a chunk has room for its request and realloc keeps the contents, though the
  arithmetic is modulo 2^64 and was written for chunks with headers.
* metadata table: it is a map whatever expansions, contractions and refused
  allocations happen in between.
* pools and cache: no record is handed out twice or lost, and a call that has begun does
  not run out of records. Hard: threads of other arenas take records of the main arena
  while a call of the main arena has let go of the mutex.
* arena list: an arena is allocated from under its mutex only, the counts decide
  rightly when an arena is free, and nobody waits for ever. Hard: three kinds of
  unlocked shared words, locks taken in different orders, threads that end, forks.
* heaps of other arenas: heaps begin, merge and end across fenceposts without a chunk
  lost, and memory in use stays accessible.
* mmapped chunks and lookup: a live pointer maps to its arena, one record for each
  mapping, gone when it is. Hard: mutexes change hands in the middle of calls, and an
  unmapped address can come back before it was forgotten.
* lock-free table: an operation takes effect at one moment between its call and its
  return, through growth and migration.
* recorder and replayer: the replay makes the calls of the program, and never frees
  another block than the log says. Hard: lines come in another order than the calls.

PROJECT.json lists the hazards at their lines and the properties that cover them.

## Modules

| Module | Models |
| --- | --- |
| `Allocator` | what malloc, free and realloc promise: blocks inside the memory obtained, apart from each other |
| `ChunkHeap` | the heap of the main arena, detailed; `IsAllocator` is its refinement of `Allocator` |
| `Sizes` | sizes in bytes modulo the width of `size_t` |
| `MetadataMap` | what the table promises: each chunk has a stack of buckets |
| `MetadataTable` | linear hashing of `metadata.c`; `IsMap` is its refinement of `MetadataMap` |
| `MetadataPool` | bit masks of records and segments, and the cache of an arena |
| `ArenaList` | how threads get, share, leave and rebuild arenas |
| `ArenaHeaps` | the heaps of one arena that is not the main one |
| `Regions` | mapped memory, its records and the lookup tables, among several threads and arenas |
| `AtomicMap` | what a lock-free map promises |
| `Lfht` | the table of `lfht.c`; `IsMap` is its refinement of `AtomicMap` |
| `Replay` | recording and replaying |
| `LayoutProofs`, `ChunkHeapProofs`, `MetadataTableProofs`, `ArenaProofs`, `RegionsProofs`, `LfhtProofs`, `PoolAndSizesProofs`, `ReplayProofs` | theorems |
| `MC...` | definitions for TLC: a bin index, hashes, symmetries |

The modules are apart because the code is: each component is called with a mutex held
(or without any), so what its neighbours see of it is a few whole operations. They meet at
these places. `ChunkHeap`, `ArenaHeaps` and `Regions` use a table of records as a
function, which `MetadataTable.IsMap` justifies; `Regions` uses the lock-free tables as
functions, as `Lfht.IsMap` says; `MetadataPool` counts what `ChunkHeap` and `Regions`
register; `ArenaList` has the mutexes that the other modules take as held; `Sizes` gives
the multiples of MALLOC_ALIGNMENT that `ChunkHeap` and `ArenaHeaps` count in.

### ChunkHeap

Addresses and sizes are multiples of MALLOC_ALIGNMENT, so MINSIZE is 2 and the
smallest remainder that is not a chunk has size 1. `md` is the set of buckets of
`chunkinfo.h`, a function from the address of the chunk; `bins`, `fastbins`, `binmap`,
`top` and `last_remainder` are the fields of `malloc_state`; `brk`, `mmap_lo`,
`system_mem`, `owned` and `seams` describe the memory: `owned` are the units the
system gave, `seams` the fenceposts after which the next chunk is in another region.
`sbrk_regions` is what `lookup.c` was told of the break (`Sbrked`, and a new region in
`SysSbrkRegion`). `held` are the blocks the client has, with the size of the request.

The arena's mutex makes a call a sequence of steps of one thread: `op` holds the
locals and the point where it is, one action per stretch of code between two loops
or choices (`MallocFast`, `UnsortedNext`, `LargeFit`, `BinFit`, `UseTop`,
`SysSbrkRegion`, `Free`, `ConsolidateNext`, ...). `entering` are frees that have read
the top chunk and wait for the mutex (malloc.c 5086 and 5106); `retrying` are
reallocs that let go of the mutex before they try malloc (4145 to 4153).

The abstractions: `LargeIndex` gives the bin of a large chunk, of which
`IndexAssumption` says that it grows with the size (`Sizes` has the real one),
the thresholds are constants, MAX iterations of the unsorted loop is `MaxIters`. When
malloc or realloc fail in the main arena the code tries another arena; here this is the
answer null. The `madvise` loop of malloc_trim changes nothing of this state. calloc, valloc and
pvalloc are malloc and memalign with sizes that `Sizes` computes.

Where the process can end, `op` is at one of three points (`Stopped`):

* "abort" is `malloc_printerr`, the corruption checks of every build; `BreakLowered` is the
  one of sysmalloc (3468), which cannot fire because other code may raise the break but
  does not lower it (`ForeignSteps`).
* "assert" is a failed assertion about the top chunk: at the entry of sysmalloc (3251,
  `SysmallocReady` in `TopTooSmall`) or in `check_top` (2531, `CheckTop`). The Makefile builds with
  `-DNDEBUG -O2` (183), where these assertions do not exist, so each has two outcomes: the
  process stops, or the call goes on. The states are those of both builds together. The code's other
  assertions on chunks, those of the `md_next` and `md_prev` checks among them, are not outcomes:
  that neighbours agree is what `Tiling` and `BoundaryTags` say.
* "null_load" is a realloc that found no room: `chunkinfo2chunk` of its null result (4142)
  asserts that it is not null (2215) and reads through it (2216), before the result is
  tested. With -O2 gcc keeps the load and the process ends; a compiler may drop it, as its value
  is not needed then, and realloc goes on to `__libc_malloc` (4150). `GotReallocNull`
  has both outcomes. calloc has the same pattern (4366), with malloc's null result; as calloc is
  malloc here, and nothing of the heap depends on it, that is left out.

`ragged` is a ghost variable: the region of the top chunk may end inside a page.

### Sizes

The state is one block of a client and how it came about: `way`, its request (`need`),
whether it is mapped, and how many bytes realloc brought along (`copied`, of `keep` that
it should). The free chunk that a call finds is any that the code could give, so the module
covers the remainder too small to split and the pages of a mapping. All sums and
products are modulo `WORD`, the width of `size_t`; HALF is its square root, as in
calloc's test. SRI_DEBUG_HEADERS is not set, so chunks have no header, which is where
this arithmetic differs from glibc's. memalign's sum can wrap around (`wrapped`), and
then its block is only freed.

### MetadataTable

A bucket is a number of the pool, `chunk` its key, a segment an array of bins, each a
sequence of buckets. Every operation is one step, since the arena's mutex is held.
Each segment, directory and bucket can be refused. The assertions of the expansion, on the length of
the directory (metadata.c 515) and on the index of the new bin (573), are not outcomes; with bounds
as low as the run's, doubling the directory from 4 to 8 segments fails the first one. A directory that is refused while
contracting is written through a null pointer: `status` is "crash" and the table
stops. The loads are constants so that few buckets make many bins: `MaxLoad = 0` gives a
new bin for almost every bucket, and `MinLoad = 1` takes it away again. With these loads
the table goes back and forth more than with the code's own 2 and 3, which keep a distance
between growing and shrinking; that distance is not checked. `LimitAssumption` says of the
limit of the bins what the code gives it, UINT32_MAX, no more than that it is odd:
with a limit that the bins reach by doubling, `metadata_bindex` would not tell the bins that
are split already from the others. (The comment at metadata.h 62 makes the limit the product of
two powers of two; the code does not.) `Only` selects from a bin by the rank of each place, which
provers can use and SelectSeq, being recursive, they cannot; `MCMetadataTable` compares
the two.

### MetadataPool

A pool is a set of the indices in use (the bit mask) and its `free_count`; the newest pool
is looked at first. `Allocated` and `Released` are the alloc and release functions of
`memcxt.c`, for records and for segments; `MaxPools` is how many pools mmap gives. A
thread locks the arena, fills the cache record by record (`Fill`, until `Filled` or
`FillFails`), registers and unregisters records, and may let go of the mutex in between, as
sysmalloc does for an arena that is not the main one (`SwitchToMain`); `Guest` is a thread that
comes from another arena and takes a record of this one without filling its cache.
`is_main` says whether this is the main arena, which is entered by guests. `partial`
records that memory ran out while the cache was filled, `refused` that a segment was.

### ArenaList

A thread is at a point of `Points` with its locals. Each lock that may have to wait
is a step, and so are the accesses to words that no lock protects: `narenas` in `Repeat`,
`Cas`, `NewHeap`; `narenas_limit` in `ArenaGet2`; `next_to_use` in `Repeat`, `Try` and
`Advance`; `free_list` in `GetFreeList`. The exception is `Try`, which joins the trylock of an
arena with the reads that follow it: of `next`, of `next_to_use`, and of the list in the search
after the loop (arena.c 1049 to 1078). `next_to_use` is null until `reused_arena` is
called for the first time. What happens under `list_lock` without a wait
is one step, `Link` to `LockNew` two, because the second waits for a mutex with
`list_lock` held. The choice among locked arenas in `reused_arena` reads the list and
the corrupt flags in one step. `Visit` stands for the calls that lock an arena of the
list without attaching to it. `MaxForks` bounds the forks; after one, either the
parent goes on (`UnlockAll`) or the child with one thread (`UnlockAll2`).

### ArenaHeaps

One arena whose heaps are mappings of HEAP_MAX_SIZE, aligned to it, of which `size` is in
use, `mprotect_size` was made accessible and `access` is. The mutex is held throughout, so a
whole malloc or free is an action, except that the loop of `heap_trim` takes a step per heap.
Which free chunk malloc picks is left open, and there are no fastbins: both are in
`ChunkHeap`. The newest heap holds the top chunk, an older one ends in two fenceposts that
sysmalloc makes of its top (malloc.c 3296 to 3343), and heap_trim finds them again from the
end of the heap before (arena.c 775). The assertions of heap_trim are `Sane`. A heap is known by
its base, and `heap_for_ptr` of the top chunk is the newest: no heap has it as `prev`. Two things are left
out: `_int_new_arena` first asks for a heap with room for the request (arena.c 931), here the first heap
is the minimal one it falls back to; and `shrink_heap` can fail with -2 when the mmap that gives
pages back does (arena.c 707).

### Regions

Threads allocate from several arenas; the address space has slots, each with a mapped
chunk, a heap of an arena, or nothing. `mem` is the kernel's view, `heap_tbl` and `mmap_tbl`
are the tables of `lookup.c`, `records` the main arena's metadata of mmapped chunks. What is
done under one mutex is a step, unless a thread without that mutex can see it half-way: an
arena's mutex is dropped and the main arena's taken in sysmalloc, memalign and realloc, and
an address leaves the tables before or after it is unmapped. A missing record or a failing
assertion sets `aborted`, and the thread that met it goes nowhere, with its mutexes
held. `reused` is set when mmap hands out a slot that a thread has unmapped but not yet
forgotten (malloc.c 4133, arena.c 833): after that the tables and the memory may disagree,
see below. HAVE_MREMAP is 0 in this build, so realloc maps, copies and unmaps. memalign
cuts the ends of a mapped chunk. A small request whose arena cannot grow may fall
back to a mapping, which does not look at `n_mmaps_max`.

### Lfht

A step is one access to a shared word. A compare-and-swap that is repeated when it fails is
one step with the read before it, so failed attempts, which change nothing, are left out.
`tables` is the chain of headers, the last one current; `th` holds the locals of
`_migrate_table`, `assimilate` (`From`, `Scan`, `Mark`, `Finish`, `Recheck`, `Expanded`), of add, remove and find
(`ProbeNext`, `Claim`, `Absent`, `Present`, `Update`, `Store`, `Count`), and of
`_grow_table` (`Grow`, `Published`, `Expanding`, `Check`). `From` reads a header and its successor in one step, `Scan` the key and the value of a slot, and
`Update` stands for a failed compare-and-swap and its repetition. Every operation pays its
tax of `MIGRATIONS_PER_ACCESS` keys before it begins. `raced` is set when two operations
overlap while keys are left to move: from then on the map may lose a value or an
assertion may fail (below), and `IsMap` and `AssertsHold` promise nothing. `Probing` is
unconditional. `AssertsHold` needs one more proviso, `Crowded`: lfht.c 45 to 57 argues that the
tax moves all keys before the new table is full, but only for a table that grew as soon as it
passed its threshold. `_grow_table` does nothing when mmap refuses, and later adds fill the
table further: with tables of 4 slots and 3 moves for each access, a growth
refused at the third key, made at the fourth and overtaken by two more keys ends in a failed assertion
of one thread alone. The operations are right all the same: `IsMap` does not have that proviso.

### Replay

The first half is the recorder: a call of the program's allocator is a step and its line
another (`WriteLogEntry`), so the lines of several threads come in another order than their
calls; blocks of before `mhook_init` are `early`; `Exit` ends the program, perhaps with
lines not yet written. The second half is `process_file`, one line a step, with the
table of `lphash.c` as a sequence of values for each address of the log, the latest
first. A replayer can be refused memory, by malloc or by its table (`short`: the line has an
address and the replayer got none, or could not insert it), and
realloc can move or keep a block here and not in the log. Several replayers stand
for the threads of `mtreplay`.

## Runs

| Run | Question | Properties | Bounds |
| --- | --- | --- | --- |
| heap_core | do the records of the main heap agree with each other in every state of every call, can a check fail, and does every call end? | BoundaryTags, OnePlace, FastKnown, Tiling, RegionsCoverHeap, NoAbort, CallsReturn | sizes 2 (a fastbin) and 5 (a large bin), memalign to 2 units; 12 units of sbrk, from a break of 3 that is not page-aligned; foreign sbrk of one unit, refused second sbrk, mmap as a backup, so that top chunks end inside a page and sysmalloc meets them again: enough for several chunks of each size, trims, consolidations and two regions |
| heap_bins | does the search take the best fit from sorted bins, and is the heap an allocator? | BinsInOrder, BestFit, IsAllocator | no fastbins and every size but the smallest large, so that sorted lists of several sizes fit into 12 units; memalign, malloc_trim, an mmap region, two iterations of the unsorted loop |
| heap_two_threads | violated: JoinsCurrentTop | | two threads, 8 units |
| table_map | is the metadata table a map through growth and refusal? | Placed, IsMap | chunks 4 and 6, which share a bin until they are parted; four buckets, segments of one bin, at most five of them and 5 bins: the directory doubles, more than once, and halves, segments are given back and taken again, and the limit of bins is reached |
| arena_reuse | who gets which arena, and does everybody get one? | WithinLimit, OneMutex, FreeListDetached, AttachedCounted, CallsReturn | two threads, M_ARENA_MAX not set, M_ARENA_TEST 1 and a limit of 2 computed late, room for three arenas, one may be corrupt, a fork, threads that end |
| arena_deadlock | violated: NoDeadlock | | three threads, two arenas |
| lfht | is the lock-free table an atomic map? | Probing, AssertsHold, IsMap, OperationsReturn | two threads, two keys that collide, one value, tables of 1, 2 and 4 slots, four calls: a slot is claimed, removed, moved twice and probed past |
| regions | does the lookup find the owner of every chunk, while mutexes change hands? | OwnerFound, Disjoint, NoneStale, NoAbort, NoHoldAndWait | two threads, the main arena and two others, three slots, mappings of one and two slots, heaps of two chunks, two mappings allowed, three calls: a heap is given up while another arena maps, a mapping is realloced while another is freed |
| arena_heaps | do heaps grow, follow, merge and shrink soundly? | Tiling, BoundaryTags, Accessible, NoAbort | requests of 2, 3 and 5 units, heaps of 6 to 9 units, three heaps, pages of 3: a chunk of 5 needs a heap of its own, and heaps of two sizes are left behind and returned to |
| pool | are records handed out once, and does a full cache last? | TypeOK, InOnePlace, CountTrue, NoAbort | two threads, pools of four records and one segment, two pools of each, cache of four, operations that need up to two records, four calls: pools fill and are refused |
| sizes | has every chunk room, and are contents kept? | RoomForRequest, ContentsKept, BinsSound | `size_t` of 2^22 with requests on both sides of every boundary: smallest chunk, fastbins, small bins, each of the five ranges of large bins, the threshold of mmap, the largest request, the sum of memalign, the product of calloc |
| replay | does the replay make the program's calls? | ValuesOwned, NeverMissing, MirrorsProgram | two recorded threads, two addresses, one replayer with four, four calls: an address is freed and given to another thread before the free is logged |

What a few of these bounds leave out. In table_map the chunk addresses are their own
hashes, which are as bad as hashes can be. lfht has one value, since a lost add
shows as an absent key. In heap_core and heap_bins one thread calls: the mutex makes
further threads matter only where the code reads without it, which is heap_two_threads. The
theorems do for most modules what the bounds cannot: the safety properties of the metadata
table's bins, the lock-free table, the arena list, the mapped memory, the pools, the sizes, the replayer and, with
one thread, the main heap hold for all instances.

Deadlock is checked in heap_core, heap_bins, regions, arena_heaps, pool and sizes. It is not
in table_map, where the crash described below ends everything, in arena_reuse, where
the cycle of arena_deadlock exists, and in lfht and replay, whose calls or log come to an end.

The structural invariant of `ChunkHeap`, `MetadataTable`, `Lfht`, `Regions` and
`ArenaHeaps` has the type invariant, `TypeOK` or `HeapsTypeOK`, as its first conjunct; those of `ArenaList`,
`Sizes` and `Replay` are proved. `Placed` is proved with its type invariant.

## Fairness

In `ChunkHeap` a thread inside the allocator keeps running (WF of `Step`) and
the mutex is given to somebody when it is free (WF of `Lock`). In `ArenaList` every
thread keeps running, and one that waits for a mutex that becomes free again and
again gets it (SF): pthread mutexes do not promise that, but wake-ups are not lost and
schedulers give it in practice. In `Lfht` every thread that is in an operation keeps running
(WF of its steps); that it comes to an end although it may have to start again is what
OperationsReturn says. No fairness is assumed of the client's calls. CallsReturn of
`ArenaList` has a premise: the loop around the compare-and-exchange of `narenas` is only
lock-free, so a thread can be kept in it while others fail to get heaps for ever; and
threads in the cycle of arena_deadlock do not return.

## What was found

Two disagreements have a run:

* A free reads the top chunk before it locks the arena (malloc.c 5086). If another thread
  allocates from the top chunk meanwhile, the free treats the chunk in use there as the
  top chunk and merges with it (heap_two_threads).
* `_int_new_arena` locks the new arena with `list_lock` held (arena.c 994), against the
  comment at arena.c 57; a thread in `reused_arena` that got the new arena first waits for
  `list_lock`. `ptmalloc_lock_all` closes the same cycle with `reused_arena`
  (arena_deadlock).

The others are parts of the models, as a proviso or history variable of a property that
would not hold without it, or were met while reading.

Chunk heap and sizes:

* sysmalloc asserts at its entry that the top chunk ends at the end of a page (3251 to
  3254), and check_top that every new one does (2531). It does not where a region began at a
  break that is not page-aligned and the second sbrk, which makes up for that, was refused, after which the code
  goes on with a correction of 0, or where it began behind a foreign sbrk when the heap was
  not contiguous any more, and the end is not corrected. A build with assertions stops as soon as the region is
  made (check_top, 3604); the default build goes on with it, and Tiling, BoundaryTags and the
  others hold there too. NoAbort says that these assertions fail nowhere else (`ragged`).
* A realloc that finds no room in its arena reads through a null pointer (4142, 2216), so in the
  default build it crashes and does not come to "Try harder to allocate memory in other
  arenas" (4150). CallsReturn counts this stop, "null_load", and a failed assertion as
  the end of a call.
* malloc can return null although both sbrk calls succeeded (3682): the new top chunk
  is trimmed by the free of the old one; malloc.c 508 says that null means no memory.
* systrim extends the break when the top chunk has its minimal size (3742, signed compared
  with unsigned).
* After a foreign sbrk the first sbrk region of the lookup table ends before the heap does
  (3450); a chunk behind it has no owner, which `__libc_free` asserts it has (3970).
* memalign rounds and adds after its test for overflow (4204), so a request within 32
  bytes of the limit makes the sum wrap around: the proviso of RoomForRequest.
* musable subtracts a word that chunks no longer have (6191), so malloc_usable_size can
  be less than the request; malloc.c 685 says it is at least that.
* realloc's last resort copies `oldsize - SIZE_SZ` bytes (4156), so the last word
  of a full chunk is lost, against 545 to 547: the proviso of ContentsKept.
* The stale top chunk of free also decides which heap heap_trim looks at (5383).

Metadata:

* `metadata_contract_directory` writes through a null pointer if it gets no memory
  (metadata.c 898); `lphash.c` has the same at 797.
* `metadata_add` returns false with the bucket in the table (682), which `register_chunk`
  asserts it does not.
* When memory runs out while the cache is filled, the records got so far stay in it but
  are not counted (malloc.c 2125), and the next call that fills the cache meets the assertion
  at 2120; the comment at 1743 says the state is consistent. This is `partial`, and the
  proviso of CountTrue and NoAbort in `MetadataPool`.
* The cache is filled for the call that fills it; threads of other arenas take records of the
  main arena without filling it. Where memory is refused, three or more of them can
  drain the cache of a call under way: the condition on MaxNeed in NoAbort.

Arenas and mappings:

* `reused_arena` attaches to arenas on the free list (arena.c 1089), against 1015, and
  `get_free_list` then sets `attached_threads` to 1. FreeListDetached and AttachedCounted
  therefore hold until `reused_arena` is called for the first time.
* The first loop of `reused_arena` tries the arena to be avoided, which is not locked
  any more (1052), and it returns NULL when the arena it would wait for is the first one
  it looks at (1077).
* An address can be mapped again between munmap and the moment it is forgotten: a mapping in
  realloc (malloc.c 4133), a heap in heap_trim (arena.c 833). What is forgotten then is
  the newer one. This is `reused`, the proviso of OwnerFound and Disjoint.
* memalign of a mapped chunk that gets no record returns null and keeps the mapping (5976).
* The fallback of a small request to mmap, and arenas that map at the same moment, go
  beyond `n_mmaps_max`.

Lock-free table:

* A new table is published before the state says that there is a migration (lfht.c 173), the
  state is set to expanded after a test that another expansion may overtake (212), and a
  thread that moves a key writes the value it read before it marked the key (507).
  With two operations that overlap during a migration an add can get lost, and the
  assertions of `_grow_table` can fail: `raced`.
* With MIGRATIONS_PER_ACCESS 1 the table of one slot would be grown before its migration is
  over even without overlap; the run has 2, and the code's tables are larger.

Checking hooks (read, not modelled): the check begins a word behind the place where the
chain of lengths begins (hooks.c 223 and 246, against 104 to 109); `realloc_check`
returns null with the magic byte inverted (407, and 422 to 424, against 455 to 463), with
the mutex locked when metadata is missing (393 to 395); `free_check` uses metadata before
it tests that there is any (343, 344).

Recorder and replayer:

* A free is logged after it is done (mhook.c 173), so the key of a malloc can be in the
  table, where replaylib.c 351 says that one could assert it is not. The values of the
  two lives of an address are then under one key, and a free takes the newer. As long as every
  line is complete this does no harm to the number of blocks: MirrorsProgram.
* A realloc that failed in the program loses the block in the replay, and a later
  realloc of it ends the replay (replaylib.c 458, 522, against the comment at 435).

## Proofs

`FastbinsAnnounced` (ChunkHeapProofs): `Spec => []FastKnown`, for every number of
threads, every size, threshold and foreign sbrk. malloc_consolidate is skipped when the flag
is clear, so a chunk in a fastbin without the flag would be lost. The invariant
`FlagInv` says the same with nonempty fastbins, and adds the domains of `fastbins` and `op`; most
actions change neither (`FlagQuiet`), the interesting ones are `Consolidate`, which clears
the flag before the fastbins are empty, `FreeFast` and `ConsolidateDone`.

ChunkHeapProofs, for a program with one thread (`NThreads = 1`) and for every set of requests,
alignments and paddings, every threshold, page size and bin index that the assumptions admit,
every foreign sbrk and every answer of the system: `ChunksTile` (Tiling), `TagsAreRight`
(BoundaryTags), `EveryChunkPlaced` (OnePlace), `BinsAreSorted` (BinsInOrder),
`NeverAborts` (NoAbort), `RegionsAreKnown` (RegionsCoverHeap), `TakesBestFit` (BestFit),
`JoinsTop` (JoinsCurrentTop), `ImplementsAllocator` (IsAllocator), and `ClientBlocksApart`,
which says of the client's blocks directly what the abstract allocator promises. The hypothesis is what the code needs: with two threads a free may hold a top
chunk that is none any more (heap_two_threads), and in the same instance TLC finds Tiling and
OnePlace violated. FastKnown above does not need it.

The invariant is `HeapInv`, of four parts:

* `LayoutInv`: the records (`Heap`, in LayoutProofs), the lists, the sizes in the fastbins
  and the order of the bins. `Heap` says at once that the chunks are linked in the order of
  their addresses and apart, that they cover the memory of the system and nothing else
  (`Geo`), that PREV_INUSE and `prev_size` of a chunk tell of the chunk before (`Tagged`),
  and that binned, fast and live chunks are different ones, large enough, and all (`Places`).
  The tags decide what free merges, the links where it finds the neighbour, and the
  places that the neighbour is in a bin from which it can be unlinked, so none is
  inductive without the others.
* `MemoryInv`: the break and the memory, that `system_mem` bounds the memory (or the test of a
  corrupt size would fire), that while the break is contiguous the top chunk is the last
  one and `system_mem` counts up to its end (`InOneRegion`), how things are before the
  first sbrk (`AtStart`), and that the top chunk ends at the end of a page unless it is
  `ragged` (`Paged`).
* `CallInv`: what the call in progress knows at its point. `OpKnown` says what it looks for,
  that a chunk that it has taken is no block of the client, where a free inside another
  call returns to, and that the top chunk that free read is still the top; `Fits` that
  the chunk taken is large enough and that the client's blocks fit in their chunks;
  `Clients` that nobody else is in the heap.
* `OtherTypes`: `binmap` marks the nonempty bins, and types.

LayoutProofs is about the operators on records and lists without the state of the heap: what
`Carve`, `Absorb`, `SetHead`, `SetFoot`, `SetInuse`, `Register`, `Unlink`, `Position` and
their combinations in malloc, free and realloc do to `Geo`, `Tagged` and `Places`. A split of
a chunk and a merger of two (`Merged`, `GrowHeap`, `JoinBack`, `JoinTop`) leave the same units
covered; `HeapBut` names the chunks whose tags are still wrong in the middle of an action.
In ChunkHeapProofs each action has its lemma (`MallocFastInv`, `FreeInv`, ...), most of
them by one of a few patterns: the call moves on (`MovesOn`, `LooksOn`), takes a free
chunk whole or in part, splits the top chunk, coalesces, gives a block to the client, or
shrinks a block and frees the rest.

For the refinement, `BlocksPlaced` shows that the blocks lie in their chunks, so they are apart
and inside the memory. Then a step that changes no block is a step of the
abstract memory (`BlocksStay`), and a step that supplies one is an allocation
(`BlockSupplied`); one lemma for each group of actions tells which of the two it is. The
abstract block of a realloc in place changes its size when the chunk does, not when the call
returns: that is the definition of `Blocks`.

`NeverAborts` has two halves. That no corruption check fires follows from `HeapInv`: a check
compares what the records, the break and the lists say, and that is `Heap` and `MemoryInv`. The other
half, `AssertInv`, is that an assertion on the top chunk fails only where it is `ragged`: `TopReady`
derives both assertions from `Paged` and the tags of the top chunk, and Paged is kept because the system gives
and takes whole pages (`SbrkPages`) and a chunk that is split off or merged leaves the end
of the top where it was (`EndMoves`).

`TakesBestFit` is about one step, from the end of the search to the chunk it takes, and needs
to know how the search came there: the bin of a small request is empty by then
(`NothingExact`, for which `SearchStep` goes through all actions), because the search starts at
the bin after it. `LargeFitBest` and `BinFitBest` are the two places where a chunk is taken; a
chunk in a later bin is larger (`LaterIsLarger`), one later in the same bin is not smaller
by BinsInOrder, and a bin whose bit in `binmap` is clear is empty. `JoinsTop` says the opposite
of the run heap_two_threads for one thread: `OpKnown` has that the top chunk free read is the top.

MetadataTableProofs, for every hash, number of chunks and buckets, length of segments, of the
directory and of the pools, all loads and every odd limit of the bins: `PlacedAlways`
(Placed). The invariant `TableInv` reads the bins through the directory as one
array (`Contents`) and says of it `Filed`: each bin holds the buckets in use whose chunks hash to it,
once, and the bins from `bincount` on are empty. That the bins which are not in use are empty is what
makes a split right, since it hangs the moved buckets into the new bin without looking. `Linked` says that the
segments of the directory are different ones, so that a write to a bin leaves the others
alone, `Spare` that the segments of the pool that it does not have are empty, `Snug`
that it has none without need, so that the bins that a contraction leaves in a segment it gives
back are empty. Arithmetic has two lemmas at its centre: `BindexRange`, that an index is
below `bincount`, and `Readdressed`, that advancing `p` changes the index of
chunks in bin `p` only, to `p` or `maxp + p`; the latter needs that `maxp` stays below the limit, which is
where the odd limit comes in: bins stop being added at the limit, so `maxp` could reach it by doubling
only if it were even. Then there is a lemma for each thing done to the
table (`AddTable`, `SplitTable`, `MergeTable`, `EnteredTable`, `LeftTable`, `ResizedTable`, ...), and one
for each operation with its refusals (`GrowStep`, `ShrinkStep`, `ReleaseStep`, `LookupStep`). That `Only` keeps
the selected elements in order (`OnlyIs`) is proved by induction on sets of numbers
(`AllNumbers`, from the well-foundedness of the naturals), as is that powers of two are positive.

`ImplementsMap` (IsMap) is proved on top of it. `Inv(held)` is `TableInv` with one more
conjunct: for each chunk, the bin that it hashes to holds the buckets of `held[c]` in that
order, once the other chunks' buckets are left out (`Stacked`). `TableInv` is `Inv(Stacks)`, and
the lemmas about the steps of an operation carry `held` through: splitting a bin takes some chunks'
buckets out in order and merging appends bins that share no chunk, so neither changes `held`
(`SplitStacked`, `MergeStacked`); moving a bucket to the front of its bin changes the order of no
other chunk's, and its own chunk's first bucket is the one that is found (`ReorderStacked`,
`FoundIsFirst`); an add puts the bucket in front (`AddStacked`) and a deletion takes it from
there (`ReleaseStacked`). So `held` is what the map of the abstract specification is after the operation,
whichever expansion or contraction went with it.

ArenaProofs, of ArenaList, for every number of threads, arenas and forks, if M_ARENA_MAX is set
(`LimitKnown`; without it the number of arenas has no bound that does not depend on the
threads, and only TLC's runs speak): `Types`, `Limited` (no more arenas than M_ARENA_MAX)
and `MutexesHeld` (OneMutex). The invariant `Inv` has five parts that need each other: the
types of the list (`ListInv`) and of the threads' locals (`ThInv`) need the limit, or an
arena would be linked that the model does not have; the limit (`LimitInv`) needs that a thread
at the compare-and-exchange compared a value below the limit, and that those making an arena
are counted; OneMutex needs that the arena a thread locks exists. One lemma per
part says that each of the actions keeps it; `QuietStep`, `TakeStep`, `KeepStep` and
`ReleaseStep` are the four ways an action treats the mutexes.

ArenaProofs, on top of that invariant and under the same assumption: `ThreadsCounted`
(AttachedCounted) and `FreeArenasDetached` (FreeListDetached). The invariant `FreeInv` says
that the free list is a chain in which every arena is nearer to the end than the one before
(`Chain`): in a cycle the arena that get_free_list takes off would be on the list still. It
also needs that a thread that ends has forgotten its arena and that nobody is in reused_arena
before `next_to_use` is set (`PointInv`). Most actions move no thread from one arena to
another (`PlainStep`); `GetFreeListKeeps`, `LinkKeeps`, `ExitKeeps` and `UnlockAll2Keeps` are
about those that do. `OnFreeList` is the least set with the first arena and the successor of
each, so that any chain contains it.

ArenaProofs, of ArenaHeaps, for every size of pages, heaps and headers, every threshold, set of
requests and number of heaps that `HeapsAssumption` admits: `HeapsInvAlways`, and from it
`TilingAlways` (Tiling), `BoundaryTagsAlways` (BoundaryTags), `AccessibleAlways` (Accessible) and
`NoAbortAlways` (NoAbort). The definitions of ArenaHeaps have other names than those of ArenaList
where both are used in this module. `HeapsInv` is about the heaps (`HeapsOK`: sizes, what is accessible, and that no two
heaps have the same `prev`) and about the chunks (`Arena`). Tiling is not inductive by
itself. What a chunk borders is only known with `Tags`, since a free merges with whatever a
clear PREV_INUSE announces; and heap_trim, which computes an address from the size of the heap before
and takes what it finds there for a fencepost, needs `Posts`, that every heap that is another's
`prev` ends in a record of size 0, and `Places`, that the record before it has size 1 or 2 and is neither free
nor in use: so `Sane` holds, and the two units that sysmalloc took from the old top are
the two that heap_trim gives back. `Arena` is stated of any records, heaps, top and sets of
chunks, because an action passes through several: a new heap is `FencedArena`, then perhaps
`FreedArena` for the old top, then `TakeTop`. Each of these lemmas rests on one about the layout
alone (`GeoCarve`, `GeoMerge`, `GeoResize`, `GeoAdd`, `GeoDrop`), so that the links and addresses
are argued about once. `Total`, which system_mem is, folds over the set of heaps in an order that CHOOSE
picks; that it exists and depends on no order (`SumExists`, `SumSteady`) is proved from the
well-foundedness of the naturals, and `TotalWithout` is what the actions use: a chunk behind the header of
a heap is smaller than system_mem, so the size check of _int_free never fires.

RegionsProofs, for every number of threads, arenas, slots and calls: `NobodyHoldsAndWaits`
(NoHoldAndWait). By itself it is not inductive: that a thread that waits holds nothing
depends on what it did at its points before. `Inv` adds, for every arena, that its mutex has
the owner that the points and locals of the threads say (`Owns`, `LockInv`), that the locals
name arenas (`ThInv`), and that the tables do (`MemInv`), because free takes the index of the
arena from them. `MallocTh`, `FreeTh` and `MemStep` keep the types, `MallocLock` and
`FreeLock` the mutexes, each with `Taken`, `Dropped` or `Kept`.

On top of it `OwnerFoundAlways` (OwnerFound), `DisjointAlways` (Disjoint) and `NoAbortAlways`
(NoAbort), with their proviso: as long as no slot was mapped again between the munmap and
the deletion of its record or of its heap's entry. The invariant is `InOrder`: `~reused`
implies `Tidy` and that nothing was aborted. Of the conjuncts of `Tidy`, `AllSound` and
`Counted` are OwnerFound. The others are there because the steps rely on them: `OneOwner`, since a
chunk that two calls gave up would be found by one of them only; `PointsOK`, what a call has
learned of its chunk at its point; `EntriesOK`, that the entries name mapped memory, each its
own, so that neither a new mapping nor an aligned address can have an entry already;
`UnmapsOK` and `HeapsOK`, what a chunk that is being unmapped, or a heap that is being added or
forgotten, still stands for. Steps that only move threads are `MallocPaper` and
`FreePaper`; each other action has a lemma of its own (`MmapTidy`, `AlignTidy`,
`LookupDeleteTidy`, ...). The proviso is used in two places: `NewHeapTidy`, and `MmapTidy`, where
the main arena's mutex excludes a free that has still to delete its record, but not a realloc.

`NoneStaleAlways` (NoneStale): its first part follows from `EntriesOK`. The second has no proviso:
even after a slot was mapped again too early, a mmapped chunk that was not aligned has a record.
The records of such an address are a stack, and the late unregister_chunk of a realloc takes
the newest, which may be another call's, so the invariant counts (`Recorded0`): an address has at least as
many records as there are chunks of the program there, chunks that calls have still to
unregister, and chunks that calls have registered and not returned yet. Aligned chunks have no such
invariant: their address can be inside the slot, where a record too long may have named a chunk of a heap.

PoolAndSizesProofs, of MetadataPool, for every number of threads, length and number of pools, and size of the cache:
`TypesHold`, `NoRecordTwice` (InOnePlace), `CountIsTrue` (CountTrue),
`MainNeverAborts`, the part of NoAbort that speaks of the main arena, and `NeverAborts` (NoAbort). `Inv` has six parts. `Types`
includes that `free_count` counts the zero bits, so that a pool with a count has a bit to
give (`LowestBit`, by the well-foundedness of the naturals). `Marks` is InOnePlace. `Exclusion`
says who can be in the middle of something, `FilledTo` that the places below the
count are filled, during the loop that fills the cache up to its index, which stays
true even after memory ran out, `Enough` that the count suffices for what an operation
has still to register, and `MainGoesOn` is the result. For an arena whose mutex a thread can let go of in the middle,
`EnoughForAll` counts in addition the records that all operations under way have still to
register; it needs that there are finitely many threads, and the condition of NoAbort on the size
of the cache.

PoolAndSizesProofs, of Sizes, for every width (of an even number of bits) of `size_t`, page size, request and alignment that
`SizesAssumption` admits: `RoomAlways` (RoomForRequest), `ContentsAlways` (ContentsKept),
`BinsAlways` (BinsSound), `TypesAlways`, and of the operators `CallocFindsOverflow`,
`RequestFits` and `BinsFollowSizes`, which says that of two chunk sizes the larger is not in an earlier bin and
that a small bin holds one size only. The two invariants need each other, because realloc's copy is
bounded by the room of the block it copies from, and the type invariant, because
sizes are multiples of 16. Most lemmas are about that: remainders of sums, differences and
roundings modulo WORD, which itself is a multiple of 16 (`WordMultiple`).

ReplayProofs, for every log, number of threads, replayers and addresses:
`TypesHold` and `NoValueTwice` (ValuesOwned). A free takes a value off its sequence and gives
the block back, a malloc or realloc puts one in front that was not there (`WithoutOwned`,
`WithOwned`, with `TailPlaces` and `FrontPlaces` about sequences); a replayer that cannot
insert keeps a block that is in no table, and that is no violation.

`NeverMissingAlways` (NeverMissing) and `MirrorsAlways` (MirrorsProgram) are about the order of the
lines. `Accounted` counts, for each address, how often calls gave it to the program and took it,
in lines of the log and in calls whose line is still due: the difference is whether the program
has the block (`Balanced`), and no line takes an address before one gave it
(`TakesGiven`), because a call is logged after a malloc and a free is logged after it is
done, but for realloc the two are one line. `AllKeepUp` then says that the table of a
replayer with memory to spare has as many values under an address as the lines it
has read leave, so that what a realloc takes is there.

LfhtProofs, for every number of threads, keys, tables and calls, every hash and length of
the first table: `ProbingAlways` (Probing), whatever threads do at the same time. The invariant
`Inv` has the types, for each thread where its locals lie (`ThInv`), that the
current table was not left (`Current`), that a place without a key has nothing (`Vacant`), `CountOK`, and `Probed`,
Probing without its types. A thread that is probing needs `Passed`: the
places behind it are used, and not by its key. That survives what the others do because of
`Onward`: a key stays at its place for ever and a mark is never taken away, so a place that was
passed once needs no second look. The distances of probes are remainders, of which `Around`, `Behind`
and `Distances` say what is needed.

On top of it `AssertsHoldAlways` (AssertsHold), if MIGRATIONS_PER_ACCESS is at least 3, as in lfht.c 33. `CalmInv`
says that until operations overlap during a migration or a second growth begins before
the first is over (`Stuck`) all is `Calm`, which is about the two tables that are in use:
keys of tables left before are marked (`LeftOK`), no key is twice in a table or in
both unless it is marked in the old one (`OnceOK`, `ApartOK`), a thread that scans has left no
key behind it unmarked unless it was paid for (`ScanOK`, `PaidOK`), and the account of the tax:
MIGRATIONS_PER_ACCESS times the keys by which the new table has gained is at most the number of
keys moved (`RateOK`), minus what a thread has moved for its own access (`DebtOK`). Each action has a
lemma (`MarkCalm`, `NextSlotWorks`, `ClaimCalm`, ...). So when the new table passes its threshold while keys
are left, `TaxKeepsUp` makes the old one have had more keys than the one with which it
grew, which is `Crowded` (`GrowCrowded`); tables that are crowded stay so (`CountsOnward`). Where 3 is used
is `TaxKeepsUp`: twice the length at 3/5 full against one key for each three moved.

`ImplementsMap` (IsMap), for every rate, rests on `CalmInv` too. While all is calm a key is held unmarked at one
place at most (`HeldOnce`), or its value is on its way with one thread; so `ValuesFound` says what the value
of a key is, without the choices in `ValueOf`. Each step is then `Silent`, neither the values nor the
calls change, or one of the steps of `AtomicMap` (`Acts`): add and remove take effect where the value is
stored (`UpdateActs`, `StoreActs`), a failed find or remove where the probe meets an empty place or goes
round (`AbsentActs`, `ProbeNextActs`, with `PaidOK`: the key is not left in the old
table), marking a key and counting it in the new table are silent (`MarkSilent`, `ExitActs`). The step
that makes an assertion fail changes nothing for the client (`StuckSilent`), so the proviso of
AssertsHold is not needed.

Model-checked only: all liveness, since fairness and ENABLED are out of TLAPS's reach
here (CallsReturn, OperationsReturn). The runs that end in a violation are TLC's too. The properties of the main heap are proved for one thread only,
since with two the code violates them.

## Plan

1. `ArenaHeaps` with several threads, so that the stale top chunk reaches heap_trim.
2. The words that `lookup_arena_index` reads of the sbrk regions while the main arena
   changes them (lookup.c 120), and the growth of their array.

## Not modelled

Statistics and mallopt, dumps and event logs: they read or set single words. Checking hooks:
a matter of single bytes, and since checking does not agree with marking no
property of a checked heap could be stated that holds. Saving and restoring malloc's
state, which is a copy of the arena before there are threads. The algorithm of `lphash.c`, which
is that of `metadata.c`. The functions that free a whole table, pool or chain of
tables, which the allocator never calls. The cache of two entries in `metadata.c`,
`mremap_chunk` and debugging headers are compiled out. Utilities (overflow-checked
arithmetic, hashes, compare-and-swap) are primitives of the other modules. Tests,
measurements and scripts have no logic of the allocator.
