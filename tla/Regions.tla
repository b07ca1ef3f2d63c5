--------------------------------- MODULE Regions ---------------------------------
(***************************************************************************)
(* The memory an arena gets from mmap, and the lookup tables that say, for *)
(* an address, which arena owns it: chunks with a mapping of their own     *)
(* (sysmalloc, munmap_chunk and their callers in malloc.c) and the further *)
(* heaps of the other arenas (new_heap and heap_trim in arena.c), with the *)
(* tables of lookup.c.                                                     *)
(*                                                                         *)
(* The records of all mmapped chunks are the main arena's, so a thread     *)
(* that works for another arena lets go of its mutex to take the main      *)
(* arena's.  The lookup itself takes no mutex.  Addresses are slots: a     *)
(* slot that is unmapped may be handed out by the next mmap.               *)
(*                                                                         *)
(* A section under a mutex is one step, except where a thread that does    *)
(* not hold the mutex may see or use what is done half-way.                *)
(***************************************************************************)
EXTENDS Integers, Sequences, FiniteSets

CONSTANTS
    Threads,
    Arenas,         \* the indices of the arenas; 0 is the index of mmapped chunks
    NSlots,         \* how many slots the address space has
    Sizes,          \* what large requests ask for, in slots
    HeapChunks,     \* how many chunks a heap holds
    n_mmaps_max,
    MaxCalls        \* bound on the number of calls

main_arena == 1
MMAPPED_ARENA_INDEX == 0
Slots == 1 .. NSlots

ASSUME RegionsAssumption ==
    /\ Arenas \subseteq Nat \ {0} /\ main_arena \in Arenas
    /\ NSlots \in Nat \ {0}
    /\ Sizes \subseteq Nat \ {0} /\ 1 \in Sizes
    /\ HeapChunks \in Nat \ {0} /\ n_mmaps_max \in Nat /\ MaxCalls \in Nat

VARIABLES
    mem,        \* the kernel's view of each slot
    mmap_tbl,   \* the mmapped chunks: address to size, 0 when absent
    heap_tbl,   \* the heaps: slot to arena, 0 when absent
    records,    \* main arena's metadata of mmapped chunks: the chain at each address
    n_mmaps,
    used,       \* the chunks in use of each heap
    lock,       \* who holds each arena's mutex
    live,       \* the chunks the program holds
    th,         \* what each thread is doing, with its locals
    calls,      \* number of calls so far
    aborted,    \* an assertion failed, or metadata was missing
    reused      \* history: a slot was handed out before it was forgotten

tables == <<mmap_tbl, heap_tbl, records, n_mmaps, used>>
vars == <<mem, tables, lock, live, th, calls, aborted, reused>>

NoThread == "none"

ASSUME ThreadAssumption == NoThread \notin Threads

NoChunk  == [slot |-> 0, off |-> 0, size |-> 0, index |-> 0]
Address(c) == <<c.slot, c.off>>
Addresses == Slots \X (0 .. HeapChunks + 1)

Idle == [at |-> "idle", op |-> "none", arena |-> main_arena, size |-> 0, tried |-> FALSE,
         new |-> NoChunk, old |-> NoChunk]

At(t, point) == th[t].at = point
Busy(t) == ~At(t, "idle")

Init ==
    /\ mem = [s \in Slots |-> "free"]
    /\ mmap_tbl = [a \in Addresses |-> 0]
    /\ heap_tbl = [s \in Slots |-> 0]
    /\ records = [a \in Addresses |-> <<>>]
    /\ n_mmaps = 0
    /\ used = [s \in Slots |-> {}]
    /\ lock = [a \in Arenas |-> NoThread]
    /\ live = {}
    /\ th = [t \in Threads |-> Idle]
    /\ calls = 0
    /\ aborted = FALSE
    /\ reused = FALSE

(***************************************************************************)
(* Helpers                                                                 *)
(***************************************************************************)
Take(t, a) == lock[a] = NoThread /\ lock' = [lock EXCEPT ![a] = t]
Drop(a)    == lock' = [lock EXCEPT ![a] = NoThread]

\* t moves on, with a new chunk, or none
Goes(t, point, c) == th' = [th EXCEPT ![t].at = point, ![t].new = c]
GoTo(t, point)    == Goes(t, point, th[t].new)
Finish(t)         == th' = [th EXCEPT ![t] = Idle]
Abort             == aborted' = TRUE /\ UNCHANGED <<mem, tables, lock, live, th, calls, reused>>

\* where the record of a chunk says its mapping lies
Block(c) == c.slot .. c.slot + c.size - 1

\* the records of an address when the newest is deleted
Older(chain) == IF chain = <<>> THEN <<>> ELSE Tail(chain)

\* the slots a thread has unmapped but has still to forget, not holding a mutex
\* that keeps others from mapping there
ForgottenChunks == {th[t].old.slot : t \in {u \in Threads : At(u, "unregister")
                                                             /\ th[u].op = "realloc"}}
ForgottenHeaps  == {th[t].old.slot : t \in {u \in Threads : At(u, "forget")}}

Map(S, kind) == mem' = [s \in Slots |-> IF s \in S THEN kind ELSE mem[s]]
FreeSlots(S) == S \subseteq {s \in Slots : mem[s] = "free"}

(***************************************************************************)
(* malloc and memalign                                                     *)
(***************************************************************************)
\* a large request gets a mapping of its own; size 0 stands for a small one
CallMalloc(t) ==
    /\ At(t, "idle") /\ calls < MaxCalls /\ calls' = calls + 1
    /\ \E a \in Arenas, n \in Sizes \union {0}, op \in {"malloc", "memalign"} :
          /\ n = 0 => a # main_arena /\ op = "malloc"
          /\ th' = [th EXCEPT ![t] = [Idle EXCEPT !.at = "lock", !.op = op, !.arena = a,
                                                  !.size = n]]
    /\ UNCHANGED <<mem, tables, lock, live, aborted, reused>>

LockArena(t) ==
    /\ At(t, "lock") /\ Take(t, th[t].arena)
    /\ GoTo(t, "malloc")
    /\ UNCHANGED <<mem, tables, live, calls, aborted, reused>>

\* the request is served by a heap of the arena
HeapsOf(a) == {s \in Slots : heap_tbl[s] = a}

MallocHeap(t) ==
    /\ At(t, "malloc") /\ th[t].size = 0
    /\ \E s \in HeapsOf(th[t].arena), o \in 1 .. HeapChunks :
          /\ mem[s] = "heap" /\ o \notin used[s]
          /\ used' = [used EXCEPT ![s] = @ \union {o}]
          /\ Goes(t, "got", [slot |-> s, off |-> o, size |-> 1, index |-> th[t].arena])
    /\ UNCHANGED <<mem, mmap_tbl, heap_tbl, records, n_mmaps, lock, live, calls, aborted, reused>>

HeapFull(a) == \A s \in HeapsOf(a) : used[s] = 1 .. HeapChunks

\* sysmalloc, for an arena that is not the main one: a new heap; first the
\* memory, then its entry in the lookup table
NewHeap(t) ==
    /\ At(t, "malloc") /\ th[t].size = 0 /\ th[t].arena # main_arena /\ HeapFull(th[t].arena)
    /\ \E s \in Slots :
          /\ FreeSlots({s}) /\ Map({s}, "heap")
          /\ reused' = (reused \/ s \in ForgottenHeaps)
          /\ Goes(t, "addheap", [slot |-> s, off |-> 1, size |-> 1, index |-> th[t].arena])
    /\ UNCHANGED <<tables, lock, live, calls, aborted>>

\* Mutant: the heap is not entered into the lookup table.
AddHeapMutant(t) ==
    /\ At(t, "addheap")
    /\ used' = [used EXCEPT ![th[t].new.slot] = {th[t].new.off}]
    /\ GoTo(t, "got")
    /\ UNCHANGED <<mem, mmap_tbl, heap_tbl, records, n_mmaps, lock, live, calls, aborted, reused>>

AddHeap(t) ==
    /\ At(t, "addheap")
    /\ LET c == th[t].new IN
          /\ heap_tbl' = [heap_tbl EXCEPT ![c.slot] = c.index]
          /\ used' = [used EXCEPT ![c.slot] = {c.off}]
    /\ GoTo(t, "got")
    /\ UNCHANGED <<mem, mmap_tbl, records, n_mmaps, lock, live, calls, aborted, reused>>

\* a large request with few enough mappings, or one no heap can serve, is to be
\* mapped; the main arena's mutex is needed for it
WantsMmap(t) ==
    IF th[t].size = 0 THEN HeapFull(th[t].arena) ELSE n_mmaps < n_mmaps_max

SwitchToMain(t) ==
    /\ At(t, "malloc") /\ WantsMmap(t) /\ th[t].arena # main_arena
    /\ Drop(th[t].arena)
    /\ GoTo(t, "main")
    /\ UNCHANGED <<mem, tables, live, calls, aborted, reused>>

\* no memory: neither a mapping nor metadata for one, or too many mappings
MallocFails(t) ==
    /\ At(t, "malloc") /\ Goes(t, "got", NoChunk)
    /\ UNCHANGED <<mem, tables, lock, live, calls, aborted, reused>>

\* the mapping, its record and its entry, in a section of the main arena
MmapChunk(t, point) ==
    /\ \E s \in Slots :
          LET c == [slot |-> s, off |-> 0, size |-> IF th[t].size = 0 THEN 1 ELSE th[t].size,
                    index |-> MMAPPED_ARENA_INDEX]
          IN  /\ Block(c) \subseteq Slots /\ FreeSlots(Block(c)) /\ Map(Block(c), "mmap")
              /\ records' = [records EXCEPT ![Address(c)] = <<c.size>> \o @]
              /\ mmap_tbl' = [mmap_tbl EXCEPT ![Address(c)] = c.size]
              /\ reused' = (reused \/ s \in ForgottenChunks)
              /\ Goes(t, point, c)
    /\ n_mmaps' = n_mmaps + 1
    /\ UNCHANGED <<heap_tbl, used, live, calls, aborted>>

\* the main arena's mutex is released and taken again all the same
MmapMain(t) ==
    /\ At(t, "malloc") /\ WantsMmap(t) /\ th[t].arena = main_arena
    /\ MmapChunk(t, "relock")
    /\ Drop(main_arena)

MmapOther(t) ==
    /\ At(t, "main") /\ lock[main_arena] = NoThread
    /\ MmapChunk(t, "relock")
    /\ UNCHANGED lock

\* the main arena's metadata cache is empty, or mmap fails
MmapOtherFails(t) ==
    /\ At(t, "main") /\ lock[main_arena] = NoThread
    /\ Goes(t, "relock", NoChunk)
    /\ UNCHANGED <<mem, tables, lock, live, calls, aborted, reused>>

Relock(t) ==
    /\ At(t, "relock") /\ Take(t, th[t].arena)
    /\ GoTo(t, "got")
    /\ UNCHANGED <<mem, tables, live, calls, aborted, reused>>

\* _int_memalign moves a mmapped chunk to its aligned address.  For the main
\* arena the mutex is held already, and released and taken again afterwards.
ToAlign(t) == th[t].op = "memalign" /\ th[t].new # NoChunk /\ th[t].new.off = 0

\* Mutant: the arena's mutex is not released.
StartAlignMutant(t) ==
    /\ At(t, "got") /\ ToAlign(t) /\ th[t].arena # main_arena
    /\ GoTo(t, "align")
    /\ UNCHANGED <<mem, tables, lock, live, calls, aborted, reused>>

StartAlign(t) ==
    /\ At(t, "got") /\ ToAlign(t) /\ th[t].arena # main_arena
    /\ Drop(th[t].arena)
    /\ GoTo(t, "align")
    /\ UNCHANGED <<mem, tables, live, calls, aborted, reused>>

\* Mutant: the lookup table keeps the address before the alignment.
AlignUnentered(t) ==
    /\ \/ At(t, "align") /\ lock[main_arena] = NoThread /\ UNCHANGED lock
       \/ At(t, "got") /\ ToAlign(t) /\ th[t].arena = main_arena /\ Drop(main_arena)
    /\ LET p == th[t].new
           newp == [p EXCEPT !.off = 1]
       IN  /\ records' = [records EXCEPT ![Address(newp)] = <<p.size>> \o @,
                                         ![Address(p)] = Older(@)]
           /\ Goes(t, "relock", newp)
    /\ UNCHANGED <<mem, mmap_tbl, heap_tbl, n_mmaps, used, live, calls, aborted, reused>>

Align(t) ==
    /\ \/ At(t, "align") /\ lock[main_arena] = NoThread /\ UNCHANGED lock
       \/ At(t, "got") /\ ToAlign(t) /\ th[t].arena = main_arena /\ Drop(main_arena)
    /\ LET p == th[t].new
           newp == [p EXCEPT !.off = 1]
       IN  /\ records' = [records EXCEPT ![Address(newp)] = <<p.size>> \o @,
                                         ![Address(p)] = Older(@)]
           /\ mmap_tbl' = [mmap_tbl EXCEPT ![Address(newp)] = p.size, ![Address(p)] = 0]
           /\ Goes(t, "relock", newp)
    /\ UNCHANGED <<mem, heap_tbl, n_mmaps, used, live, calls, aborted, reused>>

\* the main arena's cache is empty: NULL, and the mapped chunk is forgotten
AlignFails(t) ==
    /\ At(t, "align") /\ lock[main_arena] = NoThread
    /\ Goes(t, "relock", NoChunk)
    /\ UNCHANGED <<mem, tables, lock, live, calls, aborted, reused>>

Retry(t) ==
    /\ At(t, "got") /\ th[t].new = NoChunk /\ ~th[t].tried
    /\ Drop(th[t].arena)
    /\ \E a \in Arenas \ {th[t].arena} :
          /\ th[t].arena # main_arena => a = main_arena
          /\ th' = [th EXCEPT ![t].at = "lock", ![t].arena = a, ![t].tried = TRUE]
    /\ UNCHANGED <<mem, tables, live, calls, aborted, reused>>

Return(t) ==
    /\ At(t, "got") /\ ~ToAlign(t) /\ (th[t].new = NoChunk => th[t].tried)
    /\ Drop(th[t].arena)
    /\ IF th[t].op = "realloc" /\ th[t].new # NoChunk
       THEN GoTo(t, "delete") /\ UNCHANGED live
       ELSE /\ live' = live \union ({th[t].new, th[t].old} \ {NoChunk})
            /\ Finish(t)
    /\ UNCHANGED <<mem, tables, calls, aborted, reused>>

(***************************************************************************)
(* free, and realloc of a mmapped chunk                                    *)
(***************************************************************************)
\* the program gives up p as it makes the call
Call(t, op) ==
    /\ At(t, "idle") /\ calls < MaxCalls /\ calls' = calls + 1
    /\ \E p \in live, n \in Sizes :
          /\ op = "realloc" => p.index = MMAPPED_ARENA_INDEX
          /\ op = "free" => n = 1
          /\ live' = live \ {p}
          /\ th' = [th EXCEPT ![t] = [Idle EXCEPT !.at = "find", !.op = op, !.old = p,
                                                  !.size = n]]
    /\ UNCHANGED <<mem, tables, lock, aborted, reused>>

\* lookup_arena_index, without a mutex: the mmapped chunks first, then the heaps
FindMmap(t) ==
    /\ At(t, "find")
    /\ GoTo(t, IF mmap_tbl[Address(th[t].old)] # 0 THEN "mmapped" ELSE "findheap")
    /\ UNCHANGED <<mem, tables, lock, live, calls, aborted, reused>>

FindHeap(t) ==
    /\ At(t, "findheap")
    /\ IF heap_tbl[th[t].old.slot] = 0
       THEN Abort
       ELSE /\ th' = [th EXCEPT ![t].at = "heap", ![t].arena = heap_tbl[th[t].old.slot]]
            /\ UNCHANGED <<mem, tables, lock, live, calls, aborted, reused>>

\* the record says how long the mapping is
Recorded(t) == [th[t].old EXCEPT !.size = Head(records[Address(th[t].old)])]
Missing(t) == records[Address(th[t].old)] = <<>>

\* Mutant: the mapping goes, its entry in the lookup table stays.
FreeMmappedMutant(t) ==
    /\ At(t, "mmapped") /\ th[t].op = "free" /\ Take(t, main_arena) /\ ~Missing(t)
    /\ th' = [th EXCEPT ![t].at = "munmap", ![t].old = Recorded(t)]
    /\ UNCHANGED <<mem, tables, live, calls, aborted, reused>>

FreeMmapped(t) ==
    /\ At(t, "mmapped") /\ th[t].op = "free" /\ lock[main_arena] = NoThread
    /\ IF Missing(t)
       THEN Abort
       ELSE /\ Take(t, main_arena)
            /\ th' = [th EXCEPT ![t].at = "delete", ![t].old = Recorded(t)]
            /\ UNCHANGED <<mem, tables, live, calls, aborted, reused>>

\* the chunk is long enough, or metadata is short: it stays; otherwise a new one
\* is allocated, with no mutex held
ReallocMmapped(t) ==
    /\ At(t, "mmapped") /\ th[t].op = "realloc" /\ lock[main_arena] = NoThread
    /\ IF Missing(t)
       THEN Abort
       ELSE /\ \/ Finish(t) /\ live' = live \union {th[t].old}
               \/ /\ Recorded(t).size < th[t].size
                  /\ \E a \in Arenas :
                        th' = [th EXCEPT ![t].at = "lock", ![t].arena = a,
                                         ![t].old = Recorded(t)]
                  /\ UNCHANGED live
            /\ UNCHANGED <<mem, tables, lock, calls, aborted, reused>>

\* munmap_chunk: free holds the main arena's mutex, realloc none
LookupDelete(t) ==
    /\ At(t, "delete")
    /\ LET a == Address(th[t].old) IN
          IF mmap_tbl[a] = 0
          THEN Abort
          ELSE /\ mmap_tbl' = [mmap_tbl EXCEPT ![a] = 0]
               /\ n_mmaps' = n_mmaps - 1
               /\ GoTo(t, "munmap")
               /\ UNCHANGED <<mem, heap_tbl, records, used, lock, live, calls, aborted, reused>>

Munmap(t) ==
    /\ At(t, "munmap")
    /\ Map(Block(th[t].old), "free")
    /\ GoTo(t, "unregister")
    /\ UNCHANGED <<tables, lock, live, calls, aborted, reused>>

\* realloc takes the mutex for this only
Unregister(t) ==
    /\ At(t, "unregister")
    /\ IF th[t].op = "free" THEN Drop(main_arena)
                            ELSE lock[main_arena] = NoThread /\ UNCHANGED lock
    /\ records' = [records EXCEPT ![Address(th[t].old)] = Older(@)]
    /\ live' = live \union ({th[t].new} \ {NoChunk})
    /\ Finish(t)
    /\ UNCHANGED <<mem, mmap_tbl, heap_tbl, n_mmaps, used, calls, aborted, reused>>

\* Mutant: a heap goes although chunks in it are in use.
EmptiedMutant(t) == TRUE

Emptied(t) == used[th[t].old.slot] \subseteq {th[t].old.off}

\* _int_free under the arena's mutex; when nothing is left in a heap, heap_trim
\* may give it back: it is unmapped first and forgotten afterwards
FreeHeap(t) ==
    /\ At(t, "heap") /\ lock[th[t].arena] = NoThread
    /\ LET c == th[t].old IN
          /\ used' = [used EXCEPT ![c.slot] = @ \ {c.off}]
          /\ \/ Finish(t) /\ UNCHANGED <<lock, mem>>
             \/ Emptied(t) /\ Take(t, th[t].arena) /\ Map({c.slot}, "free") /\ GoTo(t, "forget")
    /\ UNCHANGED <<mmap_tbl, heap_tbl, records, n_mmaps, live, calls, aborted, reused>>

ForgetHeap(t) ==
    /\ At(t, "forget")
    /\ IF heap_tbl[th[t].old.slot] = 0
       THEN Abort
       ELSE /\ heap_tbl' = [heap_tbl EXCEPT ![th[t].old.slot] = 0]
            /\ Drop(th[t].arena)
            /\ Finish(t)
            /\ UNCHANGED <<mem, mmap_tbl, records, n_mmaps, used, live, calls, aborted, reused>>

(***************************************************************************)
(* Specification                                                           *)
(***************************************************************************)
Step(t) ==
    /\ ~aborted
    /\ \/ LockArena(t) \/ MallocHeap(t) \/ NewHeap(t) \/ AddHeap(t) \/ SwitchToMain(t)
       \/ MallocFails(t) \/ MmapMain(t) \/ MmapOther(t) \/ MmapOtherFails(t) \/ Relock(t)
       \/ StartAlign(t) \/ Align(t) \/ AlignFails(t) \/ Retry(t) \/ Return(t)
       \/ FindMmap(t) \/ FindHeap(t) \/ FreeMmapped(t) \/ ReallocMmapped(t)
       \/ LookupDelete(t) \/ Munmap(t) \/ Unregister(t) \/ FreeHeap(t) \/ ForgetHeap(t)

\* the bound on the calls is reached, or the program was aborted
Finished ==
    /\ aborted \/ (calls = MaxCalls /\ \A t \in Threads : ~Busy(t))
    /\ UNCHANGED vars

Next ==
    \/ \E t \in Threads :
          \/ Step(t)
          \/ ~aborted /\ (CallMalloc(t) \/ Call(t, "free") \/ Call(t, "realloc"))
    \/ Finished

Spec == Init /\ [][Next]_vars

(***************************************************************************)
(* Properties                                                              *)
(***************************************************************************)
Points == {"idle", "lock", "malloc", "addheap", "main", "relock", "got", "align", "find",
           "findheap", "mmapped", "heap", "delete", "munmap", "unregister", "forget"}

Chunks == [slot : Slots \union {0}, off : 0 .. HeapChunks + 1, size : 0 .. NSlots,
           index : Arenas \union {0}]

\* The variables hold values of their types.
TypeOK ==
    /\ mem \in [Slots -> {"free", "mmap", "heap"}]
    /\ mmap_tbl \in [Addresses -> 0 .. NSlots]
    /\ heap_tbl \in [Slots -> Arenas \union {0}]
    /\ \A a \in Addresses : \A i \in DOMAIN records[a] : records[a][i] \in 1 .. NSlots
    /\ n_mmaps \in Int
    /\ used \in [Slots -> SUBSET (1 .. HeapChunks)]
    /\ lock \in [Arenas -> Threads \union {NoThread}]
    /\ live \subseteq Chunks
    /\ \A t \in Threads :
          /\ th[t].at \in Points /\ th[t].arena \in Arenas
          /\ th[t].new \in Chunks /\ th[t].old \in Chunks
    /\ calls \in 0 .. MaxCalls
    /\ aborted \in BOOLEAN /\ reused \in BOOLEAN

\* the chunks of the program: those it holds and those of calls in progress,
\* from their allocation until they are taken apart
Held ==
    LET Still(t) == IF th[t].at \in {"munmap", "unregister", "forget"} THEN {} ELSE {th[t].old}
        Yet(t)   == IF At(t, "addheap") THEN {} ELSE {th[t].new}
    IN  (live \union UNION {Still(t) \union Yet(t) : t \in Threads}) \ {NoChunk}

Mmapped == {c \in Held : c.index = MMAPPED_ARENA_INDEX}

\* the entries of the table of mmapped chunks
Entries == {a \in Addresses : mmap_tbl[a] # 0}

\* lookup_arena_index gives the owner of every chunk, the newest record of a mmapped
\* chunk is its own, and mp_.n_mmaps counts the mappings, although the mutexes change
\* hands in the middle of sysmalloc, memalign and realloc -- as long as no slot was mapped
\* again before the thread that unmapped it had forgotten it (malloc.c:4133, arena.c:833).
\* The variables have their types in any case.
OwnerFound ==
    /\ TypeOK
    /\ ~reused =>
          /\ n_mmaps = Cardinality(Entries)
          /\ \A c \in Held :
                IF c.index = MMAPPED_ARENA_INDEX
                THEN /\ mmap_tbl[Address(c)] = c.size
                     /\ records[Address(c)] # <<>> /\ Head(records[Address(c)]) = c.size
                ELSE heap_tbl[c.slot] = c.index /\ c.off \in used[c.slot]

\* No two chunks share memory, and all of a chunk's memory is mapped: munmap_chunk
\* and heap_trim give back what nobody uses, with the same proviso.
Disjoint ==
    ~reused => \A c \in Held :
        /\ \A s \in Block(c) : mem[s] = IF c.index = MMAPPED_ARENA_INDEX THEN "mmap" ELSE "heap"
        /\ \A d \in Held \ {c} :
              Block(c) \intersect Block(d) # {} => c.index = d.index /\ c.index # 0 /\ c.off # d.off

\* The table of mmapped chunks never names memory that is not such a chunk's:
\* munmap_chunk removes the entry before it unmaps, so that a lookup, which takes
\* no mutex, finds no chunk that the kernel has given to someone else.  And even where
\* a slot was mapped again too early, a mmapped chunk that was not aligned keeps a record
\* (possibly an older one of its address), so that free finds metadata for it: the late
\* unregister_chunk of realloc removes one record, the newest, and only mappings have
\* records at such an address.  (An aligned one may have the address of a chunk of a heap
\* that a record too long has unmapped; freeing that chunk removes its record.)
NoneStale ==
    /\ ~reused => \A a \in Addresses :
          mmap_tbl[a] # 0 => \A s \in a[1] .. a[1] + mmap_tbl[a] - 1 : mem[s] = "mmap"
    /\ \A c \in Mmapped : c.off = 0 => records[Address(c)] # <<>>

\* No assertion fails: every address is found, and every entry to be deleted is
\* there, with the same proviso.
NoAbort == ~reused => ~aborted

\* No thread waits for a mutex while it holds one, in whatever order malloc, memalign,
\* realloc and free go from one arena's mutex to another's: no cycle can form.
Waits(t) ==
    \/ th[t].at \in {"lock", "main", "relock", "align", "mmapped", "heap"}
    \/ At(t, "unregister") /\ th[t].op = "realloc"

NoHoldAndWait == \A t \in Threads : Waits(t) => \A a \in Arenas : lock[a] # t
================================================================================
