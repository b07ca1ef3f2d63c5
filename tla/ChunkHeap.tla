------------------------------ MODULE ChunkHeap ------------------------------
(***************************************************************************)
(* The main arena's chunk heap of malloc.c: malloc, free, realloc,         *)
(* memalign and malloc_trim with every routine they call (_int_malloc,     *)
(* sysmalloc, _int_free, malloc_consolidate, systrim, _int_realloc,        *)
(* _int_memalign) over chunks whose headers live outside the heap, in the  *)
(* metadata records that md_next and md_prev link in physical order.       *)
(*                                                                         *)
(* One thread at a time holds the arena's mutex and runs the operation of  *)
(* op; the only step of the code outside the mutex is _int_free reading    *)
(* av->_md_top before it locks, and the frees that have done so wait in    *)
(* entering; a realloc that found no room unlocks and waits in retrying    *)
(* for the malloc it tries next.  With NThreads = 1 the program is         *)
(* sequential.                                                             *)
(*                                                                         *)
(* A process ends at "abort" when a check that every build makes fails; at *)
(* "assert" when an assertion fails, in a build that has them, while one   *)
(* without goes on; and at "null_load" when the code reads through NULL.   *)
(*                                                                         *)
(* Addresses and sizes count units of MALLOC_ALIGNMENT = 16 bytes.         *)
(***************************************************************************)
EXTENDS Integers, FiniteSets, SequencesExt

CONSTANTS
    NThreads,             \* threads of the program
    Requests,             \* chunk sizes asked for, after request2size
    Alignments,           \* alignments asked of memalign
    Pads,                 \* arguments of malloc_trim
    ForeignSteps,         \* lengths of sbrk calls made by other code
    InitialBrk,           \* the break when the program starts
    SbrkLimit,            \* the break never exceeds this address
    MmapTop,              \* sys_MMAP hands out (SbrkLimit .. MmapTop) downwards
    MaxFast,              \* get_max_fast()
    MinLarge,             \* the smallest size outside the small bins
    NBins,                \* index of the last bin
    LargeIndex(_),        \* largebin_index
    PageSize,             \* GLRO (dl_pagesize)
    TopPad,               \* mp_.top_pad
    TrimThreshold,        \* mp_.trim_threshold
    ConsolidateThreshold, \* FASTBIN_CONSOLIDATION_THRESHOLD
    MmapUnit,             \* MMAP_AS_MORECORE_SIZE
    MaxIters              \* MAX_ITERS

MINSIZE    == 2
NULL       == -1
InitialTop == -2          \* the address of main_arena.initial_top
Dangling   == -3          \* a pointer to a metadata record given back to the pool

ASSUME ThreadAssumption == NThreads \in Nat \ {0}
ASSUME RequestAssumption ==
    /\ \A n \in Requests : n \in Nat /\ n >= MINSIZE
    /\ \A a \in Alignments : a \in Nat /\ a >= MINSIZE
    /\ \A k \in Pads \cup {TopPad} : k \in Nat
    /\ \A k \in ForeignSteps : k \in Nat \ {0}
ASSUME SpaceAssumption ==
    /\ InitialBrk \in Nat /\ SbrkLimit \in Nat /\ MmapTop \in Nat
    /\ InitialBrk <= SbrkLimit /\ SbrkLimit <= MmapTop
    /\ PageSize \in Nat /\ PageSize > MINSIZE /\ MmapUnit \in Nat \ {0}
    /\ MmapUnit % PageSize = 0 /\ MmapTop % PageSize = 0
ASSUME ThresholdAssumption ==
    /\ MaxFast \in Nat /\ MinLarge \in Nat /\ NBins \in Nat /\ MaxIters \in Nat \ {0}
    /\ TrimThreshold \in Nat /\ ConsolidateThreshold \in Nat
    /\ MaxFast < MinLarge /\ MinLarge < NBins /\ MaxFast < ConsolidateThreshold
    /\ TopPad + MINSIZE < TrimThreshold

\* the sizes of chunks, and those that _int_malloc may be asked for
ChunkSizes == 0 .. MmapTop \cup Requests
              \cup {n + a + MINSIZE : n \in Requests, a \in Alignments}
ASSUME IndexAssumption ==
    \A s, t \in {n \in ChunkSizes : n >= MinLarge} :
        /\ LargeIndex(s) \in MinLarge + 1 .. NBins
        /\ s <= t => LargeIndex(s) <= LargeIndex(t)

VARIABLES
    md,             \* the registered chunks: address -> metadata record
    bins,           \* the circular lists, from bin->fd to bin->bk
    binmap,         \* the indices whose bit is set
    fastbins,       \* the fastbin stacks, one per size
    have_fast,      \* have_fastchunks(av)
    top,            \* the chunk of av->_md_top
    last_remainder, \* the chunk of av->last_remainder
    brk,            \* the process break
    mmap_lo,        \* the lowest address handed out by sys_MMAP
    contiguous,     \* contiguous(av)
    system_mem,     \* av->system_mem
    sbrk_base,      \* mp_.sbrk_base
    sbrk_regions,   \* where lookup.c finds the main arena; the first one moves with the break
    owned,          \* ghost: the units obtained from the system, not released
    seams,          \* ghost: the second fenceposts, where a region ends
    ragged,         \* ghost: the region of the top chunk may end inside a page
    held,           \* the client's live blocks: address -> size asked for
    entering,       \* frees that have read _md_top and wait for the mutex
    retrying,       \* reallocs that failed and wait for the mutex to malloc
    op              \* the operation that holds the mutex

heap   == <<md, bins, binmap, fastbins, have_fast, top, last_remainder>>
system == <<brk, mmap_lo, contiguous, system_mem, sbrk_base, sbrk_regions, owned, seams,
            ragged>>
client == <<held, entering, retrying>>
vars   == <<heap, system, client, op>>

UNSORTED == 1
BinIdx   == UNSORTED .. NBins
Smalls   == MINSIZE .. MaxFast
InSmallbinRange(s) == s < MinLarge
\* bin_index: one size per small bin
BinIndex(s) == IF InSmallbinRange(s) THEN s + 1 ELSE LargeIndex(s)

AlignUp(n, a)   == n + (-n % a)
AlignDown(n, a) == n - (n % a)

(***************************************************************************)
(* Chunks and their metadata.                                              *)
(***************************************************************************)
Chunk == [size : Nat, prev_inuse : BOOLEAN, prev_size : Nat,
          md_next : Int, md_prev : Int]

FreshTop(n) == [size |-> n, prev_inuse |-> TRUE, prev_size |-> 0,
                md_next |-> NULL, md_prev |-> NULL]

Register(m, p, c) == [x \in DOMAIN m \cup {p} |-> IF x = p THEN c ELSE m[x]]
Unregister(m, p)  == [x \in DOMAIN m \ {p} |-> m[x]]

\* inuse: the bit is kept in the next chunk
Inuse(m, p) == m[m[p].md_next].prev_inuse

\* Mutant: a chunk that leaves its bin is not marked.
SetInuseMutant(m, p) == m

\* prev_size only counts while PREV_INUSE is clear, and is dropped when it is set
SetInuse(m, p) == [m EXCEPT ![m[p].md_next].prev_inuse = TRUE,
                            ![m[p].md_next].prev_size = 0]
ClearInuse(m, p) == [m EXCEPT ![p].prev_inuse = FALSE]
SetHead(m, p, s) == [m EXCEPT ![p].size = s, ![p].prev_inuse = TRUE,
                              ![p].prev_size = 0]
\* Mutant: the free chunk leaves no foot.
SetFootMutant(m, p) == m

SetFoot(m, p) == [m EXCEPT ![m[p].md_next].prev_size = m[p].size]

\* The chunk p keeps its first nb units; the rest becomes a chunk of its own.
Carve(m, p, nb) ==
    LET r == p + nb
        n == m[p].md_next
        c == [size |-> m[p].size - nb, prev_inuse |-> TRUE, prev_size |-> 0,
              md_next |-> n, md_prev |-> p]
        s == Register([m EXCEPT ![p].size = nb, ![p].md_next = r], r, c)
    IN  IF n = NULL THEN s ELSE [s EXCEPT ![n].md_prev = r]

\* The chunk n, the next one of p, is merged into p, whose size the caller sets.
Absorb(m, p, n) ==
    LET nn == m[n].md_next
        s == [m EXCEPT ![p].md_next = nn]
    IN  Unregister(IF nn = NULL THEN s ELSE [s EXCEPT ![nn].md_prev = p], n)

\* a record given back to the pool leaves last_remainder dangling
Forget(gone) == IF last_remainder \in gone THEN Dangling ELSE last_remainder

(***************************************************************************)
(* Bins.                                                                   *)
(***************************************************************************)
Binned == UNION {ToSet(bins[i]) : i \in BinIdx}
Fast   == UNION {ToSet(fastbins[s]) : s \in Smalls}

\* Mutant: the chunk stays in its bin.
UnlinkMutant(b, p) == b

\* bin_unlink
Unlink(b, p) == [i \in BinIdx |-> RemoveFirst(b[i], p)]
PushUnsorted(b, p) == [b EXCEPT ![UNSORTED] = Cons(p, @)]

\* Mutant: large bins are not sorted.
PositionMutant(i, v) == 1

\* Where the unsorted chunk v goes in bin i: small bins at the front; large bins
\* by decreasing size, behind the first chunk of its own size.
Position(i, v) ==
    LET s == bins[i]
        smaller == {j \in DOMAIN s : md[s[j]].size < md[v].size}
        equal   == {j \in DOMAIN s : md[s[j]].size = md[v].size}
    IN  IF InSmallbinRange(md[v].size) THEN 1
        ELSE IF equal # {} THEN Min(equal) + 1
        ELSE IF smaller # {} THEN Min(smaller)
        ELSE Len(s) + 1

(***************************************************************************)
(* The operation in progress.  Its control point is at; the rest are the   *)
(* local variables of the routines that are active.                        *)
(***************************************************************************)
Points == {"idle", "malloc", "unsorted", "fit", "top", "sys", "sys_done",
           "got", "free", "trim_check", "consolidate", "systrim", "realloc",
           "memalign_tail", "done", "abort", "assert", "null_load"}
Calls  == {"none", "malloc", "free", "realloc", "retry", "memalign", "trim"}

Idle == [at      |-> "idle",   \* the control point
         call    |-> "none",   \* the client's call
         nb      |-> 0,        \* size _int_malloc looks for
         iters   |-> 0,        \* traversed unsorted chunks
         v       |-> NULL,     \* chunk allocated, not yet given to the client
         p       |-> NULL,     \* chunk _int_free works on
         tc      |-> NULL,     \* topchunk of _int_free
         then    |-> "done",   \* where _int_free returns to
         cont    |-> "done",   \* where malloc_consolidate returns to
         blk     |-> NULL,     \* the client's block that realloc works on
         want    |-> 0,        \* size asked of realloc or memalign
         align   |-> 0,        \* alignment asked of memalign
         pad     |-> 0]        \* argument of systrim

At(point) == op.at = point
GoTo(point) == op' = [op EXCEPT !.at = point]
Got(chunk)  == op' = [op EXCEPT !.at = "got", !.v = chunk]
Abort       == op' = [op EXCEPT !.at = "abort"]

\* the process has ended
Stopped == op.at \in {"abort", "assert", "null_load"}

\* a thread that neither holds the mutex nor waits in _int_free
ThreadFree ==
    /\ ~Stopped
    /\ Cardinality(entering) + Cardinality(retrying) + (IF At("idle") THEN 0 ELSE 1)
         < NThreads

\* the blocks a realloc is working on
Reallocated == {op.blk} \cup {r.blk : r \in retrying}

Init ==
    /\ md = [p \in {InitialTop} |-> [FreshTop(0) EXCEPT !.prev_inuse = FALSE]]
    /\ bins = [i \in BinIdx |-> <<>>]
    /\ binmap = {}
    /\ fastbins = [s \in Smalls |-> <<>>]
    /\ have_fast = FALSE
    /\ top = InitialTop
    /\ last_remainder = NULL
    /\ brk = InitialBrk
    /\ mmap_lo = MmapTop
    /\ contiguous = TRUE
    /\ system_mem = 0
    /\ sbrk_base = NULL
    /\ sbrk_regions = <<[lo |-> 0, hi |-> 0]>>
    /\ owned = {}
    /\ seams = {}
    /\ ragged = FALSE
    /\ held = <<>>
    /\ entering = {}
    /\ retrying = {}
    /\ op = Idle

(***************************************************************************)
(* The client's calls.  All but free lock the arena before they read it.   *)
(***************************************************************************)
CallMalloc(nb) ==
    /\ At("idle") /\ ThreadFree
    /\ op' = [Idle EXCEPT !.at = "malloc", !.call = "malloc", !.nb = nb]
    /\ UNCHANGED <<heap, system, client>>

CallRealloc(p, nb) ==
    /\ At("idle") /\ ThreadFree
    /\ p \in DOMAIN held \ Reallocated
    /\ op' = [Idle EXCEPT !.at = "realloc", !.call = "realloc", !.blk = p,
                          !.nb = nb, !.want = nb]
    /\ UNCHANGED <<heap, system, client>>

\* worst case padding to hit the alignment
CallMemalign(alignment, nb) ==
    /\ At("idle") /\ ThreadFree
    /\ op' = [Idle EXCEPT !.at = "malloc", !.call = "memalign", !.want = nb,
                          !.align = alignment, !.nb = nb + alignment + MINSIZE]
    /\ UNCHANGED <<heap, system, client>>

\* mtrim consolidates whatever have_fastchunks says
CallTrim(pad) ==
    /\ At("idle") /\ ThreadFree
    /\ have_fast' = FALSE
    /\ op' = [Idle EXCEPT !.at = "consolidate", !.call = "trim",
                          !.cont = "systrim", !.pad = pad]
    /\ UNCHANGED <<md, bins, binmap, fastbins, top, last_remainder, system, client>>

\* _int_free reads the top chunk before it takes the mutex
CallFree(p) ==
    /\ ThreadFree
    /\ p \in DOMAIN held \ Reallocated
    /\ entering' = entering \cup {[p |-> p, tc |-> top]}
    /\ held' = [q \in DOMAIN held \ {p} |-> held[q]]
    /\ UNCHANGED <<heap, system, retrying, op>>

LockFree(f) ==
    /\ At("idle")
    /\ entering' = entering \ {f}
    /\ op' = [Idle EXCEPT !.at = "free", !.call = "free", !.p = f.p, !.tc = f.tc]
    /\ UNCHANGED <<heap, system, held, retrying>>

LockRetry(r) ==
    /\ At("idle")
    /\ retrying' = retrying \ {r}
    /\ op' = [Idle EXCEPT !.at = "malloc", !.call = "retry", !.blk = r.blk,
                          !.nb = r.want, !.want = r.want]
    /\ UNCHANGED <<heap, system, held, entering>>

\* other code in the process moves the break
ForeignSbrk(k) ==
    /\ op.at \in {"idle", "systrim"} /\ top # InitialTop
    /\ brk + k <= SbrkLimit
    /\ brk' = brk + k
    /\ UNCHANGED <<heap, mmap_lo, contiguous, system_mem, sbrk_base, sbrk_regions, owned,
                   seams, ragged, client, op>>

(***************************************************************************)
(* _int_malloc                                                             *)
(***************************************************************************)
\* replenish_metadata_cache fails
NoMetadata ==
    /\ At("malloc")
    /\ Got(NULL)
    /\ UNCHANGED <<heap, system, client>>

FastHit == op.nb <= MaxFast /\ fastbins[op.nb] # <<>>

MallocFast ==
    /\ At("malloc") /\ FastHit
    /\ fastbins' = [fastbins EXCEPT ![op.nb] = Tail(@)]
    /\ Got(Head(fastbins[op.nb]))
    /\ UNCHANGED <<md, bins, binmap, have_fast, top, last_remainder, system, client>>

SmallHit == InSmallbinRange(op.nb) /\ bins[BinIndex(op.nb)] # <<>>

MallocSmall ==
    /\ At("malloc") /\ ~FastHit /\ SmallHit
    /\ LET v == Last(bins[BinIndex(op.nb)])
       IN  /\ md' = SetInuse(md, v)
           /\ bins' = Unlink(bins, v)
           /\ Got(v)
    /\ UNCHANGED <<binmap, fastbins, have_fast, top, last_remainder, system, client>>

\* Mutant: the flag is not cleared.
ConsolidateMutant(cont) ==
    op' = [op EXCEPT !.at = "consolidate", !.cont = cont] /\ UNCHANGED have_fast

\* clear_fastchunks, then one fastbin after the other
Consolidate(cont) ==
    /\ have_fast' = FALSE
    /\ op' = [op EXCEPT !.at = "consolidate", !.cont = cont]

MallocMiss ==
    /\ At("malloc") /\ ~FastHit /\ ~SmallHit
    /\ IF ~InSmallbinRange(op.nb) /\ have_fast
       THEN Consolidate("unsorted")
       ELSE GoTo("unsorted") /\ UNCHANGED have_fast
    /\ UNCHANGED <<md, bins, binmap, fastbins, top, last_remainder, system, client>>

\* Takes the free chunk v whole, or its first nb units: then the rest is unsorted.
TakeFree(v) ==
    LET r == v + op.nb
    IN  IF md[v].size - op.nb < MINSIZE
        THEN md' = SetInuse(md, v) /\ bins' = Unlink(bins, v)
        ELSE /\ md' = SetFoot(Carve(SetHead(md, v, md[v].size), v, op.nb), r)
             /\ bins' = PushUnsorted(Unlink(bins, v), r)

UnsortedNonempty == bins[UNSORTED] # <<>>
Victim == Last(bins[UNSORTED])

TakeLastRemainder ==
    /\ InSmallbinRange(op.nb)
    /\ Len(bins[UNSORTED]) = 1
    /\ last_remainder \in {Victim, Dangling}
    /\ md[Victim].size > op.nb + MINSIZE

VictimCorrupt == md[Victim].size <= 1 \/ md[Victim].size > system_mem

\* a dangling last_remainder may or may not be the record the victim has now
UnsortedRemainder ==
    /\ At("unsorted") /\ UnsortedNonempty /\ op.iters < MaxIters
    /\ TakeLastRemainder
    /\ IF VictimCorrupt THEN Abort /\ UNCHANGED <<md, bins, last_remainder>>
       ELSE /\ TakeFree(Victim)
            /\ last_remainder' = Victim + op.nb
            /\ Got(Victim)
    /\ UNCHANGED <<binmap, fastbins, have_fast, top, system, client>>

\* the victim fits exactly, or goes to the bin of its size
UnsortedNext ==
    /\ At("unsorted") /\ UnsortedNonempty /\ op.iters < MaxIters
    /\ ~(TakeLastRemainder /\ last_remainder = Victim)
    /\ LET v    == Victim
           rest == [bins EXCEPT ![UNSORTED] = Front(@)]
           i    == BinIndex(md[v].size)
       IN  IF VictimCorrupt THEN Abort /\ UNCHANGED <<md, bins, binmap>>
           ELSE IF md[v].size = op.nb
           THEN /\ bins' = rest
                /\ md' = SetInuse(md, v)
                /\ Got(v)
                /\ UNCHANGED binmap
           ELSE /\ bins' = [rest EXCEPT ![i] = InsertAt(@, Position(i, v), v)]
                /\ binmap' = binmap \cup {i}
                /\ op' = [op EXCEPT !.iters = @ + 1]
                /\ UNCHANGED md
    /\ UNCHANGED <<fastbins, have_fast, top, last_remainder, system, client>>

UnsortedDone ==
    /\ At("unsorted")
    /\ ~UnsortedNonempty \/ op.iters = MaxIters
    /\ op' = [op EXCEPT !.at = "fit", !.iters = 0]
    /\ UNCHANGED <<heap, system, client>>

OwnBin == bins[BinIndex(op.nb)]
LargeHit == ~InSmallbinRange(op.nb) /\ OwnBin # <<>> /\ md[Head(OwnBin)].size >= op.nb

\* Mutant: the bin is searched from its other end.
FitSizeMutant == md[Head(OwnBin)].size

FitSize == Min({md[v].size : v \in {u \in ToSet(OwnBin) : md[u].size >= op.nb}})

\* the smallest that fits, and the second of its size if there is one
LargeFit ==
    /\ At("fit") /\ LargeHit
    /\ LET same == {j \in DOMAIN OwnBin : md[OwnBin[j]].size = FitSize}
           j    == IF Cardinality(same) > 1 THEN Min(same) + 1 ELSE Min(same)
       IN  TakeFree(OwnBin[j]) /\ Got(OwnBin[j])
    /\ UNCHANGED <<binmap, fastbins, have_fast, top, last_remainder, system, client>>

\* the bins marked in binmap above the request's own
Marked   == {i \in binmap : i > BinIndex(op.nb)}
FitBins  == {i \in Marked : bins[i] # <<>>}

\* the first nonempty one; empty ones before it are unmarked
BinFit ==
    /\ At("fit") /\ ~LargeHit /\ FitBins # {}
    /\ LET i == Min(FitBins)
           v == Last(bins[i])
       IN  /\ binmap' = binmap \ {j \in Marked : j < i}
           /\ TakeFree(v)
           /\ last_remainder' = IF md[v].size - op.nb >= MINSIZE /\ InSmallbinRange(op.nb)
                                THEN v + op.nb ELSE last_remainder
           /\ Got(v)
    /\ UNCHANGED <<fastbins, have_fast, top, system, client>>

BinNone ==
    /\ At("fit") /\ ~LargeHit /\ FitBins = {}
    /\ binmap' = binmap \ Marked
    /\ GoTo("top")
    /\ UNCHANGED <<md, bins, fastbins, have_fast, top, last_remainder, system, client>>

\* split_chunk: the top chunk keeps what lies behind the first nb units
SplitTop ==
    /\ md' = Carve(SetHead(md, top, md[top].size), top, op.nb)
    /\ top' = top + op.nb
    /\ Got(top)

\* Mutant: the remainder is added on the wrong side.
TopFitsMutant == md[top].size + MINSIZE >= op.nb

TopFits == md[top].size >= op.nb + MINSIZE

UseTop ==
    /\ At("top") /\ TopFits
    /\ SplitTop
    /\ UNCHANGED <<bins, binmap, fastbins, have_fast, last_remainder, system, client>>

TopConsolidate ==
    /\ At("top") /\ ~TopFits /\ have_fast
    /\ Consolidate("unsorted")
    /\ UNCHANGED <<md, bins, binmap, fastbins, top, last_remainder, system, client>>

old_size == md[top].size
old_end  == top + old_size

\* top_is_aligned: the top chunk ends at the end of a page
TopAligned == top = InitialTop \/ old_end % PageSize = 0

\* what sysmalloc asserts of the top chunk first of all; that it is too small, which
\* it asserts next, is the guard of TopTooSmall
SysmallocReady ==
    \/ top = InitialTop /\ old_size = 0
    \/ old_size >= MINSIZE /\ md[top].prev_inuse /\ TopAligned

TopTooSmall ==
    /\ At("top") /\ ~TopFits /\ ~have_fast
    /\ GoTo("sys") \/ (~SysmallocReady /\ GoTo("assert"))
    /\ UNCHANGED <<heap, system, client>>

(***************************************************************************)
(* sysmalloc for the main arena, below mmap_threshold: the top chunk is    *)
(* extended with sbrk; if that fails or does not extend it, a new region   *)
(* from sbrk or mmap becomes the top chunk and the old one is fenced off.  *)
(***************************************************************************)
SbrkSize ==
    AlignUp(op.nb + TopPad + MINSIZE - (IF contiguous THEN old_size ELSE 0), PageSize)
MmapSize ==
    Max({MmapUnit, IF contiguous THEN AlignUp(SbrkSize + old_size, PageSize)
                                 ELSE SbrkSize})
CanSbrk == brk + SbrkSize <= SbrkLimit

\* Mutant: the length of a first region is not counted.
SbrkedMutant(n) ==
    /\ sbrk_regions' = IF sbrk_base = NULL THEN [sbrk_regions EXCEPT ![1] = [lo |-> brk, hi |-> brk]]
                       ELSE [sbrk_regions EXCEPT ![1].hi = @ + n]
    /\ sbrk_base' = IF sbrk_base = NULL THEN brk ELSE sbrk_base

\* lookup_set_sbrk_lo the first time, lookup_incr_sbrk_hi every time
Sbrked(n) ==
    LET lo == IF sbrk_base = NULL THEN brk ELSE sbrk_regions[1].lo
        hi == IF sbrk_regions[1].hi = 0 THEN lo ELSE sbrk_regions[1].hi
    IN  /\ sbrk_regions' = [sbrk_regions EXCEPT ![1] = [lo |-> lo, hi |-> hi + n]]
        /\ sbrk_base' = IF sbrk_base = NULL THEN brk ELSE sbrk_base

SysExtend ==
    /\ At("sys") /\ CanSbrk /\ brk = old_end
    /\ md' = [md EXCEPT ![top].size = @ + SbrkSize, ![top].prev_inuse = TRUE]
    /\ brk' = brk + SbrkSize
    /\ system_mem' = system_mem + SbrkSize
    /\ owned' = owned \cup (brk .. brk + SbrkSize - 1)
    /\ Sbrked(SbrkSize)
    /\ GoTo("sys_done")
    /\ UNCHANGED <<bins, binmap, fastbins, have_fast, top, last_remainder,
                   mmap_lo, contiguous, seams, ragged, client>>

\* The new top chunk [base, base + size), behind two fenceposts at the end of the
\* old one unless there was none.  What is left of the old one is freed.
NewTop(base, size) ==
    LET m    == Register(md, base, FreshTop(size))
        keep == old_size - MINSIZE
        f0   == top + keep
        prev == IF keep = 0 THEN md[top].md_prev ELSE top
        fence(next, before) == [size |-> 1, prev_inuse |-> TRUE, prev_size |-> 0,
                                md_next |-> next, md_prev |-> before]
        shrunk == IF keep = 0 THEN Unregister(m, top) ELSE SetHead(m, top, keep)
        fenced == Register(Register(shrunk, f0, fence(f0 + 1, prev)),
                           f0 + 1, fence(base, f0))
    IN  /\ top' = base
        /\ owned' = owned \cup (base .. base + size - 1)
        /\ IF old_size = 0
           THEN /\ md' = m
                /\ op' = [op EXCEPT !.at = "sys_done"]
                /\ UNCHANGED <<seams, last_remainder>>
           ELSE /\ md' = [fenced EXCEPT ![prev].md_next = f0, ![base].md_prev = f0 + 1]
                /\ seams' = seams \cup {f0 + 1}
                /\ last_remainder' = IF keep = 0 THEN Forget({top}) ELSE last_remainder
                /\ op' = IF keep < MINSIZE
                         THEN [op EXCEPT !.at = "sys_done"]
                         ELSE [op EXCEPT !.at = "free", !.p = top, !.tc = base,
                                         !.then = "sys_done"]
        /\ UNCHANGED <<bins, binmap, fastbins, have_fast>>

\* foreign sbrk counts as system_mem
ForeignGap == IF old_size # 0 THEN brk - old_end ELSE 0

\* break adjusted to free malloc space
BreakLowered == old_size # 0 /\ brk < old_end

\* First use, or foreign sbrk behind our back: a second sbrk makes up for the space
\* of the old top and aligns the end to a page, unless the system refuses it.
SysSbrkRegion ==
    /\ At("sys") /\ CanSbrk /\ brk # old_end /\ contiguous
    /\ LET end  == brk + SbrkSize
           need == old_size + AlignUp(end + old_size, PageSize) - (end + old_size)
       IN  IF BreakLowered
           THEN /\ brk' = end
                /\ system_mem' = system_mem + SbrkSize
                /\ Sbrked(SbrkSize)
                /\ Abort
                /\ UNCHANGED <<heap, owned, seams, ragged>>
           ELSE \E correction \in {0, need} :
                /\ end + correction <= SbrkLimit
                /\ brk' = end + correction
                /\ system_mem' = system_mem + SbrkSize + correction + ForeignGap
                /\ Sbrked(SbrkSize + correction)
                /\ ragged' = (correction # need)
                /\ NewTop(brk, SbrkSize + correction)
    /\ UNCHANGED <<mmap_lo, contiguous, client>>

SysSbrkNoncontiguous ==
    /\ At("sys") /\ CanSbrk /\ brk # old_end /\ ~contiguous
    /\ brk' = brk + SbrkSize
    /\ system_mem' = system_mem + SbrkSize
    /\ Sbrked(SbrkSize)
    /\ ragged' = (brk % PageSize # 0)
    /\ NewTop(brk, SbrkSize)
    /\ UNCHANGED <<mmap_lo, contiguous, client>>

\* MORECORE failed: mmap as a backup, and the heap is never contiguous again
SysMmapRegion ==
    /\ At("sys")
    /\ mmap_lo - MmapSize >= SbrkLimit
    /\ mmap_lo' = mmap_lo - MmapSize
    /\ contiguous' = FALSE
    /\ system_mem' = system_mem + MmapSize
    /\ sbrk_regions' = Append(sbrk_regions, [lo |-> mmap_lo - MmapSize, hi |-> mmap_lo])
    /\ sbrk_base' = IF sbrk_base = NULL THEN mmap_lo - MmapSize ELSE sbrk_base
    /\ ragged' = FALSE
    /\ NewTop(mmap_lo - MmapSize, MmapSize)
    /\ UNCHANGED <<brk, client>>

\* check_top, when the new top chunk is made and again after the split
CheckTop ==
    /\ At("sys_done") /\ ~TopAligned
    /\ GoTo("assert")
    /\ UNCHANGED <<heap, system, client>>

\* no memory either way: the top chunk is still too small for the final check
SysRefused ==
    /\ At("sys")
    /\ Got(NULL)
    /\ UNCHANGED <<heap, system, client>>

SysSplit ==
    /\ At("sys_done") /\ TopFits
    /\ SplitTop
    /\ UNCHANGED <<bins, binmap, fastbins, have_fast, last_remainder, system, client>>

SysEnomem ==
    /\ At("sys_done") /\ ~TopFits
    /\ Got(NULL)
    /\ UNCHANGED <<heap, system, client>>

(***************************************************************************)
(* _int_free and malloc_consolidate                                        *)
(***************************************************************************)
\* a size field too small for a chunk (size <= 2 * SIZE_SZ, flag included)
BadSize(p) == md[p].size = 0 \/ (md[p].size = 1 /\ ~md[p].prev_inuse)

\* Merging p with its free neighbours would follow a null pointer or unlink a
\* chunk that is in no bin.
CannotCoalesce(p, tc) ==
    LET n == md[p].md_next
    IN  \/ n \notin DOMAIN md
        \/ (~md[p].prev_inuse /\ md[p].md_prev \notin Binned)
        \/ /\ n # tc
           /\ \/ md[n].md_next \notin DOMAIN md
              \/ (~Inuse(md, n) /\ n \notin Binned)

\* the chunk and the error checks of _int_free
FreeAborts(p, tc) ==
    \/ p \notin DOMAIN md
    \/ md[p].size < MINSIZE
    \/ md[p].md_next \notin DOMAIN md
    \/ LET n == md[p].md_next
       IN  \/ BadSize(n)
           \/ md[n].size >= system_mem
           \/ IF md[p].size <= MaxFast
              THEN fastbins[md[p].size] # <<>> /\ Head(fastbins[md[p].size]) = p
              ELSE \/ p = tc
                   \/ contiguous /\ n >= tc + md[top].size
                   \/ ~md[n].prev_inuse
                   \/ CannotCoalesce(p, tc)

\* consolidate forward
MergesAhead(m, n, tc) == n # tc /\ ~Inuse(m, n)

\* p joins the free chunk before it and the one behind it, and becomes unsorted;
\* or it joins the chunk tc behind it and becomes the top chunk.
Coalesce(p, tc) ==
    LET n      == md[p].md_next
        back   == ~md[p].prev_inuse
        q      == IF back THEN md[p].md_prev ELSE p
        m      == IF back THEN Absorb(md, q, p) ELSE md
        totop  == n = tc
        ahead  == MergesAhead(m, n, tc)
        size   == md[p].size + (IF back THEN md[p].prev_size ELSE 0)
                             + (IF totop \/ ahead THEN md[n].size ELSE 0)
        joined == IF ahead THEN Absorb(m, q, n) ELSE ClearInuse(m, n)
        gone   == (IF back THEN {p} ELSE {}) \cup (IF totop \/ ahead THEN {n} ELSE {})
        left   == IF back THEN Unlink(bins, q) ELSE bins
    IN  /\ last_remainder' = Forget(gone)
        /\ IF totop
           THEN /\ md' = Unregister([SetHead(m, q, size) EXCEPT ![q].md_next = NULL], n)
                /\ bins' = left
                /\ top' = q
           ELSE /\ md' = SetFoot(SetHead(joined, q, size), q)
                /\ bins' = PushUnsorted(IF ahead THEN Unlink(left, n) ELSE left, q)
                /\ top' = top

Return == op' = [op EXCEPT !.at = op.then, !.p = NULL, !.tc = NULL]

\* Mutant: set_fastchunks is forgotten.
FreeFastMutant ==
    /\ fastbins' = [fastbins EXCEPT ![md[op.p].size] = Cons(op.p, @)]
    /\ Return
    /\ UNCHANGED <<md, bins, top, last_remainder, have_fast>>

FreeFast ==
    /\ have_fast' = TRUE
    /\ fastbins' = [fastbins EXCEPT ![md[op.p].size] = Cons(op.p, @)]
    /\ Return
    /\ UNCHANGED <<md, bins, top, last_remainder>>

\* after a large free, consolidate and see whether the top is worth trimming
FreeMerge ==
    LET joined == IF md[op.p].prev_inuse THEN op.p ELSE md[op.p].md_prev
    IN  /\ Coalesce(op.p, op.tc)
        /\ IF md'[joined].size < ConsolidateThreshold
           THEN Return /\ UNCHANGED have_fast
           ELSE /\ have_fast' = FALSE
                /\ op' = [op EXCEPT !.at = IF have_fast THEN "consolidate" ELSE "trim_check",
                                    !.cont = "trim_check", !.p = NULL, !.tc = NULL]
        /\ UNCHANGED fastbins

Free ==
    /\ At("free")
    /\ IF FreeAborts(op.p, op.tc)
       THEN Abort /\ UNCHANGED <<md, bins, fastbins, have_fast, top, last_remainder>>
       ELSE IF md[op.p].size <= MaxFast THEN FreeFast ELSE FreeMerge
    /\ UNCHANGED <<binmap, system, client>>

FreeTrim ==
    /\ At("trim_check")
    /\ op' = IF md[top].size >= TrimThreshold
             THEN [op EXCEPT !.at = "systrim", !.pad = TopPad]
             ELSE [op EXCEPT !.at = op.then]
    /\ UNCHANGED <<heap, system, client>>

FilledFastbins == {s \in Smalls : fastbins[s] # <<>>}

ConsolidateNext ==
    /\ At("consolidate") /\ FilledFastbins # {}
    /\ LET s == Min(FilledFastbins)
           p == Head(fastbins[s])
       IN  /\ fastbins' = [fastbins EXCEPT ![s] = Tail(@)]
           /\ IF CannotCoalesce(p, top)
              THEN Abort /\ UNCHANGED <<md, bins, top, last_remainder>>
              ELSE Coalesce(p, top) /\ UNCHANGED op
    /\ UNCHANGED <<binmap, have_fast, system, client>>

ConsolidateDone ==
    /\ At("consolidate") /\ FilledFastbins = {}
    /\ GoTo(op.cont)
    /\ UNCHANGED <<heap, system, client>>

(***************************************************************************)
(* systrim.  top_area = top_size - MINSIZE - 1 byte is compared with pad   *)
(* as an unsigned number: a top chunk of MINSIZE passes the test.          *)
(***************************************************************************)

Extra == AlignDown(old_size - op.pad - MINSIZE - 1, PageSize)
NoExtra == (old_size > MINSIZE /\ old_size - op.pad <= MINSIZE) \/ Extra = 0

Systrim ==
    /\ At("systrim")
    /\ IF NoExtra \/ brk # old_end \/ brk - Extra > SbrkLimit
       THEN UNCHANGED <<md, brk, system_mem, sbrk_regions, owned>>
       ELSE /\ brk' = brk - Extra
            /\ system_mem' = system_mem - Extra
            /\ sbrk_regions' = [sbrk_regions EXCEPT ![1].hi = @ - Extra]
            /\ md' = [md EXCEPT ![top].size = old_size - Extra, ![top].prev_inuse = TRUE]
            /\ owned' = (owned \cup (brk .. brk' - 1)) \ (brk' .. brk - 1)
    /\ GoTo(op.then)
    /\ UNCHANGED <<bins, binmap, fastbins, have_fast, top, last_remainder,
                   mmap_lo, contiguous, sbrk_base, seams, ragged, client>>

(***************************************************************************)
(* The chunk that _int_malloc found, or NULL, is back in its caller.       *)
(***************************************************************************)
\* the client owns v, of size n, and not the block b any more
Give(v, n, b) ==
    held' = [q \in (DOMAIN held \ {b}) \cup {v} |-> IF q = v THEN n ELSE held[q]]

\* _int_free by a routine that holds the mutex: it reads the current top
FreeThen(p, point) ==
    [op EXCEPT !.at = "free", !.p = p, !.tc = top, !.then = point]

\* p shrinks to nb units if the rest makes a chunk, which is then freed
KeepFirst(m, p, nb) ==
    IF m[p].size - nb < MINSIZE
    THEN /\ md' = SetInuse(m, p)
         /\ op' = [op EXCEPT !.at = "done", !.v = p]
    ELSE /\ md' = SetInuse(Carve(m, p, nb), p + nb)
         /\ op' = [FreeThen(p + nb, "done") EXCEPT !.v = p]

\* Mutant: the size of p is not updated.
ExtendedMutant(p, n) == Absorb(md, p, n)

\* p with the chunk n behind it
Extended(p, n) == [Absorb(md, p, n) EXCEPT ![p].size = md[p].size + md[n].size]

GotMalloc ==
    /\ At("got") /\ op.call = "malloc" /\ op.v # NULL
    /\ Give(op.v, op.nb, op.v)
    /\ op' = Idle
    /\ UNCHANGED <<heap, system, entering, retrying>>

GotNull ==
    /\ At("got") /\ op.v = NULL /\ op.call # "realloc"
    /\ op' = Idle
    /\ UNCHANGED <<heap, system, client>>

\* __libc_realloc asks for the chunk of NULL (chunkinfo2chunk) before it looks whether
\* it has one: an assertion or the load stops the process, unless the compiler drops
\* the load, whose result is not used; then the thread will try malloc.
GotReallocNull ==
    /\ At("got") /\ op.v = NULL /\ op.call = "realloc"
    /\ \/ GoTo("null_load") /\ UNCHANGED retrying
       \/ /\ op' = Idle
          /\ retrying' = retrying \cup {[blk |-> op.blk, want |-> op.want]}
    /\ UNCHANGED <<heap, system, held, entering>>

\* the new chunk is the next one: no copy
GotReallocNext ==
    /\ At("got") /\ op.call = "realloc" /\ op.v # NULL
    /\ op.v = md[op.blk].md_next
    /\ last_remainder' = Forget({op.v})
    /\ KeepFirst(Extended(op.blk, op.v), op.blk, op.want)
    /\ UNCHANGED <<bins, binmap, fastbins, have_fast, top, system, client>>

\* copied: the old chunk is freed
GotReallocMove ==
    /\ At("got") /\ op.call = "realloc" /\ op.v # NULL
    /\ op.v # md[op.blk].md_next
    /\ Give(op.v, op.want, op.blk)
    /\ op' = [FreeThen(op.blk, "done") EXCEPT !.v = NULL, !.blk = op.v]
    /\ UNCHANGED <<heap, system, entering, retrying>>

\* __libc_realloc called malloc itself and frees without the mutex
GotRetry ==
    /\ At("got") /\ op.call = "retry" /\ op.v # NULL
    /\ Give(op.v, op.want, op.blk)
    /\ entering' = entering \cup {[p |-> op.blk, tc |-> top]}
    /\ op' = Idle
    /\ UNCHANGED <<heap, system, retrying>>

\* give back the leader: at least MINSIZE, up to an aligned address
Leader ==
    LET lead == AlignUp(op.v, op.align) - op.v
    IN  IF lead < MINSIZE THEN lead + op.align ELSE lead

GotMemalign ==
    /\ At("got") /\ op.call = "memalign" /\ op.v # NULL
    /\ IF op.v % op.align = 0
       THEN GoTo("memalign_tail") /\ UNCHANGED md
       ELSE /\ md' = SetInuse(Carve(md, op.v, Leader), op.v + Leader)
            /\ op' = [FreeThen(op.v, "memalign_tail") EXCEPT !.v = op.v + Leader]
    /\ UNCHANGED <<bins, binmap, fastbins, have_fast, top, last_remainder, system, client>>

\* and the spare room at the end
MemalignTail ==
    /\ At("memalign_tail")
    /\ IF md[op.v].size <= op.want + MINSIZE
       THEN GoTo("done") /\ UNCHANGED md
       ELSE /\ md' = Carve(md, op.v, op.want)
            /\ op' = FreeThen(op.v + op.want, "done")
    /\ UNCHANGED <<bins, binmap, fastbins, have_fast, top, last_remainder, system, client>>

Done ==
    /\ At("done")
    /\ IF op.v = NULL THEN UNCHANGED held ELSE Give(op.v, op.want, op.v)
    /\ op' = Idle
    /\ UNCHANGED <<heap, system, entering, retrying>>

(***************************************************************************)
(* _int_realloc                                                            *)
(***************************************************************************)
ReallocNoMetadata ==
    /\ At("realloc")
    /\ op' = Idle
    /\ UNCHANGED <<heap, system, client>>

ReallocAborts ==
    \/ op.blk \notin DOMAIN md
    \/ md[op.blk].size = 0 \/ md[op.blk].size >= system_mem
    \/ md[op.blk].md_next \notin DOMAIN md
    \/ BadSize(md[op.blk].md_next) \/ md[md[op.blk].md_next].size >= system_mem

\* top moves along: p takes its first units, up to nb units in all
ToppedUp(m, p, t, nb) ==
    Register([Unregister(m, t) EXCEPT ![p].size = nb, ![p].md_next = p + nb],
             p + nb, [FreshTop(m[p].size + m[t].size - nb) EXCEPT !.md_prev = p])

GrowIntoTop(p) ==
    /\ md' = ToppedUp(md, p, top, op.nb)
    /\ top' = p + op.nb
    /\ last_remainder' = Forget({top})
    /\ op' = [op EXCEPT !.at = "done", !.v = p]
    /\ UNCHANGED bins

GrowIntoNext(p, next) ==
    /\ bins' = Unlink(bins, next)
    /\ last_remainder' = Forget({next})
    /\ KeepFirst(Extended(p, next), p, op.nb)
    /\ UNCHANGED top

Realloc ==
    /\ At("realloc")
    /\ IF ReallocAborts
       THEN Abort /\ UNCHANGED <<md, bins, top, last_remainder>>
       ELSE LET p    == op.blk
                next == md[p].md_next
                size == md[p].size + md[next].size
            IN  IF md[p].size >= op.nb
                THEN KeepFirst(md, p, op.nb) /\ UNCHANGED <<bins, top, last_remainder>>
                ELSE IF next = top /\ size >= op.nb + MINSIZE
                THEN GrowIntoTop(p)
                ELSE IF next # top /\ ~Inuse(md, next) /\ size >= op.nb
                THEN GrowIntoNext(p, next)
                ELSE GoTo("malloc") /\ UNCHANGED <<md, bins, top, last_remainder>>
    /\ UNCHANGED <<binmap, fastbins, have_fast, system, client>>

-----------------------------------------------------------------------------
Call ==
    \/ \E nb \in Requests : CallMalloc(nb)
    \/ \E p \in DOMAIN held : CallFree(p)
    \/ \E p \in DOMAIN held, nb \in Requests : CallRealloc(p, nb)
    \/ \E a \in Alignments, nb \in Requests : CallMemalign(a, nb)
    \/ \E pad \in Pads : CallTrim(pad)

Lock == (\E f \in entering : LockFree(f)) \/ (\E r \in retrying : LockRetry(r))

Step ==
    \/ NoMetadata \/ MallocFast \/ MallocSmall \/ MallocMiss
    \/ UnsortedRemainder \/ UnsortedNext \/ UnsortedDone
    \/ LargeFit \/ BinFit \/ BinNone
    \/ UseTop \/ TopConsolidate \/ TopTooSmall
    \/ SysExtend \/ SysSbrkRegion \/ SysSbrkNoncontiguous \/ SysMmapRegion
    \/ CheckTop \/ SysRefused \/ SysSplit \/ SysEnomem
    \/ Free \/ FreeTrim \/ ConsolidateNext \/ ConsolidateDone \/ Systrim
    \/ GotMalloc \/ GotNull \/ GotReallocNull \/ GotReallocNext \/ GotReallocMove
    \/ GotRetry \/ GotMemalign \/ MemalignTail \/ Done
    \/ ReallocNoMetadata \/ Realloc

\* nothing happens after the end of the process
Ended == Stopped /\ UNCHANGED vars

Next == Call \/ Lock \/ Step \/ Ended \/ \E k \in ForeignSteps : ForeignSbrk(k)

Spec == Init /\ [][Next]_vars

\* a thread in the allocator keeps running, and waits for the mutex at most
\* until it is released
Fairness == WF_vars(Step) /\ WF_vars(Lock)
FairSpec == Spec /\ Fairness

(***************************************************************************)
(* Properties.                                                             *)
(***************************************************************************)
Chunks   == DOMAIN md \ {InitialTop}
Units(p) == p .. p + md[p].size - 1
\* the chunks in the client's hands or in those of a routine
Live == DOMAIN held \cup {f.p : f \in entering} \cup ({op.v, op.p} \ {NULL})

Address == Int

\* The variables have the types of the structures they model.
TypeOK ==
    /\ DOMAIN md \subseteq Address /\ \A p \in DOMAIN md : md[p] \in Chunk
    /\ bins \in [BinIdx -> Seq(Address)]
    /\ binmap \subseteq BinIdx
    /\ fastbins \in [Smalls -> Seq(Address)]
    /\ {have_fast, contiguous, ragged} \subseteq BOOLEAN
    /\ {top, last_remainder} \subseteq Address
    /\ {brk, mmap_lo, system_mem} \subseteq Nat
    /\ sbrk_base \in Address /\ sbrk_regions \in Seq([lo : Int, hi : Int])
    /\ owned \subseteq Address /\ seams \subseteq Address
    /\ DOMAIN held \subseteq Address /\ \A p \in DOMAIN held : held[p] \in Nat
    /\ entering \subseteq [p : Address, tc : Address]
    /\ retrying \subseteq [blk : Address, want : Nat]
    /\ op \in [at : Points, call : Calls, nb : Nat, iters : Nat, v : Address,
              p : Address, tc : Address, then : Points, cont : Points,
              blk : Address, want : Nat, align : Nat, pad : Nat]

\* md_next and md_prev link the chunks in physical order, up to the top chunk; only
\* the last fencepost of a region is followed by a chunk that lies elsewhere.
Linked ==
    /\ top \in DOMAIN md /\ md[top].md_next = NULL
    /\ \A p \in Chunks \ {top} :
          /\ md[p].md_next \in Chunks
          /\ md[md[p].md_next].md_prev = p
          /\ p \notin seams => md[p].md_next = p + md[p].size
    /\ \A p \in Chunks :
          md[p].md_prev # NULL => md[p].md_prev \in Chunks /\ md[md[p].md_prev].md_next = p

\* The chunks never overlap, cover exactly the memory that the system gave, and are
\* linked in that order: every split, merge and fencepost updates three records. The
\* types hold too, which the lists and maps of the other conjuncts presuppose.
Tiling ==
    /\ TypeOK
    /\ \A p, q \in Chunks : p # q => Units(p) \cap Units(q) = {}
    /\ UNION {Units(p) : p \in Chunks} = owned
    /\ Linked

\* A chunk is in a bin exactly when the next one has PREV_INUSE clear, and then
\* prev_size of the next one is its size; and no chunk in a bin physically borders
\* another one, nor the top (malloc.c 1421).
BoundaryTags ==
    /\ \A p \in Chunks \ {top} :
          /\ p \in Binned <=> ~Inuse(md, p)
          /\ p \in Binned => md[md[p].md_next].prev_size = md[p].size
    /\ \A p \in Binned : md[p].prev_inuse /\ md[p].md_next # top
    /\ md[top].prev_inuse \/ top = InitialTop

\* Every chunk is in one place: in the bins or fastbins once, in the client's hands,
\* the top chunk, or too small for anything else.
OnePlace ==
    /\ \A i, j \in BinIdx : \A k \in DOMAIN bins[i], l \in DOMAIN bins[j] :
          bins[i][k] = bins[j][l] => i = j /\ k = l
    /\ \A s, t \in Smalls : \A k \in DOMAIN fastbins[s], l \in DOMAIN fastbins[t] :
          fastbins[s][k] = fastbins[t][l] => s = t /\ k = l
    /\ \A p \in Fast : md[p].size \in Smalls /\ p \in ToSet(fastbins[md[p].size])
    /\ Binned \cap Fast = {} /\ (Binned \cup Fast) \cap Live = {}
    /\ top \notin Binned \cup Fast \cup Live
    /\ Binned \cup Fast \cup Live \subseteq Chunks
    /\ \A p \in Chunks \ (Binned \cup Fast \cup Live \cup {top}) : md[p].size = 1

\* The bins hold chunks of their sizes, large ones by decreasing size, and a
\* nonempty bin is marked in binmap.
BinsInOrder ==
    \A i \in BinIdx \ {UNSORTED} :
        /\ bins[i] # <<>> => i \in binmap
        /\ \A k \in DOMAIN bins[i] : BinIndex(md[bins[i][k]].size) = i
        /\ \A k, l \in DOMAIN bins[i] :
              k < l => md[bins[i][k]].size >= md[bins[i][l]].size

\* Outside malloc_consolidate, chunks in the fastbins are announced by the flag.
FastKnown == Fast # {} => have_fast \/ op.at \in {"consolidate", "abort"}

\* The error checks of malloc, free and realloc never fire on correct calls, and the
\* assertions on the top chunk (malloc.c 2531 and 3251) fail only where a region was
\* begun at an unaligned break and the system refused the second sbrk that aligns its
\* end, or the heap was not contiguous any more.
NoAbort == ~At("abort") /\ (At("assert") => ragged)

\* As long as the break is contiguous, the top chunk ends at sbrk_base + system_mem
\* (malloc.c 2850); and as long as nobody else moved it and no mmap stood in for it,
\* lookup.c knows exactly the memory of the main arena, through every extension and
\* trim.  After that it may not: a foreign sbrk is counted by system_mem, but not by
\* the end of the region in lookup.c (malloc.c 3450 and 3504).
RegionsCoverHeap ==
    contiguous =>
        /\ top # InitialTop => InitialBrk + system_mem = top + md[top].size
        /\ seams = {} => owned = UNION {r.lo .. r.hi - 1 : r \in ToSet(sbrk_regions)}

\* malloc.c 4859: the chunk taken from the bins is the smallest one that fits.
BestFit ==
    [][At("fit") /\ op'.at = "got" =>
        \A i \in BinIdx \ {UNSORTED} : \A u \in ToSet(bins[i]) :
            md[u].size >= op.nb => md[op'.v].size <= md[u].size]_vars

\* malloc.c 5331: a freed chunk becomes the top chunk if it borders the current one.
JoinsCurrentTop ==
    [][At("free") /\ top' # top => md[op.p].md_next = top]_vars

\* Every call returns, and every free and retried realloc gets the mutex, unless an
\* assertion or the load of NULL in realloc stops the process.
CallsReturn ==
    (~At("idle") \/ entering \cup retrying # {})
        ~> \/ At("idle") /\ entering \cup retrying = {}
           \/ op.at \in {"assert", "null_load"}

\* A block that realloc keeps in place has its new size once its chunk has.
Blocks == [p \in DOMAIN held |-> IF p = op.v THEN op.want ELSE held[p]]

\* The blocks of the client are what an allocator promises.
Abstract == INSTANCE Allocator WITH
    live <- Blocks, memory <- owned,
    Addresses <- NULL .. MmapTop, Sizes <- Requests
IsAllocator == Abstract!Spec

=============================================================================
