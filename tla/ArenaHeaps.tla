------------------------------- MODULE ArenaHeaps -------------------------------
(***************************************************************************)
(* The heaps of an arena that is not the main one: HEAP_MAX_SIZE-aligned   *)
(* mappings, of which the newest holds the top chunk and the older ones    *)
(* end in two fenceposts.  sysmalloc extends the newest heap or starts     *)
(* another one (malloc.c), heap_trim deletes and shrinks heaps again       *)
(* (arena.c).                                                              *)
(*                                                                         *)
(* The arena's mutex is held throughout: an action is a whole malloc or    *)
(* free, but for heap_trim, whose loop takes one step per heap.  Which     *)
(* free chunk malloc picks is left open, and there are no fastbins, as     *)
(* after mallopt (M_MXFAST, 0): ChunkHeap has both in detail.              *)
(*                                                                         *)
(* Addresses and sizes count units of MALLOC_ALIGNMENT = 2 * SIZE_SZ.      *)
(***************************************************************************)
EXTENDS Integers, FiniteSets, FiniteSetsExt

CONSTANTS
    Requests,             \* chunk sizes asked for, after request2size
    HEAP_MIN_SIZE,
    HEAP_MAX_SIZE,
    MaxHeaps,             \* bound on the number of heaps: no room for more
    HeapInfo,             \* sizeof (heap_info)
    ArenaState,           \* sizeof (struct malloc_state), in the first heap
    PageSize,             \* GLRO (dl_pagesize)
    TopPad,               \* mp_.top_pad
    TrimThreshold,        \* mp_.trim_threshold
    ConsolidateThreshold  \* FASTBIN_CONSOLIDATION_THRESHOLD

MINSIZE == 2
Nil     == 0         \* NULL: neither a heap nor a chunk is there

AlignUp(n, a)   == n + (-n % a)
AlignDown(n, a) == n - (n % a)

ASSUME HeapsAssumption ==
    /\ \A n \in Requests : n \in Nat /\ n >= MINSIZE
    /\ PageSize \in Nat /\ PageSize > MINSIZE
    /\ HEAP_MIN_SIZE \in Nat /\ HEAP_MIN_SIZE % PageSize = 0
    /\ HEAP_MAX_SIZE \in Nat /\ HEAP_MAX_SIZE % PageSize = 0
    /\ MaxHeaps \in Nat \ {0} /\ HeapInfo \in Nat \ {0} /\ ArenaState \in Nat \ {0}
    /\ TopPad \in Nat /\ TrimThreshold \in Nat /\ ConsolidateThreshold \in Nat
    /\ HeapInfo + ArenaState + MINSIZE <= HEAP_MIN_SIZE /\ HEAP_MIN_SIZE <= HEAP_MAX_SIZE

VARIABLES
    heaps,      \* the heaps: base address -> heap_info
    md,         \* the registered chunks: address -> metadata record
    binned,     \* the free chunks, in some bin
    top,        \* the chunk of av->_md_top
    system_mem, \* av->system_mem
    held,       \* the chunks the program holds
    op          \* heap_trim in progress: the heap it looks at, or Nil

heapsVars == <<heaps, md, binned, top, system_mem, held, op>>

Bases == {HEAP_MAX_SIZE * i : i \in 1 .. MaxHeaps}
FirstHeap == HEAP_MAX_SIZE
HeapForPtr(p) == AlignDown(p, HEAP_MAX_SIZE)
Start(h) == h + HeapInfo + (IF h = FirstHeap THEN ArenaState ELSE 0)
End(h)   == h + heaps[h].size

(***************************************************************************)
(* Chunks: the helpers of malloc.c over metadata m                         *)
(***************************************************************************)
Chunk(n, prev, next) ==
    [size |-> n, prev_inuse |-> TRUE, prev_size |-> 0, md_prev |-> prev, md_next |-> next]

\* a table m, of chunks or of heaps, with the record c at p, and without the one at p
Register(m, p, c) == [x \in DOMAIN m \union {p} |-> IF x = p THEN c ELSE m[x]]
Without(m, p) == [x \in DOMAIN m \ {p} |-> m[x]]
SetHead(m, p, n) == [m EXCEPT ![p].size = n, ![p].prev_inuse = TRUE, ![p].prev_size = 0]
SetFoot(m, p)    == [m EXCEPT ![m[p].md_next].prev_size = m[p].size]

\* Mutant: the allocated chunk stays marked free.
SetInuseMutant(m, p) == m

SetInuse(m, p)   == [m EXCEPT ![m[p].md_next].prev_inuse = TRUE, ![m[p].md_next].prev_size = 0]
\* Mutant: md_prev of the next chunk is not set.
LinkMutant(m, p, n) == [m EXCEPT ![p].md_next = n]

LinkChunks(m, p, n) == IF n = Nil THEN [m EXCEPT ![p].md_next = Nil]
                                   ELSE [m EXCEPT ![p].md_next = n, ![n].md_prev = p]

\* p keeps nb units, the rest becomes a chunk behind it
Carve(m, p, nb) ==
    LET r == p + nb
        n == m[p].md_next
    IN  LinkChunks(LinkChunks(Register([m EXCEPT ![p].size = nb], r,
                                   Chunk(m[p].size - nb, p, n)), p, r), r, n)

(***************************************************************************)
(* _int_free, for a chunk that is not the last one before the top chunk t  *)
(* or is: what becomes of the records, the bins, the top and the size.     *)
(***************************************************************************)
MergeBack(m, b, p) ==
    IF m[p].prev_inuse
    THEN [md |-> m, binned |-> b, p |-> p, size |-> m[p].size]
    ELSE LET q == m[p].md_prev
         IN  [md |-> Without(LinkChunks(m, q, m[p].md_next), p), binned |-> b \ {q}, p |-> q,
              size |-> m[p].size + m[p].prev_size]

IsInuse(m, p) == m[m[p].md_next].prev_inuse

Freed(m, b, t, p) ==
    LET n == m[p].md_next
        f == MergeBack(m, b, p)
    IN  IF n = t
        THEN [md |-> SetHead(Without([f.md EXCEPT ![f.p].md_next = Nil], t), f.p,
                             f.size + m[t].size),
              binned |-> f.binned, top |-> f.p, size |-> f.size + m[t].size]
        ELSE IF IsInuse(m, n)
        THEN LET marked == SetHead([f.md EXCEPT ![n].prev_inuse = FALSE], f.p, f.size)
             IN  [md |-> SetFoot(marked, f.p), binned |-> f.binned \union {f.p}, top |-> t,
                  size |-> f.size]
        ELSE LET merged == Without(LinkChunks(f.md, f.p, m[n].md_next), n)
                 size == f.size + m[n].size
             IN  [md |-> SetFoot(SetHead(merged, f.p, size), f.p),
                  binned |-> (f.binned \ {n}) \union {f.p}, top |-> t, size |-> size]

\* the checks of _int_free on the chunk behind
FreeAborts(p) ==
    LET n == md[p].md_next IN ~md[n].prev_inuse \/ md[n].size = 0 \/ md[n].size >= system_mem

(***************************************************************************)
(* new_heap                                                                *)
(***************************************************************************)

\* the size a heap gets for a request; 0 when it is too large
HeapSize(size) ==
    AlignUp(IF size + TopPad < HEAP_MIN_SIZE THEN HEAP_MIN_SIZE
            ELSE IF size + TopPad <= HEAP_MAX_SIZE THEN size + TopPad
            ELSE IF size > HEAP_MAX_SIZE THEN 0 ELSE HEAP_MAX_SIZE, PageSize)

\* mprotect_size is what the code believes to be accessible, access what is
Heap(size, prev) ==
    [size |-> size, mprotect_size |-> size, access |-> size, prev |-> prev]

\* _int_new_arena
HeapsInit ==
    LET size == HeapSize(HeapInfo + ArenaState + 1)
        p == Start(FirstHeap)
    IN  /\ heaps = [h \in {FirstHeap} |-> Heap(size, Nil)]
        /\ md = [x \in {p} |-> Chunk(FirstHeap + size - p, Nil, Nil)]
        /\ top = p
        /\ system_mem = size
        /\ binned = {} /\ held = {} /\ op = Nil

(***************************************************************************)
(* malloc                                                                  *)
(***************************************************************************)
Fits(nb) == {p \in binned : md[p].size >= nb}

\* _int_malloc takes a free chunk, and splits it if the rest is a chunk
MallocFit(nb) ==
    /\ op = Nil
    /\ \E p \in Fits(nb) :
          IF md[p].size < nb + MINSIZE
          THEN /\ md' = SetInuse(md, p)
               /\ binned' = binned \ {p}
               /\ held' = held \union {p}
          ELSE /\ md' = SetFoot(Carve(md, p, nb), p + nb)
               /\ binned' = (binned \ {p}) \union {p + nb}
               /\ held' = held \union {p}
    /\ UNCHANGED <<heaps, top, system_mem, op>>

\* use_top, and the end of sysmalloc
SplitTop(m, t, nb) ==
    /\ md' = Carve(m, t, nb)
    /\ top' = t + nb
    /\ held' = held \union {t}

MallocTop(nb) ==
    /\ op = Nil /\ Fits(nb) = {}
    /\ md[top].size >= nb + MINSIZE
    /\ SplitTop(md, top, nb)
    /\ UNCHANGED <<heaps, binned, system_mem, op>>

\* sysmalloc's precondition: not enough space to satisfy the request
NoRoom(nb) == op = Nil /\ Fits(nb) = {} /\ md[top].size < nb + MINSIZE

\* grow_heap
GrownSize(nb) ==
    heaps[HeapForPtr(top)].size + AlignUp(MINSIZE + nb - md[top].size, PageSize)

GrowHeap(nb) ==
    /\ NoRoom(nb) /\ GrownSize(nb) <= HEAP_MAX_SIZE
    /\ LET h == HeapForPtr(top)
           new_size == GrownSize(nb)
       IN  /\ heaps' = [heaps EXCEPT
                ![h].size = new_size,
                ![h].mprotect_size = IF new_size > @ THEN new_size ELSE @,
                ![h].access = IF new_size > heaps[h].mprotect_size THEN new_size ELSE @]
           /\ system_mem' = system_mem + new_size - heaps[h].size
           /\ SplitTop(SetHead(md, top, h + new_size - top), top, nb)
    /\ UNCHANGED <<binned, op>>

\* The old top chunk ends in fenceposts: the last one of size 0, and before it one
\* that keeps a multiple of the alignment in front of it, or the old top itself
\* when it is too short.  They take MINSIZE units, to become a top chunk again.
Fenced(m, t) ==
    LET old_size == m[top].size - MINSIZE
        f0 == top + old_size + 1
        f1 == top + old_size
        withTop == LinkChunks(LinkChunks(Register(m, f0, Chunk(0, top, t)), top, f0), f0, t)
    IN  IF old_size >= MINSIZE
        THEN SetHead(LinkChunks(LinkChunks(Register(withTop, f1, Chunk(1, top, f0)), f1, f0),
                                top, f1), top, old_size)
        ELSE [withTop EXCEPT ![top].size = old_size + 1]

\* A new heap.  When the old top is long enough it is freed, without trimming.
\* grow_heap may have failed because mprotect did.
AddHeap(nb) ==
    LET size == HeapSize(nb + MINSIZE + HeapInfo)
        free == Bases \ DOMAIN heaps
        h    == Min(free)
        t    == h + HeapInfo
        m    == Fenced(Register(md, t, Chunk(size - HeapInfo, Nil, Nil)), t)
    IN  /\ NoRoom(nb) /\ size # 0 /\ free # {}
        /\ heaps' = Register(heaps, h, Heap(size, HeapForPtr(top)))
        /\ system_mem' = system_mem + size
        /\ IF md[top].size - MINSIZE >= MINSIZE
           THEN LET f == Freed(m, binned, t, top)
                IN  SplitTop(f.md, t, nb) /\ binned' = f.binned
           ELSE SplitTop(m, t, nb) /\ UNCHANGED binned
        /\ UNCHANGED op

(***************************************************************************)
(* free                                                                    *)
(***************************************************************************)
\* a large free chunk makes _int_free look at the heap of the top chunk it found
Free(p) ==
    /\ op = Nil /\ p \in held /\ ~FreeAborts(p)
    /\ LET f == Freed(md, binned, top, p)
       IN  /\ md' = f.md /\ binned' = f.binned /\ top' = f.top
           /\ op' = IF f.size >= ConsolidateThreshold THEN HeapForPtr(top) ELSE Nil
    /\ held' = held \ {p}
    /\ UNCHANGED <<heaps, system_mem>>

(***************************************************************************)
(* heap_trim                                                               *)
(***************************************************************************)
Prev         == heaps[op].prev

\* Mutant: the fencepost is looked for where a whole smallest chunk begins.
FencepostMutant == Prev + heaps[Prev].size - MINSIZE

Fencepost    == Prev + heaps[Prev].size - (MINSIZE - 1)
BeforePost   == md[Fencepost].md_prev
Shortened    == md[BeforePost].size + (MINSIZE - 1)

\* what the assertions of the loop say, and the lookup of the fencepost
Sane ==
    /\ Prev # Nil /\ Fencepost \in DOMAIN md
    /\ md[Fencepost].size = 0 /\ md[Fencepost].prev_inuse
    /\ Fencepost = md[top].md_prev
    /\ Shortened > 0 /\ Shortened < 2 * MINSIZE

EmptyHeap == op # Nil /\ top = op + HeapInfo

NewTopSize == MergeBack(md, binned, BeforePost).size + (MINSIZE - 1)

\* the room the heap before would have for its top chunk is too little
Keeps == NewTopSize + (HEAP_MAX_SIZE - heaps[Prev].size) < TopPad + MINSIZE + PageSize

\* the newest heap is empty and goes; the end of the one before is the top again
DeleteHeap ==
    /\ EmptyHeap /\ Sane /\ ~Keeps
    /\ LET next == md[top].md_next
           m == Without(Without(LinkChunks(md, BeforePost, top), Fencepost), top)
           f == MergeBack([m EXCEPT ![BeforePost].md_next = next], binned, BeforePost)
       IN  /\ md' = SetHead(f.md, f.p, f.size + (MINSIZE - 1))
           /\ binned' = f.binned
           /\ top' = f.p
    /\ system_mem' = system_mem - heaps[op].size
    /\ heaps' = Without(heaps, op)
    /\ op' = Prev
    /\ UNCHANGED held

\* whole pages of the top chunk, a byte more than MINSIZE and the pad being kept
Extra == AlignDown(md[top].size - MINSIZE - TopPad - 1, PageSize)

Shrinks ==
    /\ md[top].size >= TrimThreshold
    /\ md[top].size - MINSIZE > TopPad
    /\ Extra > 0
    /\ heaps[op].size - Extra >= HeapInfo

LoopEnds == op # Nil /\ (EmptyHeap => Sane /\ Keeps)

\* Mutant: mprotect_size is not lowered.
ShrinkHeapMutant ==
    /\ LoopEnds /\ Shrinks
    /\ LET new_size == heaps[op].size - Extra
       IN  heaps' = [heaps EXCEPT ![op].size = new_size, ![op].access = new_size]
    /\ system_mem' = system_mem - Extra
    /\ md' = SetHead(md, top, md[top].size - Extra)
    /\ op' = Nil
    /\ UNCHANGED <<binned, top, held>>

\* The last pages are given back: mapped afresh, without access, where the process
\* may not trust them (check_may_shrink_heap), advised away otherwise.
ShrinkHeap ==
    /\ LoopEnds /\ Shrinks
    /\ LET new_size == heaps[op].size - Extra
       IN  \/ heaps' = [heaps EXCEPT ![op].size = new_size, ![op].mprotect_size = new_size,
                                     ![op].access = new_size]
           \/ heaps' = [heaps EXCEPT ![op].size = new_size]
    /\ system_mem' = system_mem - Extra
    /\ md' = SetHead(md, top, md[top].size - Extra)
    /\ op' = Nil
    /\ UNCHANGED <<binned, top, held>>

TrimDone ==
    /\ LoopEnds /\ ~Shrinks
    /\ op' = Nil
    /\ UNCHANGED <<heaps, md, binned, top, system_mem, held>>

(***************************************************************************)
(* Specification                                                           *)
(***************************************************************************)
Malloc(nb) == MallocFit(nb) \/ MallocTop(nb) \/ GrowHeap(nb) \/ AddHeap(nb)
Trim == DeleteHeap \/ ShrinkHeap \/ TrimDone

HeapsNext ==
    \/ \E nb \in Requests : Malloc(nb)
    \/ \E p \in held : Free(p)
    \/ Trim

HeapsSpec == HeapsInit /\ [][HeapsNext]_heapsVars

(***************************************************************************)
(* Properties                                                              *)
(***************************************************************************)
Total(hs) == MapThenSumSet(LAMBDA h : hs[h].size, DOMAIN hs)

\* The variables hold values of their types, and av->system_mem, against which
\* _int_free checks sizes, is the total of the heaps as they come, grow and go.
HeapsTypeOK ==
    /\ DOMAIN heaps \subseteq Bases
    /\ \A h \in DOMAIN heaps :
          /\ heaps[h].size \in HeapInfo .. HEAP_MAX_SIZE /\ heaps[h].size % PageSize = 0
          /\ heaps[h].prev \in DOMAIN heaps \union {Nil}
    /\ top \in DOMAIN md
    /\ binned \subseteq DOMAIN md /\ held \subseteq DOMAIN md
    /\ \A p \in DOMAIN md : /\ md[p].size \in Nat /\ md[p].prev_inuse \in BOOLEAN
                            /\ {md[p].md_next, md[p].md_prev} \subseteq DOMAIN md \union {Nil}
    /\ op \in DOMAIN heaps \union {Nil}
    /\ system_mem = Total(heaps)

\* the units of a chunk; the last fencepost, of size 0, has one
Units(p) == p .. p + (IF md[p].size = 0 THEN 1 ELSE md[p].size) - 1

\* The links order the chunks by address within a heap and run from the last
\* fencepost of a heap to the first chunk of the next one; the top chunk is the last.
Linked ==
    /\ \A p \in DOMAIN md :
          LET n == md[p].md_next IN
            /\ (n = Nil) <=> (p = top)
            /\ n # Nil => /\ md[n].md_prev = p
                           /\ n = IF md[p].size = 0
                                  THEN Start(CHOOSE h \in DOMAIN heaps : heaps[h].prev = HeapForPtr(p))
                                  ELSE p + md[p].size
    /\ HeapForPtr(top) \notin {heaps[h].prev : h \in DOMAIN heaps}

\* The chunks of each heap tile it from the end of its header to its size, linked in
\* order, and what was given back to the system lies in none: new_heap, grow_heap, the
\* fenceposts of sysmalloc and heap_trim's return to the heap before agree. The sizes of
\* heaps, and what the arena counts of them, agree too (HeapsTypeOK).
Tiling ==
    /\ HeapsTypeOK
    /\ \A h \in DOMAIN heaps :
          UNION {Units(p) : p \in {q \in DOMAIN md : HeapForPtr(q) = h}} = Start(h) .. End(h) - 1
    /\ \A p, q \in DOMAIN md : p # q => Units(p) \intersect Units(q) = {}
    /\ Linked

\* A chunk's PREV_INUSE bit is clear exactly when the chunk before is free, across
\* fenceposts and heaps too, and then its prev_size says how long that one is.
\* Free chunks touch neither each other nor the top.
BoundaryTags ==
    \A p \in DOMAIN md : p # top =>
        LET n == md[p].md_next IN
            /\ md[n].prev_inuse <=> p \notin binned
            /\ p \in binned => md[n].prev_size = md[p].size /\ n # top /\ n \notin binned

\* What the program holds is accessible memory of a heap, and mprotect_size, from
\* which grow_heap decides whether it must call mprotect, is never more than the
\* kernel allows.
Accessible ==
    \A h \in DOMAIN heaps : heaps[h].mprotect_size <= heaps[h].access /\ heaps[h].size <= heaps[h].access

\* The assertions of heap_trim and the checks of _int_free hold: the fenceposts of
\* the heap before are where heap_trim looks for them, however heaps grew and shrank.
NoAbort ==
    /\ EmptyHeap => Sane
    /\ op = Nil => \A p \in held : ~FreeAborts(p)
================================================================================
