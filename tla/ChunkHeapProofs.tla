--------------------------- MODULE ChunkHeapProofs ---------------------------
(***************************************************************************)
(* The fastbin flag: malloc_consolidate and _int_malloc skip the fastbins  *)
(* when have_fastchunks(av) is false, so the flag must never be false      *)
(* while a fastbin holds a chunk, whatever the sizes and the thresholds,   *)
(* and whatever the number of threads.                                     *)
(***************************************************************************)
EXTENDS LayoutProofs

\* Inductive: FastKnown in terms of the fastbins that are not empty, with the
\* domains that the updates need.
FlagInv ==
    /\ DOMAIN fastbins = Smalls
    /\ DOMAIN op = DOMAIN Idle
    /\ FilledFastbins # {} => have_fast \/ op.at \in {"consolidate", "abort"}

LEMMA FilledIsFast == Fast # {} => FilledFastbins # {}
<1> SUFFICES ASSUME NEW s \in Smalls, NEW v \in ToSet(fastbins[s])
             PROVE  fastbins[s] # <<>>
  BY DEF Fast, FilledFastbins
<1> QED BY DEF ToSet

LEMMA FlagInvInit == Init => FlagInv
BY DEF Init, FlagInv, FilledFastbins, Idle

\* The steps that leave the fastbins and the flag alone, from a point where no
\* consolidation runs.
LEMMA FlagQuiet ==
    ASSUME FlagInv, UNCHANGED <<fastbins, have_fast>>, DOMAIN op' = DOMAIN Idle,
           ~At("consolidate"), ~At("abort")
    PROVE  FlagInv'
BY DEF FlagInv, FilledFastbins, At

LEMMA FlagInvStep == FlagInv /\ [Next]_vars => FlagInv'
<1> SUFFICES ASSUME FlagInv, [Next]_vars PROVE FlagInv'
  OBVIOUS
<1> USE DEF At, GoTo, Got, Abort, Idle, heap, system, client
<1>1. CASE UNCHANGED vars
  BY <1>1 DEF vars, FlagInv, FilledFastbins
<1>2. CASE Call
  <2>1. ASSUME NEW nb \in Requests, CallMalloc(nb) PROVE FlagInv'
    BY <2>1, FlagQuiet DEF CallMalloc
  <2>2. ASSUME NEW p \in DOMAIN held, CallFree(p) PROVE FlagInv'
    BY <2>2 DEF CallFree, FlagInv, FilledFastbins
  <2>3. ASSUME NEW p \in DOMAIN held, NEW nb \in Requests, CallRealloc(p, nb)
        PROVE  FlagInv'
    BY <2>3, FlagQuiet DEF CallRealloc
  <2>4. ASSUME NEW a \in Alignments, NEW nb \in Requests, CallMemalign(a, nb)
        PROVE  FlagInv'
    BY <2>4, FlagQuiet DEF CallMemalign
  <2>5. ASSUME NEW pad \in Pads, CallTrim(pad) PROVE FlagInv'
    BY <2>5 DEF CallTrim, FlagInv, FilledFastbins
  <2> QED BY <1>2, <2>1, <2>2, <2>3, <2>4, <2>5 DEF Call
<1>3. CASE Lock
  <2>1. ASSUME NEW f \in entering, LockFree(f) PROVE FlagInv'
    BY <2>1, FlagQuiet DEF LockFree
  <2>2. ASSUME NEW r \in retrying, LockRetry(r) PROVE FlagInv'
    BY <2>2, FlagQuiet DEF LockRetry
  <2> QED BY <1>3, <2>1, <2>2 DEF Lock
<1>4. ASSUME NEW k \in ForeignSteps, ForeignSbrk(k) PROVE FlagInv'
  BY <1>4 DEF ForeignSbrk, FlagInv, FilledFastbins
<1>5. CASE Step
  <2>1. CASE NoMetadata
    BY <2>1, FlagQuiet DEF NoMetadata, FlagInv
  <2>2. CASE MallocSmall
    BY <2>2, FlagQuiet DEF MallocSmall, FlagInv
  <2>3. CASE UnsortedRemainder
    BY <2>3, FlagQuiet DEF UnsortedRemainder, TakeFree, FlagInv
  <2>4. CASE UnsortedNext
    BY <2>4, FlagQuiet DEF UnsortedNext, FlagInv
  <2>5. CASE UnsortedDone
    BY <2>5, FlagQuiet DEF UnsortedDone, FlagInv
  <2>6. CASE LargeFit
    BY <2>6, FlagQuiet DEF LargeFit, FlagInv
  <2>7. CASE BinFit
    BY <2>7, FlagQuiet DEF BinFit, FlagInv
  <2>8. CASE BinNone
    BY <2>8, FlagQuiet DEF BinNone, FlagInv
  <2>9. CASE UseTop
    BY <2>9, FlagQuiet DEF UseTop, SplitTop, FlagInv
  <2>10. CASE TopTooSmall
    BY <2>10, FlagQuiet DEF TopTooSmall, FlagInv
  <2>11. CASE SysExtend
    BY <2>11, FlagQuiet DEF SysExtend, FlagInv
  <2>12. CASE SysSbrkRegion
    BY <2>12, FlagQuiet DEF SysSbrkRegion, NewTop, BreakLowered, FlagInv
  <2>13. CASE SysSbrkNoncontiguous
    BY <2>13, FlagQuiet DEF SysSbrkNoncontiguous, NewTop, FlagInv
  <2>14. CASE SysMmapRegion
    BY <2>14, FlagQuiet DEF SysMmapRegion, NewTop, FlagInv
  <2>15. CASE SysRefused
    BY <2>15, FlagQuiet DEF SysRefused, FlagInv
  <2>16. CASE SysSplit
    BY <2>16, FlagQuiet DEF SysSplit, SplitTop, FlagInv
  <2>17. CASE SysEnomem
    BY <2>17, FlagQuiet DEF SysEnomem, FlagInv
  <2>18. CASE FreeTrim
    BY <2>18, FlagQuiet DEF FreeTrim, FlagInv
  <2>19. CASE Systrim
    BY <2>19, FlagQuiet DEF Systrim, FlagInv
  <2>20. CASE GotMalloc
    BY <2>20, FlagQuiet DEF GotMalloc, FlagInv
  <2>21. CASE GotNull
    BY <2>21, FlagQuiet DEF GotNull, FlagInv
  <2>22. CASE GotReallocNext
    BY <2>22, FlagQuiet DEF GotReallocNext, KeepFirst, FreeThen, FlagInv
  <2>23. CASE GotReallocMove
    BY <2>23, FlagQuiet DEF GotReallocMove, FreeThen, FlagInv
  <2>24. CASE GotRetry
    BY <2>24, FlagQuiet DEF GotRetry, FlagInv
  <2>25. CASE GotMemalign
    BY <2>25, FlagQuiet DEF GotMemalign, FreeThen, FlagInv
  <2>26. CASE MemalignTail
    BY <2>26, FlagQuiet DEF MemalignTail, FreeThen, FlagInv
  <2>27. CASE Done
    BY <2>27, FlagQuiet DEF Done, FlagInv
  <2>28. CASE ReallocNoMetadata
    BY <2>28, FlagQuiet DEF ReallocNoMetadata, FlagInv
  <2>29. CASE Realloc
    BY <2>29, FlagQuiet DEF Realloc, KeepFirst, FreeThen, GrowIntoTop, GrowIntoNext, FlagInv
  <2>30. CASE MallocFast
    BY <2>30 DEF MallocFast, FastHit, FlagInv, FilledFastbins
  <2>31. CASE MallocMiss
    BY <2>31 DEF MallocMiss, Consolidate, FlagInv, FilledFastbins
  <2>32. CASE TopConsolidate
    BY <2>32 DEF TopConsolidate, Consolidate, FlagInv, FilledFastbins
  <2>33. CASE Free
    BY <2>33 DEF Free, FreeFast, FreeMerge, Return, FlagInv, FilledFastbins
  <2>34. CASE ConsolidateNext
    BY <2>34 DEF ConsolidateNext, FlagInv
  <2>35. CASE ConsolidateDone
    BY <2>35 DEF ConsolidateDone, FlagInv, FilledFastbins
  <2>36. CASE CheckTop
    BY <2>36, FlagQuiet DEF CheckTop, FlagInv
  <2>37. CASE GotReallocNull
    BY <2>37, FlagQuiet DEF GotReallocNull, FlagInv
  <2> QED BY <1>5, <2>1, <2>2, <2>3, <2>4, <2>5, <2>6, <2>7, <2>8, <2>9, <2>10, <2>11, <2>12, <2>13, <2>14, <2>15, <2>16, <2>17, <2>18, <2>19, <2>20, <2>21, <2>22, <2>23, <2>24, <2>25, <2>26, <2>27, <2>28, <2>29, <2>30, <2>31, <2>32, <2>33, <2>34, <2>35, <2>36, <2>37 DEF Step
<1>6. CASE Ended
  BY <1>1, <1>6 DEF Ended
<1> QED BY <1>1, <1>2, <1>3, <1>4, <1>5, <1>6 DEF Next

\* The flag is set whenever a fastbin holds a chunk, except while malloc_consolidate
\* empties them (or after it aborted): malloc.c 1617, have_fastchunks.
THEOREM FastbinsAnnounced == Spec => []FastKnown
<1>1. FlagInv => FastKnown
  BY FilledIsFast DEF FlagInv, FastKnown
<1> QED BY <1>1, FlagInvInit, FlagInvStep, PTL DEF Spec

(***************************************************************************)
(* The heap of a program with one thread.                                  *)
(*                                                                         *)
(* The invariant says where every chunk is and what its tags say, which    *)
(* memory the system has given, and what the call in progress knows: what  *)
(* it looks for, which chunk it has taken and how large that one is.       *)
(***************************************************************************)
OpType == [at : Points, call : Calls, nb : Nat, iters : Nat, v : Int, p : Int, tc : Int,
           then : Points, cont : Points, blk : Int, want : Nat, align : Nat, pad : Nat]

Mallocing == {"malloc", "unsorted", "fit", "top", "sys", "sys_done"}

\* _int_free, systrim, or the consolidation before them
Freeing(r) == r.at \in {"free", "trim_check", "systrim"}
              \/ (r.at = "consolidate" /\ r.cont # "unsorted")

\* where the call goes on afterwards
Dest(r) == IF Freeing(r) THEN r.then
           ELSE IF r.at = "consolidate" THEN "unsorted" ELSE r.at

\* what the call of malloc, realloc or memalign asks for
Asks(r, H) ==
    \/ r.call = "malloc" /\ r.nb \in Requests
    \/ r.call \in {"realloc", "retry"} /\ r.blk \in H /\ r.want \in Requests
       /\ r.nb = r.want
    \/ r.call = "memalign" /\ r.want \in Requests /\ r.align \in Alignments
       /\ r.nb = r.want + r.align + MINSIZE

\* The call in progress, when the blocks of H are live and t is the top chunk
OpKnown(r, H, t) ==
    /\ r \in OpType /\ r.at # "abort"
    /\ r.at = "idle" => r = Idle
    /\ r.at = "consolidate" => r.cont \in {"unsorted", "trim_check", "systrim"}
    /\ Freeing(r) => r.then \in {"sys_done", "memalign_tail", "done"}
    /\ r.p # NULL <=> r.at = "free"
    /\ r.at = "free" => r.p # r.v /\ r.tc = t /\ r.p \notin H
    /\ Dest(r) \in Mallocing \cup {"realloc", "assert", "null_load"} => r.v = NULL
    /\ Dest(r) \in Mallocing \cup {"realloc", "got"} => Asks(r, H)
    /\ Dest(r) = "realloc" => r.call = "realloc"
    /\ Dest(r) = "got" => r.v \notin H
    /\ Dest(r) = "memalign_tail" => r.v # NULL /\ r.v \notin H /\ r.want \in Requests
    /\ Dest(r) = "done" => r.v = NULL \/ r.want \in Requests

\* The live blocks h fit in their chunks, and the chunk taken is large enough.
Fits(r, m, h) ==
    /\ \A q \in DOMAIN h : h[q] \in Requests /\ (q # r.v => h[q] <= m[q].size)
    /\ r.v # NULL => m[r.v].size >= IF Dest(r) = "got" THEN r.nb ELSE r.want

\* The thread waits for the mutex at most once, and is in no routine then.
Clients(e, y, H, t, r) ==
    /\ IsFiniteSet(e) /\ IsFiniteSet(y)
    /\ e \cup y # {} => r = Idle
    /\ e = {} \/ y = {}
    /\ \A f \in e : /\ f \in [p : Int, tc : Int] /\ f.tc = t /\ f.p \notin H
                    /\ \A g \in e : g = f
    /\ \A f \in y : /\ f \in [blk : Int, want : Nat] /\ f.blk \in H /\ f.want \in Requests
                    /\ \A g \in y : g = f

\* nothing has been obtained from the system
AtStart ==
    /\ contiguous /\ brk = InitialBrk /\ system_mem = 0 /\ sbrk_base = NULL /\ seams = {}
    /\ sbrk_regions = <<[lo |-> 0, hi |-> 0]>>

\* The memory is contiguous: the top chunk is the last one, and ends where the memory
\* that is counted ends.
InOneRegion ==
    /\ \A c \in ChunksOf(md) : c <= top
    /\ InitialBrk + system_mem = top + md[top].size
    /\ top + md[top].size <= brk
    /\ sbrk_base # NULL /\ Len(sbrk_regions) = 1
    /\ seams = {} => /\ sbrk_regions[1] = [lo |-> InitialBrk, hi |-> InitialBrk + system_mem]
                     /\ owned = InitialBrk .. InitialBrk + system_mem - 1

\* sys_MMAP gives whole pages, and the top chunk ends with a page, except in the
\* regions that are known not to.
Paged ==
    /\ mmap_lo % PageSize = 0 /\ ragged \in BOOLEAN
    /\ ~ragged /\ top # InitialTop => (top + md[top].size) % PageSize = 0

MemoryInv ==
    /\ Paged
    /\ Within(owned, system_mem)
    /\ \A x \in owned : (x < brk \/ x >= mmap_lo) /\ x < MmapTop
    /\ brk \in Nat /\ mmap_lo \in Nat /\ brk <= SbrkLimit /\ SbrkLimit <= mmap_lo
    /\ mmap_lo <= MmapTop
    /\ contiguous \in BOOLEAN /\ sbrk_base \in Int
    /\ sbrk_regions \in Seq([lo : Int, hi : Int]) /\ Len(sbrk_regions) >= 1
    /\ top = InitialTop => AtStart
    /\ contiguous /\ top # InitialTop => InOneRegion

SizedLists(f, m) == \A s \in Smalls : \A k \in DOMAIN f[s] : m[f[s][k]].size = s

\* the bins hold chunks of their sizes, by decreasing size
Sorted(b, m) ==
    \A i \in BinIdx \ {UNSORTED} :
        /\ \A k \in DOMAIN b[i] : BinIndex(m[b[i][k]].size) = i
        /\ \A k, l \in DOMAIN b[i] : k < l => m[b[i][k]].size >= m[b[i][l]].size

\* a nonempty bin is marked
Marks(b, map) == \A i \in BinIdx \ {UNSORTED} : b[i] # <<>> => i \in map

LayoutInv ==
    /\ Heap(md, top, seams, owned, Binned, Fast, Live)
    /\ Lists(bins, BinIdx) /\ Lists(fastbins, Smalls)
    /\ SizedLists(fastbins, md) /\ Sorted(bins, md)

OtherTypes ==
    /\ binmap \subseteq BinIdx /\ Marks(bins, binmap)
    /\ have_fast \in BOOLEAN /\ last_remainder \in Int

CallInv ==
    /\ OpKnown(op, DOMAIN held, top) /\ Fits(op, md, held)
    /\ Clients(entering, retrying, DOMAIN held, top, op)
    /\ op.at = "sys" => ~TopFits

HeapInv == LayoutInv /\ MemoryInv /\ CallInv /\ OtherTypes

\* The constants, in one place.
LEMMA Constants ==
    /\ MINSIZE = 2 /\ NULL = -1 /\ InitialTop = -2 /\ Dangling = -3 /\ UNSORTED = 1
    /\ Requests \subseteq Nat /\ Alignments \subseteq Nat /\ Pads \subseteq Nat /\ TopPad \in Nat
    /\ \A n \in Requests \cup Alignments : n >= 2
    /\ ForeignSteps \subseteq Nat
    /\ InitialBrk \in Nat /\ SbrkLimit \in Nat /\ MmapTop \in Nat
    /\ InitialBrk <= SbrkLimit /\ SbrkLimit <= MmapTop
    /\ PageSize \in Nat /\ PageSize > 2 /\ MmapUnit \in Nat \ {0}
    /\ MaxFast \in Nat /\ MinLarge \in Nat /\ NBins \in Nat /\ MaxIters \in Nat
    /\ MaxFast < MinLarge /\ MinLarge < NBins
    /\ UNSORTED \in BinIdx /\ BinIdx \subseteq Nat /\ Smalls \subseteq Nat
BY RequestAssumption, SpaceAssumption, ThresholdAssumption
   DEF MINSIZE, NULL, InitialTop, Dangling, UNSORTED, BinIdx, Smalls

(***************************************************************************)
(* Whole pages                                                             *)
(***************************************************************************)
LEMMA Whole ==
    ASSUME NEW q \in Int, NEW a \in Nat \ {0}
    PROVE  (a * q) % a = 0
<1>n. PICK n \in Int : n = a * q
  OBVIOUS
<1>1. PICK d \in Int : n % a = n - a * d
  BY DivisionIs
<1>2. n % a \in 0 .. a - 1
  BY DivisionIs
<1>3. n % a = a * (q - d)
  BY <1>1, <1>n
<1>4. CASE q - d = 0
  BY <1>3, <1>4, <1>n
<1>5. CASE q - d >= 1
  <2>1. a * (q - d) >= a
    BY <1>5
  <2> QED BY <2>1, <1>2, <1>3
<1>6. CASE q - d <= -1
  <2>1. a * (q - d) <= -a
    BY <1>6
  <2> QED BY <2>1, <1>2, <1>3
<1> QED BY <1>4, <1>5, <1>6

LEMMA WholePages ==
    ASSUME NEW n \in Int, NEW a \in Nat \ {0}, n % a = 0
    PROVE  \E q \in Int : n = a * q
<1>1. PICK q \in Int : n % a = n - a * q
  BY DivisionIs
<1> QED BY <1>1

LEMMA PagesAddUp ==
    ASSUME NEW m \in Int, NEW n \in Int, NEW a \in Nat \ {0}, m % a = 0, n % a = 0
    PROVE  (m + n) % a = 0 /\ (m - n) % a = 0
<1>1. PICK p \in Int : m = a * p
  BY WholePages
<1>2. PICK q \in Int : n = a * q
  BY WholePages
<1>3. m + n = a * (p + q) /\ m - n = a * (p - q)
  BY <1>1, <1>2
<1>4. p + q \in Int /\ p - q \in Int
  OBVIOUS
<1> QED BY <1>3, <1>4, Whole

LEMMA RoundedIs ==
    ASSUME NEW n \in Int, NEW a \in Nat \ {0}
    PROVE  AlignUp(n, a) % a = 0 /\ AlignDown(n, a) % a = 0
<1>k. PICK k \in Int : k = -n
  OBVIOUS
<1>1. PICK d \in Int : k % a = k - a * d
  BY DivisionIs
<1>2. PICK e \in Int : n % a = n - a * e
  BY DivisionIs
<1>3. AlignUp(n, a) = -(a * d)
  BY <1>k, <1>1 DEF AlignUp
<1>4. -(a * d) = a * (-d) /\ -d \in Int
  OBVIOUS
<1>5. AlignDown(n, a) = a * e
  BY <1>2 DEF AlignDown
<1> QED BY <1>3, <1>4, <1>5, Whole

LEMMA MembersOf == Binned = Members(bins, BinIdx) /\ Fast = Members(fastbins, Smalls)
BY DEF Binned, Fast, Members

LEMMA EmptyLists ==
    ASSUME NEW I, NEW b, b = [i \in I |-> <<>>]
    PROVE  Lists(b, I) /\ Members(b, I) = {}
<1>1. \A i \in I : b[i] = <<>> /\ ToSet(b[i]) = {}
  BY DEF ToSet
<1> QED BY <1>1 DEF Lists, Members

LEMMA HeapInvInit == Init => HeapInv
<1> SUFFICES ASSUME Init PROVE HeapInv
  OBVIOUS
<1>1. /\ Lists(bins, BinIdx) /\ Binned = {} /\ Lists(fastbins, Smalls) /\ Fast = {}
  BY EmptyLists, MembersOf DEF Init
<1>2. Live = {}
  BY DEF Init, Live, Idle
<1>3. SizedLists(fastbins, md) /\ Sorted(bins, md) /\ Marks(bins, binmap)
  <2>1. (\A s \in Smalls : fastbins[s] = <<>>) /\ \A i \in BinIdx : bins[i] = <<>>
    BY DEF Init
  <2> QED BY <2>1 DEF SizedLists, Sorted, Marks
<1>4. /\ DOMAIN md = {InitialTop} /\ md[InitialTop] \in Chunk /\ md[InitialTop].size = 0
      /\ md[InitialTop].md_next = NULL
  <2>d. PICK d : d = FreshTop(0)
    OBVIOUS
  <2>1. PICK c : c = [d EXCEPT !.prev_inuse = FALSE]
    OBVIOUS
  <2>2. md = [x \in {InitialTop} |-> c]
    BY <2>1, <2>d DEF Init
  <2>4. d \in Chunk /\ d.size = 0 /\ d.md_next = NULL
    BY <2>d DEF FreshTop, Chunk, NULL
  <2>3. c \in Chunk /\ c.size = 0 /\ c.md_next = NULL
    BY <2>1, <2>4 DEF Chunk
  <2> QED BY <2>2, <2>3
<1>5. Heap(md, InitialTop, {}, {}, {}, {}, {})
  <2>1. ChunksOf(md) = {}
    BY <1>4 DEF ChunksOf
  <2>2. md \in [DOMAIN md -> Chunk]
    BY <1>4 DEF Init
  <2>3. Geo(md, InitialTop, {}, {})
    BY <2>1, <2>2, <1>4 DEF Geo, Shape, Links, Apart, Covers
  <2> QED BY <2>1, <2>3 DEF Heap, HeapBut, Tagged, TagsBut, Places
<1>6. LayoutInv
  BY <1>1, <1>2, <1>3, <1>5 DEF LayoutInv, Init
<1>7. MemoryInv
  <2>1. Within({}, 0)
    BY FS_EmptySet DEF Within
  <2>2. sbrk_regions \in Seq([lo : Int, hi : Int]) /\ Len(sbrk_regions) >= 1
    BY DEF Init
  <2>3. Paged
    BY SpaceAssumption DEF Init, Paged
  <2> QED BY <2>1, <2>2, <2>3, Constants DEF Init, MemoryInv, AtStart
<1>8. CallInv
  <2>1. Idle \in OpType
    BY Constants DEF Idle, OpType, Points, Calls
  <2>2. OpKnown(op, DOMAIN held, top)
    BY <2>1 DEF Init, OpKnown, Idle, Dest, Freeing, Mallocing
  <2>3. Fits(op, md, held)
    BY DEF Init, Fits, Idle
  <2>4. Clients(entering, retrying, DOMAIN held, top, op)
    BY FS_EmptySet DEF Init, Clients
  <2> QED BY <2>2, <2>3, <2>4 DEF CallInv, Init, Idle
<1>9. OtherTypes
  <2>1. binmap = {} /\ have_fast = FALSE /\ last_remainder = NULL
    BY DEF Init
  <2>2. NULL \in Int
    BY DEF NULL
  <2> QED BY <2>1, <2>2, <1>3 DEF OtherTypes
<1> QED BY <1>6, <1>7, <1>8, <1>9 DEF HeapInv

(***************************************************************************)
(* The steps that leave the chunks alone                                   *)
(***************************************************************************)
\* Outside any routine the blocks of the client are all that is in use; and then the
\* thread waits for the mutex, or does not.
LEMMA Busy ==
    ASSUME CallInv, ~At("idle")
    PROVE  /\ entering = {} /\ retrying = {}
           /\ Live = DOMAIN held \cup ({op.v, op.p} \ {NULL})
           /\ op \in OpType /\ op.at # "abort"
<1>1. op # Idle
  BY DEF At, Idle
<1> QED BY <1>1 DEF CallInv, Clients, Live, OpKnown

LEMMA Free1 ==
    ASSUME NThreads = 1, CallInv, ThreadFree
    PROVE  entering = {} /\ retrying = {} /\ op = Idle
<1>1. /\ Cardinality(entering) \in Nat /\ Cardinality(retrying) \in Nat
      /\ IsFiniteSet(entering) /\ IsFiniteSet(retrying)
  BY FS_CardinalityType DEF CallInv, Clients
<1>2. Cardinality(entering) = 0 /\ Cardinality(retrying) = 0 /\ At("idle")
  BY <1>1 DEF ThreadFree, Stopped
<1> QED BY <1>1, <1>2, FS_EmptySet DEF At, CallInv, OpKnown

LEMMA LayoutStill ==
    ASSUME LayoutInv, UNCHANGED <<md, bins, fastbins, top, seams, owned>>, Live' = Live
    PROVE  LayoutInv'
<1>1. Binned' = Binned /\ Fast' = Fast
  BY DEF Binned, Fast
<1> QED BY <1>1 DEF LayoutInv

LEMMA MemoryStill ==
    ASSUME MemoryInv, UNCHANGED <<system, md, top>>
    PROVE  MemoryInv'
BY DEF MemoryInv, AtStart, InOneRegion, Paged, system

\* The size of the top chunk counts only in sysmalloc.
LEMMA Quiet ==
    ASSUME HeapInv, UNCHANGED <<md, bins, fastbins, top, system>>, Live' = Live, CallInv',
           OtherTypes'
    PROVE  HeapInv'
<1>1. UNCHANGED <<seams, owned>>
  BY DEF system
<1> QED BY <1>1, LayoutStill, MemoryStill DEF HeapInv

\* Blocks are chunks: their addresses are no null pointers.
LEMMA LiveChunks ==
    ASSUME LayoutInv, NEW p \in Live
    PROVE  /\ p \in ChunksOf(md) /\ p # top /\ p \notin seams /\ p \in DOMAIN md
           /\ p \in Nat /\ p # NULL /\ md[p] \in Chunk /\ md[p].size \in Nat
           /\ md[p].size >= 2 /\ p \notin Binned /\ p \notin Fast
           /\ md[p].md_next \in ChunksOf(md) /\ md[p].md_next # p
           /\ md[p].md_next = p + md[p].size
           /\ top # InitialTop
<1>1. Heap(md, top, seams, owned, Binned, Fast, Live)
  BY DEF LayoutInv
<1>2. HeapBut(md, top, seams, owned, Binned, Fast, Live, {})
      /\ Places(md, top, Binned, Fast, Live)
  BY <1>1 DEF Heap, HeapBut
<1>3. p \in Binned \cup Fast \cup Live
  OBVIOUS
<1>4. /\ p \in ChunksOf(md) /\ p # top /\ p \notin seams /\ p \in DOMAIN md /\ p \in Nat
      /\ md[p] \in Chunk /\ md[p].size \in Nat /\ md[p].size >= MINSIZE
      /\ Geo(md, top, seams, owned) /\ top \in ChunksOf(md) /\ top # InitialTop
  BY <1>2, <1>3, Proper
<1>5. md[p].md_next \in ChunksOf(md) /\ md[p].md_next # p
  BY <1>4, NextChunk
<1>6. md[p].md_next = p + md[p].size
  BY <1>4 DEF Geo, Links
<1>7. p \notin Binned /\ p \notin Fast
  BY <1>2 DEF Places
<1> QED BY <1>4, <1>5, <1>6, <1>7, Distinct

LEMMA IdleIs ==
    /\ Idle \in OpType
    /\ Idle.at = "idle" /\ Idle.call = "none" /\ Idle.then = "done" /\ Idle.cont = "done"
    /\ Idle.v = NULL /\ Idle.p = NULL /\ Idle.blk = NULL
BY Constants DEF Idle, OpType, Points, Calls

\* A step of the thread that only moves on to another point, with the same chunks.
LEMMA MovesOn ==
    ASSUME HeapInv, UNCHANGED <<md, bins, fastbins, top, system, client>>,
           entering = {}, retrying = {}, OtherTypes', op'.v = op.v, op'.p = op.p,
           OpKnown(op', DOMAIN held, top), Fits(op', md, held),
           op'.at = "sys" => ~TopFits /\ op'.nb = op.nb
    PROVE  HeapInv'
<1>1. Live' = Live
  BY DEF Live, client
<1>2. Clients(entering', retrying', DOMAIN held', top', op')
  BY FS_EmptySet DEF Clients, client
<1>3. op'.at = "sys" => ~TopFits'
  BY DEF TopFits
<1>4. held' = held
  BY DEF client
<1>5. CallInv'
  BY <1>2, <1>3, <1>4 DEF CallInv
<1> QED BY <1>1, <1>5, Quiet

LEMMA SameFit ==
    ASSUME NEW r, NEW m, NEW h, Fits(r, m, h),
           NEW s, s.v = r.v, s.nb = r.nb, s.want = r.want, s.v = NULL \/ Dest(s) = Dest(r)
    PROVE  Fits(s, m, h)
BY DEF Fits

LEMMA CallMallocInv ==
    ASSUME NThreads = 1, HeapInv, NEW nb \in Requests, CallMalloc(nb)
    PROVE  HeapInv'
<1>1. entering = {} /\ retrying = {} /\ op = Idle
  BY Free1 DEF HeapInv, CallMalloc
<1>o. op' = [Idle EXCEPT !.at = "malloc", !.call = "malloc", !.nb = nb]
  BY DEF CallMalloc
<1>2. nb \in Nat
  BY Constants
<1>3. OpKnown(op', DOMAIN held, top)
  BY <1>o, <1>2, IdleIs DEF OpKnown, Dest, Freeing, Mallocing, Asks, OpType, Points, Calls
<1>4. op'.v = op.v /\ op'.p = op.p /\ op'.v = NULL /\ op'.at # "sys"
  BY <1>1, <1>o, IdleIs DEF OpType
<1>5. Fits(op', md, held)
  BY <1>1, <1>4 DEF HeapInv, CallInv, Fits
<1> QED BY <1>1, <1>3, <1>4, <1>5, MovesOn DEF CallMalloc, HeapInv, OtherTypes, heap

LEMMA CallReallocInv ==
    ASSUME NThreads = 1, HeapInv, NEW p \in DOMAIN held, NEW nb \in Requests,
           CallRealloc(p, nb)
    PROVE  HeapInv'
<1>1. entering = {} /\ retrying = {} /\ op = Idle
  BY Free1 DEF HeapInv, CallRealloc
<1>o. op' = [Idle EXCEPT !.at = "realloc", !.call = "realloc", !.blk = p, !.nb = nb,
                         !.want = nb]
  BY DEF CallRealloc
<1>2. nb \in Nat /\ p \in Int
  <2>1. p \in Live /\ LayoutInv
    BY DEF Live, HeapInv
  <2>2. p \in Nat
    BY <2>1, LiveChunks
  <2> QED BY <2>2, Constants
<1>6. /\ op' \in OpType /\ op'.at = "realloc" /\ op'.call = "realloc" /\ op'.blk = p
      /\ op'.nb = nb /\ op'.want = nb /\ op'.v = NULL /\ op'.p = NULL
  BY <1>o, <1>2, IdleIs DEF OpType, Points, Calls
<1>3. OpKnown(op', DOMAIN held, top)
  BY <1>6 DEF OpKnown, Dest, Freeing, Mallocing, Asks
<1>4. op'.v = op.v /\ op'.p = op.p /\ op'.v = NULL /\ op'.at # "sys"
  BY <1>1, <1>6, IdleIs
<1>5. Fits(op', md, held)
  BY <1>1, <1>4 DEF HeapInv, CallInv, Fits
<1> QED BY <1>1, <1>3, <1>4, <1>5, MovesOn DEF CallRealloc, HeapInv, OtherTypes, heap

LEMMA CallMemalignInv ==
    ASSUME NThreads = 1, HeapInv, NEW a \in Alignments, NEW nb \in Requests,
           CallMemalign(a, nb)
    PROVE  HeapInv'
<1>1. entering = {} /\ retrying = {} /\ op = Idle
  BY Free1 DEF HeapInv, CallMemalign
<1>o. op' = [Idle EXCEPT !.at = "malloc", !.call = "memalign", !.want = nb, !.align = a,
                         !.nb = nb + a + MINSIZE]
  BY DEF CallMemalign
<1>2. nb \in Nat /\ a \in Nat /\ nb + a + MINSIZE \in Nat
  BY Constants
<1>3. OpKnown(op', DOMAIN held, top)
  <2>1. op' \in OpType
    BY <1>o, <1>2, IdleIs DEF OpType, Points, Calls
  <2>2. /\ op'.at = "malloc" /\ op'.call = "memalign" /\ op'.want = nb /\ op'.align = a
        /\ op'.nb = nb + a + MINSIZE
    BY <1>o, IdleIs DEF OpType
  <2>3. op'.v = NULL /\ op'.p = NULL /\ op'.blk = NULL
    BY <1>o, IdleIs DEF OpType
  <2> QED BY <2>1, <2>2, <2>3, <1>2 DEF OpKnown, Dest, Freeing, Mallocing, Asks
<1>4. op'.v = op.v /\ op'.p = op.p /\ op'.v = NULL /\ op'.at # "sys"
  BY <1>1, <1>o, IdleIs DEF OpType
<1>5. Fits(op', md, held)
  BY <1>1, <1>4 DEF HeapInv, CallInv, Fits
<1> QED BY <1>1, <1>3, <1>4, <1>5, MovesOn DEF CallMemalign, HeapInv, OtherTypes, heap

LEMMA CallTrimInv ==
    ASSUME NThreads = 1, HeapInv, NEW pad \in Pads, CallTrim(pad)
    PROVE  HeapInv'
<1>1. entering = {} /\ retrying = {} /\ op = Idle
  BY Free1 DEF HeapInv, CallTrim
<1>o. op' = [Idle EXCEPT !.at = "consolidate", !.call = "trim", !.cont = "systrim",
                         !.pad = pad]
  BY DEF CallTrim
<1>2. pad \in Nat
  BY Constants
<1>3. OpKnown(op', DOMAIN held, top)
  BY <1>o, <1>2, IdleIs DEF OpKnown, Dest, Freeing, Mallocing, Asks, OpType, Points, Calls
<1>4. op'.v = op.v /\ op'.p = op.p /\ op'.v = NULL /\ op'.at # "sys"
  BY <1>1, <1>o, IdleIs DEF OpType
<1>5. Fits(op', md, held)
  BY <1>1, <1>4 DEF HeapInv, CallInv, Fits
<1> QED BY <1>1, <1>3, <1>4, <1>5, MovesOn DEF CallTrim, HeapInv, OtherTypes

\* The steps of _int_malloc and sysmalloc that find nothing yet.
LEMMA LooksOn ==
    ASSUME HeapInv, op.at \in Mallocing, UNCHANGED <<md, bins, fastbins, top, system, client>>,
           OtherTypes', op' \in OpType, op'.at \in Mallocing \cup {"got", "consolidate"},
           op'.at = "consolidate" => op'.cont = "unsorted",
           op'.v = NULL, op'.p = op.p, op'.nb = op.nb, op'.want = op.want, op'.blk = op.blk,
           op'.call = op.call, op'.align = op.align, op'.at = "sys" => ~TopFits
    PROVE  HeapInv'
<1>1. entering = {} /\ retrying = {} /\ op \in OpType
  BY Busy DEF HeapInv, At, Mallocing
<1>2. OpKnown(op, DOMAIN held, top) /\ Fits(op, md, held)
  BY DEF HeapInv, CallInv
<1>3. /\ Dest(op) \in Mallocing /\ ~Freeing(op) /\ ~Freeing(op')
      /\ Dest(op') \in Mallocing \cup {"got"}
  BY DEF Dest, Freeing, Mallocing
<1>4. op.v = NULL /\ op.p = NULL /\ Asks(op, DOMAIN held)
  BY <1>2, <1>3 DEF OpKnown, Mallocing
<1>5. Asks(op', DOMAIN held)
  BY <1>4 DEF Asks
<1>6. NULL \notin DOMAIN held
  BY LiveChunks DEF Live, HeapInv
<1>7. OpKnown(op', DOMAIN held, top)
  BY <1>3, <1>4, <1>5, <1>6 DEF OpKnown, Mallocing
<1>8. Fits(op', md, held)
  BY <1>2, <1>4, SameFit
<1> QED BY <1>1, <1>4, <1>7, <1>8, MovesOn

LEMMA NoMetadataInv == ASSUME HeapInv, NoMetadata PROVE HeapInv'
<1>o. op' = [op EXCEPT !.at = "got", !.v = NULL]
  BY DEF NoMetadata, Got
<1>1. op \in OpType /\ op.at = "malloc"
  BY DEF HeapInv, CallInv, OpKnown, NoMetadata, At
<1>2. op' \in OpType /\ op'.at = "got" /\ op'.v = NULL
  <2>1. NULL \in Int
    BY DEF NULL
  <2> QED BY <2>1, <1>o, <1>1 DEF OpType, Points
<1>3. /\ op'.p = op.p /\ op'.nb = op.nb /\ op'.want = op.want /\ op'.blk = op.blk
      /\ op'.call = op.call /\ op'.align = op.align
  BY <1>o, <1>1 DEF OpType
<1> QED BY <1>1, <1>2, <1>3, LooksOn DEF NoMetadata, HeapInv, OtherTypes, heap, Mallocing

LEMMA MallocMissInv == ASSUME HeapInv, MallocMiss PROVE HeapInv'
<1>o. \/ op' = [op EXCEPT !.at = "consolidate", !.cont = "unsorted"] /\ have_fast' = FALSE
      \/ op' = [op EXCEPT !.at = "unsorted"] /\ have_fast' = have_fast
  BY DEF MallocMiss, Consolidate, GoTo
<1>1. op \in OpType /\ op.at = "malloc" /\ op.v = NULL
  BY DEF HeapInv, CallInv, OpKnown, MallocMiss, At, Dest, Freeing, Mallocing
<1>2. op' \in OpType /\ op'.v = NULL
      /\ (op'.at = "unsorted" \/ (op'.at = "consolidate" /\ op'.cont = "unsorted"))
  BY <1>o, <1>1 DEF OpType, Points
<1>3. /\ op'.p = op.p /\ op'.nb = op.nb /\ op'.want = op.want /\ op'.blk = op.blk
      /\ op'.call = op.call /\ op'.align = op.align
  BY <1>o, <1>1 DEF OpType
<1>4. OtherTypes'
  BY <1>o DEF MallocMiss, HeapInv, OtherTypes
<1> QED BY <1>1, <1>2, <1>3, <1>4, LooksOn DEF MallocMiss, Mallocing

LEMMA UnsortedDoneInv == ASSUME HeapInv, UnsortedDone PROVE HeapInv'
<1>o. op' = [op EXCEPT !.at = "fit", !.iters = 0]
  BY DEF UnsortedDone
<1>1. op \in OpType /\ op.at = "unsorted" /\ op.v = NULL
  BY DEF HeapInv, CallInv, OpKnown, UnsortedDone, At, Dest, Freeing, Mallocing
<1>2. op' \in OpType /\ op'.at = "fit" /\ op'.v = NULL
  BY <1>o, <1>1 DEF OpType, Points
<1>3. /\ op'.p = op.p /\ op'.nb = op.nb /\ op'.want = op.want /\ op'.blk = op.blk
      /\ op'.call = op.call /\ op'.align = op.align
  BY <1>o, <1>1 DEF OpType
<1> QED BY <1>1, <1>2, <1>3, LooksOn DEF UnsortedDone, HeapInv, OtherTypes, heap, Mallocing

LEMMA BinNoneInv == ASSUME HeapInv, BinNone PROVE HeapInv'
<1>o. op' = [op EXCEPT !.at = "top"]
  BY DEF BinNone, GoTo
<1>1. op \in OpType /\ op.at = "fit" /\ op.v = NULL
  BY DEF HeapInv, CallInv, OpKnown, BinNone, At, Dest, Freeing, Mallocing
<1>2. op' \in OpType /\ op'.at = "top" /\ op'.v = NULL
  BY <1>o, <1>1 DEF OpType, Points
<1>3. /\ op'.p = op.p /\ op'.nb = op.nb /\ op'.want = op.want /\ op'.blk = op.blk
      /\ op'.call = op.call /\ op'.align = op.align
  BY <1>o, <1>1 DEF OpType
<1>4. OtherTypes'
  <2>1. \A i \in Marked : bins[i] = <<>>
    BY DEF BinNone, FitBins
  <2>2. binmap' = binmap \ Marked /\ UNCHANGED <<bins, have_fast, last_remainder>>
    BY DEF BinNone
  <2>3. Marks(bins', binmap')
    BY <2>1, <2>2 DEF HeapInv, OtherTypes, Marks
  <2> QED BY <2>2, <2>3 DEF HeapInv, OtherTypes
<1> QED BY <1>1, <1>2, <1>3, <1>4, LooksOn DEF BinNone, Mallocing

LEMMA TopConsolidateInv == ASSUME HeapInv, TopConsolidate PROVE HeapInv'
<1>o. op' = [op EXCEPT !.at = "consolidate", !.cont = "unsorted"] /\ have_fast' = FALSE
  BY DEF TopConsolidate, Consolidate
<1>1. op \in OpType /\ op.at = "top" /\ op.v = NULL
  BY DEF HeapInv, CallInv, OpKnown, TopConsolidate, At, Dest, Freeing, Mallocing
<1>2. op' \in OpType /\ op'.at = "consolidate" /\ op'.cont = "unsorted" /\ op'.v = NULL
  BY <1>o, <1>1 DEF OpType, Points
<1>3. /\ op'.p = op.p /\ op'.nb = op.nb /\ op'.want = op.want /\ op'.blk = op.blk
      /\ op'.call = op.call /\ op'.align = op.align
  BY <1>o, <1>1 DEF OpType
<1>4. OtherTypes'
  BY <1>o DEF TopConsolidate, HeapInv, OtherTypes
<1> QED BY <1>1, <1>2, <1>3, <1>4, LooksOn DEF TopConsolidate, Mallocing

\* A process that stops at an assertion or at the load of NULL leaves all as it was.
LEMMA StopsInv ==
    ASSUME HeapInv, op.at \in {"top", "sys_done", "got"}, op.v = NULL,
           NEW x \in {"assert", "null_load"}, GoTo(x), UNCHANGED <<heap, system, client>>
    PROVE  HeapInv'
<1>1. entering = {} /\ retrying = {} /\ op \in OpType
  BY Busy DEF HeapInv, At
<1>2. OpKnown(op, DOMAIN held, top) /\ Fits(op, md, held)
  BY DEF HeapInv, CallInv
<1>3. /\ op' \in OpType /\ op'.at = x /\ op'.v = NULL /\ op'.p = op.p /\ op'.nb = op.nb
      /\ op'.want = op.want
  BY <1>1 DEF GoTo, OpType, Points
<1>4. op.p = NULL
  BY <1>2 DEF OpKnown
<1>5. OpKnown(op', DOMAIN held, top)
  BY <1>3, <1>4 DEF OpKnown, Dest, Freeing, Mallocing
<1>6. Fits(op', md, held)
  BY <1>2, <1>3, SameFit
<1> QED BY <1>1, <1>3, <1>5, <1>6, MovesOn DEF HeapInv, OtherTypes, heap

LEMMA TopTooSmallInv == ASSUME HeapInv, TopTooSmall PROVE HeapInv'
<1>1. op \in OpType /\ op.at = "top" /\ op.v = NULL
  BY DEF HeapInv, CallInv, OpKnown, TopTooSmall, At, Dest, Freeing, Mallocing
<1>2. CASE GoTo("assert")
  BY <1>1, <1>2, StopsInv DEF TopTooSmall
<1>3. CASE GoTo("sys")
  <2>o. op' = [op EXCEPT !.at = "sys"]
    BY <1>3 DEF GoTo
  <2>1. op' \in OpType /\ op'.at = "sys" /\ op'.v = NULL
    BY <2>o, <1>1 DEF OpType, Points
  <2>2. /\ op'.p = op.p /\ op'.nb = op.nb /\ op'.want = op.want /\ op'.blk = op.blk
        /\ op'.call = op.call /\ op'.align = op.align
    BY <2>o, <1>1 DEF OpType
  <2> QED BY <1>1, <2>1, <2>2, LooksOn DEF TopTooSmall, HeapInv, OtherTypes, heap, Mallocing
<1> QED BY <1>2, <1>3 DEF TopTooSmall

LEMMA CheckTopInv == ASSUME HeapInv, CheckTop PROVE HeapInv'
<1>1. op.at = "sys_done" /\ op.v = NULL
  BY DEF HeapInv, CallInv, OpKnown, CheckTop, At, Dest, Freeing, Mallocing
<1> QED BY <1>1, StopsInv DEF CheckTop

LEMMA SysFailsInv == ASSUME HeapInv, SysRefused \/ SysEnomem PROVE HeapInv'
<1>o. op' = [op EXCEPT !.at = "got", !.v = NULL]
  BY DEF SysRefused, SysEnomem, Got
<1>1. op \in OpType /\ op.at \in {"sys", "sys_done"}
  BY DEF HeapInv, CallInv, OpKnown, SysRefused, SysEnomem, At
<1>2. op' \in OpType /\ op'.at = "got" /\ op'.v = NULL
  <2>1. NULL \in Int
    BY DEF NULL
  <2> QED BY <2>1, <1>o, <1>1 DEF OpType, Points
<1>3. /\ op'.p = op.p /\ op'.nb = op.nb /\ op'.want = op.want /\ op'.blk = op.blk
      /\ op'.call = op.call /\ op'.align = op.align
  BY <1>o, <1>1 DEF OpType
<1>4. UNCHANGED <<heap, system, client>>
  BY DEF SysRefused, SysEnomem
<1> QED BY <1>1, <1>2, <1>3, <1>4, LooksOn DEF HeapInv, OtherTypes, heap, Mallocing

\* The frees, consolidations and trims of a call that leave the chunks alone.
LEMMA FreeTrimInv == ASSUME HeapInv, FreeTrim PROVE HeapInv'
<1>0. entering = {} /\ retrying = {} /\ op \in OpType /\ op.at = "trim_check"
  BY Busy DEF HeapInv, FreeTrim, At
<1>1. OpKnown(op, DOMAIN held, top) /\ Fits(op, md, held)
  BY DEF HeapInv, CallInv
<1>2. \/ op' = [op EXCEPT !.at = "systrim", !.pad = TopPad]
      \/ op' = [op EXCEPT !.at = op.then]
  BY DEF FreeTrim
<1>3. op.then \in {"sys_done", "memalign_tail", "done"} /\ op.p = NULL
  BY <1>0, <1>1 DEF OpKnown, Freeing
<1>4. /\ op' \in OpType /\ op'.v = op.v /\ op'.p = op.p /\ op'.nb = op.nb
      /\ op'.want = op.want /\ op'.call = op.call /\ op'.blk = op.blk
      /\ op'.align = op.align /\ op'.then = op.then
      /\ op'.at = "systrim" \/ op'.at = op.then
  <2>1. TopPad \in Nat
    BY Constants
  <2>2. "systrim" \in Points /\ op.then \in Points
    BY <1>3 DEF Points
  <2>3. op' \in OpType /\ (op'.at = "systrim" \/ op'.at = op.then)
    BY <2>1, <2>2, <1>0, <1>2 DEF OpType
  <2>4. /\ op'.v = op.v /\ op'.p = op.p /\ op'.nb = op.nb /\ op'.want = op.want
        /\ op'.call = op.call /\ op'.blk = op.blk /\ op'.align = op.align
        /\ op'.then = op.then
    BY <1>0, <1>2 DEF OpType
  <2> QED BY <2>3, <2>4
<1>5. Dest(op) = op.then /\ Dest(op') = op.then
  BY <1>0, <1>3, <1>4 DEF Dest, Freeing
<1>6. OpKnown(op', DOMAIN held, top)
  BY <1>0, <1>1, <1>3, <1>4, <1>5 DEF OpKnown, Freeing, Asks
<1>7. Fits(op', md, held)
  BY <1>1, <1>4, <1>5, SameFit
<1>8. op'.at # "sys"
  BY <1>3, <1>4
<1> QED BY <1>0, <1>4, <1>6, <1>7, <1>8, MovesOn DEF FreeTrim, HeapInv, OtherTypes, heap

LEMMA ConsolidateDoneInv == ASSUME HeapInv, ConsolidateDone PROVE HeapInv'
<1>0. entering = {} /\ retrying = {} /\ op \in OpType /\ op.at = "consolidate"
  BY Busy DEF HeapInv, ConsolidateDone, At
<1>1. OpKnown(op, DOMAIN held, top) /\ Fits(op, md, held)
  BY DEF HeapInv, CallInv
<1>2. op' = [op EXCEPT !.at = op.cont]
  BY DEF ConsolidateDone, GoTo
<1>3. op.cont \in {"unsorted", "trim_check", "systrim"} /\ op.p = NULL
      /\ (op.cont # "unsorted" => op.then \in {"sys_done", "memalign_tail", "done"})
  BY <1>0, <1>1 DEF OpKnown, Freeing
<1>4. /\ op' \in OpType /\ op'.v = op.v /\ op'.p = op.p /\ op'.nb = op.nb
      /\ op'.want = op.want /\ op'.call = op.call /\ op'.blk = op.blk
      /\ op'.align = op.align /\ op'.then = op.then /\ op'.at = op.cont
  BY <1>0, <1>2, <1>3 DEF OpType, Points
<1>5. Dest(op) = Dest(op')
  BY <1>0, <1>3, <1>4 DEF Dest, Freeing
<1>6. OpKnown(op', DOMAIN held, top)
  BY <1>0, <1>1, <1>3, <1>4, <1>5 DEF OpKnown, Freeing, Asks
<1>7. Fits(op', md, held)
  BY <1>1, <1>4, <1>5, SameFit
<1>8. op'.at # "sys"
  BY <1>3, <1>4
<1> QED BY <1>0, <1>4, <1>6, <1>7, <1>8, MovesOn DEF ConsolidateDone, HeapInv, OtherTypes, heap

LEMMA ReallocNoMetadataInv == ASSUME HeapInv, ReallocNoMetadata PROVE HeapInv'
<1>0. entering = {} /\ retrying = {} /\ op \in OpType /\ op.at = "realloc"
  BY Busy DEF HeapInv, ReallocNoMetadata, At
<1>1. OpKnown(op, DOMAIN held, top) /\ Fits(op, md, held)
  BY DEF HeapInv, CallInv
<1>2. op.v = NULL /\ op.p = NULL
  BY <1>0, <1>1 DEF OpKnown, Dest, Freeing
<1>3. op' = Idle
  BY DEF ReallocNoMetadata
<1>4. OpKnown(op', DOMAIN held, top)
  BY <1>3, IdleIs DEF OpKnown, Dest, Freeing, Mallocing
<1>5. Fits(op', md, held)
  BY <1>1, <1>2, <1>3, IdleIs DEF Fits
<1> QED BY <1>0, <1>2, <1>3, <1>4, <1>5, IdleIs, MovesOn
        DEF ReallocNoMetadata, HeapInv, OtherTypes, heap

\* The brk that other code has moved lies further behind the memory of the heap.
LEMMA ForeignSbrkInv ==
    ASSUME HeapInv, NEW k \in ForeignSteps, ForeignSbrk(k)
    PROVE  HeapInv'
<1>1. /\ UNCHANGED <<heap, mmap_lo, contiguous, system_mem, sbrk_base, sbrk_regions, owned,
                     seams, ragged, client, op>>
      /\ top # InitialTop /\ brk' = brk + k /\ brk' <= SbrkLimit
  BY DEF ForeignSbrk
<1>2. k \in Nat
  BY Constants
<1>3. Live' = Live
  BY <1>1 DEF Live, client
<1>4. LayoutInv'
  BY <1>1, <1>3, LayoutStill DEF HeapInv, heap
<1>5. MemoryInv'
  <2>1. owned \subseteq Nat /\ owned' = owned
    BY <1>1 DEF HeapInv, LayoutInv, Heap, HeapBut, Tagged, Geo, Covers
  <2>2. brk \in Nat /\ brk' \in Nat /\ brk <= brk'
    BY <1>1, <1>2 DEF HeapInv, MemoryInv
  <2>3. \A x \in owned' : (x < brk' \/ x >= mmap_lo') /\ x < MmapTop
    BY <1>1, <2>1, <2>2 DEF HeapInv, MemoryInv
  <2>4. contiguous /\ top # InitialTop => InOneRegion'
    <3> SUFFICES ASSUME contiguous PROVE InOneRegion'
      OBVIOUS
    <3>1. InOneRegion /\ UNCHANGED <<md, top, system_mem, sbrk_base, sbrk_regions, seams, owned>>
      BY <1>1 DEF HeapInv, MemoryInv, heap
    <3>2. top + md[top].size \in Int
      BY <1>1, OneChunk DEF HeapInv, LayoutInv, Heap, HeapBut, Tagged, Geo, Shape, ChunksOf, Chunk
    <3>3. top + md[top].size <= brk'
      BY <3>1, <3>2, <2>2 DEF InOneRegion
    <3> QED BY <3>1, <3>3 DEF InOneRegion
  <2>5. Paged'
    BY <1>1 DEF HeapInv, MemoryInv, Paged, heap
  <2> QED BY <1>1, <2>2, <2>3, <2>4, <2>5 DEF HeapInv, MemoryInv, heap
<1>6. CallInv'
  BY <1>1 DEF HeapInv, CallInv, TopFits, heap, client
<1> QED BY <1>1, <1>4, <1>5, <1>6 DEF HeapInv, OtherTypes, heap

(***************************************************************************)
(* The client's blocks                                                     *)
(***************************************************************************)
\* A block whose free waits for the mutex, or is under way, is not the client's.
LEMMA CallFreeInv ==
    ASSUME NThreads = 1, HeapInv, NEW p \in DOMAIN held, CallFree(p)
    PROVE  HeapInv'
<1>0. entering = {} /\ retrying = {} /\ op = Idle
  BY Free1 DEF HeapInv, CallFree
<1>f. PICK f : f = [p |-> p, tc |-> top]
  OBVIOUS
<1>1. /\ entering' = {f} /\ held' = [q \in DOMAIN held \ {p} |-> held[q]]
      /\ UNCHANGED <<heap, system, retrying, op>>
  BY <1>0, <1>f DEF CallFree
<1>2. DOMAIN held' = DOMAIN held \ {p} /\ \A q \in DOMAIN held' : held'[q] = held[q]
  BY <1>1
<1>3. f \in [p : Int, tc : Int] /\ f.p = p /\ f.tc = top
  <2>1. p \in Live /\ LayoutInv
    BY DEF Live, HeapInv
  <2>2. p \in Int
    BY <2>1, LiveChunks
  <2>3. top \in Int
    BY <2>1, LiveChunks, OneChunk DEF LayoutInv, Heap, HeapBut, Tagged
  <2> QED BY <2>2, <2>3, <1>f
<1>4. Live = DOMAIN held /\ Live' = DOMAIN held' \cup {p}
  BY <1>0, <1>1, <1>3, IdleIs DEF Live
<1>5. Live' = Live
  BY <1>2, <1>4
<1>6. CallInv'
  <2>1. OpKnown(op', DOMAIN held', top')
    BY <1>0, <1>1, IdleIs DEF OpKnown, Dest, Freeing, Mallocing
  <2>2. Fits(op', md', held')
    BY <1>0, <1>1, <1>2, IdleIs DEF HeapInv, CallInv, Fits, heap
  <2>3. IsFiniteSet(entering') /\ IsFiniteSet(retrying')
    BY <1>0, <1>1, FS_Singleton, FS_EmptySet
  <2>4. top' = top /\ retrying' = {}
    BY <1>0, <1>1 DEF heap
  <2>5. Clients(entering', retrying', DOMAIN held', top', op')
    BY <1>0, <1>1, <1>2, <1>3, <2>3, <2>4 DEF Clients
  <2> QED BY <2>1, <2>2, <2>5, <1>0, <1>1, IdleIs DEF CallInv
<1>7. OtherTypes'
  BY <1>1 DEF HeapInv, OtherTypes, heap
<1> QED BY <1>1, <1>5, <1>6, <1>7, Quiet DEF heap

LEMMA LockFreeInv ==
    ASSUME HeapInv, NEW f \in entering, LockFree(f)
    PROVE  HeapInv'
<1>0. /\ op = Idle /\ entering = {f} /\ retrying = {}
      /\ f.p \in Int /\ f.tc = top /\ f.tc \in Int /\ f.p \notin DOMAIN held
  BY DEF HeapInv, CallInv, Clients
<1>o. op' = [Idle EXCEPT !.at = "free", !.call = "free", !.p = f.p, !.tc = f.tc]
  BY DEF LockFree
<1>1. entering' = {} /\ UNCHANGED <<heap, system, held, retrying>>
  BY <1>0 DEF LockFree
<1>2. f.p \in Live /\ f.p # NULL
  BY LiveChunks DEF Live, HeapInv
<1>3. /\ op' \in OpType /\ op'.at = "free" /\ op'.p = f.p /\ op'.tc = top /\ op'.v = NULL
      /\ op'.then = "done"
  BY <1>0, <1>o, IdleIs DEF OpType, Points, Calls
<1>4. Live' = Live
  BY <1>0, <1>1, <1>2, <1>3, IdleIs DEF Live
<1>5. CallInv'
  <2>1. OpKnown(op', DOMAIN held', top')
    BY <1>0, <1>1, <1>2, <1>3 DEF OpKnown, Dest, Freeing, Mallocing, heap
  <2>2. Fits(op', md', held')
    BY <1>0, <1>1, <1>3, IdleIs DEF HeapInv, CallInv, Fits, heap
  <2>3. Clients(entering', retrying', DOMAIN held', top', op')
    BY <1>0, <1>1, FS_EmptySet DEF Clients
  <2> QED BY <2>1, <2>2, <2>3, <1>3 DEF CallInv
<1>6. OtherTypes'
  BY <1>1 DEF HeapInv, OtherTypes, heap
<1> QED BY <1>1, <1>4, <1>5, <1>6, Quiet DEF heap

LEMMA LockRetryInv ==
    ASSUME HeapInv, NEW r \in retrying, LockRetry(r)
    PROVE  HeapInv'
<1>0. /\ op = Idle /\ entering = {} /\ retrying = {r}
      /\ r.blk \in DOMAIN held /\ r.want \in Requests /\ r.want \in Nat /\ r.blk \in Int
  BY DEF HeapInv, CallInv, Clients
<1>o. op' = [Idle EXCEPT !.at = "malloc", !.call = "retry", !.blk = r.blk,
                         !.nb = r.want, !.want = r.want]
  BY DEF LockRetry
<1>1. retrying' = {} /\ UNCHANGED <<heap, system, held, entering>>
  BY <1>0 DEF LockRetry
<1>3. /\ op' \in OpType /\ op'.at = "malloc" /\ op'.p = NULL /\ op'.v = NULL
      /\ op'.call = "retry" /\ op'.nb = r.want /\ op'.want = r.want /\ op'.blk = r.blk
  BY <1>0, <1>o, IdleIs DEF OpType, Points, Calls
<1>4. Live' = Live
  BY <1>0, <1>1, <1>3, IdleIs DEF Live
<1>5. CallInv'
  <2>1. OpKnown(op', DOMAIN held', top')
    BY <1>0, <1>1, <1>3 DEF OpKnown, Dest, Freeing, Mallocing, Asks, heap
  <2>2. Fits(op', md', held')
    BY <1>0, <1>1, <1>3, IdleIs DEF HeapInv, CallInv, Fits, heap
  <2>3. Clients(entering', retrying', DOMAIN held', top', op')
    BY <1>0, <1>1, FS_EmptySet DEF Clients
  <2> QED BY <2>1, <2>2, <2>3, <1>3 DEF CallInv
<1>6. OtherTypes'
  BY <1>1 DEF HeapInv, OtherTypes, heap
<1> QED BY <1>1, <1>4, <1>5, <1>6, Quiet DEF heap

\* The blocks after Give
LEMMA GiveIs ==
    ASSUME NEW v, NEW n, NEW b, Give(v, n, b)
    PROVE  /\ DOMAIN held' = (DOMAIN held \ {b}) \cup {v} /\ held'[v] = n
           /\ \A q \in DOMAIN held \ {b, v} : held'[q] = held[q]
BY DEF Give

\* What is known when _int_malloc has found a chunk
LEMMA GotKnown ==
    ASSUME HeapInv, At("got"), op.v # NULL
    PROVE  /\ entering = {} /\ retrying = {} /\ op \in OpType /\ op.p = NULL
           /\ Live = DOMAIN held \cup {op.v} /\ op.v \notin DOMAIN held /\ op.v \in Live
           /\ md[op.v].size >= op.nb /\ Asks(op, DOMAIN held)
           /\ op.nb >= 2 /\ op.nb \in Nat
           /\ \A q \in DOMAIN held : held[q] \in Requests /\ held[q] <= md[q].size
<1>1. /\ entering = {} /\ retrying = {} /\ op \in OpType
      /\ Live = DOMAIN held \cup ({op.v, op.p} \ {NULL})
  BY Busy DEF HeapInv, At
<1>2. OpKnown(op, DOMAIN held, top) /\ Fits(op, md, held)
  BY DEF HeapInv, CallInv
<1>3. Dest(op) = "got"
  BY DEF At, Dest, Freeing
<1>4. op.p = NULL /\ op.v \notin DOMAIN held /\ Asks(op, DOMAIN held)
  BY <1>2, <1>3 DEF OpKnown, At
<1>5. /\ md[op.v].size >= op.nb
      /\ \A q \in DOMAIN held : held[q] \in Requests /\ held[q] <= md[q].size
  BY <1>2, <1>3, <1>4 DEF Fits
<1>6. op.nb \in Nat /\ op.nb >= 2
  BY <1>1, <1>4, Constants DEF Asks, OpType
<1> QED BY <1>1, <1>4, <1>5, <1>6

LEMMA GotMallocInv == ASSUME HeapInv, GotMalloc PROVE HeapInv'
<1>v. PICK v : v = op.v
  OBVIOUS
<1>0. /\ entering = {} /\ retrying = {} /\ op \in OpType /\ op.p = NULL
      /\ Live = DOMAIN held \cup {v} /\ v \notin DOMAIN held
      /\ md[v].size >= op.nb /\ op.nb \in Requests
      /\ \A q \in DOMAIN held : held[q] \in Requests /\ held[q] <= md[q].size
  BY <1>v, GotKnown DEF GotMalloc, Asks
<1>1. op' = Idle /\ UNCHANGED <<heap, system, entering, retrying>>
  BY DEF GotMalloc
<1>2. /\ DOMAIN held' = DOMAIN held \cup {v} /\ held'[v] = op.nb
      /\ \A q \in DOMAIN held : held'[q] = held[q]
  <2>1. Give(v, op.nb, v)
    BY <1>v DEF GotMalloc
  <2>2. /\ DOMAIN held' = (DOMAIN held \ {v}) \cup {v} /\ held'[v] = op.nb
        /\ \A q \in DOMAIN held \ {v, v} : held'[q] = held[q]
    BY <2>1, GiveIs
  <2> QED BY <2>2, <1>0
<1>3. Live' = Live
  BY <1>0, <1>1, <1>2, IdleIs DEF Live
<1>4. CallInv'
  <2>1. OpKnown(op', DOMAIN held', top')
    BY <1>1, IdleIs DEF OpKnown, Dest, Freeing, Mallocing
  <2>2. Fits(op', md, held')
    BY <1>0, <1>1, <1>2, IdleIs DEF Fits
  <2>3. Clients(entering', retrying', DOMAIN held', top', op')
    BY <1>0, <1>1, FS_EmptySet DEF Clients
  <2> QED BY <2>1, <2>2, <2>3, <1>1, IdleIs DEF CallInv, heap
<1> QED BY <1>1, <1>3, <1>4, Quiet DEF HeapInv, OtherTypes, heap

\* The thread leaves the routine without a chunk; a realloc waits to try malloc.
LEMMA LeavesEmpty ==
    ASSUME HeapInv, At("got"), op.v = NULL, op' = Idle, UNCHANGED <<heap, system, held, entering>>,
           NEW r, r = [blk |-> op.blk, want |-> op.want],
           retrying' = retrying \/ (op.call = "realloc" /\ retrying' = retrying \cup {r})
    PROVE  HeapInv'
<1>0. /\ entering = {} /\ retrying = {} /\ op \in OpType
      /\ Live = DOMAIN held \cup ({op.v, op.p} \ {NULL})
  BY Busy DEF HeapInv, At
<1>1. OpKnown(op, DOMAIN held, top) /\ Fits(op, md, held)
  BY DEF HeapInv, CallInv
<1>2. op.v = NULL /\ op.p = NULL /\ Asks(op, DOMAIN held)
  <2>1. Dest(op) = "got"
    BY DEF At, Dest, Freeing
  <2> QED BY <2>1, <1>1 DEF OpKnown, At
<1>3. retrying' = {} \/ (op.call = "realloc" /\ retrying' = {r})
  BY <1>0
<1>4. r \in [blk : Int, want : Nat] /\ r.blk = op.blk /\ r.want = op.want
  BY <1>0 DEF OpType
<1>5. Live' = Live
  BY <1>0, <1>2, <1>3, IdleIs DEF Live
<1>6. CallInv'
  <2>1. OpKnown(op', DOMAIN held', top')
    BY <1>3, IdleIs DEF OpKnown, Dest, Freeing, Mallocing
  <2>2. Fits(op', md', held')
    BY <1>1, <1>2, <1>3, IdleIs DEF Fits, heap
  <2>3. IsFiniteSet(retrying') /\ IsFiniteSet(entering')
    <3>1. entering' = {} /\ (retrying' = {} \/ retrying' = {r})
      BY <1>0, <1>3
    <3>2. IsFiniteSet({}) /\ IsFiniteSet({r})
      BY FS_EmptySet, FS_Singleton
    <3> QED BY <3>1, <3>2
  <2>4. op.call = "realloc" => op.blk \in DOMAIN held /\ op.want \in Requests
    BY <1>2 DEF Asks
  <2>5. Clients(entering', retrying', DOMAIN held', top', op')
    BY <1>0, <1>3, <1>4, <2>3, <2>4 DEF Clients
  <2> QED BY <2>1, <2>2, <2>5, <1>3, IdleIs DEF CallInv
<1> QED BY <1>3, <1>5, <1>6, Quiet DEF HeapInv, OtherTypes, heap

LEMMA GotNullInv == ASSUME HeapInv, GotNull PROVE HeapInv'
BY LeavesEmpty DEF GotNull, client

LEMMA GotReallocNullInv == ASSUME HeapInv, GotReallocNull PROVE HeapInv'
<1>1. CASE op' = Idle
  BY <1>1, LeavesEmpty, IdleIs DEF GotReallocNull, GoTo, client
<1>2. CASE GoTo("null_load") /\ UNCHANGED retrying
  BY <1>2, StopsInv DEF GotReallocNull, At, client
<1> QED BY <1>1, <1>2 DEF GotReallocNull

LEMMA GotRetryInv == ASSUME HeapInv, GotRetry PROVE HeapInv'
<1>v. PICK v : v = op.v
  OBVIOUS
<1>b. PICK b : b = op.blk
  OBVIOUS
<1>0. /\ entering = {} /\ retrying = {} /\ op \in OpType /\ op.p = NULL
      /\ Live = DOMAIN held \cup {v} /\ v \notin DOMAIN held /\ b \in DOMAIN held
      /\ md[v].size >= op.want /\ op.want \in Requests
      /\ \A q \in DOMAIN held : held[q] \in Requests /\ held[q] <= md[q].size
  BY <1>v, <1>b, GotKnown DEF GotRetry, Asks
<1>f. PICK f : f = [p |-> b, tc |-> top]
  OBVIOUS
<1>1. op' = Idle /\ UNCHANGED <<heap, system, retrying>> /\ entering' = {f}
  BY <1>0, <1>b, <1>f DEF GotRetry
<1>2. /\ DOMAIN held' = (DOMAIN held \ {b}) \cup {v} /\ held'[v] = op.want
      /\ \A q \in DOMAIN held \ {b} : held'[q] = held[q]
  <2>1. Give(v, op.want, b)
    BY <1>v, <1>b DEF GotRetry
  <2>2. /\ DOMAIN held' = (DOMAIN held \ {b}) \cup {v} /\ held'[v] = op.want
        /\ \A q \in DOMAIN held \ {b, v} : held'[q] = held[q]
    BY <2>1, GiveIs
  <2> QED BY <2>2, <1>0
<1>3. f \in [p : Int, tc : Int] /\ f.p = b /\ f.tc = top
  <2>1. b \in Live /\ LayoutInv
    BY <1>0 DEF HeapInv
  <2>2. b \in Int
    BY <2>1, LiveChunks
  <2>3. top \in Int
    BY <2>1, LiveChunks, OneChunk DEF LayoutInv, Heap, HeapBut, Tagged
  <2> QED BY <2>2, <2>3, <1>f
<1>4. Live' = Live
  BY <1>0, <1>1, <1>2, <1>3, IdleIs DEF Live
<1>5. CallInv'
  <2>1. OpKnown(op', DOMAIN held', top')
    BY <1>1, IdleIs DEF OpKnown, Dest, Freeing, Mallocing
  <2>2. Fits(op', md, held')
    BY <1>0, <1>1, <1>2, IdleIs DEF Fits
  <2>3. IsFiniteSet(retrying') /\ IsFiniteSet(entering')
    BY <1>0, <1>1, FS_EmptySet, FS_Singleton
  <2>4. top' = top /\ md' = md
    BY <1>1 DEF heap
  <2>5. Clients(entering', retrying', DOMAIN held', top', op')
    BY <1>0, <1>1, <1>2, <1>3, <2>3, <2>4 DEF Clients
  <2> QED BY <2>1, <2>2, <2>4, <2>5, <1>1, IdleIs DEF CallInv
<1> QED BY <1>1, <1>4, <1>5, Quiet DEF HeapInv, OtherTypes, heap

LEMMA GotReallocMoveInv == ASSUME HeapInv, GotReallocMove PROVE HeapInv'
<1>v. PICK v : v = op.v
  OBVIOUS
<1>b. PICK b : b = op.blk
  OBVIOUS
<1>0. /\ entering = {} /\ retrying = {} /\ op \in OpType /\ op.p = NULL
      /\ Live = DOMAIN held \cup {v} /\ v \notin DOMAIN held /\ b \in DOMAIN held
      /\ md[v].size >= op.want /\ op.want \in Requests
      /\ \A q \in DOMAIN held : held[q] \in Requests /\ held[q] <= md[q].size
  BY <1>v, <1>b, GotKnown DEF GotReallocMove, Asks
<1>1. UNCHANGED <<heap, system, entering, retrying>>
  BY DEF GotReallocMove
<1>2. /\ DOMAIN held' = (DOMAIN held \ {b}) \cup {v} /\ held'[v] = op.want
      /\ \A q \in DOMAIN held \ {b} : held'[q] = held[q]
  <2>1. Give(v, op.want, b)
    BY <1>v, <1>b DEF GotReallocMove
  <2>2. /\ DOMAIN held' = (DOMAIN held \ {b}) \cup {v} /\ held'[v] = op.want
        /\ \A q \in DOMAIN held \ {b, v} : held'[q] = held[q]
    BY <2>1, GiveIs
  <2> QED BY <2>2, <1>0
<1>3. b \in Int /\ v \in Int /\ top \in Int /\ b # NULL
  <2>1. b \in Live /\ LayoutInv
    BY <1>0 DEF HeapInv
  <2>2. b \in Int /\ b # NULL
    BY <2>1, LiveChunks
  <2>3. top \in Int
    BY <2>1, LiveChunks, OneChunk DEF LayoutInv, Heap, HeapBut, Tagged
  <2> QED BY <2>2, <2>3, <1>0, <1>v DEF OpType
<1>4. /\ op' \in OpType /\ op'.at = "free" /\ op'.p = b /\ op'.tc = top
      /\ op'.then = "done" /\ op'.v = NULL
  <2>1. op' = [[op EXCEPT !.at = "free", !.p = b, !.tc = top, !.then = "done"]
                  EXCEPT !.v = NULL, !.blk = v]
    BY <1>v, <1>b DEF GotReallocMove, FreeThen
  <2>2. NULL \in Int
    BY DEF NULL
  <2>3. PICK r : r = [op EXCEPT !.at = "free", !.p = b, !.tc = top, !.then = "done"]
    OBVIOUS
  <2>4. /\ r \in OpType /\ r.at = "free" /\ r.p = b /\ r.tc = top /\ r.then = "done"
    BY <2>3, <1>0, <1>3 DEF OpType, Points
  <2>5. op' = [r EXCEPT !.v = NULL, !.blk = v]
    BY <2>1, <2>3
  <2> QED BY <2>2, <2>4, <2>5, <1>3 DEF OpType
<1>5. Live' = Live
  BY <1>0, <1>1, <1>2, <1>3, <1>4 DEF Live
<1>6. CallInv'
  <2>1. OpKnown(op', DOMAIN held', top')
    <3>1. b \notin DOMAIN held' /\ top' = top
      BY <1>0, <1>1, <1>2 DEF heap
    <3> QED BY <3>1, <1>3, <1>4 DEF OpKnown, Dest, Freeing, Mallocing
  <2>2. Fits(op', md, held')
    BY <1>0, <1>1, <1>2, <1>4 DEF Fits
  <2>3. Clients(entering', retrying', DOMAIN held', top', op')
    BY <1>0, <1>1, FS_EmptySet DEF Clients
  <2> QED BY <2>1, <2>2, <2>3, <1>1, <1>4 DEF CallInv, heap
<1> QED BY <1>1, <1>5, <1>6, Quiet DEF HeapInv, OtherTypes, heap

LEMMA DoneInv == ASSUME HeapInv, Done PROVE HeapInv'
<1>v. PICK v : v = op.v
  OBVIOUS
<1>0. /\ entering = {} /\ retrying = {} /\ op \in OpType
      /\ Live = DOMAIN held \cup ({op.v, op.p} \ {NULL})
  BY Busy DEF HeapInv, Done, At
<1>1. OpKnown(op, DOMAIN held, top) /\ Fits(op, md, held)
  BY DEF HeapInv, CallInv
<1>2. op.p = NULL /\ Dest(op) = "done" /\ (v = NULL \/ op.want \in Requests)
  BY <1>1, <1>v DEF OpKnown, Done, At, Dest, Freeing
<1>3. op' = Idle /\ UNCHANGED <<heap, system, entering, retrying>>
  BY DEF Done
<1>4. CASE v = NULL
  <2>1. held' = held
    BY <1>4, <1>v DEF Done
  <2>2. Live' = Live
    <3>1. op.v = NULL /\ op.p = NULL
      BY <1>2, <1>4, <1>v
    <3>2. Live = DOMAIN held
      BY <3>1, <1>0
    <3>3. entering' = {} /\ op'.v = NULL /\ op'.p = NULL
      BY <1>0, <1>3, IdleIs
    <3> QED BY <2>1, <3>2, <3>3 DEF Live
  <2>3. CallInv'
    <3>1. OpKnown(op', DOMAIN held', top')
      BY <1>3, IdleIs DEF OpKnown, Dest, Freeing, Mallocing
    <3>2. Fits(op', md, held')
      BY <2>1, <1>1, <1>3, <1>4, <1>v, IdleIs DEF Fits
    <3>3. Clients(entering', retrying', DOMAIN held', top', op')
      BY <1>0, <1>3, FS_EmptySet DEF Clients
    <3> QED BY <3>1, <3>2, <3>3, <1>3, IdleIs DEF CallInv, heap
  <2> QED BY <2>2, <2>3, <1>3, Quiet DEF HeapInv, OtherTypes, heap
<1>5. CASE v # NULL
  <2>1. Give(v, op.want, v)
    BY <1>5, <1>v DEF Done
  <2>2. /\ DOMAIN held' = DOMAIN held \cup {v} /\ held'[v] = op.want
        /\ \A q \in DOMAIN held \ {v} : held'[q] = held[q]
    <3>1. /\ DOMAIN held' = (DOMAIN held \ {v}) \cup {v} /\ held'[v] = op.want
          /\ \A q \in DOMAIN held \ {v, v} : held'[q] = held[q]
      BY <2>1, GiveIs
    <3> QED BY <3>1
  <2>3. Live' = Live
    BY <2>2, <1>0, <1>2, <1>3, <1>5, <1>v, IdleIs DEF Live
  <2>4. CallInv'
    <3>1. OpKnown(op', DOMAIN held', top')
      BY <1>3, IdleIs DEF OpKnown, Dest, Freeing, Mallocing
    <3>2. md[v].size >= op.want
      BY <1>1, <1>2, <1>5, <1>v DEF Fits
    <3>3. Fits(op', md, held')
      BY <2>2, <3>2, <1>1, <1>2, <1>3, <1>5, <1>v, IdleIs DEF Fits
    <3>4. Clients(entering', retrying', DOMAIN held', top', op')
      BY <1>0, <1>3, FS_EmptySet DEF Clients
    <3> QED BY <3>1, <3>3, <3>4, <1>3, IdleIs DEF CallInv, heap
  <2> QED BY <2>3, <2>4, <1>3, Quiet DEF HeapInv, OtherTypes, heap
<1> QED BY <1>4, <1>5

(***************************************************************************)
(* malloc takes a chunk                                                    *)
(***************************************************************************)
LEMMA LayoutAgain ==
    ASSUME NEW B, NEW F, NEW L, Heap(md', top', seams', owned', B, F, L),
           Lists(bins', BinIdx), Members(bins', BinIdx) = B,
           Lists(fastbins', Smalls), Members(fastbins', Smalls) = F, Live' = L,
           SizedLists(fastbins', md'), Sorted(bins', md')
    PROVE  LayoutInv'
<1>1. Binned' = Members(bins', BinIdx) /\ Fast' = Members(fastbins', Smalls)
  BY DEF Binned, Fast, Members
<1> QED BY <1>1 DEF LayoutInv

LEMMA SizedSame ==
    ASSUME NEW f, NEW m, SizedLists(f, m),
           NEW z, \A x \in Members(f, Smalls) : z[x].size = m[x].size
    PROVE  SizedLists(f, z)
<1>1. \A s \in Smalls : \A k \in DOMAIN f[s] : f[s][k] \in Members(f, Smalls)
  BY IsMember
<1> QED BY <1>1 DEF SizedLists

LEMMA SizedDrop ==
    ASSUME NEW f, Lists(f, Smalls), NEW m, SizedLists(f, m), NEW i, NEW k, NEW c,
           Dropped(f, Smalls, i, k, c)
    PROVE  SizedLists(c, m)
<1> SUFFICES ASSUME NEW s \in Smalls, NEW j \in DOMAIN c[s] PROVE m[c[s][j]].size = s
  BY DEF SizedLists
<1>1. CASE s # i
  BY <1>1 DEF Dropped, SizedLists
<1>2. CASE s = i
  <2>1. f[i] \in Seq(Int) /\ k \in DOMAIN f[i] /\ Removed(f[i], k, c[i])
    BY DEF Dropped, Lists
  <2>2. Matches(f[i], k, c[i])
    BY <2>1, RemovedFrom
  <2>3. PICK x \in DOMAIN f[i] : c[i][j] = f[i][x]
    BY <2>2, <1>2 DEF Matches
  <2> QED BY <2>3, <1>2 DEF SizedLists
<1> QED BY <1>1, <1>2

LEMMA SizedAdd ==
    ASSUME NEW f, Lists(f, Smalls), NEW m, SizedLists(f, m), NEW i, NEW k, NEW v, NEW c,
           Added(f, Smalls, i, k, v, c), m[v].size = i
    PROVE  SizedLists(c, m)
<1> SUFFICES ASSUME NEW s \in Smalls, NEW j \in DOMAIN c[s] PROVE m[c[s][j]].size = s
  BY DEF SizedLists
<1>1. CASE s # i
  BY <1>1 DEF Added, SizedLists
<1>2. CASE s = i
  <2>1. f[i] \in Seq(Int) /\ Inserted(f[i], k, v, c[i])
    BY <1>2 DEF Added, Lists
  <2>2. Spreads(f[i], k, v, c[i])
    BY <2>1, InsertedFrom
  <2>3. CASE j = k
    BY <2>2, <2>3, <1>2 DEF Spreads
  <2>4. CASE j # k
    <3>1. PICK x \in DOMAIN f[i] : c[i][j] = f[i][x]
      BY <2>2, <2>4, <1>2 DEF Spreads
    <3> QED BY <3>1, <1>2 DEF SizedLists
  <2> QED BY <2>3, <2>4
<1> QED BY <1>1, <1>2

\* The top chunk ends where it ended, and is still the last one.
SameEnd(m, t, z, t2) ==
    /\ t # InitialTop /\ t2 # InitialTop /\ t2 + z[t2].size = t + m[t].size
    /\ (\A c \in ChunksOf(m) : c <= t) => (\A c \in ChunksOf(z) : c <= t2)

LEMMA MemoryKept ==
    ASSUME MemoryInv, UNCHANGED system, SameEnd(md, top, md', top')
    PROVE  MemoryInv'
<1>1. UNCHANGED <<brk, mmap_lo, contiguous, system_mem, sbrk_base, sbrk_regions, owned, seams>>
  BY DEF system
<1>2. contiguous => InOneRegion /\ InOneRegion'
  BY <1>1 DEF MemoryInv, SameEnd, InOneRegion
<1>3. Paged'
  BY DEF MemoryInv, SameEnd, Paged, system
<1> QED BY <1>1, <1>2, <1>3 DEF MemoryInv, SameEnd

\* _int_malloc has found v, a chunk that is large enough; no chunk in use has changed.
Found(v, m, z) ==
    /\ op.at \in Mallocing /\ v \in Nat /\ v \notin Live /\ z[v].size >= op.nb
    /\ \A q \in Live : z[q].size = m[q].size

LEMMA Finds ==
    ASSUME HeapInv, NEW v, Got(v), UNCHANGED client, Found(v, md, md')
    PROVE  CallInv' /\ Live' = Live \cup {v}
<1>a. /\ op.at \in Mallocing /\ v \in Nat /\ v \notin Live /\ md'[v].size >= op.nb
      /\ \A q \in Live : md'[q].size = md[q].size
  BY DEF Found
<1>g. op' = [op EXCEPT !.at = "got", !.v = v]
  BY DEF Got
<1>0. /\ entering = {} /\ retrying = {} /\ op \in OpType
      /\ Live = DOMAIN held \cup ({op.v, op.p} \ {NULL})
  BY <1>a, Busy DEF HeapInv, At, Mallocing
<1>1. OpKnown(op, DOMAIN held, top) /\ Fits(op, md, held)
  BY DEF HeapInv, CallInv
<1>2. op.v = NULL /\ op.p = NULL /\ Asks(op, DOMAIN held)
  BY <1>a, <1>1 DEF OpKnown, Dest, Freeing, Mallocing
<1>3. v \in Int /\ v # NULL
  BY <1>a, Distinct
<1>4. /\ op' \in OpType /\ op'.at = "got" /\ op'.v = v /\ op'.p = NULL /\ op'.nb = op.nb
      /\ op'.want = op.want /\ op'.blk = op.blk /\ op'.align = op.align /\ op'.call = op.call
  BY <1>0, <1>2, <1>3, <1>g DEF OpType, Points
<1>5. Live = DOMAIN held /\ Live' = Live \cup {v} /\ v \notin DOMAIN held
  BY <1>a, <1>0, <1>2, <1>3, <1>4 DEF Live, client
<1>6. OpKnown(op', DOMAIN held', top')
  <2>1. Asks(op', DOMAIN held)
    BY <1>2, <1>4 DEF Asks
  <2>2. DOMAIN held' = DOMAIN held
    BY DEF client
  <2> QED BY <2>1, <2>2, <1>4, <1>5 DEF OpKnown, Dest, Freeing, Mallocing
<1>7. Fits(op', md', held')
  <2>1. held' = held /\ Dest(op') = "got"
    BY <1>4 DEF client, Dest, Freeing
  <2>2. ASSUME NEW q \in DOMAIN held
        PROVE  held[q] \in Requests /\ held[q] <= md[q].size /\ md'[q].size = md[q].size
    <3>1. q \in Live /\ LayoutInv
      BY <1>5 DEF HeapInv
    <3>2. q # op.v
      BY <3>1, <1>2, LiveChunks
    <3> QED BY <3>1, <3>2, <1>1, <1>a DEF Fits
  <2>3. \A q \in DOMAIN held : held[q] \in Requests /\ held[q] <= md'[q].size
    BY <2>2
  <2> QED BY <2>1, <2>3, <1>4, <1>a DEF Fits
<1>8. Clients(entering', retrying', DOMAIN held', top', op')
  BY <1>0, FS_EmptySet DEF Clients, client
<1> QED BY <1>4, <1>5, <1>6, <1>7, <1>8 DEF CallInv

LEMMA TakesChunk ==
    ASSUME HeapInv, NEW v, Got(v), Found(v, md, md'), UNCHANGED client, UNCHANGED system,
           SameEnd(md, top, md', top'), OtherTypes',
           NEW B, NEW F, Heap(md', top', seams, owned, B, F, Live \cup {v}),
           Lists(bins', BinIdx), Members(bins', BinIdx) = B,
           Lists(fastbins', Smalls), Members(fastbins', Smalls) = F,
           SizedLists(fastbins', md'), Sorted(bins', md')
    PROVE  HeapInv'
<1>1. CallInv' /\ Live' = Live \cup {v}
  BY Finds
<1>2. seams' = seams /\ owned' = owned
  BY DEF system
<1>3. Heap(md', top', seams', owned', B, F, Live')
  BY <1>1, <1>2
<1>4. LayoutInv'
  BY <1>3, LayoutAgain
<1>5. MemoryInv'
  BY MemoryKept DEF HeapInv
<1> QED BY <1>1, <1>4, <1>5 DEF HeapInv

\* What the invariant says of the lists and of the chunks in them.
LEMMA HeapIs ==
    ASSUME LayoutInv
    PROVE  /\ Heap(md, top, seams, owned, Binned, Fast, Live)
           /\ Heap(md, top, seams, owned, Members(bins, BinIdx), Members(fastbins, Smalls), Live)
           /\ Lists(bins, BinIdx) /\ Lists(fastbins, Smalls)
           /\ SizedLists(fastbins, md) /\ Sorted(bins, md)
           /\ Binned = Members(bins, BinIdx) /\ Fast = Members(fastbins, Smalls)
           /\ Geo(md, top, seams, owned)
BY MembersOf DEF LayoutInv, Heap, HeapBut, Tagged

\* A chunk of a list.
LEMMA ListedChunks ==
    ASSUME LayoutInv, NEW p \in Binned \cup Fast
    PROVE  /\ p \in ChunksOf(md) /\ p # top /\ p \notin seams /\ p \in DOMAIN md
           /\ p \in Nat /\ p # NULL /\ md[p] \in Chunk /\ md[p].size \in Nat
           /\ md[p].size >= 2 /\ p \notin Live /\ (p \in Binned <=> p \notin Fast)
           /\ top # InitialTop /\ top \in DOMAIN md
<1>1. Heap(md, top, seams, owned, Binned, Fast, Live)
  BY HeapIs
<1>2. HeapBut(md, top, seams, owned, Binned, Fast, Live, {})
      /\ Places(md, top, Binned, Fast, Live)
  BY <1>1 DEF Heap, HeapBut
<1>3. p \in Binned \cup Fast \cup Live
  OBVIOUS
<1>4. /\ p \in ChunksOf(md) /\ p # top /\ p \notin seams /\ p \in DOMAIN md /\ p \in Nat
      /\ md[p] \in Chunk /\ md[p].size \in Nat /\ md[p].size >= MINSIZE
      /\ top \in ChunksOf(md) /\ top # InitialTop
  BY <1>2, <1>3, Proper
<1>5. p \notin Live /\ (p \in Binned <=> p \notin Fast)
  BY <1>2 DEF Places
<1> QED BY <1>4, <1>5, Distinct DEF ChunksOf

LEMMA SameEndStill == ASSUME NEW m, NEW t, t # InitialTop PROVE SameEnd(m, t, m, t)
BY DEF SameEnd

LEMMA MallocFastInv == ASSUME HeapInv, MallocFast PROVE HeapInv'
<1>i. PICK i : i = op.nb
  OBVIOUS
<1>v. PICK v : v = Head(fastbins[op.nb])
  OBVIOUS
<1>b. PICK b : b = fastbins
  OBVIOUS
<1>0. LayoutInv /\ op \in OpType /\ op.at \in Mallocing
  BY Busy DEF HeapInv, MallocFast, At, Mallocing
<1>1. /\ Heap(md, top, seams, owned, Members(bins, BinIdx), Members(fastbins, Smalls), Live)
      /\ Lists(bins, BinIdx) /\ Lists(fastbins, Smalls)
      /\ SizedLists(fastbins, md) /\ Sorted(bins, md)
      /\ Fast = Members(fastbins, Smalls)
  BY <1>0, HeapIs
<1>2. i \in Smalls /\ fastbins[i] # <<>> /\ i >= 2
  <2>1. op.v = NULL /\ op.p = NULL /\ Asks(op, DOMAIN held)
    BY <1>0 DEF HeapInv, CallInv, OpKnown, Dest, Freeing, Mallocing, MallocFast, At
  <2>2. i \in Nat /\ i >= 2
    BY <2>1, <1>i, <1>0, Constants DEF Asks, OpType
  <2>3. i <= MaxFast /\ fastbins[i] # <<>>
    BY <1>i DEF MallocFast, FastHit
  <2> QED BY <2>2, <2>3, Constants DEF Smalls
<1>3. fastbins \in [Smalls -> Seq(Int)]
  BY <1>1 DEF Lists
<1>4. fastbins' = [fastbins EXCEPT ![i] = Tail(@)]
  BY <1>i DEF MallocFast
<1>5. Dropped(fastbins, Smalls, i, 1, fastbins')
  BY <1>2, <1>3, <1>4, PopFast
<1>6. v = fastbins[i][1] /\ 1 \in DOMAIN fastbins[i]
  BY <1>5, <1>v, <1>i DEF Dropped
<1>7. v \in Fast /\ md[v].size = i
  BY <1>1, <1>2, <1>6, IsMember DEF SizedLists
<1>8. /\ Lists(fastbins', Smalls)
      /\ Members(fastbins', Smalls) = Members(fastbins, Smalls) \ {v}
      /\ SizedLists(fastbins', md)
  BY <1>1, <1>5, <1>6, DropLists, SizedDrop
<1>9. v \in Nat /\ v \notin Live /\ top # InitialTop
  BY <1>0, <1>7, ListedChunks
<1>10. Heap(md, top, seams, owned, Members(bins, BinIdx),
            Members(fastbins, Smalls) \ {v}, Live \cup {v})
  BY <1>1, <1>7, UseFast
<1>11. UNCHANGED <<md, bins, binmap, have_fast, top, last_remainder, system, client>>
       /\ op' = [op EXCEPT !.at = "got", !.v = v]
  BY <1>v DEF MallocFast, Got
<1>12. SameEnd(md, top, md', top')
  BY <1>9, <1>11, SameEndStill
<1>13. OtherTypes'
  BY <1>11 DEF HeapInv, OtherTypes
<1>14. Found(v, md, md')
  BY <1>0, <1>7, <1>9, <1>11, <1>i DEF OpType, Found
<1>B. PICK B : B = Members(bins, BinIdx)
  OBVIOUS
<1>F. PICK F : F = Members(fastbins, Smalls) \ {v}
  OBVIOUS
<1>15. Heap(md', top', seams, owned, B, F, Live \cup {v})
  BY <1>10, <1>11, <1>B, <1>F
<1>16. /\ Lists(bins', BinIdx) /\ Members(bins', BinIdx) = B
       /\ Lists(fastbins', Smalls) /\ Members(fastbins', Smalls) = F
       /\ SizedLists(fastbins', md') /\ Sorted(bins', md')
  BY <1>1, <1>8, <1>11, <1>B, <1>F
<1>17. UNCHANGED client /\ UNCHANGED system /\ Got(v)
  BY <1>11, <1>v DEF MallocFast
<1> QED BY <1>12, <1>13, <1>14, <1>15, <1>16, <1>17, TakesChunk

(***************************************************************************)
(* The order of the bins                                                   *)
(***************************************************************************)
LEMMA SortedSame ==
    ASSUME NEW b, NEW m, Sorted(b, m),
           NEW z, \A x \in Members(b, BinIdx) : z[x].size = m[x].size
    PROVE  Sorted(b, z)
<1>1. \A i \in BinIdx : \A k \in DOMAIN b[i] : b[i][k] \in Members(b, BinIdx)
  BY IsMember
<1> SUFFICES ASSUME NEW i \in BinIdx \ {UNSORTED}
             PROVE  /\ \A k \in DOMAIN b[i] : BinIndex(z[b[i][k]].size) = i
                    /\ \A k, l \in DOMAIN b[i] : k < l => z[b[i][k]].size >= z[b[i][l]].size
  BY DEF Sorted
<1>2. /\ \A k \in DOMAIN b[i] : BinIndex(m[b[i][k]].size) = i
      /\ \A k, l \in DOMAIN b[i] : k < l => m[b[i][k]].size >= m[b[i][l]].size
  BY DEF Sorted
<1> QED BY <1>1, <1>2

LEMMA SortedDrop ==
    ASSUME NEW b, Lists(b, BinIdx), NEW m, Sorted(b, m), NEW i, NEW k, NEW c,
           Dropped(b, BinIdx, i, k, c)
    PROVE  Sorted(c, m)
<1> SUFFICES ASSUME NEW j \in BinIdx \ {UNSORTED}
             PROVE  /\ \A x \in DOMAIN c[j] : BinIndex(m[c[j][x]].size) = j
                    /\ \A x, y \in DOMAIN c[j] : x < y => m[c[j][x]].size >= m[c[j][y]].size
  BY DEF Sorted
<1>1. /\ \A x \in DOMAIN b[j] : BinIndex(m[b[j][x]].size) = j
      /\ \A x, y \in DOMAIN b[j] : x < y => m[b[j][x]].size >= m[b[j][y]].size
  BY DEF Sorted
<1>2. CASE j # i
  BY <1>1, <1>2 DEF Dropped
<1>3. CASE j = i
  <2>1. b[i] \in Seq(Int) /\ k \in DOMAIN b[i] /\ Removed(b[i], k, c[i]) /\ c[i] \in Seq(Int)
    BY DEF Dropped, Lists
  <2>2. Matches(b[i], k, c[i])
    BY <2>1, RemovedFrom
  <2>f. DEFINE f(x) == IF x < k THEN x ELSE x + 1
  <2>3. \A x \in DOMAIN c[i] : f(x) \in DOMAIN b[i] /\ c[i][x] = b[i][f(x)]
    BY <2>2 DEF Matches
  <2>i. k \in Int /\ DOMAIN c[i] \subseteq Int
    BY <2>1
  <2>4. \A x, y \in DOMAIN c[i] : x < y => f(x) < f(y)
    <3>1. \A x, y \in Int : x < y => f(x) < f(y)
      BY <2>i
    <3> QED BY <3>1, <2>i
  <2> HIDE DEF f
  <2> QED BY <1>1, <1>3, <2>3, <2>4
<1> QED BY <1>2, <1>3

LEMMA SortedPush ==
    ASSUME NEW b, NEW m, Sorted(b, m), NEW k, NEW v, NEW c, Added(b, BinIdx, UNSORTED, k, v, c)
    PROVE  Sorted(c, m)
<1>1. \A j \in BinIdx \ {UNSORTED} : c[j] = b[j]
  BY DEF Added
<1> QED BY <1>1 DEF Sorted

\* v goes where it belongs
InPlace(s, m, k, v) ==
    \A j \in DOMAIN s : IF j < k THEN m[s[j]].size >= m[v].size ELSE m[v].size >= m[s[j]].size

LEMMA SortedFile ==
    ASSUME NEW b, Lists(b, BinIdx), NEW m, Sorted(b, m), NEW i, NEW k, NEW v, NEW c,
           Added(b, BinIdx, i, k, v, c), BinIndex(m[v].size) = i, InPlace(b[i], m, k, v)
    PROVE  Sorted(c, m)
<1> SUFFICES ASSUME NEW j \in BinIdx \ {UNSORTED}
             PROVE  /\ \A x \in DOMAIN c[j] : BinIndex(m[c[j][x]].size) = j
                    /\ \A x, y \in DOMAIN c[j] : x < y => m[c[j][x]].size >= m[c[j][y]].size
  BY DEF Sorted
<1>1. /\ \A x \in DOMAIN b[j] : BinIndex(m[b[j][x]].size) = j
      /\ \A x, y \in DOMAIN b[j] : x < y => m[b[j][x]].size >= m[b[j][y]].size
  BY DEF Sorted
<1>2. CASE j # i
  BY <1>1, <1>2 DEF Added
<1>3. CASE j = i
  <2>1. b[i] \in Seq(Int) /\ Inserted(b[i], k, v, c[i]) /\ c[i] \in Seq(Int)
        /\ k \in 1 .. Len(b[i]) + 1
    BY <1>3 DEF Added, Lists, Inserted
  <2>2. Spreads(b[i], k, v, c[i])
    BY <2>1, InsertedFrom
  <2>f. DEFINE f(x) == IF x < k THEN x ELSE x - 1
  <2>3. \A x \in DOMAIN c[i] \ {k} : f(x) \in DOMAIN b[i] /\ c[i][x] = b[i][f(x)]
    BY <2>2 DEF Spreads
  <2>k. c[i][k] = v
    BY <2>2 DEF Spreads
  <2>i. k \in Int /\ DOMAIN c[i] \subseteq Int
    BY <2>1
  <2>4. /\ \A x, y \in DOMAIN c[i] \ {k} : x < y => f(x) < f(y)
        /\ \A x \in DOMAIN c[i] : x < k => f(x) < k
        /\ \A x \in DOMAIN c[i] : k < x => ~(f(x) < k)
    <3>1. /\ \A x, y \in Int \ {k} : x < y => f(x) < f(y)
          /\ \A x \in Int : x < k => f(x) < k
          /\ \A x \in Int : k < x => ~(f(x) < k)
      BY <2>i
    <3> QED BY <3>1, <2>i
  <2>5. \A x \in DOMAIN b[i] : IF x < k THEN m[b[i][x]].size >= m[v].size
                                        ELSE m[v].size >= m[b[i][x]].size
    BY DEF InPlace
  <2> HIDE DEF f
  <2>6. \A x \in DOMAIN c[i] : BinIndex(m[c[i][x]].size) = i
    BY <1>1, <1>3, <2>3, <2>k
  <2>7. ASSUME NEW x \in DOMAIN c[i], NEW y \in DOMAIN c[i], x < y
        PROVE  m[c[i][x]].size >= m[c[i][y]].size
    <3>1. CASE x # k /\ y # k
      BY <1>1, <1>3, <2>3, <2>4, <2>7, <3>1
    <3>2. CASE x = k
      <4>1. y # k /\ ~(f(y) < k)
        BY <2>1, <2>4, <2>7, <3>2
      <4> QED BY <4>1, <2>3, <2>5, <2>k, <3>2
    <3>3. CASE y = k
      <4>1. x # k /\ f(x) < k
        BY <2>1, <2>4, <2>7, <3>3
      <4> QED BY <4>1, <2>3, <2>5, <2>k, <3>3
    <3> QED BY <3>1, <3>2, <3>3
  <2> QED BY <2>6, <2>7, <1>3
<1> QED BY <1>2, <1>3

LEMMA MarksDrop ==
    ASSUME NEW b, Lists(b, BinIdx), NEW map, Marks(b, map), NEW i, NEW k, NEW c,
           Dropped(b, BinIdx, i, k, c)
    PROVE  Marks(c, map)
<1>1. b[i] # <<>> /\ \A j \in BinIdx \ {i} : c[j] = b[j]
  BY DEF Dropped
<1> QED BY <1>1 DEF Marks

LEMMA MarksPush ==
    ASSUME NEW b, NEW map, Marks(b, map), NEW k, NEW v, NEW c,
           Added(b, BinIdx, UNSORTED, k, v, c)
    PROVE  Marks(c, map)
BY DEF Added, Marks

(***************************************************************************)
(* A free chunk is taken                                                   *)
(***************************************************************************)
\* what _int_malloc may do to the rest of the state when it takes a binned chunk
RestKept ==
    /\ UNCHANGED <<fastbins, top, system, client>>
    /\ binmap' \subseteq BinIdx /\ Marks(bins, binmap')
    /\ have_fast' \in BOOLEAN /\ last_remainder' \in Int

\* The chunk that _int_malloc is asked for.
LEMMA Asked ==
    ASSUME HeapInv, op.at \in Mallocing
    PROVE  /\ op.nb \in Nat /\ op.nb >= 2 /\ op.v = NULL /\ op.p = NULL
           /\ Asks(op, DOMAIN held) /\ LayoutInv /\ op \in OpType
<1>0. LayoutInv /\ op \in OpType
  BY Busy DEF HeapInv, Mallocing, At
<1>1. op.v = NULL /\ op.p = NULL /\ Asks(op, DOMAIN held)
  BY <1>0 DEF HeapInv, CallInv, OpKnown, Dest, Freeing, Mallocing
<1>2. op.nb \in Nat /\ op.nb >= 2
  <2>1. op.want \in Nat /\ op.align \in Nat /\ op.nb \in Nat
    BY <1>0 DEF OpType
  <2>2. op.nb \in Requests \/ op.nb = op.want + op.align + 2
    BY <1>1, Constants DEF Asks
  <2> QED BY <2>1, <2>2, Constants
<1> QED BY <1>0, <1>1, <1>2

LEMMA TakeWholeInv ==
    ASSUME HeapInv, op.at \in Mallocing, NEW i, NEW k, NEW v, v = bins[i][k],
           Dropped(bins, BinIdx, i, k, bins'), md[v].size >= op.nb,
           md' = SetInuse(md, v), Got(v), RestKept
    PROVE  HeapInv'
<1>0. LayoutInv
  BY DEF HeapInv
<1>1. /\ Heap(md, top, seams, owned, Binned, Fast, Live)
      /\ Lists(bins, BinIdx) /\ Lists(fastbins, Smalls)
      /\ SizedLists(fastbins, md) /\ Sorted(bins, md)
      /\ Binned = Members(bins, BinIdx) /\ Fast = Members(fastbins, Smalls)
  BY <1>0, HeapIs
<1>2. v \in Binned
  <2>1. i \in BinIdx /\ k \in DOMAIN bins[i]
    BY DEF Dropped
  <2> QED BY <2>1, <1>1, IsMember
<1>3. /\ v \in Nat /\ v \notin Live /\ top # InitialTop /\ top \in DOMAIN md
      /\ md[v].size \in Nat
  BY <1>0, <1>2, ListedChunks
<1>B. PICK B : B = Binned \ {v}
  OBVIOUS
<1>4. /\ Heap(md', top, seams, owned, B, Fast, Live \cup {v})
      /\ DOMAIN md' = DOMAIN md /\ SameSizes(md, md', {})
  BY <1>1, <1>2, <1>B, TakeWhole
<1>5. \A x \in DOMAIN md : md'[x].size = md[x].size
  BY <1>4 DEF SameSizes
<1>6. Lists(bins', BinIdx) /\ Members(bins', BinIdx) = B
  BY <1>1, <1>B, DropLists
<1>7. Sorted(bins', md) /\ Marks(bins', binmap')
  BY <1>1, SortedDrop, MarksDrop DEF RestKept
<1>8. Binned \cup Fast \cup Live \subseteq DOMAIN md
  BY <1>0, ListedChunks, LiveChunks
<1>9. Sorted(bins', md') /\ SizedLists(fastbins', md')
  <2>1. \A x \in Members(bins', BinIdx) : md'[x].size = md[x].size
    BY <1>5, <1>6, <1>8, <1>B
  <2>2. \A x \in Members(fastbins, Smalls) : md'[x].size = md[x].size
    BY <1>1, <1>5, <1>8
  <2>3. fastbins' = fastbins
    BY DEF RestKept
  <2> QED BY <2>1, <2>2, <2>3, <1>1, <1>7, SortedSame, SizedSame
<1>10. Found(v, md, md')
  BY <1>2, <1>3, <1>5, <1>8 DEF Found
<1>11. SameEnd(md, top, md', top')
  BY <1>3, <1>4, <1>5 DEF SameEnd, RestKept, ChunksOf
<1>12. OtherTypes'
  BY <1>7 DEF OtherTypes, RestKept
<1>13. /\ UNCHANGED client /\ UNCHANGED system /\ top' = top /\ Lists(fastbins', Smalls)
       /\ Members(fastbins', Smalls) = Fast
  BY <1>1 DEF RestKept
<1>14. Heap(md', top', seams, owned, B, Fast, Live \cup {v})
  BY <1>4, <1>13
<1>F. PICK F : F = Fast
  OBVIOUS
<1> QED BY <1>6, <1>9, <1>10, <1>11, <1>12, <1>13, <1>14, <1>F, TakesChunk

\* A chunk behind the first units of p lies before the top chunk, when p does.
LEMMA BelowTop ==
    ASSUME NEW m, NEW t, NEW sm, NEW own, Geo(m, t, sm, own), NEW p \in ChunksOf(m), p # t,
           p <= t
    PROVE  p + m[p].size <= t
<1>1. /\ t \in ChunksOf(m) /\ m[t].size >= 1 /\ m[t].size \in Nat /\ m[p].size \in Nat
      /\ p \in Nat /\ t \in Nat
  BY OneChunk
<1>2. p + m[p].size <= t \/ t + m[t].size <= p
  BY <1>1 DEF Geo, Apart
<1> QED BY <1>1, <1>2

LEMMA CutEnd ==
    ASSUME NEW m, NEW t, NEW sm, NEW own, Geo(m, t, sm, own), NEW p \in ChunksOf(m), p # t,
           NEW nb \in Nat, nb < m[p].size, NEW z, Cut(m, p, nb, z)
    PROVE  SameEnd(m, t, z, t)
<1>1. /\ t \in ChunksOf(m) /\ t # InitialTop /\ p \in Nat /\ m[p].size \in Nat /\ t \in Nat
  BY OneChunk DEF Geo, Shape
<1>2. z[t].size = m[t].size
  BY <1>1 DEF Cut, SameSizes, ChunksOf
<1>3. DOMAIN z = DOMAIN m \cup {p + nb}
  BY DEF Cut
<1>4. ASSUME \A c \in ChunksOf(m) : c <= t, NEW c \in ChunksOf(z) PROVE c <= t
  <2>1. c \in ChunksOf(m) \/ c = p + nb
    BY <1>3 DEF ChunksOf
  <2>2. p + m[p].size <= t
    BY <1>4, BelowTop
  <2> QED BY <2>1, <2>2, <1>1, <1>4
<1> QED BY <1>1, <1>2, <1>4 DEF SameEnd

\* how a chunk is split in two
SplitFree(m, v, nb, z) == z = SetFoot(Carve(SetHead(m, v, m[v].size), v, nb), v + nb)

LEMMA TakeSplitInv ==
    ASSUME HeapInv, op.at \in Mallocing, NEW i, NEW k, NEW v, NEW c, v = bins[i][k],
           Dropped(bins, BinIdx, i, k, c), md[v].size >= op.nb + MINSIZE, NEW r, r = v + op.nb,
           SplitFree(md, v, op.nb, md'), bins' = PushUnsorted(c, r), Got(v), RestKept
    PROVE  HeapInv'
<1>0. LayoutInv /\ op.nb \in Nat /\ op.nb >= MINSIZE
  BY Asked, Constants DEF HeapInv
<1>1. /\ Heap(md, top, seams, owned, Binned, Fast, Live)
      /\ Lists(bins, BinIdx) /\ Lists(fastbins, Smalls)
      /\ SizedLists(fastbins, md) /\ Sorted(bins, md) /\ Geo(md, top, seams, owned)
      /\ Binned = Members(bins, BinIdx) /\ Fast = Members(fastbins, Smalls)
  BY <1>0, HeapIs
<1>2. v \in Binned
  <2>1. i \in BinIdx /\ k \in DOMAIN bins[i]
    BY DEF Dropped
  <2> QED BY <2>1, <1>1, IsMember
<1>3. /\ v \in Nat /\ v \notin Live /\ v \notin Fast /\ top # InitialTop /\ top \in DOMAIN md
      /\ md[v].size \in Nat /\ v \in ChunksOf(md) /\ v # top
  BY <1>0, <1>2, ListedChunks
<1>B. PICK B : B = (Binned \ {v}) \cup {r}
  OBVIOUS
<1>n. PICK nb : nb = op.nb
  OBVIOUS
<1>4. /\ Heap(md', top, seams, owned, B, Fast, Live \cup {v})
      /\ Cut(md, v, nb, md')
  <2>1. nb \in Nat /\ nb >= MINSIZE /\ md[v].size >= nb + MINSIZE /\ r = v + nb
        /\ md' = SetFoot(Carve(SetHead(md, v, md[v].size), v, nb), r)
    BY <1>0, <1>n DEF SplitFree
  <2> QED BY <2>1, <1>1, <1>2, <1>B, TakeSplit
<1>5. /\ r \notin DOMAIN md /\ r \in Nat /\ DOMAIN md' = DOMAIN md \cup {r}
      /\ md'[v].size = op.nb /\ \A x \in DOMAIN md \ {v} : md'[x].size = md[x].size
  <2>1. Cut(md, v, nb, md') /\ r = v + nb
    BY <1>4, <1>n
  <2>2. /\ r \notin DOMAIN md /\ r \in Nat /\ DOMAIN md' = DOMAIN md \cup {r}
        /\ md'[v].size = nb /\ SameSizes(md, md', {v})
    BY <2>1 DEF Cut
  <2>3. \A x \in DOMAIN md \ {v} : md'[x].size = md[x].size
    BY <2>2 DEF SameSizes
  <2>4. md'[v].size = op.nb
    BY <2>2, <1>n
  <2> QED BY <2>2, <2>3, <2>4
<1>8. Binned \cup Fast \cup Live \subseteq DOMAIN md
  BY <1>0, ListedChunks, LiveChunks
<1>6. Lists(c, BinIdx) /\ Members(c, BinIdx) = Binned \ {v}
  BY <1>1, DropLists
<1>a. Added(c, BinIdx, UNSORTED, 1, r, bins')
  <2>1. c \in [BinIdx -> Seq(Int)] /\ r \in Int
    BY <1>6, <1>5 DEF Lists
  <2> QED BY <2>1, PushIs, Constants
<1>b. Lists(bins', BinIdx) /\ Members(bins', BinIdx) = B
  <2>1. r \notin Members(c, BinIdx)
    BY <1>6, <1>5, <1>8
  <2> QED BY <2>1, <1>6, <1>a, <1>B, AddLists
<1>7. Sorted(c, md) /\ Marks(bins', binmap')
  <2>1. Sorted(c, md) /\ Marks(c, binmap')
    BY <1>1, SortedDrop, MarksDrop DEF RestKept
  <2> QED BY <2>1, <1>a, MarksPush
<1>9. Sorted(bins', md') /\ SizedLists(fastbins', md')
  <2>1. \A x \in Members(c, BinIdx) : md'[x].size = md[x].size
    BY <1>5, <1>6, <1>8
  <2>2. \A x \in Members(fastbins, Smalls) : md'[x].size = md[x].size
    BY <1>1, <1>3, <1>5, <1>8
  <2>3. fastbins' = fastbins
    BY DEF RestKept
  <2>4. Sorted(c, md')
    BY <2>1, <1>7, SortedSame
  <2> QED BY <2>2, <2>3, <2>4, <1>1, <1>a, SortedPush, SizedSame
<1>10. Found(v, md, md')
  <2>1. \A q \in Live : q \in DOMAIN md \ {v}
    BY <1>3, <1>8
  <2>2. \A q \in Live : md'[q].size = md[q].size
    BY <2>1, <1>5
  <2>3. md'[v].size >= op.nb
    BY <1>0, <1>5
  <2> QED BY <2>2, <2>3, <1>3 DEF Found
<1>11. SameEnd(md, top, md', top')
  <2>1. top' = top
    BY DEF RestKept
  <2>2. nb \in Nat /\ nb < md[v].size
    BY <1>0, <1>n, <1>3, Constants
  <2> QED BY <2>1, <2>2, <1>1, <1>3, <1>4, CutEnd
<1>12. OtherTypes'
  BY <1>7 DEF OtherTypes, RestKept
<1>13. /\ UNCHANGED client /\ UNCHANGED system /\ top' = top /\ Lists(fastbins', Smalls)
       /\ Members(fastbins', Smalls) = Fast
  BY <1>1 DEF RestKept
<1>14. Heap(md', top', seams, owned, B, Fast, Live \cup {v})
  BY <1>4, <1>13
<1>F. PICK F : F = Fast
  OBVIOUS
<1> QED BY <1>b, <1>9, <1>10, <1>11, <1>12, <1>13, <1>14, <1>F, TakesChunk

LEMMA TakeFreeInv ==
    ASSUME HeapInv, op.at \in Mallocing, NEW i \in BinIdx, NEW k \in DOMAIN bins[i],
           NEW v, v = bins[i][k], md[v].size >= op.nb, TakeFree(v), Got(v), RestKept
    PROVE  HeapInv'
<1>1. PICK c : c = Unlink(bins, v)
  OBVIOUS
<1>2. Dropped(bins, BinIdx, i, k, c)
  BY <1>1, UnlinkIs, HeapIs DEF HeapInv
<1>r. PICK r : r = v + op.nb
  OBVIOUS
<1>n. op.nb \in Nat /\ md[v].size \in Nat
  <2>1. LayoutInv /\ v \in Binned \cup Fast
    BY IsMember, MembersOf DEF HeapInv
  <2> QED BY <2>1, Asked, ListedChunks
<1>3. CASE md[v].size - op.nb < MINSIZE
  <2>1. md' = SetInuse(md, v) /\ bins' = c
    BY <1>1, <1>3 DEF TakeFree
  <2> QED BY <2>1, <1>2, TakeWholeInv
<1>4. CASE ~(md[v].size - op.nb < MINSIZE)
  <2>1. SplitFree(md, v, op.nb, md') /\ bins' = PushUnsorted(c, r)
    BY <1>1, <1>4, <1>r DEF TakeFree, SplitFree
  <2>2. md[v].size >= op.nb + MINSIZE
    BY <1>4, <1>n, Constants
  <2> QED BY <2>1, <2>2, <1>2, <1>r, TakeSplitInv
<1> QED BY <1>3, <1>4

(***************************************************************************)
(* Sizes and bins                                                          *)
(***************************************************************************)
LEMMA BinIndexIs ==
    ASSUME NEW s \in ChunkSizes, s \in Nat, s >= 2
    PROVE  /\ BinIndex(s) \in BinIdx \ {UNSORTED} /\ BinIndex(s) \in Nat
           /\ s < MinLarge => BinIndex(s) = s + 1
           /\ s >= MinLarge => BinIndex(s) > MinLarge
<1>1. MinLarge \in Nat /\ NBins \in Nat /\ MinLarge < NBins /\ UNSORTED = 1 /\ MinLarge >= 1
  <2>1. MaxFast \in Nat /\ MaxFast < MinLarge
    BY Constants
  <2> QED BY <2>1, Constants
<1>2. CASE s < MinLarge
  <2>1. BinIndex(s) = s + 1
    BY <1>2 DEF BinIndex, InSmallbinRange
  <2> QED BY <1>1, <1>2, <2>1 DEF BinIdx
<1>3. CASE s >= MinLarge
  <2>1. BinIndex(s) = LargeIndex(s)
    BY <1>1, <1>3 DEF BinIndex, InSmallbinRange
  <2>2. LargeIndex(s) \in MinLarge + 1 .. NBins
    BY <1>3, IndexAssumption
  <2> QED BY <1>1, <1>3, <2>1, <2>2 DEF BinIdx
<1> QED BY <1>1, <1>2, <1>3

LEMMA BinIndexMonotone ==
    ASSUME NEW s \in ChunkSizes, NEW t \in ChunkSizes, s \in Nat, t \in Nat, s >= 2, t >= 2,
           BinIndex(t) >= BinIndex(s), BinIndex(t) > BinIndex(s) \/ s < MinLarge
    PROVE  t >= s
<1>1. MinLarge \in Nat
  BY Constants
<1>2. /\ BinIndex(s) \in Nat /\ BinIndex(t) \in Nat
      /\ s < MinLarge => BinIndex(s) = s + 1
      /\ s >= MinLarge => BinIndex(s) > MinLarge
      /\ t < MinLarge => BinIndex(t) = t + 1
      /\ t >= MinLarge => BinIndex(t) > MinLarge
  BY BinIndexIs
<1>3. CASE s < MinLarge \/ t < MinLarge
  BY <1>1, <1>2, <1>3
<1>4. CASE s >= MinLarge /\ t >= MinLarge
  <2>1. BinIndex(s) = LargeIndex(s) /\ BinIndex(t) = LargeIndex(t)
    BY <1>1, <1>4 DEF BinIndex, InSmallbinRange
  <2>2. t <= s => LargeIndex(t) <= LargeIndex(s)
    BY <1>4, IndexAssumption
  <2>3. BinIndex(t) > BinIndex(s)
    BY <1>1, <1>4
  <2> QED BY <2>1, <2>2, <2>3, <1>2
<1> QED BY <1>1, <1>3, <1>4

LEMMA SizeBound ==
    ASSUME LayoutInv, MemoryInv, NEW p \in ChunksOf(md)
    PROVE  /\ md[p].size \in ChunkSizes /\ md[p].size \in Nat
           /\ md[p].size <= system_mem /\ system_mem \in Nat
<1>1. Geo(md, top, seams, owned)
  BY HeapIs
<1>2. /\ p .. p + md[p].size - 1 \subseteq owned /\ p \in Nat /\ md[p].size \in Nat
      /\ md[p].size >= 1
  BY <1>1, UnitsOwned, OneChunk
<1>3. p + md[p].size - 1 \in owned
  <2>1. p + md[p].size - 1 \in p .. p + md[p].size - 1
    BY <1>2
  <2> QED BY <2>1, <1>2
<1>4. MmapTop \in Nat /\ p + md[p].size - 1 < MmapTop
  BY <1>3, Constants DEF MemoryInv
<1>5. md[p].size \in 0 .. MmapTop
  BY <1>2, <1>4
<1>6. IsFiniteSet(owned) /\ Cardinality(owned) <= system_mem /\ system_mem \in Nat
  BY DEF MemoryInv, Within
<1>7. md[p].size <= Cardinality(owned) /\ Cardinality(owned) \in Nat
  BY <1>1, <1>6, OneFits
<1> QED BY <1>2, <1>5, <1>6, <1>7 DEF ChunkSizes

LEMMA AskedSize ==
    ASSUME HeapInv, op.at \in Mallocing
    PROVE  op.nb \in ChunkSizes
<1>1. Asks(op, DOMAIN held)
  BY Asked
<1>2. op.nb \in Requests \/ \E n \in Requests, a \in Alignments : op.nb = n + a + MINSIZE
  BY <1>1 DEF Asks
<1> QED BY <1>2 DEF ChunkSizes

\* A chunk in the bin i has the size of that bin.
LEMMA BinnedSize ==
    ASSUME HeapInv, NEW i \in BinIdx \ {UNSORTED}, NEW k \in DOMAIN bins[i]
    PROVE  /\ BinIndex(md[bins[i][k]].size) = i /\ md[bins[i][k]].size \in ChunkSizes
           /\ md[bins[i][k]].size \in Nat /\ md[bins[i][k]].size >= 2
<1>1. bins[i][k] \in Binned \cup Fast /\ LayoutInv /\ MemoryInv
  BY IsMember, MembersOf DEF HeapInv
<1>2. bins[i][k] \in ChunksOf(md) /\ md[bins[i][k]].size \in Nat /\ md[bins[i][k]].size >= 2
  BY <1>1, ListedChunks
<1> QED BY <1>1, <1>2, SizeBound DEF LayoutInv, Sorted

LEMMA LastIs ==
    ASSUME NEW b, Lists(b, BinIdx), NEW i \in BinIdx, b[i] # <<>>
    PROVE  Len(b[i]) \in DOMAIN b[i] /\ Last(b[i]) = b[i][Len(b[i])]
<1>1. b[i] \in Seq(Int)
  BY DEF Lists
<1> QED BY <1>1, FrontIs DEF Last

LEMMA MallocSmallInv == ASSUME HeapInv, MallocSmall PROVE HeapInv'
<1>i. PICK i : i = BinIndex(op.nb)
  OBVIOUS
<1>0. op.at \in Mallocing /\ bins[i] # <<>> /\ op.nb < MinLarge
  BY <1>i DEF MallocSmall, SmallHit, At, Mallocing, InSmallbinRange
<1>1. /\ op.nb \in Nat /\ op.nb >= 2 /\ op.nb \in ChunkSizes
      /\ Lists(bins, BinIdx) /\ LayoutInv
  BY <1>0, Asked, AskedSize, HeapIs
<1>2. i \in BinIdx \ {UNSORTED} /\ i = op.nb + 1
  BY <1>0, <1>1, <1>i, BinIndexIs
<1>3. PICK k \in DOMAIN bins[i] : k = Len(bins[i]) /\ Last(bins[i]) = bins[i][k]
  BY <1>0, <1>1, <1>2, LastIs
<1>v. PICK v : v = bins[i][k]
  OBVIOUS
<1>4. /\ md' = SetInuse(md, v) /\ bins' = Unlink(bins, v) /\ Got(v)
      /\ UNCHANGED <<binmap, fastbins, have_fast, top, last_remainder, system, client>>
  BY <1>3, <1>v, <1>i DEF MallocSmall
<1>5. md[v].size >= op.nb
  <2>1. /\ BinIndex(md[v].size) = i /\ md[v].size \in ChunkSizes
        /\ md[v].size \in Nat /\ md[v].size >= 2
    BY <1>2, <1>v, BinnedSize
  <2>2. BinIndex(md[v].size) >= BinIndex(op.nb)
    BY <2>1, <1>i, <1>1, BinIndexIs
  <2> QED BY <2>1, <2>2, <1>0, <1>1, BinIndexMonotone
<1>6. Dropped(bins, BinIdx, i, k, bins')
  BY <1>1, <1>2, <1>4, <1>v, UnlinkIs
<1>7. RestKept
  BY <1>4 DEF RestKept, HeapInv, OtherTypes
<1> QED BY <1>0, <1>4, <1>5, <1>6, <1>7, <1>v, TakeWholeInv

LEMMA UnsortedRemainderInv == ASSUME HeapInv, UnsortedRemainder PROVE HeapInv'
<1>v. PICK v : v = Victim
  OBVIOUS
<1>0. op.at \in Mallocing /\ bins[UNSORTED] # <<>> /\ UNSORTED \in BinIdx
      /\ md[v].size > op.nb + MINSIZE
  BY <1>v, Constants
     DEF UnsortedRemainder, UnsortedNonempty, At, Mallocing, TakeLastRemainder
<1>1. /\ op.nb \in Nat /\ op.nb >= 2 /\ Lists(bins, BinIdx) /\ LayoutInv /\ MemoryInv
  BY <1>0, Asked, HeapIs DEF HeapInv
<1>2. PICK k \in DOMAIN bins[UNSORTED] : Last(bins[UNSORTED]) = bins[UNSORTED][k]
  BY <1>0, <1>1, LastIs
<1>3. v = bins[UNSORTED][k]
  BY <1>2, <1>v DEF Victim
<1>4. v \in Binned /\ v \in Binned \cup Fast
  BY <1>0, <1>3, IsMember, MembersOf
<1>5. v \in ChunksOf(md) /\ v \in Nat /\ md[v].size \in Nat /\ md[v].size >= 2
  BY <1>1, <1>4, ListedChunks
<1>6. ~VictimCorrupt
  <2>1. md[v].size <= system_mem /\ system_mem \in Nat
    BY <1>1, <1>5, SizeBound
  <2> QED BY <2>1, <1>5, <1>v DEF VictimCorrupt
<1>7. /\ TakeFree(v) /\ last_remainder' = v + op.nb /\ Got(v)
      /\ UNCHANGED <<binmap, fastbins, have_fast, top, system, client>>
  BY <1>6, <1>v DEF UnsortedRemainder
<1>8. RestKept
  <2>1. last_remainder' \in Int
    BY <1>1, <1>5, <1>7
  <2> QED BY <2>1, <1>7 DEF RestKept, HeapInv, OtherTypes
<1>9. md[v].size >= op.nb
  BY <1>0, <1>1, <1>5, Constants
<1> QED BY <1>0, <1>3, <1>7, <1>8, <1>9, TakeFreeInv

LEMMA BinFitInv == ASSUME HeapInv, BinFit PROVE HeapInv'
<1>i. PICK i : i = Min(FitBins)
  OBVIOUS
<1>v. PICK v : v = Last(bins[i])
  OBVIOUS
<1>0. op.at \in Mallocing /\ FitBins # {}
  BY DEF BinFit, At, Mallocing
<1>1. /\ op.nb \in Nat /\ op.nb >= 2 /\ Lists(bins, BinIdx) /\ LayoutInv
      /\ op.nb \in ChunkSizes /\ BinIndex(op.nb) \in BinIdx \ {UNSORTED}
  BY <1>0, Asked, AskedSize, HeapIs, BinIndexIs
<1>2. i \in FitBins /\ \A j \in FitBins : i <= j
  <2>1. FitBins \subseteq Nat
    BY Constants DEF FitBins, Marked, HeapInv, OtherTypes
  <2> QED BY <2>1, <1>0, <1>i, LeastOf
<1>3. /\ i \in BinIdx /\ i \in Marked /\ i > BinIndex(op.nb) /\ bins[i] # <<>>
      /\ BinIndex(op.nb) \in Nat
  BY <1>1, <1>2, Constants DEF FitBins, Marked, HeapInv, OtherTypes
<1>4. i \in BinIdx \ {UNSORTED} /\ i \in Nat
  <2>1. UNSORTED = 1 /\ BinIndex(op.nb) >= 1
    BY <1>1, Constants DEF BinIdx
  <2> QED BY <2>1, <1>3, Constants
<1>5. PICK k \in DOMAIN bins[i] : v = bins[i][k]
  BY <1>1, <1>3, <1>v, LastIs
<1>6. /\ BinIndex(md[v].size) = i /\ md[v].size \in ChunkSizes
      /\ md[v].size \in Nat /\ md[v].size >= 2
  BY <1>4, <1>5, BinnedSize
<1>7. md[v].size >= op.nb
  BY <1>1, <1>3, <1>4, <1>6, BinIndexMonotone
<1>8. /\ binmap' = binmap \ {j \in Marked : j < i} /\ TakeFree(v) /\ Got(v)
      /\ last_remainder' = (IF md[v].size - op.nb >= MINSIZE /\ InSmallbinRange(op.nb)
                            THEN v + op.nb ELSE last_remainder)
      /\ UNCHANGED <<fastbins, have_fast, top, system, client>>
  BY <1>i, <1>v DEF BinFit
<1>9. Marks(bins, binmap')
  <2> SUFFICES ASSUME NEW j \in BinIdx \ {UNSORTED}, bins[j] # <<>> PROVE j \in binmap'
    BY DEF Marks
  <2>1. j \in binmap
    BY DEF HeapInv, OtherTypes, Marks
  <2>2. j \in Marked => i <= j
    BY <2>1, <1>2 DEF FitBins
  <2>3. i \in Nat /\ j \in Nat
    BY <1>4, Constants
  <2> QED BY <2>1, <2>2, <2>3, <1>8
<1>10. RestKept
  <2>1. last_remainder' \in Int
    <3>1. v \in Nat /\ last_remainder \in Int
      BY <1>1, <1>3, <1>5, IsMember, MembersOf, ListedChunks DEF HeapInv, OtherTypes
    <3> QED BY <3>1, <1>1, <1>8
  <2> QED BY <2>1, <1>8, <1>9 DEF RestKept, HeapInv, OtherTypes
<1> QED BY <1>0, <1>3, <1>5, <1>7, <1>8, <1>10, TakeFreeInv

\* where the chunks of size n are
PlacesOf(s, n) == {j \in DOMAIN s : md[s[j]].size = n}

\* the second of the places S, or the first one
Second(S) == IF Cardinality(S) > 1 THEN Min(S) + 1 ELSE Min(S)

\* The first of several places, or the next one, is not behind the last of them.
LEMMA SecondOf ==
    ASSUME NEW n \in Nat, NEW S \in SUBSET (1 .. n), NEW a \in S, \A y \in S : a <= y,
           Cardinality(S) > 1
    PROVE  \E k \in S : a + 1 <= k /\ a + 1 \in 1 .. n
<1>1. PICK k \in S : k # a
  <2> SUFFICES ASSUME \A k \in S : k = a PROVE FALSE
    OBVIOUS
  <2>1. S = {a}
    OBVIOUS
  <2>2. Cardinality({a}) = 1
    BY FS_Singleton
  <2>3. Cardinality(S) = 1
    BY <2>1, <2>2
  <2> QED BY <2>3
<1>2. a <= k /\ k \in 1 .. n /\ a \in 1 .. n
  BY <1>1
<1>3. a + 1 <= k /\ a + 1 \in 1 .. n
  BY <1>1, <1>2
<1> QED BY <1>3

\* v is the smallest of the chunks of the request's own bin that are large enough
BestOfOwn(v) ==
    /\ md[v].size >= op.nb
    /\ \A u \in ToSet(OwnBin) : md[u].size >= op.nb => md[v].size <= md[u].size

LEMMA LargeFitIs ==
    ASSUME HeapInv, LargeFit
    PROVE  /\ op.at \in Mallocing /\ BinIndex(op.nb) \in BinIdx \ {UNSORTED}
           /\ \E k \in DOMAIN OwnBin : \E v : /\ v = OwnBin[k] /\ BestOfOwn(v)
                                              /\ TakeFree(v) /\ Got(v) /\ RestKept
<1>i. PICK i : i = BinIndex(op.nb)
  OBVIOUS
<1>s. PICK s : s = bins[i]
  OBVIOUS
<1>m. PICK same : same = PlacesOf(s, FitSize)
  OBVIOUS
<1>j. PICK j : j = Second(same)
  OBVIOUS
<1>0. /\ op.at \in Mallocing /\ s # <<>> /\ md[Head(s)].size >= op.nb /\ s = OwnBin
  <2>1. op.at \in Mallocing /\ LargeHit
    BY DEF LargeFit, At, Mallocing
  <2>2. s = OwnBin
    BY <1>i, <1>s DEF OwnBin
  <2> QED BY <2>1, <2>2 DEF LargeHit
<1>1. /\ op.nb \in Nat /\ op.nb >= 2 /\ Lists(bins, BinIdx) /\ LayoutInv
      /\ op.nb \in ChunkSizes /\ i \in BinIdx \ {UNSORTED}
  BY <1>0, <1>i, Asked, AskedSize, HeapIs, BinIndexIs
<1>2. s \in Seq(Int) /\ 1 \in DOMAIN s /\ Head(s) = s[1] /\ DOMAIN s = 1 .. Len(s)
      /\ Len(s) \in Nat
  BY <1>0, <1>1, <1>s DEF Lists
<1>3. \A k \in DOMAIN s : md[s[k]].size \in Nat
  BY <1>1, <1>s, BinnedSize
<1>4. /\ FitSize \in Nat /\ FitSize >= op.nb /\ same # {}
      /\ \A u \in ToSet(s) : md[u].size >= op.nb => FitSize <= md[u].size
  <2>z. PICK Z : Z = {md[v].size : v \in {u \in ToSet(s) : md[u].size >= op.nb}}
    OBVIOUS
  <2>1. FitSize = Min(Z)
    BY <2>z, <1>0 DEF FitSize
  <2>2. \A u \in ToSet(s) : \E k \in DOMAIN s : u = s[k]
    BY DEF ToSet
  <2>3. s[1] \in ToSet(s)
    BY <1>2 DEF ToSet
  <2>4. Z \subseteq Nat
    BY <2>z, <2>2, <1>3
  <2>5. md[s[1]].size \in Z
    BY <2>z, <2>3, <1>0, <1>2
  <2>6. Min(Z) \in Z /\ \A y \in Z : Min(Z) <= y
    BY <2>4, <2>5, LeastOf
  <2>7. PICK u \in ToSet(s) : md[u].size >= op.nb /\ Min(Z) = md[u].size
    BY <2>6, <2>z
  <2>8. PICK k \in DOMAIN s : u = s[k]
    BY <2>2
  <2>9. k \in same
    BY <2>1, <2>7, <2>8, <1>m DEF PlacesOf
  <2>10. \A x \in ToSet(s) : md[x].size >= op.nb => FitSize <= md[x].size
    BY <2>1, <2>6, <2>z
  <2> QED BY <2>1, <2>4, <2>6, <2>7, <2>9, <2>10
<1>5. /\ j \in 1 .. Len(s) /\ \E k \in same : j <= k
      /\ \E a \in same : a <= j
  <2>1. same \in SUBSET (1 .. Len(s)) /\ same \in SUBSET Nat
    BY <1>m, <1>2 DEF PlacesOf
  <2>a. PICK a : a = Min(same)
    OBVIOUS
  <2>2. a \in same /\ \A y \in same : a <= y
    BY <2>1, <2>a, <1>4, LeastOf
  <2>3. CASE Cardinality(same) > 1
    <3>1. j = a + 1
      BY <2>3, <2>a, <1>j DEF Second
    <3>2. a <= j
      BY <3>1, <2>1, <2>2
    <3> QED BY <3>1, <3>2, <2>1, <2>2, <2>3, <1>2, SecondOf
  <2>4. CASE ~(Cardinality(same) > 1)
    <3>1. j = a
      BY <2>4, <2>a, <1>j DEF Second
    <3> QED BY <3>1, <2>1, <2>2
  <2> QED BY <2>3, <2>4
<1>6. PICK k \in same : j <= k
  BY <1>5
<1>a. PICK a \in same : a <= j
  BY <1>5
<1>v. PICK v : v = s[j]
  OBVIOUS
<1>7. md[v].size = FitSize
  <2>1. /\ j \in DOMAIN s /\ k \in DOMAIN s /\ md[s[k]].size = FitSize
        /\ a \in DOMAIN s /\ md[s[a]].size = FitSize
    BY <1>2, <1>5, <1>6, <1>m DEF PlacesOf
  <2>0. \A x, y \in DOMAIN s : x < y => md[s[x]].size >= md[s[y]].size
    BY <1>1, <1>s DEF LayoutInv, Sorted
  <2>2. md[s[j]].size >= md[s[k]].size
    <3>1. j = k \/ j < k
      BY <2>1, <1>2, <1>6
    <3> QED BY <2>0, <2>1, <3>1, <1>3
  <2>3. md[s[a]].size >= md[s[j]].size
    <3>1. a = j \/ a < j
      BY <2>1, <1>2, <1>a
    <3> QED BY <2>0, <2>1, <3>1, <1>3
  <2> QED BY <2>1, <2>2, <2>3, <1>3, <1>4, <1>v
<1>8. /\ TakeFree(v) /\ Got(v)
      /\ UNCHANGED <<binmap, fastbins, have_fast, top, last_remainder, system, client>>
  BY <1>0, <1>m, <1>j, <1>v DEF LargeFit, Second, PlacesOf
<1>9. RestKept
  BY <1>8 DEF RestKept, HeapInv, OtherTypes
<1>10. j \in DOMAIN OwnBin /\ v = OwnBin[j]
  BY <1>0, <1>2, <1>5, <1>v
<1>11. BestOfOwn(v)
  BY <1>0, <1>4, <1>7 DEF BestOfOwn
<1> QED BY <1>0, <1>1, <1>i, <1>8, <1>9, <1>10, <1>11

LEMMA LargeFitInv == ASSUME HeapInv, LargeFit PROVE HeapInv'
<1>1. op.at \in Mallocing /\ BinIndex(op.nb) \in BinIdx
  BY LargeFitIs
<1>2. PICK k \in DOMAIN OwnBin : \E v : /\ v = OwnBin[k] /\ BestOfOwn(v)
                                        /\ TakeFree(v) /\ Got(v) /\ RestKept
  BY LargeFitIs
<1>3. PICK v : v = OwnBin[k] /\ BestOfOwn(v) /\ TakeFree(v) /\ Got(v) /\ RestKept
  BY <1>2
<1>i. PICK i : i = BinIndex(op.nb)
  OBVIOUS
<1>4. i \in BinIdx /\ k \in DOMAIN bins[i] /\ v = bins[i][k] /\ md[v].size >= op.nb
  BY <1>1, <1>3, <1>i DEF OwnBin, BestOfOwn
<1> QED BY <1>1, <1>3, <1>4, TakeFreeInv

\* the places in bin i of chunks that are smaller than v, or as large
Smaller(i, v) == {j \in DOMAIN bins[i] : md[bins[i][j]].size < md[v].size}
Equal(i, v)   == {j \in DOMAIN bins[i] : md[bins[i][j]].size = md[v].size}

LEMMA PositionIs ==
    ASSUME HeapInv, NEW v \in Binned, NEW i, i = BinIndex(md[v].size),
           NEW k, k = Position(i, v)
    PROVE  /\ i \in BinIdx \ {UNSORTED} /\ k \in 1 .. Len(bins[i]) + 1
           /\ InPlace(bins[i], md, k, v)
<1>n. PICK n : n = md[v].size
  OBVIOUS
<1>s. PICK s : s = bins[i]
  OBVIOUS
<1>1. v \in Binned \cup Fast /\ LayoutInv /\ MemoryInv /\ Lists(bins, BinIdx)
  BY HeapIs DEF HeapInv
<1>2. n \in ChunkSizes /\ n \in Nat /\ n >= 2
  BY <1>1, <1>n, ListedChunks, SizeBound
<1>3. i \in BinIdx \ {UNSORTED}
  BY <1>2, <1>n, BinIndexIs
<1>4. s \in Seq(Int) /\ DOMAIN s = 1 .. Len(s) /\ Len(s) \in Nat
  BY <1>1, <1>3, <1>s DEF Lists
<1>5. \A j \in DOMAIN s : /\ BinIndex(md[s[j]].size) = i /\ md[s[j]].size \in ChunkSizes
                          /\ md[s[j]].size \in Nat /\ md[s[j]].size >= 2
  BY <1>3, <1>s, BinnedSize
<1>6. \A x, y \in DOMAIN s : x < y => md[s[x]].size >= md[s[y]].size
  BY <1>3, <1>s, <1>1 DEF LayoutInv, Sorted
<1>a. PICK smaller : smaller = Smaller(i, v)
  OBVIOUS
<1>b. PICK equal : equal = Equal(i, v)
  OBVIOUS
<1>c. /\ \A j \in DOMAIN s : j \in smaller <=> md[s[j]].size < n
      /\ \A j \in DOMAIN s : j \in equal <=> md[s[j]].size = n
      /\ smaller \subseteq DOMAIN s /\ equal \subseteq DOMAIN s
  BY <1>a, <1>b, <1>n, <1>s DEF Smaller, Equal
<1>d. smaller \in SUBSET Nat /\ equal \in SUBSET Nat
  BY <1>c, <1>4
<1>k. k = IF InSmallbinRange(n) THEN 1
          ELSE IF equal # {} THEN Min(equal) + 1
          ELSE IF smaller # {} THEN Min(smaller)
          ELSE Len(s) + 1
  BY <1>a, <1>b, <1>n, <1>s DEF Position, Smaller, Equal
<1>7. SUFFICES k \in 1 .. Len(s) + 1
               /\ \A j \in DOMAIN s : IF j < k THEN md[s[j]].size >= n ELSE n >= md[s[j]].size
  BY <1>3, <1>n, <1>s DEF InPlace
<1>8. CASE InSmallbinRange(n)
  <2>1. k = 1 /\ n < MinLarge
    BY <1>8, <1>k DEF InSmallbinRange
  <2>2. \A j \in DOMAIN s : n >= md[s[j]].size
    <3> SUFFICES ASSUME NEW j \in DOMAIN s PROVE n >= md[s[j]].size
      OBVIOUS
    <3>1. BinIndex(n) = n + 1 /\ MinLarge \in Nat
      BY <1>2, <2>1, BinIndexIs, Constants
    <3>2. /\ md[s[j]].size < MinLarge => BinIndex(md[s[j]].size) = md[s[j]].size + 1
          /\ md[s[j]].size >= MinLarge => BinIndex(md[s[j]].size) > MinLarge
      BY <1>5, BinIndexIs
    <3> QED BY <3>1, <3>2, <1>2, <1>5, <1>n, <2>1
  <2> QED BY <2>1, <2>2, <1>4
<1>9. CASE ~InSmallbinRange(n) /\ equal # {}
  <2>e. PICK e : e = Min(equal)
    OBVIOUS
  <2>1. k = e + 1
    BY <1>9, <1>k, <2>e
  <2>2. e \in DOMAIN s /\ md[s[e]].size = n
    BY <1>9, <1>c, <1>d, <2>e, LeastOf
  <2>3. ASSUME NEW j \in DOMAIN s
        PROVE  IF j < k THEN md[s[j]].size >= n ELSE n >= md[s[j]].size
    <3>1. (j < k => j = e \/ j < e) /\ (~(j < k) => e < j)
      BY <1>4, <2>1, <2>2
    <3> QED BY <3>1, <2>2, <1>2, <1>6
  <2> QED BY <1>4, <2>1, <2>2, <2>3
<1>10. CASE ~InSmallbinRange(n) /\ equal = {} /\ smaller # {}
  <2>e. PICK e : e = Min(smaller)
    OBVIOUS
  <2>1. k = e
    BY <1>10, <1>k, <2>e
  <2>2. e \in smaller /\ e \in DOMAIN s /\ md[s[e]].size < n /\ \A y \in smaller : e <= y
    BY <1>10, <1>c, <1>d, <2>e, LeastOf
  <2>3. ASSUME NEW j \in DOMAIN s
        PROVE  IF j < k THEN md[s[j]].size >= n ELSE n >= md[s[j]].size
    <3>1. CASE j < k
      <4>1. j \notin smaller
        BY <3>1, <2>1, <2>2, <1>4
      <4> QED BY <4>1, <3>1, <1>c, <1>2, <1>5
    <3>2. CASE ~(j < k)
      <4>1. j = e \/ e < j
        BY <3>2, <2>1, <2>2, <1>4
      <4>2. md[s[e]].size >= md[s[j]].size
        BY <4>1, <2>2, <1>5, <1>6
      <4> QED BY <4>2, <3>2, <2>2, <1>2, <1>5
    <3> QED BY <3>1, <3>2
  <2> QED BY <1>4, <2>1, <2>2, <2>3
<1>11. CASE ~InSmallbinRange(n) /\ equal = {} /\ smaller = {}
  <2>1. k = Len(s) + 1
    BY <1>11, <1>k
  <2>2. \A j \in DOMAIN s : j < k
    BY <2>1, <1>4
  <2>3. \A j \in DOMAIN s : ~(md[s[j]].size < n)
    BY <1>11, <1>c
  <2>4. \A j \in DOMAIN s : md[s[j]].size >= n
    BY <2>3, <1>2, <1>5
  <2> QED BY <1>4, <2>1, <2>2, <2>4
<1> QED BY <1>8, <1>9, <1>10, <1>11

\* _int_malloc goes on; the free chunks are in other bins.
LEMMA Refiled ==
    ASSUME HeapInv, op.at \in Mallocing, UNCHANGED <<md, fastbins, top, system, client>>,
           Lists(bins', BinIdx), Members(bins', BinIdx) = Binned, Sorted(bins', md),
           OtherTypes', op' \in OpType, op'.at = op.at, op'.at # "sys",
           op'.v = NULL, op'.p = op.p, op'.nb = op.nb, op'.want = op.want, op'.blk = op.blk,
           op'.call = op.call, op'.align = op.align
    PROVE  HeapInv'
<1>1. /\ entering = {} /\ retrying = {} /\ op \in OpType
      /\ entering' = {} /\ retrying' = {} /\ held' = held
  BY Busy DEF HeapInv, At, Mallocing, client
<1>2. OpKnown(op, DOMAIN held, top) /\ Fits(op, md, held)
  BY DEF HeapInv, CallInv
<1>3. /\ Dest(op) \in Mallocing /\ ~Freeing(op) /\ ~Freeing(op') /\ Dest(op') \in Mallocing
  BY DEF Dest, Freeing, Mallocing
<1>4. op.v = NULL /\ op.p = NULL /\ Asks(op, DOMAIN held)
  BY <1>2, <1>3 DEF OpKnown, Mallocing
<1>5. Asks(op', DOMAIN held)
  BY <1>4 DEF Asks
<1>7. OpKnown(op', DOMAIN held, top)
  BY <1>3, <1>4, <1>5 DEF OpKnown, Mallocing
<1>8. Fits(op', md, held)
  BY <1>2, <1>4, SameFit
<1>9. CallInv'
  <2>1. Clients(entering', retrying', DOMAIN held', top', op')
    BY <1>1, FS_EmptySet DEF Clients
  <2> QED BY <2>1, <1>1, <1>7, <1>8 DEF CallInv
<1>10. Live' = Live
  BY <1>1, <1>4 DEF Live
<1>11. LayoutInv'
  <2>1. /\ Heap(md, top, seams, owned, Binned, Fast, Live)
        /\ Lists(fastbins, Smalls) /\ SizedLists(fastbins, md)
        /\ Fast = Members(fastbins, Smalls)
    BY HeapIs DEF HeapInv
  <2>2. seams' = seams /\ owned' = owned
    BY DEF system
  <2>B. PICK B : B = Binned
    OBVIOUS
  <2>F. PICK F : F = Fast
    OBVIOUS
  <2>3. Heap(md', top', seams', owned', B, F, Live)
    BY <2>1, <2>2, <2>B, <2>F
  <2>4. /\ Lists(bins', BinIdx) /\ Members(bins', BinIdx) = B
        /\ Lists(fastbins', Smalls) /\ Members(fastbins', Smalls) = F
        /\ SizedLists(fastbins', md') /\ Sorted(bins', md')
    BY <2>1, <2>B, <2>F
  <2> QED BY <2>3, <2>4, <1>10, LayoutAgain
<1>12. MemoryInv'
  BY MemoryStill DEF HeapInv
<1> QED BY <1>9, <1>11, <1>12 DEF HeapInv

LEMMA UnsortedNextInv == ASSUME HeapInv, UnsortedNext PROVE HeapInv'
<1>v. PICK v : v = Victim
  OBVIOUS
<1>i. PICK i : i = BinIndex(md[v].size)
  OBVIOUS
<1>c. PICK c : c = [bins EXCEPT ![UNSORTED] = Front(@)]
  OBVIOUS
<1>0. op.at = "unsorted" /\ op.at \in Mallocing /\ bins[UNSORTED] # <<>> /\ UNSORTED \in BinIdx
  BY Constants DEF UnsortedNext, UnsortedNonempty, At, Mallocing
<1>1. /\ op.nb \in Nat /\ op.nb >= 2 /\ Lists(bins, BinIdx) /\ LayoutInv /\ MemoryInv
      /\ op \in OpType /\ op.v = NULL /\ Sorted(bins, md) /\ Binned = Members(bins, BinIdx)
  BY <1>0, Asked, HeapIs DEF HeapInv
<1>2. PICK k : /\ k = Len(bins[UNSORTED]) /\ k \in DOMAIN bins[UNSORTED]
               /\ Last(bins[UNSORTED]) = bins[UNSORTED][k]
  BY <1>0, <1>1, LastIs
<1>3. v = bins[UNSORTED][k]
  BY <1>2, <1>v DEF Victim
<1>4. v \in Binned /\ v \in Binned \cup Fast
  BY <1>0, <1>1, <1>2, <1>3, IsMember
<1>5. v \in ChunksOf(md) /\ v \in Nat /\ md[v].size \in Nat /\ md[v].size >= 2
  BY <1>1, <1>4, ListedChunks
<1>6. ~VictimCorrupt
  <2>1. md[v].size <= system_mem /\ system_mem \in Nat
    BY <1>1, <1>5, SizeBound
  <2> QED BY <2>1, <1>5, <1>v DEF VictimCorrupt
<1>7. Dropped(bins, BinIdx, UNSORTED, k, c)
  <2>1. bins \in [BinIdx -> Seq(Int)]
    BY <1>1 DEF Lists
  <2> QED BY <2>1, <1>0, <1>2, <1>c, PopUnsorted
<1>u. UNCHANGED <<fastbins, have_fast, top, last_remainder, system, client>>
  BY DEF UnsortedNext
<1>8. CASE md[v].size = op.nb
  <2>1. bins' = c /\ md' = SetInuse(md, v) /\ Got(v) /\ UNCHANGED binmap
    BY <1>6, <1>8, <1>v, <1>c DEF UnsortedNext
  <2>2. RestKept
    BY <2>1, <1>u DEF RestKept, HeapInv, OtherTypes
  <2>3. md[v].size >= op.nb /\ Dropped(bins, BinIdx, UNSORTED, k, bins')
    BY <1>1, <1>7, <1>8, <2>1
  <2> QED BY <2>1, <2>2, <2>3, <1>0, <1>3, TakeWholeInv
<1>9. CASE md[v].size # op.nb
  <2>k. PICK x : x = Position(i, v)
    OBVIOUS
  <2>1. /\ bins' = [c EXCEPT ![i] = InsertAt(@, x, v)]
        /\ binmap' = binmap \cup {i}
        /\ op' = [op EXCEPT !.iters = @ + 1]
        /\ UNCHANGED md
    BY <1>6, <1>9, <1>v, <1>c, <1>i, <2>k DEF UnsortedNext
  <2>2. /\ i \in BinIdx \ {UNSORTED} /\ x \in 1 .. Len(bins[i]) + 1
        /\ InPlace(bins[i], md, x, v)
    BY <1>4, <1>i, <2>k, PositionIs
  <2>3. c[i] = bins[i] /\ c \in [BinIdx -> Seq(Int)]
    BY <2>2, <1>7 DEF Dropped
  <2>4. Added(c, BinIdx, i, x, v, bins')
    <3>1. i \in BinIdx /\ x \in 1 .. Len(c[i]) + 1 /\ v \in Int
      BY <2>2, <2>3, <1>5
    <3> QED BY <3>1, <2>1, <2>3, FileIs
  <2>5. Lists(c, BinIdx) /\ Members(c, BinIdx) = Binned \ {v} /\ Sorted(c, md)
    BY <1>1, <1>3, <1>7, DropLists, SortedDrop
  <2>6. Lists(bins', BinIdx) /\ Members(bins', BinIdx) = Binned
    <3>1. v \notin Members(c, BinIdx)
      BY <2>5
    <3>2. Lists(bins', BinIdx) /\ Members(bins', BinIdx) = Members(c, BinIdx) \cup {v}
      BY <3>1, <2>4, <2>5, AddLists
    <3> QED BY <3>2, <2>5, <1>4
  <2>7. Sorted(bins', md)
    <3>1. InPlace(c[i], md, x, v) /\ BinIndex(md[v].size) = i
      BY <2>2, <2>3, <1>i
    <3> QED BY <3>1, <2>4, <2>5, SortedFile
  <2>8. OtherTypes'
    <3>1. Marks(bins', binmap')
      <4> SUFFICES ASSUME NEW j \in BinIdx \ {UNSORTED}, bins'[j] # <<>> PROVE j \in binmap'
        BY DEF Marks
      <4>1. j # i => bins'[j] = c[j] /\ c[j] = bins[j]
        BY <2>4, <1>7 DEF Added, Dropped
      <4>2. j # i => j \in binmap
        BY <4>1 DEF HeapInv, OtherTypes, Marks
      <4> QED BY <4>2, <2>1
    <3> QED BY <3>1, <2>1, <2>2, <1>u DEF HeapInv, OtherTypes
  <2>9. /\ op' \in OpType /\ op'.at = op.at /\ op'.at # "sys"
        /\ op'.v = NULL /\ op'.p = op.p /\ op'.nb = op.nb /\ op'.want = op.want
        /\ op'.blk = op.blk /\ op'.call = op.call /\ op'.align = op.align
    <3>1. op.iters + 1 \in Nat
      BY <1>1 DEF OpType
    <3>2. op' \in OpType
      BY <2>1, <3>1, <1>1 DEF OpType
    <3>3. /\ op'.at = op.at /\ op'.v = op.v /\ op'.p = op.p /\ op'.nb = op.nb
          /\ op'.want = op.want /\ op'.blk = op.blk /\ op'.call = op.call
          /\ op'.align = op.align
      BY <2>1, <1>1 DEF OpType
    <3> QED BY <3>2, <3>3, <1>0, <1>1
  <2> QED BY <2>1, <2>6, <2>7, <2>8, <2>9, <1>0, <1>u, Refiled
<1> QED BY <1>8, <1>9

(***************************************************************************)
(* The top chunk is split                                                  *)
(***************************************************************************)
\* What the invariant says of the top chunk.
LEMMA TopIs ==
    ASSUME LayoutInv
    PROVE  /\ top \in DOMAIN md /\ md[top] \in Chunk /\ md[top].size \in Nat
           /\ md[top].md_next = NULL /\ top \notin Live /\ top \notin Binned /\ top \notin Fast
           /\ top = InitialTop => md[top].size = 0 /\ ChunksOf(md) = {}
           /\ top # InitialTop => top \in ChunksOf(md) /\ top \in Nat /\ md[top].size >= 2
<1>1. /\ Heap(md, top, seams, owned, Binned, Fast, Live) /\ Geo(md, top, seams, owned)
  BY HeapIs
<1>2. Places(md, top, Binned, Fast, Live)
  BY <1>1 DEF Heap, HeapBut
<1>3. Shape(md, top, seams) /\ md[top].md_next = NULL
  BY <1>1 DEF Geo, Links
<1>4. /\ top \in DOMAIN md /\ md[top] \in Chunk /\ ChunksOf(md) \subseteq Nat
      /\ md[InitialTop].size = 0
      /\ top = InitialTop => ChunksOf(md) = {}
  BY <1>3 DEF Shape
<1>5. md[top].size \in Nat
  BY <1>4 DEF Chunk
<1>6. top \notin Live /\ top \notin Binned /\ top \notin Fast
      /\ (top # InitialTop => md[top].size >= 2)
  BY <1>2, Distinct DEF Places
<1> QED BY <1>3, <1>4, <1>5, <1>6 DEF ChunksOf

\* how the top chunk is split in two
SplitTopOff(m, t, nb, z) == z = Carve(SetHead(m, t, m[t].size), t, nb)

LEMMA TopSplitInv ==
    ASSUME HeapInv, op.at \in Mallocing, TopFits, NEW nb, nb = op.nb,
           SplitTopOff(md, top, nb, md'), top' = top + nb, Got(top),
           UNCHANGED <<bins, binmap, fastbins, have_fast, last_remainder, system, client>>
    PROVE  HeapInv'
<1>t. PICK t : t = top
  OBVIOUS
<1>0. /\ LayoutInv /\ nb \in Nat /\ nb >= MINSIZE
  BY Asked, Constants DEF HeapInv
<1>1. /\ Heap(md, top, seams, owned, Binned, Fast, Live)
      /\ Lists(bins, BinIdx) /\ Lists(fastbins, Smalls) /\ Geo(md, top, seams, owned)
      /\ SizedLists(fastbins, md) /\ Sorted(bins, md)
      /\ Binned = Members(bins, BinIdx) /\ Fast = Members(fastbins, Smalls)
  BY <1>0, HeapIs
<1>2. md[t].size >= nb + MINSIZE /\ md[t].size \in Nat /\ t # InitialTop
  <2>1. md[t].size >= nb + MINSIZE
    BY <1>t DEF TopFits
  <2>2. md[t].size \in Nat /\ (t = InitialTop => md[t].size = 0)
    BY <1>t, <1>0, TopIs
  <2> QED BY <2>1, <2>2, <1>0, Constants
<1>3. /\ t \in ChunksOf(md) /\ t \in Nat /\ t \notin Live /\ t \notin Binned /\ t \notin Fast
      /\ t \in DOMAIN md
  BY <1>t, <1>0, <1>2, TopIs
<1>4. Heap(md', t + nb, seams, owned, Binned, Fast, Live \cup {t}) /\ Cut(md, t, nb, md')
  <2>1. Heap(md, t, seams, owned, Binned, Fast, Live)
        /\ md' = Carve(SetHead(md, t, md[t].size), t, nb)
    BY <1>1, <1>t DEF SplitTopOff
  <2> QED BY <2>1, <1>0, <1>2, SplitTopHeap
<1>5. /\ t + nb \notin DOMAIN md /\ t + nb \in Nat /\ DOMAIN md' = DOMAIN md \cup {t + nb}
      /\ md'[t].size = nb /\ md'[t + nb].size = md[t].size - nb /\ SameSizes(md, md', {t})
  BY <1>4 DEF Cut
<1>6. \A x \in DOMAIN md \ {t} : md'[x].size = md[x].size
  BY <1>5 DEF SameSizes
<1>7. Binned \cup Fast \cup Live \subseteq DOMAIN md \ {t}
  BY <1>0, <1>3, ListedChunks, LiveChunks
<1>8. Sorted(bins', md') /\ SizedLists(fastbins', md')
  <2>1. \A x \in Members(bins, BinIdx) : md'[x].size = md[x].size
    BY <1>1, <1>6, <1>7
  <2>2. \A x \in Members(fastbins, Smalls) : md'[x].size = md[x].size
    BY <1>1, <1>6, <1>7
  <2>3. Sorted(bins, md') /\ SizedLists(fastbins, md')
    BY <2>1, <2>2, <1>1, SortedSame, SizedSame
  <2> QED BY <2>3
<1>9. Found(t, md, md') /\ Got(t)
  <2>1. \A q \in Live : md'[q].size = md[q].size
    BY <1>6, <1>7
  <2>2. md'[t].size >= op.nb
    BY <1>0, <1>5
  <2> QED BY <2>1, <2>2, <1>3, <1>t DEF Found
<1>10. SameEnd(md, top, md', top')
  <2>1. top' = t + nb
    BY <1>t
  <2>2. (t + nb) + md'[t + nb].size = t + md[t].size
    BY <1>0, <1>2, <1>3, <1>5
  <2>3. t + nb # InitialTop
    BY <1>5, Distinct
  <2>4. ASSUME \A c \in ChunksOf(md) : c <= t, NEW c \in ChunksOf(md') PROVE c <= t + nb
    <3>1. c = t + nb \/ c \in ChunksOf(md)
      BY <1>5 DEF ChunksOf
    <3>2. c \in Nat
      BY <3>1, <1>5, <1>1 DEF Geo, Shape
    <3> QED BY <3>1, <3>2, <2>4, <1>0, <1>3
  <2> QED BY <2>1, <2>2, <2>3, <2>4, <1>2, <1>t DEF SameEnd
<1>11. OtherTypes'
  BY DEF HeapInv, OtherTypes
<1>B. PICK B : B = Binned
  OBVIOUS
<1>F. PICK F : F = Fast
  OBVIOUS
<1>12. Heap(md', top', seams, owned, B, F, Live \cup {t})
  BY <1>4, <1>t, <1>B, <1>F
<1>13. /\ Lists(bins', BinIdx) /\ Members(bins', BinIdx) = B
       /\ Lists(fastbins', Smalls) /\ Members(fastbins', Smalls) = F
       /\ UNCHANGED client /\ UNCHANGED system
  BY <1>1, <1>B, <1>F
<1> QED BY <1>8, <1>9, <1>10, <1>11, <1>12, <1>13, TakesChunk

LEMMA UseTopInv == ASSUME HeapInv, UseTop PROVE HeapInv'
<1>n. PICK nb : nb = op.nb
  OBVIOUS
<1>1. op.at \in Mallocing /\ TopFits
  BY DEF UseTop, At, Mallocing
<1>2. /\ SplitTopOff(md, top, nb, md') /\ top' = top + nb /\ Got(top)
      /\ UNCHANGED <<bins, binmap, fastbins, have_fast, last_remainder, system, client>>
  BY <1>n DEF UseTop, SplitTop, SplitTopOff
<1> QED BY <1>n, <1>1, <1>2, TopSplitInv

LEMMA SysSplitInv == ASSUME HeapInv, SysSplit PROVE HeapInv'
<1>n. PICK nb : nb = op.nb
  OBVIOUS
<1>1. op.at \in Mallocing /\ TopFits
  BY DEF SysSplit, At, Mallocing
<1>2. /\ SplitTopOff(md, top, nb, md') /\ top' = top + nb /\ Got(top)
      /\ UNCHANGED <<bins, binmap, fastbins, have_fast, last_remainder, system, client>>
  BY <1>n DEF SysSplit, SplitTop, SplitTopOff
<1> QED BY <1>n, <1>1, <1>2, TopSplitInv

(***************************************************************************)
(* New memory                                                              *)
(***************************************************************************)
\* the chunks in use keep their sizes, and so do the free ones
AllSame(m, z) == \A x \in Binned \cup Fast \cup Live : z[x].size = m[x].size

\* Nothing happens to the lists and to the sizes of the chunks in them.
LEMMA ListsStay ==
    ASSUME LayoutInv, UNCHANGED <<bins, fastbins>>, AllSame(md, md'), NEW L, Live' = L,
           Heap(md', top', seams', owned', Binned, Fast, L)
    PROVE  LayoutInv'
<1>1. /\ Lists(bins, BinIdx) /\ Lists(fastbins, Smalls)
      /\ SizedLists(fastbins, md) /\ Sorted(bins, md)
      /\ Binned = Members(bins, BinIdx) /\ Fast = Members(fastbins, Smalls)
  BY HeapIs
<1>2. (\A x \in Members(bins, BinIdx) : md'[x].size = md[x].size)
      /\ \A x \in Members(fastbins, Smalls) : md'[x].size = md[x].size
  BY <1>1 DEF AllSame
<1>3. Sorted(bins, md') /\ SizedLists(fastbins, md')
  BY <1>1, <1>2, SortedSame, SizedSame
<1>B. PICK B : B = Binned
  OBVIOUS
<1>F. PICK F : F = Fast
  OBVIOUS
<1>4. /\ Heap(md', top', seams', owned', B, F, L)
      /\ Lists(bins', BinIdx) /\ Members(bins', BinIdx) = B
      /\ Lists(fastbins', Smalls) /\ Members(fastbins', Smalls) = F
      /\ Sorted(bins', md') /\ SizedLists(fastbins', md')
  BY <1>1, <1>3, <1>B, <1>F
<1> QED BY <1>4, LayoutAgain

\* What sysmalloc knows of the call.
LEMMA AtSys ==
    ASSUME HeapInv, op.at = "sys"
    PROVE  /\ op.nb \in Nat /\ op.nb >= 2 /\ op.v = NULL /\ op.p = NULL /\ op \in OpType
           /\ Asks(op, DOMAIN held) /\ LayoutInv /\ MemoryInv /\ entering = {} /\ retrying = {}
           /\ Live = DOMAIN held /\ Fits(op, md, held) /\ md[top].size < op.nb + MINSIZE
<1>1. op.at \in Mallocing /\ ~At("idle")
  BY DEF Mallocing, At
<1>2. /\ op.nb \in Nat /\ op.nb >= 2 /\ op.v = NULL /\ op.p = NULL /\ op \in OpType
      /\ Asks(op, DOMAIN held) /\ LayoutInv
  BY <1>1, Asked
<1>3. entering = {} /\ retrying = {} /\ Live = DOMAIN held \cup ({op.v, op.p} \ {NULL})
  BY <1>1, Busy DEF HeapInv
<1>4. Live = DOMAIN held
  BY <1>2, <1>3
<1>5. md[top].size \in Nat
  BY <1>2, TopIs
<1>6. md[top].size < op.nb + MINSIZE
  BY <1>2, <1>5, Constants DEF HeapInv, CallInv, TopFits
<1> QED BY <1>2, <1>3, <1>4, <1>6 DEF HeapInv, CallInv

\* sysmalloc goes on: to the final check, or it frees the old top chunk p first.
SysMoves(p) ==
    \/ p = NULL /\ op' = [op EXCEPT !.at = "sys_done"]
    \/ p # NULL /\ top' \in Int
       /\ op' = [op EXCEPT !.at = "free", !.p = p, !.tc = top', !.then = "sys_done"]

LEMMA SysGoesOn ==
    ASSUME HeapInv, op.at = "sys", NEW p, p \notin Live, p \in Int, UNCHANGED client,
           AllSame(md, md'), SysMoves(p)
    PROVE  CallInv' /\ Live' = Live \cup ({p} \ {NULL})
<1>1. /\ op.v = NULL /\ op.p = NULL /\ op \in OpType /\ Asks(op, DOMAIN held) /\ LayoutInv
      /\ entering = {} /\ retrying = {} /\ Live = DOMAIN held /\ Fits(op, md, held)
  BY AtSys
<1>2. /\ entering' = {} /\ retrying' = {} /\ held' = held
  BY <1>1 DEF client
<1>3. /\ op' \in OpType /\ op'.v = NULL /\ op'.p = p /\ op'.nb = op.nb /\ op'.want = op.want
      /\ op'.blk = op.blk /\ op'.align = op.align /\ op'.call = op.call
      /\ op'.at = (IF p = NULL THEN "sys_done" ELSE "free")
      /\ p # NULL => op'.tc = top' /\ op'.then = "sys_done"
  <2>1. CASE p = NULL /\ op' = [op EXCEPT !.at = "sys_done"]
    BY <2>1, <1>1 DEF OpType, Points
  <2>2. CASE p # NULL /\ op' = [op EXCEPT !.at = "free", !.p = p, !.tc = top',
                                         !.then = "sys_done"] /\ top' \in Int
    <3>1. op' \in OpType
      BY <2>2, <1>1 DEF OpType, Points
    <3> QED BY <3>1, <2>2, <1>1 DEF OpType
  <2> QED BY <2>1, <2>2 DEF SysMoves
<1>4. Live' = Live \cup ({p} \ {NULL})
  BY <1>1, <1>2, <1>3 DEF Live
<1>5. Dest(op') = "sys_done"
  BY <1>3 DEF Dest, Freeing
<1>6. OpKnown(op', DOMAIN held', top')
  <2>1. Asks(op', DOMAIN held')
    BY <1>1, <1>2, <1>3 DEF Asks
  <2> QED BY <2>1, <1>1, <1>2, <1>3, <1>5 DEF OpKnown, Freeing, Mallocing
<1>7. Fits(op', md', held')
  <2>1. \A q \in DOMAIN held : held[q] \in Requests /\ held[q] <= md[q].size
    <3> SUFFICES ASSUME NEW q \in DOMAIN held
                 PROVE  held[q] \in Requests /\ held[q] <= md[q].size
      OBVIOUS
    <3>1. q \in Live /\ q # NULL
      BY <1>1, LiveChunks
    <3> QED BY <3>1, <1>1 DEF Fits
  <2>2. \A q \in DOMAIN held : md'[q].size = md[q].size
    BY <1>1 DEF AllSame
  <2> QED BY <2>1, <2>2, <1>2, <1>3 DEF Fits
<1>8. Clients(entering', retrying', DOMAIN held', top', op')
  BY <1>2, FS_EmptySet DEF Clients
<1> QED BY <1>3, <1>4, <1>6, <1>7, <1>8 DEF CallInv

\* the part of the old top chunk that is freed
Rest(t, keep) == IF keep < MINSIZE THEN NULL ELSE t

\* What NewTop makes of the records when there was a top chunk before,
LaterTop(base, size, t, keep, f0, f1) ==
    /\ md' = Replaced(md, t, keep, f0, f1, base, size)
    /\ top' = base /\ seams' = seams \cup {f1}
    /\ owned' = owned \cup (base .. base + size - 1)
    /\ last_remainder' \in {last_remainder, Dangling}
    /\ UNCHANGED <<bins, binmap, fastbins, have_fast>>
    /\ SysMoves(Rest(t, keep))

\* and when there was none
FirstTop(base, size) ==
    /\ md' = Register(md, base, FreshTop(size))
    /\ top' = base /\ seams' = seams
    /\ owned' = owned \cup (base .. base + size - 1)
    /\ UNCHANGED <<bins, binmap, fastbins, have_fast, last_remainder>>
    /\ SysMoves(NULL)

LEMMA NewTopIs ==
    ASSUME NEW base, base \in Nat, NEW size, NewTop(base, size), old_size # 0,
           NEW t, t = top, t \in Nat,
           NEW keep, keep = old_size - MINSIZE, NEW f0, f0 = t + keep, NEW f1, f1 = f0 + 1
    PROVE  LaterTop(base, size, t, keep, f0, f1)
<1>1. md' = Replaced(md, t, keep, f0, f1, base, size)
  BY DEF NewTop, Replaced, Beyond, Fenced, FenceAt, Shrunk, Before
<1>2. last_remainder' \in {last_remainder, Dangling}
  BY DEF NewTop, Forget
<1>3. top' = base
  BY DEF NewTop
<1>4. SysMoves(Rest(t, keep))
  <2>1. CASE keep < MINSIZE
    <3>1. op' = [op EXCEPT !.at = "sys_done"]
      BY <2>1 DEF NewTop
    <3> QED BY <2>1, <3>1 DEF SysMoves, Rest
  <2>2. CASE ~(keep < MINSIZE)
    <3>1. op' = [op EXCEPT !.at = "free", !.p = t, !.tc = base, !.then = "sys_done"]
      BY <2>2 DEF NewTop
    <3>2. Rest(t, keep) = t /\ t # NULL /\ top' \in Int
      BY <2>2, <1>3, Distinct DEF Rest
    <3> QED BY <3>1, <3>2, <1>3 DEF SysMoves
  <2> QED BY <2>1, <2>2
<1> QED BY <1>1, <1>2, <1>4 DEF NewTop, LaterTop

LEMMA FirstTopIs ==
    ASSUME NEW base, NEW size, NewTop(base, size), old_size = 0
    PROVE  FirstTop(base, size)
<1>1. op' = [op EXCEPT !.at = "sys_done"]
  BY DEF NewTop
<1>2. SysMoves(NULL)
  BY <1>1 DEF SysMoves
<1> QED BY <1>2 DEF NewTop, FirstTop

\* the chunk base is the top one now, and all others lie where chunks or fenceposts do
NewTopAt(base, size, t, s, m, z) ==
    /\ z[base].size = size
    /\ \A c \in ChunksOf(z) : c \in ChunksOf(m) \/ c = base \/ (t # InitialTop /\ c < t + s)

LEMMA NewTopInv ==
    ASSUME HeapInv, op.at = "sys", NEW base \in Nat, NEW size \in Nat, size >= MINSIZE,
           Outside(owned, base, size), NewTop(base, size), UNCHANGED client
    PROVE  /\ LayoutInv' /\ CallInv' /\ OtherTypes'
           /\ top' = base /\ NewTopAt(base, size, top, old_size, md, md')
           /\ owned' = owned \cup (base .. base + size - 1)
           /\ seams' = {} => top = InitialTop /\ seams = {}
<1>0. LayoutInv
  BY DEF HeapInv
<1>1. /\ Heap(md, top, seams, owned, Binned, Fast, Live) /\ Geo(md, top, seams, owned)
  BY <1>0, HeapIs
<1>2. /\ top \in DOMAIN md /\ md[top].size \in Nat /\ top \notin Live /\ top \notin Binned
      /\ top \notin Fast
      /\ top = InitialTop => md[top].size = 0
      /\ top # InitialTop => top \in Nat /\ md[top].size >= 2
  BY <1>0, TopIs
<1>3. Binned \cup Fast \cup Live \subseteq DOMAIN md \ {top}
  BY <1>0, <1>2, ListedChunks, LiveChunks
<1>4. CASE top = InitialTop
  <2>1. old_size = 0
    BY <1>2, <1>4 DEF old_size
  <2>f. FirstTop(base, size)
    BY <2>1, FirstTopIs
  <2>2. /\ top' = base /\ seams' = seams
        /\ owned' = owned \cup (base .. base + size - 1)
        /\ UNCHANGED <<bins, binmap, fastbins, have_fast, last_remainder>>
        /\ SysMoves(NULL)
    BY <2>f DEF FirstTop
  <2>3. /\ Heap(md', base, seams, owned \cup (base .. base + size - 1), Binned, Fast, Live)
        /\ base \notin DOMAIN md /\ DOMAIN md' = DOMAIN md \cup {base}
        /\ SameSizes(md, md', {})
    <3>t. PICK t : t = InitialTop
      OBVIOUS
    <3>z. PICK z : z = md'
      OBVIOUS
    <3>B. PICK B : B = Binned
      OBVIOUS
    <3>F. PICK F : F = Fast
      OBVIOUS
    <3>L. PICK L : L = Live
      OBVIOUS
    <3>o. PICK own : own = owned \cup (base .. base + size - 1)
      OBVIOUS
    <3>1. Heap(md, t, seams, owned, B, F, L)
      BY <1>1, <1>4, <3>t, <3>B, <3>F, <3>L
    <3>2. FirstRecord(md, base, size, z)
      BY <2>f, <3>z DEF FirstTop, FirstRecord
    <3>3. FirstTopAt(md, base, size, seams, own, B, F, L, z)
      BY <3>1, <3>2, <3>t, <3>o, FirstTopHeap
    <3> QED BY <3>3, <3>z, <3>B, <3>F, <3>L, <3>o DEF FirstTopAt
  <2>4. AllSame(md, md')
    BY <2>3, <1>3 DEF SameSizes, AllSame
  <2>5. CallInv' /\ Live' = Live
    <3>p. PICK p : p = NULL
      OBVIOUS
    <3>1. p \notin Live /\ p \in Int
      BY <3>p, <1>0, LiveChunks, Distinct
    <3>2. SysMoves(p)
      BY <3>p, <2>2
    <3>3. CallInv' /\ Live' = Live \cup ({p} \ {NULL})
      BY <3>1, <3>2, <2>4, SysGoesOn
    <3> QED BY <3>3, <3>p
  <2>6. LayoutInv'
    <3>1. Heap(md', top', seams', owned', Binned, Fast, Live)
      BY <2>2, <2>3
    <3> QED BY <3>1, <2>2, <2>4, <2>5, <1>0, ListsStay
  <2>7. OtherTypes'
    BY <2>2 DEF HeapInv, OtherTypes
  <2>8. md'[base].size = size
    <3>1. md'[base] = FreshTop(size)
      BY <2>f DEF Register, FirstTop
    <3> QED BY <3>1 DEF FreshTop
  <2>9. NewTopAt(base, size, top, old_size, md, md')
    BY <2>3, <2>8 DEF NewTopAt, ChunksOf
  <2> QED BY <2>2, <2>5, <2>6, <2>7, <2>9, <1>4
<1>5. CASE top # InitialTop
  <2>t. PICK t : t = top
    OBVIOUS
  <2>k. PICK keep : keep = old_size - MINSIZE
    OBVIOUS
  <2>a. PICK f0 : f0 = t + keep
    OBVIOUS
  <2>b. PICK f1 : f1 = f0 + 1
    OBVIOUS
  <2>1. /\ keep \in Nat /\ md[t].size = keep + 2 /\ old_size = keep + 2 /\ old_size # 0
        /\ f0 \in Nat /\ f1 \in Nat /\ f1 < t + (keep + 2) /\ f0 < t + (keep + 2)
        /\ t \in Nat
    BY <2>t, <2>k, <2>a, <2>b, <1>2, <1>5, Constants DEF old_size
  <2>f. LaterTop(base, size, t, keep, f0, f1)
    BY <2>1, <2>k, <2>a, <2>b, <2>t, NewTopIs
  <2>2. /\ top' = base /\ seams' = seams \cup {f1}
        /\ owned' = owned \cup (base .. base + size - 1)
        /\ last_remainder' \in {last_remainder, Dangling}
        /\ UNCHANGED <<bins, binmap, fastbins, have_fast>>
        /\ SysMoves(Rest(t, keep))
    BY <2>f DEF LaterTop
  <2>L. PICK L : L = IF keep < MINSIZE THEN Live ELSE Live \cup {t}
    OBVIOUS
  <2>3. /\ Heap(md', base, seams \cup {f1}, owned \cup (base .. base + size - 1), Binned, Fast, L)
        /\ NewSizes(md, t, keep, f0, f1, base, size, md')
    <3>1. Heap(md, t, seams, owned, Binned, Fast, Live) /\ t # InitialTop
      BY <1>1, <1>5, <2>t
    <3>2. FenceAddresses(md, t, keep, f0, f1) /\ Kept(Live, t, keep, L)
      BY <2>1, <2>a, <2>b, <2>L DEF FenceAddresses, Kept
    <3>z. PICK z : z = md'
      OBVIOUS
    <3>3. z = Replaced(md, t, keep, f0, f1, base, size)
      BY <2>f, <3>z DEF LaterTop
    <3>4. /\ Heap(z, base, seams \cup {f1}, owned \cup (base .. base + size - 1), Binned, Fast, L)
          /\ NewSizes(md, t, keep, f0, f1, base, size, z)
      BY <3>1, <3>2, <3>3, <2>1, NewTopHeap
    <3> QED BY <3>4, <3>z
  <2>4. AllSame(md, md')
    BY <2>3, <2>t, <1>3 DEF NewSizes, AllSame
  <2>5. CallInv' /\ Live' = L
    <3>p. PICK p : p = Rest(t, keep)
      OBVIOUS
    <3>n. NULL \notin Live /\ NULL \in Int
      BY <1>0, LiveChunks, Distinct
    <3>1. p \notin Live /\ p \in Int
      BY <3>p, <3>n, <2>t, <2>1, <1>2 DEF Rest
    <3>2. SysMoves(p)
      BY <3>p, <2>2
    <3>3. CallInv' /\ Live' = Live \cup ({p} \ {NULL})
      BY <3>1, <3>2, <2>4, SysGoesOn
    <3> QED BY <3>3, <3>p, <2>L, <2>1, Distinct DEF Rest
  <2>6. LayoutInv'
    <3>1. Heap(md', top', seams', owned', Binned, Fast, L)
      BY <2>2, <2>3
    <3> QED BY <3>1, <2>2, <2>4, <2>5, <1>0, ListsStay
  <2>7. OtherTypes'
    <3>1. last_remainder' \in Int
      BY <2>2, Constants DEF HeapInv, OtherTypes
    <3> QED BY <3>1, <2>2 DEF HeapInv, OtherTypes
  <2>8. NewTopAt(base, size, top, old_size, md, md')
    <3>1. DOMAIN md' = DOMAIN md \cup {base, f0, f1} /\ md'[base].size = size
      BY <2>3 DEF NewSizes
    <3>2. top # InitialTop /\ f0 < top + old_size /\ f1 < top + old_size
      BY <1>5, <2>t, <2>1
    <3> QED BY <3>1, <3>2 DEF NewTopAt, ChunksOf
  <2>9. seams' # {}
    BY <2>2
  <2> QED BY <2>2, <2>5, <2>6, <2>7, <2>8, <2>9
<1> QED BY <1>4, <1>5

LEMMA SbrkSizeIs ==
    ASSUME HeapInv, op.at = "sys"
    PROVE  SbrkSize \in Nat /\ SbrkSize >= PageSize /\ SbrkSize > 2
<1>1. /\ op.nb \in Nat /\ md[top].size < op.nb + MINSIZE /\ md[top].size \in Nat
  <2>1. LayoutInv /\ op.nb \in Nat /\ md[top].size < op.nb + MINSIZE
    BY AtSys
  <2> QED BY <2>1, TopIs
<1>n. PICK n : n = op.nb + TopPad + MINSIZE - (IF contiguous THEN old_size ELSE 0)
  OBVIOUS
<1>2. n \in Int /\ n > 0
  BY <1>1, <1>n, Constants DEF old_size
<1>3. AlignUp(n, PageSize) \in Int /\ AlignUp(n, PageSize) >= PageSize
  <2>1. PageSize \in Nat \ {0}
    BY Constants
  <2> QED BY <2>1, <1>2, AlignUpIs
<1>4. SbrkSize = AlignUp(n, PageSize)
  BY <1>n DEF SbrkSize
<1> QED BY <1>3, <1>4, Constants

\* The first region starts where the break was, and each call of sbrk adds to it.
LEMMA SbrkedIs ==
    ASSUME MemoryInv, NEW n \in Nat, Sbrked(n)
    PROVE  /\ sbrk_regions' \in Seq([lo : Int, hi : Int])
           /\ Len(sbrk_regions') = Len(sbrk_regions)
           /\ sbrk_base' \in Int /\ sbrk_base' # NULL
           /\ \A a, b \in Int : sbrk_base # NULL /\ sbrk_regions[1] = [lo |-> a, hi |-> b] /\ b # 0
                 => sbrk_regions'[1] = [lo |-> a, hi |-> b + n]
           /\ sbrk_base = NULL /\ sbrk_regions[1].hi = 0
                 => sbrk_regions'[1] = [lo |-> brk, hi |-> brk + n]
<1>R. PICK R : R = [lo : Int, hi : Int]
  OBVIOUS
<1>1. /\ brk \in Nat /\ sbrk_base \in Int /\ sbrk_regions \in Seq(R)
      /\ 1 \in DOMAIN sbrk_regions /\ Len(sbrk_regions) \in Nat
  BY <1>R DEF MemoryInv
<1>2. sbrk_regions[1] \in R
  BY <1>1
<1>l. PICK lo : lo = IF sbrk_base = NULL THEN brk ELSE sbrk_regions[1].lo
  OBVIOUS
<1>h. PICK hi : hi = IF sbrk_regions[1].hi = 0 THEN lo ELSE sbrk_regions[1].hi
  OBVIOUS
<1>3. lo \in Int /\ hi \in Int
  BY <1>1, <1>2, <1>l, <1>h, <1>R
<1>r. PICK r : r = [lo |-> lo, hi |-> hi + n]
  OBVIOUS
<1>4. r \in R
  BY <1>3, <1>r, <1>R
<1>5. sbrk_regions' = [sbrk_regions EXCEPT ![1] = r]
      /\ sbrk_base' = IF sbrk_base = NULL THEN brk ELSE sbrk_base
  BY <1>l, <1>h, <1>r DEF Sbrked
<1>6. /\ sbrk_regions' \in Seq(R) /\ Len(sbrk_regions') = Len(sbrk_regions)
      /\ sbrk_regions'[1] = r
  BY <1>1, <1>4, <1>5
<1>7. sbrk_base' \in Int /\ sbrk_base' # NULL
  BY <1>1, <1>5, Distinct
<1>8. \A a, b \in Int : sbrk_base # NULL /\ sbrk_regions[1] = [lo |-> a, hi |-> b] /\ b # 0
                          => sbrk_regions'[1] = [lo |-> a, hi |-> b + n]
  BY <1>6, <1>r, <1>l, <1>h
<1>9. sbrk_base = NULL /\ sbrk_regions[1].hi = 0
        => sbrk_regions'[1] = [lo |-> brk, hi |-> brk + n]
  BY <1>6, <1>r, <1>l, <1>h
<1> QED BY <1>6, <1>7, <1>8, <1>9, <1>R

\* sysmalloc goes on to its final check.
LEMMA SysFinishes ==
    ASSUME HeapInv, op.at = "sys", UNCHANGED client, AllSame(md, md'), SysMoves(NULL)
    PROVE  CallInv' /\ Live' = Live
<1>p. PICK p : p = NULL
  OBVIOUS
<1>1. p \notin Live /\ p \in Int
  BY <1>p, LiveChunks, Distinct DEF HeapInv
<1>2. SysMoves(p)
  BY <1>p
<1>3. CallInv' /\ Live' = Live \cup ({p} \ {NULL})
  BY <1>1, <1>2, SysGoesOn
<1> QED BY <1>3, <1>p

\* the top chunk t of s units grows to size, and the memory with it
ToppedBy(own, own2, t, s, size) ==
    /\ \A x \in own : x < t + s \/ x >= t + size
    /\ own2 \in SUBSET Nat
    /\ \A x \in Nat : x \in own2 <=> \/ x \in own /\ (x < t \/ x >= t + s)
                                     \/ t <= x /\ x < t + size

LEMMA GrowsTop ==
    ASSUME NEW own \in SUBSET Nat, NEW t \in Nat, NEW s \in Nat, NEW k \in Nat, NEW e, e = t + s,
           \A x \in own : x < e \/ x >= e + k,
           \A x \in Nat : t <= x /\ x < t + s => x \in own
    PROVE  ToppedBy(own, own \cup (e .. e + k - 1), t, s, s + k)
BY DEF ToppedBy

LEMMA ResizeWith ==
    ASSUME NEW m, NEW t, NEW sm, NEW own, NEW B, NEW F, NEW L, Heap(m, t, sm, own, B, F, L),
           t # InitialTop, NEW size \in Nat, size >= MINSIZE, NEW own2,
           ToppedBy(own, own2, t, m[t].size, size),
           NEW z, z = ResizedTop(m, t, size)
    PROVE  Heap(z, t, sm, own2, B, F, L) /\ SizedTop(m, t, size, z)
BY ResizeHeap DEF ToppedBy

LEMMA TopOwned ==
    ASSUME LayoutInv, top # InitialTop
    PROVE  \A x \in Nat : top <= x /\ x < top + md[top].size => x \in owned
<1>1. Geo(md, top, seams, owned) /\ top \in ChunksOf(md)
  BY HeapIs, TopIs
<1> QED BY <1>1 DEF Geo, Covers

\* what sysmalloc and systrim make of the top chunk
TopSetTo(size) == md' = ResizedTop(md, top, size)

LEMMA TopResizes ==
    ASSUME LayoutInv, top # InitialTop, UNCHANGED <<top, seams>>,
           NEW size \in Nat, size >= MINSIZE, TopSetTo(size),
           ToppedBy(owned, owned', top, md[top].size, size)
    PROVE  /\ Heap(md', top', seams', owned', Binned, Fast, Live)
           /\ DOMAIN md' = DOMAIN md /\ md'[top].size = size /\ AllSame(md, md')
<1>B. PICK B : B = Binned
  OBVIOUS
<1>F. PICK F : F = Fast
  OBVIOUS
<1>L. PICK L : L = Live
  OBVIOUS
<1>z. PICK z : z = md'
  OBVIOUS
<1>o. PICK own2 : own2 = owned'
  OBVIOUS
<1>1. Heap(md, top, seams, owned, B, F, L)
  BY <1>B, <1>F, <1>L, HeapIs
<1>2. z = ResizedTop(md, top, size)
  BY <1>z DEF TopSetTo
<1>3. ToppedBy(owned, own2, top, md[top].size, size)
  BY <1>o
<1>4. Heap(z, top, seams, own2, B, F, L) /\ SizedTop(md, top, size, z)
  BY <1>1, <1>2, <1>3, ResizeWith
<1>5. B \cup F \cup L \subseteq DOMAIN md \ {top}
  BY <1>B, <1>F, <1>L, ListedChunks, LiveChunks
<1>6. AllSame(md, z)
  BY <1>4, <1>5, <1>B, <1>F, <1>L DEF SizedTop, SameSizes, AllSame
<1> QED BY <1>4, <1>6, <1>B, <1>F, <1>L, <1>z, <1>o DEF SizedTop

LEMMA OwnedNat ==
    ASSUME LayoutInv
    PROVE  owned \in SUBSET Nat
BY HeapIs DEF Geo, Covers

\* The break moves n units on.
BreakMoves(n) ==
    /\ brk + n <= SbrkLimit /\ brk' = brk + n
    /\ owned' = owned \cup (brk .. brk + n - 1)
    /\ Sbrked(n) /\ UNCHANGED <<mmap_lo, contiguous>>

\* what MemoryInv says wherever the top chunk is
MemoryTypes ==
    /\ Within(owned, system_mem)
    /\ \A x \in owned : (x < brk \/ x >= mmap_lo) /\ x < MmapTop
    /\ brk \in Nat /\ mmap_lo \in Nat /\ brk <= SbrkLimit /\ SbrkLimit <= mmap_lo
    /\ mmap_lo <= MmapTop
    /\ contiguous \in BOOLEAN /\ sbrk_base \in Int
    /\ sbrk_regions \in Seq([lo : Int, hi : Int]) /\ Len(sbrk_regions) >= 1

LEMMA BreakTypes ==
    ASSUME MemoryInv, LayoutInv, NEW n, n \in Nat, BreakMoves(n),
           system_mem' \in Nat, system_mem' >= system_mem + n
    PROVE  MemoryTypes' /\ sbrk_base' # NULL /\ Len(sbrk_regions') = Len(sbrk_regions)
<1>1. /\ Within(owned, system_mem) /\ brk \in Nat /\ mmap_lo \in Nat /\ brk <= SbrkLimit
      /\ \A x \in owned : (x < brk \/ x >= mmap_lo) /\ x < MmapTop
      /\ SbrkLimit <= mmap_lo /\ mmap_lo <= MmapTop /\ contiguous \in BOOLEAN
      /\ Len(sbrk_regions) >= 1
  BY DEF MemoryInv
<1>2. /\ brk' = brk + n /\ brk + n <= SbrkLimit /\ mmap_lo' = mmap_lo /\ contiguous' = contiguous
      /\ owned' = owned \cup (brk .. brk + n - 1) /\ Sbrked(n)
  BY DEF BreakMoves
<1>3. owned \in SUBSET Nat
  BY OwnedNat
<1>4. Within(owned', system_mem')
  BY <1>1, <1>2, MoreMemory
<1>5. \A x \in owned' : (x < brk' \/ x >= mmap_lo') /\ x < MmapTop
  <2> SUFFICES ASSUME NEW x \in owned' PROVE (x < brk' \/ x >= mmap_lo') /\ x < MmapTop
    OBVIOUS
  <2>1. CASE x \in owned
    BY <2>1, <1>1, <1>2, <1>3
  <2>2. CASE x \in brk .. brk + n - 1
    BY <2>2, <1>1, <1>2, Constants
  <2> QED BY <2>1, <2>2, <1>2
<1>6. /\ sbrk_base' \in Int /\ sbrk_base' # NULL
      /\ sbrk_regions' \in Seq([lo : Int, hi : Int]) /\ Len(sbrk_regions') = Len(sbrk_regions)
  BY <1>2, SbrkedIs
<1> QED BY <1>1, <1>2, <1>4, <1>5, <1>6 DEF MemoryTypes

\* the top chunk ends at the break, and moves with it
TopGrown(n) ==
    /\ brk = top + md[top].size /\ system_mem' = system_mem + n
    /\ md'[top].size = md[top].size + n /\ DOMAIN md' = DOMAIN md
    /\ UNCHANGED <<seams, top>>

LEMMA RegionGrows ==
    ASSUME NEW a \in Int, NEW b \in Int, NEW n \in Nat, a <= b
    PROVE  (a .. b - 1) \cup (b .. b + n - 1) = a .. b + n - 1
OBVIOUS

\* sysmalloc asks for whole pages
LEMMA SbrkPages == ASSUME HeapInv, op.at = "sys" PROVE SbrkSize % PageSize = 0
<1>n. PICK n : n = op.nb + TopPad + MINSIZE - (IF contiguous THEN old_size ELSE 0)
  OBVIOUS
<1>1. n \in Int
  <2>1. op \in OpType /\ md[top].size \in Nat
    BY TopIs DEF HeapInv, CallInv, OpKnown
  <2> QED BY <2>1, <1>n, Constants DEF OpType, old_size
<1>2. AlignUp(n, PageSize) % PageSize = 0
  BY <1>1, RoundedIs, Constants
<1> QED BY <1>2, <1>n DEF SbrkSize

\* The end of the top chunk moves by whole pages.
LEMMA EndMoves ==
    ASSUME Paged, LayoutInv, top # InitialTop, NEW n \in Int, n % PageSize = 0,
           top' = top, md'[top].size = md[top].size + n, UNCHANGED <<mmap_lo, ragged>>
    PROVE  Paged'
<1>e. PICK e : e = top + md[top].size
  OBVIOUS
<1>1. e \in Int /\ top \in Nat /\ md[top].size \in Nat
  BY <1>e, TopIs
<1>2. top' + md'[top'].size = e + n
  BY <1>1, <1>e
<1>3. ASSUME ~ragged PROVE (e + n) % PageSize = 0
  <2>1. e % PageSize = 0
    BY <1>3, <1>e DEF Paged
  <2>2. e \in Int /\ n \in Int /\ PageSize \in Nat \ {0}
    BY <1>1, Constants
  <2> QED BY <2>1, <2>2, PagesAddUp
<1> QED BY <1>2, <1>3 DEF Paged

LEMMA ExtendedRegion ==
    ASSUME MemoryInv, LayoutInv, top # InitialTop, NEW n, n \in Nat, BreakMoves(n), TopGrown(n),
           n % PageSize = 0, UNCHANGED ragged
    PROVE  MemoryInv'
<1>t. top \in Nat /\ md[top].size \in Nat /\ md[top].size >= 2
  BY TopIs
<1>1. brk \in Nat /\ brk' = brk + n /\ contiguous' = contiguous /\ system_mem \in Nat
  BY DEF BreakMoves, MemoryInv, Within
<1>2. system_mem' \in Nat /\ system_mem' >= system_mem + n
  <2>1. system_mem' = system_mem + n
    BY DEF TopGrown
  <2> QED BY <2>1, <1>1
<1>3. ASSUME contiguous PROVE InOneRegion'
  <2>1. InOneRegion
    BY <1>3 DEF MemoryInv
  <2>2. sbrk_base # NULL /\ Len(sbrk_regions) = 1 /\ InitialBrk + system_mem = top + md[top].size
    BY <2>1 DEF InOneRegion
  <2>3. \A c \in ChunksOf(md') : c <= top'
    <3>1. \A c \in ChunksOf(md) : c <= top
      BY <2>1 DEF InOneRegion
    <3> QED BY <3>1 DEF ChunksOf, TopGrown
  <2>b. brk = InitialBrk + system_mem /\ brk + n = InitialBrk + system_mem'
    <3>1. brk = top + md[top].size /\ system_mem' = system_mem + n
      BY DEF TopGrown
    <3>2. brk = InitialBrk + system_mem
      BY <3>1, <2>2
    <3> QED BY <3>1, <3>2, <1>1, Constants
  <2>4. /\ InitialBrk + system_mem' = top' + md'[top'].size
        /\ top' + md'[top'].size <= brk'
    <3>1. brk = top + md[top].size /\ md'[top].size = md[top].size + n /\ top' = top
      BY DEF TopGrown
    <3>2. top + md'[top].size = brk + n
      BY <3>1, <1>t
    <3>3. brk + n \in Int
      BY <1>1
    <3> QED BY <3>1, <3>2, <3>3, <2>b, <1>1
  <2>5. sbrk_base' # NULL /\ Len(sbrk_regions') = 1
    BY <2>2, <1>2, BreakTypes
  <2>6. ASSUME seams = {}
        PROVE  /\ sbrk_regions'[1] = [lo |-> InitialBrk, hi |-> InitialBrk + system_mem']
               /\ owned' = InitialBrk .. InitialBrk + system_mem' - 1
    <3>0. /\ sbrk_regions[1] = [lo |-> InitialBrk, hi |-> InitialBrk + system_mem]
          /\ owned = InitialBrk .. InitialBrk + system_mem - 1
      BY <2>1, <2>6 DEF InOneRegion
    <3>1. brk # 0 /\ brk \in Int /\ InitialBrk \in Int /\ InitialBrk <= brk
      <4>1. brk = top + md[top].size
        BY DEF TopGrown
      <4> QED BY <4>1, <2>b, <1>1, <1>t, Constants
    <3>2. sbrk_regions'[1] = [lo |-> InitialBrk, hi |-> brk + n]
      <4>1. sbrk_regions[1] = [lo |-> InitialBrk, hi |-> brk]
        BY <3>0, <2>b
      <4>2. Sbrked(n)
        BY DEF BreakMoves
      <4>3. \A a, b \in Int : sbrk_base # NULL /\ sbrk_regions[1] = [lo |-> a, hi |-> b] /\ b # 0
                => sbrk_regions'[1] = [lo |-> a, hi |-> b + n]
        BY <4>2, SbrkedIs
      <4> QED BY <4>1, <4>3, <3>1, <2>2
    <3>o. PICK o : o = owned
      OBVIOUS
    <3>3. owned' = o \cup (brk .. brk + n - 1)
      BY <3>o DEF BreakMoves
    <3>b. PICK b : b = InitialBrk + system_mem
      OBVIOUS
    <3>4. o = InitialBrk .. brk - 1
      <4>1. o = InitialBrk .. b - 1
        <5>1. InitialBrk \in Int /\ system_mem \in Int
          BY <3>1, <1>1
        <5> QED BY <5>1, <3>0, <3>o, <3>b
      <4>2. brk = b
        BY <2>b, <3>b
      <4> QED BY <4>1, <4>2
    <3>5. owned' = InitialBrk .. brk + n - 1
      BY <3>1, <3>3, <3>4, RegionGrows
    <3>e. PICK e : e = brk + n
      OBVIOUS
    <3>6. e = InitialBrk + system_mem'
      <4>1. InitialBrk \in Int /\ system_mem' \in Int /\ brk \in Int
        BY <3>1, <1>1, <1>2
      <4> QED BY <4>1, <3>e, <2>b
    <3>7. sbrk_regions'[1] = [lo |-> InitialBrk, hi |-> e] /\ owned' = InitialBrk .. e - 1
      <4>1. sbrk_regions'[1] = [lo |-> InitialBrk, hi |-> e]
        BY <3>2, <3>e
      <4>2. owned' = InitialBrk .. e - 1
        BY <3>1, <3>5, <3>e
      <4> QED BY <4>1, <4>2
    <3>8. sbrk_regions'[1] = [lo |-> InitialBrk, hi |-> InitialBrk + system_mem']
      BY <3>6, <3>7
    <3>9. owned' = InitialBrk .. InitialBrk + system_mem' - 1
      <4>1. InitialBrk \in Int /\ system_mem' \in Int
        BY <3>1, <1>1, <1>2
      <4> QED BY <4>1, <3>6, <3>7
    <3> QED BY <3>8, <3>9
  <2>7. seams' = {} => seams = {}
    BY DEF TopGrown
  <2> QED BY <2>3, <2>4, <2>5, <2>6, <2>7 DEF InOneRegion
<1>4. MemoryTypes'
  BY <1>2, BreakTypes
<1>5. top' # InitialTop
  BY DEF TopGrown
<1>6. Paged'
  <2>1. Paged /\ top' = top /\ md'[top].size = md[top].size + n /\ mmap_lo' = mmap_lo
    BY DEF MemoryInv, TopGrown, BreakMoves
  <2> QED BY <2>1, EndMoves
<1> QED BY <1>1, <1>3, <1>4, <1>5, <1>6 DEF MemoryInv, MemoryTypes

LEMMA SysExtendInv == ASSUME HeapInv, SysExtend PROVE HeapInv'
<1>n. PICK n : n = SbrkSize
  OBVIOUS
<1>s. PICK s : s = md[top].size + n
  OBVIOUS
<1>0. op.at = "sys" /\ LayoutInv /\ MemoryInv
  BY DEF SysExtend, At, HeapInv
<1>1. n \in Nat
  BY <1>0, <1>n, SbrkSizeIs
<1>2. brk \in Nat /\ system_mem \in Nat /\ SbrkLimit <= mmap_lo /\ mmap_lo \in Nat
      /\ \A x \in owned : x < brk \/ x >= mmap_lo
  BY <1>0 DEF MemoryInv, Within
<1>3. brk = top + md[top].size
  BY DEF SysExtend, old_end, old_size
<1>4. /\ top # InitialTop /\ top \in Nat /\ md[top].size \in Nat /\ md[top].size >= 2
  <2>1. /\ md[top].size \in Nat
        /\ top = InitialTop => md[top].size = 0
        /\ top # InitialTop => top \in Nat /\ md[top].size >= 2
    BY <1>0, TopIs
  <2>2. top # InitialTop
    <3> SUFFICES ASSUME top = InitialTop PROVE FALSE
      OBVIOUS
    <3>1. brk = -2
      BY <2>1, <1>3, Constants
    <3> QED BY <3>1, <1>2
  <2> QED BY <2>1, <2>2
<1>5. BreakMoves(n)
  BY <1>n DEF SysExtend, CanSbrk, BreakMoves
<1>6. TopSetTo(s)
  <2>1. md' = [md EXCEPT ![top].size = md[top].size + n, ![top].prev_inuse = TRUE]
    BY <1>n DEF SysExtend
  <2> QED BY <2>1, <1>s DEF TopSetTo, ResizedTop
<1>7. s \in Nat /\ s >= MINSIZE
  BY <1>1, <1>4, <1>s, Constants
<1>8. ToppedBy(owned, owned', top, md[top].size, s)
  <2>1. owned \in SUBSET Nat
    BY <1>0, OwnedNat
  <2>2. \A x \in owned : x < brk \/ x >= brk + n
    <3>1. brk + n <= mmap_lo
      BY <1>1, <1>2, <1>5, Constants DEF BreakMoves
    <3> QED BY <3>1, <2>1, <1>1, <1>2
  <2>3. \A x \in Nat : top <= x /\ x < top + md[top].size => x \in owned
    BY <1>0, <1>4, TopOwned
  <2>4. owned' = owned \cup (brk .. brk + n - 1)
    BY <1>5 DEF BreakMoves
  <2>5. ToppedBy(owned, owned \cup (brk .. brk + n - 1), top, md[top].size, md[top].size + n)
    BY <2>1, <2>2, <2>3, <1>1, <1>3, <1>4, GrowsTop
  <2> QED BY <2>4, <2>5, <1>s
<1>9. UNCHANGED <<bins, binmap, fastbins, have_fast, top, last_remainder, seams, client>>
  BY DEF SysExtend
<1>10. /\ Heap(md', top', seams', owned', Binned, Fast, Live)
       /\ DOMAIN md' = DOMAIN md /\ md'[top].size = s /\ AllSame(md, md')
  BY <1>0, <1>4, <1>6, <1>7, <1>8, <1>9, TopResizes
<1>11. CallInv' /\ Live' = Live
  <2>1. op' = [op EXCEPT !.at = "sys_done"]
    BY DEF SysExtend, GoTo
  <2>2. SysMoves(NULL) /\ UNCHANGED client
    BY <2>1, <1>9 DEF SysMoves
  <2> QED BY <2>2, <1>0, <1>10, SysFinishes
<1>12. LayoutInv'
  BY <1>0, <1>9, <1>10, <1>11, ListsStay
<1>13. MemoryInv'
  <2>1. system_mem' = system_mem + n
    BY <1>n DEF SysExtend
  <2>2. TopGrown(n)
    BY <2>1, <1>3, <1>9, <1>10, <1>s DEF TopGrown
  <2>3. n % PageSize = 0 /\ UNCHANGED ragged
    BY <1>0, <1>n, SbrkPages DEF SysExtend
  <2> QED BY <2>2, <2>3, <1>0, <1>1, <1>4, <1>5, ExtendedRegion
<1>14. OtherTypes'
  BY <1>9 DEF HeapInv, OtherTypes
<1> QED BY <1>11, <1>12, <1>13, <1>14 DEF HeapInv

\* The new region at the break is the last one, and nothing of the memory before it is
\* forgotten: foreign memory between the two counts.
LEMMA FreshRegion ==
    ASSUME MemoryInv, LayoutInv, NEW n, n \in Nat, BreakMoves(n),
           NewTopAt(brk, n, top, old_size, md, md'), top' = brk,
           system_mem' = system_mem + n + ForeignGap,
           seams' = {} => top = InitialTop /\ seams = {}, contiguous, ChunksOf(md') \subseteq Nat
    PROVE  InOneRegion'
<1>t. /\ md[top].size \in Nat /\ (top = InitialTop => md[top].size = 0 /\ ChunksOf(md) = {})
      /\ (top # InitialTop => top \in Nat /\ md[top].size >= 2)
  BY TopIs
<1>1. brk \in Nat /\ brk' = brk + n /\ system_mem \in Nat /\ InitialBrk \in Nat
  BY Constants DEF BreakMoves, MemoryInv, Within
<1>2. CASE top = InitialTop
  <2>1. AtStart
    BY <1>2 DEF MemoryInv
  <2>2. /\ brk = InitialBrk /\ system_mem = 0 /\ sbrk_base = NULL
        /\ sbrk_regions = <<[lo |-> 0, hi |-> 0]>>
    BY <2>1 DEF AtStart
  <2>3. ForeignGap = 0
    BY <1>2, <1>t DEF ForeignGap, old_size
  <2>4. system_mem' = n
    BY <2>2, <2>3
  <2>5. Len(sbrk_regions) = 1 /\ sbrk_regions[1].hi = 0
    <3>r. PICK r : r = [lo |-> 0, hi |-> 0]
      OBVIOUS
    <3>1. sbrk_regions = <<r>> /\ r.hi = 0
      BY <3>r, <2>2
    <3> QED BY <3>1
  <2>6. /\ sbrk_base' # NULL /\ Len(sbrk_regions') = 1
        /\ sbrk_regions'[1] = [lo |-> brk, hi |-> brk + n]
    <3>1. Sbrked(n)
      BY DEF BreakMoves
    <3>2. /\ Len(sbrk_regions') = Len(sbrk_regions)
          /\ sbrk_base' # NULL
          /\ sbrk_base = NULL /\ sbrk_regions[1].hi = 0
                => sbrk_regions'[1] = [lo |-> brk, hi |-> brk + n]
      BY <3>1, SbrkedIs
    <3> QED BY <3>2, <2>2, <2>5
  <2>7. \A c \in ChunksOf(md') : c = brk
    BY <1>2, <1>t DEF NewTopAt
  <2>8. owned' = brk .. brk + n - 1
    <3>1. Geo(md, top, seams, owned)
      BY HeapIs
    <3>2. owned = {}
      BY <3>1, <1>2, <1>t DEF Geo, Covers
    <3> QED BY <3>2 DEF BreakMoves
  <2>9. md'[brk].size = n
    BY DEF NewTopAt
  <2>10. \A c \in ChunksOf(md') : c <= top'
    BY <2>7, <1>1
  <2>11. InitialBrk + system_mem' = top' + md'[top'].size /\ top' + md'[top'].size <= brk'
    BY <2>2, <2>4, <2>9, <1>1
  <2>12. /\ sbrk_regions'[1] = [lo |-> InitialBrk, hi |-> InitialBrk + system_mem']
         /\ owned' = InitialBrk .. InitialBrk + system_mem' - 1
    BY <2>2, <2>4, <2>6, <2>8
  <2> QED BY <2>6, <2>10, <2>11, <2>12 DEF InOneRegion
<1>3. CASE top # InitialTop
  <2>1. InOneRegion
    BY <1>3 DEF MemoryInv
  <2>2. /\ \A c \in ChunksOf(md) : c <= top
        /\ InitialBrk + system_mem = top + md[top].size
        /\ top + md[top].size <= brk
        /\ sbrk_base # NULL /\ Len(sbrk_regions) = 1
    BY <2>1 DEF InOneRegion
  <2>3. top \in Nat /\ top < brk
    BY <2>2, <1>3, <1>t, <1>1
  <2>4. \A c \in ChunksOf(md') : c <= top'
    <3> SUFFICES ASSUME NEW c \in ChunksOf(md') PROVE c <= brk
      OBVIOUS
    <3>n. ChunksOf(md) \subseteq Nat
      BY HeapIs DEF Geo, Shape
    <3>1. c \in ChunksOf(md) \/ c = brk \/ c < top + md[top].size
      BY DEF NewTopAt, old_size
    <3>2. c \in ChunksOf(md) => c <= top /\ c \in Nat
      BY <3>n, <2>2
    <3>3. c \in Nat
      OBVIOUS
    <3>4. c \in ChunksOf(md) => c <= brk
      BY <3>2, <2>3, <1>1
    <3>5. c < top + md[top].size => c <= brk
      BY <2>2, <2>3, <1>1, <1>t, <3>3
    <3> QED BY <3>1, <3>4, <3>5, <1>1
  <2>5. ForeignGap = brk - (top + md[top].size)
    BY <1>3, <1>t DEF ForeignGap, old_size, old_end
  <2>6. InitialBrk + system_mem' = brk + n
    BY <2>2, <2>3, <2>5, <1>1, <1>t
  <2>7. md'[brk].size = n
    BY DEF NewTopAt
  <2>8. InitialBrk + system_mem' = top' + md'[top'].size /\ top' + md'[top'].size <= brk'
    BY <2>6, <2>7, <1>1
  <2>9. sbrk_base' # NULL /\ Len(sbrk_regions') = 1
    <3>1. Sbrked(n)
      BY DEF BreakMoves
    <3>2. Len(sbrk_regions') = Len(sbrk_regions) /\ sbrk_base' # NULL
      BY <3>1, SbrkedIs
    <3> QED BY <3>2, <2>2
  <2>10. seams' # {}
    BY <1>3
  <2> QED BY <2>4, <2>8, <2>9, <2>10 DEF InOneRegion
<1> QED BY <1>2, <1>3

\* sysmalloc makes the new memory at the break the top chunk.
LEMMA SbrkRegion ==
    ASSUME HeapInv, op.at = "sys", NEW n, n \in Nat, n >= MINSIZE, BreakMoves(n), NewTop(brk, n),
           UNCHANGED client, system_mem' \in Nat, system_mem' >= system_mem + n,
           contiguous => system_mem' = system_mem + n + ForeignGap,
           ragged' \in BOOLEAN, ~ragged' => (brk + n) % PageSize = 0
    PROVE  HeapInv'
<1>0. LayoutInv /\ MemoryInv
  BY DEF HeapInv
<1>b. PICK base : base = brk
  OBVIOUS
<1>1. /\ base \in Nat /\ \A x \in owned : x < base \/ x >= mmap_lo
      /\ base + n <= mmap_lo /\ owned \subseteq Nat /\ mmap_lo \in Nat
      /\ top = InitialTop => contiguous
  <2>1. /\ brk \in Nat /\ mmap_lo \in Nat /\ SbrkLimit <= mmap_lo /\ brk + n <= SbrkLimit
        /\ \A x \in owned : x < brk \/ x >= mmap_lo
        /\ top = InitialTop => contiguous
    BY <1>0 DEF MemoryInv, BreakMoves, AtStart
  <2>2. owned \subseteq Nat
    BY <1>0, OwnedNat
  <2> QED BY <2>1, <2>2, <1>b, Constants
<1>2. Outside(owned, base, n)
  <2> SUFFICES ASSUME NEW x \in owned PROVE x < base \/ x >= base + n
    BY DEF Outside
  <2> QED BY <1>1
<1>3. NewTop(base, n)
  BY <1>b
<1>4. /\ LayoutInv' /\ CallInv' /\ OtherTypes'
      /\ top' = base /\ NewTopAt(base, n, top, old_size, md, md')
      /\ seams' = {} => top = InitialTop /\ seams = {}
  BY <1>1, <1>2, <1>3, NewTopInv
<1>5. MemoryTypes' /\ contiguous' = contiguous
  <2>1. MemoryTypes'
    BY <1>0, BreakTypes
  <2> QED BY <2>1 DEF BreakMoves
<1>6. ASSUME contiguous PROVE InOneRegion'
  <2>1. ChunksOf(md') \subseteq Nat
    <3>1. Heap(md', top', seams', owned', Binned', Fast', Live')
      BY <1>4 DEF LayoutInv
    <3> QED BY <3>1 DEF Heap, HeapBut, Tagged, Geo, Shape
  <2>2. NewTopAt(brk, n, top, old_size, md, md') /\ top' = brk
    BY <1>4, <1>b
  <2>3. system_mem' = system_mem + n + ForeignGap
    BY <1>6
  <2>4. seams' = {} => top = InitialTop /\ seams = {}
    BY <1>4
  <2> QED BY <2>1, <2>2, <2>3, <2>4, <1>0, <1>6, FreshRegion
<1>7. top' # InitialTop
  BY <1>1, <1>4, Distinct
<1>8. Paged'
  <2>1. top' + md'[top'].size = brk + n
    BY <1>4, <1>b DEF NewTopAt
  <2>2. mmap_lo' % PageSize = 0
    BY <1>0 DEF MemoryInv, Paged, BreakMoves
  <2> QED BY <2>1, <2>2 DEF Paged
<1>9. MemoryInv'
  BY <1>5, <1>6, <1>7, <1>8 DEF MemoryInv, MemoryTypes
<1> QED BY <1>4, <1>9 DEF HeapInv

\* Foreign memory lies between the old top chunk and the break.
LEMMA GapIs ==
    ASSUME MemoryInv, LayoutInv, contiguous
    PROVE  ForeignGap \in Nat
<1>t. /\ md[top].size \in Nat /\ (top = InitialTop => md[top].size = 0)
      /\ (top # InitialTop => top \in Nat)
  BY TopIs
<1>1. brk \in Nat
  BY DEF MemoryInv
<1>2. CASE top = InitialTop
  BY <1>2, <1>t DEF ForeignGap, old_size
<1>3. CASE top # InitialTop
  <2>1. top + md[top].size <= brk
    BY <1>3 DEF MemoryInv, InOneRegion
  <2> QED BY <2>1, <1>t, <1>1, <1>3 DEF ForeignGap, old_size, old_end
<1> QED BY <1>2, <1>3

LEMMA SysSbrkNoncontiguousInv == ASSUME HeapInv, SysSbrkNoncontiguous PROVE HeapInv'
<1>n. PICK n : n = SbrkSize
  OBVIOUS
<1>0. op.at = "sys" /\ LayoutInv /\ MemoryInv /\ ~contiguous /\ UNCHANGED client
  BY DEF SysSbrkNoncontiguous, At, HeapInv
<1>1. n \in Nat /\ n >= MINSIZE
  BY <1>0, <1>n, SbrkSizeIs, Constants
<1>2. NewTop(brk, n)
  BY <1>n DEF SysSbrkNoncontiguous
<1>3. BreakMoves(n)
  <2>1. owned' = owned \cup (brk .. brk + n - 1)
    BY <1>2 DEF NewTop
  <2> QED BY <1>n, <2>1 DEF SysSbrkNoncontiguous, CanSbrk, BreakMoves
<1>4. system_mem' \in Nat /\ system_mem' >= system_mem + n
  <2>1. system_mem' = system_mem + n
    BY <1>n DEF SysSbrkNoncontiguous
  <2>2. system_mem \in Nat
    BY <1>0 DEF MemoryInv, Within
  <2> QED BY <2>1, <2>2, <1>1
<1>5. ragged' \in BOOLEAN /\ (~ragged' => (brk + n) % PageSize = 0)
  <2>1. ragged' = (brk % PageSize # 0)
    BY DEF SysSbrkNoncontiguous
  <2>2. n % PageSize = 0 /\ brk \in Int /\ n \in Int /\ PageSize \in Nat \ {0}
    BY <1>0, <1>1, <1>n, SbrkPages, Constants DEF MemoryInv
  <2>3. brk % PageSize = 0 => (brk + n) % PageSize = 0
    BY <2>2, PagesAddUp
  <2> QED BY <2>1, <2>3
<1> QED BY <1>0, <1>1, <1>2, <1>3, <1>4, <1>5, SbrkRegion

\* Both calls of sbrk together move the break n units on.
SbrkedTwice(n) ==
    /\ brk + n <= SbrkLimit /\ brk' = brk + n
    /\ system_mem' = system_mem + n + ForeignGap
    /\ Sbrked(n) /\ NewTop(brk, n)

\* The memory of the heap never lies behind the break.
LEMMA BreakKept ==
    ASSUME LayoutInv, MemoryInv, contiguous
    PROVE  ~BreakLowered
<1>t. PICK t : t = md[top].size
  OBVIOUS
<1>1. t \in Nat /\ top \in Int /\ brk \in Nat
  BY <1>t, TopIs DEF MemoryInv
<1>2. CASE top = InitialTop
  <2>1. t = 0
    BY <1>2, <1>t, TopIs
  <2> QED BY <2>1, <1>t DEF BreakLowered, old_size
<1>3. CASE top # InitialTop
  <2>1. top + md[top].size <= brk
    BY <1>3 DEF MemoryInv, InOneRegion
  <2> QED BY <2>1, <1>t, <1>1 DEF BreakLowered, old_size, old_end
<1> QED BY <1>2, <1>3

\* The top chunk's region is aligned at its end, if the second call was granted.
LEMMA Correction ==
    ASSUME HeapInv, SysSbrkRegion
    PROVE  \E n \in Nat : /\ n >= 2 /\ SbrkedTwice(n)
                         /\ ragged' \in BOOLEAN /\ (~ragged' => (brk + n) % PageSize = 0)
<1>0. op.at = "sys" /\ LayoutInv /\ MemoryInv
  BY DEF SysSbrkRegion, At, HeapInv
<1>b. PICK s : s = SbrkSize
  OBVIOUS
<1>1. s \in Nat /\ s > 2 /\ brk \in Nat /\ old_size \in Nat /\ system_mem \in Nat
  BY <1>0, <1>b, SbrkSizeIs, TopIs DEF old_size, MemoryInv, Within
<1>e. PICK end : end = brk + s
  OBVIOUS
<1>a. PICK up : up = AlignUp(end + old_size, PageSize)
  OBVIOUS
<1>n. PICK need : need = old_size + up - (end + old_size)
  OBVIOUS
<1>2. need \in Nat
  <2>1. end + old_size \in Int /\ PageSize \in Nat \ {0}
    BY <1>1, <1>e, Constants
  <2>2. up \in Int /\ up >= end + old_size
    BY <2>1, <1>a, AlignUpIs
  <2> QED BY <2>1, <2>2, <1>1, <1>e, <1>n
<1>l. ~BreakLowered
  BY <1>0, BreakKept DEF SysSbrkRegion
<1>3. PICK correction \in {0, need} :
               /\ end + correction <= SbrkLimit
               /\ brk' = end + correction
               /\ system_mem' = system_mem + s + correction + ForeignGap
               /\ Sbrked(s + correction)
               /\ ragged' = (correction # need)
               /\ NewTop(brk, s + correction)
  BY <1>b, <1>e, <1>a, <1>n, <1>l DEF SysSbrkRegion
<1>m. PICK n : n = s + correction
  OBVIOUS
<1>4. correction \in Nat /\ n \in Nat /\ n >= 2
  BY <1>1, <1>2, <1>m
<1>5. end + correction = brk + n
  BY <1>1, <1>4, <1>e, <1>m
<1>6. Sbrked(n) /\ NewTop(brk, n)
  BY <1>3, <1>m
<1>7. system_mem' = system_mem + n + ForeignGap
  <2>1. system_mem + s + correction = system_mem + n
    BY <1>1, <1>4, <1>m
  <2> QED BY <2>1, <1>3
<1>8. SbrkedTwice(n)
  BY <1>3, <1>5, <1>6, <1>7 DEF SbrkedTwice
<1>9. ASSUME ~ragged' PROVE (brk + n) % PageSize = 0
  <2>1. correction = need
    BY <1>3, <1>9
  <2>2. end + old_size \in Int /\ PageSize \in Nat \ {0}
    BY <1>1, <1>e, Constants
  <2>3. up \in Int /\ up % PageSize = 0
    BY <2>2, <1>a, AlignUpIs, RoundedIs
  <2>4. brk + n = up
    BY <2>1, <2>2, <2>3, <1>1, <1>e, <1>n, <1>m
  <2> QED BY <2>3, <2>4
<1>10. ragged' \in BOOLEAN
  BY <1>3
<1> QED BY <1>4, <1>8, <1>9, <1>10

LEMMA SysSbrkRegionInv == ASSUME HeapInv, SysSbrkRegion PROVE HeapInv'
<1>0. op.at = "sys" /\ LayoutInv /\ MemoryInv /\ contiguous /\ UNCHANGED client
      /\ UNCHANGED <<mmap_lo, contiguous>>
  BY DEF SysSbrkRegion, At, HeapInv
<1>1. PICK n \in Nat : /\ n >= 2 /\ SbrkedTwice(n)
                      /\ ragged' \in BOOLEAN /\ (~ragged' => (brk + n) % PageSize = 0)
  BY Correction
<1>2. NewTop(brk, n) /\ n >= MINSIZE
  BY <1>1, Constants DEF SbrkedTwice
<1>3. BreakMoves(n)
  <2>1. owned' = owned \cup (brk .. brk + n - 1)
    BY <1>2 DEF NewTop
  <2> QED BY <2>1, <1>0, <1>1 DEF SbrkedTwice, BreakMoves
<1>4. /\ system_mem' \in Nat /\ system_mem' >= system_mem + n
      /\ system_mem' = system_mem + n + ForeignGap
  <2>1. system_mem' = system_mem + n + ForeignGap
    BY <1>1 DEF SbrkedTwice
  <2>2. system_mem \in Nat /\ ForeignGap \in Nat
    BY <1>0, GapIs DEF MemoryInv, Within
  <2>g. PICK g : g = ForeignGap
    OBVIOUS
  <2>3. g \in Nat /\ system_mem' = system_mem + n + g
    BY <2>1, <2>2, <2>g
  <2>4. system_mem' \in Nat /\ system_mem' >= system_mem + n
    BY <2>2, <2>3, <1>1
  <2> QED BY <2>1, <2>4
<1> QED BY <1>0, <1>1, <1>2, <1>3, <1>4, SbrkRegion

LEMMA LargerOf ==
    ASSUME NEW a \in Int, NEW b \in Int
    PROVE  Max({a, b}) \in {a, b} /\ Max({a, b}) >= a
<1>S. PICK S : S = {a, b}
  OBVIOUS
<1>1. \E x \in S : \A y \in S : x >= y
  <2>1. CASE a >= b
    BY <2>1, <1>S
  <2>2. CASE ~(a >= b)
    BY <2>2, <1>S
  <2> QED BY <2>1, <2>2
<1>2. Max(S) \in S /\ \A y \in S : Max(S) >= y
  BY <1>1 DEF Max
<1> QED BY <1>2, <1>S

LEMMA UnitOfPages ==
    ASSUME NEW u \in Nat \ {0}, NEW p \in Nat \ {0}, u % p = 0
    PROVE  u >= p
OBVIOUS

LEMMA MmapSizeIs ==
    ASSUME HeapInv, op.at = "sys"
    PROVE  MmapSize \in Nat /\ MmapSize >= 2 /\ MmapSize % PageSize = 0
<1>1. SbrkSize \in Nat /\ old_size \in Nat /\ PageSize \in Nat \ {0}
  BY SbrkSizeIs, TopIs, Constants DEF old_size, HeapInv
<1>s. PICK s : s = SbrkSize
  OBVIOUS
<1>b. PICK b : b = IF contiguous THEN AlignUp(s + old_size, PageSize) ELSE s
  OBVIOUS
<1>2. b \in Int
  <2>1. AlignUp(s + old_size, PageSize) \in Int
    BY <1>1, <1>s, AlignUpIs
  <2> QED BY <2>1, <1>1, <1>s, <1>b
<1>3. MmapUnit \in Nat \ {0} /\ MmapUnit >= PageSize
  BY <1>1, UnitOfPages, SpaceAssumption
<1>4. Max({MmapUnit, b}) \in {MmapUnit, b} /\ Max({MmapUnit, b}) >= MmapUnit
  BY <1>2, <1>3, LargerOf
<1>5. MmapSize = Max({MmapUnit, b})
  BY <1>s, <1>b DEF MmapSize
<1>6. b % PageSize = 0
  <2>1. AlignUp(s + old_size, PageSize) % PageSize = 0
    BY <1>1, <1>s, RoundedIs
  <2>2. s % PageSize = 0
    BY <1>s, SbrkPages
  <2> QED BY <2>1, <2>2, <1>b
<1>7. MmapSize % PageSize = 0
  BY <1>4, <1>5, <1>6, SpaceAssumption
<1> QED BY <1>2, <1>3, <1>4, <1>5, <1>7, Constants

\* sys_MMAP gives n units at base, below all it gave before.
Mapped(n, base) ==
    /\ base >= SbrkLimit /\ mmap_lo' = base /\ ~contiguous'
    /\ system_mem' = system_mem + n
    /\ sbrk_regions' = Append(sbrk_regions, [lo |-> base, hi |-> mmap_lo])
    /\ sbrk_base' = IF sbrk_base = NULL THEN base ELSE sbrk_base
    /\ brk' = brk /\ NewTop(base, n) /\ contiguous' \in BOOLEAN

LEMMA MappedTypes ==
    ASSUME MemoryInv, LayoutInv, NEW n, n \in Nat, NEW base, base \in Nat, base + n = mmap_lo,
           Mapped(n, base), owned' = owned \cup (base .. base + n - 1)
    PROVE  MemoryTypes'
<1>R. PICK R : R = [lo : Int, hi : Int]
  OBVIOUS
<1>1. /\ Within(owned, system_mem) /\ system_mem \in Nat /\ brk \in Nat /\ mmap_lo \in Nat
      /\ \A x \in owned : (x < brk \/ x >= mmap_lo) /\ x < MmapTop
      /\ brk <= SbrkLimit /\ SbrkLimit <= mmap_lo /\ mmap_lo <= MmapTop
      /\ sbrk_base \in Int /\ sbrk_regions \in Seq(R) /\ Len(sbrk_regions) \in Nat
  BY <1>R DEF MemoryInv, Within
<1>2. /\ base >= SbrkLimit /\ mmap_lo' = base /\ contiguous' \in BOOLEAN
      /\ system_mem' = system_mem + n /\ brk' = brk
      /\ sbrk_regions' = Append(sbrk_regions, [lo |-> base, hi |-> mmap_lo])
      /\ sbrk_base' = IF sbrk_base = NULL THEN base ELSE sbrk_base
  BY DEF Mapped
<1>3. Within(owned', system_mem')
  <2>k. PICK k : k = system_mem + n
    OBVIOUS
  <2>1. k \in Nat /\ k >= system_mem + n
    BY <2>k, <1>1
  <2>2. Within(owned \cup (base .. base + n - 1), k)
    BY <2>1, <1>1, MoreMemory
  <2> QED BY <2>2, <2>k, <1>2
<1>4. \A x \in owned' : (x < brk' \/ x >= mmap_lo') /\ x < MmapTop
  <2> SUFFICES ASSUME NEW x \in owned' PROVE (x < brk' \/ x >= mmap_lo') /\ x < MmapTop
    OBVIOUS
  <2>1. CASE x \in owned
    <3>1. x \in Nat
      BY <2>1, OwnedNat
    <3>2. base <= mmap_lo
      BY <1>1
    <3> QED BY <3>1, <3>2, <2>1, <1>1, <1>2
  <2>2. CASE x \in base .. base + n - 1
    BY <2>2, <1>1, <1>2, Constants
  <2> QED BY <2>1, <2>2
<1>5. brk' <= SbrkLimit /\ SbrkLimit <= mmap_lo' /\ mmap_lo' <= MmapTop
  BY <1>1, <1>2, Constants
<1>6. sbrk_base' \in Int
  BY <1>1, <1>2
<1>7. sbrk_regions' \in Seq(R) /\ Len(sbrk_regions') >= 1
  <2>r. PICK r : r = [lo |-> base, hi |-> mmap_lo]
    OBVIOUS
  <2>1. r \in R
    BY <2>r, <1>R, <1>1
  <2>2. sbrk_regions' = Append(sbrk_regions, r)
    BY <2>r, <1>2
  <2> QED BY <2>1, <2>2, <1>1
<1> QED BY <1>1, <1>2, <1>3, <1>4, <1>5, <1>6, <1>7, <1>R DEF MemoryTypes

LEMMA SysMmapRegionInv == ASSUME HeapInv, SysMmapRegion PROVE HeapInv'
<1>n. PICK n : n = MmapSize
  OBVIOUS
<1>b. PICK base : base = mmap_lo - n
  OBVIOUS
<1>0. op.at = "sys" /\ LayoutInv /\ MemoryInv /\ UNCHANGED client
  BY DEF SysMmapRegion, At, HeapInv
<1>1. n \in Nat /\ n >= 2 /\ n % PageSize = 0
  BY <1>0, <1>n, MmapSizeIs
<1>2. Mapped(n, base)
  BY <1>n, <1>b DEF SysMmapRegion, Mapped
<1>3. /\ mmap_lo \in Nat /\ brk <= SbrkLimit /\ brk \in Nat
      /\ \A x \in owned : x < brk \/ x >= mmap_lo
  BY <1>0 DEF MemoryInv
<1>4. base \in Nat /\ base + n = mmap_lo /\ brk <= base
  <2>1. base >= SbrkLimit /\ base \in Int
    BY <1>1, <1>2, <1>3, <1>b DEF Mapped
  <2> QED BY <2>1, <1>1, <1>3, <1>b, Constants
<1>5. Outside(owned, base, n)
  <2> SUFFICES ASSUME NEW x \in owned PROVE x < base \/ x >= base + n
    BY DEF Outside
  <2>1. x \in Nat
    BY <1>0, OwnedNat
  <2> QED BY <2>1, <1>3, <1>4
<1>6. /\ LayoutInv' /\ CallInv' /\ OtherTypes'
      /\ top' = base /\ owned' = owned \cup (base .. base + n - 1)
      /\ NewTopAt(base, n, top, old_size, md, md')
  <2>1. NewTop(base, n) /\ n >= MINSIZE
    BY <1>1, <1>2, Constants DEF Mapped
  <2> QED BY <2>1, <1>0, <1>1, <1>4, <1>5, NewTopInv
<1>7. MemoryTypes'
  BY <1>0, <1>1, <1>2, <1>4, <1>6, MappedTypes
<1>8. top' # InitialTop /\ ~contiguous'
  BY <1>2, <1>4, <1>6, Distinct DEF Mapped
<1>9. Paged'
  <2>1. mmap_lo % PageSize = 0
    BY <1>0 DEF MemoryInv, Paged
  <2>2. base % PageSize = 0 /\ mmap_lo' = base
    <3>1. mmap_lo \in Int /\ n \in Int /\ PageSize \in Nat \ {0}
      BY <1>1, <1>3, Constants
    <3>2. (mmap_lo - n) % PageSize = 0
      BY <3>1, <2>1, <1>1, PagesAddUp
    <3> QED BY <3>2, <1>b, <1>2 DEF Mapped
  <2>3. top' + md'[top'].size = mmap_lo
    BY <1>4, <1>6 DEF NewTopAt
  <2>4. ragged' = FALSE
    BY DEF SysMmapRegion
  <2> QED BY <2>1, <2>2, <2>3, <2>4 DEF Paged
<1>10. MemoryInv'
  BY <1>7, <1>8, <1>9 DEF MemoryInv, MemoryTypes
<1> QED BY <1>6, <1>10 DEF HeapInv

(***************************************************************************)
(* free and malloc_trim                                                    *)
(***************************************************************************)
\* A routine that frees goes on or returns; the chunk it worked on is in use no more.
Continues ==
    /\ op' \in OpType /\ op'.v = op.v /\ op'.p = NULL /\ op'.nb = op.nb /\ op'.want = op.want
    /\ op'.call = op.call /\ op'.blk = op.blk /\ op'.align = op.align
    /\ op'.at \notin {"abort", "sys", "idle", "free"} /\ Dest(op') = Dest(op)
    /\ op'.at = "consolidate" => op'.cont \in {"unsorted", "trim_check", "systrim"}
    /\ Freeing(op') => op'.then \in {"sys_done", "memalign_tail", "done"}

LEMMA FreesOn ==
    ASSUME HeapInv, ~At("idle"), UNCHANGED client, Continues,
           \A q \in Live \ {op.p} : md'[q].size = md[q].size
    PROVE  CallInv' /\ Live' = Live \ {op.p}
<1>1. /\ entering = {} /\ retrying = {} /\ op \in OpType
      /\ Live = DOMAIN held \cup ({op.v, op.p} \ {NULL})
  BY Busy DEF HeapInv
<1>2. OpKnown(op, DOMAIN held, top) /\ Fits(op, md, held) /\ LayoutInv
  BY DEF HeapInv, CallInv
<1>3. entering' = {} /\ retrying' = {} /\ held' = held
  BY <1>1 DEF client
<1>4. /\ op' \in OpType /\ op'.v = op.v /\ op'.p = NULL /\ op'.nb = op.nb /\ op'.want = op.want
      /\ op'.call = op.call /\ op'.blk = op.blk /\ op'.align = op.align
      /\ op'.at \notin {"abort", "sys", "idle", "free"} /\ Dest(op') = Dest(op)
      /\ op'.at = "consolidate" => op'.cont \in {"unsorted", "trim_check", "systrim"}
      /\ Freeing(op') => op'.then \in {"sys_done", "memalign_tail", "done"}
  BY DEF Continues
<1>5. NULL \notin Live
  BY <1>2, LiveChunks
<1>6. op.p # NULL => op.p # op.v /\ op.p \notin DOMAIN held
  BY <1>2 DEF OpKnown
<1>7. Live' = Live \ {op.p}
  <2>1. Live' = DOMAIN held \cup ({op.v} \ {NULL})
    BY <1>3, <1>4 DEF Live
  <2> QED BY <2>1, <1>1, <1>5, <1>6
<1>8. OpKnown(op', DOMAIN held', top')
  <2>1. Asks(op, DOMAIN held) => Asks(op', DOMAIN held)
    BY <1>4 DEF Asks
  <2> QED BY <2>1, <1>2, <1>3, <1>4 DEF OpKnown
<1>9. Fits(op', md', held')
  <2>1. \A q \in DOMAIN held : held[q] \in Requests /\ (q # op.v => held[q] <= md'[q].size)
    <3> SUFFICES ASSUME NEW q \in DOMAIN held
                 PROVE  held[q] \in Requests /\ (q # op.v => held[q] <= md'[q].size)
      OBVIOUS
    <3>1. q \in Live \ {op.p}
      BY <1>1, <1>5, <1>6
    <3> QED BY <3>1, <1>2 DEF Fits
  <2>2. op.v # NULL => md'[op.v].size >= IF Dest(op) = "got" THEN op.nb ELSE op.want
    <3>1. op.v # NULL => op.v \in Live \ {op.p}
      BY <1>1, <1>6
    <3> QED BY <3>1, <1>2 DEF Fits
  <2> QED BY <2>1, <2>2, <1>3, <1>4 DEF Fits
<1>10. Clients(entering', retrying', DOMAIN held', top', op')
  BY <1>3, FS_EmptySet DEF Clients
<1> QED BY <1>4, <1>7, <1>8, <1>9, <1>10 DEF CallInv

LEMMA TrimsTop ==
    ASSUME NEW own \in SUBSET Nat, NEW t \in Nat, NEW s \in Nat, NEW x \in Int, x <= s,
           NEW e, e = t + s, \A y \in own : y < e \/ y >= e - x,
           \A y \in Nat : t <= y /\ y < t + s => y \in own
    PROVE  ToppedBy(own, Trimmed(own, e, x), t, s, s - x)
<1> DEFINE own2 == Trimmed(own, e, x)
<1>1. \A y : y \in own2 <=> (y \in own \/ y \in e .. (e - x) - 1) /\ y \notin (e - x) .. e - 1
  BY DEF Trimmed
<1>2. own2 \in SUBSET Nat
  <2> SUFFICES ASSUME NEW y \in own2 PROVE y \in Nat
    OBVIOUS
  <2>1. y \in own \/ y \in e .. (e - x) - 1
    BY <1>1
  <2>2. y \in e .. (e - x) - 1 => y \in Nat
    <3>1. e \in Nat
      OBVIOUS
    <3> QED BY <3>1
  <2> QED BY <2>1, <2>2
<1>3. ASSUME NEW y \in Nat
      PROVE  y \in own2 <=> \/ y \in own /\ (y < t \/ y >= t + s)
                            \/ t <= y /\ y < t + (s - x)
  <2> HIDE DEF own2
  <2>1. y \in own2 <=> (y \in own \/ y \in e .. (e - x) - 1) /\ y \notin (e - x) .. e - 1
    BY <1>1
  <2>2. y \in e .. (e - x) - 1 <=> t + s <= y /\ y < t + (s - x)
    OBVIOUS
  <2>3. y \in (e - x) .. e - 1 <=> t + (s - x) <= y /\ y < t + s
    OBVIOUS
  <2>4. y \in own => y < t + s \/ y >= t + (s - x)
    OBVIOUS
  <2>5. t <= y /\ y < t + s => y \in own
    OBVIOUS
  <2>6. t <= t + (s - x)
    OBVIOUS
  <2>7. CASE y < t
    BY <2>1, <2>2, <2>3, <2>6, <2>7
  <2>8. CASE t <= y /\ y < t + s
    BY <2>1, <2>2, <2>3, <2>5, <2>8
  <2>9. CASE y >= t + s
    BY <2>1, <2>2, <2>3, <2>4, <2>9
  <2> QED BY <2>7, <2>8, <2>9
<1>4. \A y \in own : y < t + s \/ y >= t + (s - x)
  OBVIOUS
<1> QED BY <1>2, <1>3, <1>4 DEF ToppedBy

\* systrim gives x units back; if x is negative, the break moves on.
BreakTrims(x) ==
    /\ brk - x <= SbrkLimit /\ brk' = brk - x /\ system_mem' = system_mem - x
    /\ sbrk_regions' = [sbrk_regions EXCEPT ![1].hi = @ - x]
    /\ owned' = Trimmed(owned, brk, x)
    /\ UNCHANGED <<mmap_lo, contiguous, sbrk_base>>

FirstTrimmed(s, x, r) == r = [s EXCEPT ![1].hi = @ - x]

LowerEnd(s, x, r) ==
    \A a, b : s[1] = [lo |-> a, hi |-> b] => r[1] = [lo |-> a, hi |-> b - x]

LEMMA TrimRegions ==
    ASSUME NEW s, s \in Seq([lo : Int, hi : Int]), Len(s) >= 1, NEW x, x \in Int,
           NEW r, FirstTrimmed(s, x, r)
    PROVE  r \in Seq([lo : Int, hi : Int]) /\ Len(r) = Len(s) /\ LowerEnd(s, x, r)
<1>R. PICK R : R = [lo : Int, hi : Int]
  OBVIOUS
<1>1. s[1] \in R /\ 1 \in DOMAIN s
  <2>1. s \in Seq(R)
    BY <1>R
  <2>2. 1 \in 1 .. Len(s)
    BY <2>1
  <2> QED BY <2>1, <2>2, ElementOfSeq
<1>c. PICK c : c = [s[1] EXCEPT !.hi = s[1].hi - x]
  OBVIOUS
<1>2. c \in R
  BY <1>1, <1>c, <1>R
<1>3. r = [s EXCEPT ![1] = c]
  BY <1>c DEF FirstTrimmed
<1>4. r \in Seq(R) /\ Len(r) = Len(s) /\ r[1] = c
  <2>1. s \in Seq(R)
    BY <1>R
  <2> QED BY <2>1, <1>1, <1>2, <1>3
<1>5. \A a, b : s[1] = [lo |-> a, hi |-> b] => c = [lo |-> a, hi |-> b - x]
  BY <1>c
<1> QED BY <1>4, <1>5, <1>R DEF LowerEnd

LEMMA TrimTypes ==
    ASSUME MemoryInv, LayoutInv, NEW x, x \in Int, BreakTrims(x), brk - x \in Nat,
           (brk - x) .. brk - 1 \subseteq owned
    PROVE  MemoryTypes' /\ Len(sbrk_regions') = Len(sbrk_regions)
<1>R. PICK R : R = [lo : Int, hi : Int]
  OBVIOUS
<1>1. /\ Within(owned, system_mem) /\ brk \in Nat /\ mmap_lo \in Nat /\ brk <= SbrkLimit
      /\ \A y \in owned : (y < brk \/ y >= mmap_lo) /\ y < MmapTop
      /\ SbrkLimit <= mmap_lo /\ mmap_lo <= MmapTop /\ contiguous \in BOOLEAN
      /\ sbrk_base \in Int /\ sbrk_regions \in Seq(R) /\ Len(sbrk_regions) >= 1
      /\ owned \subseteq Nat
  BY <1>R, OwnedNat DEF MemoryInv
<1>2. /\ brk' = brk - x /\ brk - x <= SbrkLimit /\ system_mem' = system_mem - x
      /\ FirstTrimmed(sbrk_regions, x, sbrk_regions')
      /\ mmap_lo' = mmap_lo /\ contiguous' = contiguous /\ sbrk_base' = sbrk_base
  BY DEF BreakTrims, FirstTrimmed
<1>3. owned' = Trimmed(owned, brk, x)
  BY DEF BreakTrims
<1>4. Within(owned', system_mem')
  <2>k. PICK k : k = system_mem - x
    OBVIOUS
  <2>1. Within(Trimmed(owned, brk, x), k)
    BY <2>k, <1>1, LessMemory
  <2> QED BY <2>1, <2>k, <1>2, <1>3
<1>5. \A y \in owned' : (y < brk' \/ y >= mmap_lo') /\ y < MmapTop
  <2> SUFFICES ASSUME NEW y \in owned' PROVE (y < brk - x \/ y >= mmap_lo) /\ y < MmapTop
    BY <1>2
  <2>1. (y \in owned \/ y \in brk .. (brk - x) - 1) /\ y \notin (brk - x) .. brk - 1
    BY <1>3 DEF Trimmed
  <2>2. CASE y \in owned
    BY <2>1, <2>2, <1>1
  <2>3. CASE y \in brk .. (brk - x) - 1
    BY <2>3, <1>1, <1>2, Constants
  <2> QED BY <2>1, <2>2, <2>3
<1>6. sbrk_regions' \in Seq([lo : Int, hi : Int]) /\ Len(sbrk_regions') = Len(sbrk_regions)
  <2>1. sbrk_regions \in Seq([lo : Int, hi : Int]) /\ Len(sbrk_regions) >= 1
    BY DEF MemoryInv
  <2>2. FirstTrimmed(sbrk_regions, x, sbrk_regions')
    BY <1>2
  <2> QED BY <2>1, <2>2, TrimRegions
<1> QED BY <1>1, <1>2, <1>4, <1>5, <1>6 DEF MemoryTypes

LEMMA TrimmedRegion ==
    ASSUME MemoryInv, LayoutInv, top # InitialTop, NEW x, x \in Int, BreakTrims(x),
           x < md[top].size, TopGrown(-x), x % PageSize = 0, UNCHANGED ragged
    PROVE  MemoryInv'
<1>t. top \in Nat /\ md[top].size \in Nat /\ md[top].size >= 2
  BY TopIs
<1>1. brk \in Nat /\ system_mem \in Nat /\ InitialBrk \in Nat
  BY Constants DEF MemoryInv, Within
<1>2. /\ brk = top + md[top].size /\ md'[top].size = md[top].size + (-x)
      /\ DOMAIN md' = DOMAIN md /\ top' = top /\ seams' = seams
  BY DEF TopGrown
<1>3. brk - x \in Nat
  BY <1>t, <1>2
<1>4. (brk - x) .. brk - 1 \subseteq owned
  <2> SUFFICES ASSUME NEW y \in (brk - x) .. brk - 1 PROVE y \in owned
    OBVIOUS
  <2>1. y \in Nat /\ top <= y /\ y < top + md[top].size
    BY <1>t, <1>1, <1>2, <1>3
  <2> QED BY <2>1, TopOwned
<1>5. MemoryTypes' /\ Len(sbrk_regions') = Len(sbrk_regions)
  BY <1>3, <1>4, TrimTypes
<1>6. ASSUME contiguous PROVE InOneRegion'
  <2>1. InOneRegion
    BY <1>6 DEF MemoryInv
  <2>2. sbrk_base # NULL /\ Len(sbrk_regions) = 1 /\ InitialBrk + system_mem = top + md[top].size
    BY <2>1 DEF InOneRegion
  <2>3. \A c \in ChunksOf(md') : c <= top'
    <3>1. \A c \in ChunksOf(md) : c <= top
      BY <2>1 DEF InOneRegion
    <3> QED BY <3>1, <1>2 DEF ChunksOf
  <2>4. brk' = brk - x /\ system_mem' = system_mem - x /\ sbrk_base' = sbrk_base
    BY DEF BreakTrims
  <2>5. brk = InitialBrk + system_mem /\ brk - x = InitialBrk + system_mem'
    BY <2>2, <2>4, <1>1, <1>2
  <2>6. InitialBrk + system_mem' = top' + md'[top'].size /\ top' + md'[top'].size <= brk'
    BY <2>4, <2>5, <1>1, <1>2, <1>t
  <2>7. ASSUME seams = {}
        PROVE  /\ sbrk_regions'[1] = [lo |-> InitialBrk, hi |-> InitialBrk + system_mem']
               /\ owned' = InitialBrk .. InitialBrk + system_mem' - 1
    <3>0. /\ sbrk_regions[1] = [lo |-> InitialBrk, hi |-> InitialBrk + system_mem]
          /\ owned = InitialBrk .. InitialBrk + system_mem - 1
      BY <2>1, <2>7 DEF InOneRegion
    <3>b. PICK b : b = InitialBrk + system_mem
      OBVIOUS
    <3>e. PICK e : e = InitialBrk + system_mem'
      OBVIOUS
    <3>1. /\ b = brk /\ e = b - x /\ b \in Int /\ e \in Int
          /\ InitialBrk <= b /\ system_mem' \in Int
      BY <3>b, <3>e, <2>4, <2>5, <1>1
    <3>2. sbrk_regions[1] = [lo |-> InitialBrk, hi |-> b]
      BY <3>0, <3>b
    <3>o. PICK o : o = owned
      OBVIOUS
    <3>3. o = InitialBrk .. b - 1
      BY <3>0, <3>b, <3>o, <1>1
    <3>4. sbrk_regions'[1] = [lo |-> InitialBrk, hi |-> e]
      <4>1. sbrk_regions \in Seq([lo : Int, hi : Int]) /\ Len(sbrk_regions) >= 1
        BY DEF MemoryInv
      <4>2. FirstTrimmed(sbrk_regions, x, sbrk_regions')
        BY DEF BreakTrims, FirstTrimmed
      <4>a. LowerEnd(sbrk_regions, x, sbrk_regions')
        BY <4>1, <4>2, TrimRegions
      <4>3. sbrk_regions'[1] = [lo |-> InitialBrk, hi |-> b - x]
        BY <4>a, <3>2 DEF LowerEnd
      <4> QED BY <4>3, <3>1
    <3>5. owned' = InitialBrk .. e - 1
      <4>1. owned' = Trimmed(o, b, x)
        BY <3>o, <3>1 DEF BreakTrims
      <4>2. InitialBrk <= e
        <5>1. e = top + md'[top].size /\ InitialBrk <= top
          <6>1. e = top + md'[top].size
            BY <3>e, <2>6, <1>2
          <6>2. top \in o
            <7>1. top \in owned
              BY <1>t, TopOwned
            <7> QED BY <7>1, <3>o
          <6> QED BY <6>1, <6>2, <3>3
        <5>2. md'[top].size >= 0 /\ md'[top].size \in Int
          BY <1>2, <1>t
        <5> QED BY <5>1, <5>2, <1>t, <1>1
      <4>3. Trimmed(InitialBrk .. b - 1, b, x) = InitialBrk .. e - 1
        BY <4>2, <3>1, <1>1 DEF Trimmed
      <4> QED BY <4>1, <4>3, <3>3
    <3>6. sbrk_regions'[1] = [lo |-> InitialBrk, hi |-> InitialBrk + system_mem']
      BY <3>4, <3>e
    <3>7. owned' = InitialBrk .. InitialBrk + system_mem' - 1
      BY <3>5, <3>e, <3>1, <1>1
    <3> QED BY <3>6, <3>7
  <2> QED BY <2>2, <2>3, <2>4, <2>6, <2>7, <1>2, <1>5 DEF InOneRegion
<1>7. contiguous' = contiguous
  BY DEF BreakTrims
<1>8. Paged'
  <2>1. Paged /\ mmap_lo' = mmap_lo
    BY DEF MemoryInv, BreakTrims
  <2>m. PICK m : m = -x
    OBVIOUS
  <2>2. m \in Int /\ m % PageSize = 0
    <3>1. m \in Int /\ PageSize \in Nat \ {0}
      BY <2>m, Constants
    <3>2. PICK q \in Int : x = PageSize * q
      BY <3>1, WholePages
    <3>3. m = PageSize * (-q) /\ -q \in Int
      BY <3>1, <3>2, <2>m
    <3> QED BY <3>1, <3>3, Whole
  <2>3. md'[top].size = md[top].size + m
    BY <1>2, <2>m
  <2> QED BY <2>1, <2>2, <2>3, <1>2, EndMoves
<1> QED BY <1>2, <1>5, <1>6, <1>7, <1>8 DEF MemoryInv, MemoryTypes

LEMMA ExtraIs ==
    ASSUME HeapInv, At("systrim")
    PROVE  Extra \in Int /\ Extra + 3 <= md[top].size /\ md[top].size \in Nat
           /\ Extra % PageSize = 0
<1>1. old_size \in Nat /\ op.pad \in Nat
  BY TopIs, Busy DEF old_size, HeapInv, OpType, At
<1>n. PICK n : n = old_size - op.pad - MINSIZE - 1
  OBVIOUS
<1>2. n \in Int /\ n + 3 <= old_size
  BY <1>1, <1>n, Constants
<1>3. /\ AlignDown(n, PageSize) \in Int /\ AlignDown(n, PageSize) <= n
      /\ AlignDown(n, PageSize) % PageSize = 0
  <2>1. PageSize \in Nat \ {0}
    BY Constants
  <2> QED BY <2>1, <1>2, AlignDownIs, RoundedIs
<1>4. Extra = AlignDown(n, PageSize)
  BY <1>n DEF Extra
<1> QED BY <1>1, <1>2, <1>3, <1>4 DEF old_size

LEMMA TrimReturns ==
    ASSUME HeapInv, At("systrim"), GoTo(op.then), UNCHANGED client, AllSame(md, md')
    PROVE  CallInv' /\ Live' = Live
<1>1. op \in OpType /\ op.at = "systrim" /\ ~At("idle")
  BY Busy DEF HeapInv, At
<1>2. op.then \in {"sys_done", "memalign_tail", "done"} /\ op.p = NULL
  BY <1>1 DEF HeapInv, CallInv, OpKnown, Freeing
<1>3. /\ op' \in OpType /\ op'.v = op.v /\ op'.p = NULL /\ op'.nb = op.nb
      /\ op'.want = op.want /\ op'.call = op.call /\ op'.blk = op.blk
      /\ op'.align = op.align /\ op'.then = op.then /\ op'.at = op.then
  BY <1>1, <1>2 DEF GoTo, OpType, Points
<1>4. Dest(op) = op.then /\ Dest(op') = op.then /\ ~Freeing(op')
  BY <1>1, <1>2, <1>3 DEF Dest, Freeing
<1>5. Continues
  BY <1>2, <1>3, <1>4 DEF Continues
<1>6. \A q \in Live \ {op.p} : md'[q].size = md[q].size
  BY DEF AllSame
<1>7. CallInv' /\ Live' = Live \ {op.p}
  BY <1>1, <1>5, <1>6, FreesOn
<1>8. NULL \notin Live
  BY LiveChunks DEF HeapInv
<1> QED BY <1>2, <1>7, <1>8

LEMMA TrimsHeap ==
    ASSUME HeapInv, At("systrim"), NEW x, x \in Int, x + 3 <= md[top].size, BreakTrims(x),
           x % PageSize = 0, UNCHANGED ragged,
           brk = top + md[top].size, NEW s, s = md[top].size - x, TopSetTo(s),
           GoTo(op.then),
           UNCHANGED <<bins, binmap, fastbins, have_fast, top, last_remainder, seams, client>>
    PROVE  HeapInv'
<1>0. LayoutInv /\ MemoryInv
  BY DEF HeapInv
<1>2. brk \in Nat /\ SbrkLimit <= mmap_lo /\ mmap_lo \in Nat
      /\ \A y \in owned : y < brk \/ y >= mmap_lo
  BY <1>0 DEF MemoryInv, Within
<1>4. /\ top # InitialTop /\ top \in Nat /\ md[top].size \in Nat /\ md[top].size >= 2
  <2>1. /\ md[top].size \in Nat
        /\ top = InitialTop => md[top].size = 0
        /\ top # InitialTop => top \in Nat /\ md[top].size >= 2
    BY <1>0, TopIs
  <2>2. top # InitialTop
    <3> SUFFICES ASSUME top = InitialTop PROVE FALSE
      OBVIOUS
    <3>1. brk = -2
      BY <2>1, Constants
    <3> QED BY <3>1, <1>2
  <2> QED BY <2>1, <2>2
<1>7. s \in Nat /\ s >= MINSIZE
  BY <1>4, Constants
<1>8. ToppedBy(owned, owned', top, md[top].size, s)
  <2>1. owned \in SUBSET Nat
    BY <1>0, OwnedNat
  <2>2. \A y \in owned : y < brk \/ y >= brk - x
    <3>1. brk - x <= mmap_lo
      BY <1>2, Constants DEF BreakTrims
    <3> QED BY <3>1, <2>1, <1>2
  <2>3. \A y \in Nat : top <= y /\ y < top + md[top].size => y \in owned
    BY <1>0, <1>4, TopOwned
  <2>4. owned' = Trimmed(owned, brk, x)
    BY DEF BreakTrims
  <2>k. PICK k : k = md[top].size
    OBVIOUS
  <2>5. ToppedBy(owned, Trimmed(owned, brk, x), top, k, k - x)
    <3>1. k \in Nat /\ x <= k /\ brk = top + k
      BY <1>4, <2>k
    <3>2. \A y \in Nat : top <= y /\ y < top + k => y \in owned
      BY <2>3, <2>k
    <3> QED BY <2>1, <2>2, <3>1, <3>2, <1>4, TrimsTop
  <2> QED BY <2>4, <2>5, <2>k
<1>10. /\ Heap(md', top', seams', owned', Binned, Fast, Live)
       /\ DOMAIN md' = DOMAIN md /\ md'[top].size = s /\ AllSame(md, md')
  BY <1>0, <1>4, <1>7, <1>8, TopResizes
<1>11. CallInv' /\ Live' = Live
  BY <1>10, TrimReturns
<1>12. LayoutInv'
  BY <1>0, <1>10, <1>11, ListsStay
<1>13. MemoryInv'
  <2>1. system_mem' = system_mem - x /\ system_mem \in Nat
    BY <1>0 DEF BreakTrims, MemoryInv, Within
  <2>2. system_mem' = system_mem + (-x) /\ md'[top].size = md[top].size + (-x)
    BY <2>1, <1>4, <1>10
  <2>3. TopGrown(-x)
    BY <2>2, <1>10 DEF TopGrown
  <2>4. x < md[top].size
    BY <1>4
  <2> QED BY <2>3, <2>4, <1>0, <1>4, TrimmedRegion
<1>14. OtherTypes'
  BY DEF HeapInv, OtherTypes
<1> QED BY <1>11, <1>12, <1>13, <1>14 DEF HeapInv

LEMMA SystrimInv == ASSUME HeapInv, Systrim PROVE HeapInv'
<1>0. At("systrim") /\ GoTo(op.then) /\ UNCHANGED client
      /\ UNCHANGED <<bins, binmap, fastbins, have_fast, top, last_remainder, seams>>
      /\ UNCHANGED <<mmap_lo, contiguous, sbrk_base, ragged>>
  BY DEF Systrim
<1>1. CASE NoExtra \/ brk # old_end \/ brk - Extra > SbrkLimit
  <2>1. UNCHANGED <<md, brk, system_mem, sbrk_regions, owned>>
    BY <1>1 DEF Systrim
  <2>2. AllSame(md, md')
    BY <2>1 DEF AllSame
  <2>3. CallInv' /\ Live' = Live
    BY <2>2, <1>0, TrimReturns
  <2>4. UNCHANGED system
    BY <2>1, <1>0 DEF system
  <2>5. OtherTypes'
    BY <1>0 DEF HeapInv, OtherTypes
  <2> QED BY <2>1, <2>3, <2>4, <2>5, <1>0, Quiet
<1>2. CASE ~(NoExtra \/ brk # old_end \/ brk - Extra > SbrkLimit)
  <2>x. PICK x : x = Extra
    OBVIOUS
  <2>s. PICK s : s = md[top].size - x
    OBVIOUS
  <2>1. x \in Int /\ x + 3 <= md[top].size /\ x % PageSize = 0
    BY <2>x, <1>0, ExtraIs
  <2>2. brk = top + md[top].size
    BY <1>2 DEF old_end, old_size
  <2>3. brk - x <= SbrkLimit
    <3>1. ~(brk - x > SbrkLimit) /\ brk \in Nat
      BY <1>2, <2>x DEF HeapInv, MemoryInv
    <3> QED BY <3>1, <2>1, Constants
  <2>4. TopSetTo(s)
    BY <1>2, <2>x, <2>s DEF Systrim, TopSetTo, ResizedTop, old_size
  <2>5. BreakTrims(x)
    <3>1. /\ brk' = brk - x /\ system_mem' = system_mem - x
          /\ sbrk_regions' = [sbrk_regions EXCEPT ![1].hi = @ - x]
          /\ owned' = (owned \cup (brk .. brk' - 1)) \ (brk' .. brk - 1)
      BY <1>2, <2>x DEF Systrim
    <3>2. owned' = Trimmed(owned, brk, x)
      BY <3>1 DEF Trimmed
    <3> QED BY <3>1, <3>2, <2>3, <1>0 DEF BreakTrims
  <2> QED BY <2>1, <2>2, <2>4, <2>5, <2>s, <1>0, TrimsHeap
<1> QED BY <1>1, <1>2

\* The next chunk tells whether a chunk is in a bin.
LEMMA InuseIs ==
    ASSUME NEW m, NEW t, NEW sm, NEW own, NEW B, NEW F, NEW L, Heap(m, t, sm, own, B, F, L),
           NEW n \in ChunksOf(m), n # t
    PROVE  m[n].md_next \in DOMAIN m /\ (Inuse(m, n) <=> n \notin B)
<1>1. Geo(m, t, sm, own) /\ TagsBut(m, t, B, {})
  BY DEF Heap, HeapBut, Tagged
<1>2. m[n].md_next \in ChunksOf(m) /\ m[n].md_next \in DOMAIN m /\ m[m[n].md_next].md_prev = n
  BY <1>1, NextChunk
<1>3. Right(m, B, m[n].md_next)
  BY <1>1, <1>2 DEF TagsBut
<1> QED BY <1>2, <1>3 DEF Right, Inuse

\* What borders a chunk p in use.
Borders(m, t, B, p, n) ==
    /\ n \in ChunksOf(m) /\ n \in DOMAIN m /\ n # p /\ m[n].prev_inuse /\ m[n].size \in Nat
    /\ m[n].size >= 1 /\ p \in DOMAIN m /\ p # t
    /\ ~m[p].prev_inuse => m[p].md_prev \in B
    /\ n # t => m[n].md_next \in DOMAIN m /\ (Inuse(m, n) <=> n \notin B)

LEMMA BordersOf ==
    ASSUME NEW m, NEW t, NEW sm, NEW own, NEW B, NEW F, NEW L, Heap(m, t, sm, own, B, F, L),
           NEW p \in L, NEW n, n = m[p].md_next
    PROVE  Borders(m, t, B, p, n)
<1>1. Geo(m, t, sm, own) /\ TagsBut(m, t, B, {}) /\ Places(m, t, B, F, L)
  BY DEF Heap, HeapBut, Tagged
<1>2. p \in ChunksOf(m) /\ p # t /\ p \in DOMAIN m
  <2>1. p \in B \cup F \cup L /\ HeapBut(m, t, sm, own, B, F, L, {})
    BY DEF Heap
  <2> QED BY <2>1, Proper
<1>3. n \in ChunksOf(m) /\ n \in DOMAIN m /\ n # p /\ m[n].md_prev = p
  BY <1>1, <1>2, NextChunk
<1>4. p \notin B
  BY <1>1 DEF Places
<1>5. m[n].prev_inuse
  BY <1>1, <1>3, <1>4 DEF TagsBut, Right
<1>6. m[n].size \in Nat /\ m[n].size >= 1
  BY <1>1, <1>3, OneChunk
<1>7. ~m[p].prev_inuse => m[p].md_prev \in B
  BY BackIsFree
<1>8. n # t => m[n].md_next \in DOMAIN m /\ (Inuse(m, n) <=> n \notin B)
  BY <1>3, InuseIs
<1> QED BY <1>2, <1>3, <1>5, <1>6, <1>7, <1>8 DEF Borders

LEMMA Coalesces ==
    ASSUME NEW F, NEW L, Heap(md, top, seams, owned, Binned, F, L), NEW p \in L
    PROVE  ~CannotCoalesce(p, top)
<1>B. PICK B : B = Binned
  OBVIOUS
<1>n. PICK n : n = md[p].md_next
  OBVIOUS
<1>1. Borders(md, top, B, p, n)
  BY <1>B, <1>n, BordersOf
<1> QED BY <1>1, <1>B, <1>n DEF Borders, CannotCoalesce

(***************************************************************************)
(* Coalescing                                                              *)
(***************************************************************************)
\* The chunk p in use of the heap m has joined the free one before it, if any, and is
\* the chunk q of the heap z; the code's records s lack the size of q.
ReadyAs(m, t, sm, own, B, F, L, p, q, s, z, K) ==
    /\ Heap(z, t, sm, own, B \ {q}, F, K) /\ q \in K /\ K \ {q} = L \ {p}
    /\ z[q].prev_inuse = TRUE /\ z[q].md_next = m[p].md_next /\ Aside(z, q, s)
    /\ z[q].size = m[p].size + (IF m[p].prev_inuse THEN 0 ELSE m[p].prev_size)
    /\ DOMAIN z \subseteq DOMAIN m
    /\ \A x \in DOMAIN m \ {p, q} : x \in DOMAIN z /\ z[x].size = m[x].size

\* the chunk that p joins, and the records when it has
JoinsBack(m, p, q, s) ==
    /\ q = IF m[p].prev_inuse THEN p ELSE m[p].md_prev
    /\ s = IF m[p].prev_inuse THEN m ELSE Absorb(m, q, p)

LEMMA Readied ==
    ASSUME NEW m, NEW t, NEW sm, NEW own, NEW B, NEW F, NEW L, Heap(m, t, sm, own, B, F, L),
           NEW p \in L, NEW q, NEW s, JoinsBack(m, p, q, s)
    PROVE  \E z, K : ReadyAs(m, t, sm, own, B, F, L, p, q, s, z, K)
<1>0. /\ p \in ChunksOf(m) /\ p \in DOMAIN m /\ p \in Nat /\ m[p] \in Chunk
      /\ m[p].size \in Nat /\ m \in [DOMAIN m -> Chunk] /\ p \notin B
  <2>1. p \in B \cup F \cup L /\ HeapBut(m, t, sm, own, B, F, L, {})
    BY DEF Heap
  <2>2. Geo(m, t, sm, own) /\ Places(m, t, B, F, L)
    BY DEF Heap, HeapBut, Tagged
  <2> QED BY <2>1, <2>2, Proper DEF Geo, Shape, Places
<1>b. /\ m[p].prev_inuse \in BOOLEAN
      /\ m[p].prev_inuse <=> m[p].md_prev \notin B
      /\ m[p].md_prev \in B
            => m[p].prev_size = m[m[p].md_prev].size /\ m[m[p].md_prev].md_next = p
  BY BackIsFree
<1>1. CASE m[p].prev_inuse
  <2>1. q = p /\ s = m /\ B \ {q} = B
    BY <1>1, <1>0 DEF JoinsBack
  <2>2. Aside(m, q, s)
    BY <2>1, <1>0 DEF Aside, SameTags
  <2>3. ReadyAs(m, t, sm, own, B, F, L, p, q, s, m, L)
    BY <1>1, <1>0, <1>b, <2>1, <2>2 DEF ReadyAs
  <2> QED BY <2>3
<1>2. CASE ~m[p].prev_inuse
  <2>1. q \in B /\ q = m[p].md_prev /\ s = Absorb(m, q, p) /\ m[p].prev_size = m[q].size
    BY <1>2, <1>b DEF JoinsBack
  <2>z. PICK z : z = Grown(m, q, p)
    OBVIOUS
  <2>K. PICK K : K = (L \ {p}) \cup {q}
    OBVIOUS
  <2>2. /\ Heap(z, t, sm, own, B \ {q}, F, K) /\ Merged(m, q, p, z)
        /\ Aside(z, q, s) /\ z[q].prev_inuse = TRUE
    <3>1. Heap(m, t, sm, own, B, F, L) /\ p \in L /\ q \in B /\ q = m[p].md_prev
      BY <2>1
    <3>2. /\ Heap(z, t, sm, own, B \ {q}, F, (L \ {p}) \cup {q}) /\ Merged(m, q, p, z)
          /\ Aside(z, q, Absorb(m, q, p)) /\ z[q].prev_inuse = TRUE
      BY ONLY <3>1, <2>z, JoinBack
    <3> QED BY <3>2, <2>1, <2>K
  <2>3. q \in DOMAIN m /\ m[q].size \in Nat /\ q # p
    <3>1. q \in B \cup F \cup L /\ HeapBut(m, t, sm, own, B, F, L, {})
      BY <2>1 DEF Heap
    <3> QED BY <3>1, <2>1, <1>0, Proper
  <2>4. q \notin L
    BY <2>1 DEF Heap, HeapBut, Places
  <2>5. q \in K /\ K \ {q} = L \ {p}
    BY <2>4, <2>K
  <2>6. z[q].size = m[p].size + m[p].prev_size
    BY <2>1, <2>2, <2>3, <1>0 DEF Merged
  <2>7. z[q].md_next = m[p].md_next /\ DOMAIN z \subseteq DOMAIN m
    BY <2>2 DEF Merged
  <2>8. \A x \in DOMAIN m \ {p, q} : x \in DOMAIN z /\ z[x].size = m[x].size
    BY <2>2 DEF Merged
  <2>9. ReadyAs(m, t, sm, own, B, F, L, p, q, s, z, K)
    BY <2>2, <2>5, <2>6, <2>7, <2>8, <1>2 DEF ReadyAs
  <2> QED BY <2>9
<1> QED BY <1>1, <1>2, <1>b

LEMMA FewerChunks ==
    ASSUME NEW m, NEW z, NEW t, t # InitialTop, z[t].size = m[t].size,
           DOMAIN z \subseteq DOMAIN m
    PROVE  SameEnd(m, t, z, t)
BY DEF SameEnd, ChunksOf

LEMMA SameEndTwice ==
    ASSUME NEW m, NEW t, NEW z, NEW u, NEW w, NEW v, SameEnd(m, t, z, u), SameEnd(z, u, w, v)
    PROVE  SameEnd(m, t, w, v)
BY DEF SameEnd

\* The chunk q in use, before which there is no free chunk, has joined the one behind it,
\* n, if that is free or the top chunk; the code's records are w.
JoinedTo(t, B, q, n, z, s, w) ==
    w = IF n = t THEN Topmost(s, q, z[q].size + z[n].size, n)
        ELSE IF n \in B THEN Filed(Absorb(s, q, n), q, z[q].size + z[n].size)
        ELSE Filed(ClearInuse(s, n), q, z[q].size)

JoinedHeap(t, sm, own, B, F, K, q, n, z, w) ==
    /\ Heap(w, IF n = t THEN q ELSE t, sm, own,
            IF n = t THEN B ELSE (B \ {n}) \cup {q}, F, K \ {q})
    /\ DOMAIN w \subseteq DOMAIN z
    /\ \A x \in DOMAIN z \ {q, n} : x \in DOMAIN w /\ w[x].size = z[x].size
    /\ n \notin B /\ n # t => w[n].size = z[n].size
    /\ SameEnd(z, t, w, IF n = t THEN q ELSE t)

LEMMA TopmostEnd ==
    ASSUME NEW z, NEW t, NEW sm, NEW own, Geo(z, t, sm, own), NEW q \in ChunksOf(z), q # t,
           q \notin sm, z[q].md_next = t, NEW w, Merged(z, q, t, w)
    PROVE  SameEnd(z, t, w, q)
<1>1. q \in Nat /\ z[q].size \in Nat /\ q # InitialTop /\ t # InitialTop /\ t \in ChunksOf(z)
  BY OneChunk
<1>2. t \in Nat /\ z[t].size \in Nat
  BY <1>1, OneChunk
<1>3. t = q + z[q].size
  BY DEF Geo, Links
<1>4. w[q].size = z[q].size + z[t].size /\ DOMAIN w = DOMAIN z \ {t}
  BY DEF Merged
<1>5. q + w[q].size = t + z[t].size
  BY <1>1, <1>2, <1>3, <1>4
<1>6. ASSUME \A c \in ChunksOf(z) : c <= t, NEW c \in ChunksOf(w)
      PROVE  c <= q
  <2>1. c \in ChunksOf(z) /\ c # t
    BY <1>4 DEF ChunksOf
  <2>2. c \in Nat /\ z[c].size \in Nat /\ z[c].size >= 1
    BY <2>1, OneChunk
  <2>3. c <= t
    BY <2>1, <1>6
  <2>4. c # q => c + z[c].size <= q \/ q + z[q].size <= c
    BY <2>1 DEF Geo, Apart
  <2> QED BY <2>1, <2>2, <2>3, <2>4, <1>1, <1>2, <1>3
<1> QED BY <1>1, <1>5, <1>6 DEF SameEnd

LEMMA Joins ==
    ASSUME NEW z, NEW t, NEW sm, NEW own, NEW B, NEW F, NEW K, Heap(z, t, sm, own, B, F, K),
           NEW q \in K, z[q].prev_inuse = TRUE, NEW n, n = z[q].md_next,
           NEW s, Aside(z, q, s), NEW w, JoinedTo(t, B, q, n, z, s, w)
    PROVE  JoinedHeap(t, sm, own, B, F, K, q, n, z, w)
<1>0. /\ q \in ChunksOf(z) /\ q # t /\ q \notin sm /\ t \in ChunksOf(z) /\ t # InitialTop
      /\ Geo(z, t, sm, own) /\ q \notin B /\ t \notin B
  <2>1. q \in B \cup F \cup K /\ HeapBut(z, t, sm, own, B, F, K, {})
    BY DEF Heap
  <2>2. Places(z, t, B, F, K)
    BY <2>1 DEF HeapBut
  <2> QED BY <2>1, <2>2, Proper DEF Places
<1>1. CASE n = t
  <2>1. z[q].md_next = t /\ w = Topmost(s, q, z[q].size + z[t].size, t)
    BY <1>1 DEF JoinedTo
  <2>2. Heap(w, q, sm, own, B, F, K \ {q}) /\ Merged(z, q, t, w)
    BY <2>1, JoinTop
  <2>3. SameEnd(z, t, w, q)
    BY <2>1, <2>2, <1>0, TopmostEnd
  <2>4. DOMAIN w \subseteq DOMAIN z
    BY <2>2 DEF Merged
  <2>5. \A x \in DOMAIN z \ {q, n} : x \in DOMAIN w /\ w[x].size = z[x].size
    BY <2>2, <1>1 DEF Merged
  <2> QED BY <2>2, <2>3, <2>4, <2>5, <1>1 DEF JoinedHeap
<1>2. CASE n # t /\ n \in B
  <2>1. w = Filed(Absorb(s, q, n), q, z[q].size + z[n].size)
    BY <1>2 DEF JoinedTo
  <2>2. /\ Heap(w, t, sm, own, (B \ {n}) \cup {q}, F, K \ {q})
        /\ DOMAIN w = DOMAIN z \ {n} /\ SameSizes(z, w, {n, q})
    <3>1. n \in B /\ n = z[q].md_next /\ z[q].prev_inuse = TRUE
      BY <1>2
    <3>2. PICK size : size = z[q].size + z[n].size
      OBVIOUS
    <3>3. w = Filed(Absorb(s, q, n), q, size)
      BY <2>1, <3>2
    <3>4. FiledAhead(z, w, t, sm, own, B, F, K \ {q}, q, n)
      BY <3>1, <3>2, <3>3, JoinAhead
    <3> QED BY <3>4 DEF FiledAhead
  <2>3. \A x \in DOMAIN z \ {q, n} : x \in DOMAIN w /\ w[x].size = z[x].size
    BY <2>2 DEF SameSizes
  <2>4. t \in DOMAIN z \ {q, n}
    BY <1>0, <1>2 DEF ChunksOf
  <2>5. SameEnd(z, t, w, t)
    BY <2>2, <2>3, <2>4, <1>0, FewerChunks
  <2> QED BY <2>2, <2>3, <2>5, <1>2 DEF JoinedHeap
<1>3. CASE n # t /\ n \notin B
  <2>1. w = Filed(ClearInuse(s, n), q, z[q].size)
    BY <1>3 DEF JoinedTo
  <2>2. Resettled(z, w, t, sm, own, B \cup {q}, F, K \ {q})
    BY <2>1, <1>3, JoinNone
  <2>3. /\ Heap(w, t, sm, own, B \cup {q}, F, K \ {q}) /\ DOMAIN w = DOMAIN z
        /\ \A x \in DOMAIN z : x \in DOMAIN w /\ w[x].size = z[x].size
    BY <2>2 DEF Resettled, SameSizes
  <2>4. t \in DOMAIN z /\ B \ {n} = B
    BY <1>0, <1>3 DEF ChunksOf
  <2>5. SameEnd(z, t, w, t)
    BY <2>3, <2>4, <1>0, FewerChunks
  <2>6. n \in DOMAIN z
    BY <1>0, NextChunk
  <2>7. Heap(w, t, sm, own, (B \ {n}) \cup {q}, F, K \ {q})
    BY <2>3, <2>4
  <2> QED BY <2>3, <2>5, <2>6, <2>7, <1>3 DEF JoinedHeap
<1> QED BY <1>1, <1>2, <1>3

\* The lists b have the chunks S, in the order and with the marks that they should have.
Fine(b, m, map, S) ==
    Lists(b, BinIdx) /\ Members(b, BinIdx) = S /\ Sorted(b, m) /\ Marks(b, map)

LEMMA UnlinkFine ==
    ASSUME NEW b, NEW m, NEW map, NEW S, Fine(b, m, map, S), NEW v \in S,
           NEW c, c = Unlink(b, v)
    PROVE  Fine(c, m, map, S \ {v})
<1>1. Lists(b, BinIdx) /\ Members(b, BinIdx) = S /\ Sorted(b, m) /\ Marks(b, map)
  BY DEF Fine
<1>2. PICK i \in BinIdx : \E k \in DOMAIN b[i] : b[i][k] = v
  BY <1>1, IsMember
<1>3. PICK k \in DOMAIN b[i] : b[i][k] = v
  BY <1>2
<1>4. c = Unlink(b, b[i][k])
  BY <1>3
<1>5. Dropped(b, BinIdx, i, k, c)
  BY <1>1, <1>4, UnlinkIs
<1>6. Lists(c, BinIdx) /\ Members(c, BinIdx) = Members(b, BinIdx) \ {b[i][k]}
  BY <1>1, <1>5, DropLists
<1>7. Sorted(c, m) /\ Marks(c, map)
  BY <1>1, <1>5, SortedDrop, MarksDrop
<1> QED BY <1>1, <1>3, <1>6, <1>7 DEF Fine

LEMMA PushFine ==
    ASSUME NEW b, NEW m, NEW map, NEW S, Fine(b, m, map, S), NEW v, v \in Int, v \notin S,
           NEW c, c = PushUnsorted(b, v)
    PROVE  Fine(c, m, map, S \cup {v})
<1>1. Lists(b, BinIdx) /\ Members(b, BinIdx) = S /\ Sorted(b, m) /\ Marks(b, map)
  BY DEF Fine
<1>2. b \in [BinIdx -> Seq(Int)] /\ UNSORTED \in BinIdx
  BY <1>1, Constants DEF Lists
<1>3. Added(b, BinIdx, UNSORTED, 1, v, c)
  BY <1>2, PushIs
<1>4. v \notin Members(b, BinIdx)
  BY <1>1
<1>5. Lists(c, BinIdx) /\ Members(c, BinIdx) = Members(b, BinIdx) \cup {v}
  BY <1>1, <1>3, <1>4, AddLists
<1>6. Sorted(c, m) /\ Marks(c, map)
  BY <1>1, <1>3, SortedPush, MarksPush
<1> QED BY <1>1, <1>5, <1>6 DEF Fine

LEMMA FineSame ==
    ASSUME NEW b, NEW m, NEW map, NEW S, Fine(b, m, map, S),
           NEW z, \A x \in S : z[x].size = m[x].size
    PROVE  Fine(b, z, map, S)
<1>1. Sorted(b, m) /\ \A x \in Members(b, BinIdx) : z[x].size = m[x].size
  BY DEF Fine
<1>2. Sorted(b, z)
  BY <1>1, SortedSame
<1> QED BY <1>2 DEF Fine

\* what Coalesce does to the lists, and to the top chunk
BinsJoined(b, p, q, n, ahead, c) ==
    LET left == IF md[p].prev_inuse THEN b ELSE Unlink(b, q)
    IN  c = IF n = top THEN left
            ELSE PushUnsorted(IF ahead THEN Unlink(left, n) ELSE left, q)

\* and to the records
HeapJoined(p, q, n, s, ahead, size, w) ==
    w = IF n = top THEN Topmost(s, q, size, n)
        ELSE Filed(IF ahead THEN Absorb(s, q, n) ELSE ClearInuse(s, n), q, size)

SizeJoined(p, n, ahead, size) ==
    size = md[p].size + (IF md[p].prev_inuse THEN 0 ELSE md[p].prev_size)
                      + (IF n = top \/ ahead THEN md[n].size ELSE 0)

TopJoined(q, n) ==
    /\ top' = IF n = top THEN q ELSE top
    /\ last_remainder' \in {last_remainder, Dangling}

LEMMA CoalesceIs ==
    ASSUME NEW p, Coalesce(p, top), NEW n, n = md[p].md_next,
           NEW q, NEW s, JoinsBack(md, p, q, s), NEW ahead, ahead = MergesAhead(s, n, top)
    PROVE  /\ BinsJoined(bins, p, q, n, ahead, bins') /\ TopJoined(q, n)
           /\ \E size : SizeJoined(p, n, ahead, size) /\ HeapJoined(p, q, n, s, ahead, size, md')
<1>1. /\ q = IF ~md[p].prev_inuse THEN md[p].md_prev ELSE p
      /\ s = IF ~md[p].prev_inuse THEN Absorb(md, q, p) ELSE md
  BY DEF JoinsBack
<1>z. PICK size : size = md[p].size + (IF ~md[p].prev_inuse THEN md[p].prev_size ELSE 0)
                         + (IF n = top \/ ahead THEN md[n].size ELSE 0)
  OBVIOUS
<1>2. /\ md' = IF n = top
               THEN Unregister([SetHead(s, q, size) EXCEPT ![q].md_next = NULL], n)
               ELSE SetFoot(SetHead(IF ahead THEN Absorb(s, q, n) ELSE ClearInuse(s, n),
                                    q, size), q)
      /\ bins' = IF n = top THEN IF ~md[p].prev_inuse THEN Unlink(bins, q) ELSE bins
                 ELSE PushUnsorted(IF ahead
                                   THEN Unlink(IF ~md[p].prev_inuse THEN Unlink(bins, q)
                                               ELSE bins, n)
                                   ELSE IF ~md[p].prev_inuse THEN Unlink(bins, q) ELSE bins, q)
      /\ top' = IF n = top THEN q ELSE top
      /\ \E gone : last_remainder' = Forget(gone)
  BY <1>1, <1>z, Zenon DEF Coalesce
<1>3. SizeJoined(p, n, ahead, size)
  BY <1>z DEF SizeJoined
<1>4. HeapJoined(p, q, n, s, ahead, size, md')
  BY <1>2 DEF HeapJoined, Topmost, Filed
<1>5. BinsJoined(bins, p, q, n, ahead, bins')
  BY <1>2 DEF BinsJoined
<1>6. TopJoined(q, n)
  BY <1>2 DEF TopJoined, Forget
<1> QED BY <1>3, <1>4, <1>5, <1>6

LEMMA AsideInuse ==
    ASSUME NEW z, NEW t, NEW sm, NEW own, NEW B, NEW F, NEW K, Heap(z, t, sm, own, B, F, K),
           NEW n \in ChunksOf(z), n # t, NEW q, q # n, NEW s, Aside(z, q, s)
    PROVE  Inuse(s, n) <=> n \notin B
<1>1. z[n].md_next \in DOMAIN z /\ (Inuse(z, n) <=> n \notin B)
  BY InuseIs
<1>n. PICK nn : nn = z[n].md_next
  OBVIOUS
<1>2. n \in DOMAIN z /\ s[n] = z[n]
  BY DEF Aside, ChunksOf
<1>3. s[nn].prev_inuse = z[nn].prev_inuse
  BY <1>1, <1>n DEF Aside, SameTags
<1> QED BY <1>1, <1>2, <1>3, <1>n DEF Inuse

\* what follows from that
JoinsAs(B, p, q, n, s, z, ahead, w) ==
    /\ JoinedTo(top, B \ {q}, q, n, z, s, w) /\ n # q /\ n # p /\ n = z[q].md_next
    /\ n \in ChunksOf(md) /\ (n # top => (ahead <=> n \in B \ {q}))

LEMMA CoalesceJoins ==
    ASSUME NEW B, NEW F, NEW L, Heap(md, top, seams, owned, B, F, L), NEW p \in L,
           NEW n, n = md[p].md_next, NEW q, NEW s, NEW z, NEW K,
           ReadyAs(md, top, seams, owned, B, F, L, p, q, s, z, K),
           NEW ahead, ahead = MergesAhead(s, n, top), NEW size, SizeJoined(p, n, ahead, size),
           NEW w, HeapJoined(p, q, n, s, ahead, size, w)
    PROVE  JoinsAs(B, p, q, n, s, z, ahead, w)
<1>1. /\ Heap(z, top, seams, owned, B \ {q}, F, K) /\ q \in K
      /\ z[q].md_next = n /\ Aside(z, q, s)
      /\ z[q].size = md[p].size + (IF md[p].prev_inuse THEN 0 ELSE md[p].prev_size)
      /\ DOMAIN z \subseteq DOMAIN md
      /\ \A x \in DOMAIN md \ {p, q} : x \in DOMAIN z /\ z[x].size = md[x].size
  BY DEF ReadyAs
<1>2. /\ q \in ChunksOf(z) /\ q # top /\ Geo(z, top, seams, owned) /\ z[q].size \in Nat
  <2>1. q \in (B \ {q}) \cup F \cup K /\ HeapBut(z, top, seams, owned, B \ {q}, F, K, {})
    BY <1>1 DEF Heap
  <2> QED BY <2>1, Proper
<1>3. n \in ChunksOf(z) /\ n # q
  BY <1>1, <1>2, NextChunk
<1>4. n # p /\ n \in ChunksOf(md) /\ n \in DOMAIN md /\ md[n].size \in Nat
  <2>1. Borders(md, top, B, p, n)
    BY BordersOf
  <2> QED BY <2>1 DEF Borders
<1>5. z[n].size = md[n].size
  BY <1>1, <1>3, <1>4
<1>6. n # top => (ahead <=> n \in B \ {q})
  <2> SUFFICES ASSUME n # top PROVE ahead <=> n \in B \ {q}
    OBVIOUS
  <2>B. PICK B1 : B1 = B \ {q}
    OBVIOUS
  <2>1. Inuse(s, n) <=> n \notin B1
    <3>1. Heap(z, top, seams, owned, B1, F, K) /\ Aside(z, q, s)
      BY <1>1, <2>B
    <3> QED BY <3>1, <1>3, AsideInuse
  <2> QED BY <2>1, <2>B DEF MergesAhead
<1>7. size = z[q].size + (IF n = top \/ ahead THEN z[n].size ELSE 0)
  BY <1>1, <1>5 DEF SizeJoined
<1>8. CASE n = top
  <2>1. size = z[q].size + z[n].size
    BY <1>7, <1>8
  <2> QED BY <2>1, <1>8, <1>1, <1>3, <1>4 DEF HeapJoined, JoinedTo, JoinsAs
<1>9. CASE n # top /\ ahead
  <2>1. size = z[q].size + z[n].size
    BY <1>7, <1>9
  <2> QED BY <2>1, <1>9, <1>1, <1>3, <1>4, <1>6 DEF HeapJoined, JoinedTo, JoinsAs
<1>10. CASE n # top /\ ~ahead
  <2>1. size = z[q].size
    BY <1>7, <1>10, <1>2
  <2> QED BY <2>1, <1>10, <1>1, <1>3, <1>4, <1>6 DEF HeapJoined, JoinedTo, JoinsAs
<1> QED BY <1>8, <1>9, <1>10

SameBinned(B, q, n, w) == \A x \in B \ {q, n} : w[x].size = md[x].size
BinnedThen(B, q, n, D) == D = IF n = top THEN B \ {q} ELSE ((B \ {q}) \ {n}) \cup {q}

LEMMA CoalesceBins ==
    ASSUME NEW b, NEW B, Fine(b, md, binmap, B), NEW p, NEW q, q \in Int, NEW n, NEW ahead, NEW c,
           BinsJoined(b, p, q, n, ahead, c), md[p].prev_inuse => q \notin B,
           ~md[p].prev_inuse => q \in B, n # top => (ahead <=> n \in B \ {q}), top \notin B,
           NEW w, SameBinned(B, q, n, w), NEW D, BinnedThen(B, q, n, D)
    PROVE  Fine(c, w, binmap, D)
<1>l. PICK l : l = IF md[p].prev_inuse THEN b ELSE Unlink(b, q)
  OBVIOUS
<1>B. PICK B1 : B1 = B \ {q}
  OBVIOUS
<1>1. Fine(l, md, binmap, B1)
  <2>1. CASE md[p].prev_inuse
    BY <2>1, <1>l, <1>B
  <2>2. CASE ~md[p].prev_inuse
    BY <2>2, <1>l, <1>B, UnlinkFine
  <2> QED BY <2>1, <2>2
<1>2. CASE n = top
  <2>1. c = l
    BY <1>2, <1>l DEF BinsJoined
  <2>2. \A x \in B1 : w[x].size = md[x].size
    BY <1>2, <1>B DEF SameBinned
  <2>3. Fine(c, w, binmap, B1)
    BY <1>1, <2>1, <2>2, FineSame
  <2> QED BY <2>3, <1>2, <1>B DEF BinnedThen
<1>3. CASE n # top
  <2>k. PICK k : k = IF ahead THEN Unlink(l, n) ELSE l
    OBVIOUS
  <2>C. PICK B2 : B2 = B1 \ {n}
    OBVIOUS
  <2>1. c = PushUnsorted(k, q)
    BY <1>3, <1>l, <2>k DEF BinsJoined
  <2>2. Fine(k, md, binmap, B2)
    <3>1. CASE ahead
      <4>1. n \in B1 /\ k = Unlink(l, n)
        BY <3>1, <1>3, <1>B, <2>k
      <4> QED BY <4>1, <1>1, <2>C, UnlinkFine
    <3>2. CASE ~ahead
      BY <3>2, <1>1, <1>3, <1>B, <2>k, <2>C
    <3> QED BY <3>1, <3>2
  <2>3. \A x \in B2 : w[x].size = md[x].size
    BY <1>B, <2>C DEF SameBinned
  <2>4. Fine(k, w, binmap, B2)
    BY <2>2, <2>3, FineSame
  <2>5. q \notin B2
    BY <1>B, <2>C
  <2>6. Fine(c, w, binmap, B2 \cup {q})
    BY <2>1, <2>4, <2>5, PushFine
  <2> QED BY <2>6, <1>3, <1>B, <2>C DEF BinnedThen
<1> QED BY <1>2, <1>3

\* What Coalesce leaves, when the fastbins hold the chunks F and L \ {p} are in use
Coalesced(F, L, p) ==
    \E B : /\ Heap(md', top', seams, owned, B, F, L \ {p}) /\ Fine(bins', md', binmap, B)
           /\ SameEnd(md, top, md', top') /\ last_remainder' \in Int
           /\ \A x \in F \cup (L \ {p}) : md'[x].size = md[x].size

LEMMA CoalesceHeap ==
    ASSUME NEW B, NEW F, NEW L, Heap(md, top, seams, owned, B, F, L), Fine(bins, md, binmap, B),
           last_remainder \in Int, NEW p \in L, Coalesce(p, top)
    PROVE  Coalesced(F, L, p)
<1>n. PICK n : n = md[p].md_next
  OBVIOUS
<1>q. PICK q : q = IF md[p].prev_inuse THEN p ELSE md[p].md_prev
  OBVIOUS
<1>s. PICK s : s = IF md[p].prev_inuse THEN md ELSE Absorb(md, q, p)
  OBVIOUS
<1>1. JoinsBack(md, p, q, s)
  BY <1>q, <1>s DEF JoinsBack
<1>h. PICK ahead : ahead = MergesAhead(s, n, top)
  OBVIOUS
<1>2. /\ BinsJoined(bins, p, q, n, ahead, bins') /\ TopJoined(q, n)
      /\ \E size : SizeJoined(p, n, ahead, size) /\ HeapJoined(p, q, n, s, ahead, size, md')
  BY <1>1, <1>n, <1>h, CoalesceIs
<1>3. PICK size : SizeJoined(p, n, ahead, size) /\ HeapJoined(p, q, n, s, ahead, size, md')
  BY <1>2
<1>4. PICK z, K : ReadyAs(md, top, seams, owned, B, F, L, p, q, s, z, K)
  BY <1>1, Readied
<1>w. PICK w : w = md'
  OBVIOUS
<1>5. /\ JoinedTo(top, B \ {q}, q, n, z, s, w) /\ n # q /\ n # p /\ n = z[q].md_next
      /\ n \in ChunksOf(md) /\ (n # top => (ahead <=> n \in B \ {q}))
  <2>1. HeapJoined(p, q, n, s, ahead, size, w)
    BY <1>3, <1>w
  <2>2. SizeJoined(p, n, ahead, size)
    BY <1>3
  <2>3. JoinsAs(B, p, q, n, s, z, ahead, w)
    BY <2>1, <2>2, <1>4, <1>n, <1>h, CoalesceJoins
  <2> QED BY <2>3 DEF JoinsAs
<1>B. PICK B1 : B1 = B \ {q}
  OBVIOUS
<1>6. /\ Heap(z, top, seams, owned, B1, F, K) /\ q \in K /\ K \ {q} = L \ {p}
      /\ z[q].prev_inuse = TRUE /\ Aside(z, q, s) /\ DOMAIN z \subseteq DOMAIN md
      /\ \A x \in DOMAIN md \ {p, q} : x \in DOMAIN z /\ z[x].size = md[x].size
  BY <1>4, <1>B DEF ReadyAs
<1>7. JoinedHeap(top, seams, owned, B1, F, K, q, n, z, w)
  <2>1. JoinedTo(top, B1, q, n, z, s, w) /\ n = z[q].md_next
    BY <1>5, <1>B
  <2> QED BY <2>1, <1>6, Joins
<1>C. PICK B2 : B2 = IF n = top THEN B1 ELSE (B1 \ {n}) \cup {q}
  OBVIOUS
<1>t. PICK t2 : t2 = IF n = top THEN q ELSE top
  OBVIOUS
<1>8. /\ Heap(w, t2, seams, owned, B2, F, L \ {p}) /\ SameEnd(z, top, w, t2)
      /\ \A x \in DOMAIN z \ {q, n} : x \in DOMAIN w /\ w[x].size = z[x].size
      /\ n \notin B1 /\ n # top => w[n].size = z[n].size
  BY <1>6, <1>7, <1>C, <1>t DEF JoinedHeap
<1>9. /\ B \cup F \cup L \subseteq DOMAIN md /\ top \in DOMAIN md /\ top # InitialTop
      /\ top \notin B \cup F \cup L /\ B \cap F = {} /\ (B \cup F) \cap L = {}
  <2>1. Places(md, top, B, F, L) /\ Geo(md, top, seams, owned)
    BY DEF Heap, HeapBut, Tagged
  <2>2. p \in B \cup F \cup L /\ HeapBut(md, top, seams, owned, B, F, L, {})
    BY DEF Heap
  <2>3. top # InitialTop
    BY <2>2, Proper
  <2> QED BY <2>1, <2>3 DEF Places, Geo, Shape, ChunksOf
<1>10. md[p].prev_inuse => q \notin B
  BY <1>9, <1>q
<1>11. ~md[p].prev_inuse => q \in B
  <2>1. Borders(md, top, B, p, n)
    BY <1>n, BordersOf
  <2> QED BY <2>1, <1>q DEF Borders
<1>12. q \in Nat
  <2>1. q \in (B1 \cup F \cup K) /\ HeapBut(z, top, seams, owned, B1, F, K, {})
    BY <1>6 DEF Heap
  <2> QED BY <2>1, Proper
<1>13. \A x \in DOMAIN md \ {p, q, n} : w[x].size = md[x].size
  BY <1>6, <1>8
<1>14. Fine(bins', w, binmap, B2)
  <2>1. SameBinned(B, q, n, w)
    BY <1>9, <1>13 DEF SameBinned
  <2>2. BinnedThen(B, q, n, B2)
    BY <1>B, <1>C DEF BinnedThen
  <2>c. PICK c : c = bins'
    OBVIOUS
  <2>b. PICK b : b = bins
    OBVIOUS
  <2>3. /\ BinsJoined(b, p, q, n, ahead, c) /\ top \notin B /\ q \in Int
        /\ (n # top => (ahead <=> n \in B \ {q}))
    BY <1>2, <1>5, <1>9, <1>12, <2>b, <2>c
  <2>4. Fine(b, md, binmap, B)
    BY <2>b
  <2>5. Fine(c, w, binmap, B2)
    BY <1>10, <1>11, <2>1, <2>2, <2>3, <2>4, CoalesceBins
  <2> QED BY <2>5, <2>c
<1>15. SameEnd(md, top, w, t2)
  <2>1. top # q /\ top # p
    <3>1. top \notin K
      BY <1>6 DEF Heap, HeapBut, Places
    <3> QED BY <3>1, <1>6, <1>9
  <2>2. SameEnd(md, top, z, top)
    BY <2>1, <1>6, <1>9, FewerChunks
  <2> QED BY <2>2, <1>8, SameEndTwice
<1>16. top' = t2 /\ last_remainder' \in Int
  BY <1>2, <1>t, Constants DEF TopJoined
<1>17. \A x \in F \cup (L \ {p}) : w[x].size = md[x].size
  <2> SUFFICES ASSUME NEW x \in F \cup (L \ {p}) PROVE w[x].size = md[x].size
    OBVIOUS
  <2>1. x \in DOMAIN md /\ x # p /\ x # q /\ x # top
    <3>1. x # q
      BY <1>6, <1>9, <1>10, <1>11, <1>q DEF Heap, HeapBut, Places
    <3> QED BY <3>1, <1>9
  <2>2. CASE x = n
    <3>1. n \notin B1 /\ n # top
      BY <2>2, <1>9, <2>1, <1>B
    <3>2. z[n].size = md[n].size
      BY <2>1, <2>2, <1>6
    <3> QED BY <3>1, <3>2, <2>2, <1>8
  <2>3. CASE x # n
    BY <2>1, <2>3, <1>13
  <2> QED BY <2>2, <2>3
<1> QED BY <1>8, <1>14, <1>15, <1>16, <1>17, <1>w DEF Coalesced

LEMMA CoalescesOn ==
    ASSUME HeapInv, ~At("idle"), Continues, UNCHANGED <<binmap, system, client>>,
           have_fast' \in BOOLEAN, NEW F, NEW L, NEW p, Coalesced(F, L, p),
           L \ {p} = Live \ {op.p}, Lists(fastbins', Smalls), Members(fastbins', Smalls) = F,
           SizedLists(fastbins', md)
    PROVE  HeapInv'
<1>K. PICK K : K = L \ {p}
  OBVIOUS
<1>1. PICK B : /\ Heap(md', top', seams, owned, B, F, K) /\ Fine(bins', md', binmap, B)
               /\ SameEnd(md, top, md', top') /\ last_remainder' \in Int
               /\ \A x \in F \cup K : md'[x].size = md[x].size
  BY <1>K DEF Coalesced
<1>2. UNCHANGED client /\ UNCHANGED system /\ binmap' = binmap /\ K = Live \ {op.p}
  BY <1>K
<1>3. CallInv' /\ Live' = Live \ {op.p}
  <2>1. \A q \in Live \ {op.p} : md'[q].size = md[q].size
    BY <1>1, <1>2
  <2> QED BY <2>1, <1>2, FreesOn
<1>4. seams' = seams /\ owned' = owned
  BY <1>2 DEF system
<1>5. Heap(md', top', seams', owned', B, F, K) /\ Live' = K
  BY <1>1, <1>2, <1>3, <1>4
<1>6. SizedLists(fastbins', md')
  <2>1. \A x \in Members(fastbins', Smalls) : md'[x].size = md[x].size
    BY <1>1
  <2> QED BY <2>1, SizedSame
<1>7. /\ Lists(bins', BinIdx) /\ Members(bins', BinIdx) = B /\ Sorted(bins', md')
      /\ Marks(bins', binmap)
  BY <1>1 DEF Fine
<1>8. LayoutInv'
  BY <1>5, <1>6, <1>7, LayoutAgain
<1>9. MemoryInv'
  BY <1>1, <1>2, MemoryKept DEF HeapInv
<1>10. OtherTypes'
  BY <1>1, <1>2, <1>7 DEF OtherTypes, HeapInv
<1> QED BY <1>3, <1>8, <1>9, <1>10 DEF HeapInv

\* malloc_consolidate takes the first chunk of the first fastbin that has one.
LEMMA ConsolidateNextInv == ASSUME HeapInv, ConsolidateNext PROVE HeapInv'
<1>s. PICK s : s = Min(FilledFastbins)
  OBVIOUS
<1>p. PICK p : p = Head(fastbins[s])
  OBVIOUS
<1>0. LayoutInv /\ OtherTypes /\ ~At("idle") /\ op.at = "consolidate"
  BY DEF HeapInv, ConsolidateNext, At
<1>1. /\ Heap(md, top, seams, owned, Binned, Fast, Live)
      /\ Lists(bins, BinIdx) /\ Lists(fastbins, Smalls)
      /\ SizedLists(fastbins, md) /\ Sorted(bins, md)
      /\ Binned = Members(bins, BinIdx) /\ Fast = Members(fastbins, Smalls)
  BY <1>0, HeapIs
<1>2. s \in Smalls /\ fastbins[s] # <<>>
  <2>1. FilledFastbins \in SUBSET Nat /\ FilledFastbins # {}
    BY Constants DEF FilledFastbins, ConsolidateNext
  <2>2. s \in FilledFastbins
    BY <2>1, <1>s, LeastOf
  <2> QED BY <2>2 DEF FilledFastbins
<1>3. /\ fastbins' = [fastbins EXCEPT ![s] = Tail(@)]
      /\ UNCHANGED binmap /\ UNCHANGED have_fast /\ UNCHANGED system /\ UNCHANGED client
      /\ ~CannotCoalesce(p, top) => Coalesce(p, top) /\ op' = op
  BY <1>s, <1>p DEF ConsolidateNext
<1>4. Dropped(fastbins, Smalls, s, 1, fastbins')
  <2>1. fastbins \in [Smalls -> Seq(Int)]
    BY <1>1 DEF Lists
  <2> QED BY <2>1, <1>2, <1>3, PopFast
<1>5. p = fastbins[s][1] /\ 1 \in DOMAIN fastbins[s]
  BY <1>4, <1>p DEF Dropped
<1>6. p \in Fast
  BY <1>1, <1>2, <1>5, IsMember
<1>F. PICK F : F = Fast \ {p}
  OBVIOUS
<1>7. /\ Lists(fastbins', Smalls) /\ Members(fastbins', Smalls) = F
      /\ SizedLists(fastbins', md)
  BY <1>1, <1>4, <1>5, <1>F, DropLists, SizedDrop
<1>8. p \notin Live
  BY <1>0, <1>6, ListedChunks
<1>L. PICK L : L = Live \cup {p}
  OBVIOUS
<1>9. Heap(md, top, seams, owned, Binned, F, L) /\ p \in L
  BY <1>1, <1>6, <1>F, <1>L, UseFast
<1>10. Coalesce(p, top) /\ op' = op
  BY <1>3, <1>9, Coalesces
<1>11. Coalesced(F, L, p)
  <2>B. PICK B : B = Binned
    OBVIOUS
  <2>1. Fine(bins, md, binmap, B)
    BY <1>0, <1>1, <2>B DEF Fine, OtherTypes
  <2>2. Heap(md, top, seams, owned, B, F, L) /\ last_remainder \in Int
    BY <1>0, <1>9, <2>B DEF OtherTypes
  <2> QED BY <2>1, <2>2, <1>9, <1>10, CoalesceHeap
<1>12. Continues /\ op.p = NULL
  <2>1. OpKnown(op, DOMAIN held, top)
    BY DEF HeapInv, CallInv
  <2> QED BY <2>1, <1>0, <1>10 DEF OpKnown, Continues
<1>13. L \ {p} = Live \ {op.p}
  <2>1. NULL \notin Live
    BY <1>0, LiveChunks
  <2> QED BY <2>1, <1>8, <1>12, <1>L
<1>14. have_fast' \in BOOLEAN
  BY <1>0, <1>3 DEF OtherTypes
<1> QED BY <1>0, <1>3, <1>7, <1>11, <1>12, <1>13, <1>14, CoalescesOn

\* The error checks of _int_free pass.
LEMMA FreePasses ==
    ASSUME HeapInv, At("free")
    PROVE  /\ ~FreeAborts(op.p, top) /\ op.p \in Live /\ op.tc = top
           /\ md[op.p].size \in Nat /\ md[op.p].size >= 2
<1>p. PICK p : p = op.p
  OBVIOUS
<1>n. PICK n : n = md[p].md_next
  OBVIOUS
<1>0. /\ LayoutInv /\ MemoryInv /\ CallInv /\ ~At("idle") /\ op.at = "free"
  BY DEF HeapInv, At
<1>1. p # NULL /\ op.tc = top
  BY <1>0, <1>p DEF CallInv, OpKnown
<1>2. p \in Live
  BY <1>1, <1>p DEF Live
<1>3. /\ p \in ChunksOf(md) /\ p # top /\ p \in DOMAIN md /\ md[p].size \in Nat
      /\ md[p].size >= 2 /\ p \notin Fast /\ top # InitialTop /\ n \in ChunksOf(md) /\ n # p
  BY <1>0, <1>2, <1>n, LiveChunks
<1>4. /\ Heap(md, top, seams, owned, Binned, Fast, Live) /\ Geo(md, top, seams, owned)
      /\ Fast = Members(fastbins, Smalls) /\ Lists(fastbins, Smalls)
  BY <1>0, HeapIs
<1>5. n \in DOMAIN md /\ md[n].prev_inuse /\ md[n].size \in Nat /\ md[n].size >= 1
  <2>B. PICK B : B = Binned
    OBVIOUS
  <2>1. Borders(md, top, B, p, n)
    BY <1>2, <1>4, <1>n, <2>B, BordersOf
  <2> QED BY <2>1 DEF Borders
<1>6. ~BadSize(n)
  BY <1>5 DEF BadSize
<1>7. md[n].size < system_mem
  <2>1. IsFiniteSet(owned) /\ Cardinality(owned) <= system_mem /\ system_mem \in Nat
    BY <1>0 DEF MemoryInv, Within
  <2>2. md[p].size + md[n].size <= Cardinality(owned) /\ Cardinality(owned) \in Nat
    BY <2>1, <1>3, <1>4, TwoFit
  <2> QED BY <2>1, <2>2, <1>3, <1>5
<1>8. ASSUME md[p].size <= MaxFast, fastbins[md[p].size] # <<>>
      PROVE  Head(fastbins[md[p].size]) # p
  <2>s. PICK s : s = md[p].size
    OBVIOUS
  <2>1. s \in Smalls
    BY <1>8, <1>3, <2>s, Constants DEF Smalls
  <2>2. fastbins[s] \in Seq(Int) /\ fastbins[s] # <<>>
    BY <1>4, <1>8, <2>1, <2>s DEF Lists
  <2>3. 1 \in DOMAIN fastbins[s] /\ Head(fastbins[s]) = fastbins[s][1]
    <3>1. PICK f \in Seq(Int) : f = fastbins[s]
      BY <2>2
    <3>2. f # <<>> /\ 1 \in DOMAIN f
      BY <3>1, <2>2, TailIs
    <3>3. Head(f) = f[1]
      OBVIOUS
    <3> QED BY <3>1, <3>2, <3>3
  <2>4. Head(fastbins[s]) \in Fast
    BY <2>1, <2>3, <1>4, IsMember
  <2> QED BY <2>4, <1>3, <2>s
<1>9. contiguous => ~(n >= top + md[top].size)
  <2> SUFFICES ASSUME contiguous PROVE ~(n >= top + md[top].size)
    OBVIOUS
  <2>1. n <= top
    BY <1>0, <1>3 DEF MemoryInv, InOneRegion
  <2>2. top \in Nat /\ md[top].size \in Nat /\ md[top].size >= 2
    BY <1>0, <1>3, TopIs
  <2>3. n \in Nat
    BY <1>3, <1>4 DEF Geo, Shape
  <2> QED BY <2>1, <2>2, <2>3
<1>10. ~CannotCoalesce(p, top)
  <2>F. PICK F : F = Fast
    OBVIOUS
  <2>L. PICK L : L = Live
    OBVIOUS
  <2>1. Heap(md, top, seams, owned, Binned, F, L) /\ p \in L
    BY <1>2, <1>4, <2>F, <2>L
  <2> QED BY <2>1, Coalesces
<1>11. ~FreeAborts(p, top)
  <2>1. ~(md[p].size < MINSIZE)
    BY <1>3, Constants
  <2>2. ~(md[n].size >= system_mem)
    <3>1. system_mem \in Nat
      BY <1>0 DEF MemoryInv, Within
    <3> QED BY <3>1, <1>5, <1>7
  <2> QED BY <2>1, <2>2, <1>3, <1>5, <1>6, <1>8, <1>9, <1>10, <1>n, Zenon DEF FreeAborts
<1> QED BY <1>1, <1>2, <1>3, <1>11, <1>p

LEMMA FreeReturns ==
    ASSUME HeapInv, At("free"), Return
    PROVE  Continues
<1>1. OpKnown(op, DOMAIN held, top) /\ op \in OpType /\ op.at = "free"
  BY DEF HeapInv, CallInv, OpKnown, At
<1>2. op.then \in {"sys_done", "memalign_tail", "done"}
  BY <1>1 DEF OpKnown, Freeing
<1>y. PICK y \in Int : y = NULL
  BY Constants
<1>a. PICK a \in Points : a = op.then
  BY <1>1 DEF OpType
<1>3. /\ op' \in OpType /\ op'.v = op.v /\ op'.p = NULL /\ op'.nb = op.nb
      /\ op'.want = op.want /\ op'.call = op.call /\ op'.blk = op.blk
      /\ op'.align = op.align /\ op'.at = op.then
  <2>1. op' = [op EXCEPT !.at = a, !.p = y, !.tc = y]
    BY <1>a, <1>y DEF Return
  <2> QED BY <2>1, <1>1, <1>a, <1>y DEF OpType
<1>4. Dest(op') = Dest(op)
  BY <1>1, <1>2, <1>3 DEF Dest, Freeing
<1> QED BY <1>1, <1>2, <1>3, <1>4 DEF Continues, Freeing

\* _int_free goes on to consolidate, or to look at the size of the top chunk.
FreesTo(point) ==
    op' = [op EXCEPT !.at = point, !.cont = "trim_check", !.p = NULL, !.tc = NULL]
FreesMore == FreesTo("consolidate") \/ FreesTo("trim_check")

LEMMA FreeGoesOn ==
    ASSUME HeapInv, At("free"), FreesMore
    PROVE  Continues
<1>1. OpKnown(op, DOMAIN held, top) /\ op \in OpType /\ op.at = "free"
  BY DEF HeapInv, CallInv, OpKnown, At
<1>2. op.then \in {"sys_done", "memalign_tail", "done"}
  BY <1>1 DEF OpKnown, Freeing
<1>3. PICK point \in {"consolidate", "trim_check"} : FreesTo(point)
  BY DEF FreesMore
<1>y. PICK y \in Int : y = NULL
  BY Constants
<1>r. op' = [op EXCEPT !.at = point, !.cont = "trim_check", !.p = y, !.tc = y]
  BY <1>3, <1>y DEF FreesTo
<1>4. /\ op'.v = op.v /\ op'.p = NULL /\ op'.nb = op.nb
      /\ op'.want = op.want /\ op'.call = op.call /\ op'.blk = op.blk
      /\ op'.align = op.align /\ op'.at = point /\ op'.cont = "trim_check"
      /\ op'.then = op.then
  BY <1>1, <1>r, <1>y DEF OpType
<1>5. op' \in OpType
  <2>1. point \in Points /\ "trim_check" \in Points
    BY DEF Points
  <2> QED BY <2>1, <1>1, <1>r DEF OpType
<1>6. Dest(op') = Dest(op)
  BY <1>1, <1>2, <1>4 DEF Dest, Freeing
<1> QED BY <1>1, <1>2, <1>4, <1>5, <1>6 DEF Continues, Freeing

LEMMA FreeInv == ASSUME HeapInv, Free PROVE HeapInv'
<1>p. PICK p : p = op.p
  OBVIOUS
<1>0. LayoutInv /\ OtherTypes /\ ~At("idle") /\ At("free") /\ CallInv
  BY DEF HeapInv, Free, At
<1>1. /\ Heap(md, top, seams, owned, Binned, Fast, Live)
      /\ Lists(bins, BinIdx) /\ Lists(fastbins, Smalls)
      /\ SizedLists(fastbins, md) /\ Sorted(bins, md)
      /\ Binned = Members(bins, BinIdx) /\ Fast = Members(fastbins, Smalls)
  BY <1>0, HeapIs
<1>2. /\ ~FreeAborts(p, top) /\ p \in Live /\ op.tc = top
      /\ md[p].size \in Nat /\ md[p].size >= 2
  BY <1>0, <1>p, FreePasses
<1>3. /\ IF md[p].size <= MaxFast THEN FreeFast ELSE FreeMerge
      /\ UNCHANGED binmap /\ UNCHANGED system /\ UNCHANGED client
  BY <1>2, <1>p DEF Free
<1>4. CASE FreeFast /\ md[p].size <= MaxFast
  <2>s. PICK s : s = md[p].size
    OBVIOUS
  <2>1. /\ fastbins' = [fastbins EXCEPT ![s] = Cons(p, @)] /\ have_fast' = TRUE /\ Return
        /\ UNCHANGED md /\ UNCHANGED bins /\ UNCHANGED top /\ UNCHANGED last_remainder
    BY <1>4, <1>p, <2>s DEF FreeFast
  <2>2. s \in Smalls /\ p \in Int
    <3>1. p \in Nat
      BY <1>0, <1>2, LiveChunks
    <3> QED BY <3>1, <1>2, <1>4, <2>s, Constants DEF Smalls
  <2>3. Added(fastbins, Smalls, s, 1, p, fastbins')
    <3>1. fastbins \in [Smalls -> Seq(Int)]
      BY <1>1 DEF Lists
    <3> QED BY <3>1, <2>1, <2>2, PushFast
  <2>F. PICK F : F = Fast \cup {p}
    OBVIOUS
  <2>L. PICK L : L = Live \ {p}
    OBVIOUS
  <2>4. p \notin Members(fastbins, Smalls)
    BY <1>0, <1>1, <1>2, LiveChunks
  <2>5. /\ Lists(fastbins', Smalls) /\ Members(fastbins', Smalls) = F
        /\ SizedLists(fastbins', md)
    <3>1. /\ Lists(fastbins', Smalls)
          /\ Members(fastbins', Smalls) = Members(fastbins, Smalls) \cup {p}
      BY <1>1, <2>3, <2>4, AddLists
    <3>2. SizedLists(fastbins', md)
      BY <1>1, <2>3, <2>s, SizedAdd
    <3> QED BY <3>1, <3>2, <1>1, <2>F
  <2>6. Heap(md, top, seams, owned, Binned, F, L)
    BY <1>1, <1>2, <2>F, <2>L, KeepFast
  <2>7. CallInv' /\ Live' = L
    <3>1. Continues
      BY <1>0, <2>1, FreeReturns
    <3>2. \A q \in Live \ {op.p} : md'[q].size = md[q].size
      BY <2>1
    <3>3. CallInv' /\ Live' = Live \ {op.p}
      BY <1>0, <1>3, <3>1, <3>2, FreesOn
    <3> QED BY <3>3, <1>p, <2>L
  <2>B. PICK B : B = Binned
    OBVIOUS
  <2>8. LayoutInv'
    <3>1. Heap(md', top', seams', owned', B, F, L)
      BY <1>3, <2>1, <2>6, <2>B DEF system
    <3>2. /\ Lists(bins', BinIdx) /\ Members(bins', BinIdx) = B /\ Sorted(bins', md')
          /\ SizedLists(fastbins', md')
      BY <1>1, <2>1, <2>5, <2>B
    <3> QED BY <3>1, <3>2, <2>5, <2>7, LayoutAgain
  <2>9. MemoryInv'
    BY <1>3, <2>1, MemoryStill DEF HeapInv
  <2>10. OtherTypes'
    BY <1>0, <1>3, <2>1 DEF OtherTypes
  <2> QED BY <2>7, <2>8, <2>9, <2>10 DEF HeapInv
<1>5. CASE FreeMerge
  <2>1. Coalesce(p, top) /\ UNCHANGED fastbins
    BY <1>2, <1>5, <1>p DEF FreeMerge
  <2>2. (Return /\ UNCHANGED have_fast) \/ (FreesMore /\ have_fast' = FALSE)
    BY <1>5 DEF FreeMerge, FreesMore, FreesTo
  <2>3. Continues /\ have_fast' \in BOOLEAN
    BY <1>0, <2>2, FreeReturns, FreeGoesOn DEF OtherTypes
  <2>F. PICK F : F = Fast
    OBVIOUS
  <2>L. PICK L : L = Live
    OBVIOUS
  <2>B. PICK B : B = Binned
    OBVIOUS
  <2>4. Coalesced(F, L, p)
    <3>1. Fine(bins, md, binmap, B)
      BY <1>0, <1>1, <2>B DEF Fine, OtherTypes
    <3>2. Heap(md, top, seams, owned, B, F, L) /\ last_remainder \in Int /\ p \in L
      BY <1>0, <1>1, <1>2, <2>B, <2>F, <2>L DEF OtherTypes
    <3> QED BY <3>1, <3>2, <2>1, CoalesceHeap
  <2>5. /\ L \ {p} = Live \ {op.p} /\ Lists(fastbins', Smalls)
        /\ Members(fastbins', Smalls) = F /\ SizedLists(fastbins', md)
    BY <1>1, <1>p, <2>1, <2>F, <2>L
  <2>6. UNCHANGED <<binmap, system, client>>
    BY <1>3
  <2> QED BY <1>0, <2>3, <2>4, <2>5, <2>6, CoalescesOn
<1> QED BY <1>3, <1>4, <1>5

(***************************************************************************)
(* realloc and memalign                                                    *)
(***************************************************************************)
\* p has kept its first nb units; r is the rest, if that makes a chunk.
KeptFirst(m, B, F, L, p, nb, R) ==
    /\ Heap(md', top, seams, owned, B, F, L \cup R) /\ SameEnd(m, top, md', top)
    /\ md'[p].size >= nb /\ \A x \in DOMAIN m \ {p} : md'[x].size = m[x].size
    /\ R \cap DOMAIN m = {}

\* the two ways in which KeepFirst goes on
KeepsAll(p) == op' = [op EXCEPT !.at = "done", !.v = p]
FreesRest(p, r) == op' = [FreeThen(r, "done") EXCEPT !.v = p]

LEMMA KeepsFirst ==
    ASSUME NEW m, NEW B, NEW F, NEW L, NEW X, HeapBut(m, top, seams, owned, B, F, L, X),
           NEW p \in L, X \subseteq {m[p].md_next}, NEW nb \in Nat, nb >= 2, m[p].size >= nb,
           KeepFirst(m, p, nb)
    PROVE  \/ KeptFirst(m, B, F, L, p, nb, {}) /\ KeepsAll(p)
           \/ \E r \in Nat : KeptFirst(m, B, F, L, p, nb, {r}) /\ FreesRest(p, r)
<1>0. /\ p \in ChunksOf(m) /\ p # top /\ p \in DOMAIN m /\ p \in Nat /\ m[p].size \in Nat
      /\ Geo(m, top, seams, owned) /\ top # InitialTop /\ top \in ChunksOf(m)
  <2>1. p \in B \cup F \cup L
    OBVIOUS
  <2> QED BY <2>1, Proper
<1>1. CASE m[p].size - nb < MINSIZE
  <2>z. PICK z : z = md'
    OBVIOUS
  <2>1. z = SetInuse(m, p) /\ KeepsAll(p)
    BY <1>1, <2>z DEF KeepFirst, KeepsAll
  <2>2. Heap(z, top, seams, owned, B, F, L) /\ DOMAIN z = DOMAIN m /\ SameSizes(m, z, {})
    BY <2>1, MarkHeap
  <2>3. \A x \in DOMAIN m : z[x].size = m[x].size
    BY <2>2 DEF SameSizes
  <2>4. SameEnd(m, top, z, top)
    BY <1>0, <2>2, <2>3, FewerChunks DEF ChunksOf
  <2>5. L \cup {} = L
    OBVIOUS
  <2>6. z[p].size >= nb
    BY <1>0, <2>3
  <2> QED BY <2>1, <2>2, <2>3, <2>4, <2>5, <2>6, <2>z DEF KeptFirst
<1>2. CASE ~(m[p].size - nb < MINSIZE)
  <2>z. PICK z : z = md'
    OBVIOUS
  <2>r. PICK r : r = p + nb
    OBVIOUS
  <2>1. z = SetInuse(Carve(m, p, nb), r) /\ FreesRest(p, r)
    BY <1>2, <2>z, <2>r DEF KeepFirst, FreesRest
  <2>2. r \in Nat /\ nb >= MINSIZE /\ m[p].size >= nb + MINSIZE /\ nb < m[p].size
    BY <1>0, <1>2, <2>r, Constants
  <2>3. Heap(z, top, seams, owned, B, F, L \cup {r}) /\ Cut(m, p, nb, z)
    BY <2>1, <2>2, <2>r, CarveMark
  <2>4. SameEnd(m, top, z, top)
    BY <1>0, <2>2, <2>3, CutEnd
  <2>5. r \notin DOMAIN m /\ z[p].size = nb /\ \A x \in DOMAIN m \ {p} : z[x].size = m[x].size
    BY <2>3, <2>r DEF Cut, SameSizes
  <2>6. KeptFirst(m, B, F, L, p, nb, {r})
    BY <2>3, <2>4, <2>5, <2>z DEF KeptFirst
  <2> QED BY <2>1, <2>2, <2>6
<1> QED BY <1>1, <1>2

LEMMA KeepsAllOn ==
    ASSUME HeapInv, op.at \in {"got", "realloc"}, NEW p \in DOMAIN held, op.want \in Requests,
           UNCHANGED client, KeepsAll(p), md'[p].size >= op.want,
           \A x \in DOMAIN held \ {p} : md'[x].size = md[x].size
    PROVE  CallInv' /\ Live' = DOMAIN held
<1>1. /\ entering = {} /\ retrying = {} /\ op \in OpType
      /\ Live = DOMAIN held \cup ({op.v, op.p} \ {NULL})
  BY Busy DEF HeapInv, At
<1>2. OpKnown(op, DOMAIN held, top) /\ Fits(op, md, held) /\ LayoutInv
  BY DEF HeapInv, CallInv
<1>3. entering' = {} /\ retrying' = {} /\ held' = held
  BY <1>1 DEF client
<1>4. op.p = NULL /\ op.v \notin DOMAIN held
  <2>1. NULL \notin Live
    BY <1>2, LiveChunks
  <2> QED BY <2>1, <1>1, <1>2 DEF OpKnown, Dest, Freeing
<1>5. p \in Int /\ p # NULL
  <2>1. p \in Live
    BY <1>1
  <2> QED BY <2>1, <1>2, LiveChunks
<1>6. \A q \in DOMAIN held : held[q] \in Requests /\ (q # p => held[q] <= md'[q].size)
  BY <1>2, <1>4 DEF Fits
<1>7. /\ op' \in OpType /\ op'.at = "done" /\ op'.v = p /\ op'.p = NULL /\ op'.want = op.want
  <2>1. op' = [op EXCEPT !.at = "done", !.v = p]
    BY DEF KeepsAll
  <2> QED BY <2>1, <1>1, <1>4, <1>5 DEF OpType, Points
<1>8. Live' = DOMAIN held
  BY <1>3, <1>5, <1>7 DEF Live
<1>9. OpKnown(op', DOMAIN held, top')
  BY <1>7 DEF OpKnown, Dest, Freeing, Mallocing
<1>10. Fits(op', md', held)
  BY <1>6, <1>7 DEF Fits, Dest, Freeing
<1>11. Clients(entering', retrying', DOMAIN held, top', op')
  BY <1>3, FS_EmptySet DEF Clients
<1> QED BY <1>3, <1>7, <1>8, <1>9, <1>10, <1>11 DEF CallInv

\* The call that keeps p and frees what R has
KeepsAs(p, R) == (R = {} /\ KeepsAll(p)) \/ \E r \in Nat : R = {r} /\ FreesRest(p, r)

LEMMA KeepsOn ==
    ASSUME HeapInv, op.at \in {"got", "realloc"}, NEW p \in DOMAIN held, op.want \in Requests,
           UNCHANGED client, UNCHANGED top, NEW R, KeepsAs(p, R), R \cap DOMAIN held = {},
           md'[p].size >= op.want, \A x \in DOMAIN held \ {p} : md'[x].size = md[x].size
    PROVE  CallInv' /\ Live' = DOMAIN held \cup R
<1>1. /\ entering = {} /\ retrying = {} /\ op \in OpType
      /\ Live = DOMAIN held \cup ({op.v, op.p} \ {NULL})
  BY Busy DEF HeapInv, At
<1>2. OpKnown(op, DOMAIN held, top) /\ Fits(op, md, held) /\ LayoutInv
  BY DEF HeapInv, CallInv
<1>3. entering' = {} /\ retrying' = {} /\ held' = held
  BY <1>1 DEF client
<1>4. op.p = NULL /\ op.v \notin DOMAIN held
  <2>1. NULL \notin Live
    BY <1>2, LiveChunks
  <2> QED BY <2>1, <1>1, <1>2 DEF OpKnown, Dest, Freeing
<1>5. p \in Live /\ p \in Int /\ p # NULL /\ top \in Int
  <2>1. p \in Live
    BY <1>1
  <2> QED BY <2>1, <1>2, LiveChunks, TopIs
<1>6. \A q \in DOMAIN held : held[q] \in Requests /\ (q # p => held[q] <= md'[q].size)
  BY <1>2, <1>4 DEF Fits
<1>y. PICK y \in Int : y = NULL
  BY Constants
<1>7. CASE R = {} /\ KeepsAll(p)
  BY <1>7, KeepsAllOn
<1>8. ASSUME NEW r \in Nat, R = {r} /\ FreesRest(p, r)
      PROVE  CallInv' /\ Live' = DOMAIN held \cup R
  <2>1. /\ op' \in OpType /\ op'.at = "free" /\ op'.v = p /\ op'.p = r /\ op'.want = op.want
        /\ op'.tc = top /\ op'.then = "done"
    <3>1. PICK a : a = [op EXCEPT !.at = "free", !.p = r, !.tc = top, !.then = "done"]
      OBVIOUS
    <3>2. op' = [a EXCEPT !.v = p]
      BY <1>8, <3>1 DEF FreesRest, FreeThen
    <3>r. r \in Int
      OBVIOUS
    <3>3. /\ a \in OpType /\ a.at = "free" /\ a.p = r /\ a.tc = top /\ a.then = "done"
          /\ a.want = op.want
      BY <3>1, <3>r, <1>1, <1>5 DEF OpType, Points
    <3> QED BY <3>2, <3>3, <1>5 DEF OpType
  <2>2. r # NULL /\ r \notin DOMAIN held /\ r # p
    BY <1>8, Constants
  <2>3. Live' = DOMAIN held \cup R
    BY <2>1, <2>2, <1>3, <1>5, <1>8 DEF Live
  <2>4. OpKnown(op', DOMAIN held, top')
    BY <2>1, <2>2 DEF OpKnown, Dest, Freeing, Mallocing
  <2>5. Fits(op', md', held)
    BY <2>1, <1>6 DEF Fits, Dest, Freeing
  <2>6. Clients(entering', retrying', DOMAIN held, top', op')
    BY <1>3, FS_EmptySet DEF Clients
  <2> QED BY <2>1, <2>3, <2>4, <2>5, <2>6, <1>3 DEF CallInv
<1> QED BY <1>7, <1>8 DEF KeepsAs

LEMMA KeepsFirstInv ==
    ASSUME HeapInv, op.at \in {"got", "realloc"}, NEW p \in DOMAIN held,
           NEW nb, nb = op.want, nb \in Requests,
           NEW m, NEW B, NEW X, HeapBut(m, top, seams, owned, B, Fast, DOMAIN held, X),
           X \subseteq {m[p].md_next}, m[p].size >= nb, KeepFirst(m, p, nb),
           SameEnd(md, top, m, top),
           \A x \in (B \cup Fast \cup DOMAIN held) \ {p} : m[x].size = md[x].size,
           Fine(bins', md, binmap, B), UNCHANGED <<binmap, fastbins, have_fast, top, system, client>>,
           last_remainder' \in Int
    PROVE  HeapInv'
<1>H. PICK H : H = DOMAIN held
  OBVIOUS
<1>F. PICK F : F = Fast
  OBVIOUS
<1>0. LayoutInv /\ MemoryInv /\ OtherTypes
  BY DEF HeapInv
<1>1. /\ Lists(fastbins, Smalls) /\ SizedLists(fastbins, md) /\ Fast = Members(fastbins, Smalls)
  BY <1>0, HeapIs
<1>2. /\ UNCHANGED fastbins /\ UNCHANGED binmap /\ UNCHANGED have_fast /\ top' = top
      /\ UNCHANGED system /\ UNCHANGED client
  OBVIOUS
<1>3. HeapBut(m, top, seams, owned, B, F, H, X) /\ p \in H /\ nb \in Nat /\ nb >= 2
  BY <1>H, <1>F, Constants
<1>4. /\ B \cup F \cup H \subseteq DOMAIN m /\ p \notin B \cup F
  BY <1>3 DEF HeapBut, Places, ChunksOf
<1>5. PICK R : KeptFirst(m, B, F, H, p, nb, R) /\ KeepsAs(p, R)
  <2>1. \/ KeptFirst(m, B, F, H, p, nb, {}) /\ KeepsAll(p)
        \/ \E r \in Nat : KeptFirst(m, B, F, H, p, nb, {r}) /\ FreesRest(p, r)
    BY <1>3, KeepsFirst
  <2> QED BY <2>1 DEF KeepsAs
<1>6. /\ Heap(md', top, seams, owned, B, F, H \cup R) /\ SameEnd(m, top, md', top)
      /\ md'[p].size >= nb /\ \A x \in DOMAIN m \ {p} : md'[x].size = m[x].size
      /\ R \cap DOMAIN m = {}
  BY <1>5 DEF KeptFirst
<1>7. \A x \in (B \cup F \cup H) \ {p} : md'[x].size = md[x].size
  BY <1>4, <1>6, <1>F, <1>H
<1>8. CallInv' /\ Live' = H \cup R
  <2>1. R \cap DOMAIN held = {} /\ \A x \in DOMAIN held \ {p} : md'[x].size = md[x].size
    BY <1>4, <1>6, <1>7, <1>H
  <2>2. md'[p].size >= op.want
    BY <1>6
  <2>3. CallInv' /\ Live' = DOMAIN held \cup R
    BY <2>1, <2>2, <1>2, <1>5, KeepsOn
  <2> QED BY <2>3, <1>H
<1>K. PICK K : K = H \cup R
  OBVIOUS
<1>9. LayoutInv'
  <2>1. Heap(md', top', seams', owned', B, F, K) /\ Live' = K
    BY <1>2, <1>6, <1>8, <1>K DEF system
  <2>2. Fine(bins', md', binmap, B)
    <3>1. \A x \in B : md'[x].size = md[x].size
      BY <1>4, <1>7
    <3>2. PICK b : b = bins'
      OBVIOUS
    <3>3. PICK z : z = md'
      OBVIOUS
    <3>4. Fine(b, z, binmap, B)
      BY <3>1, <3>2, <3>3, FineSame
    <3> QED BY <3>2, <3>3, <3>4
  <2>3. /\ Lists(bins', BinIdx) /\ Members(bins', BinIdx) = B /\ Sorted(bins', md')
    BY <2>2 DEF Fine
  <2>4. SizedLists(fastbins', md')
    <3>1. \A x \in Members(fastbins, Smalls) : md'[x].size = md[x].size
      BY <1>1, <1>4, <1>7, <1>F
    <3> QED BY <3>1, <1>1, <1>2, SizedSame
  <2>5. Lists(fastbins', Smalls) /\ Members(fastbins', Smalls) = F
    BY <1>1, <1>2, <1>F
  <2> QED BY <2>1, <2>3, <2>4, <2>5, LayoutAgain
<1>10. MemoryInv'
  <2>1. SameEnd(md, top, md', top')
    BY <1>2, <1>6, SameEndTwice
  <2> QED BY <2>1, <1>0, <1>2, MemoryKept
<1>11. OtherTypes'
  BY <1>0, <1>2 DEF OtherTypes, Fine
<1> QED BY <1>8, <1>9, <1>10, <1>11 DEF HeapInv

\* p takes in the chunk n behind it before it is cut to size.
LEMMA GrowsInv ==
    ASSUME HeapInv, op.at \in {"got", "realloc"}, NEW p \in DOMAIN held,
           NEW nb, nb = op.want, nb \in Requests, NEW n \in Binned \cup Live, n = md[p].md_next,
           Live \ {n} = DOMAIN held, md[p].size + md[n].size >= nb,
           KeepFirst(Extended(p, n), p, nb), Fine(bins', md, binmap, Binned \ {n}),
           UNCHANGED <<binmap, fastbins, have_fast, top, system, client>>,
           last_remainder' \in Int
    PROVE  HeapInv'
<1>m. PICK m : m = Extended(p, n)
  OBVIOUS
<1>g. m = Grown(md, p, n)
  BY <1>m DEF Extended, Grown
<1>0. LayoutInv
  BY DEF HeapInv
<1>1. Heap(md, top, seams, owned, Binned, Fast, Live)
  BY <1>0, HeapIs
<1>2. /\ p \in Live /\ p # n /\ p \in DOMAIN md /\ p # top /\ top # InitialTop
      /\ top \in DOMAIN md /\ n # top
  <2>1. p \in Live
    OBVIOUS
  <2>2. p # n /\ p \in DOMAIN md /\ p # top /\ top # InitialTop
    BY <1>0, <2>1, LiveChunks
  <2>3. n # top /\ top \in DOMAIN md
    BY <1>0, TopIs
  <2> QED BY <2>1, <2>2, <2>3
<1>B. PICK B : B = Binned
  OBVIOUS
<1>F. PICK F : F = Fast
  OBVIOUS
<1>L. PICK L : L = Live
  OBVIOUS
<1>3. /\ HeapBut(m, top, seams, owned, B \ {n}, F, L \ {n}, {m[p].md_next})
      /\ Merged(md, p, n, m)
  <2>1. Heap(md, top, seams, owned, B, F, L) /\ p \in L /\ n \in B \cup L
    BY <1>1, <1>2, <1>B, <1>F, <1>L
  <2>2. n = md[p].md_next /\ m = Grown(md, p, n)
    BY <1>g
  <2> QED BY ONLY <2>1, <2>2, GrowHeap
<1>X. PICK X : X = {m[p].md_next}
  OBVIOUS
<1>C. PICK C : C = B \ {n}
  OBVIOUS
<1>4. HeapBut(m, top, seams, owned, C, Fast, DOMAIN held, X)
  BY <1>3, <1>X, <1>C, <1>F, <1>L
<1>5. /\ DOMAIN m = DOMAIN md \ {n} /\ m[p].size = md[p].size + md[n].size
      /\ \A x \in DOMAIN md \ {n, p} : m[x].size = md[x].size
  BY <1>3 DEF Merged
<1>6. SameEnd(md, top, m, top)
  BY <1>2, <1>5, FewerChunks
<1>7. \A x \in (C \cup Fast \cup DOMAIN held) \ {p} : m[x].size = md[x].size
  <2>1. C \cup Fast \cup DOMAIN held \subseteq DOMAIN md \ {n}
    BY <1>4, <1>5 DEF HeapBut, Places, ChunksOf
  <2> QED BY <2>1, <1>5
<1>8. Fine(bins', md, binmap, C) /\ m[p].size >= nb /\ KeepFirst(m, p, nb)
      /\ X \subseteq {m[p].md_next}
  BY <1>5, <1>m, <1>B, <1>C, <1>X
<1> QED BY <1>4, <1>6, <1>7, <1>8, KeepsFirstInv

LEMMA GotReallocNextInv == ASSUME HeapInv, GotReallocNext PROVE HeapInv'
<1>p. PICK p : p = op.blk
  OBVIOUS
<1>n. PICK n : n = op.v
  OBVIOUS
<1>0. LayoutInv /\ OtherTypes /\ At("got") /\ op.v # NULL /\ op.call = "realloc" /\ op.at = "got"
  BY DEF HeapInv, GotReallocNext, At
<1>1. /\ Live = DOMAIN held \cup {n} /\ n \notin DOMAIN held /\ n \in Live
      /\ md[n].size >= op.nb /\ Asks(op, DOMAIN held)
  BY <1>0, <1>n, GotKnown
<1>2. p \in DOMAIN held /\ op.want \in Requests /\ op.nb = op.want
  BY <1>0, <1>1, <1>p DEF Asks
<1>3. /\ n = md[p].md_next /\ last_remainder' = Forget({n})
      /\ KeepFirst(Extended(p, n), p, op.want)
      /\ UNCHANGED bins /\ UNCHANGED <<binmap, fastbins, have_fast, top, system, client>>
  BY <1>p, <1>n DEF GotReallocNext
<1>4. last_remainder' \in Int
  BY <1>0, <1>3, Constants DEF Forget, OtherTypes
<1>5. md[p].size + md[n].size >= op.want
  <2>1. p \in Live /\ n \in Live
    BY <1>1, <1>2
  <2>2. md[p].size \in Nat /\ md[n].size \in Nat /\ op.want \in Nat
    BY <2>1, <1>0, <1>2, LiveChunks, Constants
  <2> QED BY <2>2, <1>1, <1>2
<1>B. PICK B : B = Binned
  OBVIOUS
<1>6. Fine(bins', md, binmap, B \ {n})
  <2>1. /\ Lists(bins, BinIdx) /\ Sorted(bins, md) /\ B = Members(bins, BinIdx)
    BY <1>0, <1>B, HeapIs
  <2>2. B \ {n} = B
    BY <1>0, <1>1, <1>B, LiveChunks
  <2>3. Fine(bins, md, binmap, B)
    BY <2>1, <1>0 DEF Fine, OtherTypes
  <2> QED BY <2>2, <2>3, <1>3
<1>7. Live \ {n} = DOMAIN held
  BY <1>1
<1> QED BY <1>0, <1>1, <1>2, <1>3, <1>4, <1>5, <1>6, <1>7, <1>B, GrowsInv

\* What the invariant says of the block that realloc works on.
LEMMA ReallocKnown ==
    ASSUME HeapInv, At("realloc")
    PROVE  /\ entering = {} /\ retrying = {} /\ op \in OpType /\ op.v = NULL /\ op.p = NULL
           /\ Live = DOMAIN held /\ op.blk \in DOMAIN held /\ op.blk \in Live
           /\ op.want \in Requests /\ op.nb = op.want /\ op.nb \in Nat /\ op.nb >= 2
           /\ op.call = "realloc" /\ Asks(op, DOMAIN held)
<1>1. /\ entering = {} /\ retrying = {} /\ op \in OpType
      /\ Live = DOMAIN held \cup ({op.v, op.p} \ {NULL})
  BY Busy DEF HeapInv, At
<1>2. OpKnown(op, DOMAIN held, top) /\ op.at = "realloc"
  BY DEF HeapInv, CallInv, At
<1>3. Dest(op) = "realloc"
  BY <1>2 DEF Dest, Freeing
<1>4. op.v = NULL /\ op.p = NULL /\ op.call = "realloc" /\ Asks(op, DOMAIN held)
  BY <1>2, <1>3 DEF OpKnown
<1>5. op.blk \in DOMAIN held /\ op.want \in Requests /\ op.nb = op.want
  BY <1>4 DEF Asks
<1>6. op.nb \in Nat /\ op.nb >= 2
  BY <1>5, Constants
<1> QED BY <1>1, <1>4, <1>5, <1>6

\* The error checks of _int_realloc pass.
LEMMA ReallocPasses ==
    ASSUME HeapInv, At("realloc")
    PROVE  ~ReallocAborts
<1>p. PICK p : p = op.blk
  OBVIOUS
<1>n. PICK n : n = md[p].md_next
  OBVIOUS
<1>0. LayoutInv /\ MemoryInv
  BY DEF HeapInv
<1>2. p \in Live
  BY <1>p, ReallocKnown
<1>3. /\ p \in ChunksOf(md) /\ p # top /\ p \in DOMAIN md /\ md[p].size \in Nat
      /\ md[p].size >= 2 /\ top # InitialTop /\ n \in ChunksOf(md) /\ n # p
  BY <1>0, <1>2, <1>n, LiveChunks
<1>4. Heap(md, top, seams, owned, Binned, Fast, Live) /\ Geo(md, top, seams, owned)
  BY <1>0, HeapIs
<1>5. n \in DOMAIN md /\ md[n].prev_inuse /\ md[n].size \in Nat /\ md[n].size >= 1
  <2>B. PICK B : B = Binned
    OBVIOUS
  <2>1. Borders(md, top, B, p, n)
    BY <1>2, <1>4, <1>n, <2>B, BordersOf
  <2> QED BY <2>1 DEF Borders
<1>6. ~BadSize(n)
  BY <1>5 DEF BadSize
<1>7. ~(md[p].size >= system_mem) /\ ~(md[n].size >= system_mem) /\ md[p].size # 0
  <2>1. IsFiniteSet(owned) /\ Cardinality(owned) <= system_mem /\ system_mem \in Nat
    BY <1>0 DEF MemoryInv, Within
  <2>2. md[p].size + md[n].size <= Cardinality(owned) /\ Cardinality(owned) \in Nat
    BY <2>1, <1>3, <1>4, TwoFit
  <2> QED BY <2>1, <2>2, <1>3, <1>5
<1> QED BY <1>3, <1>5, <1>6, <1>7, <1>p, <1>n, Zenon DEF ReallocAborts

\* The block is large enough already.
LEMMA ReallocFitsInv ==
    ASSUME HeapInv, At("realloc"), NEW p, p = op.blk, md[p].size >= op.nb,
           KeepFirst(md, p, op.nb),
           UNCHANGED <<bins, top, last_remainder, binmap, fastbins, have_fast, system, client>>
    PROVE  HeapInv'
<1>nb. PICK nb : nb = op.nb
  OBVIOUS
<1>0. LayoutInv /\ OtherTypes /\ op.at \in {"got", "realloc"}
  BY DEF HeapInv, At
<1>1. p \in DOMAIN held /\ nb = op.want /\ nb \in Requests /\ Live = DOMAIN held
  BY <1>nb, ReallocKnown
<1>B. PICK B : B = Binned
  OBVIOUS
<1>X. PICK X : X = {}
  OBVIOUS
<1>m. PICK m : m = md
  OBVIOUS
<1>2. HeapBut(m, top, seams, owned, B, Fast, DOMAIN held, X)
  BY <1>0, <1>1, <1>B, <1>X, <1>m, HeapIs DEF Heap
<1>3. Fine(bins', md, binmap, B)
  <2>1. /\ Lists(bins, BinIdx) /\ Sorted(bins, md) /\ B = Members(bins, BinIdx)
    BY <1>0, <1>B, HeapIs
  <2>2. Fine(bins, md, binmap, B)
    BY <2>1, <1>0 DEF Fine, OtherTypes
  <2> QED BY <2>2
<1>4. SameEnd(md, top, m, top)
  <2>1. top # InitialTop
    BY <1>0, <1>1, LiveChunks
  <2> QED BY <2>1, <1>m, SameEndStill
<1>5. /\ X \subseteq {m[p].md_next} /\ m[p].size >= nb /\ KeepFirst(m, p, nb)
      /\ \A x \in (B \cup Fast \cup DOMAIN held) \ {p} : m[x].size = md[x].size
  BY <1>X, <1>m, <1>nb
<1>6. last_remainder' \in Int /\ UNCHANGED <<binmap, fastbins, have_fast, top, system, client>>
  BY <1>0 DEF OtherTypes
<1> QED BY <1>0, <1>1, <1>2, <1>3, <1>4, <1>5, <1>6, KeepsFirstInv

\* The block takes in the free chunk behind it.
LEMMA ReallocNextInv ==
    ASSUME HeapInv, At("realloc"), NEW p, p = op.blk, NEW next, next = md[p].md_next,
           next # top, ~Inuse(md, next), md[p].size + md[next].size >= op.nb,
           GrowIntoNext(p, next), UNCHANGED <<binmap, fastbins, have_fast, system, client>>
    PROVE  HeapInv'
<1>nb. PICK nb : nb = op.nb
  OBVIOUS
<1>0. LayoutInv /\ OtherTypes /\ op.at \in {"got", "realloc"}
  BY DEF HeapInv, At
<1>1. p \in DOMAIN held /\ nb = op.want /\ nb \in Requests /\ Live = DOMAIN held /\ p \in Live
  BY <1>nb, ReallocKnown
<1>B. PICK B : B = Binned
  OBVIOUS
<1>2. next \in B
  <2>1. Heap(md, top, seams, owned, B, Fast, Live)
    BY <1>0, <1>B, HeapIs
  <2>2. Borders(md, top, B, p, next)
    BY <2>1, <1>1, BordersOf
  <2> QED BY <2>2 DEF Borders
<1>3. Live \ {next} = DOMAIN held
  BY <1>0, <1>1, <1>2, <1>B, ListedChunks
<1>4. /\ bins' = Unlink(bins, next) /\ last_remainder' = Forget({next})
      /\ KeepFirst(Extended(p, next), p, nb) /\ top' = top
  BY <1>nb DEF GrowIntoNext
<1>5. Fine(bins', md, binmap, B \ {next})
  <2>c. PICK c : c = bins'
    OBVIOUS
  <2>1. /\ Lists(bins, BinIdx) /\ Sorted(bins, md) /\ B = Members(bins, BinIdx)
    BY <1>0, <1>B, HeapIs
  <2>2. Fine(bins, md, binmap, B)
    BY <2>1, <1>0 DEF Fine, OtherTypes
  <2>3. c = Unlink(bins, next)
    BY <2>c, <1>4
  <2>4. Fine(c, md, binmap, B \ {next})
    BY <2>2, <2>3, <1>2, UnlinkFine
  <2> QED BY <2>4, <2>c
<1>6. last_remainder' \in Int
  BY <1>0, <1>4, Constants DEF Forget, OtherTypes
<1>7. md[p].size + md[next].size >= nb /\ next \in Binned \cup Live
      /\ UNCHANGED <<binmap, fastbins, have_fast, top, system, client>>
  BY <1>2, <1>4, <1>nb, <1>B
<1> QED BY <1>0, <1>1, <1>3, <1>4, <1>5, <1>6, <1>7, <1>B, GrowsInv

\* The block takes in the first units of the top chunk behind it.
LEMMA ExtendsEnd ==
    ASSUME NEW m, NEW t, NEW sm, NEW own, Geo(m, t, sm, own), NEW p \in ChunksOf(m), p # t,
           p \notin sm, m[p].md_next = t, NEW nb \in Nat, nb <= m[p].size + m[t].size,
           NEW z, Extends(m, p, t, nb, z)
    PROVE  SameEnd(m, t, z, p + nb)
<1>1. p \in Nat /\ m[p].size \in Nat /\ t # InitialTop /\ t \in ChunksOf(m)
  BY OneChunk
<1>2. t \in Nat /\ m[t].size \in Nat
  BY <1>1, OneChunk
<1>3. t = p + m[p].size
  BY DEF Geo, Links
<1>4. /\ z[p + nb].size = m[p].size + m[t].size - nb
      /\ DOMAIN z = (DOMAIN m \ {t}) \cup {p + nb}
      /\ p + nb \in Nat
  BY DEF Extends
<1>5. (p + nb) + z[p + nb].size = t + m[t].size
  BY <1>1, <1>2, <1>3, <1>4
<1>6. ASSUME \A c \in ChunksOf(m) : c <= t, NEW c \in ChunksOf(z)
      PROVE  c <= p + nb
  <2>1. CASE c = p + nb
    BY <2>1, <1>4
  <2>2. CASE c # p + nb
    <3>1. c \in ChunksOf(m) /\ c # t
      BY <2>2, <1>4 DEF ChunksOf
    <3>2. c \in Nat /\ m[c].size \in Nat /\ m[c].size >= 1
      BY <3>1, OneChunk
    <3>3. c <= t
      BY <3>1, <1>6
    <3>4. c # p => c + m[c].size <= p \/ p + m[p].size <= c
      BY <3>1 DEF Geo, Apart
    <3> QED BY <3>1, <3>2, <3>3, <3>4, <1>1, <1>2, <1>3
  <2> QED BY <2>1, <2>2
<1>7. p + nb # InitialTop
  BY <1>4, Distinct
<1> QED BY <1>1, <1>5, <1>6, <1>7 DEF SameEnd

LEMMA ReallocTopInv ==
    ASSUME HeapInv, At("realloc"), NEW p, p = op.blk, md[p].md_next = top,
           op.nb > md[p].size, md[p].size + md[top].size >= op.nb + MINSIZE,
           GrowIntoTop(p),
           UNCHANGED <<binmap, fastbins, have_fast, system, client>>
    PROVE  HeapInv'
<1>nb. PICK nb : nb = op.nb
  OBVIOUS
<1>t. PICK t : t = top
  OBVIOUS
<1>0. LayoutInv /\ OtherTypes /\ MemoryInv /\ op.at \in {"got", "realloc"}
  BY DEF HeapInv, At
<1>1. /\ p \in DOMAIN held /\ nb = op.want /\ nb \in Requests /\ Live = DOMAIN held
      /\ p \in Live /\ nb \in Nat
  BY <1>nb, ReallocKnown
<1>2. /\ p \in ChunksOf(md) /\ p # t /\ p \notin seams /\ p \in Nat /\ md[p].size \in Nat
      /\ t # InitialTop
  BY <1>0, <1>1, <1>t, LiveChunks
<1>3. t \in Nat /\ md[t].size \in Nat /\ t \notin Live /\ t \notin Binned /\ t \notin Fast
  BY <1>0, <1>2, <1>t, TopIs
<1>4. /\ Heap(md, t, seams, owned, Binned, Fast, Live) /\ Geo(md, t, seams, owned)
      /\ Lists(bins, BinIdx) /\ Lists(fastbins, Smalls)
      /\ SizedLists(fastbins, md) /\ Sorted(bins, md)
      /\ Binned = Members(bins, BinIdx) /\ Fast = Members(fastbins, Smalls)
  BY <1>0, <1>t, HeapIs
<1>B. PICK B : B = Binned
  OBVIOUS
<1>F. PICK F : F = Fast
  OBVIOUS
<1>L. PICK L : L = Live
  OBVIOUS
<1>z. PICK z : z = md'
  OBVIOUS
<1>5. /\ md' = ToppedUp(md, p, t, nb) /\ top' = p + nb /\ last_remainder' = Forget({t})
      /\ KeepsAll(p) /\ bins' = bins
  BY <1>nb, <1>t DEF GrowIntoTop, KeepsAll
<1>6. Heap(z, p + nb, seams, owned, B, F, L) /\ Extends(md, p, t, nb, z)
  <2>1. /\ Heap(md, t, seams, owned, B, F, L) /\ p \in L /\ md[p].md_next = t
        /\ nb \in Nat /\ nb > md[p].size /\ md[p].size + md[t].size >= nb + MINSIZE
    BY <1>1, <1>4, <1>B, <1>F, <1>L, <1>nb, <1>t
  <2>2. z = ToppedUp(md, p, t, nb)
    BY <1>5, <1>z
  <2> QED BY <2>1, <2>2, ToppedUpHeap
<1>7. SameEnd(md, top, md', top')
  <2>1. nb <= md[p].size + md[t].size /\ md[p].md_next = t
    BY <1>1, <1>2, <1>3, <1>nb, <1>t, Constants
  <2>2. SameEnd(md, t, z, p + nb)
    BY <2>1, <1>1, <1>2, <1>4, <1>6, ExtendsEnd
  <2> QED BY <2>2, <1>5, <1>t, <1>z
<1>8. /\ md'[p].size = nb /\ \A x \in DOMAIN md \ {t, p} : md'[x].size = md[x].size
  BY <1>6, <1>z DEF Extends
<1>9. B \cup F \cup L \subseteq DOMAIN md \ {t} /\ p \notin B \cup F
  <2>1. Binned \cup Fast \cup Live \subseteq DOMAIN md
    BY <1>0, ListedChunks, LiveChunks
  <2>2. p \notin Binned \cup Fast
    BY <1>0, <1>1, LiveChunks
  <2> QED BY <2>1, <2>2, <1>3, <1>B, <1>F, <1>L
<1>10. CallInv' /\ Live' = L
  <2>1. \A x \in DOMAIN held \ {p} : md'[x].size = md[x].size
    BY <1>1, <1>8, <1>9, <1>L
  <2>2. md'[p].size >= op.want
    BY <1>1, <1>8
  <2>3. UNCHANGED client
    OBVIOUS
  <2>4. op.want \in Requests
    BY <1>1
  <2>5. CallInv' /\ Live' = DOMAIN held
    BY <2>1, <2>2, <2>3, <2>4, <1>0, <1>1, <1>5, KeepsAllOn
  <2> QED BY <2>5, <1>1, <1>L
<1>11. Sorted(bins', md') /\ SizedLists(fastbins', md')
  <2>1. \A x \in Members(bins, BinIdx) : md'[x].size = md[x].size
    BY <1>4, <1>8, <1>9, <1>B
  <2>2. \A x \in Members(fastbins, Smalls) : md'[x].size = md[x].size
    BY <1>4, <1>8, <1>9, <1>F
  <2>3. Sorted(bins, md') /\ SizedLists(fastbins, md')
    BY <2>1, <2>2, <1>4, SortedSame, SizedSame
  <2> QED BY <2>3, <1>5
<1>12. LayoutInv'
  <2>1. Heap(md', top', seams', owned', B, F, L)
    BY <1>5, <1>6, <1>z DEF system
  <2>2. /\ Lists(bins', BinIdx) /\ Members(bins', BinIdx) = B
        /\ Lists(fastbins', Smalls) /\ Members(fastbins', Smalls) = F
    BY <1>4, <1>5, <1>B, <1>F
  <2> QED BY <2>1, <2>2, <1>10, <1>11, LayoutAgain
<1>13. MemoryInv'
  BY <1>0, <1>7, MemoryKept
<1>14. OtherTypes'
  <2>1. last_remainder' \in Int
    BY <1>0, <1>5, Constants DEF Forget, OtherTypes
  <2> QED BY <2>1, <1>0, <1>5 DEF OtherTypes
<1> QED BY <1>10, <1>12, <1>13, <1>14 DEF HeapInv

LEMMA ReallocInv == ASSUME HeapInv, Realloc PROVE HeapInv'
<1>p. PICK p : p = op.blk
  OBVIOUS
<1>n. PICK next : next = md[p].md_next
  OBVIOUS
<1>s. PICK size : size = md[p].size + md[next].size
  OBVIOUS
<1>0. At("realloc") /\ UNCHANGED <<binmap, fastbins, have_fast, system, client>>
  BY DEF Realloc
<1>1. ~ReallocAborts
  BY <1>0, ReallocPasses
<1>2. IF md[p].size >= op.nb
      THEN KeepFirst(md, p, op.nb) /\ UNCHANGED <<bins, top, last_remainder>>
      ELSE IF next = top /\ size >= op.nb + MINSIZE
      THEN GrowIntoTop(p)
      ELSE IF next # top /\ ~Inuse(md, next) /\ size >= op.nb
      THEN GrowIntoNext(p, next)
      ELSE GoTo("malloc") /\ UNCHANGED <<md, bins, top, last_remainder>>
  BY <1>1, <1>p, <1>n, <1>s DEF Realloc
<1>3. CASE md[p].size >= op.nb
  BY <1>0, <1>2, <1>3, <1>p, ReallocFitsInv
<1>4. CASE ~(md[p].size >= op.nb) /\ next = top /\ size >= op.nb + MINSIZE
  <2>1. op.nb > md[p].size
    <3>1. LayoutInv /\ p \in Live /\ op.nb \in Nat
      BY <1>0, <1>p, ReallocKnown DEF HeapInv
    <3>2. md[p].size \in Nat
      BY <3>1, LiveChunks
    <3> QED BY <3>1, <3>2, <1>4
  <2>2. /\ md[p].md_next = top /\ md[p].size + md[top].size >= op.nb + MINSIZE
        /\ GrowIntoTop(p)
    BY <1>2, <1>4, <1>n, <1>s
  <2> QED BY <2>1, <2>2, <1>0, <1>p, ReallocTopInv
<1>5. CASE /\ ~(md[p].size >= op.nb) /\ ~(next = top /\ size >= op.nb + MINSIZE)
           /\ next # top /\ ~Inuse(md, next) /\ size >= op.nb
  <2>1. GrowIntoNext(p, next)
    BY <1>2, <1>5
  <2> QED BY <2>1, <1>0, <1>5, <1>p, <1>n, <1>s, ReallocNextInv
<1>6. CASE GoTo("malloc") /\ UNCHANGED <<md, bins, top, last_remainder>>
  <2>1. /\ entering = {} /\ retrying = {} /\ op \in OpType /\ op.v = NULL /\ op.p = NULL
        /\ op.call = "realloc" /\ Asks(op, DOMAIN held)
    BY <1>0, ReallocKnown
  <2>2. op' = [op EXCEPT !.at = "malloc"]
    BY <1>6 DEF GoTo
  <2>3. /\ op' \in OpType /\ op'.at = "malloc" /\ op'.v = NULL /\ op'.p = NULL
        /\ op'.nb = op.nb /\ op'.want = op.want /\ op'.call = op.call /\ op'.blk = op.blk
        /\ op'.align = op.align
    BY <2>1, <2>2 DEF OpType, Points
  <2>4. OpKnown(op, DOMAIN held, top) /\ Fits(op, md, held) /\ OtherTypes
    BY DEF HeapInv, CallInv
  <2>5. Asks(op', DOMAIN held)
    BY <2>1, <2>3 DEF Asks
  <2>6. OpKnown(op', DOMAIN held, top)
    BY <2>3, <2>5 DEF OpKnown, Dest, Freeing, Mallocing
  <2>7. Fits(op', md, held)
    BY <2>1, <2>3, <2>4, SameFit
  <2>8. OtherTypes'
    BY <1>0, <1>6, <2>4 DEF OtherTypes
  <2> QED BY <2>1, <2>3, <2>6, <2>7, <2>8, <1>0, <1>6, MovesOn
<1> QED BY <1>2, <1>3, <1>4, <1>5, <1>6

\* A chunk in use is cut in two chunks in use.
CutOff(p, nb, r) ==
    /\ Heap(md', top, seams, owned, Binned, Fast, Live \cup {r}) /\ Cut(md, p, nb, md')
    /\ r = p + nb

LEMMA CutInv ==
    ASSUME HeapInv, NEW p \in Live, NEW nb \in Nat, nb < md[p].size, NEW r, CutOff(p, nb, r),
           CallInv', Live' = Live \cup {r},
           UNCHANGED <<bins, binmap, fastbins, have_fast, top, last_remainder, system, client>>
    PROVE  HeapInv'
<1>0. LayoutInv /\ MemoryInv /\ OtherTypes
  BY DEF HeapInv
<1>1. /\ Lists(bins, BinIdx) /\ Lists(fastbins, Smalls)
      /\ SizedLists(fastbins, md) /\ Sorted(bins, md) /\ Geo(md, top, seams, owned)
      /\ Binned = Members(bins, BinIdx) /\ Fast = Members(fastbins, Smalls)
  BY <1>0, HeapIs
<1>2. p \in ChunksOf(md) /\ p # top /\ p \notin Binned /\ p \notin Fast
  BY <1>0, LiveChunks
<1>3. \A x \in DOMAIN md \ {p} : md'[x].size = md[x].size
  BY DEF CutOff, Cut, SameSizes
<1>4. SameEnd(md, top, md', top')
  <2>z. PICK z : z = md'
    OBVIOUS
  <2>1. Cut(md, p, nb, z)
    BY <2>z DEF CutOff
  <2>2. SameEnd(md, top, z, top)
    BY <2>1, <1>1, <1>2, CutEnd
  <2> QED BY <2>2, <2>z
<1>5. Binned \cup Fast \subseteq DOMAIN md \ {p}
  BY <1>0, <1>2, ListedChunks
<1>6. Sorted(bins', md') /\ SizedLists(fastbins', md')
  <2>1. \A x \in Members(bins, BinIdx) : md'[x].size = md[x].size
    BY <1>1, <1>3, <1>5
  <2>2. \A x \in Members(fastbins, Smalls) : md'[x].size = md[x].size
    BY <1>1, <1>3, <1>5
  <2>3. Sorted(bins, md') /\ SizedLists(fastbins, md')
    BY <2>1, <2>2, <1>1, SortedSame, SizedSame
  <2> QED BY <2>3
<1>B. PICK B : B = Binned
  OBVIOUS
<1>F. PICK F : F = Fast
  OBVIOUS
<1>L. PICK L : L = Live \cup {r}
  OBVIOUS
<1>7. LayoutInv'
  <2>1. Heap(md', top', seams', owned', B, F, L) /\ Live' = L
    BY <1>B, <1>F, <1>L DEF system, CutOff
  <2>2. /\ Lists(bins', BinIdx) /\ Members(bins', BinIdx) = B
        /\ Lists(fastbins', Smalls) /\ Members(fastbins', Smalls) = F
    BY <1>1, <1>B, <1>F
  <2> QED BY <2>1, <2>2, <1>6, LayoutAgain
<1>8. MemoryInv'
  <2>1. UNCHANGED system
    OBVIOUS
  <2> QED BY <2>1, <1>0, <1>4, MemoryKept
<1>9. OtherTypes'
  BY <1>0 DEF OtherTypes
<1> QED BY <1>7, <1>8, <1>9 DEF HeapInv

\* memalign frees r, and goes on with v, or frees v and goes on with r.
FreesPart(v, r, point) == op' = [FreeThen(r, point) EXCEPT !.v = v]

LEMMA MemalignOn ==
    ASSUME HeapInv, op.at \in {"got", "memalign_tail"}, op.p = NULL, op.want \in Requests,
           NEW w \in Live, Live = DOMAIN held \cup {w}, w \notin DOMAIN held,
           NEW v \in Nat, NEW r \in Nat, v # r, NEW point \in {"memalign_tail", "done"},
           FreesPart(v, r, point), UNCHANGED client, UNCHANGED top,
           {v, r} \cap DOMAIN held = {}, md'[v].size >= op.want,
           \A q \in DOMAIN held : held[q] \in Requests /\ held[q] <= md'[q].size
    PROVE  CallInv' /\ Live' = DOMAIN held \cup {v, r}
<1>1. /\ entering = {} /\ retrying = {} /\ op \in OpType
  BY Busy DEF HeapInv, At
<1>3. entering' = {} /\ retrying' = {} /\ held' = held
  BY <1>1 DEF client
<1>4. top \in Int
  <2>1. w \in Live /\ LayoutInv
    BY DEF HeapInv
  <2> QED BY <2>1, LiveChunks, TopIs
<1>5. v # NULL /\ r # NULL /\ v \in Int /\ r \in Int
  BY Constants
<1>6. /\ op' \in OpType /\ op'.at = "free" /\ op'.v = v /\ op'.p = r /\ op'.want = op.want
      /\ op'.tc = top /\ op'.then = point
  <2>p. PICK a \in Points : a = point
    BY DEF Points
  <2>1. PICK b : b = [op EXCEPT !.at = "free", !.p = r, !.tc = top, !.then = a]
    OBVIOUS
  <2>2. op' = [b EXCEPT !.v = v]
    BY <2>1, <2>p DEF FreesPart, FreeThen
  <2>3. /\ b \in OpType /\ b.at = "free" /\ b.p = r /\ b.tc = top /\ b.then = a
        /\ b.want = op.want
    BY <2>1, <1>1, <1>4, <1>5 DEF OpType, Points
  <2> QED BY <2>2, <2>3, <2>p, <1>5 DEF OpType
<1>7. Live' = DOMAIN held \cup {v, r}
  BY <1>3, <1>5, <1>6 DEF Live
<1>8. OpKnown(op', DOMAIN held, top')
  BY <1>5, <1>6 DEF OpKnown, Dest, Freeing, Mallocing
<1>9. Fits(op', md', held)
  BY <1>6 DEF Fits, Dest, Freeing
<1>10. Clients(entering', retrying', DOMAIN held, top', op')
  BY <1>3, FS_EmptySet DEF Clients
<1> QED BY <1>3, <1>6, <1>7, <1>8, <1>9, <1>10 DEF CallInv

\* What memalign knows of the chunk it shortens.
LEMMA TailKnown ==
    ASSUME HeapInv, At("memalign_tail")
    PROVE  /\ entering = {} /\ retrying = {} /\ op \in OpType /\ op.p = NULL
           /\ Live = DOMAIN held \cup {op.v} /\ op.v \notin DOMAIN held /\ op.v \in Live
           /\ md[op.v].size >= op.want /\ op.want \in Requests /\ op.v # NULL
           /\ \A q \in DOMAIN held : held[q] \in Requests /\ held[q] <= md[q].size
<1>1. /\ entering = {} /\ retrying = {} /\ op \in OpType
      /\ Live = DOMAIN held \cup ({op.v, op.p} \ {NULL})
  BY Busy DEF HeapInv, At
<1>2. OpKnown(op, DOMAIN held, top) /\ Fits(op, md, held) /\ op.at = "memalign_tail"
  BY DEF HeapInv, CallInv, At
<1>3. Dest(op) = "memalign_tail"
  BY <1>2 DEF Dest, Freeing
<1>4. op.p = NULL /\ op.v \notin DOMAIN held /\ op.v # NULL /\ op.want \in Requests
  BY <1>2, <1>3 DEF OpKnown
<1>5. /\ md[op.v].size >= op.want
      /\ \A q \in DOMAIN held : held[q] \in Requests /\ held[q] <= md[q].size
  BY <1>2, <1>3, <1>4 DEF Fits
<1> QED BY <1>1, <1>4, <1>5

LEMMA MemalignTailInv == ASSUME HeapInv, MemalignTail PROVE HeapInv'
<1>v. PICK v : v = op.v
  OBVIOUS
<1>n. PICK nb : nb = op.want
  OBVIOUS
<1>r. PICK r : r = v + nb
  OBVIOUS
<1>0. At("memalign_tail") /\ op.at = "memalign_tail" /\ LayoutInv
  BY DEF HeapInv, MemalignTail, At
<1>1. /\ entering = {} /\ retrying = {} /\ op \in OpType /\ op.p = NULL
      /\ Live = DOMAIN held \cup {v} /\ v \notin DOMAIN held /\ v \in Live
      /\ md[v].size >= nb /\ nb \in Requests /\ v # NULL
      /\ \A q \in DOMAIN held : held[q] \in Requests /\ held[q] <= md[q].size
  BY <1>0, <1>v, <1>n, TailKnown
<1>2. /\ UNCHANGED <<bins, binmap, fastbins, have_fast, top, last_remainder, system, client>>
      /\ IF md[v].size <= nb + MINSIZE THEN GoTo("done") /\ UNCHANGED md
         ELSE md' = Carve(md, v, nb) /\ op' = FreeThen(v + nb, "done")
  BY <1>v, <1>n DEF MemalignTail
<1>3. v \in Nat /\ md[v].size \in Nat /\ v \in DOMAIN md /\ nb \in Nat /\ nb >= 2
  BY <1>0, <1>1, LiveChunks, Constants
<1>4. CASE md[v].size <= nb + MINSIZE
  <2>1. op' = [op EXCEPT !.at = "done"]
    BY <1>2, <1>4 DEF GoTo
  <2>2. /\ op' \in OpType /\ op'.at = "done" /\ op'.v = v /\ op'.p = NULL /\ op'.want = nb
    BY <2>1, <1>1, <1>v, <1>n DEF OpType, Points
  <2>3. OpKnown(op', DOMAIN held, top)
    BY <2>2, <1>1 DEF OpKnown, Dest, Freeing, Mallocing
  <2>4. Fits(op', md, held)
    BY <2>2, <1>1 DEF Fits, Dest, Freeing
  <2>5. OtherTypes'
    BY <1>2 DEF OtherTypes, HeapInv
  <2>6. op'.v = op.v /\ op'.p = op.p /\ op'.at # "sys"
    BY <2>2, <1>1, <1>v
  <2>7. UNCHANGED <<md, bins, fastbins, top, system, client>>
    BY <1>2, <1>4
  <2> QED BY <2>3, <2>4, <2>5, <2>6, <2>7, <1>1, MovesOn
<1>5. CASE ~(md[v].size <= nb + MINSIZE)
  <2>1. nb >= MINSIZE /\ md[v].size >= nb + MINSIZE /\ nb < md[v].size
    BY <1>3, <1>5, Constants
  <2>2. md' = Carve(md, v, nb) /\ op' = FreeThen(r, "done")
    BY <1>2, <1>5, <1>r
  <2>3. CutOff(v, nb, r)
    <3>z. PICK z : z = md'
      OBVIOUS
    <3>1. z = Carve(md, v, nb)
      BY <2>2, <3>z
    <3>B. PICK B : B = Binned
      OBVIOUS
    <3>F. PICK F : F = Fast
      OBVIOUS
    <3>L. PICK L : L = Live
      OBVIOUS
    <3>2. Heap(md, top, seams, owned, B, F, L) /\ v \in L
      BY <1>0, <1>1, <3>B, <3>F, <3>L, HeapIs
    <3>3. Heap(z, top, seams, owned, B, F, L \cup {v + nb}) /\ Cut(md, v, nb, z)
      BY <2>1, <3>1, <3>2, <1>3, CarveLive
    <3> QED BY <3>3, <3>z, <3>B, <3>F, <3>L, <1>r DEF CutOff
  <2>4. /\ r \notin DOMAIN md /\ r \in Nat /\ md'[v].size = nb
        /\ \A x \in DOMAIN md \ {v} : md'[x].size = md[x].size
    BY <2>3, <1>r DEF CutOff, Cut, SameSizes
  <2>5. DOMAIN held \subseteq DOMAIN md \ {v}
    BY <1>0, <1>1, LiveChunks
  <2>6. CallInv' /\ Live' = DOMAIN held \cup {v, r}
    <3>1. FreesPart(v, r, "done")
      <4>1. r \in Int /\ top \in Int
        BY <2>4, <1>0, <1>1, LiveChunks, TopIs
      <4>2. PICK b : b = FreeThen(r, "done")
        OBVIOUS
      <4>3. b \in OpType /\ b.v = v
        BY <4>1, <4>2, <1>1, <1>v DEF FreeThen, OpType, Points
      <4>4. [b EXCEPT !.v = v] = b
        BY <4>3 DEF OpType
      <4> QED BY <4>2, <4>4, <2>2 DEF FreesPart
    <3>2. v # r /\ {v, r} \cap DOMAIN held = {}
      BY <2>4, <2>5, <1>3
    <3>3. \A q \in DOMAIN held : held[q] \in Requests /\ held[q] <= md'[q].size
      BY <2>4, <2>5, <1>1
    <3>4. md'[v].size >= op.want
      BY <2>4, <1>3, <1>n
    <3>5. UNCHANGED client /\ UNCHANGED top
      BY <1>2
    <3>6. op.want \in Requests /\ op.at \in {"got", "memalign_tail"}
      BY <1>0, <1>1, <1>n
    <3>7. PICK point \in {"memalign_tail", "done"} : point = "done"
      OBVIOUS
    <3>8. FreesPart(v, r, point)
      BY <3>1, <3>7
    <3> QED BY <3>2, <3>3, <3>4, <3>5, <3>6, <3>8, <2>4, <1>1, <1>3, MemalignOn
  <2>7. Live' = Live \cup {r}
    BY <2>6, <1>1
  <2> QED BY <2>1, <2>3, <2>6, <2>7, <1>1, <1>2, <1>3, CutInv
<1> QED BY <1>4, <1>5

\* The leader is a chunk, and shorter than what memalign asked for on top.
LEMMA LeaderIs ==
    ASSUME op.v \in Nat, op.align \in Nat, op.align >= 2
    PROVE  Leader \in Nat /\ Leader >= 2 /\ Leader <= op.align + 1
<1>1. op.v \in Int /\ op.align \in Nat \ {0}
  OBVIOUS
<1>u. PICK u : u = AlignUp(op.v, op.align)
  OBVIOUS
<1>2. u \in Int /\ u >= op.v /\ u < op.v + op.align
  BY <1>1, <1>u, AlignUpIs
<1>3. u - op.v \in Nat /\ u - op.v < op.align
  BY <1>1, <1>2
<1> QED BY <1>1, <1>3, <1>u, Constants DEF Leader

LEMMA GotMemalignInv == ASSUME HeapInv, GotMemalign PROVE HeapInv'
<1>v. PICK v : v = op.v
  OBVIOUS
<1>n. PICK nb : nb = Leader
  OBVIOUS
<1>r. PICK r : r = v + nb
  OBVIOUS
<1>0. /\ At("got") /\ op.at = "got" /\ LayoutInv /\ op.v # NULL /\ op.call = "memalign"
  BY DEF HeapInv, GotMemalign, At
<1>1. /\ entering = {} /\ retrying = {} /\ op \in OpType /\ op.p = NULL
      /\ Live = DOMAIN held \cup {v} /\ v \notin DOMAIN held /\ v \in Live
      /\ md[v].size >= op.nb /\ Asks(op, DOMAIN held) /\ v # NULL
      /\ \A q \in DOMAIN held : held[q] \in Requests /\ held[q] <= md[q].size
  BY <1>0, <1>v, GotKnown
<1>2. /\ op.want \in Requests /\ op.align \in Alignments
      /\ op.nb = op.want + op.align + MINSIZE
  BY <1>0, <1>1 DEF Asks
<1>3. /\ v \in Nat /\ md[v].size \in Nat /\ v \in DOMAIN md
      /\ op.want \in Nat /\ op.want >= 2 /\ op.align \in Nat /\ op.align >= 2
  BY <1>0, <1>1, <1>2, LiveChunks, Constants
<1>4. /\ UNCHANGED <<bins, binmap, fastbins, have_fast, top, last_remainder, system, client>>
      /\ IF v % op.align = 0 THEN GoTo("memalign_tail") /\ UNCHANGED md
         ELSE /\ md' = SetInuse(Carve(md, v, nb), v + nb)
              /\ op' = [FreeThen(v, "memalign_tail") EXCEPT !.v = v + nb]
  BY <1>v, <1>n DEF GotMemalign
<1>5. CASE v % op.align = 0
  <2>1. op' = [op EXCEPT !.at = "memalign_tail"]
    BY <1>4, <1>5 DEF GoTo
  <2>2. /\ op' \in OpType /\ op'.at = "memalign_tail" /\ op'.v = v /\ op'.p = NULL
        /\ op'.want = op.want
    BY <2>1, <1>1, <1>v DEF OpType, Points
  <2>3. OpKnown(op', DOMAIN held, top)
    BY <2>2, <1>1, <1>2 DEF OpKnown, Dest, Freeing, Mallocing
  <2>4. Fits(op', md, held)
    <3>1. md[v].size >= op.want
      BY <1>1, <1>2, <1>3, Constants
    <3> QED BY <3>1, <2>2, <1>1 DEF Fits, Dest, Freeing
  <2>5. OtherTypes'
    BY <1>4 DEF OtherTypes, HeapInv
  <2>6. op'.v = op.v /\ op'.p = op.p /\ op'.at # "sys"
    BY <2>2, <1>1, <1>v
  <2>7. UNCHANGED <<md, bins, fastbins, top, system, client>>
    BY <1>4, <1>5
  <2> QED BY <2>3, <2>4, <2>5, <2>6, <2>7, <1>1, MovesOn
<1>6. CASE ~(v % op.align = 0)
  <2>0. nb \in Nat /\ nb >= 2 /\ nb <= op.align + 1
    BY <1>3, <1>n, <1>v, LeaderIs
  <2>1. /\ nb >= MINSIZE /\ md[v].size >= nb + MINSIZE /\ nb < md[v].size
        /\ md[v].size - nb >= op.want
    BY <2>0, <1>1, <1>2, <1>3, Constants
  <2>2. md' = SetInuse(Carve(md, v, nb), r) /\ FreesPart(r, v, "memalign_tail")
    BY <1>4, <1>6, <1>r DEF FreesPart
  <2>3. CutOff(v, nb, r)
    <3>z. PICK z : z = md'
      OBVIOUS
    <3>m. PICK m : m = md
      OBVIOUS
    <3>1. z = SetInuse(Carve(m, v, nb), r)
      BY <2>2, <3>z, <3>m
    <3>B. PICK B : B = Binned
      OBVIOUS
    <3>F. PICK F : F = Fast
      OBVIOUS
    <3>L. PICK L : L = Live
      OBVIOUS
    <3>X. PICK X : X = {}
      OBVIOUS
    <3>2. HeapBut(m, top, seams, owned, B, F, L, X) /\ v \in L /\ X \subseteq {m[v].md_next}
      BY <1>0, <1>1, <3>B, <3>F, <3>L, <3>X, <3>m, HeapIs DEF Heap
    <3>3. m[v].size >= nb + MINSIZE
      BY <2>1, <3>m
    <3>4. Heap(z, top, seams, owned, B, F, L \cup {r}) /\ Cut(m, v, nb, z)
      BY <2>0, <2>1, <3>1, <3>2, <3>3, <1>r, CarveMark
    <3> QED BY <3>4, <3>z, <3>m, <3>B, <3>F, <3>L, <1>r DEF CutOff
  <2>4. /\ r \notin DOMAIN md /\ r \in Nat /\ md'[r].size = md[v].size - nb
        /\ \A x \in DOMAIN md \ {v} : md'[x].size = md[x].size
    BY <2>3, <1>r DEF CutOff, Cut, SameSizes
  <2>5. DOMAIN held \subseteq DOMAIN md \ {v}
    BY <1>0, <1>1, LiveChunks
  <2>6. CallInv' /\ Live' = DOMAIN held \cup {r, v}
    <3>2. v # r /\ {v, r} \cap DOMAIN held = {}
      BY <2>4, <2>5, <1>3
    <3>3. \A q \in DOMAIN held : held[q] \in Requests /\ held[q] <= md'[q].size
      BY <2>4, <2>5, <1>1
    <3>4. md'[r].size >= op.want
      BY <2>1, <2>4
    <3>5. UNCHANGED client /\ UNCHANGED top
      BY <1>4
    <3>6. op.want \in Requests /\ op.at \in {"got", "memalign_tail"}
      BY <1>0, <1>2
    <3>7. PICK point \in {"memalign_tail", "done"} : point = "memalign_tail"
      OBVIOUS
    <3>8. FreesPart(r, v, point)
      BY <2>2, <3>7
    <3> QED BY <3>2, <3>3, <3>4, <3>5, <3>6, <3>8, <2>4, <1>1, <1>3, MemalignOn
  <2>7. Live' = Live \cup {r}
    BY <2>6, <1>1
  <2> QED BY <2>0, <2>1, <2>3, <2>6, <2>7, <1>1, <1>4, CutInv
<1> QED BY <1>5, <1>6

(***************************************************************************)
(* Every step keeps the invariant                                          *)
(***************************************************************************)
LEMMA HeapStutters == ASSUME HeapInv, UNCHANGED vars PROVE HeapInv'
<1>1. /\ UNCHANGED <<md, bins, fastbins, top, system>> /\ UNCHANGED <<binmap, have_fast, last_remainder>>
      /\ UNCHANGED <<held, entering, retrying, op>>
  BY DEF vars, heap, client
<1>2. Live' = Live
  BY <1>1 DEF Live
<1>3. CallInv'
  <2>1. TopFits' <=> TopFits
    BY <1>1 DEF TopFits
  <2>2. CallInv
    BY DEF HeapInv
  <2> QED BY <1>1, <2>1, <2>2 DEF CallInv, At
<1>4. OtherTypes'
  BY <1>1 DEF OtherTypes, HeapInv
<1> QED BY <1>1, <1>2, <1>3, <1>4, Quiet

LEMMA HeapInvStep ==
    ASSUME NThreads = 1, HeapInv, [Next]_vars
    PROVE  HeapInv'
<1>1. CASE UNCHANGED vars
  BY <1>1, HeapStutters
<1>2. CASE Call
  <2>1. ASSUME NEW nb \in Requests, CallMalloc(nb) PROVE HeapInv'
    BY <2>1, CallMallocInv
  <2>2. ASSUME NEW p \in DOMAIN held, CallFree(p) PROVE HeapInv'
    BY <2>2, CallFreeInv
  <2>3. ASSUME NEW p \in DOMAIN held, NEW nb \in Requests, CallRealloc(p, nb)
        PROVE  HeapInv'
    BY <2>3, CallReallocInv
  <2>4. ASSUME NEW a \in Alignments, NEW nb \in Requests, CallMemalign(a, nb)
        PROVE  HeapInv'
    BY <2>4, CallMemalignInv
  <2>5. ASSUME NEW pad \in Pads, CallTrim(pad) PROVE HeapInv'
    BY <2>5, CallTrimInv
  <2> QED BY <1>2, <2>1, <2>2, <2>3, <2>4, <2>5 DEF Call
<1>3. CASE Lock
  <2>1. ASSUME NEW f \in entering, LockFree(f) PROVE HeapInv'
    BY <2>1, LockFreeInv
  <2>2. ASSUME NEW r \in retrying, LockRetry(r) PROVE HeapInv'
    BY <2>2, LockRetryInv
  <2> QED BY <1>3, <2>1, <2>2 DEF Lock
<1>4. ASSUME NEW k \in ForeignSteps, ForeignSbrk(k) PROVE HeapInv'
  BY <1>4, ForeignSbrkInv
<1>5. CASE Step
  <2>1. CASE NoMetadata
    BY <2>1, NoMetadataInv
  <2>2. CASE MallocFast
    BY <2>2, MallocFastInv
  <2>3. CASE MallocSmall
    BY <2>3, MallocSmallInv
  <2>4. CASE MallocMiss
    BY <2>4, MallocMissInv
  <2>5. CASE UnsortedRemainder
    BY <2>5, UnsortedRemainderInv
  <2>6. CASE UnsortedNext
    BY <2>6, UnsortedNextInv
  <2>7. CASE UnsortedDone
    BY <2>7, UnsortedDoneInv
  <2>8. CASE LargeFit
    BY <2>8, LargeFitInv
  <2>9. CASE BinFit
    BY <2>9, BinFitInv
  <2>10. CASE BinNone
    BY <2>10, BinNoneInv
  <2>11. CASE UseTop
    BY <2>11, UseTopInv
  <2>12. CASE TopConsolidate
    BY <2>12, TopConsolidateInv
  <2>13. CASE TopTooSmall
    BY <2>13, TopTooSmallInv
  <2>14. CASE SysExtend
    BY <2>14, SysExtendInv
  <2>15. CASE SysSbrkRegion
    BY <2>15, SysSbrkRegionInv
  <2>16. CASE SysSbrkNoncontiguous
    BY <2>16, SysSbrkNoncontiguousInv
  <2>17. CASE SysMmapRegion
    BY <2>17, SysMmapRegionInv
  <2>18. CASE SysRefused
    BY <2>18, SysFailsInv
  <2>19. CASE SysSplit
    BY <2>19, SysSplitInv
  <2>20. CASE SysEnomem
    BY <2>20, SysFailsInv
  <2>21. CASE Free
    BY <2>21, FreeInv
  <2>22. CASE FreeTrim
    BY <2>22, FreeTrimInv
  <2>23. CASE ConsolidateNext
    BY <2>23, ConsolidateNextInv
  <2>24. CASE ConsolidateDone
    BY <2>24, ConsolidateDoneInv
  <2>25. CASE Systrim
    BY <2>25, SystrimInv
  <2>26. CASE GotMalloc
    BY <2>26, GotMallocInv
  <2>27. CASE GotNull
    BY <2>27, GotNullInv
  <2>36. CASE CheckTop
    BY <2>36, CheckTopInv
  <2>37. CASE GotReallocNull
    BY <2>37, GotReallocNullInv
  <2>28. CASE GotReallocNext
    BY <2>28, GotReallocNextInv
  <2>29. CASE GotReallocMove
    BY <2>29, GotReallocMoveInv
  <2>30. CASE GotRetry
    BY <2>30, GotRetryInv
  <2>31. CASE GotMemalign
    BY <2>31, GotMemalignInv
  <2>32. CASE MemalignTail
    BY <2>32, MemalignTailInv
  <2>33. CASE Done
    BY <2>33, DoneInv
  <2>34. CASE ReallocNoMetadata
    BY <2>34, ReallocNoMetadataInv
  <2>35. CASE Realloc
    BY <2>35, ReallocInv
  <2> QED BY <1>5, <2>1, <2>2, <2>3, <2>4, <2>5, <2>6, <2>7, <2>8, <2>9, <2>10, <2>11,
         <2>12, <2>13, <2>14, <2>15, <2>16, <2>17, <2>18, <2>19, <2>20, <2>21, <2>22,
         <2>23, <2>24, <2>25, <2>26, <2>27, <2>28, <2>29, <2>30, <2>31, <2>32, <2>33,
         <2>34, <2>35, <2>36, <2>37 DEF Step
<1>6. CASE Ended
  BY <1>1, <1>6 DEF Ended
<1> QED BY <1>1, <1>2, <1>3, <1>4, <1>5, <1>6 DEF Next

(***************************************************************************)
(* What the invariant implies                                              *)
(***************************************************************************)
LEMMA TypesHold == HeapInv => TypeOK
<1> SUFFICES ASSUME HeapInv PROVE TypeOK
  OBVIOUS
<1>0. LayoutInv /\ MemoryInv /\ CallInv /\ OtherTypes
  BY DEF HeapInv
<1>1. /\ Lists(bins, BinIdx) /\ Lists(fastbins, Smalls) /\ Geo(md, top, seams, owned)
  BY <1>0, HeapIs
<1>2. /\ md \in [DOMAIN md -> Chunk] /\ ChunksOf(md) \subseteq Nat /\ top \in DOMAIN md
      /\ seams \subseteq ChunksOf(md) /\ owned \subseteq Nat
  BY <1>1 DEF Geo, Shape, Covers
<1>3. DOMAIN md \subseteq Int
  BY <1>2, Constants DEF ChunksOf
<1>4. bins \in [BinIdx -> Seq(Int)] /\ fastbins \in [Smalls -> Seq(Int)]
  BY <1>1 DEF Lists
<1>5. /\ {brk, mmap_lo, system_mem} \subseteq Nat /\ sbrk_base \in Int
      /\ sbrk_regions \in Seq([lo : Int, hi : Int])
      /\ contiguous \in BOOLEAN /\ ragged \in BOOLEAN
  BY <1>0 DEF MemoryInv, Within, Paged
<1>6. DOMAIN held \subseteq Int /\ \A p \in DOMAIN held : held[p] \in Nat
  <2> SUFFICES ASSUME NEW p \in DOMAIN held PROVE p \in Int /\ held[p] \in Nat
    OBVIOUS
  <2>1. p \in Live /\ held[p] \in Requests
    BY <1>0 DEF Live, CallInv, Fits
  <2>2. p \in Nat
    BY <2>1, <1>0, LiveChunks
  <2>3. held[p] \in Nat
    BY <2>1, Constants
  <2> QED BY <2>2, <2>3
<1>7. entering \subseteq [p : Int, tc : Int] /\ retrying \subseteq [blk : Int, want : Nat]
  BY <1>0 DEF CallInv, Clients
<1>8. op \in OpType
  BY <1>0 DEF CallInv, OpKnown
<1>9. seams \subseteq Int /\ owned \subseteq Int /\ {top, last_remainder} \subseteq Int
  BY <1>0, <1>2, <1>3 DEF OtherTypes
<1>10. /\ binmap \subseteq BinIdx /\ have_fast \in BOOLEAN
  BY <1>0 DEF OtherTypes
<1>11. \A p \in DOMAIN md : md[p] \in Chunk
  BY <1>2
<1> QED BY <1>3, <1>4, <1>5, <1>6, <1>7, <1>8, <1>9, <1>10, <1>11 DEF TypeOK, Address, OpType

LEMMA LinksHold == HeapInv => Linked
<1> SUFFICES ASSUME HeapInv PROVE Linked
  OBVIOUS
<1>1. Geo(md, top, seams, owned)
  BY HeapIs DEF HeapInv
<1>2. Shape(md, top, seams) /\ Links(md, top, seams)
  BY <1>1 DEF Geo
<1> QED BY <1>2 DEF Linked, Links, Shape, Chunks, ChunksOf

LEMMA TilesHold == HeapInv => Tiling
<1> SUFFICES ASSUME HeapInv PROVE Tiling
  OBVIOUS
<1>1. Geo(md, top, seams, owned)
  BY HeapIs DEF HeapInv
<1>2. Chunks = ChunksOf(md) /\ ChunksOf(md) \subseteq Nat /\ Apart(md) /\ Covers(md, owned)
  BY <1>1 DEF Geo, Shape, Chunks, ChunksOf
<1>3. \A p \in Chunks : p \in Nat /\ md[p].size \in Nat
  BY <1>1, <1>2, OneChunk
<1>4. ASSUME NEW p \in Chunks, NEW q \in Chunks, p # q
      PROVE  Units(p) \cap Units(q) = {}
  <2> SUFFICES ASSUME NEW x \in Units(p), x \in Units(q) PROVE FALSE
    OBVIOUS
  <2>1. p + md[p].size <= q \/ q + md[q].size <= p
    BY <1>2, <1>4 DEF Apart
  <2>2. /\ p \in Nat /\ q \in Nat /\ md[p].size \in Nat /\ md[q].size \in Nat
        /\ x \in Int /\ p <= x /\ x <= p + md[p].size - 1
        /\ q <= x /\ x <= q + md[q].size - 1
    BY <1>3 DEF Units
  <2> QED BY <2>1, <2>2
<1>5. UNION {Units(p) : p \in Chunks} = owned
  <2>1. ASSUME NEW p \in Chunks, NEW x
        PROVE  x \in Units(p) <=> x \in Nat /\ p <= x /\ x < p + md[p].size
    BY <1>3 DEF Units
  <2>2. \A x : x \in owned <=> x \in Nat /\ \E p \in Chunks : p <= x /\ x < p + md[p].size
    BY <1>2 DEF Covers
  <2>3. ASSUME NEW x PROVE x \in UNION {Units(p) : p \in Chunks} <=> x \in owned
    BY <2>1, <2>2
  <2> QED BY <2>3
<1> QED BY <1>4, <1>5, TypesHold, LinksHold DEF Tiling

LEMMA TagsHold == HeapInv => BoundaryTags
<1> SUFFICES ASSUME HeapInv PROVE BoundaryTags
  OBVIOUS
<1>B. PICK B : B = Binned
  OBVIOUS
<1>1. Heap(md, top, seams, owned, B, Fast, Live) /\ Geo(md, top, seams, owned)
  BY <1>B, HeapIs DEF HeapInv
<1>2. TagsBut(md, top, B, {})
  BY <1>1 DEF Heap, HeapBut, Tagged
<1>3. Chunks = ChunksOf(md)
  BY DEF Chunks, ChunksOf
<1>4. ASSUME NEW p \in Chunks \ {top}
      PROVE  /\ p \in B <=> ~Inuse(md, p)
             /\ p \in B => md[md[p].md_next].prev_size = md[p].size
  <2>1. p \in ChunksOf(md) /\ p # top
    BY <1>3
  <2>2. Inuse(md, p) <=> p \notin B
    BY <2>1, <1>1, InuseIs
  <2>3. md[p].md_next \in ChunksOf(md) /\ md[md[p].md_next].md_prev = p
    BY <2>1, <1>1, NextChunk
  <2>4. Right(md, B, md[p].md_next)
    BY <2>3, <1>2 DEF TagsBut
  <2> QED BY <2>2, <2>3, <2>4 DEF Right
<1>5. \A p \in B : md[p].prev_inuse /\ md[p].md_next # top
  BY <1>2 DEF TagsBut, Right
<1>6. md[top].prev_inuse \/ top = InitialTop
  <2> SUFFICES ASSUME top # InitialTop PROVE md[top].prev_inuse
    OBVIOUS
  <2>1. top \in ChunksOf(md)
    BY <1>1 DEF Geo, Shape, ChunksOf
  <2>2. Right(md, B, top)
    BY <2>1, <1>2 DEF TagsBut
  <2>3. ASSUME md[top].md_prev \in B PROVE FALSE
    <3>1. md[top].md_prev # NULL
      BY <2>3, HeapIs, ListedChunks, <1>B DEF HeapInv
    <3>2. md[md[top].md_prev].md_next = top
      BY <3>1, <2>1, <1>1 DEF Geo, Links
    <3> QED BY <3>2, <2>3, <1>2 DEF TagsBut
  <2> QED BY <2>2, <2>3 DEF Right
<1> QED BY <1>4, <1>5, <1>6, <1>B DEF BoundaryTags

LEMMA PlacesHold == HeapInv => OnePlace
<1> SUFFICES ASSUME HeapInv PROVE OnePlace
  OBVIOUS
<1>0. LayoutInv
  BY DEF HeapInv
<1>1. /\ Heap(md, top, seams, owned, Binned, Fast, Live)
      /\ Lists(bins, BinIdx) /\ Lists(fastbins, Smalls) /\ SizedLists(fastbins, md)
      /\ Fast = Members(fastbins, Smalls)
  BY <1>0, HeapIs
<1>2. Places(md, top, Binned, Fast, Live)
  BY <1>1 DEF Heap, HeapBut
<1>3. /\ \A i, j \in BinIdx : \A k \in DOMAIN bins[i], l \in DOMAIN bins[j] :
            bins[i][k] = bins[j][l] => i = j /\ k = l
      /\ \A s, t \in Smalls : \A k \in DOMAIN fastbins[s], l \in DOMAIN fastbins[t] :
            fastbins[s][k] = fastbins[t][l] => s = t /\ k = l
  BY <1>1 DEF Lists
<1>4. ASSUME NEW p \in Fast PROVE md[p].size \in Smalls /\ p \in ToSet(fastbins[md[p].size])
  <2>1. PICK s \in Smalls : \E k \in DOMAIN fastbins[s] : fastbins[s][k] = p
    BY <1>1, IsMember
  <2>2. PICK k \in DOMAIN fastbins[s] : fastbins[s][k] = p
    BY <2>1
  <2>3. md[p].size = s
    BY <2>2, <1>1 DEF SizedLists
  <2>4. p \in ToSet(fastbins[s])
    BY <2>2 DEF ToSet
  <2> QED BY <2>3, <2>4
<1>5. /\ Binned \cap Fast = {} /\ (Binned \cup Fast) \cap Live = {}
      /\ top \notin Binned \cup Fast \cup Live /\ Binned \cup Fast \cup Live \subseteq Chunks
      /\ \A p \in Chunks \ (Binned \cup Fast \cup Live \cup {top}) : md[p].size = 1
  BY <1>2 DEF Places, Chunks, ChunksOf
<1> QED BY <1>3, <1>4, <1>5 DEF OnePlace

LEMMA RegionsHold == HeapInv => RegionsCoverHeap
<1> SUFFICES ASSUME HeapInv, contiguous
             PROVE  /\ top # InitialTop => InitialBrk + system_mem = top + md[top].size
                    /\ seams = {} => owned = UNION {r.lo .. r.hi - 1 : r \in ToSet(sbrk_regions)}
  BY DEF RegionsCoverHeap
<1>0. LayoutInv /\ MemoryInv
  BY DEF HeapInv
<1>1. \A r : sbrk_regions = <<r>> => UNION {u.lo .. u.hi - 1 : u \in ToSet(sbrk_regions)}
                                     = r.lo .. r.hi - 1
  <2> SUFFICES ASSUME NEW r, sbrk_regions = <<r>>
               PROVE  UNION {u.lo .. u.hi - 1 : u \in ToSet(sbrk_regions)} = r.lo .. r.hi - 1
    OBVIOUS
  <2>1. ToSet(<<r>>) = {r}
    BY DEF ToSet
  <2> QED BY <2>1
<1>2. CASE top = InitialTop
  <2>1. AtStart
    BY <1>0, <1>2 DEF MemoryInv
  <2>2. ChunksOf(md) = {}
    BY <1>0, <1>2, TopIs
  <2>3. owned = {}
    BY <1>0, <2>2, HeapIs DEF Geo, Covers
  <2>4. UNION {u.lo .. u.hi - 1 : u \in ToSet(sbrk_regions)} = {}
    <3>r. PICK r : r = [lo |-> 0, hi |-> 0]
      OBVIOUS
    <3>1. sbrk_regions = <<r>> /\ r.lo = 0 /\ r.hi = 0
      BY <2>1, <3>r DEF AtStart
    <3>2. UNION {u.lo .. u.hi - 1 : u \in ToSet(sbrk_regions)} = r.lo .. r.hi - 1
      BY <3>1, <1>1
    <3> QED BY <3>1, <3>2
  <2> QED BY <2>3, <2>4, <1>2
<1>3. CASE top # InitialTop
  <2>1. InOneRegion
    BY <1>0, <1>3 DEF MemoryInv
  <2>2. ASSUME seams = {}
        PROVE  owned = UNION {r.lo .. r.hi - 1 : r \in ToSet(sbrk_regions)}
    <3>h. PICK h : h = InitialBrk + system_mem
      OBVIOUS
    <3>r. PICK r : r = [lo |-> InitialBrk, hi |-> h]
      OBVIOUS
    <3>0. /\ sbrk_regions[1] = [lo |-> InitialBrk, hi |-> InitialBrk + system_mem]
          /\ owned = InitialBrk .. InitialBrk + system_mem - 1 /\ Len(sbrk_regions) = 1
      BY <2>1, <2>2 DEF InOneRegion
    <3>1. sbrk_regions[1] = r /\ owned = InitialBrk .. h - 1 /\ Len(sbrk_regions) = 1
      <4>1. sbrk_regions[1] = r
        BY <3>0, <3>h, <3>r, Zenon
      <4>e. PICK e : e = InitialBrk + system_mem - 1
        OBVIOUS
      <4>f. owned = InitialBrk .. e
        BY <3>0, <4>e
      <4>2. owned = InitialBrk .. h - 1
        <5>1. InitialBrk \in Int /\ system_mem \in Int
          BY <1>0, Constants DEF MemoryInv, Within
        <5>2. e = h - 1
          BY <5>1, <3>h, <4>e
        <5> QED BY <5>2, <4>f
      <4> QED BY <4>1, <4>2, <3>0
    <3>2. sbrk_regions = <<r>>
      <4>1. sbrk_regions \in Seq([lo : Int, hi : Int])
        BY <1>0 DEF MemoryInv
      <4> QED BY <4>1, <3>1
    <3>3. UNION {u.lo .. u.hi - 1 : u \in ToSet(sbrk_regions)} = r.lo .. r.hi - 1
      BY <3>2, <1>1
    <3>4. r.lo = InitialBrk /\ r.hi = h
      BY <3>r
    <3> QED BY <3>1, <3>3, <3>4, Zenon
  <2> QED BY <2>1, <2>2 DEF InOneRegion
<1> QED BY <1>2, <1>3

LEMMA OrderHolds == HeapInv => BinsInOrder
BY DEF HeapInv, LayoutInv, OtherTypes, Sorted, Marks, BinsInOrder

\* A program with one thread keeps the invariant, whatever its calls, its sizes and
\* the memory that the system gives or refuses.
LEMMA HeapInvHolds == ASSUME NThreads = 1 PROVE Spec => []HeapInv
<1>1. Init => HeapInv
  BY HeapInvInit
<1>2. HeapInv /\ [Next]_vars => HeapInv'
  BY HeapInvStep
<1> QED BY <1>1, <1>2, PTL DEF Spec

\* The chunks tile the memory of the arena and are linked in order, through every split,
\* merge and fencepost of malloc, free, realloc, memalign and malloc_trim.
THEOREM ChunksTile == ASSUME NThreads = 1 PROVE Spec => []Tiling
<1>1. HeapInv => Tiling
  BY TilesHold
<1> QED BY <1>1, HeapInvHolds, PTL

\* inuse() and prev_size are right, and free chunks never border one another or the top
\* chunk: malloc.c 1421.
THEOREM TagsAreRight == ASSUME NThreads = 1 PROVE Spec => []BoundaryTags
<1>1. HeapInv => BoundaryTags
  BY TagsHold
<1> QED BY <1>1, HeapInvHolds, PTL

\* No chunk is in two lists, or in a list and in the client's hands, and none is lost.
THEOREM EveryChunkPlaced == ASSUME NThreads = 1 PROVE Spec => []OnePlace
<1>1. HeapInv => OnePlace
  BY PlacesHold
<1> QED BY <1>1, HeapInvHolds, PTL

\* The bins are sorted and marked, as _int_malloc presumes when it scans them.
THEOREM BinsAreSorted == ASSUME NThreads = 1 PROVE Spec => []BinsInOrder
<1>1. HeapInv => BinsInOrder
  BY OrderHolds
<1> QED BY <1>1, HeapInvHolds, PTL

\* Where the break is contiguous, system_mem and the table of lookup.c agree with the heap.
THEOREM RegionsAreKnown == ASSUME NThreads = 1 PROVE Spec => []RegionsCoverHeap
<1>1. HeapInv => RegionsCoverHeap
  BY RegionsHold
<1> QED BY <1>1, HeapInvHolds, PTL

(***************************************************************************)
(* The heap implements the abstract allocator                              *)
(***************************************************************************)
\* A block of the client has been asked for and fits in its chunk, also while realloc has
\* changed the chunk and not yet the client's size.
LEMMA BlockFits ==
    ASSUME HeapInv, NEW p \in DOMAIN held
    PROVE  /\ Blocks[p] \in Requests /\ Blocks[p] \in Nat /\ Blocks[p] >= 2
           /\ p \in ChunksOf(md) /\ p \in Nat /\ md[p].size \in Nat /\ Blocks[p] <= md[p].size
<1>0. LayoutInv /\ OpKnown(op, DOMAIN held, top) /\ Fits(op, md, held)
  BY DEF HeapInv, CallInv
<1>1. p \in Live
  BY DEF Live
<1>2. p \in ChunksOf(md) /\ p \in Nat /\ md[p].size \in Nat /\ p # NULL
  BY <1>0, <1>1, LiveChunks
<1>3. CASE p # op.v
  <2>1. Blocks[p] = held[p]
    BY <1>3 DEF Blocks
  <2>2. held[p] \in Requests /\ held[p] <= md[p].size
    BY <1>0, <1>3 DEF Fits
  <2> QED BY <2>1, <2>2, <1>2, Constants
<1>4. CASE p = op.v
  <2>1. Blocks[p] = op.want
    BY <1>4 DEF Blocks
  <2>2. Dest(op) = "done"
    <3>1. /\ op.at \in Points /\ op.at # "abort" /\ (op.at = "idle" => op.v = NULL)
          /\ (Freeing(op) => op.then \in {"sys_done", "memalign_tail", "done"})
      BY <1>0, IdleIs DEF OpKnown, OpType
    <3>2. /\ Dest(op) \notin Mallocing /\ Dest(op) # "realloc" /\ Dest(op) # "got"
          /\ Dest(op) # "memalign_tail" /\ Dest(op) \notin {"assert", "null_load"}
      BY <1>0, <1>2, <1>4 DEF OpKnown, Mallocing
    <3> QED BY <3>1, <3>2, <1>2, <1>4 DEF Dest, Freeing, Points, Mallocing
  <2>3. op.want \in Requests /\ op.want <= md[p].size
    <3>1. op.want \in Requests
      BY <2>2, <1>0, <1>2, <1>4 DEF OpKnown
    <3>2. md[p].size >= op.want
      BY <2>2, <1>0, <1>2, <1>4 DEF Fits
    <3> QED BY <3>1, <3>2, <1>2, Constants
  <2> QED BY <2>1, <2>3, <1>2, Constants
<1> QED BY <1>3, <1>4

\* what an allocator promises of its blocks, in the chunks that hold them
BlocksApart ==
    /\ Abstract!WellPlaced(Blocks, owned)
    /\ DOMAIN Blocks \subseteq NULL .. MmapTop /\ owned \subseteq NULL .. MmapTop

LEMMA BlocksPlaced == HeapInv => BlocksApart
<1> SUFFICES ASSUME HeapInv PROVE BlocksApart
  OBVIOUS
<1>1. Geo(md, top, seams, owned) /\ MemoryInv
  BY HeapIs DEF HeapInv
<1>2. DOMAIN Blocks = DOMAIN held
  BY DEF Blocks
<1>3. ASSUME NEW p \in DOMAIN held, NEW x \in Int, p <= x, x < p + md[p].size
      PROVE  x \in owned
  <2>1. p \in ChunksOf(md) /\ p \in Nat
    BY BlockFits
  <2>2. x \in Nat
    BY <1>3, <2>1
  <2> QED BY <2>1, <2>2, <1>1, <1>3 DEF Geo, Covers
<1>4. ASSUME NEW p \in DOMAIN held
      PROVE  Abstract!Block(p, Blocks[p]) \subseteq owned
  <2> SUFFICES ASSUME NEW x \in Abstract!Block(p, Blocks[p]) PROVE x \in owned
    OBVIOUS
  <2>1. p \in Nat /\ Blocks[p] \in Nat /\ md[p].size \in Nat /\ Blocks[p] <= md[p].size
    BY BlockFits
  <2>2. x \in p .. p + Blocks[p] - 1
    BY DEF Abstract!Block
  <2>3. x \in Int /\ p <= x /\ x < p + md[p].size
    BY <2>1, <2>2
  <2> QED BY <2>3, <1>3
<1>5. ASSUME NEW p \in DOMAIN held, NEW q \in DOMAIN held, p # q
      PROVE  Abstract!Block(p, Blocks[p]) \cap Abstract!Block(q, Blocks[q]) = {}
  <2> SUFFICES ASSUME NEW x \in Abstract!Block(p, Blocks[p]), x \in Abstract!Block(q, Blocks[q])
               PROVE  FALSE
    OBVIOUS
  <2>1. /\ p \in Nat /\ Blocks[p] \in Nat /\ md[p].size \in Nat /\ Blocks[p] <= md[p].size
        /\ p \in ChunksOf(md)
    BY BlockFits
  <2>2. /\ q \in Nat /\ Blocks[q] \in Nat /\ md[q].size \in Nat /\ Blocks[q] <= md[q].size
        /\ q \in ChunksOf(md)
    BY BlockFits
  <2>3. x \in p .. p + Blocks[p] - 1 /\ x \in q .. q + Blocks[q] - 1
    BY DEF Abstract!Block
  <2>4. p + md[p].size <= q \/ q + md[q].size <= p
    BY <2>1, <2>2, <1>1, <1>5 DEF Geo, Apart
  <2> QED BY <2>1, <2>2, <2>3, <2>4
<1>6. Abstract!WellPlaced(Blocks, owned)
  BY <1>2, <1>4, <1>5 DEF Abstract!WellPlaced
<1>7. DOMAIN held \subseteq NULL .. MmapTop
  <2> SUFFICES ASSUME NEW p \in DOMAIN held PROVE p \in NULL .. MmapTop
    OBVIOUS
  <2>1. p \in Nat /\ Blocks[p] \in Nat /\ md[p].size \in Nat /\ Blocks[p] <= md[p].size
        /\ Blocks[p] >= 2
    BY BlockFits
  <2>2. p \in owned
    BY <2>1, <1>3
  <2>3. p < MmapTop
    BY <2>2, <1>1 DEF MemoryInv
  <2> QED BY <2>1, <2>3, Constants
<1>8. owned \subseteq NULL .. MmapTop
  <2> SUFFICES ASSUME NEW x \in owned PROVE x \in NULL .. MmapTop
    OBVIOUS
  <2>1. x \in Nat
    BY OwnedNat DEF HeapInv
  <2>2. x < MmapTop
    BY <1>1 DEF MemoryInv
  <2> QED BY <2>1, <2>2, Constants
<1> QED BY <1>2, <1>6, <1>7, <1>8 DEF BlocksApart

\* With the same blocks, at most the memory changes, but not under a block.
LEMMA BlocksStay ==
    ASSUME BlocksApart', Blocks' = Blocks
    PROVE  Abstract!Next
<1>1. \A p \in DOMAIN Blocks : Abstract!Block(p, Blocks[p]) \subseteq owned'
  BY DEF BlocksApart, Abstract!WellPlaced, Abstract!Block
<1>2. owned' \in SUBSET (NULL .. MmapTop)
  BY DEF BlocksApart
<1> QED BY <1>1, <1>2 DEF Abstract!Next, Abstract!Resize

\* The block p of n units is new, or takes the place of b.
Supplied(p, n, b) ==
    /\ Blocks' = [q \in (DOMAIN Blocks \ {b}) \cup {p} |-> IF q = p THEN n ELSE Blocks[q]]
    /\ p \in DOMAIN Blocks => p = b

LEMMA BlockSupplied ==
    ASSUME BlocksApart, BlocksApart', UNCHANGED owned, NEW p, NEW n \in Requests,
           NEW b \in NULL .. MmapTop, Supplied(p, n, b)
    PROVE  Abstract!Next
<1>1. p \in DOMAIN Blocks' /\ Blocks'[p] = n
  BY DEF Supplied
<1>2. p \in NULL .. MmapTop
  BY <1>1 DEF BlocksApart
<1>3. \A q \in DOMAIN Blocks \ {b} : q \in DOMAIN Blocks' /\ Blocks'[q] = Blocks[q] /\ q # p
  BY DEF Supplied
<1>4. /\ \A q \in DOMAIN Blocks' : Abstract!Block(q, Blocks'[q]) \subseteq owned'
      /\ \A q, r \in DOMAIN Blocks' :
            q # r => Abstract!Block(q, Blocks'[q]) \cap Abstract!Block(r, Blocks'[r]) = {}
  BY DEF BlocksApart, Abstract!WellPlaced, Abstract!Block
<1>5. \A q \in DOMAIN Blocks \ {b} : Abstract!Block(p, n) \cap Abstract!Block(q, Blocks[q]) = {}
  BY <1>1, <1>3, <1>4
<1>6. Abstract!Block(p, n) \subseteq owned
  BY <1>1, <1>4
<1>7. Abstract!Allocate(p, n, b)
  BY <1>5, <1>6 DEF Supplied, Abstract!Allocate
<1> QED BY <1>2, <1>7 DEF Abstract!Next

\* A routine that gives no block to the client and takes none from it.
LEMMA BlocksKept ==
    ASSUME UNCHANGED held,
           \/ op'.v = op.v /\ op'.want = op.want
           \/ op.v \notin DOMAIN held /\ op'.v \notin DOMAIN held
    PROVE  Blocks' = Blocks
BY DEF Blocks

\* NULL is no block
LEMMA NoBlock == ASSUME HeapInv PROVE NULL \notin DOMAIN held
<1> SUFFICES ASSUME NULL \in DOMAIN held PROVE FALSE
  OBVIOUS
<1>1. NULL \in Live
  BY DEF Live
<1>2. NULL \in Nat
  BY <1>1, LiveChunks DEF HeapInv
<1> QED BY <1>2, Constants

LEMMA GotKeepsBlocks ==
    ASSUME HeapInv, HeapInv', UNCHANGED held, op.at \in Mallocing, NEW x, Got(x)
    PROVE  Blocks' = Blocks
<1>1. op.v = NULL /\ op \in OpType
  BY Asked
<1>2. op'.at = "got" /\ OpKnown(op', DOMAIN held', top')
  BY <1>1 DEF Got, OpType, HeapInv, CallInv
<1>3. op'.v \notin DOMAIN held
  BY <1>2 DEF OpKnown, Dest, Freeing
<1> QED BY <1>1, <1>3, NoBlock, BlocksKept

\* the client's new block, and the one it gives up
LEMMA GivesBlock ==
    ASSUME HeapInv, BlocksApart, BlocksApart', UNCHANGED owned, NEW n \in Requests,
           NEW b \in DOMAIN held \cup {op.v}, Give(op.v, n, b), op.v # NULL,
           op.v \in DOMAIN held => op.v = b, op'.v = NULL
    PROVE  Abstract!Next
<1>1. NULL \notin DOMAIN held'
  BY NoBlock DEF Give
<1>2. Blocks' = held'
  <2>1. Blocks' = [q \in DOMAIN held' |-> held'[q]]
    BY <1>1 DEF Blocks
  <2> QED BY <2>1 DEF Give
<1>3. Supplied(op.v, n, b)
  <2>1. DOMAIN Blocks = DOMAIN held
    BY DEF Blocks
  <2>2. \A q \in DOMAIN held \ {b} : Blocks[q] = held[q]
    BY DEF Blocks
  <2> QED BY <1>2, <2>1, <2>2 DEF Give, Supplied
<1>4. b \in NULL .. MmapTop
  <2>1. op.v \in DOMAIN Blocks' /\ (b # op.v => b \in DOMAIN Blocks)
    BY <1>3 DEF Supplied, Blocks
  <2> QED BY <2>1 DEF BlocksApart
<1> QED BY <1>3, <1>4, BlockSupplied

\* realloc keeps its block, which has its new size at once
LEMMA ResizesBlock ==
    ASSUME BlocksApart, BlocksApart', UNCHANGED <<owned, held>>, op.v \notin DOMAIN held,
           op.blk \in DOMAIN held, op'.v = op.blk, op'.want = op.want, op.want \in Requests
    PROVE  Abstract!Next
<1>1. Supplied(op.blk, op.want, op.blk)
  BY DEF Blocks, Supplied
<1>2. op.blk \in NULL .. MmapTop
  BY DEF BlocksApart, Blocks
<1> QED BY <1>1, <1>2, BlockSupplied

LEMMA KeepFirstOp ==
    ASSUME op \in OpType, NEW m, NEW p, NEW nb, KeepFirst(m, p, nb)
    PROVE  op'.v = p /\ op'.want = op.want
BY DEF KeepFirst, FreeThen, OpType

\* The calls, and the mutex they wait for: free gives its block up at once.
LEMMA CallBlocks ==
    ASSUME HeapInv, HeapInv', BlocksApart, BlocksApart', Call
    PROVE  Abstract!Next
<1>1. op \in OpType /\ OpKnown(op, DOMAIN held, top)
  BY DEF HeapInv, CallInv, OpKnown
<1>2. CASE ~\E p \in DOMAIN held : CallFree(p)
  <2>0. \/ \E nb \in Requests : CallMalloc(nb)
        \/ \E p \in DOMAIN held, nb \in Requests : CallRealloc(p, nb)
        \/ \E a \in Alignments, nb \in Requests : CallMemalign(a, nb)
        \/ \E pad \in Pads : CallTrim(pad)
    BY <1>2 DEF Call
  <2>1. op.at = "idle"
    <3>1. ASSUME NEW nb, CallMalloc(nb) PROVE At("idle")
      BY <3>1 DEF CallMalloc
    <3>2. ASSUME NEW p, NEW nb, CallRealloc(p, nb) PROVE At("idle")
      BY <3>2 DEF CallRealloc
    <3>3. ASSUME NEW a, NEW nb, CallMemalign(a, nb) PROVE At("idle")
      BY <3>3 DEF CallMemalign
    <3>4. ASSUME NEW pad, CallTrim(pad) PROVE At("idle")
      BY <3>4 DEF CallTrim
    <3>5. At("idle")
      BY <2>0, <3>1, <3>2, <3>3, <3>4, Zenon
    <3> QED BY <3>5 DEF At
  <2>2. op.v = NULL
    BY <1>1, <2>1, IdleIs DEF OpKnown
  <2>3. op'.v = NULL /\ UNCHANGED held
    <3>1. CASE \E nb \in Requests : CallMalloc(nb)
      BY <3>1, IdleIs DEF CallMalloc, OpType, client
    <3>2. CASE \E p \in DOMAIN held, nb \in Requests : CallRealloc(p, nb)
      BY <3>2, IdleIs DEF CallRealloc, OpType, client
    <3>3. CASE \E a \in Alignments, nb \in Requests : CallMemalign(a, nb)
      BY <3>3, IdleIs DEF CallMemalign, OpType, client
    <3>4. CASE \E pad \in Pads : CallTrim(pad)
      BY <3>4, IdleIs DEF CallTrim, OpType, client
    <3> QED BY <2>0, <3>1, <3>2, <3>3, <3>4
  <2> QED BY <2>2, <2>3, NoBlock, BlocksKept, BlocksStay
<1>3. ASSUME NEW p \in DOMAIN held, CallFree(p) PROVE Abstract!Next
  <2>1. /\ held' = [q \in DOMAIN held \ {p} |-> held[q]] /\ op' = op
        /\ UNCHANGED owned
    BY <1>3 DEF CallFree, system
  <2>2. Blocks' = [q \in DOMAIN Blocks \ {p} |-> Blocks[q]] /\ p \in DOMAIN Blocks
    BY <2>1 DEF Blocks
  <2>3. p \in NULL .. MmapTop
    BY <2>2 DEF BlocksApart
  <2> QED BY <2>1, <2>2, <2>3 DEF Abstract!Next, Abstract!Free
<1> QED BY <1>2, <1>3

LEMMA LockBlocks ==
    ASSUME HeapInv, BlocksApart', Lock
    PROVE  Abstract!Next
<1>1. op = Idle
  <2>1. ASSUME NEW f \in entering, LockFree(f) PROVE At("idle")
    BY <2>1 DEF LockFree
  <2>2. ASSUME NEW r \in retrying, LockRetry(r) PROVE At("idle")
    BY <2>2 DEF LockRetry
  <2>3. op.at = "idle"
    BY <2>1, <2>2 DEF Lock, At
  <2> QED BY <2>3 DEF HeapInv, CallInv, OpKnown
<1>2. op'.v = NULL /\ UNCHANGED held
  <2>1. ASSUME NEW f \in entering, LockFree(f) PROVE op'.v = NULL /\ UNCHANGED held
    BY <2>1, IdleIs DEF LockFree, OpType
  <2>2. ASSUME NEW r \in retrying, LockRetry(r) PROVE op'.v = NULL /\ UNCHANGED held
    BY <2>2, IdleIs DEF LockRetry, OpType
  <2> QED BY <2>1, <2>2 DEF Lock
<1> QED BY <1>1, <1>2, IdleIs, NoBlock, BlocksKept, BlocksStay

\* _int_malloc and sysmalloc: the chunk they find is not yet the client's.
LEMMA MallocBlocks ==
    ASSUME HeapInv, HeapInv', BlocksApart',
           \/ NoMetadata \/ MallocFast \/ MallocSmall \/ MallocMiss
           \/ UnsortedRemainder \/ UnsortedNext \/ UnsortedDone
           \/ LargeFit \/ BinFit \/ BinNone
           \/ UseTop \/ TopConsolidate \/ TopTooSmall
           \/ CheckTop \/ SysRefused \/ SysSplit \/ SysEnomem
    PROVE  Abstract!Next
<1>1. op \in OpType
  BY DEF HeapInv, CallInv, OpKnown
<1>2. ASSUME op.at \in Mallocing, UNCHANGED held, \E x : Got(x) PROVE Blocks' = Blocks
  BY <1>2, GotKeepsBlocks
<1>3. ASSUME UNCHANGED held, op'.v = op.v, op'.want = op.want PROVE Blocks' = Blocks
  BY <1>3, BlocksKept
<1>4. CASE NoMetadata \/ MallocFast \/ MallocSmall
  BY <1>2, <1>4, BlocksStay DEF NoMetadata, MallocFast, MallocSmall, At, Mallocing, client
<1>5. CASE MallocMiss
  <2>1. UNCHANGED held /\ op'.v = op.v /\ op'.want = op.want
    BY <1>1, <1>5 DEF MallocMiss, Consolidate, GoTo, OpType, client
  <2> QED BY <2>1, <1>3, BlocksStay
<1>6. CASE UnsortedRemainder
  <2>1. UNCHANGED held /\ op.at \in Mallocing /\ (Abort \/ \E x : Got(x))
    BY <1>6 DEF UnsortedRemainder, At, Mallocing, client
  <2>2. Abort => op'.v = op.v /\ op'.want = op.want
    BY <1>1 DEF Abort, OpType
  <2> QED BY <2>1, <2>2, <1>2, <1>3, BlocksStay
<1>7. CASE UnsortedNext
  <2>1. /\ UNCHANGED held /\ op.at \in Mallocing
        /\ \/ Abort \/ \E x : Got(x)
           \/ op' = [op EXCEPT !.iters = @ + 1]
    BY <1>7 DEF UnsortedNext, At, Mallocing, client
  <2>2. Abort \/ op' = [op EXCEPT !.iters = @ + 1] => op'.v = op.v /\ op'.want = op.want
    BY <1>1 DEF Abort, OpType
  <2> QED BY <2>1, <2>2, <1>2, <1>3, BlocksStay
<1>8. CASE UnsortedDone \/ BinNone \/ TopConsolidate \/ TopTooSmall \/ CheckTop
  <2>1. UNCHANGED held /\ op'.v = op.v /\ op'.want = op.want
    BY <1>1, <1>8 DEF UnsortedDone, BinNone, TopConsolidate, TopTooSmall, CheckTop, Consolidate,
                      GoTo, OpType, client
  <2> QED BY <2>1, <1>3, BlocksStay
<1>9. CASE LargeFit \/ BinFit
  BY <1>2, <1>9, BlocksStay DEF LargeFit, BinFit, At, Mallocing, client
<1>10. CASE UseTop \/ SysSplit
  BY <1>2, <1>10, BlocksStay DEF UseTop, SysSplit, SplitTop, At, Mallocing, client
<1>11. CASE SysRefused \/ SysEnomem
  BY <1>2, <1>11, BlocksStay DEF SysRefused, SysEnomem, At, Mallocing, client
<1> QED BY <1>4, <1>5, <1>6, <1>7, <1>8, <1>9, <1>10, <1>11

\* The memory grows or shrinks, and chunks are freed, but no block is touched.
LEMMA FreeBlocks ==
    ASSUME HeapInv, BlocksApart',
           \/ SysExtend \/ SysSbrkRegion \/ SysSbrkNoncontiguous \/ SysMmapRegion
           \/ Free \/ FreeTrim \/ ConsolidateNext \/ ConsolidateDone \/ Systrim
    PROVE  Abstract!Next
<1>1. op \in OpType
  BY DEF HeapInv, CallInv, OpKnown
<1>2. ASSUME NEW b, NEW n, NewTop(b, n) PROVE op'.v = op.v /\ op'.want = op.want
  BY <1>1, <1>2 DEF NewTop, OpType
<1>3. UNCHANGED held
  BY DEF SysExtend, SysSbrkRegion, SysSbrkNoncontiguous, SysMmapRegion, Free, FreeTrim,
         ConsolidateNext, ConsolidateDone, Systrim, client
<1>4. CASE SysExtend
  BY <1>1, <1>3, <1>4, BlocksKept, BlocksStay DEF SysExtend, GoTo, OpType
<1>5. CASE SysSbrkRegion
  <2>1. \E b, n : NewTop(b, n)
    BY <1>5, Correction DEF SbrkedTwice
  <2> QED BY <2>1, <1>2, <1>3, BlocksKept, BlocksStay
<1>6. CASE SysSbrkNoncontiguous \/ SysMmapRegion
  <2>1. \E b, n : NewTop(b, n)
    BY <1>6 DEF SysSbrkNoncontiguous, SysMmapRegion
  <2> QED BY <2>1, <1>2, <1>3, BlocksKept, BlocksStay
<1>7. CASE Free
  <2>1. \/ Abort \/ Return
        \/ op' = [op EXCEPT !.at = IF have_fast THEN "consolidate" ELSE "trim_check",
                            !.cont = "trim_check", !.p = NULL, !.tc = NULL]
    BY <1>7 DEF Free, FreeFast, FreeMerge
  <2>2. op'.v = op.v /\ op'.want = op.want
    BY <1>1, <2>1 DEF Abort, Return, OpType
  <2> QED BY <2>2, <1>3, BlocksKept, BlocksStay
<1>8. CASE FreeTrim
  <2>1. op'.v = op.v /\ op'.want = op.want
    BY <1>1, <1>8 DEF FreeTrim, OpType
  <2> QED BY <2>1, <1>3, BlocksKept, BlocksStay
<1>9. CASE ConsolidateNext
  <2>1. Abort \/ UNCHANGED op
    BY <1>9 DEF ConsolidateNext
  <2>2. op'.v = op.v /\ op'.want = op.want
    BY <1>1, <2>1 DEF Abort, OpType
  <2> QED BY <2>2, <1>3, BlocksKept, BlocksStay
<1>10. CASE ConsolidateDone \/ Systrim
  <2>1. op'.v = op.v /\ op'.want = op.want
    BY <1>1, <1>10 DEF ConsolidateDone, Systrim, GoTo, OpType
  <2> QED BY <2>1, <1>3, BlocksKept, BlocksStay
<1> QED BY <1>4, <1>5, <1>6, <1>7, <1>8, <1>9, <1>10

\* realloc as far as _int_realloc: the block keeps its place, or nothing changes yet.
LEMMA ReallocBlocks ==
    ASSUME HeapInv, BlocksApart, BlocksApart', Realloc
    PROVE  Abstract!Next
<1>1. op \in OpType /\ op.at = "realloc" /\ OpKnown(op, DOMAIN held, top)
  BY DEF HeapInv, CallInv, OpKnown, Realloc, At
<1>2. /\ op.v = NULL /\ op.blk \in DOMAIN held /\ op.want \in Requests
  BY <1>1 DEF OpKnown, Dest, Freeing, Asks
<1>3. op.v \notin DOMAIN held
  BY <1>2, NoBlock
<1>4. UNCHANGED <<owned, held>>
  BY DEF Realloc, system, client
<1>5. \/ Abort \/ GoTo("malloc") \/ GrowIntoTop(op.blk)
      \/ \E m : KeepFirst(m, op.blk, op.nb)
  BY DEF Realloc, GrowIntoNext
<1>6. CASE Abort \/ GoTo("malloc")
  <2>1. op'.v = op.v /\ op'.want = op.want
    BY <1>1, <1>6 DEF Abort, GoTo, OpType
  <2> QED BY <2>1, <1>4, BlocksKept, BlocksStay
<1>7. CASE GrowIntoTop(op.blk) \/ \E m : KeepFirst(m, op.blk, op.nb)
  <2>1. op'.v = op.blk /\ op'.want = op.want
    <3>1. GrowIntoTop(op.blk) => op'.v = op.blk /\ op'.want = op.want
      BY <1>1 DEF GrowIntoTop, OpType
    <3> QED BY <3>1, <1>1, <1>7, KeepFirstOp
  <2> QED BY <2>1, <1>2, <1>3, <1>4, ResizesBlock
<1> QED BY <1>5, <1>6, <1>7

\* The callers of _int_malloc: the chunk becomes the client's block.
LEMMA CallerBlocks ==
    ASSUME HeapInv, HeapInv', BlocksApart, BlocksApart',
           \/ GotMalloc \/ GotNull \/ GotReallocNull \/ GotReallocNext \/ GotReallocMove
           \/ GotRetry \/ GotMemalign
    PROVE  Abstract!Next
<1>1. /\ op \in OpType /\ op.at = "got" /\ OpKnown(op, DOMAIN held, top)
  BY DEF HeapInv, CallInv, OpKnown, GotMalloc, GotNull, GotReallocNull, GotReallocNext,
         GotReallocMove, GotRetry, GotMemalign, At
<1>2. op.v \notin DOMAIN held /\ Asks(op, DOMAIN held)
  BY <1>1 DEF OpKnown, Dest, Freeing
<1>3. CASE GotMalloc
  <2>1. op.nb \in Requests /\ op.v # NULL
    BY <1>2, <1>3 DEF GotMalloc, Asks
  <2>2. UNCHANGED owned /\ Give(op.v, op.nb, op.v) /\ op'.v = NULL
    BY <1>3, IdleIs DEF GotMalloc, system
  <2> QED BY <2>1, <2>2, GivesBlock
<1>4. CASE GotNull
  <2>1. UNCHANGED held /\ op'.v = NULL
    BY <1>4, IdleIs DEF GotNull, client
  <2> QED BY <2>1, <1>2, NoBlock, BlocksKept, BlocksStay
<1>5. CASE GotReallocNext
  <2>1. op'.v = op.blk /\ op'.want = op.want
    BY <1>1, <1>5, KeepFirstOp DEF GotReallocNext
  <2>2. op.blk \in DOMAIN held /\ op.want \in Requests
    BY <1>2, <1>5 DEF GotReallocNext, Asks
  <2>3. UNCHANGED <<owned, held>>
    BY <1>5 DEF GotReallocNext, system, client
  <2> QED BY <2>1, <2>2, <2>3, <1>2, ResizesBlock
<1>6. CASE GotReallocMove
  <2>1. op.blk \in DOMAIN held /\ op.want \in Requests /\ op.v # NULL
    BY <1>2, <1>6 DEF GotReallocMove, Asks
  <2>2. UNCHANGED owned /\ Give(op.v, op.want, op.blk)
    BY <1>6 DEF GotReallocMove, system
  <2>3. op'.v = NULL
    BY <1>1, <1>6 DEF GotReallocMove, FreeThen, OpType
  <2> QED BY <2>1, <2>2, <2>3, <1>2, GivesBlock
<1>7. CASE GotRetry
  <2>1. op.blk \in DOMAIN held /\ op.want \in Requests /\ op.v # NULL
    BY <1>2, <1>7 DEF GotRetry, Asks
  <2>2. UNCHANGED owned /\ Give(op.v, op.want, op.blk) /\ op'.v = NULL
    BY <1>7, IdleIs DEF GotRetry, system
  <2> QED BY <2>1, <2>2, <1>2, GivesBlock
<1>8. CASE GotMemalign
  <2>1. UNCHANGED held
    BY <1>8 DEF GotMemalign, client
  <2>2. op'.v = op.v \/ (op'.at = "free" /\ op'.then = "memalign_tail")
    BY <1>1, <1>8 DEF GotMemalign, GoTo, FreeThen, OpType
  <2>3. op'.v \notin DOMAIN held
    <3>1. OpKnown(op', DOMAIN held', top')
      BY DEF HeapInv, CallInv
    <3>2. op'.at = "free" /\ op'.then = "memalign_tail" => op'.v \notin DOMAIN held
      BY <3>1, <2>1 DEF OpKnown, Dest, Freeing
    <3> QED BY <3>2, <2>2, <1>2
  <2> QED BY <2>1, <2>3, <1>2, BlocksKept, BlocksStay
<1>9. CASE GotReallocNull
  <2>1. UNCHANGED held /\ op.v = NULL
    BY <1>9 DEF GotReallocNull
  <2>2. op'.v = NULL
    BY <1>1, <1>9, <2>1, IdleIs DEF GotReallocNull, GoTo, OpType
  <2> QED BY <2>1, <2>2, <1>2, BlocksKept, BlocksStay
<1> QED BY <1>3, <1>4, <1>5, <1>6, <1>7, <1>8, <1>9

\* The last steps of memalign and realloc.
LEMMA DoneBlocks ==
    ASSUME HeapInv, BlocksApart, BlocksApart', MemalignTail \/ Done \/ ReallocNoMetadata
    PROVE  Abstract!Next
<1>1. op \in OpType /\ OpKnown(op, DOMAIN held, top)
  BY DEF HeapInv, CallInv, OpKnown
<1>2. CASE MemalignTail
  <2>1. UNCHANGED held
    BY <1>2 DEF MemalignTail, client
  <2>2. op'.v = op.v /\ op'.want = op.want
    BY <1>1, <1>2 DEF MemalignTail, GoTo, FreeThen, OpType
  <2> QED BY <2>1, <2>2, BlocksKept, BlocksStay
<1>3. CASE ReallocNoMetadata
  <2>1. op.at = "realloc" /\ UNCHANGED held /\ op'.v = NULL
    BY <1>3, IdleIs DEF ReallocNoMetadata, At, client
  <2>2. op.v = NULL
    BY <1>1, <2>1 DEF OpKnown, Dest, Freeing
  <2> QED BY <2>1, <2>2, NoBlock, BlocksKept, BlocksStay
<1>4. CASE Done
  <2>1. op.at = "done" /\ op'.v = NULL /\ UNCHANGED owned
    BY <1>4, IdleIs DEF Done, At, system
  <2>2. CASE op.v = NULL
    <3>1. UNCHANGED held
      BY <1>4, <2>2 DEF Done
    <3> QED BY <2>1, <2>2, <3>1, NoBlock, BlocksKept, BlocksStay
  <2>3. CASE op.v # NULL
    <3>1. Give(op.v, op.want, op.v)
      BY <1>4, <2>3 DEF Done
    <3>2. op.want \in Requests
      BY <1>1, <2>1, <2>3 DEF OpKnown, Dest, Freeing
    <3> QED BY <2>1, <2>3, <3>1, <3>2, GivesBlock
  <2> QED BY <2>2, <2>3
<1> QED BY <1>2, <1>3, <1>4

LEMMA StepIsAllocators ==
    HeapInv /\ HeapInv' /\ BlocksApart /\ BlocksApart' /\ [Next]_vars
    => [Abstract!Next]_<<Blocks, owned>>
<1> SUFFICES ASSUME HeapInv, HeapInv', BlocksApart, BlocksApart', [Next]_vars
             PROVE  [Abstract!Next]_<<Blocks, owned>>
  OBVIOUS
<1>1. CASE UNCHANGED vars
  BY <1>1 DEF vars, system, client, Blocks
<1>2. CASE Call
  BY <1>2, CallBlocks
<1>3. CASE Lock
  BY <1>3, LockBlocks
<1>4. ASSUME NEW k \in ForeignSteps, ForeignSbrk(k) PROVE Abstract!Next
  <2>1. Blocks' = Blocks
    BY <1>4 DEF ForeignSbrk, client, Blocks
  <2> QED BY <2>1, BlocksStay
<1>5. CASE Step
  <2>1. \/ NoMetadata \/ MallocFast \/ MallocSmall \/ MallocMiss
        \/ UnsortedRemainder \/ UnsortedNext \/ UnsortedDone
        \/ LargeFit \/ BinFit \/ BinNone
        \/ UseTop \/ TopConsolidate \/ TopTooSmall
        \/ CheckTop \/ SysRefused \/ SysSplit \/ SysEnomem
        => Abstract!Next
    BY MallocBlocks
  <2>2. \/ SysExtend \/ SysSbrkRegion \/ SysSbrkNoncontiguous \/ SysMmapRegion
        \/ Free \/ FreeTrim \/ ConsolidateNext \/ ConsolidateDone \/ Systrim
        => Abstract!Next
    BY FreeBlocks
  <2>3. \/ GotMalloc \/ GotNull \/ GotReallocNull \/ GotReallocNext \/ GotReallocMove
        \/ GotRetry \/ GotMemalign
        => Abstract!Next
    BY CallerBlocks
  <2>4. MemalignTail \/ Done \/ ReallocNoMetadata \/ Realloc => Abstract!Next
    BY DoneBlocks, ReallocBlocks
  <2> QED BY <1>5, <2>1, <2>2, <2>3, <2>4 DEF Step
<1>6. CASE Ended
  BY <1>1, <1>6 DEF Ended
<1> QED BY <1>1, <1>2, <1>3, <1>4, <1>5, <1>6 DEF Next

LEMMA InitIsAllocators == Init => Abstract!Init
BY DEF Init, Abstract!Init, Blocks

\* malloc, free, realloc and memalign are an allocator: a block lies in memory that the
\* system has given, and no two blocks overlap, whatever the chunks under them go through.
THEOREM ImplementsAllocator == ASSUME NThreads = 1 PROVE Spec => IsAllocator
<1>1. HeapInv => BlocksApart
  BY BlocksPlaced
<1>2. Init => Abstract!Init
  BY InitIsAllocators
<1>3. HeapInv /\ HeapInv' /\ BlocksApart /\ BlocksApart' /\ [Next]_vars
      => [Abstract!Next]_<<Blocks, owned>>
  BY StepIsAllocators
<1> QED BY <1>1, <1>2, <1>3, HeapInvHolds, PTL DEF Spec, IsAllocator, Abstract!Spec

\* The blocks that clients hold, and the one a call is about to return, never overlap and
\* never leave the memory that sbrk and mmap gave, whatever malloc, free, realloc, memalign
\* and malloc_trim split off, merged, moved or trimmed in between.
THEOREM ClientBlocksApart == ASSUME NThreads = 1 PROVE Spec => []BlocksApart
<1>1. HeapInv => BlocksApart
  BY BlocksPlaced
<1> QED BY <1>1, HeapInvHolds, PTL

(***************************************************************************)
(* The best fit                                                            *)
(***************************************************************************)
\* in the search that follows the bin of the request's own size
Searching(r) ==
    r.at \in {"unsorted", "fit", "top"} \/ (r.at = "consolidate" /\ r.cont = "unsorted")

\* A small request is looked for further only if the bin of its size is empty.
NothingExact(r, b) ==
    Searching(r) /\ InSmallbinRange(r.nb) => b[BinIndex(r.nb)] = <<>>

SearchInv == HeapInv /\ NothingExact(op, bins)

LEMMA GotIs ==
    ASSUME op \in OpType, NEW v, Got(v)
    PROVE  op'.v = v /\ op'.at = "got"
BY DEF Got, OpType

\* A chunk in a later bin is larger.
LEMMA LaterIsLarger ==
    ASSUME NEW s \in ChunkSizes, NEW t \in ChunkSizes, s \in Nat, t \in Nat, s >= 2, t >= 2,
           BinIndex(t) > BinIndex(s)
    PROVE  s <= t
<1>1. BinIndex(s) \in Nat /\ BinIndex(t) \in Nat
  BY BinIndexIs
<1>2. BinIndex(t) >= BinIndex(s)
  BY <1>1
<1> QED BY <1>2, BinIndexMonotone

\* no binned chunk that is large enough is smaller than v
NoneBetter(v) ==
    \A i \in BinIdx \ {UNSORTED} : \A u \in ToSet(bins[i]) :
        md[u].size >= op.nb => md[v].size <= md[u].size

\* what the order of the bins says of a chunk that is large enough
LEMMA BinOfFit ==
    ASSUME HeapInv, op.at \in Mallocing, NEW i \in BinIdx \ {UNSORTED},
           NEW u \in ToSet(bins[i]), md[u].size >= op.nb
    PROVE  /\ BinIndex(md[u].size) = i /\ md[u].size \in ChunkSizes /\ md[u].size \in Nat
           /\ md[u].size >= 2 /\ i \in Nat /\ BinIndex(op.nb) \in Nat /\ i >= BinIndex(op.nb)
<1>1. PICK k \in DOMAIN bins[i] : u = bins[i][k]
  BY DEF ToSet
<1>2. /\ BinIndex(md[u].size) = i /\ md[u].size \in ChunkSizes /\ md[u].size \in Nat
      /\ md[u].size >= 2
  BY <1>1, BinnedSize
<1>3. /\ op.nb \in Nat /\ op.nb >= 2 /\ op.nb \in ChunkSizes
  BY Asked, AskedSize
<1>4. BinIndex(op.nb) \in Nat /\ i \in Nat
  BY <1>3, BinIndexIs, Constants
<1>5. i >= BinIndex(op.nb)
  <2> SUFFICES ASSUME BinIndex(op.nb) > i PROVE FALSE
    BY <1>4
  <2>s. PICK s : s = md[u].size
    OBVIOUS
  <2>n. PICK n : n = op.nb
    OBVIOUS
  <2>0. n \in ChunkSizes /\ s \in ChunkSizes /\ n \in Nat /\ s \in Nat /\ n >= 2 /\ s >= 2
        /\ BinIndex(n) > BinIndex(s)
    BY <1>2, <1>3, <2>s, <2>n
  <2>1. s <= n
    BY ONLY <2>0, LaterIsLarger
  <2>2. n = s
    BY <2>0, <2>1, <2>s, <2>n
  <2> QED BY <2>2, <2>s, <2>n, <1>2, <1>4
<1> QED BY <1>2, <1>4, <1>5

LEMMA LargeFitBest == ASSUME HeapInv, LargeFit PROVE NoneBetter(op'.v)
<1>1. op.at \in Mallocing /\ BinIndex(op.nb) \in BinIdx \ {UNSORTED} /\ op \in OpType
  BY LargeFitIs DEF HeapInv, CallInv, OpKnown
<1>2. PICK k \in DOMAIN OwnBin : \E v : v = OwnBin[k] /\ BestOfOwn(v) /\ Got(v)
  BY LargeFitIs
<1>3. PICK v : v = OwnBin[k] /\ BestOfOwn(v) /\ Got(v)
  BY <1>2
<1>4. op'.v = v
  BY <1>1, <1>3, GotIs
<1>b. PICK b : b = BinIndex(op.nb)
  OBVIOUS
<1>5. v \in ToSet(bins[b]) /\ md[v].size >= op.nb /\ b \in BinIdx \ {UNSORTED}
  BY <1>1, <1>3, <1>b DEF OwnBin, BestOfOwn, ToSet
<1>6. BinIndex(md[v].size) = b /\ md[v].size \in ChunkSizes /\ md[v].size \in Nat
      /\ md[v].size >= 2
  BY <1>1, <1>5, BinOfFit
<1>7. ASSUME NEW i \in BinIdx \ {UNSORTED}, NEW u \in ToSet(bins[i]), md[u].size >= op.nb
      PROVE  md[v].size <= md[u].size
  <2>1. /\ BinIndex(md[u].size) = i /\ md[u].size \in ChunkSizes /\ md[u].size \in Nat
        /\ md[u].size >= 2 /\ i \in Nat /\ b \in Nat /\ i >= b
    BY <1>1, <1>7, <1>b, BinOfFit
  <2>2. CASE i = b
    <3>1. u \in ToSet(OwnBin)
      BY <1>b, <1>7, <2>2 DEF OwnBin
    <3> QED BY <3>1, <1>3, <1>7 DEF BestOfOwn
  <2>3. CASE i > b
    BY <2>1, <2>3, <1>6, LaterIsLarger
  <2> QED BY <2>1, <2>2, <2>3
<1> QED BY <1>4, <1>7 DEF NoneBetter

LEMMA BinFitBest == ASSUME SearchInv, BinFit PROVE NoneBetter(op'.v)
<1>i. PICK i : i = Min(FitBins)
  OBVIOUS
<1>v. PICK v : v = Last(bins[i])
  OBVIOUS
<1>b. PICK b : b = BinIndex(op.nb)
  OBVIOUS
<1>0. op.at = "fit" /\ op.at \in Mallocing /\ FitBins # {} /\ ~LargeHit /\ HeapInv /\ Got(v)
  BY <1>i, <1>v DEF BinFit, At, Mallocing, SearchInv
<1>1. /\ op.nb \in Nat /\ op.nb >= 2 /\ Lists(bins, BinIdx) /\ LayoutInv /\ op \in OpType
      /\ op.nb \in ChunkSizes /\ b \in BinIdx \ {UNSORTED} /\ b \in Nat
  BY <1>0, <1>b, Asked, AskedSize, HeapIs, BinIndexIs
<1>2. i \in FitBins /\ \A j \in FitBins : i <= j
  <2>1. FitBins \subseteq Nat
    BY <1>0, Constants DEF FitBins, Marked, HeapInv, OtherTypes
  <2> QED BY <2>1, <1>0, <1>i, LeastOf
<1>3. i \in BinIdx /\ i > b /\ bins[i] # <<>> /\ i \in Nat
  BY <1>0, <1>2, <1>b, Constants DEF FitBins, Marked, HeapInv, OtherTypes
<1>4. i \in BinIdx \ {UNSORTED}
  BY <1>1, <1>3, Constants DEF BinIdx
<1>5. op'.v = v
  BY <1>0, <1>1, GotIs
<1>6. PICK l : l = Len(bins[i]) /\ l \in DOMAIN bins[i] /\ v = bins[i][l]
  BY <1>1, <1>3, <1>v, LastIs
<1>7. /\ BinIndex(md[v].size) = i /\ md[v].size \in ChunkSizes
      /\ md[v].size \in Nat /\ md[v].size >= 2
  BY <1>0, <1>4, <1>6, BinnedSize
\* nothing in the request's own bin is large enough
<1>8. ASSUME NEW u \in ToSet(bins[b]), md[u].size >= op.nb PROVE FALSE
  <2>s. PICK s : s = bins[b]
    OBVIOUS
  <2>1. s \in Seq(Int) /\ DOMAIN s = 1 .. Len(s) /\ Len(s) \in Nat
    BY <1>1, <2>s DEF Lists
  <2>2. PICK k \in DOMAIN s : u = s[k]
    BY <1>8, <2>s DEF ToSet
  <2>3. s # <<>> /\ 1 \in DOMAIN s /\ Head(s) = s[1]
    BY <2>1, <2>2
  <2>4. CASE InSmallbinRange(op.nb)
    <3>1. s = <<>>
      BY <1>0, <2>4, <2>s, <1>b DEF SearchInv, NothingExact, Searching
    <3> QED BY <3>1, <2>3
  <2>5. CASE ~InSmallbinRange(op.nb)
    <3>1. ~(md[s[1]].size >= op.nb)
      BY <1>0, <2>5, <2>3, <2>s, <1>b DEF LargeHit, OwnBin
    <3>2. md[s[1]].size \in Nat /\ md[s[k]].size \in Nat
      BY <1>0, <1>1, <2>2, <2>3, <2>s, BinnedSize
    <3>3. md[s[1]].size >= md[s[k]].size
      <4>1. \A x, y \in DOMAIN s : x < y => md[s[x]].size >= md[s[y]].size
        BY <1>1, <2>s DEF LayoutInv, Sorted
      <4>2. k = 1 \/ 1 < k
        BY <2>1, <2>2
      <4> QED BY <4>1, <4>2, <2>2, <2>3, <3>2
    <3> QED BY <3>1, <3>2, <3>3, <2>2, <1>8, <1>1
  <2> QED BY <2>4, <2>5
<1>9. ASSUME NEW j \in BinIdx \ {UNSORTED}, NEW u \in ToSet(bins[j]), md[u].size >= op.nb
      PROVE  md[v].size <= md[u].size
  <2>1. /\ BinIndex(md[u].size) = j /\ md[u].size \in ChunkSizes /\ md[u].size \in Nat
        /\ md[u].size >= 2 /\ j \in Nat /\ j >= b
    BY <1>0, <1>9, <1>b, BinOfFit
  <2>2. j # b
    BY <1>8, <1>9
  <2>3. i <= j
    <3>1. j > b
      BY <2>1, <2>2, <1>1
    <3>2. bins[j] # <<>>
      BY <1>9 DEF ToSet
    <3>3. j \in binmap
      BY <1>0, <3>2 DEF HeapInv, OtherTypes, Marks
    <3>4. j \in FitBins
      BY <3>1, <3>2, <3>3, <1>b DEF FitBins, Marked
    <3> QED BY <3>4, <1>2
  <2>4. CASE i = j
    <3>1. PICK k \in DOMAIN bins[i] : u = bins[i][k]
      BY <2>4, <1>9 DEF ToSet
    <3>2. k <= l /\ k \in Nat /\ l \in Nat
      BY <1>1, <1>3, <1>6, <3>1 DEF Lists
    <3>3. \A x, y \in DOMAIN bins[i] : x < y => md[bins[i][x]].size >= md[bins[i][y]].size
      BY <1>1, <1>4 DEF LayoutInv, Sorted
    <3>4. k = l \/ k < l
      BY <3>2
    <3> QED BY <3>1, <3>3, <3>4, <1>6, <1>7, <2>1
  <2>5. CASE i # j
    <3>1. BinIndex(md[u].size) > BinIndex(md[v].size)
      BY <2>1, <2>3, <2>5, <1>3, <1>7
    <3> QED BY <3>1, <2>1, <1>7, LaterIsLarger
  <2> QED BY <2>4, <2>5
<1> QED BY <1>5, <1>9 DEF NoneBetter

\* an empty bin other than the unsorted one
Hollow(b, i) == DOMAIN b = BinIdx /\ i \in BinIdx \ {UNSORTED} /\ b[i] = <<>>

LEMMA UnlinkHollow ==
    ASSUME NEW b, NEW i, Hollow(b, i), NEW p, NEW c, c = Unlink(b, p)
    PROVE  Hollow(c, i)
<1>1. c = [j \in BinIdx |-> RemoveFirst(b[j], p)]
  BY DEF Unlink
<1>2. DOMAIN c = BinIdx /\ c[i] = RemoveFirst(<<>>, p) /\ i \in BinIdx \ {UNSORTED}
  BY <1>1 DEF Hollow
<1>3. RemoveFirst(<<>>, p) = <<>>
  <2>1. ~\E k \in 1 .. Len(<<>>) : <<>>[k] = p
    OBVIOUS
  <2> QED BY <2>1, Zenon DEF RemoveFirst
<1> QED BY <1>2, <1>3 DEF Hollow

LEMMA PushHollow ==
    ASSUME NEW b, NEW i, Hollow(b, i), NEW p, NEW c, c = PushUnsorted(b, p)
    PROVE  Hollow(c, i)
BY DEF Hollow, PushUnsorted

LEMMA CoalesceHollow ==
    ASSUME NEW p, Coalesce(p, top), NEW i, Hollow(bins, i)
    PROVE  Hollow(bins', i)
<1>n. PICK n : n = md[p].md_next
  OBVIOUS
<1>q. PICK q : q = IF ~md[p].prev_inuse THEN md[p].md_prev ELSE p
  OBVIOUS
<1>s. PICK s : s = IF ~md[p].prev_inuse THEN Absorb(md, q, p) ELSE md
  OBVIOUS
<1>a. PICK ahead : ahead = MergesAhead(s, n, top)
  OBVIOUS
<1>1. JoinsBack(md, p, q, s)
  BY <1>q, <1>s DEF JoinsBack
<1>2. BinsJoined(bins, p, q, n, ahead, bins')
  BY <1>n, <1>a, <1>1, CoalesceIs
<1>l. PICK l : l = IF md[p].prev_inuse THEN bins ELSE Unlink(bins, q)
  OBVIOUS
<1>k. PICK k : k = IF ahead THEN Unlink(l, n) ELSE l
  OBVIOUS
<1>3. bins' = IF n = top THEN l ELSE PushUnsorted(k, q)
  BY <1>2, <1>l, <1>k DEF BinsJoined
<1>4. Hollow(l, i)
  BY <1>l, UnlinkHollow
<1>5. Hollow(k, i)
  BY <1>4, <1>k, UnlinkHollow
<1>6. CASE n = top
  BY <1>3, <1>4, <1>6
<1>7. CASE n # top
  BY <1>3, <1>5, <1>7, PushHollow
<1> QED BY <1>6, <1>7

\* The bin of the request's size is empty as long as nothing is filed there.
LEMMA StaysHollow ==
    ASSUME HeapInv, Searching(op), NothingExact(op, bins), InSmallbinRange(op.nb),
           op.nb \in ChunkSizes, op.nb \in Nat, op.nb >= 2
    PROVE  Hollow(bins, BinIndex(op.nb))
<1>1. BinIndex(op.nb) \in BinIdx \ {UNSORTED}
  BY BinIndexIs
<1>2. DOMAIN bins = BinIdx
  BY DEF HeapInv, LayoutInv, Lists
<1> QED BY <1>1, <1>2 DEF Hollow, NothingExact

\* The request goes on being looked for in the same bins.
LEMMA SearchGoesOn ==
    ASSUME NothingExact(op, bins), op'.nb = op.nb, UNCHANGED bins, Searching(op)
    PROVE  NothingExact(op', bins')
BY DEF NothingExact

LEMMA MissSearches == ASSUME HeapInv, MallocMiss PROVE NothingExact(op', bins')
<1>1. op \in OpType /\ bins' = bins /\ ~SmallHit
  BY DEF HeapInv, CallInv, OpKnown, MallocMiss
<1>2. op'.nb = op.nb
  BY <1>1 DEF MallocMiss, Consolidate, GoTo, OpType
<1> QED BY <1>1, <1>2 DEF NothingExact, SmallHit

\* A chunk of another size is not filed in the bin of a small request.
LEMMA NextSearches ==
    ASSUME HeapInv, NothingExact(op, bins), UnsortedNext
    PROVE  NothingExact(op', bins')
<1>v. PICK v : v = Victim
  OBVIOUS
<1>i. PICK i : i = BinIndex(md[v].size)
  OBVIOUS
<1>b. PICK b : b = BinIndex(op.nb)
  OBVIOUS
<1>c. PICK c : c = [bins EXCEPT ![UNSORTED] = Front(@)]
  OBVIOUS
<1>0. op.at = "unsorted" /\ op.at \in Mallocing /\ bins[UNSORTED] # <<>> /\ UNSORTED \in BinIdx
      /\ Searching(op)
  BY Constants DEF UnsortedNext, UnsortedNonempty, At, Mallocing, Searching
<1>1. /\ op.nb \in Nat /\ op.nb >= 2 /\ Lists(bins, BinIdx) /\ LayoutInv /\ MemoryInv
      /\ op \in OpType /\ Binned = Members(bins, BinIdx) /\ op.nb \in ChunkSizes
  BY <1>0, Asked, AskedSize, HeapIs DEF HeapInv
<1>2. PICK k : /\ k = Len(bins[UNSORTED]) /\ k \in DOMAIN bins[UNSORTED]
               /\ Last(bins[UNSORTED]) = bins[UNSORTED][k]
  BY <1>0, <1>1, LastIs
<1>3. v \in Binned /\ v \in Binned \cup Fast
  BY <1>0, <1>1, <1>2, <1>v, IsMember DEF Victim
<1>4. md[v].size \in Nat /\ md[v].size >= 2 /\ md[v].size \in ChunkSizes
  BY <1>1, <1>3, ListedChunks, SizeBound
<1>5. CASE VictimCorrupt \/ md[v].size = op.nb
  <2>1. (Abort \/ Got(v))
    BY <1>5, <1>v DEF UnsortedNext
  <2>2. op'.at \in {"abort", "got"}
    BY <2>1, <1>1 DEF Abort, Got, OpType
  <2> QED BY <2>2 DEF NothingExact, Searching
<1>6. CASE ~VictimCorrupt /\ md[v].size # op.nb
  <2>k. PICK x : x = Position(i, v)
    OBVIOUS
  <2>1. /\ bins' = [c EXCEPT ![i] = InsertAt(@, x, v)]
        /\ op' = [op EXCEPT !.iters = @ + 1]
    BY <1>6, <1>v, <1>c, <1>i, <2>k DEF UnsortedNext
  <2>2. op'.nb = op.nb
    BY <2>1, <1>1 DEF OpType
  <2>3. CASE InSmallbinRange(op.nb)
    <3>1. Hollow(bins, b)
      BY <1>0, <1>1, <1>b, <2>3, StaysHollow
    <3>2. DOMAIN c = BinIdx /\ c[b] = <<>> /\ b \in BinIdx
      BY <3>1, <1>c DEF Hollow
    <3>3. i # b
      <4>1. /\ MinLarge \in Nat /\ op.nb < MinLarge
            /\ b \in Nat /\ b = op.nb + 1 /\ i \in Nat
            /\ md[v].size < MinLarge => i = md[v].size + 1
            /\ md[v].size >= MinLarge => i > MinLarge
        BY <1>1, <1>4, <1>b, <1>i, <2>3, BinIndexIs, Constants DEF InSmallbinRange
      <4> QED BY <4>1, <1>1, <1>4, <1>6
    <3>4. bins'[b] = <<>>
      BY <2>1, <3>2, <3>3
    <3> QED BY <3>4, <2>2, <1>b DEF NothingExact
  <2>4. CASE ~InSmallbinRange(op.nb)
    BY <2>2, <2>4 DEF NothingExact
  <2> QED BY <2>3, <2>4
<1> QED BY <1>5, <1>6

\* The steps that only move the search on.
LEMMA TurnsSearch ==
    ASSUME HeapInv, NothingExact(op, bins), UnsortedDone \/ BinNone \/ TopConsolidate
    PROVE  NothingExact(op', bins')
<1>1. op \in OpType
  BY DEF HeapInv, CallInv, OpKnown
<1>2. Searching(op) /\ bins' = bins /\ op'.nb = op.nb
  <2>1. CASE UnsortedDone
    BY <1>1, <2>1 DEF UnsortedDone, At, Searching, heap, OpType
  <2>2. CASE BinNone
    BY <1>1, <2>2 DEF BinNone, At, Searching, GoTo, OpType
  <2>3. CASE TopConsolidate
    BY <1>1, <2>3 DEF TopConsolidate, At, Searching, Consolidate, OpType
  <2> QED BY <2>1, <2>2, <2>3
<1> QED BY <1>2, SearchGoesOn

\* the request of a malloc that consolidates first
LEMMA ConsolidateAsked ==
    ASSUME HeapInv, op.at = "consolidate", op.cont = "unsorted"
    PROVE  op.nb \in ChunkSizes /\ op.nb \in Nat /\ op.nb >= 2
<1>0. op \in OpType
  BY DEF HeapInv, CallInv, OpKnown
<1>1. Asks(op, DOMAIN held)
  BY DEF HeapInv, CallInv, OpKnown, Dest, Freeing, Mallocing
<1>2. op.want \in Nat /\ op.align \in Nat /\ op.nb \in Nat
  BY <1>0 DEF OpType
<1>3. \/ op.nb \in Requests
      \/ \E n \in Requests, a \in Alignments : op.nb = n + a + MINSIZE
  BY <1>1 DEF Asks
<1>4. op.nb \in Requests \/ op.nb = op.want + op.align + 2
  BY <1>1, Constants DEF Asks
<1>5. op.nb >= 2
  BY <1>2, <1>4, Constants
<1> QED BY <1>2, <1>3, <1>5 DEF ChunkSizes

LEMMA ConsolidateSearches ==
    ASSUME HeapInv, NothingExact(op, bins), ConsolidateNext \/ ConsolidateDone
    PROVE  NothingExact(op', bins')
<1>0. op \in OpType /\ op.at = "consolidate"
      /\ op.cont \in {"unsorted", "trim_check", "systrim"}
  BY DEF HeapInv, CallInv, OpKnown, ConsolidateNext, ConsolidateDone, At
<1>1. CASE op.cont # "unsorted"
  <2>1. op'.at = "abort" \/ op' = op \/ op'.at = op.cont
    BY <1>0 DEF ConsolidateNext, ConsolidateDone, Abort, GoTo, OpType
  <2> QED BY <2>1, <1>0, <1>1 DEF NothingExact, Searching
<1>2. CASE op.cont = "unsorted" /\ ConsolidateDone
  <2>1. Searching(op) /\ bins' = bins /\ op'.nb = op.nb
    BY <1>0, <1>2 DEF ConsolidateDone, GoTo, Searching, heap, OpType
  <2> QED BY <2>1, SearchGoesOn
<1>3. CASE op.cont = "unsorted" /\ ConsolidateNext
  <2>p. PICK p : p = Head(fastbins[Min(FilledFastbins)])
    OBVIOUS
  <2>1. \/ Abort
        \/ Coalesce(p, top) /\ op' = op
    BY <1>3, <2>p DEF ConsolidateNext
  <2>2. CASE Abort
    <3>1. op'.at = "abort"
      BY <1>0, <2>2 DEF Abort, OpType
    <3> QED BY <3>1 DEF NothingExact, Searching
  <2>3. CASE Coalesce(p, top) /\ op' = op
    <3>b. PICK b : b = BinIndex(op.nb)
      OBVIOUS
    <3>1. CASE InSmallbinRange(op.nb)
      <4>1. Hollow(bins, b)
        BY <1>0, <1>3, <3>1, <3>b, ConsolidateAsked, StaysHollow DEF Searching
      <4>2. Hollow(bins', b)
        BY <4>1, <2>3, CoalesceHollow
      <4> QED BY <4>2, <2>3, <3>b DEF NothingExact, Hollow
    <3>2. CASE ~InSmallbinRange(op.nb)
      BY <2>3, <3>2 DEF NothingExact
    <3> QED BY <3>1, <3>2
  <2> QED BY <2>1, <2>2, <2>3
<1> QED BY <1>1, <1>2, <1>3

\* The calls, and the steps of _int_malloc, sysmalloc and _int_free after which
\* nothing is looked for.
LEMMA CallSearches ==
    ASSUME HeapInv, NothingExact(op, bins), Call \/ Lock
    PROVE  NothingExact(op', bins')
<1>i. Idle \in OpType
  BY IdleIs
<1>1. ASSUME NEW nb, CallMalloc(nb) PROVE op'.at = "malloc"
  BY <1>i, <1>1 DEF CallMalloc, OpType
<1>2. ASSUME NEW p, NEW nb, CallRealloc(p, nb) PROVE op'.at = "realloc"
  BY <1>i, <1>2 DEF CallRealloc, OpType
<1>3. ASSUME NEW a, NEW nb, CallMemalign(a, nb) PROVE op'.at = "malloc"
  BY <1>i, <1>3 DEF CallMemalign, OpType
<1>4. ASSUME NEW pad, CallTrim(pad) PROVE op'.at = "consolidate" /\ op'.cont = "systrim"
  BY <1>i, <1>4 DEF CallTrim, OpType
<1>5. ASSUME NEW p, CallFree(p) PROVE op' = op /\ bins' = bins
  BY <1>5 DEF CallFree, heap
<1>6. ASSUME NEW f, LockFree(f) PROVE op'.at = "free"
  BY <1>i, <1>6 DEF LockFree, OpType
<1>7. ASSUME NEW r, LockRetry(r) PROVE op'.at = "malloc"
  BY <1>i, <1>7 DEF LockRetry, OpType
<1>8. \/ op'.at \in {"malloc", "realloc", "free"} \/ (op' = op /\ bins' = bins)
      \/ op'.at = "consolidate" /\ op'.cont = "systrim"
  BY <1>1, <1>2, <1>3, <1>4, <1>5, <1>6, <1>7 DEF Call, Lock
<1> QED BY <1>8 DEF NothingExact, Searching

LEMMA MallocStops ==
    ASSUME HeapInv,
           \/ NoMetadata \/ MallocFast \/ MallocSmall \/ UnsortedRemainder \/ LargeFit
           \/ BinFit \/ UseTop \/ TopTooSmall \/ SysRefused \/ SysSplit \/ SysEnomem
    PROVE  op'.at \in {"got", "abort", "sys"} \/ (TopTooSmall /\ ~SysmallocReady)
<1>1. op \in OpType
  BY DEF HeapInv, CallInv, OpKnown
<1>2. ASSUME NEW v, Got(v) PROVE op'.at = "got"
  BY <1>1, <1>2 DEF Got, OpType
<1>3. ASSUME Abort PROVE op'.at = "abort"
  BY <1>1, <1>3 DEF Abort, OpType
<1>4. ASSUME GoTo("sys") PROVE op'.at = "sys"
  BY <1>1, <1>4 DEF GoTo, OpType
<1>5. \/ \E v : Got(v)
      \/ Abort \/ GoTo("sys") \/ (TopTooSmall /\ ~SysmallocReady)
  BY DEF NoMetadata, MallocFast, MallocSmall, UnsortedRemainder, LargeFit, BinFit, UseTop,
         SplitTop, TopTooSmall, SysRefused, SysSplit, SysEnomem
<1> QED BY <1>2, <1>3, <1>4, <1>5

LEMMA SystemStops ==
    ASSUME HeapInv, SysExtend \/ SysSbrkRegion \/ SysSbrkNoncontiguous \/ SysMmapRegion
    PROVE  op'.at \in {"sys_done", "free"}
<1>1. op \in OpType
  BY DEF HeapInv, CallInv, OpKnown
<1>2. ASSUME NEW base, NEW size, NewTop(base, size) PROVE op'.at \in {"sys_done", "free"}
  BY <1>1, <1>2 DEF NewTop, OpType
<1>3. ASSUME SysExtend PROVE op'.at = "sys_done"
  BY <1>1, <1>3 DEF SysExtend, GoTo, OpType
<1>4. ASSUME SysSbrkRegion PROVE \E base, size : NewTop(base, size)
  BY <1>4, Correction DEF SbrkedTwice
<1> QED BY <1>2, <1>3, <1>4 DEF SysSbrkNoncontiguous, SysMmapRegion

\* _int_free and systrim return to a routine that looks for nothing.
LEMMA FreeStops ==
    ASSUME HeapInv, Free \/ FreeTrim \/ Systrim
    PROVE  ~Searching(op') /\ op'.at # "assert"
<1>1. op \in OpType /\ op.at \in {"free", "trim_check", "systrim"}
      /\ op.then \in {"sys_done", "memalign_tail", "done"}
  BY DEF HeapInv, CallInv, OpKnown, Free, FreeTrim, Systrim, At, Freeing
<1>2. ASSUME Return PROVE op'.at = op.then
  BY <1>1, <1>2 DEF Return, OpType
<1>3. ASSUME Abort PROVE op'.at = "abort"
  BY <1>1, <1>3 DEF Abort, OpType
<1>4. ASSUME FreeMerge
      PROVE  \/ op'.at \in {op.then, "trim_check"}
             \/ op'.at = "consolidate" /\ op'.cont = "trim_check"
  <2>1. \/ Return
        \/ op' = [op EXCEPT !.at = IF have_fast THEN "consolidate" ELSE "trim_check",
                            !.cont = "trim_check", !.p = NULL, !.tc = NULL]
    BY <1>4 DEF FreeMerge
  <2>2. ASSUME Return PROVE op'.at = op.then
    BY <2>2, <1>2
  <2>3. ASSUME op' = [op EXCEPT !.at = IF have_fast THEN "consolidate" ELSE "trim_check",
                                !.cont = "trim_check", !.p = NULL, !.tc = NULL]
        PROVE  op'.at \in {"consolidate", "trim_check"} /\ op'.cont = "trim_check"
    BY <2>3, <1>1 DEF OpType
  <2> QED BY <2>1, <2>2, <2>3
<1>5. ASSUME FreeTrim \/ Systrim PROVE op'.at \in {"systrim", op.then}
  BY <1>1, <1>5 DEF FreeTrim, Systrim, GoTo, OpType
<1>6. ASSUME Free PROVE Abort \/ Return \/ FreeMerge
  BY <1>6 DEF Free, FreeFast
<1> QED BY <1>1, <1>2, <1>3, <1>4, <1>5, <1>6 DEF Searching

LEMMA CallerStops ==
    ASSUME HeapInv,
           \/ GotMalloc \/ GotNull \/ GotReallocNull \/ GotReallocNext \/ GotReallocMove
           \/ GotRetry \/ GotMemalign \/ MemalignTail \/ Done \/ ReallocNoMetadata \/ Realloc
    PROVE  op'.at \in {"idle", "free", "memalign_tail", "done", "malloc", "abort", "null_load"}
<1>1. op \in OpType
  BY DEF HeapInv, CallInv, OpKnown
<1>2. ASSUME op' = Idle PROVE op'.at = "idle"
  BY <1>2, IdleIs
<1>3. ASSUME NEW m, NEW p, NEW nb, KeepFirst(m, p, nb) PROVE op'.at \in {"done", "free"}
  BY <1>1, <1>3 DEF KeepFirst, FreeThen, OpType
<1>4. ASSUME NEW p, GrowIntoTop(p) PROVE op'.at = "done"
  BY <1>1, <1>4 DEF GrowIntoTop, OpType
<1>5. ASSUME GotReallocMove \/ GotMemalign \/ MemalignTail
      PROVE  op'.at \in {"free", "memalign_tail", "done"}
  BY <1>1, <1>5 DEF GotReallocMove, GotMemalign, MemalignTail, FreeThen, GoTo, OpType
<1>6. ASSUME Abort \/ GoTo("malloc") PROVE op'.at \in {"abort", "malloc"}
  BY <1>1, <1>6 DEF Abort, GoTo, OpType
<1>7. ASSUME Realloc
      PROVE  \/ Abort \/ GoTo("malloc")
             \/ \E m, p, nb : KeepFirst(m, p, nb)
             \/ \E p : GrowIntoTop(p)
  BY <1>7 DEF Realloc, GrowIntoNext
<1>8. ASSUME GotReallocNext PROVE \E m, p, nb : KeepFirst(m, p, nb)
  BY <1>8 DEF GotReallocNext
<1>9. ASSUME GotMalloc \/ GotNull \/ GotRetry \/ Done \/ ReallocNoMetadata PROVE op' = Idle
  BY <1>9 DEF GotMalloc, GotNull, GotRetry, Done, ReallocNoMetadata
<1>10. ASSUME GotReallocNull PROVE op'.at \in {"idle", "null_load"}
  BY <1>1, <1>10, IdleIs DEF GotReallocNull, GoTo, OpType
<1> QED BY <1>2, <1>3, <1>4, <1>5, <1>6, <1>7, <1>8, <1>9, <1>10

\* an assertion that fails ends the process
LEMMA CheckTopStops == ASSUME HeapInv, CheckTop PROVE op'.at = "assert"
<1>1. op \in OpType
  BY DEF HeapInv, CallInv, OpKnown
<1> QED BY <1>1 DEF CheckTop, GoTo, OpType

LEMMA TopTooSmallStops == ASSUME HeapInv, TopTooSmall PROVE op'.at \in {"sys", "assert"}
<1>1. op \in OpType
  BY DEF HeapInv, CallInv, OpKnown
<1> QED BY <1>1 DEF TopTooSmall, GoTo, OpType

LEMMA SearchStep ==
    ASSUME HeapInv, NothingExact(op, bins), [Next]_vars
    PROVE  NothingExact(op', bins')
<1>1. CASE UNCHANGED vars
  BY <1>1 DEF vars, heap
<1>2. CASE Call \/ Lock
  BY <1>2, CallSearches
<1>3. ASSUME NEW k \in ForeignSteps, ForeignSbrk(k) PROVE NothingExact(op', bins')
  BY <1>3 DEF ForeignSbrk, heap
<1>4. CASE Step
  <2>1. CASE \/ NoMetadata \/ MallocFast \/ MallocSmall \/ UnsortedRemainder \/ LargeFit
             \/ BinFit \/ UseTop \/ TopTooSmall \/ SysRefused \/ SysSplit \/ SysEnomem
    BY <2>1, MallocStops, TopTooSmallStops DEF NothingExact, Searching
  <2>2. CASE MallocMiss
    BY <2>2, MissSearches
  <2>3. CASE UnsortedNext
    BY <2>3, NextSearches
  <2>4. CASE UnsortedDone \/ BinNone \/ TopConsolidate
    BY <2>4, TurnsSearch
  <2>5. CASE SysExtend \/ SysSbrkRegion \/ SysSbrkNoncontiguous \/ SysMmapRegion
    BY <2>5, SystemStops DEF NothingExact, Searching
  <2>6. CASE Free \/ FreeTrim \/ Systrim
    BY <2>6, FreeStops DEF NothingExact
  <2>7. CASE ConsolidateNext \/ ConsolidateDone
    BY <2>7, ConsolidateSearches
  <2>8. CASE \/ GotMalloc \/ GotNull \/ GotReallocNull \/ GotReallocNext \/ GotReallocMove
             \/ GotRetry \/ GotMemalign \/ MemalignTail \/ Done \/ ReallocNoMetadata \/ Realloc
    BY <2>8, CallerStops DEF NothingExact, Searching
  <2>9. CASE CheckTop
    BY <2>9, CheckTopStops DEF NothingExact, Searching
  <2> QED BY <1>4, <2>1, <2>2, <2>3, <2>4, <2>5, <2>6, <2>7, <2>8, <2>9 DEF Step
<1>5. CASE Ended
  BY <1>1, <1>5 DEF Ended
<1> QED BY <1>1, <1>2, <1>3, <1>4, <1>5 DEF Next

\* While a routine looks through the bins or frees a chunk, nothing else is done; and
\* nothing at all after an assertion has failed.
LEMMA OnlySteps ==
    ASSUME op.at \in {"fit", "free", "assert"}, [Next]_vars
    PROVE  Step \/ UNCHANGED <<heap, system, op>>
<1>1. CASE UNCHANGED vars
  BY <1>1 DEF vars
<1>2. CASE Call
  <2>1. ASSUME NEW nb, CallMalloc(nb) PROVE FALSE
    BY <2>1 DEF CallMalloc, At
  <2>2. ASSUME NEW p, NEW nb, CallRealloc(p, nb) PROVE FALSE
    BY <2>2 DEF CallRealloc, At
  <2>3. ASSUME NEW a, NEW nb, CallMemalign(a, nb) PROVE FALSE
    BY <2>3 DEF CallMemalign, At
  <2>4. ASSUME NEW pad, CallTrim(pad) PROVE FALSE
    BY <2>4 DEF CallTrim, At
  <2>5. ASSUME NEW p, CallFree(p) PROVE UNCHANGED <<heap, system, op>>
    BY <2>5 DEF CallFree
  <2> QED BY <1>2, <2>1, <2>2, <2>3, <2>4, <2>5 DEF Call
<1>3. CASE Lock
  <2>1. ASSUME NEW f, LockFree(f) PROVE FALSE
    BY <2>1 DEF LockFree, At
  <2>2. ASSUME NEW r, LockRetry(r) PROVE FALSE
    BY <2>2 DEF LockRetry, At
  <2> QED BY <1>3, <2>1, <2>2 DEF Lock
<1>4. ASSUME NEW k \in ForeignSteps, ForeignSbrk(k) PROVE FALSE
  BY <1>4 DEF ForeignSbrk
<1>5. CASE Ended
  BY <1>1, <1>5 DEF Ended
<1> QED BY <1>1, <1>2, <1>3, <1>4, <1>5 DEF Next

LEMMA NoOtherStep ==
    ASSUME op.at \in {"fit", "free", "assert"}, Step
    PROVE  \/ op.at = "fit" /\ (LargeFit \/ BinFit \/ BinNone)
           \/ op.at = "free" /\ Free
<1>1. /\ ~NoMetadata /\ ~MallocFast /\ ~MallocSmall /\ ~MallocMiss
      /\ ~UnsortedRemainder /\ ~UnsortedNext /\ ~UnsortedDone
      /\ ~UseTop /\ ~TopConsolidate /\ ~TopTooSmall
  BY DEF NoMetadata, MallocFast, MallocSmall, MallocMiss, UnsortedRemainder, UnsortedNext,
         UnsortedDone, UseTop, TopConsolidate, TopTooSmall, At
<1>2. /\ ~SysExtend /\ ~SysSbrkRegion /\ ~SysSbrkNoncontiguous /\ ~SysMmapRegion
      /\ ~CheckTop /\ ~SysRefused /\ ~SysSplit /\ ~SysEnomem
      /\ ~FreeTrim /\ ~ConsolidateNext /\ ~ConsolidateDone /\ ~Systrim
  BY DEF SysExtend, SysSbrkRegion, SysSbrkNoncontiguous, SysMmapRegion, CheckTop, SysRefused,
         SysSplit, SysEnomem, FreeTrim, ConsolidateNext, ConsolidateDone, Systrim, At
<1>3. /\ ~GotMalloc /\ ~GotNull /\ ~GotReallocNull /\ ~GotReallocNext /\ ~GotReallocMove
      /\ ~GotRetry /\ ~GotMemalign /\ ~MemalignTail /\ ~Done /\ ~ReallocNoMetadata /\ ~Realloc
  BY DEF GotMalloc, GotNull, GotReallocNull, GotReallocNext, GotReallocMove, GotRetry,
         GotMemalign, MemalignTail, Done, ReallocNoMetadata, Realloc, At
<1>4. LargeFit \/ BinFit \/ BinNone \/ Free
  BY <1>1, <1>2, <1>3 DEF Step
<1>5. (LargeFit \/ BinFit \/ BinNone => op.at = "fit") /\ (Free => op.at = "free")
  BY DEF LargeFit, BinFit, BinNone, Free, At
<1> QED BY <1>4, <1>5

\* The search in the bins ends with a chunk of a bin, or goes on at the top chunk.
LEMMA FitSteps ==
    ASSUME HeapInv, op.at = "fit", [Next]_vars, op'.at = "got"
    PROVE  LargeFit \/ BinFit
<1>1. LargeFit \/ BinFit \/ BinNone
  BY OnlySteps, NoOtherStep
<1>2. ~BinNone
  <2> SUFFICES ASSUME BinNone PROVE FALSE
    OBVIOUS
  <2>1. op \in OpType
    BY DEF HeapInv, CallInv, OpKnown
  <2>2. op'.at = "top"
    BY <2>1 DEF BinNone, GoTo, OpType
  <2> QED BY <2>2
<1> QED BY <1>1, <1>2

LEMMA SearchInit == Init => NothingExact(op, bins)
BY IdleIs DEF Init, NothingExact, Searching

\* malloc.c 4859: whatever the bins hold and wherever the search of the unsorted chunks
\* stopped, _int_malloc takes the smallest chunk that fits.  The bin of a small request
\* is empty by then, which the code relies on: it starts at the next one.
THEOREM TakesBestFit == ASSUME NThreads = 1 PROVE Spec => BestFit
<1>1. Init => NothingExact(op, bins)
  BY SearchInit
<1>2. HeapInv /\ NothingExact(op, bins) /\ [Next]_vars => NothingExact(op, bins)'
  BY SearchStep
<1>3. HeapInv /\ NothingExact(op, bins) /\ [Next]_vars
      => [At("fit") /\ op'.at = "got" =>
           \A i \in BinIdx \ {UNSORTED} : \A u \in ToSet(bins[i]) :
               md[u].size >= op.nb => md[op'.v].size <= md[u].size]_vars
  <2> SUFFICES ASSUME HeapInv, NothingExact(op, bins), [Next]_vars, At("fit"), op'.at = "got"
               PROVE  NoneBetter(op'.v)
    BY DEF NoneBetter
  <2>1. LargeFit \/ BinFit
    BY FitSteps DEF At
  <2> QED BY <2>1, LargeFitBest, BinFitBest DEF SearchInv
<1> QED BY <1>1, <1>2, <1>3, HeapInvHolds, PTL DEF Spec, BestFit

(***************************************************************************)
(* The current top                                                         *)
(***************************************************************************)
\* A chunk becomes the top chunk because it borders the current one.
LEMMA FreeJoinsTop ==
    ASSUME HeapInv, op.at = "free", [Next]_vars, top' # top
    PROVE  md[op.p].md_next = top
<1>1. op.tc = top
  BY DEF HeapInv, CallInv, OpKnown
<1>2. Step
  BY OnlySteps DEF heap
<1>3. Free
  BY <1>2, NoOtherStep
<1>4. Coalesce(op.p, top)
  BY <1>1, <1>3 DEF Free, FreeFast, FreeMerge
<1>n. PICK n : n = md[op.p].md_next
  OBVIOUS
<1>5. n # top => top' = top
  BY <1>4, <1>n DEF Coalesce
<1> QED BY <1>5, <1>n

\* malloc.c 5331, for one thread: the top chunk that _int_free read before it locked the
\* arena is the current one.  With two threads the property fails (run heap_two_threads).
THEOREM JoinsTop == ASSUME NThreads = 1 PROVE Spec => JoinsCurrentTop
<1>1. HeapInv /\ [Next]_vars => [At("free") /\ top' # top => md[op.p].md_next = top]_vars
  BY FreeJoinsTop DEF At
<1> QED BY <1>1, HeapInvHolds, PTL DEF Spec, JoinsCurrentTop

(***************************************************************************)
(* The checks and the assertions                                           *)
(***************************************************************************)
AssertInv == op.at = "assert" => ragged

\* The top chunk is as sysmalloc wants it, unless its region ends inside a page.
LEMMA TopReady ==
    ASSUME HeapInv, ~ragged
    PROVE  TopAligned /\ SysmallocReady
<1>1. MemoryInv /\ Paged /\ LayoutInv
  BY DEF HeapInv, MemoryInv
<1>2. CASE top = InitialTop
  <2>1. md[top].size = 0
    BY <1>1, <1>2, TopIs
  <2> QED BY <2>1, <1>2 DEF TopAligned, SysmallocReady, old_size
<1>3. CASE top # InitialTop
  <2>1. TopAligned
    BY <1>1, <1>3 DEF Paged, TopAligned, old_end, old_size
  <2>2. md[top].size >= MINSIZE
    BY <1>1, <1>3, TopIs, Constants
  <2>3. md[top].prev_inuse
    BY <1>3, TagsHold DEF BoundaryTags
  <2> QED BY <2>1, <2>2, <2>3 DEF SysmallocReady, old_size
<1> QED BY <1>2, <1>3

LEMMA AssertedBy ==
    ASSUME HeapInv, Step, op'.at = "assert"
    PROVE  (TopTooSmall /\ ~SysmallocReady) \/ CheckTop
<1>1. op \in OpType
  BY DEF HeapInv, CallInv, OpKnown
<1>2. CASE \/ NoMetadata \/ MallocFast \/ MallocSmall \/ UnsortedRemainder \/ LargeFit
           \/ BinFit \/ UseTop \/ TopTooSmall \/ SysRefused \/ SysSplit \/ SysEnomem
  BY <1>2, MallocStops
<1>3. CASE MallocMiss \/ UnsortedDone \/ BinNone \/ TopConsolidate
  <2>1. op'.at # "assert"
    BY <1>1, <1>3 DEF MallocMiss, UnsortedDone, BinNone, TopConsolidate, Consolidate, GoTo, OpType
  <2> QED BY <2>1
<1>4. CASE UnsortedNext
  <2>1. op.at = "unsorted" /\ (Abort \/ (\E v : Got(v)) \/ op' = [op EXCEPT !.iters = @ + 1])
    BY <1>4 DEF UnsortedNext, At
  <2>2. op'.at # "assert"
    BY <1>1, <2>1 DEF Abort, Got, OpType
  <2> QED BY <2>2
<1>5. CASE SysExtend \/ SysSbrkRegion \/ SysSbrkNoncontiguous \/ SysMmapRegion
  BY <1>5, SystemStops
<1>6. CASE Free \/ FreeTrim \/ Systrim
  BY <1>6, FreeStops
<1>7. CASE ConsolidateNext \/ ConsolidateDone
  <2>1. op.at = "consolidate" /\ op.cont \in {"unsorted", "trim_check", "systrim"}
    BY <1>7 DEF HeapInv, CallInv, OpKnown, ConsolidateNext, ConsolidateDone, At
  <2>2. op'.at = "abort" \/ op' = op \/ op'.at = op.cont
    BY <1>1, <1>7 DEF ConsolidateNext, ConsolidateDone, Abort, GoTo, OpType
  <2> QED BY <2>1, <2>2
<1>8. CASE \/ GotMalloc \/ GotNull \/ GotReallocNull \/ GotReallocNext \/ GotReallocMove
           \/ GotRetry \/ GotMemalign \/ MemalignTail \/ Done \/ ReallocNoMetadata \/ Realloc
  BY <1>8, CallerStops
<1> QED BY <1>2, <1>3, <1>4, <1>5, <1>6, <1>7, <1>8 DEF Step

LEMMA AssertStep == HeapInv /\ AssertInv /\ [Next]_vars => AssertInv'
<1> SUFFICES ASSUME HeapInv, AssertInv, [Next]_vars, op'.at = "assert" PROVE ragged'
  BY DEF AssertInv
<1>0. op.at # "abort" /\ ragged \in BOOLEAN
  BY DEF HeapInv, CallInv, OpKnown, MemoryInv, Paged
<1>1. CASE UNCHANGED vars
  BY <1>1 DEF vars, system, AssertInv
<1>2. CASE Call \/ Lock
  <2>i. Idle \in OpType
    BY IdleIs
  <2>1. ASSUME NEW nb, CallMalloc(nb) PROVE op'.at = "malloc"
    BY <2>i, <2>1 DEF CallMalloc, OpType
  <2>2. ASSUME NEW p, NEW nb, CallRealloc(p, nb) PROVE op'.at = "realloc"
    BY <2>i, <2>2 DEF CallRealloc, OpType
  <2>3. ASSUME NEW a, NEW nb, CallMemalign(a, nb) PROVE op'.at = "malloc"
    BY <2>i, <2>3 DEF CallMemalign, OpType
  <2>4. ASSUME NEW pad, CallTrim(pad) PROVE op'.at = "consolidate"
    BY <2>i, <2>4 DEF CallTrim, OpType
  <2>5. ASSUME NEW p, CallFree(p) PROVE op.at # "assert" /\ op' = op
    BY <2>5 DEF CallFree, ThreadFree, Stopped
  <2>6. ASSUME NEW f, LockFree(f) PROVE op'.at = "free"
    BY <2>i, <2>6 DEF LockFree, OpType
  <2>7. ASSUME NEW r, LockRetry(r) PROVE op'.at = "malloc"
    BY <2>i, <2>7 DEF LockRetry, OpType
  <2> QED BY <1>2, <2>1, <2>2, <2>3, <2>4, <2>5, <2>6, <2>7 DEF Call, Lock
<1>3. ASSUME NEW k \in ForeignSteps, ForeignSbrk(k) PROVE ragged'
  BY <1>3 DEF ForeignSbrk, AssertInv
<1>4. CASE Step
  <2>1. (TopTooSmall /\ ~SysmallocReady) \/ CheckTop
    BY <1>4, AssertedBy
  <2>2. ~SysmallocReady \/ ~TopAligned
    BY <2>1 DEF CheckTop
  <2>3. ragged
    BY <2>2, TopReady
  <2> QED BY <2>1, <2>3 DEF TopTooSmall, CheckTop, system
<1>5. CASE Ended
  BY <1>1, <1>5 DEF Ended
<1> QED BY <1>1, <1>2, <1>3, <1>4, <1>5 DEF Next

\* No check of _int_malloc, sysmalloc, _int_free, malloc_consolidate or _int_realloc ever
\* fires, the one for a break that lies behind the heap included (malloc.c 3468); and the
\* assertions on the top chunk (malloc.c 2531 and 3251) fail only where the region of the
\* top chunk began at an unaligned break and nothing aligned its end.
THEOREM NeverAborts == ASSUME NThreads = 1 PROVE Spec => []NoAbort
<1>1. Init => AssertInv
  BY IdleIs DEF Init, AssertInv
<1>2. HeapInv /\ AssertInv /\ [Next]_vars => AssertInv'
  BY AssertStep
<1>3. HeapInv /\ AssertInv => NoAbort
  BY DEF HeapInv, CallInv, OpKnown, AssertInv, NoAbort, At
<1> QED BY <1>1, <1>2, <1>3, HeapInvHolds, PTL DEF Spec
=============================================================================
