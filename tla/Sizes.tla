------------------------------- MODULE Sizes -------------------------------
(***************************************************************************)
(* The arithmetic of sizes in malloc.c, in bytes and modulo the width of   *)
(* size_t: how large a chunk is for a request, in which bin it goes, what  *)
(* part of it the client may use, and how much realloc copies. The modules *)
(* of the heap count units of MALLOC_ALIGNMENT, so none of this is in them.*)
(*                                                                         *)
(* The state is one block of a client through the calls that made it. Which*)
(* free chunk a call finds is left open: any that malloc.c could give.     *)
(***************************************************************************)
EXTENDS Integers

CONSTANTS
    WORD,           \* size_t counts modulo this
    HALF,           \* HALF_INTERNAL_SIZE_T, the root of WORD
    pagesize,
    HeapMax,        \* bound on a chunk inside a heap
    MapMax,         \* bound on a mapping: what the address space can have
    Requests,       \* sizes asked for
    Counts,         \* numbers and sizes of calloc's elements
    Alignments

ASSUME SizesAssumption ==
    /\ WORD \in Nat /\ HALF \in Nat /\ HALF * HALF = WORD
    /\ pagesize \in Nat /\ pagesize >= 4096 /\ pagesize % 16 = 0 /\ WORD % pagesize = 0
    /\ HeapMax \in Nat /\ MapMax \in Nat /\ HeapMax <= MapMax
    /\ MapMax + 2 * pagesize < WORD
    /\ Requests \subseteq 0 .. WORD - 1
    /\ Counts \subseteq 0 .. WORD - 1
    /\ Alignments \subseteq 0 .. WORD - 1

SIZE_SZ          == 8
MALLOC_ALIGNMENT == 16
HEADER_SIZE      == 0       \* SRI_DEBUG_HEADERS is not set
MINSIZE          == 32
SIZE_MAX         == WORD - 1

Wrap(n)    == n % WORD
AlignUp(n) == n + ((-n) % pagesize)

AlignDown(n) == n - (n % MALLOC_ALIGNMENT)

(***************************************************************************)
(* Requests.                                                               *)
(***************************************************************************)
REQUEST_OUT_OF_RANGE(req) == req >= WORD - 2 * MINSIZE

request2size(req) ==
    LET padded == Wrap(req + HEADER_SIZE + MALLOC_ALIGNMENT - 1)
    IN  IF padded < MINSIZE THEN MINSIZE ELSE AlignDown(padded)

\* the size that sysmalloc maps for a chunk; nothing if it wraps around
MapSize(nb) == Wrap(AlignUp(nb + SIZE_SZ))

(***************************************************************************)
(* What _int_malloc may answer: a chunk of the heap, with a remainder that *)
(* is too small to be a chunk or without, or a mapping.                    *)
(***************************************************************************)
Chunks(bytes) ==
    LET nb == request2size(bytes) IN
    IF REQUEST_OUT_OF_RANGE(bytes) THEN {}
    ELSE {[size |-> s, mmapped |-> FALSE] :
              s \in {n \in {nb, nb + MALLOC_ALIGNMENT} : n <= HeapMax}}
         \union {[size |-> s, mmapped |-> TRUE] :
              s \in {n \in {MapSize(nb)} : n > nb /\ n <= MapMax}}

(***************************************************************************)
(* Bins.                                                                   *)
(***************************************************************************)
NBINS      == 128
NSMALLBINS == 64

\* the +16 make up for the header that chunks no longer have
in_smallbin_range(sz) == sz + 16 < NSMALLBINS * MALLOC_ALIGNMENT
smallbin_index(sz)    == (sz + 16) \div 16

\* Mutant: the size is not made up for the header, as it is for the small bins.
largebin_indexMutant(sz) ==
    IF sz \div 64 <= 48 THEN 48 + sz \div 64
    ELSE IF sz \div 512 <= 20 THEN 91 + sz \div 512
    ELSE IF sz \div 4096 <= 10 THEN 110 + sz \div 4096
    ELSE IF sz \div 32768 <= 4 THEN 119 + sz \div 32768
    ELSE IF sz \div 262144 <= 2 THEN 124 + sz \div 262144
    ELSE 126

largebin_index(sz) ==
    LET s == sz + 16 IN
    IF s \div 64 <= 48 THEN 48 + s \div 64
    ELSE IF s \div 512 <= 20 THEN 91 + s \div 512
    ELSE IF s \div 4096 <= 10 THEN 110 + s \div 4096
    ELSE IF s \div 32768 <= 4 THEN 119 + s \div 32768
    ELSE IF s \div 262144 <= 2 THEN 124 + s \div 262144
    ELSE 126

bin_index(sz) == IF in_smallbin_range(sz) THEN smallbin_index(sz) ELSE largebin_index(sz)

fastbin_index(sz) == (sz + 16) \div 16 - 2
MAX_FAST_SIZE     == (80 * SIZE_SZ) \div 4
NFASTBINS         == fastbin_index(request2size(MAX_FAST_SIZE)) + 1

\* global_max_fast for an M_MXFAST of s, which mallopt limits to MAX_FAST_SIZE
MaxFast(s) == IF s = 0 THEN MALLOC_ALIGNMENT ELSE AlignDown(s + SIZE_SZ)

(***************************************************************************)
(* The block.                                                              *)
(***************************************************************************)
VARIABLE
    block   \* need: the bytes the client may count on;
            \* keep: how many of them were in the block it reallocated,
            \* copied: how many of those the call brought along, and by which way

NoBlock == [size |-> 0, mmapped |-> FALSE, need |-> 0, keep |-> 0, copied |-> 0,
            way |-> "none", wrapped |-> FALSE]
HaveBlock == block # NoBlock

Block(c, need, keep, copied, way, wrapped) ==
    [size |-> c.size, mmapped |-> c.mmapped, need |-> need, keep |-> keep,
     copied |-> copied, way |-> way, wrapped |-> wrapped]
Fresh(c, need) == Block(c, need, 0, 0, "malloc", FALSE)

SizesInit == block = NoBlock

malloc(req) ==
    /\ ~HaveBlock
    /\ \E c \in Chunks(req) : block' = Fresh(c, req)

\* Mutant: an overflow is looked for only when both are large.
CallocOverflowsMutant(n, elem_size) ==
    /\ n >= HALF /\ elem_size >= HALF
    /\ Wrap(n * elem_size) \div elem_size # n

\* the product is tested when one of the two has a bit in the upper half
CallocOverflows(n, elem_size) ==
    /\ n >= HALF \/ elem_size >= HALF
    /\ elem_size # 0
    /\ Wrap(n * elem_size) \div elem_size # n

calloc(n, elem_size) ==
    /\ ~HaveBlock
    /\ ~CallocOverflows(n, elem_size)
    /\ \E c \in Chunks(Wrap(n * elem_size)) : block' = Fresh(c, n * elem_size)

(***************************************************************************)
(* memalign                                                                *)
(***************************************************************************)
\* the powers of two from MINSIZE on that size_t has here
Powers == {32, 64, 128, 256, 512, 1024, 2048, 4096, 8192, 16384, 32768, 65536, 131072,
           262144, 524288, 1048576, 2097152, 4194304} \cap (0 .. SIZE_MAX)

\* an alignment above half of what size_t has is an error
AlignmentRefused(al) == al > SIZE_MAX \div 2 + 1

\* _mid_memalign goes on with BIG, the least of them that is not below the alignment
RoundedTo(al, big) == big >= al /\ \A p \in Powers : p >= al => big <= p

\* what _int_memalign asks for; the test for an overflow is made before the request and the
\* alignment are rounded, so this may still wrap around
Padded(nb, al) == nb + al + MINSIZE

\* the space before the aligned address, at least a chunk
Leader(al, misaligned) ==
    LET lead == al - misaligned
    IN  IF misaligned = 0 THEN 0 ELSE IF lead < MINSIZE THEN lead + al ELSE lead

\* how far behind an aligned address a mapping, or a chunk of the heap, can begin
Misaligned(al, c) ==
    IF c.mmapped THEN {m \in {0, pagesize, al - pagesize} : m \in 0 .. al - 1}
    ELSE {0, MALLOC_ALIGNMENT, al \div 2, al - MINSIZE, al - MALLOC_ALIGNMENT}

\* a chunk of the heap also gives back what is left behind the block
Trimmed(c, lead, nb) ==
    LET size == Wrap(c.size - lead)
    IN  [c EXCEPT !.size = IF ~c.mmapped /\ size > nb + MINSIZE THEN nb ELSE size]

memalign(al, req) ==
    LET nb == request2size(req) IN
    /\ ~HaveBlock
    /\ al > MALLOC_ALIGNMENT /\ ~AlignmentRefused(al)
    /\ req <= SIZE_MAX - (IF al < MINSIZE THEN MINSIZE ELSE al) - MINSIZE
    /\ ~REQUEST_OUT_OF_RANGE(req)
    /\ \E big \in Powers :
          /\ RoundedTo(al, big)
          /\ \E c \in Chunks(Wrap(Padded(nb, big))) : \E m \in Misaligned(big, c) :
                block' = Block(Trimmed(c, Leader(big, m), nb), req, 0, 0, "memalign",
                               Padded(nb, big) >= WORD)

\* pvalloc: whole pages, aligned to one; here the test leaves room for the rounding
pvalloc(bytes) ==
    /\ bytes <= SIZE_MAX - 2 * pagesize - MINSIZE
    /\ memalign(pagesize, AlignUp(bytes))

(***************************************************************************)
(* realloc                                                                 *)
(***************************************************************************)
\* Mutant: the last word of a chunk counts as the next chunk's, as it did with headers.
CopiedMutant(size) == size - 2 * SIZE_SZ

\* what _int_realloc copies to another chunk of its arena
Copied(size) == size - HEADER_SIZE

Smaller(m, n) == IF m <= n THEN m ELSE n

\* the block is C now, whose first BYTES bytes are the old one's
Becomes(c, req, bytes, way) ==
    block' = Block(c, req, Smaller(block.need, req), bytes, way, FALSE)

\* the chunk stays where it is and is cut, or takes what it needs of the chunk after it
InPlace(req) ==
    LET nb == request2size(req) IN
    /\ ~block.mmapped
    /\ \/ /\ block.size >= nb
          /\ Becomes([size |-> IF block.size - nb < MINSIZE THEN block.size ELSE nb,
                      mmapped |-> FALSE], req, block.size, "in place")
       \/ /\ block.size < nb
          /\ \E s \in {n \in {nb, nb + MALLOC_ALIGNMENT} : n <= HeapMax} :
                Becomes([size |-> s, mmapped |-> FALSE], req, block.size, "in place")

\* _int_realloc allocates, copies and frees; it asks for the chunk's size less the padding
Move(req) ==
    LET nb == request2size(req) IN
    /\ ~block.mmapped /\ block.size < nb
    /\ \E c \in Chunks(nb - (MALLOC_ALIGNMENT - 1)) :
          Becomes(c, req, Copied(block.size), "copied")

\* it got nothing, and __libc_malloc did, from another arena
MoveToOtherArena(req) ==
    /\ ~block.mmapped /\ block.size < request2size(req)
    /\ \E c \in Chunks(req) : Becomes(c, req, block.size - SIZE_SZ, "other arena")

\* the mapping is large enough, or malloc is called
ReallocMapped(req) ==
    /\ block.mmapped
    /\ \/ /\ block.size - SIZE_SZ >= request2size(req)
          /\ Becomes([size |-> block.size, mmapped |-> TRUE], req, block.size, "in place")
       \/ /\ block.size - SIZE_SZ < request2size(req)
          /\ \E c \in Chunks(req) : Becomes(c, req, block.size - 2 * SIZE_SZ, "copied")

\* a block whose sum wrapped around is only freed: nothing here describes its contents
realloc(req) ==
    /\ HaveBlock /\ ~block.wrapped /\ req # 0 /\ ~REQUEST_OUT_OF_RANGE(req)
    /\ InPlace(req) \/ Move(req) \/ MoveToOtherArena(req) \/ ReallocMapped(req)

\* free, and realloc with size 0
free == HaveBlock /\ block' = NoBlock

\* malloc_usable_size
musable == IF block.mmapped THEN block.size - 2 * SIZE_SZ ELSE block.size - SIZE_SZ

SizesNext ==
    \/ \E req \in Requests : malloc(req) \/ realloc(req) \/ pvalloc(req)
    \/ \E n \in Counts, elem_size \in Counts : calloc(n, elem_size)
    \/ \E al \in Alignments, req \in Requests : memalign(al, req)
    \/ free

SizesSpec == SizesInit /\ [][SizesNext]_block

(***************************************************************************)
(* Properties.                                                             *)
(***************************************************************************)
SizesTypeOK ==
    /\ block.size \in 0 .. WORD - 1 /\ block.size % MALLOC_ALIGNMENT = 0
    /\ block.mmapped \in BOOLEAN /\ block.wrapped \in BOOLEAN
    /\ block.need \in Nat /\ block.keep \in Nat /\ block.copied \in Nat
    /\ block.way \in {"none", "malloc", "memalign", "in place", "copied", "other arena"}

\* The chunk has room for all the bytes that the caller may count on, the product of calloc
\* and the pages of pvalloc included; of a mapping malloc_usable_size says so, which subtracts
\* the 2 * SIZE_SZ bytes that realloc does not copy either (malloc.c:4132). Of a chunk of the
\* heap it may say less. Only memalign's sum may have wrapped around.
RoomForRequest ==
    HaveBlock /\ ~block.wrapped =>
        IF block.mmapped THEN musable >= block.need
        ELSE block.size >= block.need /\ block.size >= MINSIZE

\* realloc brings along every byte the client had, unless its block came from another arena,
\* and copies no more than fits.
ContentsKept ==
    block.way \in {"in place", "copied"} =>
        /\ block.copied >= block.keep
        /\ block.way = "copied" => block.copied <= block.size

\* A bin with a larger index has no smaller chunks than the bin of this chunk, the small bins
\* have one size each, and the fastbins suffice for every limit that mallopt takes.
BinsSound ==
    HaveBlock /\ block.size >= MINSIZE /\ ~block.wrapped =>
        LET size == block.size
            next == size + MALLOC_ALIGNMENT
        IN  /\ bin_index(size) \in 2 .. NBINS - 2
            /\ bin_index(size) <= bin_index(next)
            /\ in_smallbin_range(size) =>
                  bin_index(size) < NSMALLBINS /\ bin_index(next) > bin_index(size)
            /\ ~in_smallbin_range(size) => bin_index(size) >= NSMALLBINS
            /\ size <= MaxFast(MAX_FAST_SIZE) =>
                  /\ fastbin_index(size) \in 0 .. NFASTBINS - 1
                  /\ fastbin_index(next) > fastbin_index(size)
=============================================================================
