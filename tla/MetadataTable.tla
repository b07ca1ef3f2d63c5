----------------------------- MODULE MetadataTable -----------------------------
(***************************************************************************)
(* The hash table of an arena (metadata.c) from the address of a chunk to  *)
(* its bucket, the metadata record of chunkinfo.h: linear hashing over     *)
(* bins that lie in segments, which a directory points to.  The table      *)
(* splits or merges one bin at a time as the load moves; every segment and *)
(* directory it asks the pools of memcxt.c for may be refused.  The        *)
(* arena's mutex makes every operation a single step.                      *)
(***************************************************************************)
EXTENDS Integers, SequencesExt

CONSTANTS
    Chunks,                 \* the addresses that are hashed
    Hash(_),                \* Fingerprint
    NBuckets,               \* the bucket pool holds 1 .. NBuckets
    MaxSegments,            \* the segment pool grows to this size
    SegLength,              \* cfg.segment_length
    InitialDirectoryLength, \* cfg.initial_directory_length
    MinLoad, MaxLoad,       \* cfg.min_load and cfg.max_load
    BincountMax             \* cfg.bincount_max

NULL == 0

ASSUME TableAssumption ==
    /\ NBuckets \in Nat /\ MaxSegments \in Nat \ {0}
    /\ SegLength \in Nat \ {0} /\ InitialDirectoryLength \in Nat \ {0}
    /\ MinLoad \in Nat /\ MaxLoad \in Nat
    /\ BincountMax \in Nat /\ BincountMax > SegLength
\* UINT32_MAX is odd, so it is none of the limits that the bins double to (metadata_cfg_init).
ASSUME LimitAssumption == BincountMax % 2 = 1
ASSUME HashAssumption == NULL \notin Chunks /\ \A c \in Chunks : Hash(c) \in Nat

VARIABLES
    chunk,             \* the chunk of every bucket in use, NULL of the others
    segments,          \* the segments of the pool, each an array of bins
    directory,         \* which of them the table has, in order; the rest NULL
    directory_current, \* the number of segments in the directory
    p,                 \* the next bin to split
    maxp,              \* N * 2^L
    L,                 \* how often the table has doubled
    count,             \* buckets in the table
    bincount,          \* bins
    answer,            \* the bucket that the last lookup or deletion found
    status             \* what the last addition returned, or "crash"

geometry == <<directory, directory_current, p, maxp, L, bincount>>
vars == <<chunk, segments, geometry, count, answer, status>>

Buckets == 1 .. NBuckets
N       == SegLength
directory_length == Cardinality(DOMAIN directory)

Init ==
    /\ chunk = [b \in Buckets |-> NULL]
    /\ segments = << [i \in 0 .. SegLength - 1 |-> <<>>] >>
    /\ directory = [i \in 0 .. InitialDirectoryLength - 1 |-> IF i = 0 THEN 1 ELSE NULL]
    /\ directory_current = 1
    /\ p = 0 /\ maxp = N /\ L = 0
    /\ count = 0 /\ bincount = N
    /\ answer = NULL /\ status = "ok"

(***************************************************************************)
(* Bins.                                                                   *)
(***************************************************************************)

\* metadata_bindex, for the bin at to split next and the limit maxp
Bindex(c, at, limit) ==
    LET l == Hash(c) % limit
    IN  IF l < at /\ 2 * limit < BincountMax THEN Hash(c) % (2 * limit) ELSE l

\* bindex2bin
Bin(i) == segments[directory[i \div SegLength]][i % SegLength]
Put(segs, dir, i, bin) == [segs EXCEPT ![dir[i \div SegLength]][i % SegLength] = bin]

FreeBuckets == {b \in Buckets : chunk[b] = NULL}
\* the segments in the pool that the directory does not point to
FreeSegments(dir) == DOMAIN segments \ {dir[i] : i \in DOMAIN dir}

Empty == [i \in 0 .. SegLength - 1 |-> <<>>]

\* the elements of s that are in B, in their order: SelectSeq without recursion
Only(s, B) ==
    LET J == {j \in DOMAIN s : s[j] \in B}
    IN  [i \in 1 .. Cardinality(J) |->
            s[CHOOSE j \in J : Cardinality({k \in J : k <= j}) = i]]

(***************************************************************************)
(* Expansion: the bin p is split.                                          *)
(***************************************************************************)
\* metadata_expand_check
Overloaded(n) == bincount < BincountMax /\ n \div bincount > MaxLoad

\* metadata_expand_directory
Doubled == [i \in 0 .. 2 * directory_length - 1 |->
               IF i < directory_length THEN directory[i] ELSE NULL]

\* The buckets of bin p that hash to the new one move there, in order.
Split(segs, dir, of, new) ==
    LET at    == IF p + 1 = maxp THEN 0 ELSE p + 1
        limit == IF p + 1 = maxp THEN 2 * maxp ELSE maxp
        old   == segs[dir[p \div SegLength]][p % SegLength]
        moved == Only(old, {b \in Buckets : Bindex(of[b], at, limit) = new})
        kept  == Only(old, {b \in Buckets : Bindex(of[b], at, limit) # new})
        s     == Put(segs, dir, p, kept)
    IN  /\ segments' = IF moved = <<>> THEN s ELSE Put(s, dir, new, moved)
        /\ p' = at /\ maxp' = limit
        /\ L' = IF p + 1 = maxp THEN L + 1 ELSE L
        /\ bincount' = bincount + 1

\* metadata_expand_table: the directory first, if it is full, then the segment of the new
\* bin; without memory for one of them the addition fails, its bucket in the table
Grow(segs, of) ==
    LET full == directory_length = directory_current
        dir  == IF full THEN Doubled ELSE directory
        new  == maxp + p
        i    == new \div SegLength
        need == new % SegLength = 0 /\ dir[i] = NULL
        free == FreeSegments(dir)
        with(seg) == [dir EXCEPT ![i] = seg]
    IN  \/ \* no memory for the directory
           /\ full
           /\ segments' = segs /\ status' = "failed"
           /\ UNCHANGED geometry
        \/ /\ ~need
           /\ directory' = dir /\ status' = "ok"
           /\ Split(segs, dir, of, new)
           /\ UNCHANGED directory_current
        \/ \* a segment that the table had before
           /\ need /\ free # {}
           /\ directory' = with(Min(free))
           /\ directory_current' = directory_current + 1
           /\ status' = "ok"
           /\ Split(segs, directory', of, new)
        \/ \* or a new one
           /\ need /\ free = {} /\ Len(segs) < MaxSegments
           /\ directory' = with(Len(segs) + 1)
           /\ directory_current' = directory_current + 1
           /\ status' = "ok"
           /\ Split(Append(segs, Empty), directory', of, new)
        \/ \* or no memory for it
           /\ need /\ free = {}
           /\ directory' = dir
           /\ segments' = segs /\ status' = "failed"
           /\ UNCHANGED <<directory_current, p, maxp, L, bincount>>

(***************************************************************************)
(* Contraction: the last bin is merged into the one it was split from.     *)
(***************************************************************************)
Underloaded(n) == L > 0 /\ n \div bincount < MinLoad

\* Mutants: the bin that was merged keeps its buckets, or the other one loses them.
MergeMutant(segs, src, tgt) == Put(segs, directory, tgt, Bin(tgt) \o Bin(src))
OverwriteMutant(segs, src, tgt) ==
    Put(Put(segs, directory, tgt, Bin(src)), directory, src, <<>>)

\* move_buckets
Merge(segs, src, tgt) ==
    LET at(i) == segs[directory[i \div SegLength]][i % SegLength]
    IN  Put(Put(segs, directory, tgt, at(tgt) \o at(src)), directory, src, <<>>)

\* metadata_contract_directory applies
Oversized ==
    /\ directory_length > InitialDirectoryLength
    /\ directory_current < directory_length \div 2

Halved == [i \in 0 .. directory_length \div 2 - 1 |-> directory[i]]

Shrink(segs) ==
    LET src == bincount - 1
        tgt == IF p = 0 THEN maxp \div 2 - 1 ELSE p - 1
        dir == IF Oversized THEN Halved ELSE directory
    IN  /\ segments' = Merge(segs, src, tgt)
        /\ IF src % SegLength = 0
           THEN /\ directory' = [dir EXCEPT ![src \div SegLength] = NULL]
                /\ directory_current' = directory_current - 1
           ELSE /\ directory' = dir
                /\ UNCHANGED directory_current
        /\ p' = tgt
        /\ maxp' = IF p = 0 THEN maxp \div 2 ELSE maxp
        /\ L' = IF p = 0 THEN L - 1 ELSE L
        /\ bincount' = bincount - 1

(***************************************************************************)
(* The operations.                                                         *)
(***************************************************************************)
\* metadata_insert_chunk: the lowest free bucket of the pool, at the front of its bin
Add(c) ==
    /\ status # "crash" /\ FreeBuckets # {}
    /\ LET b    == Min(FreeBuckets)
           i    == Bindex(c, p, maxp)
           segs == Put(segments, directory, i, <<b>> \o Bin(i))
       IN  /\ chunk' = [chunk EXCEPT ![b] = c]
           /\ count' = count + 1
           /\ IF Overloaded(count + 1)
              THEN Grow(segs, chunk')
              ELSE segments' = segs /\ status' = "ok" /\ UNCHANGED geometry
    /\ UNCHANGED answer

AddNoBucket ==
    /\ status # "crash" /\ FreeBuckets = {}
    /\ status' = "failed"
    /\ UNCHANGED <<chunk, segments, geometry, count, answer>>

\* the positions of the buckets of c in bin i
Hits(c, i) == {j \in DOMAIN Bin(i) : chunk[Bin(i)[j]] = c}
Found(c, i) == IF Hits(c, i) = {} THEN NULL ELSE Bin(i)[Min(Hits(c, i))]

\* the bucket found goes to the front, unless it is first or second
Lookup(c) ==
    LET i    == Bindex(c, p, maxp)
        hits == Hits(c, i)
    IN  /\ status # "crash"
        /\ answer' = Found(c, i)
        /\ segments' = IF hits = {} \/ Min(hits) <= 2 THEN segments
                       ELSE Put(segments, directory, i,
                                <<answer'>> \o RemoveAt(Bin(i), Min(hits)))
        /\ status' = "ok"
        /\ UNCHANGED <<chunk, geometry, count>>

\* The buckets at the positions out of bin i go back to the pool; then the table may
\* contract, and crashes when a smaller directory is refused.
Release(i, out) ==
    LET gone == {Bin(i)[j] : j \in out}
        segs == Put(segments, directory, i, Only(Bin(i), Buckets \ gone))
        n    == count - Cardinality(out)
    IN  /\ chunk' = [b \in Buckets |-> IF b \in gone THEN NULL ELSE chunk[b]]
        /\ count' = n
        /\ IF out = {} \/ ~Underloaded(n)
           THEN segments' = segs /\ status' = "ok" /\ UNCHANGED geometry
           ELSE \/ Shrink(segs) /\ status' = "ok"
                \/ Oversized /\ segments' = segs /\ status' = "crash" /\ UNCHANGED geometry

Delete(c) ==
    LET i    == Bindex(c, p, maxp)
        hits == Hits(c, i)
    IN  /\ status # "crash"
        /\ answer' = Found(c, i)
        /\ Release(i, IF hits = {} THEN {} ELSE {Min(hits)})

DeleteAll(c) ==
    LET i == Bindex(c, p, maxp)
    IN  /\ status # "crash"
        /\ Release(i, Hits(c, i))
        /\ UNCHANGED answer

Next ==
    \/ AddNoBucket
    \/ \E c \in Chunks : Add(c) \/ Lookup(c) \/ Delete(c) \/ DeleteAll(c)

Spec == Init /\ [][Next]_vars

(***************************************************************************)
(* Properties.                                                             *)
(***************************************************************************)
Segment == [0 .. SegLength - 1 -> Seq(Buckets)]
PowerOfTwo[n \in Nat] == IF n = 0 THEN 1 ELSE 2 * PowerOfTwo[n - 1]

\* The variables have the types of metadata_t, and agree with each other: every bin lies
\* in a segment that the directory has, no segment is there twice, and none is kept
\* without need, whichever allocation was refused in an expansion.
TypeOK ==
    /\ chunk \in [Buckets -> Chunks \cup {NULL}]
    /\ segments \in Seq(Segment)
    /\ directory \in [0 .. directory_length - 1 -> {NULL} \cup DOMAIN segments]
    /\ {directory_current, p, maxp, L, count, bincount} \subseteq Nat
    /\ answer \in {NULL} \cup Buckets
    /\ status \in {"ok", "failed", "crash"}
    /\ bincount = maxp + p /\ p < maxp /\ maxp = N * PowerOfTwo[L]
    /\ directory_current <= directory_length
    /\ \A i \in DOMAIN directory : directory[i] # NULL <=> i < directory_current
    /\ \A i, j \in 0 .. directory_current - 1 : directory[i] = directory[j] => i = j
    /\ bincount <= directory_current * SegLength
    /\ directory_current * SegLength < bincount + SegLength

\* Every bucket in use is in one bin, the one its chunk hashes to now; and a bin that the
\* table does not use is empty (metadata.c 622), in its last segment and in the segments
\* it gave back, which the pool hands out as they are. The directory and its counters agree,
\* as TypeOK says.
Placed ==
    /\ TypeOK
    /\ \A b \in Buckets : chunk[b] # NULL =>
          b \in ToSet(Bin(Bindex(chunk[b], p, maxp)))
    /\ \A i \in 0 .. bincount - 1 : \A j \in DOMAIN Bin(i) :
          /\ chunk[Bin(i)[j]] # NULL
          /\ Bindex(chunk[Bin(i)[j]], p, maxp) = i
          /\ \A k \in DOMAIN Bin(i) : Bin(i)[j] = Bin(i)[k] => j = k
    /\ count = Cardinality({b \in Buckets : chunk[b] # NULL})
    /\ \A i \in bincount .. directory_current * SegLength - 1 : Bin(i) = <<>>
    /\ \A s \in FreeSegments(directory) : segments[s] = Empty

\* The table behaves like a map from chunks to stacks of buckets.
Stack(c) ==
    Only(Bin(Bindex(c, p, maxp)), {b \in Buckets : chunk[b] = c})
Map == INSTANCE MetadataMap WITH
    NoBucket <- NULL, stacks <- [c \in Chunks |-> Stack(c)]
IsMap == Map!Spec
=============================================================================
