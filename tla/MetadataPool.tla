------------------------------ MODULE MetadataPool ------------------------------
(***************************************************************************)
(* Where one arena's metadata records come from: the pools of memcxt.c,    *)
(* each with a bit per record, and the cache of malloc.c that an operation *)
(* fills before it begins so as not to run out of records half-way.        *)
(*                                                                         *)
(* The arena's mutex guards all of it; yet a malloc for an arena that is   *)
(* not the main one lets go of the mutex in sysmalloc, and for its mmapped *)
(* chunk takes a record of the main arena, whose cache it does not fill.   *)
(* The same pools, with shorter lists, hold the segments of the hash table *)
(* of records.                                                             *)
(***************************************************************************)
EXTENDS Integers, Sequences, FiniteSets, FiniteSetsExt

CONSTANTS
    Threads,
    BP_LENGTH, SP_LENGTH,   \* records, segments in one pool
    MaxPools,               \* bound on the pools of each kind: mmap refuses more
    METADATA_CACHE_SIZE,
    MaxNeed,                \* the most records an operation registers
    MaxCalls                \* bound on the number of calls

Kinds == {"BUCKET", "SEGMENT"}
PoolLength(kind) == IF kind = "BUCKET" THEN BP_LENGTH ELSE SP_LENGTH

ASSUME PoolAssumption ==
    /\ BP_LENGTH \in Nat \ {0} /\ SP_LENGTH \in Nat \ {0} /\ MaxPools \in Nat \ {0}
    /\ METADATA_CACHE_SIZE \in Nat /\ MaxNeed \in 1 .. METADATA_CACHE_SIZE
    /\ METADATA_CACHE_SIZE <= BP_LENGTH /\ MaxCalls \in Nat

VARIABLES
    pools,      \* of each kind, the newest, which is looked at first, at the end
    cache,      \* metadata_cache
    count,      \* metadata_cache_count
    registered, \* the records in the hash table
    segments,   \* the segments of the hash table
    is_main,    \* av == &main_arena
    lock,       \* who holds the arena's mutex
    th,         \* what each thread is doing
    calls,      \* number of calls so far
    aborted,    \* an assertion failed
    partial,    \* history: memory ran out in the middle of filling the cache
    refused     \* history: there was no segment for the hash table

memory == <<pools, cache, count, registered, segments>>
vars   == <<memory, is_main, lock, th, calls, aborted, partial, refused>>

NoThread == "none"

ASSUME ThreadAssumption == NoThread \notin Threads

NULL == <<0, 0>>        \* a record or a segment is <<pool, index>>

Idle == [at |-> "idle", need |-> 0, i |-> 0]
At(t, point) == th[t].at = point
GoTo(t, point) == th' = [th EXCEPT ![t].at = point]

(***************************************************************************)
(* memcxt.c                                                                *)
(***************************************************************************)
\* the bits that are set, and the count that goes with them
NewPool(kind) == [mask |-> {}, free_count |-> PoolLength(kind)]

Lowest(kind, mask) == Min((0 .. PoolLength(kind) - 1) \ mask)
SetBit(pool, i)    == [mask |-> pool.mask \union {i}, free_count |-> pool.free_count - 1]

\* Mutant: the bit is cleared, the count stays.
ClearBitMutant(pool, i) == [mask |-> pool.mask \ {i}, free_count |-> pool.free_count]

ClearBit(pool, i)  == [mask |-> pool.mask \ {i}, free_count |-> pool.free_count + 1]

\* the newest pool with something left; 0 when all are used up
Roomy(kind) == {n \in DOMAIN pools[kind] : pools[kind][n].free_count > 0}
TheRoomy(kind) == IF Roomy(kind) = {} THEN 0 ELSE Max(Roomy(kind))

Refused(kind) == Roomy(kind) = {}
CanMap(kind)  == Len(pools[kind]) < MaxPools

\* Mutant: the first record of a new pool is not marked.
AllocatedMutant(kind) ==
    LET n == TheRoomy(kind) IN
    IF n # 0
    THEN LET i == Lowest(kind, pools[kind][n].mask)
         IN  [pools |-> [pools EXCEPT ![kind][n] = SetBit(@, i)], item |-> <<n, i>>]
    ELSE [pools |-> [pools EXCEPT ![kind] = Append(@, NewPool(kind))],
          item |-> <<Len(pools[kind]) + 1, 0>>]

\* alloc_bucket and alloc_segment: the lowest free one of the first pool that has
\* one, or the first of a new pool in front of the others
Allocated(kind) ==
    LET n == TheRoomy(kind) IN
    IF n # 0
    THEN LET i == Lowest(kind, pools[kind][n].mask)
         IN  [pools |-> [pools EXCEPT ![kind][n] = SetBit(@, i)], item |-> <<n, i>>]
    ELSE [pools |-> [pools EXCEPT ![kind] = Append(@, SetBit(NewPool(kind), 0))],
          item |-> <<Len(pools[kind]) + 1, 0>>]

\* memory is there, or mmap gives a pool, or it does not
Available(kind) == ~Refused(kind) \/ CanMap(kind)

\* free_bucket and free_segment; the assertion is that the bit is set
Released(kind, item) == [pools EXCEPT ![kind][item[1]] = ClearBit(@, item[2])]
IsSet(kind, item)    == item[2] \in pools[kind][item[1]].mask

(***************************************************************************)
(* init_metadata takes a segment and replenish_metadata_cache fills the    *)
(* cache for the first time, or the process ends.                          *)
(***************************************************************************)
Init ==
    /\ pools = [kind \in Kinds |->
                    IF kind = "BUCKET"
                    THEN <<[mask |-> 0 .. METADATA_CACHE_SIZE - 1,
                            free_count |-> BP_LENGTH - METADATA_CACHE_SIZE]>>
                    ELSE <<SetBit(NewPool("SEGMENT"), 0)>>]
    /\ cache = [i \in 0 .. METADATA_CACHE_SIZE - 1 |-> <<1, i>>]
    /\ count = METADATA_CACHE_SIZE
    /\ registered = {}
    /\ segments = {<<1, 0>>}
    /\ is_main \in BOOLEAN
    /\ lock = NoThread
    /\ th = [t \in Threads |-> Idle]
    /\ calls = 0
    /\ aborted = FALSE /\ partial = FALSE /\ refused = FALSE

\* a malloc, realloc or memalign that registers some records
Call(t) ==
    /\ At(t, "idle") /\ lock = NoThread
    /\ calls < MaxCalls /\ calls' = calls + 1
    /\ \E need \in 0 .. MaxNeed :
          th' = [th EXCEPT ![t] = [at |-> "replenish", need |-> need, i |-> count]]
    /\ lock' = t
    /\ UNCHANGED <<memory, is_main, aborted, partial, refused>>

(***************************************************************************)
(* replenish_metadata_cache                                                *)
(***************************************************************************)
\* a place above the count is expected to be empty
Fill(t) ==
    /\ At(t, "replenish") /\ th[t].i < METADATA_CACHE_SIZE
    /\ IF cache[th[t].i] # NULL
       THEN aborted' = TRUE /\ UNCHANGED <<pools, cache, th>>
       ELSE /\ Available("BUCKET")
            /\ pools' = Allocated("BUCKET").pools
            /\ cache' = [cache EXCEPT ![th[t].i] = Allocated("BUCKET").item]
            /\ th' = [th EXCEPT ![t].i = @ + 1]
            /\ UNCHANGED aborted
    /\ UNCHANGED <<count, registered, segments, is_main, lock, calls, partial, refused>>

\* Mutant: one record more is counted than the cache holds.
FilledMutant(t) ==
    /\ At(t, "replenish") /\ th[t].i >= METADATA_CACHE_SIZE - 1
    /\ count' = METADATA_CACHE_SIZE
    /\ th' = [th EXCEPT ![t].at = "run", ![t].i = 0]
    /\ UNCHANGED <<pools, cache, registered, segments, is_main, lock, calls, aborted, partial,
                   refused>>

Filled(t) ==
    /\ At(t, "replenish") /\ th[t].i = METADATA_CACHE_SIZE
    /\ count' = METADATA_CACHE_SIZE
    /\ th' = [th EXCEPT ![t].at = "run", ![t].i = 0]
    /\ UNCHANGED <<pools, cache, registered, segments, is_main, lock, calls, aborted, partial,
                   refused>>

\* no record: the caller returns NULL; the places filled so far are not counted
FillFails(t) ==
    /\ At(t, "replenish") /\ th[t].i < METADATA_CACHE_SIZE
    /\ cache[th[t].i] = NULL /\ Refused("BUCKET")
    /\ partial' = (partial \/ th[t].i > count)
    /\ th' = [th EXCEPT ![t] = Idle]
    /\ lock' = NoThread
    /\ UNCHANGED <<memory, is_main, calls, aborted, refused>>

(***************************************************************************)
(* register_chunk: new_chunkinfoptr and metadata_add                       *)
(***************************************************************************)
\* the assertion of new_chunkinfoptr
OutOfRecords(t) == At(t, "run") /\ th[t].need > 0 /\ count = 0

RegisterAborts(t) ==
    /\ OutOfRecords(t)
    /\ aborted' = TRUE
    /\ UNCHANGED <<memory, is_main, lock, th, calls, partial, refused>>

\* the pool first, the cache as a last resort
FromPool ==
    /\ Available("BUCKET")
    /\ pools' = Allocated("BUCKET").pools
    /\ registered' = registered \union {Allocated("BUCKET").item}
    /\ UNCHANGED <<cache, count>>

FromCache ==
    /\ Refused("BUCKET")
    /\ count' = count - 1
    /\ cache' = [cache EXCEPT ![count - 1] = NULL]
    /\ registered' = registered \union {cache[count - 1]}
    /\ UNCHANGED pools

Register(t) ==
    /\ At(t, "run") /\ th[t].need > 0 /\ count > 0
    /\ FromPool \/ FromCache
    /\ th' = [th EXCEPT ![t].need = @ - 1]
    /\ UNCHANGED <<segments, is_main, lock, calls, aborted, partial, refused>>

\* metadata_add grows the table, which may need a segment; without it the record
\* is in the table, but metadata_add fails, which register_chunk asserts it does not
GrowTable(t) ==
    /\ At(t, "run") /\ registered # {} /\ Available("SEGMENT")
    /\ pools' = Allocated("SEGMENT").pools
    /\ segments' = segments \union {Allocated("SEGMENT").item}
    /\ UNCHANGED <<cache, count, registered, is_main, lock, th, calls, aborted, partial, refused>>

GrowTableFails(t) ==
    /\ At(t, "run") /\ registered # {} /\ Refused("SEGMENT")
    /\ refused' = TRUE /\ aborted' = TRUE
    /\ UNCHANGED <<memory, is_main, lock, th, calls, partial>>

\* unregister_chunk, after which the table may shrink
Unregister(t) ==
    /\ At(t, "run")
    /\ \E b \in registered :
          /\ registered' = registered \ {b}
          /\ IF IsSet("BUCKET", b) THEN pools' = Released("BUCKET", b) /\ UNCHANGED aborted
                                   ELSE aborted' = TRUE /\ UNCHANGED pools
    /\ UNCHANGED <<cache, count, segments, is_main, lock, th, calls, partial, refused>>

ShrinkTable(t) ==
    /\ At(t, "run")
    /\ \E s \in segments \ {<<1, 0>>} :
          segments' = segments \ {s} /\ pools' = Released("SEGMENT", s)
    /\ UNCHANGED <<cache, count, registered, is_main, lock, th, calls, aborted, partial, refused>>

Return(t) ==
    /\ At(t, "run")
    /\ th' = [th EXCEPT ![t] = Idle]
    /\ lock' = NoThread
    /\ UNCHANGED <<memory, is_main, calls, aborted, partial, refused>>

\* sysmalloc works for the main arena for a while, then goes on here
SwitchToMain(t) ==
    /\ At(t, "run") /\ ~is_main
    /\ GoTo(t, "away")
    /\ lock' = NoThread
    /\ UNCHANGED <<memory, is_main, calls, aborted, partial, refused>>

Relock(t) ==
    /\ At(t, "away") /\ lock = NoThread
    /\ GoTo(t, "run")
    /\ lock' = t
    /\ UNCHANGED <<memory, is_main, calls, aborted, partial, refused>>

\* Mutant: the guest does not ask whether the cache has a record.
GuestMutant(t) ==
    /\ At(t, "idle") /\ is_main /\ lock = NoThread
    /\ calls < MaxCalls /\ calls' = calls + 1
    /\ th' = [th EXCEPT ![t] = [at |-> "run", need |-> 1, i |-> 0]]
    /\ lock' = t
    /\ UNCHANGED <<memory, is_main, aborted, partial, refused>>

\* the other side of it: a thread of another arena needs one record of the main
\* arena for a mmapped chunk, and gives up when the cache is empty
Guest(t) ==
    /\ At(t, "idle") /\ is_main /\ lock = NoThread
    /\ calls < MaxCalls /\ calls' = calls + 1
    /\ IF count = 0
       THEN UNCHANGED <<th, lock>>
       ELSE /\ th' = [th EXCEPT ![t] = [at |-> "run", need |-> 1, i |-> 0]]
            /\ lock' = t
    /\ UNCHANGED <<memory, is_main, aborted, partial, refused>>

(***************************************************************************)
(* Specification                                                           *)
(***************************************************************************)
Step(t) ==
    \/ Call(t) \/ Guest(t) \/ Fill(t) \/ Filled(t) \/ FillFails(t)
    \/ Register(t) \/ RegisterAborts(t) \/ GrowTable(t) \/ GrowTableFails(t)
    \/ Unregister(t) \/ ShrinkTable(t) \/ Return(t) \/ SwitchToMain(t) \/ Relock(t)

\* the bound on the calls is reached, or the program was aborted
Finished ==
    /\ aborted \/ (calls = MaxCalls /\ \A t \in Threads : At(t, "idle"))
    /\ UNCHANGED vars

Next == (\E t \in Threads : ~aborted /\ Step(t)) \/ Finished

Spec == Init /\ [][Next]_vars

(***************************************************************************)
(* Properties                                                              *)
(***************************************************************************)
Items(kind) == (1 .. MaxPools) \X (0 .. PoolLength(kind) - 1)

\* The variables hold values of their types; and free_count, which decides whether a
\* pool is looked at, is the number of zero bits (sane_bucket_pool, and for segments).
TypeOK ==
    /\ \A kind \in Kinds : \A n \in DOMAIN pools[kind] :
          /\ pools[kind][n].mask \subseteq 0 .. PoolLength(kind) - 1
          /\ pools[kind][n].free_count = PoolLength(kind) - Cardinality(pools[kind][n].mask)
    /\ cache \in [0 .. METADATA_CACHE_SIZE - 1 -> Items("BUCKET") \union {NULL}]
    /\ count \in 0 .. METADATA_CACHE_SIZE
    /\ registered \subseteq Items("BUCKET") /\ segments \subseteq Items("SEGMENT")
    /\ is_main \in BOOLEAN /\ lock \in Threads \union {NoThread}
    /\ th \in [Threads -> [at : {"idle", "replenish", "run", "away"}, need : 0 .. MaxNeed,
                           i : 0 .. METADATA_CACHE_SIZE]]
    /\ calls \in 0 .. MaxCalls
    /\ {aborted, partial, refused} \subseteq BOOLEAN

\* A record whose bit is set is in exactly one place, the hash table or one place of
\* the cache, and the others are in none: no record is handed out twice, and none is
\* lost, however the cache was filled in part, drained and refilled.
Cached == {i \in DOMAIN cache : cache[i] # NULL}

InOnePlace ==
    /\ \A b \in Items("BUCKET") :
          LET set == b[1] <= Len(pools["BUCKET"]) /\ IsSet("BUCKET", b)
              places == Cardinality({i \in Cached : cache[i] = b})
                        + (IF b \in registered THEN 1 ELSE 0)
          IN  places = IF set THEN 1 ELSE 0
    /\ \A s \in Items("SEGMENT") :
          s \in segments <=> s[1] <= Len(pools["SEGMENT"]) /\ IsSet("SEGMENT", s)

\* The cache holds records below the count, and none above, between operations: what
\* replenish_metadata_cache asserts of it -- unless memory ran out while it was filled.
CountTrue ==
    ~partial /\ lock = NoThread => Cached = 0 .. count - 1

\* No assertion fails.  A cache that was full when an operation began lasts for it,
\* even while others are let in half-way, provided it is large enough for all the
\* operations that can be under way; the proviso of CountTrue is needed, and that
\* the hash table found the segments it needed.
NoAbort ==
    ~partial /\ ~refused /\ (is_main \/ MaxNeed * Cardinality(Threads) <= METADATA_CACHE_SIZE)
        => ~aborted
================================================================================
