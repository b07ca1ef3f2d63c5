---------------------------- MODULE PoolAndSizesProofs ----------------------------
(***************************************************************************)
(* Proofs about MetadataPool and, behind them, about Sizes.  The two have  *)
(* nothing in common but that both are small.                              *)
(*                                                                         *)
(* MetadataPool, for any number of threads and any lengths of the pools    *)
(* and of the cache: every record that is marked in a pool is in one place,*)
(* and the count of the metadata cache says which of its places hold a     *)
(* record.  The count is wrong while the cache is being filled, and the    *)
(* mutex is released by those who are in the middle of an operation.  The  *)
(* invariant is therefore about the one thread that may be filling it, and *)
(* about the points at which the mutex is held.                            *)
(***************************************************************************)
EXTENDS MetadataPool, Sizes, FiniteSetTheorems, WellFoundedInduction, TLAPS

(***************************************************************************)
(* Least and greatest elements                                             *)
(***************************************************************************)
\* A set of natural numbers has a least element.
LEMMA MinOfNats ==
    ASSUME NEW S \in SUBSET Nat, S # {}
    PROVE  Min(S) \in S /\ \A y \in S : Min(S) <= y
<1> DEFINE R == {ss \in Nat \X Nat : ss[1] < ss[2]}
<1>1. IsWellFoundedOn(R, Nat)
  BY NatLessThanWellFounded DEF OpToRel
<1>2. PICK x \in S : \A y \in S : ~(<<y, x>> \in R)
  <2> HIDE DEF R
  <2> QED BY <1>1, WFMin
<1>3. ASSUME NEW y \in S PROVE x <= y
  <2>1. ~(<<y, x>> \in R)
    BY <1>2
  <2>2. <<y, x>> \in Nat \X Nat
    OBVIOUS
  <2>3. ~(y < x)
    BY <2>1, <2>2
  <2> QED BY <2>3
<1> QED BY <1>3 DEF Min

\* A bounded one has a greatest.
LEMMA MaxOfBounded ==
    ASSUME NEW N \in Nat, NEW S \in SUBSET (0 .. N), S # {}
    PROVE  Max(S) \in S
<1> DEFINE T == {N - x : x \in S}
<1>1. T \in SUBSET Nat /\ T # {}
  <2>1. T # {}
    OBVIOUS
  <2>2. \A x \in S : N - x \in Nat
    OBVIOUS
  <2> QED BY <2>1, <2>2
<1>2. Min(T) \in T /\ \A y \in T : Min(T) <= y
  BY <1>1, MinOfNats
<1>3. PICK x \in S : Min(T) = N - x
  BY <1>2
<1>4. ASSUME NEW y \in S PROVE x >= y
  <2>1. N - y \in T
    OBVIOUS
  <2> HIDE DEF T
  <2>2. N - x <= N - y
    BY <1>2, <1>3, <2>1
  <2> QED BY <2>2
<1> QED BY <1>4 DEF Max

(***************************************************************************)
(* Pools                                                                   *)
(***************************************************************************)
Pool(kind) == [mask : SUBSET (0 .. PoolLength(kind) - 1), free_count : Int]

\* the count that goes with the bits
Counted(kind, pool) ==
    pool \in Pool(kind) /\ pool.free_count = PoolLength(kind) - Cardinality(pool.mask)

\* the lists of pools of both kinds
PoolLists(ps) ==
    /\ DOMAIN ps = Kinds
    /\ \A kind \in Kinds :
          /\ ps[kind] \in Seq(Pool(kind)) /\ Len(ps[kind]) <= MaxPools
          /\ \A n \in 1 .. Len(ps[kind]) : Counted(kind, ps[kind][n])

\* the records, or segments, whose bits are set
Marked(list, kind) ==
    {b \in Items(kind) : b[1] <= Len(list) /\ b[2] \in list[b[1]].mask}

\* The bits of a pool are finitely many.
LEMMA MaskFinite ==
    ASSUME NEW kind \in Kinds, NEW mask \in SUBSET (0 .. PoolLength(kind) - 1)
    PROVE  /\ PoolLength(kind) \in Nat \ {0}
           /\ IsFiniteSet(mask) /\ Cardinality(mask) \in Nat
<1>1. PoolLength(kind) \in Nat \ {0}
  BY PoolAssumption DEF PoolLength
<1> HIDE DEF PoolLength
<1>2. IsFiniteSet(0 .. PoolLength(kind) - 1)
  BY <1>1, FS_Interval
<1> QED BY <1>1, <1>2, FS_Subset, FS_CardinalityType

\* Where the count is positive the lowest bit that is not set can be set.
LEMMA LowestBit ==
    ASSUME NEW kind \in Kinds, NEW pool, Counted(kind, pool), pool.free_count > 0
    PROVE  Lowest(kind, pool.mask) \in (0 .. PoolLength(kind) - 1) \ pool.mask
<1> DEFINE L == PoolLength(kind)
           F == (0 .. L - 1) \ pool.mask
<1>1. L \in Nat \ {0}
  BY MaskFinite DEF Counted, Pool
<1>2. F # {}
  <2> SUFFICES ASSUME F = {} PROVE FALSE
    OBVIOUS
  <2>1. pool.mask = 0 .. L - 1
    BY DEF Counted, Pool
  <2> HIDE DEF L
  <2>2. Cardinality(0 .. L - 1) = L
    BY <1>1, FS_Interval
  <2>3. pool.free_count = L - Cardinality(pool.mask)
    BY DEF Counted, L
  <2> QED BY <1>1, <2>1, <2>2, <2>3
<1>3. F \in SUBSET Nat
  BY <1>1
<1> HIDE DEF F, L
<1>4. Min(F) \in F
  BY <1>2, <1>3, MinOfNats
<1> QED BY <1>4 DEF F, L, Lowest

\* Setting and clearing a bit keeps the count true.
LEMMA SetBitCounted ==
    ASSUME NEW kind \in Kinds, NEW pool, Counted(kind, pool),
           NEW i \in (0 .. PoolLength(kind) - 1) \ pool.mask
    PROVE  Counted(kind, SetBit(pool, i)) /\ SetBit(pool, i).mask = pool.mask \union {i}
<1>1. pool.mask \in SUBSET (0 .. PoolLength(kind) - 1) /\ pool.free_count \in Int
  BY DEF Counted, Pool
<1>2. PoolLength(kind) \in Nat /\ IsFiniteSet(pool.mask) /\ Cardinality(pool.mask) \in Nat
  BY <1>1, MaskFinite
<1>3. Cardinality(pool.mask \union {i}) = Cardinality(pool.mask) + 1
  BY <1>2, FS_AddElement
<1> HIDE DEF PoolLength
<1> QED BY <1>1, <1>2, <1>3 DEF Counted, Pool, SetBit

LEMMA ClearBitCounted ==
    ASSUME NEW kind \in Kinds, NEW pool, Counted(kind, pool), NEW i \in pool.mask
    PROVE  Counted(kind, ClearBit(pool, i)) /\ ClearBit(pool, i).mask = pool.mask \ {i}
<1>1. pool.mask \in SUBSET (0 .. PoolLength(kind) - 1) /\ pool.free_count \in Int
  BY DEF Counted, Pool
<1>2. PoolLength(kind) \in Nat /\ IsFiniteSet(pool.mask) /\ Cardinality(pool.mask) \in Nat
  BY <1>1, MaskFinite
<1>3. Cardinality(pool.mask \ {i}) = Cardinality(pool.mask) - 1
  BY <1>2, FS_RemoveElement
<1> HIDE DEF PoolLength
<1> QED BY <1>1, <1>2, <1>3 DEF Counted, Pool, ClearBit

\* One pool of a list is replaced: the list stays one, and the marks of the others stay.
LEMMA ReplacePool ==
    ASSUME PoolLists(pools), NEW kind \in Kinds, NEW n \in 1 .. Len(pools[kind]), NEW pool,
           Counted(kind, pool), NEW ps, ps = [pools EXCEPT ![kind][n] = pool]
    PROVE  /\ PoolLists(ps)
           /\ \A k \in Kinds \ {kind} : ps[k] = pools[k]
           /\ \A b \in Items(kind) :
                 b \in Marked(ps[kind], kind) <=>
                    IF b[1] = n THEN b[2] \in pool.mask ELSE b \in Marked(pools[kind], kind)
<1> DEFINE list == [pools[kind] EXCEPT ![n] = pool]
<1>1. pools[kind] \in Seq(Pool(kind)) /\ Len(pools[kind]) \in Nat /\ Len(pools[kind]) <= MaxPools
  BY DEF PoolLists
<1>2. pool \in Pool(kind)
  BY DEF Counted
<1>3. ps = [pools EXCEPT ![kind] = list]
  OBVIOUS
<1>4. list \in Seq(Pool(kind)) /\ Len(list) = Len(pools[kind])
      /\ \A m \in 1 .. Len(list) : list[m] = IF m = n THEN pool ELSE pools[kind][m]
  BY <1>1, <1>2
<1>5. \A m \in 1 .. Len(list) : Counted(kind, list[m])
  BY <1>4 DEF PoolLists
<1> HIDE DEF list
<1>6. PoolLists(ps) /\ ps[kind] = list /\ \A k \in Kinds \ {kind} : ps[k] = pools[k]
  BY <1>1, <1>3, <1>4, <1>5 DEF PoolLists
<1>7. ASSUME NEW b \in Items(kind)
      PROVE  b \in Marked(list, kind) <=>
                IF b[1] = n THEN b[2] \in pool.mask ELSE b \in Marked(pools[kind], kind)
  <2>1. b[1] \in Nat \ {0}
    BY PoolAssumption DEF Items
  <2> QED BY <1>1, <1>4, <2>1 DEF Marked
<1> QED BY <1>6, <1>7

\* alloc_bucket and alloc_segment return one that was not in use, and mark it, and no other.
LEMMA AllocatedItem ==
    ASSUME PoolLists(pools), NEW kind \in Kinds, Available(kind),
           NEW ps, ps = Allocated(kind).pools, NEW item, item = Allocated(kind).item
    PROVE  /\ PoolLists(ps)
           /\ \A k \in Kinds \ {kind} : ps[k] = pools[k]
           /\ item \in Items(kind) /\ item # NULL
           /\ item \notin Marked(pools[kind], kind)
           /\ Marked(ps[kind], kind) = Marked(pools[kind], kind) \union {item}
<1> DEFINE n == TheRoomy(kind)
           N == Len(pools[kind])
<1>1. pools[kind] \in Seq(Pool(kind)) /\ N \in Nat /\ N <= MaxPools /\ MaxPools \in Nat
  BY PoolAssumption DEF PoolLists
<1>2. PoolLength(kind) \in Nat \ {0}
  BY PoolAssumption DEF PoolLength
<1>3. CASE Roomy(kind) # {}
  <2>1. Roomy(kind) \in SUBSET (0 .. N)
    BY <1>1 DEF Roomy
  <2>2. n \in Roomy(kind)
    BY <1>1, <1>3, <2>1, MaxOfBounded DEF TheRoomy
  <2>3. n \in 1 .. N /\ n # 0 /\ pools[kind][n].free_count > 0
    BY <1>1, <2>2 DEF Roomy
  <2>4. Counted(kind, pools[kind][n])
    BY <2>3 DEF PoolLists
  <2> DEFINE i == Lowest(kind, pools[kind][n].mask)
             pool == SetBit(pools[kind][n], i)
  <2>5. i \in (0 .. PoolLength(kind) - 1) \ pools[kind][n].mask
    BY <2>3, <2>4, LowestBit
  <2>6. Counted(kind, pool) /\ pool.mask = pools[kind][n].mask \union {i}
    BY <2>4, <2>5, SetBitCounted
  <2>7. ps = [pools EXCEPT ![kind][n] = pool] /\ item = <<n, i>>
    BY <2>3 DEF Allocated
  <2> HIDE DEF n, N, i, pool
  <2>8. item \in Items(kind) /\ item # NULL
    BY <1>1, <2>3, <2>5, <2>7 DEF Items, NULL, N
  <2>9. /\ PoolLists(ps)
        /\ \A k \in Kinds \ {kind} : ps[k] = pools[k]
        /\ \A b \in Items(kind) :
              b \in Marked(ps[kind], kind) <=>
                 IF b[1] = n THEN b[2] \in pool.mask ELSE b \in Marked(pools[kind], kind)
    <3>1. n \in 1 .. Len(pools[kind])
      BY <2>3 DEF N
    <3>2. Counted(kind, pool)
      BY <2>6
    <3>3. ps = [pools EXCEPT ![kind][n] = pool]
      BY <2>7
    <3> QED BY <3>1, <3>2, <3>3, ReplacePool, ZenonT(60)
  <2>10. item \notin Marked(pools[kind], kind)
    BY <2>5, <2>7 DEF Marked
  <2>11. ASSUME NEW b \in Items(kind)
         PROVE  b \in Marked(ps[kind], kind) <=> b \in Marked(pools[kind], kind) \/ b = item
    <3>1. CASE b[1] = n
      <4>1. b \in Marked(pools[kind], kind) <=> b[2] \in pools[kind][n].mask
        BY <1>1, <2>3, <3>1 DEF Marked, N
      <4>2. b = item <=> b[2] = i
        BY <2>7, <3>1 DEF Items
      <4> QED BY <2>6, <2>9, <3>1, <4>1, <4>2
    <3>2. CASE b[1] # n
      BY <2>7, <2>9, <3>2
    <3> QED BY <3>1, <3>2
  <2> QED BY <2>8, <2>9, <2>10, <2>11 DEF Marked
<1>4. CASE Roomy(kind) = {}
  <2> DEFINE pool == SetBit(NewPool(kind), 0)
             list == Append(pools[kind], pool)
  <2>1. N + 1 <= MaxPools
    BY <1>1, <1>4 DEF Available, Refused, CanMap
  <2>2. ps = [pools EXCEPT ![kind] = list] /\ item = <<N + 1, 0>>
    BY <1>4 DEF Allocated, TheRoomy
  <2>3. Counted(kind, NewPool(kind)) /\ NewPool(kind).mask = {}
    BY <1>2, FS_EmptySet DEF Counted, Pool, NewPool
  <2>4. Counted(kind, pool) /\ pool.mask = {0}
    BY <1>2, <2>3, SetBitCounted
  <2>5. pool \in Pool(kind)
    BY <2>4 DEF Counted
  <2> HIDE DEF pool, N
  <2>6. list \in Seq(Pool(kind)) /\ Len(list) = N + 1
        /\ \A m \in 1 .. N + 1 : list[m] = IF m = N + 1 THEN pool ELSE pools[kind][m]
    BY <1>1, <2>5 DEF N
  <2> HIDE DEF list
  <2>7. \A m \in 1 .. Len(list) : Counted(kind, list[m])
    BY <1>1, <2>4, <2>6 DEF PoolLists, N
  <2>8. PoolLists(ps) /\ ps[kind] = list /\ \A k \in Kinds \ {kind} : ps[k] = pools[k]
    BY <2>1, <2>2, <2>6, <2>7 DEF PoolLists
  <2>9. item \in Items(kind) /\ item # NULL
    BY <1>1, <1>2, <2>1, <2>2 DEF Items, NULL
  <2>10. item \notin Marked(pools[kind], kind)
    BY <1>1, <2>2 DEF Marked, N
  <2>11. ASSUME NEW b \in Items(kind)
         PROVE  b \in Marked(list, kind) <=> b \in Marked(pools[kind], kind) \/ b = item
    <3>1. b[1] \in Nat \ {0}
      BY <1>1 DEF Items
    <3>2. CASE b[1] = N + 1
      <4>1. b = item <=> b[2] = 0
        BY <2>2, <3>2 DEF Items
      <4> QED BY <1>1, <2>4, <2>6, <3>2, <4>1 DEF Marked, N
    <3>3. CASE b[1] # N + 1
      BY <1>1, <2>2, <2>6, <3>1, <3>3, SMTT(30) DEF Marked, N
    <3> QED BY <3>2, <3>3
  <2> QED BY <2>8, <2>9, <2>10, <2>11 DEF Marked
<1> QED BY <1>3, <1>4

\* free_bucket and free_segment unmark what they are given, and nothing else.
LEMMA ReleasedItem ==
    ASSUME PoolLists(pools), NEW kind \in Kinds, NEW item \in Marked(pools[kind], kind),
           NEW ps, ps = Released(kind, item)
    PROVE  /\ PoolLists(ps)
           /\ \A k \in Kinds \ {kind} : ps[k] = pools[k]
           /\ Marked(ps[kind], kind) = Marked(pools[kind], kind) \ {item}
<1> DEFINE n == item[1]
           i == item[2]
           pool == ClearBit(pools[kind][n], i)
<1>1. item \in Items(kind) /\ n \in Nat \ {0} /\ n <= Len(pools[kind])
      /\ i \in pools[kind][n].mask
  BY PoolAssumption DEF Marked, Items
<1>2. n \in 1 .. Len(pools[kind]) /\ Counted(kind, pools[kind][n])
  BY <1>1 DEF PoolLists
<1>3. Counted(kind, pool) /\ pool.mask = pools[kind][n].mask \ {i}
  BY <1>1, <1>2, ClearBitCounted
<1>4. ps = [pools EXCEPT ![kind][n] = pool] /\ item = <<n, i>>
  BY <1>1 DEF Released, Items
<1> HIDE DEF n, i, pool
<1>5. /\ PoolLists(ps)
      /\ \A k \in Kinds \ {kind} : ps[k] = pools[k]
      /\ \A b \in Items(kind) :
            b \in Marked(ps[kind], kind) <=>
               IF b[1] = n THEN b[2] \in pool.mask ELSE b \in Marked(pools[kind], kind)
  BY <1>2, <1>3, <1>4, ReplacePool, ZenonT(60)
<1>6. ASSUME NEW b \in Items(kind)
      PROVE  b \in Marked(ps[kind], kind) <=> b \in Marked(pools[kind], kind) /\ b # item
  <2>1. CASE b[1] = n
    <3>1. b \in Marked(pools[kind], kind) <=> b[2] \in pools[kind][n].mask
      BY <1>1, <2>1 DEF Marked
    <3>2. b = item <=> b[2] = i
      BY <1>4, <2>1 DEF Items
    <3> QED BY <1>3, <1>5, <2>1, <3>1, <3>2
  <2>2. CASE b[1] # n
    <3>1. b # item
      BY <1>4, <2>2
    <3>2. b \in Marked(ps[kind], kind) <=> b \in Marked(pools[kind], kind)
      BY <1>5, <2>2
    <3> QED BY <3>1, <3>2
  <2> QED BY <2>1, <2>2
<1> QED BY <1>5, <1>6 DEF Marked

(***************************************************************************)
(* The invariant                                                           *)
(***************************************************************************)
Places == 0 .. METADATA_CACHE_SIZE - 1

Locals == [at : {"idle", "replenish", "run", "away"}, need : 0 .. MaxNeed,
           i : 0 .. METADATA_CACHE_SIZE]

Types ==
    /\ th \in [Threads -> Locals]
    /\ count \in 0 .. METADATA_CACHE_SIZE /\ calls \in 0 .. MaxCalls
    /\ {partial, refused, aborted, is_main} \subseteq BOOLEAN

\* the records in the cache
CachedItems == {cache[i] : i \in Cached}

\* a record or a segment is marked in its pool when it is in use, in one place
Marks ==
    /\ PoolLists(pools)
    /\ cache \in [Places -> Items("BUCKET") \union {NULL}]
    /\ \A i, j \in Cached : cache[i] = cache[j] => i = j
    /\ registered \subseteq Items("BUCKET") /\ registered \intersect CachedItems = {}
    /\ Marked(pools["BUCKET"], "BUCKET") = registered \union CachedItems
    /\ Marked(pools["SEGMENT"], "SEGMENT") = segments

\* who works on the arena holds its mutex
Exclusion ==
    /\ lock \in Threads \union {NoThread}
    /\ \A t \in Threads : lock = t <=> th[t].at \in {"replenish", "run"}

Filling == \E t \in Threads : At(t, "replenish")

\* the places below k are filled, and no others unless memory ran out
FilledBelow(k) == 0 .. k - 1 \subseteq Cached /\ (~partial => Cached = 0 .. k - 1)

\* a thread that fills the cache has filled the places below th[t].i
FilledTo ==
    /\ \A t \in Threads : At(t, "replenish") =>
          th[t].i \in count .. METADATA_CACHE_SIZE /\ FilledBelow(th[t].i)
    /\ ~Filling => FilledBelow(count)

\* an operation on the main arena has the records it needs, for nobody is let in half-way
Enough ==
    is_main => \A t \in Threads :
        /\ th[t].at # "away"
        /\ th[t].at = "replenish" => th[t].need <= METADATA_CACHE_SIZE
        /\ th[t].at = "run" => th[t].need <= count

MainGoesOn == is_main /\ ~partial /\ ~refused => ~aborted

Inv == Types /\ Marks /\ Exclusion /\ FilledTo /\ Enough /\ MainGoesOn

(***************************************************************************)
(* Marks                                                                   *)
(***************************************************************************)
\* A record is put into an empty place of the cache.
LEMMA PutIntoCache ==
    ASSUME Marks, NEW i \in Places, cache[i] = NULL,
           NEW b \in Items("BUCKET"), b # NULL, b \notin CachedItems,
           cache' = [cache EXCEPT ![i] = b]
    PROVE  /\ Cached' = Cached \union {i} /\ CachedItems' = CachedItems \union {b}
           /\ cache' \in [Places -> Items("BUCKET") \union {NULL}]
           /\ (\A j, k \in Cached : cache[j] = cache[k] => j = k)'
<1>1. cache \in [Places -> Items("BUCKET") \union {NULL}] /\ i \notin Cached
  BY DEF Marks, Cached
<1> HIDE DEF Items, NULL
<1>2. cache'[i] = b /\ (\A j \in Cached : j # i /\ cache'[j] = cache[j])
      /\ cache' \in [Places -> Items("BUCKET") \union {NULL}]
  BY <1>1 DEF Cached
<1>3. Cached' = Cached \union {i}
  BY <1>1, <1>2 DEF Cached
<1>4. \A j \in Cached : cache[j] # b
  BY DEF CachedItems
<1>5. CachedItems' = CachedItems \union {b}
  BY <1>2, <1>3 DEF CachedItems
<1>6. ASSUME NEW j \in Cached', NEW k \in Cached', cache'[j] = cache'[k] PROVE j = k
  BY <1>2, <1>3, <1>4, <1>6 DEF Marks
<1> QED BY <1>2, <1>3, <1>5, <1>6

\* A record is taken from its place in the cache.
LEMMA TakeFromCache ==
    ASSUME Marks, NEW i \in Cached, cache' = [cache EXCEPT ![i] = NULL]
    PROVE  /\ Cached' = Cached \ {i} /\ CachedItems' = CachedItems \ {cache[i]}
           /\ cache[i] \in CachedItems
           /\ cache' \in [Places -> Items("BUCKET") \union {NULL}]
           /\ (\A j, k \in Cached : cache[j] = cache[k] => j = k)'
<1>1. cache \in [Places -> Items("BUCKET") \union {NULL}] /\ i \in Places
  BY DEF Marks, Cached
<1> HIDE DEF Items, NULL
<1>2. cache'[i] = NULL /\ (\A j \in Cached \ {i} : cache'[j] = cache[j])
      /\ cache' \in [Places -> Items("BUCKET") \union {NULL}]
  BY <1>1 DEF Cached
<1>3. Cached' = Cached \ {i}
  BY <1>1, <1>2 DEF Cached
<1>4. \A j \in Cached \ {i} : cache[j] # cache[i]
  BY DEF Marks
<1>5. CachedItems' = CachedItems \ {cache[i]} /\ cache[i] \in CachedItems
  BY <1>2, <1>3, <1>4 DEF CachedItems
<1>6. ASSUME NEW j \in Cached', NEW k \in Cached', cache'[j] = cache'[k] PROVE j = k
  BY <1>2, <1>3, <1>6 DEF Marks
<1> QED BY <1>2, <1>3, <1>5, <1>6

\* Nobody fills the cache while t works with records.
LEMMA Working ==
    ASSUME Inv, NEW t \in Threads, th[t].at = "run"
    PROVE  ~Filling /\ FilledBelow(count)
BY ThreadAssumption DEF Inv, Exclusion, FilledTo, Filling, At

\* Each step keeps the marks.
LEMMA MarksStep ==
    ASSUME Inv, NEW t \in Threads, Step(t)
    PROVE  Marks'
<1> USE DEF At
<1>1. Marks /\ PoolLists(pools)
  BY DEF Inv, Marks
<1>2. "BUCKET" \in Kinds /\ "SEGMENT" \in Kinds /\ "BUCKET" # "SEGMENT"
  BY DEF Kinds
<1>3. ASSUME UNCHANGED <<pools, cache, registered, segments>> PROVE Marks'
  BY <1>1, <1>3 DEF Marks, PoolLists, CachedItems, Cached
<1>4. CASE Fill(t)
  <2>1. CASE cache[th[t].i] # NULL
    BY <1>3, <1>4, <2>1 DEF Fill
  <2>2. CASE cache[th[t].i] = NULL
    <3> DEFINE b == Allocated("BUCKET").item
               i == th[t].i
    <3>1. Available("BUCKET") /\ pools' = Allocated("BUCKET").pools
          /\ cache' = [cache EXCEPT ![i] = b] /\ UNCHANGED <<registered, segments>>
      BY <1>4, <2>2 DEF Fill
    <3>2. i \in Places
      BY <1>4, PoolAssumption DEF Fill, Inv, Types, Locals, Places
    <3>3. /\ PoolLists(pools') /\ pools'["SEGMENT"] = pools["SEGMENT"]
          /\ b \in Items("BUCKET") /\ b # NULL
          /\ b \notin Marked(pools["BUCKET"], "BUCKET")
          /\ Marked(pools'["BUCKET"], "BUCKET") = Marked(pools["BUCKET"], "BUCKET") \union {b}
      BY <1>1, <1>2, <3>1, AllocatedItem
    <3> HIDE DEF b
    <3>4. b \notin registered /\ b \notin CachedItems
      BY <1>1, <3>3 DEF Marks
    <3>5. /\ CachedItems' = CachedItems \union {b}
          /\ cache' \in [Places -> Items("BUCKET") \union {NULL}]
          /\ (\A j, k \in Cached : cache[j] = cache[k] => j = k)'
      BY <1>1, <2>2, <3>2, <3>1, <3>3, <3>4, PutIntoCache
    <3> QED BY <1>1, <3>1, <3>3, <3>4, <3>5 DEF Marks
  <2> QED BY <2>1, <2>2
<1>5. CASE Register(t)
  <2>1. CASE FromPool
    <3> DEFINE b == Allocated("BUCKET").item
    <3>1. Available("BUCKET") /\ pools' = Allocated("BUCKET").pools
          /\ registered' = registered \union {b} /\ UNCHANGED <<cache, segments>>
      BY <1>5, <2>1 DEF Register, FromPool
    <3>2. /\ PoolLists(pools') /\ pools'["SEGMENT"] = pools["SEGMENT"]
          /\ b \in Items("BUCKET")
          /\ b \notin Marked(pools["BUCKET"], "BUCKET")
          /\ Marked(pools'["BUCKET"], "BUCKET") = Marked(pools["BUCKET"], "BUCKET") \union {b}
      BY <1>1, <1>2, <3>1, AllocatedItem
    <3> HIDE DEF b
    <3>3. CachedItems' = CachedItems /\ Cached' = Cached
      BY <3>1 DEF CachedItems, Cached
    <3> QED BY <1>1, <3>1, <3>2, <3>3 DEF Marks
  <2>2. CASE FromCache
    <3> DEFINE b == cache[count - 1]
    <3>1. cache' = [cache EXCEPT ![count - 1] = NULL] /\ registered' = registered \union {b}
          /\ UNCHANGED <<pools, segments>> /\ count > 0
      BY <1>5, <2>2 DEF Register, FromCache
    <3>2. count - 1 \in Cached
      BY <1>5, <3>1, Working DEF Register, FilledBelow, Inv, Types
    <3>3. /\ CachedItems' = CachedItems \ {b} /\ b \in CachedItems
          /\ cache' \in [Places -> Items("BUCKET") \union {NULL}]
          /\ (\A j, k \in Cached : cache[j] = cache[k] => j = k)'
      BY <1>1, <3>1, <3>2, TakeFromCache
    <3>4. b \in Items("BUCKET")
      BY <1>1, <3>3 DEF Marks, Marked
    <3> HIDE DEF b
    <3> QED BY <1>1, <3>1, <3>3, <3>4 DEF Marks
  <2> QED BY <1>5, <2>1, <2>2 DEF Register
<1>6. CASE GrowTable(t)
  <2> DEFINE b == Allocated("SEGMENT").item
  <2>1. Available("SEGMENT") /\ pools' = Allocated("SEGMENT").pools
        /\ segments' = segments \union {b} /\ UNCHANGED <<cache, registered>>
    BY <1>6 DEF GrowTable
  <2>2. /\ PoolLists(pools') /\ pools'["BUCKET"] = pools["BUCKET"]
        /\ Marked(pools'["SEGMENT"], "SEGMENT") = Marked(pools["SEGMENT"], "SEGMENT") \union {b}
    BY <1>1, <1>2, <2>1, AllocatedItem
  <2> QED BY <1>1, <2>1, <2>2 DEF Marks, CachedItems, Cached
<1>7. CASE Unregister(t)
  <2>1. PICK b \in registered :
          /\ registered' = registered \ {b} /\ UNCHANGED <<cache, segments>>
          /\ IF IsSet("BUCKET", b) THEN pools' = Released("BUCKET", b) ELSE UNCHANGED pools
    BY <1>7 DEF Unregister
  <2>2. b \in Marked(pools["BUCKET"], "BUCKET") /\ b \notin CachedItems
    BY <1>1 DEF Marks
  <2>3. pools' = Released("BUCKET", b)
    BY <2>1, <2>2 DEF IsSet, Marked
  <2>4. /\ PoolLists(pools') /\ pools'["SEGMENT"] = pools["SEGMENT"]
        /\ Marked(pools'["BUCKET"], "BUCKET") = Marked(pools["BUCKET"], "BUCKET") \ {b}
    BY <1>1, <1>2, <2>2, <2>3, ReleasedItem
  <2>5. CachedItems' = CachedItems /\ Cached' = Cached
    BY <2>1 DEF CachedItems, Cached
  <2> QED BY <1>1, <2>1, <2>2, <2>4, <2>5 DEF Marks
<1>8. CASE ShrinkTable(t)
  <2>1. PICK b \in segments :
          /\ segments' = segments \ {b} /\ pools' = Released("SEGMENT", b)
          /\ UNCHANGED <<cache, registered>>
    BY <1>8 DEF ShrinkTable
  <2>2. b \in Marked(pools["SEGMENT"], "SEGMENT")
    BY <1>1 DEF Marks
  <2>3. /\ PoolLists(pools') /\ pools'["BUCKET"] = pools["BUCKET"]
        /\ Marked(pools'["SEGMENT"], "SEGMENT") = Marked(pools["SEGMENT"], "SEGMENT") \ {b}
    BY <1>1, <1>2, <2>1, <2>2, ReleasedItem
  <2> QED BY <1>1, <2>1, <2>3 DEF Marks, CachedItems, Cached
<1>9. CASE Call(t) \/ Guest(t) \/ Filled(t) \/ FillFails(t) \/ RegisterAborts(t)
           \/ GrowTableFails(t) \/ Return(t) \/ SwitchToMain(t) \/ Relock(t)
  BY <1>3, <1>9 DEF Call, Guest, Filled, FillFails, RegisterAborts, GrowTableFails, Return,
                    SwitchToMain, Relock, memory
<1> QED BY <1>4, <1>5, <1>6, <1>7, <1>8, <1>9 DEF Step

(***************************************************************************)
(* The other parts                                                         *)
(***************************************************************************)
\* Each step keeps the types.
LEMMA TypesStep ==
    ASSUME Inv, NEW t \in Threads, Step(t)
    PROVE  Types'
<1> USE PoolAssumption DEF At
<1>1. th \in [Threads -> Locals] /\ th[t] \in Locals /\ count \in 0 .. METADATA_CACHE_SIZE
  BY DEF Inv, Types
<1>2. th' \in [Threads -> Locals]
  <2> USE <1>1 DEF Locals
  <2>1. CASE Call(t)
    <3>1. PICK need \in 0 .. MaxNeed :
            th' = [th EXCEPT ![t] = [at |-> "replenish", need |-> need, i |-> count]]
      BY <2>1 DEF Call
    <3> QED BY <3>1
  <2>2. CASE Guest(t)
    BY <2>2 DEF Guest
  <2>3. CASE Fill(t) \/ Filled(t) \/ FillFails(t)
    BY <2>3 DEF Fill, Filled, FillFails, Idle
  <2>4. CASE Register(t)
    <3>1. th' = [th EXCEPT ![t].need = @ - 1] /\ th[t].need > 0
      BY <2>4 DEF Register
    <3> QED BY <3>1
  <2>5. CASE Return(t) \/ SwitchToMain(t) \/ Relock(t)
    BY <2>5 DEF Return, SwitchToMain, Relock, GoTo, Idle
  <2>6. CASE UNCHANGED th
    BY <2>6
  <2> QED BY <2>1, <2>2, <2>3, <2>4, <2>5, <2>6
          DEF Step, RegisterAborts, GrowTable, GrowTableFails, Unregister, ShrinkTable
<1>3. count' \in 0 .. METADATA_CACHE_SIZE
  <2>1. CASE Filled(t)
    BY <2>1 DEF Filled
  <2>2. CASE Register(t)
    BY <1>1, <2>2 DEF Register, FromPool, FromCache
  <2>3. CASE UNCHANGED count
    BY <1>1, <2>3
  <2> QED BY <2>1, <2>2, <2>3
          DEF Step, Call, Guest, Fill, FillFails, RegisterAborts, GrowTable, GrowTableFails,
              Unregister, ShrinkTable, Return, SwitchToMain, Relock, memory
<1>4. {partial, refused, aborted, is_main} \subseteq BOOLEAN /\ calls \in 0 .. MaxCalls
  BY DEF Inv, Types
<1>5. calls' \in 0 .. MaxCalls
  BY <1>4 DEF Step, Call, Guest, Fill, Filled, FillFails, Register, RegisterAborts, GrowTable,
              GrowTableFails, Unregister, ShrinkTable, Return, SwitchToMain, Relock
<1>6. partial' \in BOOLEAN /\ refused' \in BOOLEAN /\ aborted' \in BOOLEAN /\ is_main' \in BOOLEAN
  BY <1>4 DEF Step, Call, Guest, Fill, Filled, FillFails, Register, RegisterAborts, GrowTable,
              GrowTableFails, Unregister, ShrinkTable, Return, SwitchToMain, Relock
<1> QED BY <1>2, <1>3, <1>5, <1>6 DEF Types

\* Each step keeps the mutex with the thread that works on the arena.
LEMMA ExclusionStep ==
    ASSUME Inv, NEW t \in Threads, Step(t)
    PROVE  Exclusion'
<1> DEFINE Others == \A u \in Threads \ {t} : th'[u] = th[u]
           Works(r) == r.at \in {"replenish", "run"}
<1>1. th \in [Threads -> Locals] /\ Exclusion
  BY DEF Inv, Types
<1>2. ASSUME lock = NoThread, lock' = t, Others, Works(th'[t]) PROVE Exclusion'
  BY <1>1, <1>2, ThreadAssumption DEF Exclusion
<1>3. ASSUME Works(th[t]), lock' = NoThread, Others, ~Works(th'[t]) PROVE Exclusion'
  BY <1>1, <1>3, ThreadAssumption DEF Exclusion
<1>4. ASSUME UNCHANGED lock, Others, Works(th'[t]) <=> Works(th[t]) PROVE Exclusion'
  BY <1>1, <1>4 DEF Exclusion
<1>5. CASE Call(t)
  <2>1. Others /\ Works(th'[t])
    BY <1>1, <1>5 DEF Call
  <2> QED BY <1>2, <1>5, <2>1 DEF Call
<1>6. CASE Guest(t)
  <2>1. CASE count = 0
    BY <1>4, <1>6, <2>1 DEF Guest
  <2>2. CASE count # 0
    <3>1. Others /\ Works(th'[t])
      BY <1>1, <1>6, <2>2 DEF Guest
    <3> QED BY <1>2, <1>6, <2>2, <3>1 DEF Guest
  <2> QED BY <2>1, <2>2
<1>7. CASE Relock(t)
  <2>1. Others /\ Works(th'[t])
    BY <1>1, <1>7 DEF Relock, GoTo, Locals
  <2> QED BY <1>2, <1>7, <2>1 DEF Relock
<1>8. CASE FillFails(t) \/ Return(t)
  <2>1. Others /\ ~Works(th'[t]) /\ Works(th[t])
    BY <1>1, <1>8 DEF FillFails, Return, Idle, At
  <2> QED BY <1>3, <1>8, <2>1 DEF FillFails, Return
<1>9. CASE SwitchToMain(t)
  <2>1. Others /\ ~Works(th'[t]) /\ Works(th[t])
    BY <1>1, <1>9 DEF SwitchToMain, GoTo, Locals, At
  <2> QED BY <1>3, <1>9, <2>1 DEF SwitchToMain
<1>10. CASE Fill(t) \/ Filled(t) \/ Register(t)
  <2>1. Others /\ Works(th'[t]) /\ Works(th[t])
    BY <1>1, <1>10 DEF Fill, Filled, Register, Locals, At
  <2> QED BY <1>4, <1>10, <2>1 DEF Fill, Filled, Register
<1>11. CASE RegisterAborts(t) \/ GrowTable(t) \/ GrowTableFails(t) \/ Unregister(t)
            \/ ShrinkTable(t)
  BY <1>4, <1>11 DEF RegisterAborts, GrowTable, GrowTableFails, Unregister, ShrinkTable
<1> QED BY <1>5, <1>6, <1>7, <1>8, <1>9, <1>10, <1>11 DEF Step

\* Each step keeps the places of the cache that are filled in agreement with the count or,
\* while the cache is being filled, with the thread's place.
LEMMA FilledToStep ==
    ASSUME Inv, NEW t \in Threads, Step(t)
    PROVE  FilledTo'
<1> USE PoolAssumption DEF At
<1>1. th \in [Threads -> Locals] /\ count \in 0 .. METADATA_CACHE_SIZE
      /\ cache \in [Places -> Items("BUCKET") \union {NULL}]
  BY DEF Inv, Types, Marks
<1>2. Marks /\ FilledTo
  BY DEF Inv
<1>3. \A u \in Threads \ {t} : lock \in {NoThread, t} => ~At(u, "replenish")
  BY ThreadAssumption DEF Inv, Exclusion
<1>4. th[t].at \in {"replenish", "run"} => lock = t
  BY DEF Inv, Exclusion
<1>5. ASSUME \A u \in Threads \ {t} : th'[u] = th[u] /\ ~At(u, "replenish"),
             IF th'[t].at = "replenish"
             THEN th'[t].i \in count' .. METADATA_CACHE_SIZE /\ FilledBelow(th[t].i)'
             ELSE FilledBelow(count)'
      PROVE  FilledTo'
  BY <1>5 DEF FilledTo, Filling
<1>6. ASSUME UNCHANGED <<cache, count, partial>>,
             \A u \in Threads : At(u, "replenish")' <=> At(u, "replenish"),
             \A u \in Threads : At(u, "replenish") => th'[u].i = th[u].i
      PROVE  FilledTo'
  BY <1>2, <1>6 DEF FilledTo, Filling, FilledBelow, Cached
<1>7. CASE Call(t)
  <2>1. \A u \in Threads \ {t} : th'[u] = th[u] /\ ~At(u, "replenish")
    BY <1>1, <1>3, <1>7 DEF Call
  <2>2. th'[t].at = "replenish" /\ th'[t].i = count /\ th[t].at = "idle"
    BY <1>1, <1>7 DEF Call
  <2>3. FilledBelow(count)
    BY <1>2, <2>1, <2>2 DEF FilledTo, Filling
  <2>4. UNCHANGED <<cache, count, partial>>
    BY <1>7 DEF Call, memory
  <2>5. FilledBelow(th[t].i)'
    BY <2>2, <2>3, <2>4 DEF FilledBelow, Cached
  <2> QED BY <1>1, <1>5, <2>1, <2>2, <2>4, <2>5
<1>8. CASE Fill(t)
  <2>1. \A u \in Threads \ {t} : th'[u] = th[u] /\ ~At(u, "replenish")
    BY <1>1, <1>3, <1>4, <1>8 DEF Fill
  <2>2. CASE cache[th[t].i] # NULL
    BY <1>6, <1>8, <2>2 DEF Fill
  <2>3. CASE cache[th[t].i] = NULL
    <3> DEFINE b == Allocated("BUCKET").item
               i == th[t].i
    <3>1. Available("BUCKET") /\ cache' = [cache EXCEPT ![i] = b]
          /\ UNCHANGED <<count, partial>>
      BY <1>8, <2>3 DEF Fill
    <3>2. th'[t].i = i + 1 /\ th'[t].at = "replenish"
      BY <1>1, <1>8, <2>3 DEF Fill, Locals
    <3>3. i \in count .. METADATA_CACHE_SIZE - 1 /\ i \in Places /\ FilledBelow(i)
      BY <1>1, <1>2, <1>8 DEF Fill, FilledTo, Places
    <3>4. b # NULL
      BY <1>2, <3>1, AllocatedItem DEF Marks, Kinds
    <3> HIDE DEF b, i
    <3>5. Cached' = Cached \union {i}
      BY <1>1, <3>1, <3>3, <3>4 DEF Cached
    <3>6. 0 .. i \subseteq Cached' /\ (~partial => Cached' = 0 .. i)
      <4>1. (0 .. i - 1) \union {i} = 0 .. i
        BY <1>1, <3>3
      <4> QED BY <3>3, <3>5, <4>1 DEF FilledBelow
    <3>7. th'[t].i - 1 = i /\ th'[t].i \in count' .. METADATA_CACHE_SIZE
      BY <1>1, <3>1, <3>2, <3>3
    <3>8. FilledBelow(th[t].i)'
      BY <3>1, <3>6, <3>7 DEF FilledBelow
    <3> QED BY <1>5, <2>1, <3>2, <3>7, <3>8
  <2> QED BY <2>2, <2>3
<1>9. CASE Filled(t)
  <2>1. \A u \in Threads \ {t} : th'[u] = th[u] /\ ~At(u, "replenish")
    BY <1>1, <1>3, <1>4, <1>9 DEF Filled
  <2>2. th'[t].at = "run" /\ count' = th[t].i /\ UNCHANGED <<cache, partial>>
    BY <1>1, <1>9 DEF Filled, Locals
  <2>3. FilledBelow(th[t].i)
    BY <1>2, <1>9 DEF Filled, FilledTo
  <2>4. FilledBelow(count)'
    BY <2>2, <2>3 DEF FilledBelow, Cached
  <2> QED BY <1>5, <2>1, <2>2, <2>4
<1>10. CASE FillFails(t)
  <2>1. \A u \in Threads \ {t} : th'[u] = th[u] /\ ~At(u, "replenish")
    BY <1>1, <1>3, <1>4, <1>10 DEF FillFails
  <2>2. th'[t].at = "idle" /\ partial' = (partial \/ th[t].i > count)
        /\ UNCHANGED <<cache, count>>
    BY <1>1, <1>10 DEF FillFails, Idle, memory
  <2>3. th[t].i \in count .. METADATA_CACHE_SIZE /\ FilledBelow(th[t].i)
    BY <1>2, <1>10 DEF FillFails, FilledTo
  <2>4. partial' \/ (~partial /\ ~(th[t].i > count))
    BY <2>2
  <2>5. ~(th[t].i > count) => th[t].i = count
    BY <1>1, <2>3
  <2>6. Cached' = Cached /\ 0 .. count' - 1 \subseteq Cached
    BY <1>1, <2>2, <2>3 DEF FilledBelow, Cached
  <2>7. ~partial' => Cached' = 0 .. count' - 1
    BY <2>2, <2>3, <2>4, <2>5, <2>6 DEF FilledBelow
  <2> QED BY <1>5, <2>1, <2>2, <2>6, <2>7 DEF FilledBelow
<1>11. CASE Register(t)
  <2>1. th[t].at = "run" /\ th'[t].at = "run" /\ UNCHANGED partial
    BY <1>1, <1>11 DEF Register, Locals
  <2>2. FilledBelow(count)
    BY <2>1, Working
  <2>3. \A u \in Threads \ {t} : th'[u] = th[u] /\ ~At(u, "replenish")
    BY <1>1, <1>3, <1>4, <1>11 DEF Register
  <2>4. CASE FromPool
    <3>1. UNCHANGED <<cache, count>>
      BY <2>4 DEF FromPool
    <3>2. FilledBelow(count)'
      BY <2>1, <2>2, <3>1 DEF FilledBelow, Cached
    <3> QED BY <1>5, <2>1, <2>3, <3>2
  <2>5. CASE FromCache
    <3>1. count > 0 /\ count' = count - 1 /\ cache' = [cache EXCEPT ![count - 1] = NULL]
      BY <1>11, <2>5 DEF Register, FromCache
    <3>2. count - 1 \in Cached
      BY <1>1, <2>2, <3>1 DEF FilledBelow
    <3>3. Cached' = Cached \ {count - 1}
      BY <1>2, <3>1, <3>2, TakeFromCache
    <3>4. FilledBelow(count)'
      BY <1>1, <2>1, <2>2, <3>1, <3>3 DEF FilledBelow
    <3> QED BY <1>5, <2>1, <2>3, <3>4
  <2> QED BY <1>11, <2>4, <2>5 DEF Register
<1>12. CASE Guest(t) \/ Return(t) \/ SwitchToMain(t) \/ Relock(t)
  <2>1. \A u \in Threads : At(u, "replenish")' <=> At(u, "replenish")
    BY <1>1, <1>12 DEF Guest, Return, SwitchToMain, Relock, GoTo, Idle, Locals
  <2>2. \A u \in Threads : At(u, "replenish") => th'[u].i = th[u].i
    BY <1>1, <1>12 DEF Guest, Return, SwitchToMain, Relock, GoTo, Idle, Locals
  <2> QED BY <1>6, <1>12, <2>1, <2>2 DEF Guest, Return, SwitchToMain, Relock, memory
<1>13. CASE RegisterAborts(t) \/ GrowTable(t) \/ GrowTableFails(t) \/ Unregister(t)
            \/ ShrinkTable(t)
  BY <1>6, <1>13
     DEF RegisterAborts, GrowTable, GrowTableFails, Unregister, ShrinkTable, memory
<1> QED BY <1>7, <1>8, <1>9, <1>10, <1>11, <1>12, <1>13 DEF Step

\* Each step leaves an operation on the main arena the records it needs.
LEMMA EnoughStep ==
    ASSUME Inv, NEW t \in Threads, Step(t)
    PROVE  Enough'
<1> SUFFICES ASSUME is_main' PROVE Enough'
  BY DEF Enough
<1> USE PoolAssumption DEF At
<1>1. th \in [Threads -> Locals] /\ count \in 0 .. METADATA_CACHE_SIZE
  BY DEF Inv, Types
<1>2. UNCHANGED is_main
  BY DEF Step, Call, Guest, Fill, Filled, FillFails, Register, RegisterAborts, GrowTable,
         GrowTableFails, Unregister, ShrinkTable, Return, SwitchToMain, Relock
<1>3. \A u \in Threads : /\ th[u].at # "away"
                         /\ th[u].at = "replenish" => th[u].need <= METADATA_CACHE_SIZE
                         /\ th[u].at = "run" => th[u].need <= count
  BY <1>2 DEF Inv, Enough
<1>4. \A u \in Threads \ {t} : lock = t => th[u].at # "run"
  BY ThreadAssumption DEF Inv, Exclusion
<1>5. th[t].at \in {"replenish", "run"} => lock = t
  BY DEF Inv, Exclusion
<1>6. CASE Call(t)
  <2>1. PICK need \in 0 .. MaxNeed :
          th' = [th EXCEPT ![t] = [at |-> "replenish", need |-> need, i |-> count]]
    BY <1>6 DEF Call
  <2> QED BY <1>1, <1>3, <1>6, <2>1 DEF Call, memory, Enough
<1>7. CASE Guest(t)
  BY <1>1, <1>3, <1>7 DEF Guest, memory, Enough
<1>8. CASE Fill(t)
  BY <1>1, <1>3, <1>8 DEF Fill, Locals, Enough
<1>9. CASE Filled(t)
  BY <1>1, <1>3, <1>4, <1>5, <1>9 DEF Filled, Locals, Enough
<1>10. CASE FillFails(t) \/ Return(t)
  <2>1. \A u \in Threads : th'[u] = IF u = t THEN Idle ELSE th[u]
    BY <1>1, <1>10 DEF FillFails, Return
  <2>2. count' = count
    BY <1>10 DEF FillFails, Return, memory
  <2> QED BY <1>3, <2>1, <2>2 DEF Enough, Idle
<1>11. CASE Register(t)
  <2>1. th' = [th EXCEPT ![t].need = @ - 1] /\ th[t].need > 0 /\ count' \in {count, count - 1}
    BY <1>11 DEF Register, FromPool, FromCache
  <2>2. th[t].at = "run" /\ th[t].need <= count
    BY <1>3, <1>11 DEF Register
  <2>3. \A u \in Threads \ {t} : th[u].at # "run" /\ th'[u] = th[u]
    BY <1>1, <1>4, <1>5, <2>1, <2>2
  <2>4. th'[t].at = "run" /\ th'[t].need <= count'
    BY <1>1, <2>1, <2>2 DEF Locals
  <2> QED BY <1>3, <2>3, <2>4 DEF Enough
<1>12. CASE SwitchToMain(t) \/ Relock(t)
  BY <1>2, <1>3, <1>12 DEF SwitchToMain, Relock
<1>13. CASE RegisterAborts(t) \/ GrowTable(t) \/ GrowTableFails(t) \/ Unregister(t)
            \/ ShrinkTable(t)
  BY <1>3, <1>13
     DEF RegisterAborts, GrowTable, GrowTableFails, Unregister, ShrinkTable, memory, Enough
<1> QED BY <1>6, <1>7, <1>8, <1>9, <1>10, <1>11, <1>12, <1>13 DEF Step

\* No step fails an assertion: an empty place is where it is expected, a bit that is to be
\* cleared is set, and, by hypothesis, a record that t needs is in the cache.
LEMMA NothingFails ==
    ASSUME Inv, NEW t \in Threads, ~aborted, Step(t), ~partial', ~refused', ~OutOfRecords(t)
    PROVE  ~aborted'
<1> SUFFICES ASSUME aborted' PROVE FALSE
  BY DEF Inv, Types
<1> USE PoolAssumption DEF At
<1>1. th \in [Threads -> Locals] /\ count \in 0 .. METADATA_CACHE_SIZE
  BY DEF Inv, Types
<1>2. CASE Fill(t)
  <2>1. ~partial /\ cache[th[t].i] # NULL /\ th[t].i < METADATA_CACHE_SIZE
    BY <1>2 DEF Fill
  <2>2. Cached = 0 .. th[t].i - 1 /\ th[t].i \in Places
    BY <1>1, <1>2, <2>1 DEF Fill, Inv, FilledTo, FilledBelow, Locals, Places
  <2>3. th[t].i \in Cached
    BY <2>1, <2>2 DEF Inv, Marks, Cached
  <2> QED BY <2>2, <2>3 DEF Places
<1>3. CASE RegisterAborts(t)
  BY <1>3 DEF RegisterAborts
<1>4. CASE GrowTableFails(t)
  BY <1>4 DEF GrowTableFails
<1>5. CASE Unregister(t)
  <2>1. PICK b \in registered : ~IsSet("BUCKET", b)
    BY <1>5 DEF Unregister
  <2>2. b \in Marked(pools["BUCKET"], "BUCKET")
    BY DEF Inv, Marks
  <2> QED BY <2>1, <2>2 DEF IsSet, Marked
<1>6. CASE Call(t) \/ Guest(t) \/ Filled(t) \/ FillFails(t) \/ Register(t) \/ GrowTable(t)
           \/ ShrinkTable(t) \/ Return(t) \/ SwitchToMain(t) \/ Relock(t)
  BY <1>6 DEF Call, Guest, Filled, FillFails, Register, GrowTable, ShrinkTable, Return,
              SwitchToMain, Relock
<1> QED BY <1>2, <1>3, <1>4, <1>5, <1>6 DEF Step

\* On the main arena a record that an operation needs is in the cache.
LEMMA GoesOnStep ==
    ASSUME Inv, NEW t \in Threads, ~aborted, Step(t)
    PROVE  MainGoesOn'
<1> SUFFICES ASSUME is_main', ~partial', ~refused' PROVE ~aborted'
  BY DEF MainGoesOn
<1>1. is_main
  BY DEF Step, Call, Guest, Fill, Filled, FillFails, Register, RegisterAborts, GrowTable,
         GrowTableFails, Unregister, ShrinkTable, Return, SwitchToMain, Relock
<1>2. ~OutOfRecords(t)
  <2> SUFFICES ASSUME th[t].at = "run", th[t].need > 0, count = 0 PROVE FALSE
    BY DEF OutOfRecords, At
  <2>1. th[t].need <= count /\ th[t].need \in Int
    BY <1>1 DEF Inv, Enough, Types, Locals
  <2> QED BY <2>1
<1> QED BY <1>2, NothingFails

(***************************************************************************)
(* The results                                                             *)
(***************************************************************************)
\* replenish_metadata_cache has filled the cache when the arena is set up, or the process
\* has ended.
LEMMA InitInv == Init => Inv
<1> SUFFICES ASSUME Init PROVE Inv
  OBVIOUS
<1> USE PoolAssumption
<1> DEFINE C == METADATA_CACHE_SIZE
           first == [mask |-> 0 .. C - 1, free_count |-> BP_LENGTH - C]
           segment == SetBit(NewPool("SEGMENT"), 0)
<1>1. Types
  <2>1. th \in [Threads -> Locals]
    BY DEF Init, Idle, Locals
  <2>2. count \in 0 .. C /\ calls \in 0 .. MaxCalls
    BY DEF Init
  <2>3. {partial, refused, aborted, is_main} \subseteq BOOLEAN
    BY DEF Init
  <2> QED BY <2>1, <2>2, <2>3 DEF Types
<1>2. pools["BUCKET"] = <<first>> /\ pools["SEGMENT"] = <<segment>> /\ DOMAIN pools = Kinds
  BY DEF Init, Kinds
<1>3. Counted("BUCKET", first)
  <2>1. Cardinality(0 .. C - 1) = C
    BY FS_Interval
  <2> QED BY <2>1 DEF Counted, Pool, PoolLength
<1>4. Counted("SEGMENT", segment) /\ segment.mask = {0}
  <2>1. Counted("SEGMENT", NewPool("SEGMENT")) /\ NewPool("SEGMENT").mask = {}
    BY FS_EmptySet DEF Counted, Pool, NewPool, PoolLength
  <2> QED BY <2>1, SetBitCounted DEF Kinds, PoolLength
<1> HIDE DEF segment
<1>5. PoolLists(pools)
  <2>1. first \in Pool("BUCKET") /\ segment \in Pool("SEGMENT")
    BY <1>3, <1>4 DEF Counted
  <2> HIDE DEF first
  <2>2. ASSUME NEW kind \in Kinds
        PROVE  /\ pools[kind] \in Seq(Pool(kind)) /\ Len(pools[kind]) <= MaxPools
               /\ \A n \in 1 .. Len(pools[kind]) : Counted(kind, pools[kind][n])
    <3>1. ASSUME NEW pool, pools[kind] = <<pool>>, Counted(kind, pool)
          PROVE  /\ pools[kind] \in Seq(Pool(kind)) /\ Len(pools[kind]) <= MaxPools
                 /\ \A n \in 1 .. Len(pools[kind]) : Counted(kind, pools[kind][n])
      <4>1. pool \in Pool(kind)
        BY <3>1 DEF Counted
      <4>2. Len(pools[kind]) = 1 /\ pools[kind][1] = pool
        BY <3>1
      <4> QED BY <3>1, <4>1, <4>2
    <3>2. kind = "BUCKET" \/ kind = "SEGMENT"
      BY DEF Kinds
    <3> QED BY <1>2, <1>3, <1>4, <3>1, <3>2
  <2> QED BY <1>2, <2>2 DEF PoolLists
<1>6. Cached = Places /\ \A i \in Places : cache[i] = <<1, i>>
  BY DEF Init, Cached, Places, NULL
<1>7. Marks
  <2>1. \A i \in Places : <<1, i>> \in Items("BUCKET")
    BY DEF Places, Items, PoolLength
  <2>2. cache \in [Places -> Items("BUCKET") \union {NULL}]
    BY <2>1 DEF Init, Places
  <2>3. \A b \in Items("BUCKET") : b \in Marked(<<first>>, "BUCKET") <=> b[1] = 1 /\ b[2] \in Places
    BY DEF Marked, Items, Places
  <2>4. \A b \in Items("BUCKET") : b \in CachedItems <=> b[1] = 1 /\ b[2] \in Places
    BY <1>6 DEF CachedItems, Items
  <2>5. CachedItems \subseteq Items("BUCKET")
    BY <1>6, <2>1 DEF CachedItems
  <2>6. Marked(pools["BUCKET"], "BUCKET") = CachedItems
    BY <1>2, <2>3, <2>4, <2>5 DEF Marked
  <2>7. Marked(<<segment>>, "SEGMENT") = {<<1, 0>>}
    BY <1>4 DEF Marked, Items, PoolLength
  <2>8. registered = {} /\ segments = {<<1, 0>>}
    BY DEF Init
  <2>9. \A i, j \in Cached : cache[i] = cache[j] => i = j
    BY <1>6
  <2> QED BY <1>2, <1>5, <2>2, <2>6, <2>7, <2>8, <2>9 DEF Marks
<1>8. Exclusion
  BY ThreadAssumption DEF Init, Exclusion, Idle
<1>9. FilledTo
  <2>1. Cached = 0 .. count - 1
    BY <1>6 DEF Init, Places
  <2>2. \A t \in Threads : ~At(t, "replenish")
    BY DEF Init, At, Idle
  <2> QED BY <2>1, <2>2 DEF FilledTo, FilledBelow
<1>10. Enough /\ MainGoesOn
  BY DEF Init, Enough, MainGoesOn, Idle
<1> QED BY <1>1, <1>7, <1>8, <1>9, <1>10 DEF Inv

\* Every step keeps the invariant.
LEMMA NextInv == Inv /\ [Next]_vars => Inv'
<1> SUFFICES ASSUME Inv, [Next]_vars PROVE Inv'
  OBVIOUS
<1>1. ASSUME NEW t \in Threads, ~aborted, Step(t) PROVE Inv'
  BY <1>1, TypesStep, MarksStep, ExclusionStep, FilledToStep, EnoughStep, GoesOnStep DEF Inv
<1>2. CASE UNCHANGED vars
  <2> USE <1>2 DEF vars, memory, Inv
  <2>1. Types' /\ Exclusion' /\ Enough' /\ MainGoesOn'
    BY DEF Types, Exclusion, Enough, MainGoesOn
  <2>2. Cached' = Cached
    BY DEF Cached
  <2>3. Marks'
    BY <2>2 DEF Marks, PoolLists, CachedItems
  <2>4. FilledTo'
    BY <2>2 DEF FilledTo, Filling, FilledBelow, At
  <2> QED BY <2>1, <2>3, <2>4
<1> QED BY <1>1, <1>2 DEF Next, Finished

\* All of it at once.
THEOREM InvAlways == Spec => []Inv
BY InitInv, NextInv, PTL DEF Spec

\* free_count, by which alloc_bucket and alloc_segment (memcxt.c) choose a pool, is the
\* number of zero bits of every pool, and every variable has its type.
THEOREM TypesHold == Spec => []TypeOK
<1>1. Inv => TypeOK
  <2> SUFFICES ASSUME Inv PROVE TypeOK
    OBVIOUS
  <2>1. ASSUME NEW kind \in Kinds, NEW n \in DOMAIN pools[kind]
        PROVE  /\ pools[kind][n].mask \subseteq 0 .. PoolLength(kind) - 1
               /\ pools[kind][n].free_count = PoolLength(kind) - Cardinality(pools[kind][n].mask)
    <3>1. n \in 1 .. Len(pools[kind])
      BY DEF Inv, Marks, PoolLists
    <3> QED BY <3>1 DEF Inv, Marks, PoolLists, Counted, Pool
  <2>2. segments \subseteq Items("SEGMENT")
    BY DEF Inv, Marks, Marked
  <2>3. {aborted, partial, refused} \subseteq BOOLEAN /\ is_main \in BOOLEAN
    BY DEF Inv, Types
  <2> QED BY <2>1, <2>2, <2>3 DEF Inv, Types, Marks, Exclusion, Places, Locals, TypeOK
<1> QED BY <1>1, InvAlways, PTL

\* A record whose bit is set is in the hash table or in one place of the cache, and a record
\* whose bit is not set is nowhere: alloc_bucket (memcxt.c) hands out no record twice, and
\* replenish_metadata_cache and new_chunkinfoptr (malloc.c) lose none, however far the
\* cache was filled or drained.
THEOREM NoRecordTwice == Spec => []InOnePlace
<1>1. Inv => InOnePlace
  <2> SUFFICES ASSUME Inv PROVE InOnePlace
    OBVIOUS
  <2>1. ASSUME NEW b \in Items("BUCKET")
        PROVE  LET set == b[1] <= Len(pools["BUCKET"]) /\ IsSet("BUCKET", b)
                   places == Cardinality({i \in Cached : cache[i] = b})
                             + (IF b \in registered THEN 1 ELSE 0)
               IN  places = IF set THEN 1 ELSE 0
    <3> DEFINE I == {i \in Cached : cache[i] = b}
               set == b[1] <= Len(pools["BUCKET"]) /\ IsSet("BUCKET", b)
    <3>1. set <=> b \in registered \/ b \in CachedItems
      BY DEF Inv, Marks, Marked, IsSet
    <3>2. CASE b \in CachedItems
      <4>1. PICK i \in Cached : cache[i] = b
        BY <3>2 DEF CachedItems
      <4>2. I = {i}
        BY <4>1 DEF Inv, Marks
      <4>3. Cardinality(I) = 1
        BY <4>2, FS_Singleton
      <4>4. b \notin registered
        BY <3>2 DEF Inv, Marks
      <4> HIDE DEF I, set
      <4> QED BY <3>1, <3>2, <4>3, <4>4 DEF I, set
    <3>3. CASE b \notin CachedItems
      <4>1. I = {}
        BY <3>3 DEF CachedItems
      <4>2. Cardinality(I) = 0
        BY <4>1, FS_EmptySet
      <4> HIDE DEF I, set
      <4> QED BY <3>1, <3>3, <4>2 DEF I, set
    <3> QED BY <3>2, <3>3
  <2>2. ASSUME NEW s \in Items("SEGMENT")
        PROVE  s \in segments <=> s[1] <= Len(pools["SEGMENT"]) /\ IsSet("SEGMENT", s)
    BY DEF Inv, Marks, Marked, IsSet
  <2> QED BY <2>1, <2>2 DEF InOnePlace
<1> QED BY <1>1, InvAlways, PTL

\* Whenever the arena's mutex is free, metadata_cache holds records in the places below
\* metadata_cache_count and in no others, so that the assertion of
\* replenish_metadata_cache (malloc.c:2125) holds in the next operation, unless memory ran
\* out in the middle of filling: for any number of threads and any size of the cache.
THEOREM CountIsTrue == Spec => []CountTrue
<1>1. Inv => CountTrue
  <2> SUFFICES ASSUME Inv, ~partial, lock = NoThread PROVE Cached = 0 .. count - 1
    BY DEF CountTrue
  <2>1. ~Filling
    BY ThreadAssumption DEF Inv, Exclusion, Filling, At
  <2> QED BY <2>1 DEF Inv, FilledTo, FilledBelow
<1> QED BY <1>1, InvAlways, PTL

(***************************************************************************)
(* Arenas that are not the main one                                        *)
(***************************************************************************)
\* the records that operations under way have still to register, one pair for each
ToCome(h) ==
    {p \in Threads \X (1 .. MaxNeed) : h[p[1]].at \in {"run", "away"} /\ p[2] <= h[p[1]].need}

\* the cache is large enough for all the operations that can be under way
LargeCache == IsFiniteSet(Threads) /\ MaxNeed * Cardinality(Threads) <= METADATA_CACHE_SIZE

\* the mutex may change hands in the middle of operations, but there are records for all
EnoughForAll == ~is_main => Cardinality(ToCome(th)) <= count

\* However many are under way, a cache that was just filled has records for all of them.
LEMMA FullIsEnough ==
    ASSUME LargeCache, NEW h
    PROVE  /\ IsFiniteSet(ToCome(h)) /\ Cardinality(ToCome(h)) \in Nat
           /\ Cardinality(ToCome(h)) <= METADATA_CACHE_SIZE
<1> DEFINE P == Threads \X (1 .. MaxNeed)
<1>1. MaxNeed \in Nat /\ METADATA_CACHE_SIZE \in Nat
  BY PoolAssumption
<1>2. IsFiniteSet(1 .. MaxNeed) /\ Cardinality(1 .. MaxNeed) = MaxNeed
  BY <1>1, FS_Interval
<1>3. Cardinality(Threads) \in Nat
  BY FS_CardinalityType DEF LargeCache
<1>4. IsFiniteSet(P) /\ Cardinality(P) = Cardinality(Threads) * MaxNeed
  BY <1>2, FS_Product DEF LargeCache
<1>5. ToCome(h) \subseteq P
  BY DEF ToCome
<1> HIDE DEF P
<1>6. /\ IsFiniteSet(ToCome(h)) /\ Cardinality(ToCome(h)) \in Nat
      /\ Cardinality(ToCome(h)) <= Cardinality(P)
  BY <1>4, <1>5, FS_Subset, FS_CardinalityType
<1>7. Cardinality(Threads) * MaxNeed = MaxNeed * Cardinality(Threads)
  BY <1>1, <1>3
<1>8. Cardinality(P) <= METADATA_CACHE_SIZE /\ Cardinality(P) \in Nat
  BY <1>4, <1>7, FS_CardinalityType DEF LargeCache
<1> QED BY <1>1, <1>6, <1>8

\* Fewer records to come, and no fewer in the cache
LEMMA NoMoreToCome ==
    ASSUME LargeCache, EnoughForAll, UNCHANGED is_main, ToCome(th') \subseteq ToCome(th),
           UNCHANGED count, count \in Nat
    PROVE  EnoughForAll'
<1>1. Cardinality(ToCome(th')) <= Cardinality(ToCome(th))
  BY FullIsEnough, FS_Subset
<1>2. Cardinality(ToCome(th')) \in Nat /\ Cardinality(ToCome(th)) \in Nat
  BY FullIsEnough
<1> QED BY <1>1, <1>2 DEF EnoughForAll

\* Each step leaves records for all that are to come.
LEMMA EnoughForAllStep ==
    ASSUME Inv, LargeCache, EnoughForAll, NEW t \in Threads, Step(t)
    PROVE  EnoughForAll'
<1> SUFFICES ASSUME ~is_main' PROVE EnoughForAll'
  BY DEF EnoughForAll
<1> USE PoolAssumption DEF At
<1>1. th \in [Threads -> Locals] /\ count \in 0 .. METADATA_CACHE_SIZE
  BY DEF Inv, Types
<1>2. UNCHANGED is_main
  BY DEF Step, Call, Guest, Fill, Filled, FillFails, Register, RegisterAborts, GrowTable,
         GrowTableFails, Unregister, ShrinkTable, Return, SwitchToMain, Relock
<1>3. ASSUME UNCHANGED count, \A u \in Threads \ {t} : th'[u] = th[u],
             th'[t].at \in {"run", "away"} => th[t].at \in {"run", "away"},
             th'[t].at \in {"run", "away"} => th'[t].need = th[t].need
      PROVE  EnoughForAll'
  <2>1. ToCome(th') \subseteq ToCome(th)
    BY <1>3 DEF ToCome
  <2> QED BY <1>1, <1>2, <1>3, <2>1, NoMoreToCome
<1>4. CASE Call(t) \/ Fill(t) \/ FillFails(t) \/ Return(t) \/ SwitchToMain(t) \/ Relock(t)
  <2>1. UNCHANGED count /\ \A u \in Threads \ {t} : th'[u] = th[u]
    BY <1>1, <1>4 DEF Call, Fill, FillFails, Return, SwitchToMain, Relock, GoTo, memory
  <2>2. th'[t].at \in {"run", "away"} =>
            th[t].at \in {"run", "away"} /\ th'[t].need = th[t].need
    BY <1>1, <1>4 DEF Call, Fill, FillFails, Return, SwitchToMain, Relock, GoTo, Idle, Locals
  <2> QED BY <1>3, <2>1, <2>2
<1>5. CASE Guest(t)
  BY <1>2, <1>5 DEF Guest
<1>6. CASE Filled(t)
  <2>1. count' = METADATA_CACHE_SIZE
    BY <1>6 DEF Filled
  <2> QED BY <2>1, FullIsEnough DEF EnoughForAll
<1>7. CASE Register(t)
  <2>1. th[t].at = "run" /\ th[t].need \in 1 .. MaxNeed /\ th' = [th EXCEPT ![t].need = @ - 1]
    BY <1>1, <1>7 DEF Register, Locals
  <2>2. count > 0 /\ count' \in {count, count - 1}
    BY <1>7 DEF Register, FromPool, FromCache
  <2> DEFINE p == <<t, th[t].need>>
  <2>3. p \in ToCome(th)
    BY <2>1 DEF ToCome
  <2>4. \A u \in Threads : /\ th'[u].at = th[u].at
                           /\ u # t => th'[u].need = th[u].need
    BY <1>1, <2>1 DEF Locals
  <2>5. th'[t].need = th[t].need - 1
    BY <1>1, <2>1 DEF Locals
  <2>6. ToCome(th') \subseteq ToCome(th) \ {p}
    <3> SUFFICES ASSUME NEW u \in Threads, NEW k \in 1 .. MaxNeed, <<u, k>> \in ToCome(th')
                 PROVE  <<u, k>> \in ToCome(th) /\ <<u, k>> # p
      BY DEF ToCome
    <3>1. th[u].at \in {"run", "away"} /\ k <= th'[u].need
      BY <2>4 DEF ToCome
    <3>2. CASE u = t
      BY <2>1, <2>5, <3>1, <3>2 DEF ToCome
    <3>3. CASE u # t
      BY <2>4, <3>1, <3>3 DEF ToCome
    <3> QED BY <3>2, <3>3
  <2> HIDE DEF p
  <2>7. /\ IsFiniteSet(ToCome(th)) /\ Cardinality(ToCome(th)) \in Nat
        /\ Cardinality(ToCome(th')) \in Nat
    BY FullIsEnough
  <2>8. /\ Cardinality(ToCome(th) \ {p}) = Cardinality(ToCome(th)) - 1
        /\ Cardinality(ToCome(th')) <= Cardinality(ToCome(th) \ {p})
    BY <2>3, <2>6, <2>7, FS_RemoveElement, FS_Subset
  <2>9. Cardinality(ToCome(th)) <= count
    BY <1>2 DEF EnoughForAll
  <2>10. Cardinality(ToCome(th')) <= count'
    BY <1>1, <2>2, <2>7, <2>8, <2>9
  <2> QED BY <2>10 DEF EnoughForAll
<1>8. CASE RegisterAborts(t) \/ GrowTable(t) \/ GrowTableFails(t) \/ Unregister(t)
           \/ ShrinkTable(t)
  BY <1>3, <1>8
     DEF RegisterAborts, GrowTable, GrowTableFails, Unregister, ShrinkTable, memory
<1> QED BY <1>4, <1>5, <1>6, <1>7, <1>8 DEF Step

\* No step of an arena with a large enough cache fails an assertion.
LEMMA AllGoOnStep ==
    ASSUME Inv, LargeCache, EnoughForAll, NEW t \in Threads, ~aborted, Step(t)
    PROVE  NoAbort'
<1> SUFFICES ASSUME ~partial', ~refused' PROVE ~aborted'
  BY DEF NoAbort
<1>1. ~OutOfRecords(t)
  <2> SUFFICES ASSUME th[t].at = "run", th[t].need > 0, count = 0 PROVE FALSE
    BY DEF OutOfRecords, At
  <2>1. th[t].need \in 1 .. MaxNeed /\ MaxNeed \in Int
    BY PoolAssumption DEF Inv, Types, Locals
  <2>2. CASE is_main
    <3>1. th[t].need <= count
      BY <2>2 DEF Inv, Enough
    <3> QED BY <2>1, <3>1
  <2>3. CASE ~is_main
    <3>1. <<t, 1>> \in ToCome(th)
      BY <2>1 DEF ToCome
    <3>2. Cardinality(ToCome(th)) # 0 /\ Cardinality(ToCome(th)) \in Nat
      BY <3>1, FullIsEnough, FS_EmptySet
    <3>3. Cardinality(ToCome(th)) <= 0
      BY <2>3 DEF EnoughForAll
    <3> QED BY <3>2, <3>3
  <2> QED BY <2>2, <2>3
<1> QED BY <1>1, NothingFails

\* For the main arena no assertion of the metadata's allocation fails, whatever other arenas
\* take from its records (sysmalloc in malloc.c), unless memory ran out in the middle of
\* filling or there was no segment: NoAbort, for an arena whose mutex is kept throughout.
THEOREM MainNeverAborts == Spec => [](is_main /\ ~partial /\ ~refused => ~aborted)
<1>1. Inv => (is_main /\ ~partial /\ ~refused => ~aborted)
  BY DEF Inv, MainGoesOn
<1> QED BY <1>1, InvAlways, PTL

\* So does every step of the arena, and one that changes nothing.
LEMMA NextEnoughForAll ==
    Inv /\ (LargeCache => EnoughForAll /\ NoAbort) /\ [Next]_vars
        => (LargeCache => EnoughForAll /\ NoAbort)'
<1> SUFFICES ASSUME Inv, LargeCache, EnoughForAll, NoAbort, [Next]_vars
             PROVE  EnoughForAll' /\ NoAbort'
  BY DEF LargeCache
<1>1. ASSUME NEW t \in Threads, ~aborted, Step(t) PROVE EnoughForAll' /\ NoAbort'
  BY <1>1, EnoughForAllStep, AllGoOnStep
<1>2. CASE UNCHANGED vars
  BY <1>2 DEF vars, memory, EnoughForAll, NoAbort
<1> QED BY <1>1, <1>2 DEF Next, Finished

\* No assertion of the metadata's allocation fails for an arena that lets others in half-way
\* either, if its cache is large enough for all the operations that can be under way.
THEOREM NeverAborts ==
    ASSUME IsFiniteSet(Threads)
    PROVE  Spec => []NoAbort
<1>1. Init => (LargeCache => EnoughForAll /\ NoAbort)
  <2> SUFFICES ASSUME Init, LargeCache PROVE EnoughForAll /\ NoAbort
    OBVIOUS
  <2>1. ToCome(th) = {}
    BY DEF Init, ToCome, Idle
  <2>2. Cardinality(ToCome(th)) = 0
    BY <2>1, FS_EmptySet
  <2>3. count \in Nat
    BY PoolAssumption DEF Init
  <2> QED BY <2>2, <2>3 DEF Init, EnoughForAll, NoAbort
<1>2. Inv /\ (LargeCache => EnoughForAll /\ NoAbort) => NoAbort
  BY DEF Inv, MainGoesOn, LargeCache, NoAbort
<1> QED BY <1>1, <1>2, NextEnoughForAll, InvAlways, PTL DEF Spec

(***************************************************************************)
(* Sizes: what holds of the arithmetic for every size, and not only for    *)
(* those of Sizes.cfg: the bins follow the sizes, a chunk has room for its *)
(* request, and calloc's test finds every product that wraps around.       *)
(***************************************************************************)
(***************************************************************************)
(* Numbers modulo WORD.                                                    *)
(***************************************************************************)
LEMMA WordLarge == WORD \in Nat /\ WORD > 2 * pagesize /\ pagesize \in Nat /\ pagesize >= 4096
BY SizesAssumption

\* A number below WORD is not changed by Wrap, and every other one gets smaller.
LEMMA WrapRange ==
    ASSUME NEW n \in Int
    PROVE  /\ Wrap(n) \in 0 .. WORD - 1
           /\ n >= 0 => Wrap(n) <= n
           /\ n \in 0 .. WORD - 1 => Wrap(n) = n
BY WordLarge DEF Wrap

\* The bounds of a product.
LEMMA ProductGrows ==
    ASSUME NEW a \in Nat, NEW b \in Nat, NEW c \in Nat, NEW d \in Nat, a <= c, b <= d
    PROVE  /\ a * b \in Nat
           /\ a * b <= c * d
<1>1. a * b \in Nat /\ c * b \in Nat /\ c * d \in Nat
  OBVIOUS
<1>2. a * b <= c * b
  OBVIOUS
<1>3. c * b <= c * d
  OBVIOUS
<1> QED
  BY <1>1, <1>2, <1>3

\* What an integer division leaves.
LEMMA Quotient ==
    ASSUME NEW x \in Nat, NEW e \in Nat, e > 0
    PROVE  /\ x \div e \in Nat
           /\ e * (x \div e) <= x
OBVIOUS

\* The test before the division is enough, and it refuses nothing that fits: calloc
\* (malloc.c:4300) goes on exactly when the product is one that size_t can hold.
THEOREM CallocFindsOverflow ==
    ASSUME NEW n \in 0 .. WORD - 1, NEW elem_size \in 0 .. WORD - 1
    PROVE  CallocOverflows(n, elem_size) <=> n * elem_size >= WORD
<1> DEFINE product == n * elem_size
<1>1. product \in Nat
  BY WordLarge
<1>2. ASSUME CallocOverflows(n, elem_size), product < WORD
      PROVE  FALSE
  <2>1. Wrap(product) = product
    BY <1>1, <1>2, WrapRange, WordLarge
  <2>2. elem_size \in Nat /\ elem_size > 0 /\ n \in Nat
    BY <1>2, WordLarge DEF CallocOverflows
  <2>3. product \div elem_size = n
    BY <2>2, Z3
  <2> QED
    BY <1>2, <2>1, <2>3 DEF CallocOverflows
<1>3. ASSUME ~CallocOverflows(n, elem_size), product >= WORD
      PROVE  FALSE
  <2>1. CASE n < HALF /\ elem_size < HALF
    <3>1. product <= (HALF - 1) * (HALF - 1)
      BY <2>1, ProductGrows, SizesAssumption, WordLarge
    <3>2. (HALF - 1) * (HALF - 1) < HALF * HALF
      BY <2>1, SizesAssumption, WordLarge
    <3> QED
      BY <1>1, <1>3, <3>1, <3>2, SizesAssumption
  <2>2. CASE elem_size = 0
    BY <1>3, <2>2, WordLarge
  <2>3. CASE (n >= HALF \/ elem_size >= HALF) /\ elem_size # 0
    <3>1. Wrap(product) \div elem_size = n
      BY <1>3, <2>3 DEF CallocOverflows
    <3>2. elem_size * n <= Wrap(product)
      BY <3>1, <2>3, <1>1, WrapRange, WordLarge, Quotient
    <3>3. elem_size * n = product
      BY WordLarge
    <3> QED
      BY <1>1, <1>3, <3>2, <3>3, WrapRange, WordLarge
  <2>4. n \in Nat /\ elem_size \in Nat /\ HALF \in Nat
    BY WordLarge, SizesAssumption
  <2> QED
    BY <2>1, <2>2, <2>3, <2>4
<1> QED
  BY <1>1, <1>2, <1>3, WordLarge

\* A request that is not refused gets a chunk that holds it and is not below MINSIZE: the
\* rounding of request2size does not wrap around.
THEOREM RequestFits ==
    ASSUME NEW req \in Nat, ~REQUEST_OUT_OF_RANGE(req)
    PROVE  /\ request2size(req) \in Nat
           /\ request2size(req) >= req
           /\ request2size(req) >= MINSIZE
           /\ request2size(req) % MALLOC_ALIGNMENT = 0
           /\ request2size(req) + MINSIZE < WORD
<1>1. req + HEADER_SIZE + MALLOC_ALIGNMENT - 1 = req + 15 /\ req + 15 < WORD - 49
  BY WordLarge DEF HEADER_SIZE, MALLOC_ALIGNMENT, REQUEST_OUT_OF_RANGE, MINSIZE
<1>2. Wrap(req + 15) = req + 15
  BY <1>1, WrapRange, WordLarge
<1>3. request2size(req) = IF req + 15 < 32 THEN 32 ELSE (req + 15) - ((req + 15) % 16)
  BY <1>1, <1>2 DEF request2size, AlignDown, MALLOC_ALIGNMENT, MINSIZE
<1> QED
  BY <1>1, <1>3, WordLarge DEF MALLOC_ALIGNMENT, MINSIZE

\* of two chunks the larger one is not in a bin before the other's
LEMMA BinsMonotone ==
    ASSUME NEW a \in Nat, NEW b \in Nat, a <= b
    PROVE  bin_index(a) <= bin_index(b)
BY DEF bin_index, in_smallbin_range, smallbin_index, largebin_index, NSMALLBINS, MALLOC_ALIGNMENT

\* Bins follow sizes: of two chunks, whose sizes are multiples of MALLOC_ALIGNMENT, the larger
\* one is not in a bin before the other's, so a search that goes through the bins upwards
\* (malloc.c:4870) meets the smaller chunks first; and if the smaller one is in a small bin,
\* the larger one is not in the same bin, so every chunk of a small bin fits a request of its
\* size exactly and is taken without a look at its size (malloc.c:4559).
THEOREM BinsFollowSizes ==
    ASSUME NEW a \in Nat, NEW b \in Nat, a % MALLOC_ALIGNMENT = 0, b % MALLOC_ALIGNMENT = 0, a < b
    PROVE  /\ bin_index(a) <= bin_index(b)
           /\ in_smallbin_range(a) => bin_index(a) < bin_index(b)
<1>1. bin_index(a) <= bin_index(b)
  BY BinsMonotone
<1>2. ASSUME in_smallbin_range(a) PROVE bin_index(a) < bin_index(b)
  <2>1. a + 16 < 1024 /\ bin_index(a) = (a + 16) \div 16
    BY <1>2 DEF bin_index, in_smallbin_range, smallbin_index, NSMALLBINS, MALLOC_ALIGNMENT
  <2>2. CASE in_smallbin_range(b)
    <3>1. bin_index(b) = (b + 16) \div 16
      BY <2>2 DEF bin_index, smallbin_index
    <3>2. a % 16 = 0 /\ b % 16 = 0
      BY DEF MALLOC_ALIGNMENT
    <3>3. /\ a = 16 * (a \div 16)
          /\ a \div 16 \in Int
      BY <3>2
    <3>4. /\ b = 16 * (b \div 16)
          /\ b \div 16 \in Int
      BY <3>2
    <3>5. PICK x \in Int : a = 16 * x
      BY <3>3, Zenon
    <3>6. PICK y \in Int : b = 16 * y
      BY <3>4, Zenon
    <3>7. (a + 16) \div 16 = x + 1
      BY <3>5
    <3>8. (b + 16) \div 16 = y + 1
      BY <3>6
    <3>9. x < y
      BY <3>5, <3>6
    <3> QED BY <2>1, <3>1, <3>7, <3>8, <3>9
  <2>3. CASE ~in_smallbin_range(b)
    <3>1. bin_index(b) >= 64
      BY <2>3 DEF bin_index, in_smallbin_range, largebin_index, NSMALLBINS, MALLOC_ALIGNMENT
    <3>2. (a + 16) \div 16 < 64
      BY <2>1
    <3>3. bin_index(a) < 64
      BY <2>1, <3>2, Zenon
    <3>4. bin_index(a) \in Int /\ bin_index(b) \in Int
      <4>1. bin_index(a) \in Int
        BY <2>1
      <4>2. bin_index(b) \in Int
        BY DEF bin_index, smallbin_index, largebin_index
      <4> QED BY <4>1, <4>2
    <3> QED BY <3>1, <3>3, <3>4
  <2> QED BY <2>2, <2>3
<1> QED BY <1>1, <1>2

(***************************************************************************)
(* Multiples of MALLOC_ALIGNMENT.                                          *)
(***************************************************************************)
LEMMA SixteenTimes == ASSUME NEW m \in Int PROVE (16 * m) % 16 = 0
OBVIOUS

\* A multiple of a multiple of 16 is one too.
LEMMA MultipleOfMultiple ==
    ASSUME NEW a \in Nat, NEW k \in Int, a % 16 = 0
    PROVE  (a * k) % 16 = 0
<1>1. PICK r \in Int : a = 16 * r
  <2>1. a = 16 * (a \div 16)
    OBVIOUS
  <2> QED
    BY <2>1
<1>2. a * k = 16 * (r * k)
  BY <1>1
<1>3. r * k \in Int
  BY <1>1
<1>4. (16 * (r * k)) % 16 = 0
  BY <1>3, SixteenTimes
<1> QED
  BY <1>2, <1>4, Zenon

LEMMA DifferenceOfMultiples ==
    ASSUME NEW a \in Int, NEW b \in Int, a % 16 = 0, b % 16 = 0
    PROVE  (a - b) % 16 = 0
OBVIOUS

\* A remainder, without the division.
LEMMA Remainder ==
    ASSUME NEW x \in Int, NEW p \in Nat, p > 0
    PROVE  /\ x % p \in 0 .. p - 1
           /\ \E q \in Int : x % p = x - p * q
<1>1. x % p = x - p * (x \div p) /\ x \div p \in Int
  OBVIOUS
<1>2. x % p \in 0 .. p - 1
  OBVIOUS
<1>3. \E q \in Int : x % p = x - p * q
  BY <1>1, Zenon
<1> QED
  BY <1>2, <1>3

LEMMA WordMultiple == WORD % 16 = 0
<1>1. PICK q \in Int : WORD % pagesize = WORD - pagesize * q
  BY WordLarge, Remainder
<1>2. WORD = pagesize * q
  BY <1>1, WordLarge, SizesAssumption
<1>3. pagesize \in Nat /\ pagesize % 16 = 0
  BY SizesAssumption
<1>4. (pagesize * q) % 16 = 0
  BY <1>3, MultipleOfMultiple, Zenon
<1> QED
  BY <1>2, <1>4, Zenon

\* Wrap keeps multiples of 16.
LEMMA WrapMultiple ==
    ASSUME NEW n \in Int, n % 16 = 0
    PROVE  Wrap(n) % 16 = 0
<1>1. PICK q \in Int : n % WORD = n - WORD * q
  BY WordLarge, Remainder
<1>2. (WORD * q) % 16 = 0 /\ WORD * q \in Int
  <2>1. WORD \in Nat
    BY WordLarge
  <2>2. WORD * q \in Int
    BY <2>1
  <2> QED
    BY <2>1, <2>2, MultipleOfMultiple, WordMultiple, Zenon
<1>3. (n - WORD * q) % 16 = 0
  BY <1>2, DifferenceOfMultiples
<1> QED
  BY <1>1, <1>3 DEF Wrap

\* AlignUp yields the next multiple of the page size.
LEMMA AlignUpMultiple ==
    ASSUME NEW n \in Nat
    PROVE  /\ AlignUp(n) \in Nat
           /\ n <= AlignUp(n) /\ AlignUp(n) < n + pagesize
           /\ AlignUp(n) % 16 = 0
<1>1. (-n) % pagesize \in 0 .. pagesize - 1
  BY WordLarge, Remainder
<1>2. PICK q \in Int : (-n) % pagesize = -n - pagesize * q
  BY WordLarge, Remainder
<1>3. AlignUp(n) = pagesize * (-q)
  BY <1>1, <1>2, WordLarge DEF AlignUp
<1>4. AlignUp(n) % 16 = 0
  <2>1. -q \in Int /\ pagesize \in Nat /\ pagesize % 16 = 0
    BY SizesAssumption
  <2>2. (pagesize * (-q)) % 16 = 0
    BY <2>1, MultipleOfMultiple, Zenon
  <2> QED
    BY <1>3, <2>2
<1> QED
  BY <1>1, <1>4, WordLarge DEF AlignUp

(***************************************************************************)
(* The chunk of a block.                                                   *)
(***************************************************************************)
\* A mapping that is larger than the chunk is larger by two words at least.
LEMMA MapSizeFits ==
    ASSUME NEW nb \in Nat, nb % 16 = 0, nb < WORD
    PROVE  /\ MapSize(nb) \in 0 .. WORD - 1
           /\ MapSize(nb) % 16 = 0
           /\ MapSize(nb) > nb => MapSize(nb) >= nb + 16
<1>1. AlignUp(nb + SIZE_SZ) \in Nat /\ AlignUp(nb + SIZE_SZ) % 16 = 0
  BY AlignUpMultiple DEF SIZE_SZ
<1>2. MapSize(nb) \in 0 .. WORD - 1 /\ MapSize(nb) % 16 = 0
  BY <1>1, WrapRange, WrapMultiple DEF MapSize
<1> QED
  BY <1>2, WordLarge

\* What _int_malloc answers has room for the request, and a mapping two words more.
LEMMA ChunksFit ==
    ASSUME NEW bytes \in Nat, NEW c \in Chunks(bytes)
    PROVE  /\ c.size \in 0 .. WORD - 1 /\ c.size % 16 = 0
           /\ c.mmapped \in BOOLEAN
           /\ ~REQUEST_OUT_OF_RANGE(bytes)
           /\ c.size >= request2size(bytes)
           /\ c.mmapped => c.size >= request2size(bytes) + 16
<1> DEFINE nb == request2size(bytes)
<1>1. ~REQUEST_OUT_OF_RANGE(bytes)
  BY DEF Chunks
<1>2. nb \in Nat /\ nb % 16 = 0 /\ nb + 32 < WORD
  BY <1>1, RequestFits DEF MINSIZE, MALLOC_ALIGNMENT
<1>3. MapSize(nb) \in 0 .. WORD - 1 /\ MapSize(nb) % 16 = 0
      /\ (MapSize(nb) > nb => MapSize(nb) >= nb + 16)
  BY <1>2, MapSizeFits, WordLarge
<1>4. CASE \E s \in {nb, nb + 16} : c = [size |-> s, mmapped |-> FALSE]
  BY <1>1, <1>2, <1>4, WordLarge
<1>5. CASE MapSize(nb) > nb /\ c = [size |-> MapSize(nb), mmapped |-> TRUE]
  BY <1>1, <1>2, <1>3, <1>5, WordLarge
<1>6. \/ \E s \in {nb, nb + 16} : c = [size |-> s, mmapped |-> FALSE]
      \/ MapSize(nb) > nb /\ c = [size |-> MapSize(nb), mmapped |-> TRUE]
  BY <1>1 DEF Chunks, MALLOC_ALIGNMENT
<1> QED
  BY <1>4, <1>5, <1>6

LEMMA ChunksAreRecords ==
    ASSUME NEW bytes, NEW c \in Chunks(bytes)
    PROVE  \E s : \E b \in BOOLEAN : c = [size |-> s, mmapped |-> b]
BY DEF Chunks

(***************************************************************************)
(* The block is sound.                                                     *)
(***************************************************************************)
SizesInv == SizesTypeOK /\ RoomForRequest /\ ContentsKept

LEMMA InputTypes ==
    /\ Requests \subseteq Nat /\ Counts \subseteq Nat
    /\ Alignments \subseteq Nat /\ pagesize \in Nat
BY SizesAssumption

LEMMA InitSizes == SizesInit => SizesInv
BY WordLarge DEF SizesInit, SizesInv, SizesTypeOK, RoomForRequest, musable, ContentsKept, HaveBlock, NoBlock,
                 MALLOC_ALIGNMENT

LEMMA BelowWord ==
    /\ \A x \in Nat : x \in Int
    /\ \A x \in 0 .. WORD - 1 : x \in Int
BY WordLarge

LEMMA LessTwoWords ==
    ASSUME NEW x \in Int, NEW y \in Int, x >= y + 16
    PROVE  x - 2 * SIZE_SZ >= y
BY DEF SIZE_SZ

\* What a step has to show of the block it leaves.
LEMMA BlockSound ==
    ASSUME NEW c, NEW need \in Nat, NEW keep \in Nat, NEW copied \in Nat,
           NEW way \in {"malloc", "memalign", "in place", "copied", "other arena"},
           NEW wrapped \in BOOLEAN,
           block' = Block(c, need, keep, copied, way, wrapped),
           c.size \in 0 .. WORD - 1, c.size % 16 = 0, c.mmapped \in BOOLEAN,
           ~wrapped => /\ c.mmapped => c.size >= need + 16
                       /\ ~c.mmapped => c.size >= need /\ c.size >= 32,
           way \in {"in place", "copied"} => copied >= keep,
           way = "copied" => copied <= c.size
    PROVE  SizesInv'
<1>1. /\ block'.size = c.size /\ block'.mmapped = c.mmapped /\ block'.wrapped = wrapped
      /\ block'.need = need /\ block'.keep = keep /\ block'.copied = copied
      /\ block'.way = way
  BY DEF Block
<1>2. SizesTypeOK'
  BY <1>1 DEF SizesTypeOK, MALLOC_ALIGNMENT
<1>3. RoomForRequest'
  <2>1. SUFFICES ASSUME ~wrapped
                 PROVE  IF c.mmapped THEN c.size - 2 * SIZE_SZ >= need
                        ELSE c.size >= need /\ c.size >= MINSIZE
    BY <1>1, Zenon DEF RoomForRequest, musable
  <2>2. c.size \in Int /\ need \in Int
    BY BelowWord, Zenon
  <2>3. CASE c.mmapped
    <3>1. c.size >= need + 16
      BY <2>1, <2>3, Zenon
    <3>2. c.size - 2 * SIZE_SZ >= need
      BY <2>2, <3>1, LessTwoWords, Zenon
    <3> QED
      BY <2>3, <3>2, Zenon
  <2>4. CASE ~c.mmapped
    <3>1. c.size >= need /\ c.size >= MINSIZE
      BY <2>1, <2>4, Zenon DEF MINSIZE
    <3> QED
      BY <2>4, <3>1, Zenon
  <2> QED
    BY <2>3, <2>4
<1>4. ContentsKept'
  BY <1>1 DEF ContentsKept
<1> QED
  BY <1>2, <1>3, <1>4 DEF SizesInv

\* A chunk that was just allocated, for a request or more.
LEMMA FreshInv ==
    ASSUME NEW bytes \in Nat, NEW c \in Chunks(bytes), block' = Fresh(c, bytes)
    PROVE  SizesInv'
<1>1. request2size(bytes) \in Nat /\ request2size(bytes) >= bytes
      /\ request2size(bytes) >= 32
  BY ChunksFit, RequestFits DEF MINSIZE
<1>2. block' = Block(c, bytes, 0, 0, "malloc", FALSE)
  BY DEF Fresh
<1>3. /\ c.size \in 0 .. WORD - 1 /\ c.size % 16 = 0 /\ c.mmapped \in BOOLEAN
      /\ c.size >= request2size(bytes)
      /\ c.mmapped => c.size >= request2size(bytes) + 16
  BY ChunksFit
<1>4. /\ c.mmapped => c.size >= bytes + 16
      /\ ~c.mmapped => c.size >= bytes /\ c.size >= 32
  BY <1>1, <1>3, WordLarge
<1> QED
  BY <1>2, <1>3, <1>4, BlockSound

LEMMA MallocInv ==
    ASSUME NEW req \in Nat, malloc(req)
    PROVE  SizesInv'
BY FreshInv DEF malloc

LEMMA CallocInv ==
    ASSUME NEW n \in Counts, NEW elem_size \in Counts, calloc(n, elem_size)
    PROVE  SizesInv'
<1>1. n \in 0 .. WORD - 1 /\ elem_size \in 0 .. WORD - 1
  BY SizesAssumption
<1>2. n * elem_size \in Nat
  BY <1>1, WordLarge
<1>3. n * elem_size < WORD
  BY <1>1, <1>2, CallocFindsOverflow, WordLarge DEF calloc
<1>4. Wrap(n * elem_size) = n * elem_size
  BY <1>2, <1>3, WrapRange, WordLarge
<1> QED
  BY <1>2, <1>4, FreshInv DEF calloc

(***************************************************************************)
(* memalign and realloc.                                                   *)
(***************************************************************************)
\* The leader is at most one chunk and one alignment long.
LEMMA LeaderBounds ==
    ASSUME NEW big \in Powers, NEW m \in Int, m >= 0, m < big, m % 16 = 0
    PROVE  /\ Leader(big, m) \in Nat /\ Leader(big, m) % 16 = 0
           /\ Leader(big, m) <= big + 16
<1>1. big \in Nat /\ big % 16 = 0
  BY DEF Powers
<1> QED
  BY <1>1 DEF Leader, MINSIZE

LEMMA MisalignedMultiple ==
    ASSUME NEW big \in Powers, NEW c, NEW m \in Misaligned(big, c)
    PROVE  m \in Int /\ m >= 0 /\ m < big /\ m % 16 = 0
<1>1. /\ big \in Nat /\ big % 32 = 0 /\ big >= 32
  BY DEF Powers
<1>2. pagesize \in Nat /\ pagesize % 16 = 0
  BY SizesAssumption
<1>3. \/ m \in {0, pagesize, big - pagesize} /\ m \in 0 .. big - 1
      \/ m \in {0, 16, big \div 2, big - 32, big - 16}
  BY DEF Misaligned, MALLOC_ALIGNMENT, MINSIZE
<1> QED
  BY <1>1, <1>2, <1>3

LEMMA MemalignInv ==
    ASSUME NEW al \in Nat, NEW req \in Nat, memalign(al, req)
    PROVE  SizesInv'
<1> DEFINE nb == request2size(req)
<1>1. nb \in Nat /\ nb >= req /\ nb >= 32 /\ nb % 16 = 0 /\ nb < WORD
  BY RequestFits, WordLarge DEF memalign, MINSIZE, MALLOC_ALIGNMENT
<1>2. PICK big \in Powers : \E c \in Chunks(Wrap(Padded(nb, big))) :
          \E m \in Misaligned(big, c) :
              block' = Block(Trimmed(c, Leader(big, m), nb), req, 0, 0, "memalign",
                             Padded(nb, big) >= WORD)
  BY DEF memalign
<1> DEFINE sum == Padded(nb, big)
<1>3. PICK c \in Chunks(Wrap(sum)) : \E m \in Misaligned(big, c) :
              block' = Block(Trimmed(c, Leader(big, m), nb), req, 0, 0, "memalign", sum >= WORD)
  BY <1>2
<1>4. PICK m \in Misaligned(big, c) :
              block' = Block(Trimmed(c, Leader(big, m), nb), req, 0, 0, "memalign", sum >= WORD)
  BY <1>3
<1> DEFINE lead == Leader(big, m)
           cut  == Trimmed(c, lead, nb)
           rest == Wrap(c.size - lead)
<1>5. big \in Nat /\ sum = nb + big + 32 /\ sum \in Nat
  BY <1>1 DEF Powers, Padded, MINSIZE
<1>6. Wrap(sum) \in Nat /\ (sum < WORD => Wrap(sum) = sum)
  BY <1>5, WrapRange, WordLarge
<1>7. /\ c.size \in 0 .. WORD - 1 /\ c.size % 16 = 0 /\ c.mmapped \in BOOLEAN
      /\ sum < WORD => /\ c.size >= sum
                       /\ c.mmapped => c.size >= sum + 16
  <2>1. /\ c.size \in 0 .. WORD - 1 /\ c.size % 16 = 0 /\ c.mmapped \in BOOLEAN
        /\ ~REQUEST_OUT_OF_RANGE(Wrap(sum))
        /\ c.size >= request2size(Wrap(sum))
        /\ c.mmapped => c.size >= request2size(Wrap(sum)) + 16
    BY <1>6, ChunksFit
  <2>2. request2size(Wrap(sum)) \in Nat /\ request2size(Wrap(sum)) >= Wrap(sum)
    BY <1>6, <2>1, RequestFits
  <2> QED
    BY <1>5, <1>6, <2>1, <2>2, WordLarge
<1>8. lead \in Nat /\ lead % 16 = 0 /\ lead <= big + 16
  BY MisalignedMultiple, LeaderBounds
<1>9. /\ rest \in 0 .. WORD - 1 /\ rest % 16 = 0
      /\ c.size >= lead => rest = c.size - lead
  <2>1. c.size - lead \in Int /\ (c.size - lead) % 16 = 0
    BY <1>7, <1>8, WordLarge
  <2> QED
    BY <1>7, <1>8, <2>1, WrapRange, WrapMultiple, WordLarge
<1>10. /\ cut.mmapped = c.mmapped
       /\ cut.size = rest \/ (~c.mmapped /\ cut.size = nb)
  <2>1. PICK s : \E b \in BOOLEAN : c = [size |-> s, mmapped |-> b]
    BY ChunksAreRecords
  <2>2. PICK b \in BOOLEAN : c = [size |-> s, mmapped |-> b]
    BY <2>1
  <2> DEFINE size == IF ~c.mmapped /\ rest > nb + MINSIZE THEN nb ELSE rest
  <2>3. cut = [c EXCEPT !.size = size]
    BY DEF Trimmed
  <2>4. cut = [size |-> size, mmapped |-> b]
    BY <2>2, <2>3
  <2>5. cut.size = size /\ cut.mmapped = b /\ c.mmapped = b
    BY <2>2, <2>4
  <2>6. size = rest \/ (~c.mmapped /\ size = nb)
    BY Zenon
  <2> HIDE DEF size
  <2> QED
    BY <2>5, <2>6, Zenon
<1>11. sum < WORD => /\ c.mmapped => rest >= req + 16
                    /\ rest >= req /\ rest >= 32
  BY <1>1, <1>5, <1>7, <1>8, <1>9, WordLarge
<1>12. /\ cut.size \in 0 .. WORD - 1 /\ cut.size % 16 = 0 /\ cut.mmapped \in BOOLEAN
       /\ ~(sum >= WORD) => /\ cut.mmapped => cut.size >= req + 16
                            /\ ~cut.mmapped => cut.size >= req /\ cut.size >= 32
  <2>1. ~(sum >= WORD) => sum < WORD
    BY <1>5, WordLarge
  <2>2. CASE cut.size = rest
    BY <1>7, <1>9, <1>10, <1>11, <2>1, <2>2, Zenon
  <2>3. CASE ~c.mmapped /\ cut.size = nb
    BY <1>1, <1>7, <1>10, <2>3, WordLarge
  <2> QED
    BY <1>10, <2>2, <2>3
<1>13. (sum >= WORD) \in BOOLEAN
  OBVIOUS
<1> QED
  <2>1. "memalign" \in {"malloc", "memalign", "in place", "copied", "other arena"}
        /\ "memalign" \notin {"in place", "copied"} /\ "memalign" # "copied" /\ 0 \in Nat
    OBVIOUS
  <2> QED
    BY <1>4, <1>12, <1>13, <2>1, BlockSound, Zenon

LEMMA RoomToSpare ==
    ASSUME NEW size \in Int, NEW nb \in Int, NEW req \in Int, NEW copied \in Int,
           size >= nb, nb >= req, nb >= 32
    PROVE  /\ size >= req /\ size >= 32 /\ (size >= nb + 16 => size >= req + 16)
           /\ copied <= nb => copied <= size
OBVIOUS

\* The cases of realloc: where the chunk stays, and where it is copied.
LEMMA ReallocInv ==
    ASSUME SizesInv, NEW req \in Nat, realloc(req)
    PROVE  SizesInv'
<1> DEFINE nb   == request2size(req)
           keep == Smaller(block.need, req)
<1>1. nb \in Nat /\ nb >= req /\ nb >= 32 /\ nb % 16 = 0 /\ nb + 32 < WORD
      /\ ~REQUEST_OUT_OF_RANGE(req)
  BY RequestFits DEF realloc, MINSIZE, MALLOC_ALIGNMENT
<1>2. /\ block.size \in 0 .. WORD - 1 /\ block.size % 16 = 0
      /\ block.size \in Nat /\ block.need \in Nat
  <2>1. block.size \in 0 .. WORD - 1 /\ block.size % 16 = 0 /\ block.need \in Nat
    BY Zenon DEF SizesInv, SizesTypeOK, MALLOC_ALIGNMENT
  <2> QED
    BY <2>1, WordLarge
<1>3. /\ block.mmapped => block.size - 16 >= block.need
      /\ ~block.mmapped => block.size >= block.need /\ block.size >= 32
  BY DEF SizesInv, RoomForRequest, musable, realloc, MINSIZE, SIZE_SZ
<1>4. keep \in Nat /\ keep <= req /\ keep <= block.need
  BY <1>2 DEF Smaller
<1>5. ASSUME NEW c, NEW copied \in Nat, NEW way \in {"in place", "copied", "other arena"},
             Becomes(c, req, copied, way),
             c.size \in 0 .. WORD - 1, c.size % 16 = 0, c.mmapped \in BOOLEAN,
             c.mmapped => c.size >= req + 16,
             ~c.mmapped => c.size >= req /\ c.size >= 32,
             way \in {"in place", "copied"} => copied >= keep,
             way = "copied" => copied <= c.size
      PROVE  SizesInv'
  <2>1. block' = Block(c, req, keep, copied, way, FALSE)
    BY <1>5 DEF Becomes
  <2>2. way \in {"malloc", "memalign", "in place", "copied", "other arena"}
    OBVIOUS
  <2> QED
    BY <1>4, <1>5, <2>1, <2>2, BlockSound, Zenon
<1>6. CASE InPlace(req)
  <2>1. block.size >= block.need /\ block.size >= 32
    BY <1>3, <1>6, Zenon DEF InPlace
  <2>2. block.size \in Nat /\ block.size >= keep
    BY <1>2, <1>4, <2>1
  <2>3. PICK s :
           /\ Becomes([size |-> s, mmapped |-> FALSE], req, block.size, "in place")
           /\ (s = block.size /\ block.size >= nb) \/ s = nb \/ s = nb + 16
    BY <1>6, Zenon DEF InPlace, MALLOC_ALIGNMENT
  <2>4. s \in 0 .. WORD - 1 /\ s % 16 = 0 /\ s >= req /\ s >= 32
    <3>1. CASE s = block.size /\ block.size >= nb
      BY <1>1, <1>2, <3>1
    <3>2. CASE s = nb \/ s = nb + 16
      BY <1>1, <3>2, WordLarge
    <3> QED
      BY <2>3, <3>1, <3>2, Zenon
  <2> DEFINE c == [size |-> s, mmapped |-> FALSE]
  <2>5. c.size = s /\ c.mmapped = FALSE
    OBVIOUS
  <2> HIDE DEF c
  <2> QED
    BY <1>5, <2>2, <2>3, <2>4, <2>5, Zenon DEF c
<1>7. ASSUME NEW bytes \in Nat, NEW c \in Chunks(bytes), request2size(bytes) = nb,
             NEW copied \in Nat, NEW way \in {"copied", "other arena"},
             Becomes(c, req, copied, way),
             way = "copied" => copied >= keep /\ copied <= nb
      PROVE  SizesInv'
  <2>1. /\ c.size \in 0 .. WORD - 1 /\ c.size % 16 = 0 /\ c.mmapped \in BOOLEAN
        /\ c.size >= nb
        /\ c.mmapped => c.size >= nb + 16
    BY <1>7, ChunksFit
  <2>2. c.size \in Int /\ copied \in Int /\ c.size >= nb
    BY <2>1, BelowWord, Zenon
  <2>3. c.size >= req /\ c.size >= 32 /\ (c.size >= nb + 16 => c.size >= req + 16)
        /\ (copied <= nb => copied <= c.size)
    BY <1>1, <1>7, <2>2, RoomToSpare, BelowWord, Zenon
  <2>4. way # "in place" /\ way \in {"in place", "copied", "other arena"}
    OBVIOUS
  <2> QED
    BY <1>5, <1>7, <2>1, <2>3, <2>4, Zenon
<1>8. CASE Move(req)
  <2>1. nb - 15 \in Nat /\ nb - 15 + HEADER_SIZE + MALLOC_ALIGNMENT - 1 = nb
    BY <1>1 DEF HEADER_SIZE, MALLOC_ALIGNMENT
  <2>2. Wrap(nb) = nb
    BY <1>1, WrapRange, WordLarge
  <2>3. request2size(nb - 15) = nb
    BY <1>1, <2>1, <2>2 DEF request2size, MALLOC_ALIGNMENT, MINSIZE, AlignDown
  <2>4. PICK c \in Chunks(nb - 15) : /\ Becomes(c, req, block.size, "copied")
                                      /\ block.size < nb
    BY <1>1, <1>2, <1>8 DEF Move, Copied, HEADER_SIZE, MALLOC_ALIGNMENT
  <2>5. block.size >= block.need
    BY <1>3, <1>8, Zenon DEF Move
  <2>6. block.size >= keep /\ block.size <= nb
    BY <1>1, <1>2, <1>4, <2>4, <2>5
  <2> QED
    BY <1>2, <1>7, <2>1, <2>3, <2>4, <2>6, Zenon
<1>9. CASE MoveToOtherArena(req)
  <2>1. block.size >= 32
    BY <1>3, <1>9, Zenon DEF MoveToOtherArena
  <2>2. block.size - 8 \in Nat
    BY <1>2, <2>1
  <2>3. PICK c \in Chunks(req) : Becomes(c, req, block.size - 8, "other arena")
    BY <1>9 DEF MoveToOtherArena, SIZE_SZ
  <2> QED
    BY <1>7, <2>2, <2>3
<1>10. CASE ReallocMapped(req)
  <2>1. block.size - 16 >= block.need
    BY <1>3, <1>10, Zenon DEF ReallocMapped
  <2>2. block.size >= block.need + 16 /\ block.size \in Nat
    BY <1>2, <2>1
  <2>3. CASE /\ block.size - SIZE_SZ >= nb
             /\ Becomes([size |-> block.size, mmapped |-> TRUE], req, block.size, "in place")
    <3>1. block.size >= keep /\ block.size >= req + 16
      <4>1. block.size - SIZE_SZ >= nb
        BY <2>3, Zenon
      <4> QED
        BY <1>1, <1>2, <1>4, <2>2, <4>1 DEF SIZE_SZ
    <3> DEFINE c == [size |-> block.size, mmapped |-> TRUE]
    <3>2. c.size = block.size /\ c.mmapped = TRUE
      OBVIOUS
    <3> HIDE DEF c
    <3> QED
      BY <1>2, <1>5, <2>2, <2>3, <3>1, <3>2, Zenon DEF c
  <2>4. CASE /\ block.size - SIZE_SZ < nb
             /\ \E c \in Chunks(req) : Becomes(c, req, block.size - 2 * SIZE_SZ, "copied")
    <3>1. PICK c \in Chunks(req) : Becomes(c, req, block.size - 16, "copied")
      BY <2>4 DEF SIZE_SZ
    <3>2. block.size - 16 \in Nat /\ block.size - 16 >= keep /\ block.size - 16 <= nb
      BY <1>1, <1>2, <1>4, <2>2, <2>4 DEF SIZE_SZ
    <3> QED
      BY <1>7, <3>1, <3>2
  <2> QED
    BY <1>10, <2>3, <2>4 DEF ReallocMapped
<1> QED
  BY <1>6, <1>8, <1>9, <1>10 DEF realloc

(***************************************************************************)
(* The specification.                                                      *)
(***************************************************************************)
LEMMA NextSizes == SizesInv /\ [SizesNext]_block => SizesInv'
<1> SUFFICES ASSUME SizesInv, [SizesNext]_block PROVE SizesInv'
  OBVIOUS
<1>1. ASSUME NEW req \in Requests, malloc(req) PROVE SizesInv'
  BY <1>1, InputTypes, MallocInv
<1>2. ASSUME NEW req \in Requests, realloc(req) PROVE SizesInv'
  BY <1>2, InputTypes, ReallocInv
<1>3. ASSUME NEW req \in Requests, pvalloc(req) PROVE SizesInv'
  <2>1. AlignUp(req) \in Nat
    BY InputTypes, AlignUpMultiple
  <2> QED
    BY <1>3, <2>1, InputTypes, MemalignInv DEF pvalloc
<1>4. ASSUME NEW n \in Counts, NEW elem_size \in Counts, calloc(n, elem_size) PROVE SizesInv'
  BY <1>4, CallocInv
<1>5. ASSUME NEW al \in Alignments, NEW req \in Requests, memalign(al, req) PROVE SizesInv'
  BY <1>5, InputTypes, MemalignInv
<1>6. CASE free
  <2>1. block' = NoBlock
    BY <1>6 DEF free
  <2>2. SizesTypeOK'
    BY <2>1, WordLarge DEF SizesTypeOK, NoBlock, MALLOC_ALIGNMENT
  <2>3. RoomForRequest' /\ ContentsKept'
    BY <2>1 DEF RoomForRequest, musable, ContentsKept, HaveBlock, NoBlock
  <2> QED
    BY <2>2, <2>3 DEF SizesInv
<1>7. CASE UNCHANGED block
  BY <1>7 DEF SizesInv, SizesTypeOK, RoomForRequest, musable, ContentsKept, HaveBlock
<1> QED
  BY <1>1, <1>2, <1>3, <1>4, <1>5, <1>6, <1>7 DEF SizesNext

THEOREM SizesInvAlways == SizesSpec => []SizesInv
BY InitSizes, NextSizes, PTL DEF SizesSpec

\* Every block has room for what its owner may count on: the request, calloc's product, the
\* pages of pvalloc; for every width of size_t, page size and sequence of calls
\* (request2size, sysmalloc's mappings, _int_memalign, _int_realloc).
THEOREM RoomAlways == SizesSpec => []RoomForRequest
BY SizesInvAlways, PTL DEF SizesInv

\* realloc never loses a byte of the client's, unless it goes to another arena.
THEOREM ContentsAlways == SizesSpec => []ContentsKept
BY SizesInvAlways, PTL DEF SizesInv

THEOREM TypesAlways == SizesSpec => []SizesTypeOK
BY SizesInvAlways, PTL DEF SizesInv

\* Small bins hold one size each, bins follow sizes, and no fast chunk is beyond the last
\* fastbin, for every chunk that a call can return (bin_index, fastbin_index, NFASTBINS).
THEOREM BinsAlways == SizesSpec => []BinsSound
<1>1. SizesTypeOK => BinsSound
  <2> SUFFICES ASSUME SizesTypeOK PROVE BinsSound
    OBVIOUS
  <2>1. block.size \in 0 .. WORD - 1
    BY Zenon DEF SizesTypeOK
  <2>2. block.size \in Nat
    BY <2>1, WordLarge
  <2>3. SUFFICES ASSUME NEW size \in Nat, size >= 32
                 PROVE  /\ bin_index(size) \in 2 .. 126
                        /\ bin_index(size) <= bin_index(size + 16)
                        /\ in_smallbin_range(size) =>
                              bin_index(size) < 64 /\ bin_index(size + 16) > bin_index(size)
                        /\ ~in_smallbin_range(size) => bin_index(size) >= 64
                        /\ size <= MaxFast(MAX_FAST_SIZE) =>
                              /\ fastbin_index(size) \in 0 .. NFASTBINS - 1
                              /\ fastbin_index(size + 16) > fastbin_index(size)
    BY <2>2 DEF BinsSound, MALLOC_ALIGNMENT, NBINS, NSMALLBINS, MINSIZE
  <2>4. bin_index(size) <= bin_index(size + 16)
    BY BinsMonotone
  <2>5. bin_index(size) \in 2 .. 126
    BY <2>3 DEF bin_index, in_smallbin_range, smallbin_index, largebin_index, NSMALLBINS,
       MALLOC_ALIGNMENT
  <2>6. in_smallbin_range(size) =>
            bin_index(size) < 64 /\ bin_index(size + 16) > bin_index(size)
    BY <2>3 DEF bin_index, in_smallbin_range, smallbin_index, largebin_index, NSMALLBINS,
       MALLOC_ALIGNMENT
  <2>7. ~in_smallbin_range(size) => bin_index(size) >= 64
    BY <2>3 DEF bin_index, in_smallbin_range, largebin_index, NSMALLBINS, MALLOC_ALIGNMENT
  <2>8. MAX_FAST_SIZE = 160 /\ MaxFast(160) = 160
    BY DEF MAX_FAST_SIZE, MaxFast, AlignDown, SIZE_SZ, MALLOC_ALIGNMENT
  <2>9. NFASTBINS = 10
    <3>1. Wrap(175) = 175
      BY WrapRange, WordLarge
    <3>2. request2size(160) = 160
      BY <3>1 DEF request2size, HEADER_SIZE, MALLOC_ALIGNMENT, MINSIZE, AlignDown
    <3> QED
      BY <2>8, <3>2 DEF NFASTBINS, fastbin_index
  <2>10. size <= MaxFast(MAX_FAST_SIZE) =>
              /\ fastbin_index(size) \in 0 .. NFASTBINS - 1
              /\ fastbin_index(size + 16) > fastbin_index(size)
    BY <2>3, <2>8, <2>9 DEF fastbin_index
  <2> QED
    BY <2>4, <2>5, <2>6, <2>7, <2>10
<1> QED
  BY <1>1, TypesAlways, PTL
=============================================================================
