------------------------------ MODULE RegionsProofs ------------------------------
(***************************************************************************)
(* Proofs about Regions, for any number of threads, arenas, slots and      *)
(* calls.                                                                  *)
(*                                                                         *)
(* First, the threads that work for one arena and then for another never   *)
(* wait for a mutex with one held, so that they cannot block each other.   *)
(* A thread's point and locals say which mutexes it owns (Owns); Inv says  *)
(* that lock agrees with that for every thread, and gives the types that   *)
(* make the arena a thread works for an arena.                             *)
(*                                                                         *)
(* Then, as long as no slot is handed out before it is forgotten, the      *)
(* lookup tables are right about every chunk, no two chunks share memory   *)
(* and no assertion fails.  Tidy is the invariant: the properties speak of *)
(* the chunks of the program, and Tidy adds what the steps in between rely *)
(* on -- who has which chunk, which entries there are, and what a chunk    *)
(* being unmapped or a heap being added or forgotten still stands for.     *)
(***************************************************************************)
EXTENDS Regions, FiniteSetTheorems, TLAPS

\* the lengths of mappings
Lengths == 1 .. NSlots

\* chunks, and what may be there instead of one
RealChunks == [slot : Slots, off : 0 .. HeapChunks + 1, size : Lengths,
               index : Arenas \union {0}]
MaybeChunks == RealChunks \union {NoChunk}

Locals == [at : Points, op : {"none", "malloc", "memalign", "realloc", "free"},
           arena : Arenas, size : Nat, tried : BOOLEAN, new : MaybeChunks, old : MaybeChunks]

\* the points where a chunk is being given up
Freeing == {"find", "findheap", "mmapped", "heap", "delete", "munmap", "unregister", "forget"}

\* the locals of one thread: the chunk it gives up and the heap it adds exist
Good(r) ==
    /\ r \in Locals
    /\ r.at \in Freeing => r.op \in {"realloc", "free"}
    /\ r.op \in {"realloc", "free"} => r.old \in RealChunks
    /\ r.at \in {"addheap", "align"} => r.new \in RealChunks
    /\ r.at = "addheap" => r.new.off = 1

ThInv == th \in [Threads -> Locals] /\ \A t \in Threads : Good(th[t])

MemInv ==
    /\ mem \in [Slots -> {"free", "mmap", "heap"}]
    /\ mmap_tbl \in [Addresses -> Lengths \union {0}]
    /\ heap_tbl \in [Slots -> Arenas \union {0}]
    /\ records \in [Addresses -> Seq(Lengths)]
    /\ n_mmaps \in Int
    /\ used \in [Slots -> SUBSET (1 .. HeapChunks)]
    /\ live \subseteq RealChunks
    /\ calls \in 0 .. MaxCalls /\ aborted \in BOOLEAN /\ reused \in BOOLEAN

\* a thread with locals r owns the mutex of arena a
Owns(r, a) ==
    \/ r.at \in {"malloc", "addheap", "got", "forget"} /\ a = r.arena
    \/ r.at \in {"delete", "munmap", "unregister"} /\ r.op = "free" /\ a = main_arena

LockInv ==
    /\ lock \in [Arenas -> Threads \union {NoThread}]
    /\ \A t \in Threads, a \in Arenas : lock[a] = t <=> Owns(th[t], a)

Inv == ThInv /\ MemInv /\ LockInv

(***************************************************************************)
(* Types                                                                   *)
(***************************************************************************)
\* A mapping is not longer than the address space.
LEMMA Fits ==
    ASSUME NEW s \in Slots, NEW n \in Nat \ {0}, s .. s + n - 1 \subseteq Slots
    PROVE  n \in Lengths
<1>1. s + n - 1 \in s .. s + n - 1
  BY DEF Slots
<1> QED BY <1>1, RegionsAssumption DEF Slots, Lengths

\* A thread's locals may be replaced by good ones.
LEMMA SetGood ==
    ASSUME ThInv, NEW t \in Threads, NEW r, Good(r), th' = [th EXCEPT ![t] = r]
    PROVE  ThInv' /\ th'[t] = r /\ \A u \in Threads \ {t} : th'[u] = th[u]
BY DEF ThInv, Good

\* Idle locals are good.
LEMMA IdleGood == Good(Idle)
BY RegionsAssumption DEF Good, Idle, Locals, Points, Freeing, MaybeChunks

\* What moving on with a chunk does to the locals: they stay good.
LEMMA GoesGood ==
    ASSUME ThInv, NEW t \in Threads, NEW pt \in Points, NEW c \in MaybeChunks,
           Goes(t, pt, c),
           pt \in Freeing => th[t].op \in {"realloc", "free"},
           pt \in {"addheap", "align"} => c \in RealChunks,
           pt = "addheap" => c.off = 1
    PROVE  /\ ThInv'
           /\ th'[t] = [th[t] EXCEPT !.at = pt, !.new = c]
           /\ \A u \in Threads \ {t} : th'[u] = th[u]
<1> DEFINE r == [th[t] EXCEPT !.at = pt, !.new = c]
<1>1. Good(r)
  BY DEF ThInv, Good, Locals
<1>2. th' = [th EXCEPT ![t] = r]
  BY DEF Goes, ThInv, Locals
<1> QED BY <1>1, <1>2, SetGood

\* The same for a step that only moves on.
LEMMA GoToGood ==
    ASSUME ThInv, NEW t \in Threads, NEW pt \in Points, GoTo(t, pt),
           pt \in Freeing => th[t].op \in {"realloc", "free"},
           pt \in {"addheap", "align"} => th[t].new \in RealChunks,
           pt # "addheap"
    PROVE  /\ ThInv'
           /\ th'[t] = [th[t] EXCEPT !.at = pt]
           /\ \A u \in Threads \ {t} : th'[u] = th[u]
<1> DEFINE r == [th[t] EXCEPT !.at = pt]
<1>1. Good(r)
  BY DEF ThInv, Good, Locals
<1>2. th' = [th EXCEPT ![t] = r]
  BY DEF GoTo, Goes, ThInv, Locals
<1> QED BY <1>1, <1>2, SetGood

\* what follows for the arena and the old chunk
Known(r) ==
    /\ r \in Locals /\ Good(r) /\ r.arena \in Arenas /\ main_arena \in Arenas
    /\ r.at \in Freeing => /\ r.op \in {"realloc", "free"} /\ r.old \in RealChunks
                           /\ Address(r.old) \in Addresses /\ r.old.slot \in Slots

\* The mutex a thread takes next is an arena's, and the chunk it works on exists.
LEMMA LocalsKnown ==
    ASSUME ThInv, NEW t \in Threads
    PROVE  Known(th[t])
BY RegionsAssumption DEF ThInv, Good, Locals, RealChunks, Address, Addresses, Known

\* the chunk of a mapping of n slots at s, and what mapping it does (sysmalloc)
Mapping(s, n) == [slot |-> s, off |-> 0, size |-> n, index |-> MMAPPED_ARENA_INDEX]

Maps(t, pt, s, n) ==
    /\ Goes(t, pt, Mapping(s, n)) /\ Mapping(s, n) \in RealChunks
    /\ s .. s + n - 1 \subseteq Slots
    /\ FreeSlots(s .. s + n - 1) /\ Map(s .. s + n - 1, "mmap")
    /\ records' = [records EXCEPT ![<<s, 0>>] = <<n>> \o @]
    /\ mmap_tbl' = [mmap_tbl EXCEPT ![<<s, 0>>] = n]
    /\ reused' = (reused \/ s \in ForgottenChunks)
    /\ n_mmaps' = n_mmaps + 1
    /\ UNCHANGED <<heap_tbl, used, live, calls, aborted>>

\* It maps at least one slot.
LEMMA MmapIs ==
    ASSUME ThInv, NEW t \in Threads, NEW pt, MmapChunk(t, pt)
    PROVE  \E s \in Slots, n \in Lengths : <<s, 0>> \in Addresses /\ Maps(t, pt, s, n)
<1> DEFINE n == IF th[t].size = 0 THEN 1 ELSE th[t].size
           c(s) == [slot |-> s, off |-> 0, size |-> n, index |-> MMAPPED_ARENA_INDEX]
<1>1. n \in Nat \ {0}
  BY DEF ThInv, Locals
<1> HIDE DEF n
<1>2. PICK s \in Slots :
          /\ Block(c(s)) \subseteq Slots /\ FreeSlots(Block(c(s))) /\ Map(Block(c(s)), "mmap")
          /\ records' = [records EXCEPT ![Address(c(s))] = <<n>> \o @]
          /\ mmap_tbl' = [mmap_tbl EXCEPT ![Address(c(s))] = n]
          /\ reused' = (reused \/ s \in ForgottenChunks)
          /\ Goes(t, pt, c(s))
  BY Zenon DEF MmapChunk, n
<1>3. Block(c(s)) = s .. s + n - 1 /\ Address(c(s)) = <<s, 0>>
  BY DEF Block, Address
<1>4. n \in Lengths
  BY <1>1, <1>2, <1>3, Fits
<1>5. <<s, 0>> \in Addresses /\ c(s) \in RealChunks /\ c(s) = Mapping(s, n)
  BY <1>4, RegionsAssumption DEF Addresses, RealChunks, Mapping, MMAPPED_ARENA_INDEX
<1>6. n_mmaps' = n_mmaps + 1 /\ UNCHANGED <<heap_tbl, used, live, calls, aborted>>
  BY DEF MmapChunk
<1>7. Maps(t, pt, s, n)
  BY <1>2, <1>3, <1>5, <1>6 DEF Maps
<1> QED BY <1>4, <1>5, <1>7

\* the chunk of a mapping after its alignment, and what aligning it does (_int_memalign)
Aligned(p) == [p EXCEPT !.off = 1]

\* The chunk exists, and so does the aligned one.
LEMMA AlignIs ==
    ASSUME ThInv, NEW t \in Threads, Align(t)
    PROVE  LET p == th[t].new
           IN  /\ p \in RealChunks /\ Aligned(p) \in RealChunks
               /\ Address(p) = <<p.slot, p.off>> /\ Address(p) \in Addresses
               /\ Address(Aligned(p)) = <<p.slot, 1>> /\ <<p.slot, 1>> \in Addresses
               /\ p.size \in Lengths /\ p.slot \in Slots
<1>1. th[t].new \in RealChunks
  BY DEF ThInv, Align, At, ToAlign, Good, Locals, MaybeChunks
<1>2. 1 \in 0 .. HeapChunks + 1
  BY RegionsAssumption
<1> QED BY <1>1, <1>2 DEF RealChunks, Aligned, Address, Addresses

\* malloc and memalign keep the locals good.
LEMMA MallocTh ==
    ASSUME ThInv, MemInv, NEW t \in Threads,
           \/ CallMalloc(t) \/ LockArena(t) \/ MallocHeap(t) \/ NewHeap(t) \/ AddHeap(t)
           \/ SwitchToMain(t) \/ MallocFails(t) \/ MmapMain(t) \/ MmapOther(t)
           \/ MmapOtherFails(t) \/ Relock(t) \/ StartAlign(t) \/ Align(t) \/ AlignFails(t)
           \/ Retry(t) \/ Return(t)
    PROVE  ThInv'
<1>0. Sizes \union {0} \subseteq Nat
  BY RegionsAssumption
<1> Known(th[t])
  BY LocalsKnown
<1> USE DEF Known, At, Points, Freeing
<1> NoChunk \in MaybeChunks
  BY DEF MaybeChunks
<1>1. CASE CallMalloc(t)
  <2>1. PICK a \in Arenas, n \in Sizes \union {0}, op \in {"malloc", "memalign"} :
          th' = [th EXCEPT ![t] = [Idle EXCEPT !.at = "lock", !.op = op, !.arena = a, !.size = n]]
    BY <1>1 DEF CallMalloc
  <2>2. n \in Nat
    BY <1>0
  <2>3. Good([Idle EXCEPT !.at = "lock", !.op = op, !.arena = a, !.size = n])
    BY <2>2 DEF Good, Idle, Locals, MaybeChunks
  <2> QED BY <2>1, <2>3, SetGood
<1>2. CASE LockArena(t)
  BY <1>2, GoToGood DEF LockArena
<1>3. CASE MallocHeap(t)
  <2>1. PICK s \in HeapsOf(th[t].arena), o \in 1 .. HeapChunks :
          Goes(t, "got", [slot |-> s, off |-> o, size |-> 1, index |-> th[t].arena])
    BY <1>3 DEF MallocHeap
  <2>2. [slot |-> s, off |-> o, size |-> 1, index |-> th[t].arena] \in MaybeChunks
    BY RegionsAssumption DEF HeapsOf, RealChunks, MaybeChunks, Lengths
  <2> QED BY <2>1, <2>2, GoesGood
<1>4. CASE NewHeap(t)
  <2>1. PICK s \in Slots :
          Goes(t, "addheap", [slot |-> s, off |-> 1, size |-> 1, index |-> th[t].arena])
    BY <1>4 DEF NewHeap
  <2>2. [slot |-> s, off |-> 1, size |-> 1, index |-> th[t].arena] \in RealChunks
    BY RegionsAssumption DEF RealChunks, Lengths
  <2> QED BY <2>1, <2>2, GoesGood DEF MaybeChunks
<1>5. CASE AddHeap(t)
  BY <1>5, GoToGood DEF AddHeap
<1>6. CASE SwitchToMain(t)
  BY <1>6, GoToGood DEF SwitchToMain
<1>7. CASE MallocFails(t)
  BY Zenon, <1>7, GoesGood DEF MallocFails
<1>8. CASE MmapMain(t) \/ MmapOther(t)
  <2>1. PICK s \in Slots, n \in Lengths : Maps(t, "relock", s, n)
    BY <1>8, MmapIs DEF MmapMain, MmapOther
  <2>2. Mapping(s, n) \in MaybeChunks /\ Goes(t, "relock", Mapping(s, n))
    BY <2>1 DEF Maps, MaybeChunks
  <2> QED BY <2>2, GoesGood
<1>9. CASE MmapOtherFails(t)
  BY Zenon, <1>9, GoesGood DEF MmapOtherFails
<1>10. CASE Relock(t)
  BY <1>10, GoToGood DEF Relock
<1>11. CASE StartAlign(t)
  BY <1>11, GoToGood DEF StartAlign, ToAlign, Locals, MaybeChunks
<1>12. CASE Align(t)
  <2>1. Goes(t, "relock", Aligned(th[t].new)) /\ Aligned(th[t].new) \in MaybeChunks
    BY <1>12, AlignIs DEF Align, Aligned, MaybeChunks
  <2> QED BY Zenon, <2>1, GoesGood
<1>13. CASE AlignFails(t)
  BY Zenon, <1>13, GoesGood DEF AlignFails
<1>14. CASE Retry(t)
  <2>1. PICK a \in Arenas :
          th' = [th EXCEPT ![t] = [@ EXCEPT !.at = "lock", !.arena = a, !.tried = TRUE]]
    <3>1. PICK a \in Arenas : th' = [th EXCEPT ![t].at = "lock", ![t].arena = a, ![t].tried = TRUE]
      BY Zenon, <1>14 DEF Retry
    <3> HIDE DEF Known
    <3> QED BY <3>1 DEF ThInv
  <2>2. Good([th[t] EXCEPT !.at = "lock", !.arena = a, !.tried = TRUE])
    BY DEF Good, Locals
  <2> QED BY <2>1, <2>2, SetGood
<1>15. CASE Return(t)
  <2>1. CASE th[t].op = "realloc" /\ GoTo(t, "delete")
    BY <2>1, GoToGood
  <2>2. CASE Finish(t)
    BY <2>2, IdleGood, SetGood DEF Finish
  <2> QED BY <1>15, <2>1, <2>2 DEF Return
<1> QED BY <1>1, <1>2, <1>3, <1>4, <1>5, <1>6, <1>7, <1>8, <1>9, <1>10, <1>11, <1>12,
           <1>13, <1>14, <1>15

\* So do free and realloc.
LEMMA FreeTh ==
    ASSUME ThInv, MemInv, NEW t \in Threads,
           \/ Call(t, "free") \/ Call(t, "realloc") \/ FindMmap(t) \/ FindHeap(t)
           \/ FreeMmapped(t) \/ ReallocMmapped(t) \/ LookupDelete(t) \/ Munmap(t)
           \/ Unregister(t) \/ FreeHeap(t) \/ ForgetHeap(t)
    PROVE  ThInv'
<1> Known(th[t])
  BY LocalsKnown
<1> USE DEF Known, At, Points, Freeing
<1>1. Finish(t) => ThInv'
  BY IdleGood, SetGood DEF Finish
<1>2. Abort => ThInv'
  BY DEF Abort, ThInv
<1>3. ASSUME NEW op \in {"free", "realloc"}, Call(t, op)
      PROVE  ThInv'
  <2>1. PICK p \in live, n \in Sizes :
          th' = [th EXCEPT ![t] = [Idle EXCEPT !.at = "find", !.op = op, !.old = p, !.size = n]]
    BY <1>3 DEF Call
  <2>2. n \in Nat /\ p \in RealChunks
    BY RegionsAssumption DEF MemInv
  <2>3. Good([Idle EXCEPT !.at = "find", !.op = op, !.old = p, !.size = n])
    BY <2>2, RegionsAssumption DEF Good, Idle, Locals, MaybeChunks
  <2> QED BY <2>1, <2>3, SetGood
<1>4. CASE FindMmap(t)
  BY <1>4, GoToGood DEF FindMmap
<1>5. CASE FindHeap(t)
  <2> DEFINE a == heap_tbl[th[t].old.slot]
             r == [th[t] EXCEPT !.at = "heap", !.arena = a]
  <2>1. ASSUME a # 0 PROVE Good(r)
    <3>1. a \in Arenas
      BY <1>5, <2>1 DEF FindHeap, MemInv
    <3> QED BY <1>5, <3>1 DEF FindHeap, Good, Locals
  <2>2. a # 0 => th' = [th EXCEPT ![t] = r]
    BY <1>5 DEF FindHeap, ThInv, Locals
  <2> QED BY <1>2, <1>5, <2>1, <2>2, SetGood DEF FindHeap
<1>6. ASSUME th[t].at = "mmapped", ~Missing(t)
      PROVE  Recorded(t) \in RealChunks
  <2>1. records[Address(th[t].old)] \in Seq(Lengths)
    BY <1>6 DEF MemInv
  <2>2. Head(records[Address(th[t].old)]) \in Lengths
    BY <1>6, <2>1 DEF Missing
  <2> QED BY <1>6, <2>2 DEF Recorded, RealChunks
<1>7. CASE FreeMmapped(t)
  <2> DEFINE r == [th[t] EXCEPT !.at = "delete", !.old = Recorded(t)]
  <2>1. CASE ~Missing(t)
    <3>1. Good(r)
      BY <1>6, <1>7, <2>1 DEF FreeMmapped, Good, Locals, MaybeChunks
    <3>2. th' = [th EXCEPT ![t] = r]
      BY <1>7, <2>1 DEF FreeMmapped, ThInv, Locals
    <3> QED BY <3>1, <3>2, SetGood
  <2> QED BY <1>2, <1>7, <2>1 DEF FreeMmapped
<1>8. CASE ReallocMmapped(t)
  <2> DEFINE r(a) == [th[t] EXCEPT !.at = "lock", !.arena = a, !.old = Recorded(t)]
  <2>1. ASSUME ~Missing(t), NEW a \in Arenas,
               th' = [th EXCEPT ![t].at = "lock", ![t].arena = a, ![t].old = Recorded(t)]
        PROVE  ThInv'
    <3>1. Good(r(a))
      BY <1>6, <1>8, <2>1 DEF ReallocMmapped, Good, Locals, MaybeChunks
    <3>2. th' = [th EXCEPT ![t] = r(a)]
      BY <2>1 DEF ThInv, Locals
    <3> QED BY <3>1, <3>2, SetGood
  <2> QED BY <1>1, <1>2, <1>8, <2>1 DEF ReallocMmapped
<1>9. CASE LookupDelete(t)
  BY <1>2, <1>9, GoToGood DEF LookupDelete
<1>10. CASE Munmap(t)
  BY <1>10, GoToGood DEF Munmap
<1>11. CASE Unregister(t)
  BY <1>1, <1>11 DEF Unregister
<1>12. CASE FreeHeap(t)
  BY <1>1, <1>12, GoToGood DEF FreeHeap
<1>13. CASE ForgetHeap(t)
  BY <1>1, <1>2, <1>13 DEF ForgetHeap
<1> QED BY <1>3, <1>4, <1>5, <1>7, <1>8, <1>9, <1>10, <1>11, <1>12, <1>13

\* No step makes a table name an arena, a slot or a chunk that does not exist.
LEMMA MemStep ==
    ASSUME ThInv, MemInv, NEW t \in Threads,
           Step(t) \/ CallMalloc(t) \/ Call(t, "free") \/ Call(t, "realloc")
    PROVE  MemInv'
<1> Known(th[t])
  BY LocalsKnown
<1> USE DEF Known, At, Freeing
<1>0. ASSUME UNCHANGED <<mem, tables>>, UNCHANGED <<calls, aborted, reused>>,
             live' \subseteq RealChunks
      PROVE  MemInv'
  BY <1>0 DEF MemInv, tables
<1>1. ASSUME UNCHANGED <<mem, tables, live>>, calls' \in 0 .. MaxCalls,
             aborted' \in BOOLEAN, UNCHANGED reused
      PROVE  MemInv'
  BY <1>1 DEF MemInv, tables
<1>2. Abort => MemInv'
  BY <1>1 DEF Abort, MemInv
<1>3. CASE LockArena(t) \/ SwitchToMain(t) \/ MallocFails(t)
           \/ MmapOtherFails(t) \/ Relock(t) \/ StartAlign(t) \/ AlignFails(t) \/ Retry(t)
           \/ FindMmap(t) \/ FindHeap(t) \/ FreeMmapped(t)
  <2>1. Abort \/ UNCHANGED <<mem, tables, live, calls, aborted, reused>>
    BY <1>3, ZenonT(60)
       DEF LockArena, SwitchToMain, MallocFails, MmapOtherFails, Relock,
           StartAlign, AlignFails, Retry, FindMmap, FindHeap, FreeMmapped
  <2> QED BY <1>1, <1>2, <2>1 DEF MemInv
<1>4. CASE MallocHeap(t) \/ LookupDelete(t) \/ FreeHeap(t)
  <2>1. CASE MallocHeap(t)
    <3>1. PICK s \in Slots, o \in 1 .. HeapChunks : used' = [used EXCEPT ![s] = @ \union {o}]
      BY <2>1 DEF MallocHeap, HeapsOf
    <3>2. used' \in [Slots -> SUBSET (1 .. HeapChunks)]
      BY <3>1 DEF MemInv
    <3> QED BY <2>1, <3>2 DEF MallocHeap, MemInv
  <2>2. CASE LookupDelete(t)
    <3>1. CASE Abort
      BY <1>2, <3>1
    <3>2. CASE ~Abort
      <4>1. /\ mmap_tbl' = [mmap_tbl EXCEPT ![Address(th[t].old)] = 0] /\ n_mmaps' = n_mmaps - 1
            /\ UNCHANGED <<mem, heap_tbl, records, used, live, calls, aborted, reused>>
        BY <2>2, <3>2 DEF LookupDelete
      <4>2. mmap_tbl' \in [Addresses -> Lengths \union {0}]
        <5>1. mmap_tbl \in [Addresses -> Lengths \union {0}] /\ 0 \in Lengths \union {0}
          BY DEF MemInv
        <5> HIDE DEF Known
        <5> QED BY <4>1, <5>1
      <4> QED BY <4>1, <4>2 DEF MemInv
    <3> QED BY <3>1, <3>2
  <2>3. CASE FreeHeap(t)
    BY <2>3 DEF FreeHeap, MemInv, Map
  <2> QED BY <1>4, <2>1, <2>2, <2>3
<1>5. CASE AddHeap(t)
  <2>1. th[t].new \in RealChunks /\ th[t].new.off \in 1 .. HeapChunks
    BY <1>5, RegionsAssumption DEF AddHeap, Good
  <2> QED BY <1>5, <2>1 DEF AddHeap, MemInv, RealChunks
<1>6. CASE MmapMain(t) \/ MmapOther(t)
  <2>1. PICK s \in Slots, n \in Lengths : <<s, 0>> \in Addresses /\ Maps(t, "relock", s, n)
    BY <1>6, MmapIs DEF MmapMain, MmapOther
  <2>2. <<n>> \o records[<<s, 0>>] \in Seq(Lengths)
    BY <2>1 DEF MemInv
  <2>3. records' \in [Addresses -> Seq(Lengths)]
    BY <2>1, <2>2 DEF MemInv, Maps
  <2>4. mem' \in [Slots -> {"free", "mmap", "heap"}]
    BY <2>1 DEF MemInv, Maps, Map
  <2>5. mmap_tbl' \in [Addresses -> Lengths \union {0}]
    BY <2>1 DEF MemInv, Maps
  <2> QED BY <2>1, <2>3, <2>4, <2>5 DEF MemInv, Maps
<1>7. CASE Align(t)
  <2> DEFINE p == th[t].new
  <2>1. /\ Address(Aligned(p)) \in Addresses /\ Address(p) \in Addresses
        /\ p.size \in Lengths
    BY <1>7, AlignIs
  <2>2. /\ records' = [records EXCEPT ![Address(Aligned(p))] = <<p.size>> \o @,
                                      ![Address(p)] = Older(@)]
        /\ mmap_tbl' = [mmap_tbl EXCEPT ![Address(Aligned(p))] = p.size, ![Address(p)] = 0]
    BY <1>7 DEF Align, Aligned
  <2>3. \A chain \in Seq(Lengths) :
            Older(chain) \in Seq(Lengths) /\ <<p.size>> \o chain \in Seq(Lengths)
    BY <2>1 DEF Older
  <2> HIDE DEF p
  <2>4. records' \in [Addresses -> Seq(Lengths)]
    BY <2>1, <2>2, <2>3 DEF MemInv
  <2>5. mmap_tbl' \in [Addresses -> Lengths \union {0}]
    BY <2>1, <2>2, RegionsAssumption DEF MemInv
  <2> QED BY <1>7, <2>4, <2>5 DEF Align, MemInv
<1>8. CASE Return(t)
  <2>1. {th[t].new, th[t].old} \ {NoChunk} \subseteq RealChunks
    BY DEF Locals, MaybeChunks
  <2>2. live' \subseteq RealChunks
    BY <1>8, <2>1 DEF Return, MemInv
  <2> QED BY <1>0, <1>8, <2>2 DEF Return
<1>9. CASE CallMalloc(t) \/ Call(t, "free") \/ Call(t, "realloc")
  <2>1. /\ calls < MaxCalls /\ calls' = calls + 1 /\ live' \subseteq live
        /\ UNCHANGED <<mem, tables, aborted, reused>>
    BY <1>9 DEF CallMalloc, Call
  <2>2. calls' \in 0 .. MaxCalls
    BY <2>1, RegionsAssumption DEF MemInv
  <2> QED BY <2>1, <2>2 DEF MemInv, tables
<1>10. CASE ReallocMmapped(t)
  <2>1. CASE Abort
    BY <1>2, <2>1
  <2>2. CASE ~Abort
    <3>1. UNCHANGED <<mem, tables, calls, aborted, reused>>
          /\ live' \subseteq live \union {th[t].old} /\ th[t].old \in RealChunks
      BY <1>10, <2>2 DEF ReallocMmapped
    <3> QED BY <1>0, <3>1 DEF MemInv
  <2> QED BY <2>1, <2>2
<1>11. CASE Unregister(t)
  <2>1. {th[t].new} \ {NoChunk} \subseteq RealChunks
    BY DEF Locals, MaybeChunks
  <2>2. \A chain \in Seq(Lengths) : Older(chain) \in Seq(Lengths)
    BY DEF Older
  <2>3. records' \in [Addresses -> Seq(Lengths)]
    BY <1>11, <2>2 DEF Unregister, MemInv
  <2> QED BY <1>11, <2>1, <2>3 DEF Unregister, MemInv
<1>12. CASE ForgetHeap(t)
  <2>1. CASE Abort
    BY <1>2, <2>1
  <2>2. CASE ~Abort
    <3>1. /\ heap_tbl' = [heap_tbl EXCEPT ![th[t].old.slot] = 0]
          /\ UNCHANGED <<mem, mmap_tbl, records, n_mmaps, used, live, calls, aborted, reused>>
      BY <1>12, <2>2 DEF ForgetHeap
    <3>2. heap_tbl' \in [Slots -> Arenas \union {0}]
      BY <3>1 DEF MemInv
    <3> QED BY <3>1, <3>2 DEF MemInv
  <2> QED BY <2>1, <2>2
<1>13. CASE NewHeap(t)
  <2>1. PICK s \in Slots : Map({s}, "heap") /\ reused' = (reused \/ s \in ForgottenHeaps)
    BY <1>13 DEF NewHeap
  <2> QED BY <1>13, <2>1 DEF NewHeap, MemInv, tables, Map
<1>14. CASE Munmap(t)
  BY <1>14 DEF Munmap, MemInv, tables, Map
<1> QED BY <1>3, <1>4, <1>5, <1>6, <1>7, <1>8, <1>9, <1>10, <1>11, <1>12, <1>13, <1>14
        DEF Step

(***************************************************************************)
(* Mutexes                                                                 *)
(***************************************************************************)
\* A thread takes a mutex and from then on owns it.
LEMMA Taken ==
    ASSUME LockInv, NEW t \in Threads, NEW a \in Arenas, Take(t, a),
           \A u \in Threads \ {t} : th'[u] = th[u],
           \A b \in Arenas : Owns(th'[t], b) <=> Owns(th[t], b) \/ b = a
    PROVE  LockInv'
BY ThreadAssumption DEF LockInv, Take

\* A thread drops a mutex it owns.
LEMMA Dropped ==
    ASSUME LockInv, NEW t \in Threads, NEW a \in Arenas, Drop(a), Owns(th[t], a),
           \A u \in Threads \ {t} : th'[u] = th[u],
           \A b \in Arenas : Owns(th'[t], b) <=> Owns(th[t], b) /\ b # a
    PROVE  LockInv'
BY ThreadAssumption DEF LockInv, Drop

\* A thread takes no mutex and drops none.
LEMMA Kept ==
    ASSUME LockInv, NEW t \in Threads, UNCHANGED lock,
           \A u \in Threads \ {t} : th'[u] = th[u],
           \A b \in Arenas : Owns(th'[t], b) <=> Owns(th[t], b)
    PROVE  LockInv'
BY DEF LockInv

\* What a thread owns is known from its point, its arena and its operation; the steps of
\* malloc and memalign keep lock in agreement with it.
LEMMA MallocLock ==
    ASSUME ThInv, MemInv, LockInv, NEW t \in Threads,
           \/ CallMalloc(t) \/ LockArena(t) \/ MallocHeap(t) \/ NewHeap(t) \/ AddHeap(t)
           \/ SwitchToMain(t) \/ MallocFails(t) \/ MmapMain(t) \/ MmapOther(t)
           \/ MmapOtherFails(t) \/ Relock(t) \/ StartAlign(t) \/ Align(t) \/ AlignFails(t)
           \/ Retry(t) \/ Return(t)
    PROVE  LockInv'
<1> DEFINE Others == \A u \in Threads \ {t} : th'[u] = th[u]
           SameCall == th'[t].arena = th[t].arena /\ th'[t].op = th[t].op
<1> Known(th[t])
  BY LocalsKnown
<1> USE DEF Known, At
<1>1. ASSUME NEW pt \in Points, NEW c, Goes(t, pt, c)
      PROVE  Others /\ SameCall /\ th'[t].at = pt
  BY <1>1 DEF Goes, ThInv, Locals
<1>2. ASSUME NEW pt \in Points, GoTo(t, pt)
      PROVE  Others /\ SameCall /\ th'[t].at = pt
  BY <1>1, <1>2 DEF GoTo
<1>3. CASE CallMalloc(t)
  <2>1. Others /\ th'[t].at = "lock"
    BY <1>3 DEF CallMalloc, ThInv, Idle
  <2> QED BY <1>3, <2>1, Kept DEF CallMalloc, Owns
<1>4. CASE LockArena(t)
  <2>1. Others /\ SameCall /\ th'[t].at = "malloc"
    BY <1>2, <1>4 DEF LockArena, Points
  <2> QED BY <1>4, <2>1, Taken DEF LockArena, Owns
<1>5. CASE MallocHeap(t) \/ NewHeap(t) \/ AddHeap(t) \/ MallocFails(t)
  <2>1. Others /\ SameCall /\ th'[t].at \in {"got", "addheap"}
    BY <1>1, <1>2, <1>5 DEF MallocHeap, NewHeap, AddHeap, MallocFails, Points
  <2>2. th[t].at \in {"malloc", "addheap"} /\ UNCHANGED lock
    BY <1>5 DEF MallocHeap, NewHeap, AddHeap, MallocFails
  <2> QED BY <2>1, <2>2, Kept DEF Owns
<1>6. CASE SwitchToMain(t)
  <2>1. Others /\ SameCall /\ th'[t].at = "main"
    BY <1>2, <1>6 DEF SwitchToMain, Points
  <2> QED BY <1>6, <2>1, Dropped DEF SwitchToMain, Owns
<1>7. CASE MmapMain(t)
  <2>1. Others /\ SameCall /\ th'[t].at = "relock"
    BY Zenon, <1>1, <1>7 DEF MmapMain, MmapChunk, Points
  <2> QED BY <1>7, <2>1, Dropped DEF MmapMain, Owns
<1>8. CASE MmapOther(t) \/ MmapOtherFails(t)
  <2>1. Others /\ SameCall /\ th'[t].at = "relock"
    BY Zenon, <1>1, <1>8 DEF MmapOther, MmapOtherFails, MmapChunk, Points
  <2> QED BY <1>8, <2>1, Kept DEF MmapOther, MmapOtherFails, Owns
<1>9. CASE Relock(t)
  <2>1. Others /\ SameCall /\ th'[t].at = "got"
    BY <1>2, <1>9 DEF Relock, Points
  <2> QED BY <1>9, <2>1, Taken DEF Relock, Owns
<1>10. CASE StartAlign(t)
  <2>1. Others /\ SameCall /\ th'[t].at = "align"
    BY <1>2, <1>10 DEF StartAlign, Points
  <2> QED BY <1>10, <2>1, Dropped DEF StartAlign, Owns
<1>11. CASE Align(t)
  <2>1. Others /\ SameCall /\ th'[t].at = "relock"
    BY <1>1, <1>11 DEF Align, Points
  <2>2. CASE th[t].at = "align" /\ UNCHANGED lock
    BY <2>1, <2>2, Kept DEF Owns
  <2>3. CASE th[t].at = "got" /\ th[t].arena = main_arena /\ Drop(main_arena)
    BY <2>1, <2>3, Dropped DEF Owns
  <2> QED BY <1>11, <2>2, <2>3 DEF Align
<1>12. CASE AlignFails(t)
  <2>1. Others /\ SameCall /\ th'[t].at = "relock"
    BY <1>1, <1>12 DEF AlignFails, Points
  <2> QED BY <1>12, <2>1, Kept DEF AlignFails, Owns
<1>13. CASE Retry(t)
  <2>1. Others /\ th'[t].at = "lock"
    <3>1. PICK a \in Arenas : th' = [th EXCEPT ![t].at = "lock", ![t].arena = a, ![t].tried = TRUE]
      BY Zenon, <1>13 DEF Retry
    <3>2. th \in [Threads -> Locals]
      BY DEF ThInv
    <3> HIDE DEF Known
    <3>3. Others
      BY Zenon, <3>1, <3>2
    <3>4. th'[t] = [th[t] EXCEPT !.at = "lock", !.arena = a, !.tried = TRUE]
      BY <3>1, <3>2
    <3> QED BY <3>2, <3>3, <3>4 DEF Locals
  <2>2. th[t].at = "got" /\ Drop(th[t].arena)
    BY <1>13 DEF Retry
  <2> QED BY <2>1, <2>2, Dropped DEF Owns
<1>14. CASE Return(t)
  <2>1. CASE th[t].op = "realloc" /\ GoTo(t, "delete")
    <3>1. Others /\ SameCall /\ th'[t].at = "delete"
      BY <1>2, <2>1 DEF Points
    <3> QED BY <1>14, <2>1, <3>1, Dropped DEF Return, Owns
  <2>2. CASE Finish(t)
    <3>1. Others /\ th'[t].at = "idle"
      BY <2>2 DEF Finish, Idle, ThInv
    <3> QED BY <1>14, <3>1, Dropped DEF Return, Owns
  <2> QED BY <1>14, <2>1, <2>2 DEF Return
<1> QED BY <1>3, <1>4, <1>5, <1>6, <1>7, <1>8, <1>9, <1>10, <1>11, <1>12, <1>13, <1>14

\* So do those of free and realloc.
LEMMA FreeLock ==
    ASSUME ThInv, MemInv, LockInv, NEW t \in Threads,
           \/ Call(t, "free") \/ Call(t, "realloc") \/ FindMmap(t) \/ FindHeap(t)
           \/ FreeMmapped(t) \/ ReallocMmapped(t) \/ LookupDelete(t) \/ Munmap(t)
           \/ Unregister(t) \/ FreeHeap(t) \/ ForgetHeap(t)
    PROVE  LockInv'
<1> DEFINE Others == \A u \in Threads \ {t} : th'[u] = th[u]
           SameCall == th'[t].arena = th[t].arena /\ th'[t].op = th[t].op
<1> Known(th[t])
  BY LocalsKnown
<1> USE DEF Known, At, Freeing
<1>1. ASSUME NEW pt \in Points, GoTo(t, pt)
      PROVE  Others /\ SameCall /\ th'[t].at = pt
  BY <1>1 DEF GoTo, Goes, ThInv, Locals
<1>2. ASSUME Finish(t)
      PROVE  Others /\ th'[t].at = "idle"
  BY <1>2 DEF Finish, Idle, ThInv
<1>3. Abort => LockInv'
  BY DEF Abort, LockInv, Owns
<1>4. ASSUME NEW op \in {"free", "realloc"}, Call(t, op)
      PROVE  LockInv'
  <2>1. Others /\ th'[t].at = "find"
    BY <1>4 DEF Call, ThInv, Idle
  <2> QED BY <1>4, <2>1, Kept DEF Call, Owns
<1>5. CASE FindMmap(t)
  <2>1. Others /\ SameCall /\ th'[t].at \in {"mmapped", "findheap"}
    BY <1>1, <1>5 DEF FindMmap, Points
  <2> QED BY <1>5, <2>1, Kept DEF FindMmap, Owns
<1>6. CASE FindHeap(t)
  <2>1. CASE heap_tbl[th[t].old.slot] # 0
    <3>1. Others /\ th'[t].at = "heap"
      BY <1>6, <2>1, SMTT(30) DEF FindHeap, ThInv, Locals
    <3> QED BY <1>6, <2>1, <3>1, Kept DEF FindHeap, Owns
  <2> QED BY <1>3, <1>6, <2>1 DEF FindHeap
<1>7. CASE FreeMmapped(t)
  <2>1. CASE ~Missing(t)
    <3>1. Others /\ SameCall /\ th'[t].at = "delete"
      BY <1>7, <2>1 DEF FreeMmapped, ThInv, Locals
    <3> QED BY <1>7, <2>1, <3>1, Taken DEF FreeMmapped, Owns
  <2> QED BY <1>3, <1>7, <2>1 DEF FreeMmapped
<1>8. CASE ReallocMmapped(t)
  <2>1. CASE ~Missing(t)
    <3>1. CASE Finish(t)
      BY <1>2, <1>8, <2>1, <3>1, Kept DEF ReallocMmapped, Owns
    <3>2. ASSUME NEW a \in Arenas,
                 th' = [th EXCEPT ![t].at = "lock", ![t].arena = a, ![t].old = Recorded(t)]
          PROVE  Others /\ th'[t].at = "lock"
      BY <3>2 DEF ThInv, Locals
    <3>3. CASE Others /\ th'[t].at = "lock"
      BY <1>8, <2>1, <3>3, Kept DEF ReallocMmapped, Owns
    <3> QED BY <1>8, <2>1, <3>1, <3>2, <3>3 DEF ReallocMmapped
  <2> QED BY <1>3, <1>8, <2>1 DEF ReallocMmapped
<1>9. CASE LookupDelete(t)
  <2>1. CASE GoTo(t, "munmap") /\ UNCHANGED lock
    <3>1. Others /\ SameCall /\ th'[t].at = "munmap"
      BY <1>1, <2>1 DEF Points
    <3> QED BY <1>9, <2>1, <3>1, Kept DEF LookupDelete, Owns
  <2> QED BY <1>3, <1>9, <2>1 DEF LookupDelete
<1>10. CASE Munmap(t)
  <2>1. Others /\ SameCall /\ th'[t].at = "unregister"
    BY <1>1, <1>10 DEF Munmap, Points
  <2> QED BY <1>10, <2>1, Kept DEF Munmap, Owns
<1>11. CASE Unregister(t)
  <2>1. Others /\ th'[t].at = "idle"
    BY <1>2, <1>11 DEF Unregister
  <2>2. CASE th[t].op = "free"
    BY <1>11, <2>1, <2>2, Dropped DEF Unregister, Owns
  <2>3. CASE th[t].op # "free"
    BY <1>11, <2>1, <2>3, Kept DEF Unregister, Owns
  <2> QED BY <2>2, <2>3
<1>12. CASE FreeHeap(t)
  <2>1. CASE Finish(t) /\ UNCHANGED lock
    BY <1>2, <1>12, <2>1, Kept DEF FreeHeap, Owns
  <2>2. CASE Take(t, th[t].arena) /\ GoTo(t, "forget")
    <3>1. Others /\ SameCall /\ th'[t].at = "forget"
      BY <1>1, <2>2 DEF Points
    <3> QED BY <1>12, <2>2, <3>1, Taken DEF FreeHeap, Owns
  <2> QED BY <1>12, <2>1, <2>2 DEF FreeHeap
<1>13. CASE ForgetHeap(t)
  <2>1. CASE Finish(t) /\ Drop(th[t].arena)
    BY <1>2, <1>13, <2>1, Dropped DEF ForgetHeap, Owns
  <2> QED BY <1>3, <1>13, <2>1 DEF ForgetHeap
<1> QED BY <1>4, <1>5, <1>6, <1>7, <1>8, <1>9, <1>10, <1>11, <1>12, <1>13

(***************************************************************************)
(* The invariant and its consequence                                       *)
(***************************************************************************)
\* The invariant holds at the start: nobody works, no mutex is held, nothing is mapped.
LEMMA InitInv == Init => Inv
<1> SUFFICES ASSUME Init PROVE Inv
  OBVIOUS
<1>1. Good(Idle) /\ Idle \in Locals
  BY IdleGood DEF Good
<1>2. ThInv
  BY <1>1 DEF Init, ThInv
<1>3. MemInv
  <2>1. <<>> \in Seq(Lengths) /\ 0 \in 0 .. MaxCalls
    BY RegionsAssumption
  <2>2. records \in [Addresses -> Seq(Lengths)]
    BY <2>1 DEF Init
  <2>3. /\ mem \in [Slots -> {"free", "mmap", "heap"}]
        /\ mmap_tbl \in [Addresses -> Lengths \union {0}]
        /\ heap_tbl \in [Slots -> Arenas \union {0}]
        /\ used \in [Slots -> SUBSET (1 .. HeapChunks)]
    BY DEF Init
  <2>4. n_mmaps \in Int /\ calls \in 0 .. MaxCalls
    BY RegionsAssumption DEF Init
  <2>5. live \subseteq RealChunks /\ aborted \in BOOLEAN /\ reused \in BOOLEAN
    BY DEF Init
  <2> QED BY <2>2, <2>3, <2>4, <2>5 DEF MemInv
<1>4. LockInv
  BY ThreadAssumption DEF Init, LockInv, Owns, Idle
<1> QED BY <1>2, <1>3, <1>4 DEF Inv

\* Every step keeps it.
LEMMA NextInv == Inv /\ [Next]_vars => Inv'
<1> SUFFICES ASSUME Inv, [Next]_vars PROVE Inv'
  OBVIOUS
<1>1. ASSUME NEW t \in Threads,
             Step(t) \/ CallMalloc(t) \/ Call(t, "free") \/ Call(t, "realloc")
      PROVE  Inv'
  <2>1. ThInv'
    BY <1>1, MallocTh, FreeTh DEF Inv, Step
  <2>2. MemInv'
    BY <1>1, MemStep DEF Inv
  <2>3. LockInv'
    BY <1>1, MallocLock, FreeLock DEF Inv, Step
  <2> QED BY <2>1, <2>2, <2>3 DEF Inv
<1>2. CASE UNCHANGED vars
  BY <1>2 DEF vars, tables, Inv, ThInv, MemInv, LockInv, Owns
<1> QED BY <1>1, <1>2 DEF Next, Finished

\* lock says of every mutex what the point and the locals of each thread say: who holds
\* the arena's mutex in sysmalloc, memalign, realloc and free (malloc.c), although a call
\* changes from one arena's mutex to another's; and the tables of lookup.c name arenas.
THEOREM InvAlways == Spec => []Inv
BY InitInv, NextInv, PTL DEF Spec

\* No thread waits for a mutex while it holds one, for any number of threads, arenas and
\* slots: the mutexes that malloc, memalign, realloc and free go through in the middle of
\* a call (malloc.c) cannot be waited for in a cycle.
THEOREM NobodyHoldsAndWaits == Spec => []NoHoldAndWait
<1>1. Inv => NoHoldAndWait
  BY DEF Inv, ThInv, Good, LockInv, Owns, NoHoldAndWait, Waits, At
<1> QED BY <1>1, InvAlways, PTL

(***************************************************************************)
(* Chunks, mappings and heaps.  Tidy is the invariant as long as no slot   *)
(* was handed out before it was forgotten.                                 *)
(***************************************************************************)
\* the points where a thread has taken its old chunk apart
Gone == {"munmap", "unregister", "forget"}

\* the chunks of a thread with locals r
Mine(r) == ((IF r.at \in Gone THEN {} ELSE {r.old})
               \union (IF r.at = "addheap" THEN {} ELSE {r.new})) \ {NoChunk}

\* every chunk has one owner: the program, or one call in one of its two roles
OneOwner ==
    /\ \A t \in Threads : Mine(th[t]) \intersect live = {}
    /\ \A t, u \in Threads : t # u => Mine(th[t]) \intersect Mine(th[u]) = {}
    /\ \A t \in Threads : th[t].old \in Mine(th[t]) => th[t].old # th[t].new

\* the tables say of a chunk what it is
Sound(c) ==
    IF c.index = MMAPPED_ARENA_INDEX
    THEN /\ mmap_tbl[Address(c)] = c.size
         /\ records[Address(c)] # <<>> /\ Head(records[Address(c)]) = c.size
    ELSE /\ heap_tbl[c.slot] = c.index /\ mem[c.slot] = "heap"
         /\ c.off \in used[c.slot] /\ c.size = 1

AllSound == \A c \in Held : Sound(c)

\* what the point of a thread with locals r says of its chunks
PointOK(r) ==
    /\ r.op = "realloc" \/ r.at \in {"mmapped", "delete"} => r.old.index = MMAPPED_ARENA_INDEX
    /\ r.at \in {"findheap", "heap"} => r.old.index # MMAPPED_ARENA_INDEX
    /\ r.at = "heap" => r.arena = r.old.index
    /\ r.at = "addheap" => r.new.index # MMAPPED_ARENA_INDEX /\ r.new.size = 1
    /\ r.at = "align" => r.new.off = 0
    /\ r.op \in {"malloc", "memalign"} => r.old = NoChunk

PointsOK == \A t \in Threads : PointOK(th[t])

\* the slots of an entry of the table of mmapped chunks
Extent(a) == a[1] .. a[1] + mmap_tbl[a] - 1

\* The entries name mapped memory, each its own.
EntriesOK ==
    /\ \A a \in Entries : \A s \in Extent(a) : s \in Slots /\ mem[s] = "mmap"
    /\ \A a, b \in Entries : a # b => Extent(a) \intersect Extent(b) = {}

\* What is to be unmapped is mapped and nobody else's; what was unmapped has no entry.
UnmapsOK ==
    /\ \A t \in Threads : At(t, "munmap") =>
          /\ \A s \in Block(th[t].old) : s \in Slots /\ mem[s] = "mmap"
          /\ \A a \in Entries : Extent(a) \intersect Block(th[t].old) = {}
          /\ \A u \in Threads \ {t} : At(u, "munmap") =>
                Block(th[u].old) \intersect Block(th[t].old) = {}
    /\ \A t \in Threads : At(t, "unregister") => \A a \in Entries : a[1] # th[t].old.slot

\* A heap is in the table, or about to be; one that is not there any more is about
\* to be forgotten.
HeapsOK ==
    /\ \A s \in Slots : heap_tbl[s] # 0 =>
          mem[s] = "heap" \/ \E t \in Threads : At(t, "forget") /\ th[t].old.slot = s
    /\ \A t \in Threads : At(t, "addheap") =>
          /\ mem[th[t].new.slot] = "heap" /\ heap_tbl[th[t].new.slot] = 0
          /\ \A u \in Threads \ {t} : At(u, "addheap") => th[u].new.slot # th[t].new.slot
    /\ \A t \in Threads : At(t, "forget") =>
          heap_tbl[th[t].old.slot] = th[t].arena /\ mem[th[t].old.slot] # "heap"

Counted == n_mmaps = Cardinality(Entries)

Tidy == PointsOK /\ OneOwner /\ AllSound /\ EntriesOK /\ UnmapsOK /\ HeapsOK /\ Counted

\* The chunks of the program are those it holds and those of the calls.
LEMMA HeldIs ==
    ASSUME NEW c
    PROVE  /\ MemInv => (c \in Held <=> c \in live \/ \E t \in Threads : c \in Mine(th[t]))
           /\ MemInv' => (c \in Held' <=> c \in live' \/ \E t \in Threads : c \in Mine(th'[t]))
<1>1. NoChunk \notin RealChunks
  BY DEF RealChunks, NoChunk, Slots
<1>2. MemInv => NoChunk \notin live
  BY <1>1 DEF MemInv
<1>3. MemInv' => NoChunk \notin live'
  BY <1>1 DEF MemInv
<1>4. MemInv => (c \in Held <=> c \in live \/ \E t \in Threads : c \in Mine(th[t]))
  BY <1>2 DEF Held, Mine, Gone, At
<1>5. MemInv' => (c \in Held' <=> c \in live' \/ \E t \in Threads : c \in Mine(th'[t]))
  BY <1>3 DEF Held, Mine, Gone, At
<1> QED BY <1>4, <1>5

\* They exist.
LEMMA HeldReal ==
    ASSUME ThInv, MemInv
    PROVE  Held \subseteq RealChunks
BY HeldIs DEF ThInv, MemInv, Mine, Locals, MaybeChunks

\* A thread moves chunks between itself and the program, loses some, or gets new ones.
LEMMA OwnersKept ==
    ASSUME MemInv, MemInv', OneOwner, NEW t \in Threads, NEW F, F \intersect Held = {},
           \A u \in Threads \ {t} : th'[u] = th[u],
           Mine(th'[t]) \union live' \subseteq Mine(th[t]) \union live \union F,
           Mine(th'[t]) \intersect live' = {},
           th'[t].old \in Mine(th'[t]) => th'[t].old # th'[t].new
    PROVE  OneOwner' /\ Held' \subseteq Held \union F
<1>1. \A u \in Threads \ {t} : Mine(th'[u]) = Mine(th[u])
  OBVIOUS
<1>2. \A c : c \in Held' <=> c \in live' \/ \E u \in Threads : c \in Mine(th'[u])
  BY HeldIs
<1>3. \A c : c \in Held <=> c \in live \/ \E u \in Threads : c \in Mine(th[u])
  BY HeldIs
<1>4. OneOwner'
  BY <1>1, <1>3 DEF OneOwner
<1> QED BY <1>1, <1>2, <1>3, <1>4

\* What a thread had and has no more, nobody has.
LEMMA OwnerLost ==
    ASSUME MemInv', OneOwner, NEW t \in Threads, NEW c \in Mine(th[t]),
           \A u \in Threads \ {t} : th'[u] = th[u],
           c \notin Mine(th'[t]), c \notin live'
    PROVE  c \notin Held'
<1>1. \A u \in Threads \ {t} : c \notin Mine(th'[u])
  BY DEF OneOwner
<1> QED BY <1>1, HeldIs

\* Mappings that are to be taken apart are not touched by a step that leaves them and
\* their table alone.
LEMMA UnmapsKept ==
    ASSUME UnmapsOK, UNCHANGED mmap_tbl,
           \A x \in Slots : mem[x] = "mmap" => mem'[x] = "mmap",
           \A u \in Threads :
               th[u].at \in {"munmap", "unregister"} \/ th'[u].at \in {"munmap", "unregister"}
                   => th'[u] = th[u]
    PROVE  UnmapsOK'
<1>1. Entries' = Entries /\ \A a : Extent(a)' = Extent(a)
  BY DEF Entries, Extent
<1> QED BY <1>1, SMTT(30) DEF UnmapsOK, At

\* Nor are heaps that come or go by a step that leaves them and their table alone.
LEMMA HeapsKept ==
    ASSUME ThInv, HeapsOK, UNCHANGED heap_tbl,
           \A x \in Slots : mem'[x] = "heap" <=> mem[x] = "heap",
           \A u \in Threads :
               th[u].at \in {"addheap", "forget"} \/ th'[u].at \in {"addheap", "forget"}
                   => th'[u] = th[u]
    PROVE  HeapsOK'
<1>1. \A u \in Threads : th[u].at = "addheap" => th[u].new.slot \in Slots
  BY DEF ThInv, Good, RealChunks
<1>2. \A u \in Threads : th[u].at = "forget" => th[u].old.slot \in Slots
  BY LocalsKnown DEF Known, Freeing
<1> QED BY <1>1, <1>2, SMTT(30) DEF HeapsOK, At

\* the points where nothing is half done
Plain == Points \ (Gone \union {"addheap"})

\* A step that leaves memory and tables alone, and makes no chunk.
LEMMA PaperStep ==
    ASSUME MemInv, MemInv', Tidy, NEW t \in Threads, UNCHANGED <<mem, tables>>,
           \A u \in Threads \ {t} : th'[u] = th[u],
           th[t].at \in Plain, th'[t].at \in Plain, PointOK(th'[t]),
           Mine(th'[t]) \union live' \subseteq Mine(th[t]) \union live,
           Mine(th'[t]) \intersect live' = {},
           th'[t].old \in Mine(th'[t]) => th'[t].old # th'[t].new
    PROVE  Tidy'
<1>1. UNCHANGED <<mem, mmap_tbl, heap_tbl, records, used, n_mmaps>>
  BY DEF tables
<1>2. OneOwner' /\ Held' \subseteq Held
  BY OwnersKept, {} \intersect Held = {} DEF Tidy
<1>3. \A u \in Threads : th[u].at \in Gone \union {"addheap"} \/ th'[u].at \in Gone \union {"addheap"}
          => th'[u] = th[u]
  BY DEF Plain
<1>4. PointsOK'
  BY DEF Tidy, PointsOK
<1>5. AllSound'
  BY <1>1, <1>2 DEF Tidy, AllSound, Sound
<1>6. EntriesOK' /\ Counted'
  BY <1>1 DEF Tidy, EntriesOK, Entries, Extent, Counted
<1>7. UnmapsOK'
  <2>1. \A u \in Threads : th[u].at \in {"munmap", "unregister"} \/ th'[u].at \in {"munmap", "unregister"}
            => th'[u] = th[u]
    BY <1>3 DEF Gone
  <2> QED BY <1>1, <2>1, UnmapsKept DEF Tidy
<1>8. HeapsOK'
  BY <1>1, <1>3 DEF Tidy, HeapsOK, At, Gone
<1> QED BY <1>2, <1>4, <1>5, <1>6, <1>7, <1>8 DEF Tidy

\* A thread keeps its chunks, or loses the new one.
LEMMA PaperMove ==
    ASSUME MemInv, MemInv', Tidy, NEW t \in Threads, UNCHANGED <<mem, tables, live>>,
           \A u \in Threads \ {t} : th'[u] = th[u],
           th[t].at \in Plain, th'[t].at \in Plain, PointOK(th'[t]),
           th'[t].old = th[t].old, th'[t].new \in {th[t].new, NoChunk}
    PROVE  Tidy'
<1>1. \A r : r.at \in Plain => Mine(r) = {r.old, r.new} \ {NoChunk}
  BY DEF Mine, Plain
<1>2. Mine(th[t]) = {th[t].old, th[t].new} \ {NoChunk}
  BY <1>1
<1>3. Mine(th'[t]) = {th'[t].old, th'[t].new} \ {NoChunk}
  BY <1>1
<1> QED BY <1>2, <1>3, PaperStep DEF Tidy, OneOwner

\* what moving to pt with the new chunk n and the old chunk o does to the locals of t
After(t, pt, n, o) ==
    /\ \A u \in Threads \ {t} : th'[u] = th[u]
    /\ th'[t].at = pt /\ th'[t].new = n /\ th'[t].old = o
    /\ th'[t].op = th[t].op /\ th'[t].arena = th[t].arena

\* The steps of the module that move a thread.
LEMMA LocalsAfter ==
    ASSUME ThInv, NEW t \in Threads
    PROVE  /\ \A pt, c : Goes(t, pt, c) => After(t, pt, c, th[t].old)
           /\ \A pt : GoTo(t, pt) => After(t, pt, th[t].new, th[t].old)
           /\ Finish(t) => th'[t] = Idle /\ \A u \in Threads \ {t} : th'[u] = th[u]
<1>1. \A pt, c : Goes(t, pt, c) => After(t, pt, c, th[t].old)
  BY DEF ThInv, Locals, Goes, After
<1> QED BY <1>1 DEF GoTo, Finish, ThInv

\* The chunks of a call are the program's, and the tables know them.
LEMMA MineSound ==
    ASSUME ThInv, MemInv, Tidy, NEW t \in Threads, NEW c \in Mine(th[t])
    PROVE  c \in Held /\ c \in RealChunks /\ Sound(c)
BY HeldIs, HeldReal DEF Tidy, AllSound

\* So does the old chunk, until it is taken apart.
LEMMA OldSound ==
    ASSUME ThInv, MemInv, Tidy, NEW t \in Threads, th[t].at \in Freeing \ Gone
    PROVE  /\ th[t].old \in Mine(th[t]) /\ th[t].old \in Held
           /\ th[t].old \in RealChunks /\ Sound(th[t].old)
<1>1. th[t].old \in RealChunks
  BY LocalsKnown DEF Known
<1>2. NoChunk \notin RealChunks
  BY DEF RealChunks, NoChunk, Slots
<1>3. th[t].old \in Mine(th[t])
  BY <1>1, <1>2 DEF Mine
<1> QED BY <1>1, <1>3, MineSound

\* The table of mmapped chunks tells them from those of heaps.
LEMMA EntryTells ==
    ASSUME MemInv, Tidy, NEW c \in RealChunks, Sound(c)
    PROVE  /\ Address(c) \in Addresses
           /\ mmap_tbl[Address(c)] # 0 <=> c.index = MMAPPED_ARENA_INDEX
<1>1. /\ Address(c) \in Addresses /\ c.slot \in Slots /\ Address(c)[1] = c.slot
      /\ mmap_tbl[Address(c)] \in Lengths \union {0} /\ c.size \in Lengths
  BY DEF MemInv, RealChunks, Address, Addresses
<1>2. Lengths \subseteq Nat \ {0} /\ Slots \subseteq Nat
  BY DEF Lengths, Slots
<1>3. ASSUME mmap_tbl[Address(c)] # 0
      PROVE  mem[c.slot] = "mmap"
  <2>1. Address(c) \in Entries
    BY <1>1, <1>3 DEF Entries
  <2>2. mmap_tbl[Address(c)] \in Nat \ {0} /\ c.slot \in Nat
    BY <1>1, <1>2, <1>3
  <2>3. c.slot \in Extent(Address(c))
    BY <1>1, <2>2 DEF Extent
  <2> QED BY <2>1, <2>3 DEF Tidy, EntriesOK
<1>4. CASE c.index = MMAPPED_ARENA_INDEX
  BY <1>1, <1>2, <1>4 DEF Sound
<1>5. CASE c.index # MMAPPED_ARENA_INDEX
  BY <1>1, <1>3, <1>5 DEF Sound
<1> QED BY <1>1, <1>4, <1>5

\* The steps of malloc and memalign that wait, fail, change from one mutex to another or
\* return give every chunk to whom it belongs.
LEMMA MallocPaper ==
    ASSUME ThInv, MemInv, MemInv', Tidy, NEW t \in Threads,
           \/ CallMalloc(t) \/ LockArena(t) \/ SwitchToMain(t) \/ MallocFails(t)
           \/ MmapOtherFails(t) \/ Relock(t) \/ StartAlign(t) \/ AlignFails(t)
           \/ Retry(t) \/ Return(t)
    PROVE  Tidy'
<1>1. PointOK(th[t]) /\ th[t] \in Locals
  BY DEF Tidy, PointsOK, ThInv
<1>2. ASSUME NEW pt \in {"malloc", "got", "main", "relock", "align"},
             NEW n \in {th[t].new, NoChunk},
             After(t, pt, n, th[t].old), UNCHANGED <<mem, tables, live>>, th[t].at \in Plain,
             pt = "align" => n.off = 0
      PROVE  Tidy'
  <2>1. PointOK(th'[t]) /\ th'[t].at \in Plain
    BY <1>1, <1>2 DEF PointOK, After, Plain, Points, Gone
  <2> QED BY <1>2, <2>1, PaperMove DEF After
<1> USE DEF At, Plain, Points, Gone
<1>3. CASE CallMalloc(t)
  <2>1. PICK a \in Arenas, n \in Sizes \union {0}, op \in {"malloc", "memalign"} :
          th' = [th EXCEPT ![t] = [Idle EXCEPT !.at = "lock", !.op = op, !.arena = a, !.size = n]]
    BY <1>3 DEF CallMalloc
  <2>2. /\ th'[t].at = "lock" /\ th'[t].op = op
        /\ th'[t].old = NoChunk /\ th'[t].new = NoChunk
        /\ \A u \in Threads \ {t} : th'[u] = th[u]
    BY <2>1 DEF ThInv, Idle
  <2>3. PointOK(th'[t])
    BY <2>2 DEF PointOK
  <2>4. Mine(th'[t]) = {}
    BY <2>2 DEF Mine
  <2>5. th[t].at \in Plain /\ th'[t].at \in Plain /\ UNCHANGED <<mem, tables, live>>
    BY <1>3, <2>2 DEF CallMalloc
  <2> HIDE DEF Plain
  <2> QED BY <2>2, <2>3, <2>4, <2>5, PaperStep
<1>4. CASE LockArena(t)
  BY <1>2, <1>4, LocalsAfter DEF LockArena
<1>5. CASE SwitchToMain(t)
  BY <1>2, <1>5, LocalsAfter DEF SwitchToMain
<1>6. CASE MallocFails(t)
  BY <1>2, <1>6, LocalsAfter DEF MallocFails
<1>7. CASE MmapOtherFails(t)
  BY <1>2, <1>7, LocalsAfter DEF MmapOtherFails
<1>8. CASE Relock(t)
  BY <1>2, <1>8, LocalsAfter DEF Relock
<1>9. CASE StartAlign(t)
  BY <1>2, <1>9, LocalsAfter DEF StartAlign, ToAlign
<1>10. CASE AlignFails(t)
  BY <1>2, <1>10, LocalsAfter DEF AlignFails
<1>11. CASE Retry(t)
  <2>1. PICK a : th' = [th EXCEPT ![t].at = "lock", ![t].arena = a, ![t].tried = TRUE]
    BY Zenon, <1>11 DEF Retry
  <2>2. /\ th'[t].at = "lock" /\ th'[t].op = th[t].op
        /\ th'[t].old = th[t].old /\ th'[t].new = th[t].new
        /\ \A u \in Threads \ {t} : th'[u] = th[u]
    BY <1>1, <2>1 DEF ThInv, Locals
  <2>3. PointOK(th'[t])
    BY <1>1, <2>2 DEF PointOK
  <2> QED BY <1>11, <2>2, <2>3, PaperMove DEF Retry
<1>12. CASE Return(t)
  <2>0. th[t].at = "got" /\ UNCHANGED <<mem, tables>>
    BY <1>12 DEF Return
  <2>1. CASE th[t].op = "realloc" /\ GoTo(t, "delete") /\ UNCHANGED live
    <3>1. After(t, "delete", th[t].new, th[t].old)
      BY <2>1, LocalsAfter
    <3>2. PointOK(th'[t])
      BY <1>1, <2>1, <3>1 DEF PointOK, After
    <3> QED BY <2>0, <2>1, <3>1, <3>2, PaperMove DEF After
  <2>2. CASE Finish(t) /\ live' = live \union ({th[t].new, th[t].old} \ {NoChunk})
    <3>1. th'[t] = Idle /\ \A u \in Threads \ {t} : th'[u] = th[u]
      BY <2>2, LocalsAfter
    <3>2. /\ PointOK(th'[t]) /\ th'[t].at = "idle"
          /\ th'[t].old = NoChunk /\ th'[t].new = NoChunk
      BY <3>1 DEF PointOK, Idle
    <3>3. Mine(th'[t]) = {} /\ live' \subseteq live \union Mine(th[t])
      BY <2>0, <2>2, <3>2 DEF Mine
    <3> QED BY <2>0, <3>1, <3>2, <3>3, PaperStep
  <2> QED BY <1>12, <2>1, <2>2 DEF Return
<1> QED BY <1>3, <1>4, <1>5, <1>6, <1>7, <1>8, <1>9, <1>10, <1>11, <1>12

\* So do those of free and realloc that look for the chunk; none of them fails to find it
\* (lookup.c).
LEMMA FreePaper ==
    ASSUME ThInv, MemInv, MemInv', Tidy, NEW t \in Threads,
           \/ Call(t, "free") \/ Call(t, "realloc") \/ FindMmap(t) \/ FindHeap(t)
           \/ FreeMmapped(t) \/ ReallocMmapped(t)
    PROVE  Tidy' /\ aborted' = aborted
<1>1. PointOK(th[t]) /\ th[t] \in Locals
  BY DEF Tidy, PointsOK, ThInv
<1> USE DEF At, Plain, Points, Gone
<1>2. ASSUME NEW op \in {"free", "realloc"}, Call(t, op)
      PROVE  Tidy' /\ aborted' = aborted
  <2>1. PICK p \in live, n \in Sizes :
                             /\ op = "realloc" => p.index = MMAPPED_ARENA_INDEX
                             /\ live' = live \ {p}
                             /\ th' = [th EXCEPT ![t] = [Idle EXCEPT !.at = "find", !.op = op,
                                                                     !.old = p, !.size = n]]
    BY <1>2 DEF Call
  <2>2. /\ th'[t].at = "find" /\ th'[t].op = op
        /\ th'[t].old = p /\ th'[t].new = NoChunk
        /\ \A u \in Threads \ {t} : th'[u] = th[u]
    BY <2>1 DEF ThInv, Idle
  <2>3. PointOK(th'[t])
    BY <2>1, <2>2 DEF PointOK
  <2>4. Mine(th'[t]) \subseteq {p} /\ (th'[t].old \in Mine(th'[t]) => th'[t].old # NoChunk)
    BY <2>2 DEF Mine
  <2> QED BY <1>2, <2>1, <2>2, <2>3, <2>4, PaperStep DEF Call
<1>3. ASSUME NEW pt \in Plain, After(t, pt, th[t].new, th[t].old), PointOK(th'[t]),
             UNCHANGED <<mem, tables, live>>, th[t].at \in Plain
      PROVE  Tidy'
  BY <1>3, PaperMove DEF After
<1>4. CASE FindMmap(t)
  <2>1. Sound(th[t].old) /\ th[t].old \in RealChunks
    BY <1>4, OldSound DEF FindMmap, Freeing
  <2>2. PICK pt : /\ pt = IF mmap_tbl[Address(th[t].old)] # 0 THEN "mmapped" ELSE "findheap"
                  /\ After(t, pt, th[t].new, th[t].old)
    BY <1>4, LocalsAfter DEF FindMmap
  <2>3. pt = "mmapped" <=> th[t].old.index = MMAPPED_ARENA_INDEX
    BY <2>1, <2>2, EntryTells
  <2> QED BY <1>1, <1>3, <1>4, <2>2, <2>3 DEF FindMmap, PointOK, After
<1>5. CASE FindHeap(t)
  <2> DEFINE a == heap_tbl[th[t].old.slot]
  <2>1. Sound(th[t].old) /\ th[t].old.index # MMAPPED_ARENA_INDEX
    BY <1>1, <1>5, OldSound DEF FindHeap, Freeing, PointOK
  <2>2. a = th[t].old.index /\ a # 0
    BY <2>1 DEF Sound, MMAPPED_ARENA_INDEX
  <2>3. /\ th' = [th EXCEPT ![t].at = "heap", ![t].arena = a]
        /\ UNCHANGED <<mem, tables, live, aborted>> /\ th[t].at = "findheap"
    BY <1>5, <2>2 DEF FindHeap
  <2> HIDE DEF a
  <2>4. /\ th'[t].at = "heap" /\ th'[t].op = th[t].op /\ th'[t].arena = a
        /\ th'[t].old = th[t].old /\ th'[t].new = th[t].new
        /\ \A u \in Threads \ {t} : th'[u] = th[u]
    BY <1>1, <2>3 DEF ThInv, Locals
  <2>5. PointOK(th'[t])
    BY <1>1, <2>2, <2>3, <2>4 DEF PointOK
  <2> QED BY <2>3, <2>4, <2>5, PaperMove
<1>6. ASSUME th[t].at = "mmapped"
      PROVE  ~Missing(t) /\ Recorded(t) = th[t].old
  <2>1. Sound(th[t].old) /\ th[t].old.index = MMAPPED_ARENA_INDEX /\ th[t].old \in RealChunks
    BY <1>1, <1>6, OldSound DEF Freeing, PointOK
  <2> QED BY <2>1 DEF Sound, Missing, Recorded, RealChunks
<1>7. CASE FreeMmapped(t)
  <2>1. /\ th' = [th EXCEPT ![t].at = "delete", ![t].old = th[t].old]
        /\ UNCHANGED <<mem, tables, live, aborted>> /\ th[t].at = "mmapped"
    BY <1>6, <1>7 DEF FreeMmapped
  <2>2. After(t, "delete", th[t].new, th[t].old)
    BY <1>1, <2>1 DEF After, ThInv, Locals
  <2>3. PointOK(th'[t])
    BY <1>1, <2>1, <2>2 DEF PointOK, After
  <2> QED BY <1>3, <2>1, <2>2, <2>3
<1>8. CASE ReallocMmapped(t)
  <2>1. /\ UNCHANGED <<mem, tables, aborted>> /\ th[t].at = "mmapped" /\ th[t].op = "realloc"
        /\ \/ Finish(t) /\ live' = live \union {th[t].old}
           \/ UNCHANGED live /\ \E a \in Arenas :
                 th' = [th EXCEPT ![t].at = "lock", ![t].arena = a, ![t].old = th[t].old]
    BY <1>6, <1>8 DEF ReallocMmapped
  <2>2. CASE Finish(t) /\ live' = live \union {th[t].old}
    <3>1. th'[t] = Idle /\ \A u \in Threads \ {t} : th'[u] = th[u]
      BY <2>2, LocalsAfter
    <3>2. /\ PointOK(th'[t]) /\ th'[t].at = "idle"
          /\ th'[t].old = NoChunk /\ th'[t].new = NoChunk
      BY <3>1 DEF PointOK, Idle
    <3>3. th[t].old \in Mine(th[t])
      BY <2>1, OldSound DEF Freeing
    <3>4. Mine(th'[t]) = {} /\ live' \subseteq live \union Mine(th[t])
      BY <2>2, <3>2, <3>3 DEF Mine
    <3> QED BY <2>1, <3>1, <3>2, <3>4, PaperStep
  <2>3. ASSUME NEW a \in Arenas,
               th' = [th EXCEPT ![t].at = "lock", ![t].arena = a, ![t].old = th[t].old],
               UNCHANGED live
        PROVE  Tidy'
    <3>1. /\ th'[t].at = "lock" /\ th'[t].op = th[t].op
          /\ th'[t].old = th[t].old /\ th'[t].new = th[t].new
          /\ \A u \in Threads \ {t} : th'[u] = th[u]
      BY <1>1, <2>3 DEF ThInv, Locals
    <3>2. PointOK(th'[t])
      BY <1>1, <2>1, <3>1 DEF PointOK
    <3> QED BY <2>1, <2>3, <3>1, <3>2, PaperMove
  <2> QED BY <2>1, <2>2, <2>3
<1> QED BY <1>2, <1>4, <1>5, <1>7, <1>8

(***************************************************************************)
(* Heaps                                                                   *)
(***************************************************************************)
\* An arena hands out a chunk of its heap that nobody has.
LEMMA MallocHeapTidy ==
    ASSUME ThInv, MemInv, MemInv', Tidy, NEW t \in Threads, MallocHeap(t)
    PROVE  Tidy'
<1>1. PICK s \in Slots, o \in 1 .. HeapChunks :
          /\ heap_tbl[s] = th[t].arena /\ mem[s] = "heap" /\ o \notin used[s]
          /\ used' = [used EXCEPT ![s] = @ \union {o}]
          /\ Goes(t, "got", [slot |-> s, off |-> o, size |-> 1, index |-> th[t].arena])
  BY DEF MallocHeap, HeapsOf
<1>2. PICK c : c = [slot |-> s, off |-> o, size |-> 1, index |-> th[t].arena]
  OBVIOUS
<1>3. /\ After(t, "got", c, th[t].old) /\ th[t].at = "malloc"
      /\ UNCHANGED <<mem, mmap_tbl, heap_tbl, records, n_mmaps, live>>
  BY <1>1, <1>2, LocalsAfter DEF MallocHeap, At
<1>4. c.index # MMAPPED_ARENA_INDEX
  BY <1>2, LocalsKnown, RegionsAssumption DEF Known, MMAPPED_ARENA_INDEX
<1>5. c \notin Held
  BY <1>1, <1>2, <1>4 DEF Tidy, AllSound, Sound
<1>6. Mine(th[t]) = {th[t].old, th[t].new} \ {NoChunk} /\ Mine(th'[t]) = {th[t].old, c} \ {NoChunk}
  BY <1>3 DEF Mine, After, Gone
<1>7. Mine(th[t]) \subseteq Held /\ live \subseteq Held
  BY HeldIs
<1>8. OneOwner' /\ Held' \subseteq Held \union {c}
  <2>1. Mine(th'[t]) \intersect live' = {} /\ (th'[t].old \in Mine(th'[t]) => th'[t].old # th'[t].new)
    BY <1>3, <1>5, <1>6, <1>7 DEF After, Tidy, OneOwner
  <2>2. /\ {c} \intersect Held = {}
        /\ Mine(th'[t]) \union live' \subseteq Mine(th[t]) \union live \union {c}
    BY <1>3, <1>5, <1>6
  <2> QED BY <1>3, <2>1, <2>2, OwnersKept DEF After, Tidy
<1>9. AllSound'
  <2>1. \A x \in Slots : used[x] \subseteq used'[x]
    BY <1>1 DEF MemInv
  <2>2. Sound(c)'
    BY <1>1, <1>2, <1>3, <1>4 DEF Sound, MemInv
  <2>3. ASSUME NEW d \in Held PROVE Sound(d)'
    BY <1>3, <2>1, HeldReal DEF Tidy, AllSound, Sound, RealChunks
  <2> QED BY <1>8, <2>2, <2>3 DEF AllSound
<1>10. PointsOK'
  BY <1>3 DEF After, Tidy, PointsOK, PointOK
<1>11. EntriesOK' /\ Counted'
  BY <1>3 DEF Tidy, EntriesOK, Counted, Entries, Extent
<1>12. UnmapsOK' /\ HeapsOK'
  <2>1. \A u \in Threads :
            (\/ th[u].at \in {"munmap", "unregister", "addheap", "forget"}
             \/ th'[u].at \in {"munmap", "unregister", "addheap", "forget"})
                => th'[u] = th[u]
    BY <1>3 DEF After
  <2> QED BY <1>3, <2>1, UnmapsKept, HeapsKept DEF Tidy
<1> QED BY <1>8, <1>9, <1>10, <1>11, <1>12 DEF Tidy

\* A new heap is memory that nobody has and that has no entry (new_heap).
LEMMA NewHeapTidy ==
    ASSUME ThInv, MemInv, MemInv', Tidy, NEW t \in Threads, NewHeap(t), ~reused'
    PROVE  Tidy'
<1>1. PICK s \in Slots :
          /\ mem[s] = "free" /\ mem' = [mem EXCEPT ![s] = "heap"]
          /\ s \notin ForgottenHeaps
          /\ Goes(t, "addheap", [slot |-> s, off |-> 1, size |-> 1, index |-> th[t].arena])
  BY DEF NewHeap, FreeSlots, Map, MemInv
<1>2. PICK c : c = [slot |-> s, off |-> 1, size |-> 1, index |-> th[t].arena]
  OBVIOUS
<1>3. /\ After(t, "addheap", c, th[t].old) /\ th[t].at = "malloc"
      /\ UNCHANGED <<mmap_tbl, heap_tbl, records, n_mmaps, used, live>>
  BY <1>1, <1>2, LocalsAfter DEF NewHeap, At, tables
<1>4. c.index # MMAPPED_ARENA_INDEX /\ c.slot = s /\ c.size = 1
  BY <1>2, LocalsKnown, RegionsAssumption DEF Known, MMAPPED_ARENA_INDEX
<1>5. Mine(th[t]) = {th[t].old, th[t].new} \ {NoChunk} /\ Mine(th'[t]) = {th[t].old} \ {NoChunk}
  BY <1>3 DEF Mine, After, Gone
<1>6. OneOwner' /\ Held' \subseteq Held
  <2>1. c \notin Held
    BY <1>1, <1>4 DEF Tidy, AllSound, Sound
  <2>2. Mine(th[t]) \subseteq Held
    BY HeldIs
  <2>3. Mine(th'[t]) \intersect live' = {} /\ (th'[t].old \in Mine(th'[t]) => th'[t].old # th'[t].new)
    BY <1>3, <1>5, <2>1, <2>2 DEF After, Tidy, OneOwner
  <2> QED BY <1>3, <1>5, <2>3, OwnersKept, {} \intersect Held = {} DEF After, Tidy
<1>7. \A x \in Slots : x # s => mem'[x] = mem[x]
  BY <1>1 DEF MemInv
<1>8. AllSound'
  BY <1>1, <1>3, <1>6, <1>7, HeldReal DEF Tidy, AllSound, Sound, RealChunks
<1>9. PointsOK'
  BY <1>3, <1>4 DEF After, Tidy, PointsOK, PointOK
<1>10. EntriesOK' /\ Counted'
  BY <1>1, <1>3, <1>7 DEF Tidy, EntriesOK, Counted, Entries, Extent
<1>11. UnmapsOK'
  <2>1. \A u \in Threads : th[u].at \in {"munmap", "unregister"} \/ th'[u].at \in {"munmap", "unregister"}
            => th'[u] = th[u]
    BY <1>3 DEF After
  <2>2. \A x \in Slots : mem[x] = "mmap" => mem'[x] = "mmap"
    BY <1>1, <1>7
  <2> QED BY <1>3, <2>1, <2>2, UnmapsKept DEF Tidy
<1>12. HeapsOK'
  <2>1. heap_tbl[s] = 0
    BY <1>1 DEF Tidy, HeapsOK, ForgottenHeaps
  <2>2. \A x \in Slots : heap_tbl'[x] # 0 =>
            mem'[x] = "heap" \/ \E u \in Threads : At(u, "forget")' /\ th'[u].old.slot = x
    BY <1>3, <1>7, <2>1 DEF After, Tidy, HeapsOK, At
  <2>3. \A u \in Threads \ {t} : th[u].at = "addheap" =>
            th[u].new.slot # s /\ mem'[th[u].new.slot] = "heap"
    <3>1. \A u \in Threads : th[u].at = "addheap" => th[u].new.slot \in Slots
      BY DEF ThInv, Good, RealChunks
    <3> QED BY <1>1, <1>7, <3>1 DEF Tidy, HeapsOK, At
  <2>4. \A u \in Threads \ {t} : th[u].at = "forget" =>
            th[u].old.slot # s /\ mem'[th[u].old.slot] # "heap"
    <3>1. \A u \in Threads : th[u].at = "forget" => th[u].old.slot \in Slots
      BY LocalsKnown DEF Known, Freeing
    <3> QED BY <1>1, <1>7, <3>1 DEF Tidy, HeapsOK, At, ForgottenHeaps
  <2>5. mem'[s] = "heap"
    BY <1>1 DEF MemInv
  <2> QED BY <1>3, <1>4, <2>1, <2>2, <2>3, <2>4, <2>5 DEF After, Tidy, HeapsOK, At
<1> QED BY <1>6, <1>8, <1>9, <1>10, <1>11, <1>12 DEF Tidy

\* The new heap goes into the lookup table and gives its first chunk (sysmalloc).
LEMMA AddHeapTidy ==
    ASSUME ThInv, MemInv, MemInv', Tidy, NEW t \in Threads, AddHeap(t)
    PROVE  Tidy'
<1>1. PICK c : c = th[t].new
  OBVIOUS
<1>2. /\ After(t, "got", c, th[t].old) /\ th[t].at = "addheap"
      /\ heap_tbl' = [heap_tbl EXCEPT ![c.slot] = c.index]
      /\ used' = [used EXCEPT ![c.slot] = {c.off}]
      /\ UNCHANGED <<mem, mmap_tbl, records, n_mmaps, live>>
  BY <1>1, LocalsAfter DEF AddHeap, At
<1>3. c \in RealChunks /\ c.slot \in Slots /\ c.off = 1
  BY <1>1, <1>2 DEF ThInv, Good, RealChunks
<1>4. c.index # MMAPPED_ARENA_INDEX /\ heap_tbl[c.slot] = 0 /\ mem[c.slot] = "heap"
  BY <1>1, <1>2 DEF Tidy, PointsOK, PointOK, HeapsOK, At
<1>5. \A d \in Held : d.index # MMAPPED_ARENA_INDEX => d.slot # c.slot
  BY <1>4 DEF Tidy, AllSound, Sound, MMAPPED_ARENA_INDEX
<1>6. c \notin Held
  BY <1>4, <1>5
<1>7. Mine(th[t]) = {th[t].old} \ {NoChunk} /\ Mine(th'[t]) = {th[t].old, c} \ {NoChunk}
  BY <1>2 DEF Mine, After, Gone
<1>8. OneOwner' /\ Held' \subseteq Held \union {c}
  <2>1. Mine(th[t]) \subseteq Held /\ live \subseteq Held
    BY HeldIs
  <2>2. Mine(th'[t]) \intersect live' = {} /\ (th'[t].old \in Mine(th'[t]) => th'[t].old # th'[t].new)
    BY <1>2, <1>6, <1>7, <2>1 DEF After, Tidy, OneOwner
  <2>3. /\ {c} \intersect Held = {}
        /\ Mine(th'[t]) \union live' \subseteq Mine(th[t]) \union live \union {c}
    BY <1>2, <1>6, <1>7
  <2> QED BY <1>2, <2>2, <2>3, OwnersKept DEF After, Tidy
<1>9. \A x \in Slots : x # c.slot => heap_tbl'[x] = heap_tbl[x] /\ used'[x] = used[x]
  BY <1>2 DEF MemInv
<1>10. heap_tbl'[c.slot] = c.index /\ used'[c.slot] = {1}
  BY <1>2, <1>3 DEF MemInv
<1>11. AllSound'
  <2>1. c.size = 1
    BY <1>1, <1>2 DEF Tidy, PointsOK, PointOK
  <2>2. Sound(c)'
    BY <1>2, <1>3, <1>4, <1>10, <2>1 DEF Sound
  <2>3. ASSUME NEW d \in Held PROVE Sound(d)'
    BY <1>2, <1>5, <1>9, HeldReal DEF Tidy, AllSound, Sound, RealChunks
  <2> QED BY <1>8, <2>2, <2>3 DEF AllSound
<1>12. PointsOK'
  BY <1>2 DEF After, Tidy, PointsOK, PointOK
<1>13. EntriesOK' /\ Counted' /\ UnmapsOK'
  <2>1. EntriesOK' /\ Counted'
    BY <1>2 DEF Tidy, EntriesOK, Counted, Entries, Extent
  <2>2. \A u \in Threads : th[u].at \in {"munmap", "unregister"} \/ th'[u].at \in {"munmap", "unregister"}
            => th'[u] = th[u]
    BY <1>2 DEF After
  <2>3. UnmapsOK'
    BY <1>2, <2>2, UnmapsKept DEF Tidy
  <2> QED BY <2>1, <2>3
<1>14. HeapsOK'
  <2>1. \A x \in Slots : heap_tbl'[x] # 0 =>
            mem'[x] = "heap" \/ \E u \in Threads : At(u, "forget")' /\ th'[u].old.slot = x
    BY <1>2, <1>4, <1>9 DEF After, Tidy, HeapsOK, At
  <2>2. \A u \in Threads \ {t} : th[u].at = "addheap" =>
            th[u].new.slot \in Slots /\ th[u].new.slot # c.slot
    BY <1>1, <1>2 DEF ThInv, Good, RealChunks, Tidy, HeapsOK, At
  <2>3. \A u \in Threads \ {t} : th[u].at = "forget" =>
            th[u].old.slot \in Slots /\ th[u].old.slot # c.slot
    BY <1>4, LocalsKnown, RegionsAssumption DEF Known, Freeing, Tidy, HeapsOK, At
  <2> QED BY <1>2, <1>9, <2>1, <2>2, <2>3 DEF After, Tidy, HeapsOK, At
<1> QED BY <1>8, <1>11, <1>12, <1>13, <1>14 DEF Tidy

\* What _int_free gives back leaves its heap; a heap with nothing else in it goes back to
\* the system (heap_trim), and only then out of the table.
LEMMA FreeHeapTidy ==
    ASSUME ThInv, MemInv, MemInv', Tidy, NEW t \in Threads, FreeHeap(t)
    PROVE  Tidy'
<1>1. PICK c : c = th[t].old
  OBVIOUS
<1>2. /\ th[t].at = "heap"
      /\ used' = [used EXCEPT ![c.slot] = @ \ {c.off}]
      /\ UNCHANGED <<mmap_tbl, heap_tbl, records, n_mmaps, live>>
      /\ \/ Finish(t) /\ UNCHANGED mem
         \/ Emptied(t) /\ Map({c.slot}, "free") /\ GoTo(t, "forget")
  BY <1>1 DEF FreeHeap, At
<1>3. c \in Mine(th[t]) /\ c \in Held /\ c \in RealChunks /\ Sound(c) /\ c.slot \in Slots
  BY <1>1, <1>2, OldSound DEF Freeing, Gone, RealChunks
<1>4. c.index # MMAPPED_ARENA_INDEX /\ c.index = th[t].arena
  BY <1>1, <1>2 DEF Tidy, PointsOK, PointOK
<1>5. heap_tbl[c.slot] = c.index /\ mem[c.slot] = "heap" /\ c.off \in used[c.slot] /\ c.size = 1
  BY <1>3, <1>4 DEF Sound
<1>6. /\ \A u \in Threads \ {t} : th'[u] = th[u]
      /\ \/ th'[t].at = "idle" /\ th'[t].old = NoChunk /\ th'[t].new = NoChunk
         \/ th'[t].at = "forget" /\ th'[t].old = c /\ th'[t].new = th[t].new
      /\ PointOK(th'[t])
  <2>1. CASE Finish(t)
    BY <2>1, LocalsAfter DEF Idle, PointOK
  <2>2. CASE GoTo(t, "forget")
    <3>1. After(t, "forget", th[t].new, c)
      BY <1>1, <2>2, LocalsAfter
    <3> QED BY <1>1, <1>2, <3>1 DEF After, Tidy, PointsOK, PointOK
  <2> QED BY <1>2, <2>1, <2>2
<1>7. Mine(th'[t]) \subseteq Mine(th[t]) \ {c}
  <2>1. Mine(th[t]) = {c, th[t].new} \ {NoChunk}
    BY <1>1, <1>2 DEF Mine, Gone
  <2>2. Mine(th'[t]) \subseteq {th[t].new} \ {NoChunk}
    BY <1>6 DEF Mine, Gone
  <2> QED BY <1>1, <1>3, <2>1, <2>2 DEF Tidy, OneOwner
<1>8. OneOwner' /\ Held' \subseteq Held
  <2>1. /\ Mine(th'[t]) \union live' \subseteq Mine(th[t]) \union live
        /\ Mine(th'[t]) \intersect live' = {}
    BY <1>2, <1>7 DEF Tidy, OneOwner
  <2>2. th'[t].old \notin Mine(th'[t])
    BY <1>6, <1>7 DEF Mine
  <2> QED BY <1>6, <2>1, <2>2, OwnersKept, {} \intersect Held = {} DEF Tidy
<1>9. c \notin Held'
  <2>1. c \notin live'
    BY <1>2, <1>3 DEF Tidy, OneOwner
  <2> QED BY <1>3, <1>6, <1>7, <2>1, OwnerLost DEF Tidy
<1>10. \A d \in Held' : d.index # MMAPPED_ARENA_INDEX /\ d.slot = c.slot => d.off # c.off
  <2> SUFFICES ASSUME NEW d \in Held', d.index # MMAPPED_ARENA_INDEX, d.slot = c.slot,
                      d.off = c.off
               PROVE  FALSE
    OBVIOUS
  <2>1. d \in Held /\ d \in RealChunks /\ Sound(d)
    BY <1>8, HeldReal DEF Tidy, AllSound
  <2>2. d.index = c.index /\ d.size = c.size
    BY <1>5, <2>1 DEF Sound
  <2> QED BY <1>3, <1>9, <2>1, <2>2 DEF RealChunks
<1>11. mem' = mem \/ (Emptied(t) /\ mem' = [mem EXCEPT ![c.slot] = "free"] /\ th'[t].at = "forget")
  BY <1>2, LocalsAfter DEF Map, MemInv, After
<1>12. \A x \in Slots : x # c.slot => mem'[x] = mem[x] /\ used'[x] = used[x]
  BY <1>2, <1>11 DEF MemInv
<1>13. used'[c.slot] = used[c.slot] \ {c.off}
  BY <1>2, <1>3 DEF MemInv
<1>14. AllSound'
  <2> SUFFICES ASSUME NEW d \in Held' PROVE Sound(d)'
    BY DEF AllSound
  <2>1. d \in Held /\ d \in RealChunks /\ Sound(d) /\ d.slot \in Slots
    BY <1>8, HeldReal DEF Tidy, AllSound, RealChunks
  <2>2. CASE d.index = MMAPPED_ARENA_INDEX \/ d.slot # c.slot
    BY <1>2, <1>12, <2>1, <2>2 DEF Sound
  <2>3. CASE d.index # MMAPPED_ARENA_INDEX /\ d.slot = c.slot
    <3>1. d.off \in used[c.slot] /\ d.off # c.off
      BY <1>10, <2>1, <2>3 DEF Sound
    <3>2. mem' = mem
      BY <1>1, <1>11, <3>1 DEF Emptied
    <3> QED BY <1>2, <1>13, <2>1, <2>3, <3>1, <3>2 DEF Sound
  <2> QED BY <2>2, <2>3
<1>15. PointsOK'
  BY <1>6 DEF Tidy, PointsOK
<1>16. EntriesOK' /\ Counted'
  BY <1>2, <1>5, <1>12 DEF Tidy, EntriesOK, Counted, Entries, Extent
<1>17. UnmapsOK'
  <2>1. \A u \in Threads : th[u].at \in {"munmap", "unregister"} \/ th'[u].at \in {"munmap", "unregister"}
            => th'[u] = th[u]
    BY <1>2, <1>6
  <2>2. \A x \in Slots : mem[x] = "mmap" => mem'[x] = "mmap"
    BY <1>5, <1>12
  <2> QED BY <1>2, <2>1, <2>2, UnmapsKept DEF Tidy
<1>18. HeapsOK'
  <2>1. \A x \in Slots : heap_tbl'[x] # 0 =>
            mem'[x] = "heap" \/ \E u \in Threads : At(u, "forget")' /\ th'[u].old.slot = x
    <3>1. \A x \in Slots : x # c.slot /\ heap_tbl'[x] # 0 =>
              mem'[x] = "heap" \/ \E u \in Threads : At(u, "forget")' /\ th'[u].old.slot = x
      BY <1>2, <1>6, <1>12 DEF Tidy, HeapsOK, At
    <3>2. mem'[c.slot] = "heap" \/ (At(t, "forget")' /\ th'[t].old.slot = c.slot)
      BY <1>5, <1>6, <1>11 DEF At
    <3> QED BY <3>1, <3>2
  <2>2. \A u \in Threads \ {t} : th[u].at = "addheap" =>
            th[u].new.slot \in Slots /\ th[u].new.slot # c.slot
    BY <1>4, <1>5 DEF ThInv, Good, RealChunks, Tidy, HeapsOK, At, MMAPPED_ARENA_INDEX
  <2>3. \A u \in Threads \ {t} : th[u].at = "forget" =>
            th[u].old.slot \in Slots /\ th[u].old.slot # c.slot
    BY <1>5, LocalsKnown DEF Known, Freeing, Tidy, HeapsOK, At
  <2>4. th'[t].at = "forget" => heap_tbl'[c.slot] = th'[t].arena /\ mem'[c.slot] # "heap"
    <3>1. th'[t].at = "forget" => th'[t].arena = th[t].arena /\ Map({c.slot}, "free")
      BY <1>2, LocalsAfter DEF After, Idle
    <3> QED BY <1>2, <1>3, <1>4, <1>5, <3>1 DEF Map
  <2> QED BY <1>2, <1>6, <1>12, <2>1, <2>2, <2>3, <2>4 DEF Tidy, HeapsOK, At
<1> QED BY <1>8, <1>14, <1>15, <1>16, <1>17, <1>18 DEF Tidy

\* The thread that unmapped a heap finds its entry and removes it; no other thread can be
\* there, since the arena's mutex is held (heap_trim).
LEMMA ForgetHeapTidy ==
    ASSUME Inv, MemInv', Tidy, NEW t \in Threads, ForgetHeap(t)
    PROVE  Tidy' /\ aborted' = aborted
<1>1. PICK s : s = th[t].old.slot
  OBVIOUS
<1>2. th[t].at = "forget" /\ s \in Slots /\ th[t].arena \in Arenas
  BY <1>1, LocalsKnown DEF ForgetHeap, At, Known, Freeing, Inv
<1>3. heap_tbl[s] = th[t].arena /\ mem[s] # "heap" /\ heap_tbl[s] # 0
  BY <1>1, <1>2, RegionsAssumption DEF Tidy, HeapsOK, At
<1>4. /\ heap_tbl' = [heap_tbl EXCEPT ![s] = 0] /\ Finish(t)
      /\ UNCHANGED <<mem, mmap_tbl, records, n_mmaps, used, live, aborted>>
  BY <1>1, <1>3 DEF ForgetHeap
<1>5. /\ \A u \in Threads \ {t} : th'[u] = th[u]
      /\ th'[t].at = "idle" /\ th'[t].old = NoChunk /\ th'[t].new = NoChunk
      /\ PointOK(th'[t])
  BY <1>4, LocalsAfter DEF Idle, PointOK, Inv
<1>6. Mine(th'[t]) = {}
  BY <1>5 DEF Mine
<1>7. OneOwner' /\ Held' \subseteq Held
  BY <1>4, <1>5, <1>6, OwnersKept, {} \intersect Held = {} DEF Tidy, Inv
<1>8. \A x \in Slots : heap_tbl'[x] = IF x = s THEN 0 ELSE heap_tbl[x]
  BY <1>4 DEF Inv, MemInv
<1>9. AllSound'
  BY <1>3, <1>4, <1>7, <1>8, HeldReal DEF Tidy, AllSound, Sound, RealChunks, Inv
<1>10. PointsOK'
  BY <1>5 DEF Tidy, PointsOK
<1>11. EntriesOK' /\ Counted'
  BY <1>4 DEF Tidy, EntriesOK, Counted, Entries, Extent
<1>12. UnmapsOK'
  <2>1. \A u \in Threads : th[u].at \in {"munmap", "unregister"} \/ th'[u].at \in {"munmap", "unregister"}
            => th'[u] = th[u]
    BY <1>2, <1>5
  <2> QED BY <1>4, <2>1, UnmapsKept DEF Tidy
<1>13. HeapsOK'
  <2>1. \A x \in Slots : heap_tbl'[x] # 0 =>
            mem'[x] = "heap" \/ \E u \in Threads : At(u, "forget")' /\ th'[u].old.slot = x
    BY <1>1, <1>4, <1>5, <1>8 DEF Tidy, HeapsOK, At
  <2>2. \A u \in Threads \ {t} : th[u].at = "addheap" => th[u].new.slot \in Slots
    BY DEF Inv, ThInv, Good, RealChunks
  <2>3. \A u \in Threads \ {t} : th[u].at = "forget" =>
            th[u].old.slot \in Slots /\ th[u].old.slot # s
    <3> SUFFICES ASSUME NEW u \in Threads \ {t}, th[u].at = "forget"
                 PROVE  th[u].old.slot \in Slots /\ th[u].old.slot # s
      OBVIOUS
    <3>1. th[u].old.slot \in Slots /\ heap_tbl[th[u].old.slot] = th[u].arena
      BY LocalsKnown DEF Known, Freeing, Tidy, HeapsOK, At, Inv
    <3>2. ASSUME th[u].old.slot = s PROVE FALSE
      <4>1. Owns(th[u], th[t].arena) /\ Owns(th[t], th[t].arena)
        BY <1>2, <1>3, <3>1, <3>2 DEF Owns
      <4> QED BY <1>2, <4>1 DEF Inv, LockInv
    <3> QED BY <3>1, <3>2
  <2> QED BY <1>4, <1>5, <1>8, <2>1, <2>2, <2>3 DEF Tidy, HeapsOK, At
<1> QED BY <1>4, <1>7, <1>9, <1>10, <1>11, <1>12, <1>13 DEF Tidy

(***************************************************************************)
(* Mappings                                                                *)
(***************************************************************************)
\* The table of mmapped chunks is finite.
LEMMA EntriesFinite == IsFiniteSet(Entries)
<1>1. IsFiniteSet(Slots)
  BY FS_Interval, RegionsAssumption DEF Slots
<1>2. IsFiniteSet(0 .. HeapChunks + 1)
  BY FS_Interval, RegionsAssumption
<1>3. IsFiniteSet(Addresses)
  BY <1>1, <1>2, FS_Product DEF Addresses
<1> QED BY <1>3, FS_Subset DEF Entries

\* An entry names its own first slot, which is mapped.
LEMMA EntryMapped ==
    ASSUME MemInv, Tidy, NEW a \in Entries
    PROVE  /\ a[1] \in Extent(a) /\ a[1] \in Slots /\ mem[a[1]] = "mmap"
           /\ mmap_tbl[a] \in Lengths
<1>1. mmap_tbl[a] \in Lengths /\ a[1] \in Slots
  BY DEF MemInv, Entries, Addresses
<1>2. a[1] \in Extent(a)
  BY <1>1 DEF Extent, Lengths, Slots
<1> QED BY <1>1, <1>2 DEF Tidy, EntriesOK

\* A mapping is made of memory that nobody has and that has no entry, although the main
\* arena's mutex alone is held, and it is entered at once (sysmalloc).
LEMMA MmapTidy ==
    ASSUME Inv, MemInv', Tidy, NEW t \in Threads, MmapMain(t) \/ MmapOther(t), ~reused'
    PROVE  Tidy' /\ aborted' = aborted
<1> USE DEF Inv
<1>1. PICK s \in Slots, n \in Lengths : <<s, 0>> \in Addresses /\ Maps(t, "relock", s, n)
  BY MmapIs DEF MmapMain, MmapOther
<1>2. PICK c : c = Mapping(s, n)
  OBVIOUS
<1>3. PICK b : b = <<s, 0>>
  OBVIOUS
<1>4. PICK B : B = s .. s + n - 1
  OBVIOUS
<1>5. /\ c.slot = s /\ c.size = n /\ c.index = MMAPPED_ARENA_INDEX /\ Address(c) = b
      /\ c \in RealChunks /\ b \in Addresses /\ b[1] = s
  BY <1>1, <1>2, <1>3 DEF Mapping, Address, Maps
<1>6. B \subseteq Slots /\ s \in B
  BY <1>1, <1>4 DEF Maps, Lengths, Slots
<1>7. /\ \A x \in B : mem[x] = "free" /\ mem'[x] = "mmap"
      /\ \A x \in Slots \ B : mem'[x] = mem[x]
  BY <1>1, <1>4, <1>6 DEF Maps, FreeSlots, Map
<1>8. /\ \A a \in Addresses : mmap_tbl'[a] = IF a = b THEN n ELSE mmap_tbl[a]
      /\ \A a \in Addresses \ {b} : records'[a] = records[a]
  BY <1>1, <1>3, <1>5 DEF Maps, MemInv
<1>9. records'[b] # <<>> /\ Head(records'[b]) = n
  <2>1. records[b] \in Seq(Lengths) /\ records'[b] = <<n>> \o records[b]
    BY <1>1, <1>3, <1>5 DEF Maps, MemInv
  <2> QED BY <1>1, <2>1
<1>10. /\ After(t, "relock", c, th[t].old) /\ th[t].at \in {"malloc", "main"}
       /\ s \notin ForgottenChunks /\ n_mmaps' = n_mmaps + 1
       /\ UNCHANGED <<heap_tbl, used, live, aborted>>
  BY <1>1, <1>2, LocalsAfter DEF Maps, MmapMain, MmapOther, At
<1>11. b \notin Entries
  BY <1>5, <1>6, <1>7, EntryMapped
<1>12. c \notin Held
  <2>1. c \in Held => Sound(c) /\ c.size # 0
    BY <1>1, <1>5 DEF Tidy, AllSound, Lengths
  <2> QED BY <1>5, <1>11, <2>1 DEF Sound, Entries
<1>13. OneOwner' /\ Held' \subseteq Held \union {c}
  <2>1. Mine(th[t]) = {th[t].old, th[t].new} \ {NoChunk} /\ Mine(th'[t]) = {th[t].old, c} \ {NoChunk}
    BY <1>10 DEF Mine, After, Gone
  <2>2. Mine(th[t]) \subseteq Held /\ live \subseteq Held
    BY HeldIs
  <2>3. Mine(th'[t]) \intersect live' = {} /\ (th'[t].old \in Mine(th'[t]) => th'[t].old # th'[t].new)
    BY <1>10, <1>12, <2>1, <2>2 DEF After, Tidy, OneOwner
  <2>4. /\ {c} \intersect Held = {}
        /\ Mine(th'[t]) \union live' \subseteq Mine(th[t]) \union live \union {c}
    BY <1>10, <1>12, <2>1
  <2> QED BY <1>10, <2>3, <2>4, OwnersKept DEF After, Tidy
<1>14. AllSound'
  <2>1. Sound(c)'
    BY <1>5, <1>8, <1>9 DEF Sound
  <2>2. ASSUME NEW d \in Held PROVE Sound(d)'
    <3>1. d \in RealChunks /\ Sound(d) /\ d.slot \in Slots /\ Address(d) \in Addresses
      BY HeldReal, EntryTells DEF Tidy, AllSound, RealChunks
    <3>2. CASE d.index = MMAPPED_ARENA_INDEX
      <4>1. Address(d) # b
        BY <1>11, <3>1, <3>2, EntryTells DEF Entries
      <4> QED BY <1>8, <3>1, <3>2, <4>1 DEF Sound
    <3>3. CASE d.index # MMAPPED_ARENA_INDEX
      BY <1>7, <1>10, <3>1, <3>3 DEF Sound
    <3> QED BY <3>2, <3>3
  <2> QED BY <1>13, <2>1, <2>2 DEF AllSound
<1>15. PointsOK'
  BY <1>10 DEF After, Tidy, PointsOK, PointOK
<1>16. /\ Entries' = Entries \union {b}
       /\ Extent(b)' = B /\ \A a \in Entries : Extent(a)' = Extent(a)
  <2>1. n # 0
    BY <1>1 DEF Lengths
  <2>2. Entries' = Entries \union {b}
    BY <1>5, <1>8, <2>1 DEF Entries
  <2>3. Extent(b)' = B
    BY <1>4, <1>5, <1>8 DEF Extent
  <2>4. \A a \in Entries : Extent(a)' = Extent(a)
    BY <1>8, <1>11 DEF Extent, Entries
  <2> QED BY <2>2, <2>3, <2>4
<1>17. \A a \in Entries : \A x \in Extent(a) : x \in Slots /\ x \notin B /\ mem'[x] = "mmap"
  BY <1>7 DEF Tidy, EntriesOK
<1>18. EntriesOK'
  <2>1. \A a \in Entries' : \A x \in Extent(a)' : x \in Slots /\ mem'[x] = "mmap"
    BY <1>6, <1>7, <1>16, <1>17
  <2>2. \A a, d \in Entries' : a # d => Extent(a)' \intersect Extent(d)' = {}
    BY <1>16, <1>17 DEF Tidy, EntriesOK
  <2> QED BY <2>1, <2>2 DEF EntriesOK
<1>19. Counted'
  <2>1. Cardinality(Entries \union {b}) = Cardinality(Entries) + 1
    BY <1>11, EntriesFinite, FS_AddElement
  <2> QED BY <1>10, <1>16, <2>1 DEF Tidy, Counted
<1>20. ASSUME NEW u \in Threads, th[u].at = "unregister"
       PROVE  th[u].old.slot # s
  <2>1. th[u].op \in {"realloc", "free"}
    BY <1>20, LocalsKnown DEF Known, Freeing
  <2>2. ASSUME th[u].op = "free" PROVE FALSE
    <3>1. lock[main_arena] = u
      BY <1>20, <2>2, RegionsAssumption DEF LockInv, Owns
    <3>2. lock[main_arena] = t \/ lock[main_arena] = NoThread
      BY RegionsAssumption DEF MmapMain, MmapOther, LockInv, Owns, At
    <3> QED BY <1>10, <1>20, <3>1, <3>2, ThreadAssumption
  <2> QED BY <1>10, <1>20, <2>1, <2>2 DEF ForgottenChunks, At
<1>21. UnmapsOK'
  <2>1. \A u \in Threads : th[u].at \in {"munmap", "unregister"} \/ th'[u].at \in {"munmap", "unregister"}
            => th'[u] = th[u]
    BY <1>10 DEF After
  <2>2. ASSUME NEW u \in Threads, th[u].at = "munmap"
        PROVE  /\ \A x \in Block(th[u].old) : x \in Slots /\ mem'[x] = "mmap"
               /\ \A a \in Entries' : Extent(a)' \intersect Block(th[u].old) = {}
    <3>1. \A x \in Block(th[u].old) : x \in Slots /\ mem[x] = "mmap"
      BY <2>2 DEF Tidy, UnmapsOK, At
    <3>2. \A x \in Block(th[u].old) : x \notin B
      BY <1>7, <3>1
    <3> QED BY <1>7, <1>16, <2>2, <3>1, <3>2 DEF Tidy, UnmapsOK, At
  <2>3. ASSUME NEW u \in Threads, th[u].at = "unregister"
        PROVE  \A a \in Entries' : a[1] # th[u].old.slot
    BY <1>5, <1>16, <1>20, <2>3 DEF Tidy, UnmapsOK, At
  <2>4. \A u, v \in Threads : u # v /\ th[u].at = "munmap" /\ th[v].at = "munmap"
            => Block(th[u].old) \intersect Block(th[v].old) = {}
    BY DEF Tidy, UnmapsOK, At
  <2> QED BY <2>1, <2>2, <2>3, <2>4 DEF UnmapsOK, At
<1>22. HeapsOK'
  <2>1. \A x \in Slots : mem'[x] = "heap" <=> mem[x] = "heap"
    BY <1>7
  <2>2. \A u \in Threads : th[u].at \in {"addheap", "forget"} \/ th'[u].at \in {"addheap", "forget"}
            => th'[u] = th[u]
    BY <1>10 DEF After
  <2> QED BY <1>10, <2>1, <2>2, HeapsKept DEF Tidy
<1> QED BY <1>10, <1>13, <1>14, <1>15, <1>18, <1>19, <1>21, <1>22 DEF Tidy


\* An aligned chunk takes the place of the mapping it is aligned in: the entry moves to the
\* new address, and no entry is there yet (_int_memalign).
LEMMA AlignTidy ==
    ASSUME Inv, MemInv', Tidy, NEW t \in Threads, Align(t)
    PROVE  Tidy' /\ aborted' = aborted
<1> USE DEF Inv
<1>1. PICK p : p = th[t].new
  OBVIOUS
<1>2. PICK q : q = Aligned(p)
  OBVIOUS
<1>3. PICK a, b : a = Address(p) /\ b = Address(q)
  OBVIOUS
<1>4. /\ p \in RealChunks /\ q \in RealChunks /\ p.off = 0
      /\ a = <<p.slot, 0>> /\ b = <<p.slot, 1>> /\ a \in Addresses /\ b \in Addresses
      /\ p.size \in Lengths /\ p.slot \in Slots
  <2>1. p.off = 0
    BY <1>1 DEF Align, ToAlign, At, Tidy, PointsOK, PointOK
  <2> QED BY <1>1, <1>2, <1>3, <2>1, AlignIs
<1>5. q.slot = p.slot /\ q.size = p.size /\ q.index = p.index /\ q.off = 1 /\ a # b /\ p # q
  BY <1>2, <1>4 DEF Aligned, RealChunks
<1>6. /\ After(t, "relock", q, th[t].old) /\ th[t].at \in {"align", "got"}
      /\ records' = [records EXCEPT ![b] = <<p.size>> \o @, ![a] = Older(@)]
      /\ mmap_tbl' = [mmap_tbl EXCEPT ![b] = p.size, ![a] = 0]
      /\ UNCHANGED <<mem, heap_tbl, n_mmaps, used, live, aborted>>
  <2>1. Goes(t, "relock", q)
    BY <1>1, <1>2 DEF Align, Aligned
  <2> QED BY <1>1, <1>2, <1>3, <2>1, LocalsAfter DEF Align, Aligned, At
<1>7. NoChunk \notin RealChunks
  BY DEF RealChunks, NoChunk, Slots
<1>8. /\ Mine(th[t]) = {th[t].old, p} \ {NoChunk} /\ Mine(th'[t]) = {th[t].old, q} \ {NoChunk}
      /\ p \in Mine(th[t])
  BY <1>1, <1>4, <1>6, <1>7 DEF Mine, After, Gone
<1>9. p \in Held /\ Sound(p)
  BY <1>8, MineSound
<1>10. p.index = MMAPPED_ARENA_INDEX /\ mmap_tbl[a] = p.size /\ a \in Entries
  <2>1. p.index = MMAPPED_ARENA_INDEX
    BY <1>4, <1>9 DEF Sound, MemInv
  <2> QED BY <1>3, <1>4, <1>9, <2>1 DEF Sound, Entries, Lengths
<1>11. b \notin Entries
  <2>1. ASSUME b \in Entries PROVE FALSE
    <3>1. p.slot \in Extent(a) /\ p.slot \in Extent(b)
      BY <1>4, <1>10, <2>1, EntryMapped
    <3> QED BY <1>5, <1>10, <2>1, <3>1 DEF Tidy, EntriesOK
  <2> QED BY <2>1
<1>12. /\ \A x \in Addresses : mmap_tbl'[x] = IF x = a THEN 0 ELSE IF x = b THEN p.size
                                              ELSE mmap_tbl[x]
       /\ \A x \in Addresses : x \notin {a, b} => records'[x] = records[x]
       /\ records'[b] # <<>> /\ Head(records'[b]) = p.size
  <2>1. records[b] \in Seq(Lengths) /\ DOMAIN records = Addresses
    BY <1>4 DEF MemInv
  <2>2. records'[b] = <<p.size>> \o records[b]
    BY Zenon, <1>4, <1>5, <1>6, <2>1
  <2>5. records'[b] # <<>> /\ Head(records'[b]) = p.size
    BY <1>4, <2>1, <2>2
  <2>3. \A x \in Addresses : x \notin {a, b} => records'[x] = records[x]
    BY <1>6 DEF MemInv
  <2>4. \A x \in Addresses : mmap_tbl'[x] = IF x = a THEN 0 ELSE IF x = b THEN p.size
                                             ELSE mmap_tbl[x]
    BY <1>6 DEF MemInv
  <2> QED BY <2>3, <2>4, <2>5
<1>13. q \notin Held
  <2>1. q \in Held => Sound(q) /\ q.size # 0
    BY <1>4, <1>5 DEF Tidy, AllSound, Lengths
  <2> QED BY <1>3, <1>4, <1>5, <1>10, <1>11, <2>1 DEF Sound, Entries
<1>14. OneOwner' /\ Held' \subseteq Held \union {q}
  <2>1. Mine(th[t]) \subseteq Held /\ live \subseteq Held
    BY HeldIs
  <2>2. Mine(th'[t]) \intersect live' = {} /\ (th'[t].old \in Mine(th'[t]) => th'[t].old # th'[t].new)
    BY <1>6, <1>8, <1>13, <2>1 DEF After, Tidy, OneOwner
  <2>3. /\ {q} \intersect Held = {}
        /\ Mine(th'[t]) \union live' \subseteq Mine(th[t]) \union live \union {q}
    BY <1>6, <1>8, <1>13
  <2> QED BY <1>6, <2>2, <2>3, OwnersKept DEF After, Tidy
<1>15. p \notin Held'
  <2>1. p \notin live'
    BY <1>6, <1>8 DEF Tidy, OneOwner
  <2>2. p \notin Mine(th'[t])
    BY <1>1, <1>4, <1>5, <1>7, <1>8 DEF Tidy, OneOwner
  <2> QED BY <1>6, <1>8, <2>1, <2>2, OwnerLost DEF After, Tidy
<1>16. AllSound'
  <2>1. Sound(q)'
    BY <1>3, <1>4, <1>5, <1>10, <1>12 DEF Sound
  <2>2. ASSUME NEW d \in Held, d # p PROVE Sound(d)'
    <3>1. d \in RealChunks /\ Sound(d) /\ d.slot \in Slots /\ Address(d) \in Addresses
      BY HeldReal, EntryTells DEF Tidy, AllSound, RealChunks
    <3>2. CASE d.index = MMAPPED_ARENA_INDEX
      <4>1. Address(d) # b
        BY <1>11, <3>1, <3>2, EntryTells DEF Entries
      <4>2. Address(d) # a
        <5>1. ASSUME Address(d) = a PROVE FALSE
          <6>1. d.slot = p.slot /\ d.off = p.off /\ d.size = p.size /\ d.index = p.index
            BY <1>4, <1>10, <3>1, <3>2, <5>1 DEF Address, Sound
          <6> QED BY <1>4, <2>2, <3>1, <6>1 DEF RealChunks
        <5> QED BY <5>1
      <4> QED BY <1>12, <3>1, <3>2, <4>1, <4>2 DEF Sound
    <3>3. CASE d.index # MMAPPED_ARENA_INDEX
      BY <1>6, <3>1, <3>3 DEF Sound
    <3> QED BY <3>2, <3>3
  <2> QED BY <1>14, <1>15, <2>1, <2>2 DEF AllSound
<1>17. PointsOK'
  BY <1>6 DEF After, Tidy, PointsOK, PointOK
<1>18. /\ Entries' = (Entries \ {a}) \union {b}
       /\ Extent(b)' = Extent(a) /\ \A x \in Entries \ {a} : Extent(x)' = Extent(x)
  <2>1. Entries' = (Entries \ {a}) \union {b}
    BY <1>4, <1>5, <1>12 DEF Entries, Lengths
  <2>2. Extent(b)' = Extent(a)
    BY <1>4, <1>5, <1>10, <1>12 DEF Extent
  <2>3. \A x \in Entries \ {a} : Extent(x)' = Extent(x)
    BY <1>11, <1>12 DEF Extent, Entries
  <2> QED BY <2>1, <2>2, <2>3
<1>19. EntriesOK'
  <2>1. \A x \in Entries' : \A s \in Extent(x)' : s \in Slots /\ mem'[s] = "mmap"
    BY <1>6, <1>10, <1>18 DEF Tidy, EntriesOK
  <2>2. \A x, y \in Entries' : x # y => Extent(x)' \intersect Extent(y)' = {}
    BY <1>10, <1>18 DEF Tidy, EntriesOK
  <2> QED BY <2>1, <2>2 DEF EntriesOK
<1>20. Counted'
  <2>1. IsFiniteSet(Entries \ {a}) /\ Cardinality(Entries \ {a}) = Cardinality(Entries) - 1
    BY <1>10, EntriesFinite, FS_RemoveElement
  <2>2. Cardinality(Entries') = Cardinality(Entries \ {a}) + 1
    BY <1>11, <1>18, <2>1, FS_AddElement
  <2>3. n_mmaps = Cardinality(Entries) /\ n_mmaps \in Int
    BY DEF Tidy, Counted, MemInv
  <2> QED BY <1>6, <2>1, <2>2, <2>3 DEF Counted
<1>21. UnmapsOK'
  <2>1. \A u \in Threads : th[u].at \in {"munmap", "unregister"} \/ th'[u].at \in {"munmap", "unregister"}
            => th'[u] = th[u]
    BY <1>6 DEF After
  <2>2. ASSUME NEW u \in Threads, th[u].at = "munmap"
        PROVE  \A x \in Entries' : Extent(x)' \intersect Block(th[u].old) = {}
    BY <1>10, <1>18, <2>2 DEF Tidy, UnmapsOK, At
  <2>3. ASSUME NEW u \in Threads, th[u].at = "unregister"
        PROVE  \A x \in Entries' : x[1] # th[u].old.slot
    BY <1>4, <1>10, <1>18, <2>3 DEF Tidy, UnmapsOK, At
  <2>4. \A u, v \in Threads : u # v /\ th[u].at = "munmap" /\ th[v].at = "munmap"
            => Block(th[u].old) \intersect Block(th[v].old) = {}
    BY DEF Tidy, UnmapsOK, At
  <2>5. \A u \in Threads : th[u].at = "munmap" =>
            \A x \in Block(th[u].old) : x \in Slots /\ mem'[x] = "mmap"
    BY <1>6 DEF Tidy, UnmapsOK, At
  <2> QED BY <2>1, <2>2, <2>3, <2>4, <2>5 DEF UnmapsOK, At
<1>22. HeapsOK'
  <2>1. \A u \in Threads : th[u].at \in {"addheap", "forget"} \/ th'[u].at \in {"addheap", "forget"}
            => th'[u] = th[u]
    BY <1>6 DEF After
  <2> QED BY <1>6, <2>1, HeapsKept DEF Tidy
<1> QED BY <1>6, <1>14, <1>16, <1>17, <1>19, <1>20, <1>21, <1>22 DEF Tidy


\* munmap_chunk finds the entry of the chunk and removes it; what it is about to unmap has
\* no entry any more, and is nobody else's.
LEMMA LookupDeleteTidy ==
    ASSUME Inv, MemInv', Tidy, NEW t \in Threads, LookupDelete(t)
    PROVE  Tidy' /\ aborted' = aborted
<1> USE DEF Inv
<1>1. PICK p : p = th[t].old
  OBVIOUS
<1>2. PICK a : a = Address(p)
  OBVIOUS
<1>3. th[t].at = "delete" /\ p.index = MMAPPED_ARENA_INDEX
  BY <1>1 DEF LookupDelete, At, Tidy, PointsOK, PointOK
<1>4. p \in Mine(th[t]) /\ p \in Held /\ p \in RealChunks /\ Sound(p)
  BY <1>1, <1>3, OldSound DEF Freeing, Gone
<1>5. /\ a = <<p.slot, p.off>> /\ a \in Addresses /\ mmap_tbl[a] = p.size /\ a \in Entries
      /\ Extent(a) = Block(p)
  BY <1>2, <1>3, <1>4 DEF Address, Addresses, Sound, Entries, Extent, Block, RealChunks, Lengths
<1>6. /\ mmap_tbl' = [mmap_tbl EXCEPT ![a] = 0] /\ n_mmaps' = n_mmaps - 1
      /\ After(t, "munmap", th[t].new, p)
      /\ UNCHANGED <<mem, heap_tbl, records, used, live, aborted>>
  BY <1>1, <1>2, <1>5, LocalsAfter DEF LookupDelete, Entries
<1>7. /\ Mine(th[t]) = {p, th[t].new} \ {NoChunk}
      /\ Mine(th'[t]) = {th[t].new} \ {NoChunk}
  BY <1>1, <1>3, <1>6 DEF Mine, After, Gone
<1>8. p \notin Mine(th'[t])
  BY <1>1, <1>4, <1>7 DEF Tidy, OneOwner
<1>9. OneOwner' /\ Held' \subseteq Held
  <2>1. /\ Mine(th'[t]) \union live' \subseteq Mine(th[t]) \union live
        /\ Mine(th'[t]) \intersect live' = {}
    BY <1>6, <1>7 DEF Tidy, OneOwner
  <2>2. th'[t].old \notin Mine(th'[t])
    BY <1>6, <1>8 DEF After
  <2> QED BY <1>6, <2>1, <2>2, OwnersKept, {} \intersect Held = {} DEF After, Tidy
<1>10. p \notin Held'
  BY <1>4, <1>6, <1>8, OwnerLost DEF After, Tidy, OneOwner
<1>11. \A x \in Addresses : mmap_tbl'[x] = IF x = a THEN 0 ELSE mmap_tbl[x]
  BY <1>6 DEF MemInv
<1>12. AllSound'
  <2> SUFFICES ASSUME NEW d \in Held' PROVE Sound(d)'
    BY DEF AllSound
  <2>1. d \in Held /\ d \in RealChunks /\ Sound(d) /\ Address(d) \in Addresses
    BY <1>9, HeldReal, EntryTells DEF Tidy, AllSound
  <2>2. CASE d.index = MMAPPED_ARENA_INDEX
    <3>1. ASSUME Address(d) = a PROVE FALSE
      <4>1. d.slot = p.slot /\ d.off = p.off /\ d.size = p.size /\ d.index = p.index
        BY <1>3, <1>5, <2>1, <2>2, <3>1 DEF Address, Sound
      <4> QED BY <1>4, <1>10, <2>1, <4>1 DEF RealChunks
    <3> QED BY <1>6, <1>11, <2>1, <2>2, <3>1 DEF Sound
  <2>3. CASE d.index # MMAPPED_ARENA_INDEX
    BY <1>6, <2>1, <2>3 DEF Sound
  <2> QED BY <2>2, <2>3
<1>13. PointsOK'
  BY <1>1, <1>6 DEF After, Tidy, PointsOK, PointOK
<1>14. Entries' = Entries \ {a} /\ \A x \in Entries \ {a} : Extent(x)' = Extent(x)
  <2>1. Entries' = Entries \ {a}
    BY <1>11 DEF Entries
  <2>2. \A x \in Entries \ {a} : Extent(x)' = Extent(x)
    BY <1>11 DEF Extent, Entries
  <2> QED BY <2>1, <2>2
<1>15. EntriesOK'
  BY <1>6, <1>14 DEF Tidy, EntriesOK
<1>16. Counted'
  <2>1. Cardinality(Entries \ {a}) = Cardinality(Entries) - 1
    BY <1>5, EntriesFinite, FS_RemoveElement
  <2> QED BY <1>6, <1>14, <2>1 DEF Tidy, Counted
<1>17. UnmapsOK'
  <2>1. \A u \in Threads \ {t} : th'[u] = th[u]
    BY <1>6 DEF After
  <2>2. ASSUME NEW u \in Threads, th'[u].at = "munmap"
        PROVE  /\ \A x \in Block(th'[u].old) : x \in Slots /\ mem'[x] = "mmap"
               /\ \A x \in Entries' : Extent(x)' \intersect Block(th'[u].old) = {}
               /\ \A v \in Threads \ {u} : th'[v].at = "munmap" =>
                     Block(th'[v].old) \intersect Block(th'[u].old) = {}
    <3>1. \A v \in Threads : th[v].at = "munmap" => Block(th[v].old) \intersect Block(p) = {}
      BY <1>5 DEF Tidy, UnmapsOK, At
    <3>2. CASE u = t
      <4>1. th'[u].old = p
        BY <1>6, <3>2 DEF After
      <4>2. \A x \in Block(p) : x \in Slots /\ mem'[x] = "mmap"
        BY <1>5, <1>6 DEF Tidy, EntriesOK
      <4>3. \A x \in Entries' : Extent(x)' \intersect Block(p) = {}
        BY <1>5, <1>14 DEF Tidy, EntriesOK
      <4> QED BY <2>1, <3>1, <3>2, <4>1, <4>2, <4>3
    <3>3. CASE u # t
      <4>1. th'[u] = th[u]
        BY <2>1, <3>3
      <4>2. \A x \in Block(th[u].old) : x \in Slots /\ mem'[x] = "mmap"
        BY <1>6, <2>2, <4>1 DEF Tidy, UnmapsOK, At
      <4>3. \A x \in Entries' : Extent(x)' \intersect Block(th[u].old) = {}
        BY <1>14, <2>2, <4>1 DEF Tidy, UnmapsOK, At
      <4>4. ASSUME NEW v \in Threads \ {u}, th'[v].at = "munmap"
            PROVE  Block(th'[v].old) \intersect Block(th[u].old) = {}
        <5>1. CASE v = t
          BY <1>6, <2>2, <3>1, <4>1, <5>1 DEF After
        <5>2. CASE v # t
          BY <2>1, <2>2, <4>1, <4>4, <5>2 DEF Tidy, UnmapsOK, At
        <5> QED BY <5>1, <5>2
      <4> QED BY <4>1, <4>2, <4>3, <4>4
    <3> QED BY <3>2, <3>3
  <2>3. ASSUME NEW u \in Threads, th'[u].at = "unregister"
        PROVE  \A x \in Entries' : x[1] # th'[u].old.slot
    BY <1>6, <1>14, <2>3 DEF After, Tidy, UnmapsOK, At
  <2> QED BY <2>2, <2>3 DEF UnmapsOK, At
<1>18. HeapsOK'
  <2>1. \A u \in Threads : th[u].at \in {"addheap", "forget"} \/ th'[u].at \in {"addheap", "forget"}
            => th'[u] = th[u]
    BY <1>3, <1>6 DEF After
  <2> QED BY <1>6, <2>1, HeapsKept DEF Tidy
<1> QED BY <1>6, <1>9, <1>12, <1>13, <1>15, <1>16, <1>17, <1>18 DEF Tidy

\* It unmaps only its own memory; what remains has no entry.
LEMMA MunmapTidy ==
    ASSUME Inv, MemInv', Tidy, NEW t \in Threads, Munmap(t)
    PROVE  Tidy' /\ aborted' = aborted
<1> USE DEF Inv
<1>1. PICK p, B : p = th[t].old /\ B = Block(p)
  OBVIOUS
<1>2. /\ th[t].at = "munmap" /\ After(t, "unregister", th[t].new, p) /\ Map(B, "free")
      /\ UNCHANGED <<mmap_tbl, heap_tbl, records, n_mmaps, used, live, aborted>>
  BY <1>1, LocalsAfter DEF Munmap, At, tables
<1>3. p.slot \in B
  <2>1. p \in RealChunks
    BY <1>1, <1>2, LocalsKnown DEF Known, Freeing
  <2> QED BY <1>1, <2>1 DEF Block, RealChunks, Slots, Lengths
<1>4. /\ \A x \in B : x \in Slots /\ mem[x] = "mmap"
      /\ \A x \in Entries : Extent(x) \intersect B = {}
      /\ \A u \in Threads \ {t} : th[u].at = "munmap" => Block(th[u].old) \intersect B = {}
  BY <1>1, <1>2 DEF Tidy, UnmapsOK, At
<1>5. \A x \in Slots : mem'[x] = IF x \in B THEN "free" ELSE mem[x]
  BY <1>2 DEF Map
<1>6. Mine(th'[t]) = Mine(th[t])
  BY <1>1, <1>2 DEF Mine, After, Gone
<1>7. OneOwner' /\ Held' \subseteq Held
  <2>1. /\ Mine(th'[t]) \intersect live' = {}
        /\ th'[t].old \in Mine(th'[t]) => th'[t].old # th'[t].new
    BY <1>1, <1>2, <1>6 DEF After, Tidy, OneOwner
  <2> QED BY <1>2, <1>6, <2>1, OwnersKept, {} \intersect Held = {} DEF After, Tidy
<1>8. AllSound'
  BY <1>2, <1>4, <1>5, <1>7, HeldReal DEF Tidy, AllSound, Sound, RealChunks
<1>9. PointsOK'
  BY <1>1, <1>2 DEF After, Tidy, PointsOK, PointOK
<1>10. Entries' = Entries /\ \A x : Extent(x)' = Extent(x)
  BY <1>2 DEF Entries, Extent
<1>11. EntriesOK'
  BY <1>4, <1>5, <1>10 DEF Tidy, EntriesOK
<1>12. Counted'
  BY <1>2, <1>10 DEF Tidy, Counted
<1>13. UnmapsOK'
  <2>1. \A u \in Threads : th'[u].at = "munmap" => u # t /\ th'[u] = th[u]
    BY <1>2 DEF After
  <2>2. ASSUME NEW u \in Threads \ {t}, th[u].at = "munmap"
        PROVE  /\ \A x \in Block(th[u].old) : x \in Slots /\ mem'[x] = "mmap"
               /\ \A x \in Entries' : Extent(x)' \intersect Block(th[u].old) = {}
    <3>1. \A x \in Block(th[u].old) : x \in Slots /\ mem[x] = "mmap" /\ x \notin B
      BY <1>4, <2>2 DEF Tidy, UnmapsOK, At
    <3> QED BY <1>5, <1>10, <2>2, <3>1 DEF Tidy, UnmapsOK, At
  <2>3. ASSUME NEW u \in Threads, th'[u].at = "unregister", NEW x \in Entries'
        PROVE  x[1] # th'[u].old.slot
    <3>1. CASE u = t
      <4>1. x[1] \notin B
        BY <1>4, <1>10, EntryMapped
      <4> QED BY <1>2, <1>3, <3>1, <4>1 DEF After
    <3>2. CASE u # t
      BY <1>2, <1>10, <2>3, <3>2 DEF After, Tidy, UnmapsOK, At
    <3> QED BY <3>1, <3>2
  <2>4. \A u, v \in Threads : u # v /\ th[u].at = "munmap" /\ th[v].at = "munmap"
            => Block(th[u].old) \intersect Block(th[v].old) = {}
    BY DEF Tidy, UnmapsOK, At
  <2> QED BY <2>1, <2>2, <2>3, <2>4 DEF UnmapsOK, At
<1>14. HeapsOK'
  <2>1. \A u \in Threads : th[u].at \in {"addheap", "forget"} \/ th'[u].at \in {"addheap", "forget"}
            => th'[u] = th[u]
    BY <1>2 DEF After
  <2>2. \A x \in Slots : mem'[x] = "heap" <=> mem[x] = "heap"
    BY <1>4, <1>5
  <2> QED BY <1>2, <2>1, <2>2, HeapsKept DEF Tidy
<1> QED BY <1>2, <1>7, <1>8, <1>9, <1>11, <1>12, <1>13, <1>14 DEF Tidy

\* The record that goes is of an address where no chunk is (unregister_chunk).
LEMMA UnregisterTidy ==
    ASSUME Inv, MemInv', Tidy, NEW t \in Threads, Unregister(t)
    PROVE  Tidy' /\ aborted' = aborted
<1> USE DEF Inv
<1>1. PICK p, a : p = th[t].old /\ a = Address(p)
  OBVIOUS
<1>2. /\ th[t].at = "unregister" /\ records' = [records EXCEPT ![a] = Older(@)]
      /\ live' = live \union ({th[t].new} \ {NoChunk})
      /\ UNCHANGED <<mem, mmap_tbl, heap_tbl, n_mmaps, used, aborted>>
  BY <1>1 DEF Unregister, At
<1>3. /\ \A u \in Threads \ {t} : th'[u] = th[u]
      /\ th'[t].at = "idle" /\ th'[t].old = NoChunk /\ th'[t].new = NoChunk
      /\ PointOK(th'[t])
  BY LocalsAfter DEF Unregister, Idle, PointOK
<1>4. Mine(th'[t]) = {} /\ Mine(th[t]) = {th[t].new} \ {NoChunk}
  BY <1>2, <1>3 DEF Mine, Gone
<1>5. OneOwner' /\ Held' \subseteq Held
  <2>1. Mine(th'[t]) \union live' \subseteq Mine(th[t]) \union live
    BY <1>2, <1>4
  <2> QED BY <1>3, <1>4, <2>1, OwnersKept, {} \intersect Held = {} DEF Tidy
<1>6. AllSound'
  <2> SUFFICES ASSUME NEW d \in Held' PROVE Sound(d)'
    BY DEF AllSound
  <2>1. d \in Held /\ d \in RealChunks /\ Sound(d) /\ Address(d) \in Addresses
    BY <1>5, HeldReal, EntryTells DEF Tidy, AllSound
  <2>2. CASE d.index = MMAPPED_ARENA_INDEX
    <3>1. Address(d) \in Entries
      BY <2>1, <2>2, EntryTells DEF Entries
    <3>2. d.slot # p.slot
      BY <1>1, <1>2, <3>1 DEF Tidy, UnmapsOK, At, Address
    <3>3. records'[Address(d)] = records[Address(d)]
      BY <1>1, <1>2, <2>1, <3>2 DEF Address, MemInv
    <3> QED BY <1>2, <2>1, <2>2, <3>3 DEF Sound
  <2>3. CASE d.index # MMAPPED_ARENA_INDEX
    BY <1>2, <2>1, <2>3 DEF Sound
  <2> QED BY <2>2, <2>3
<1>7. PointsOK'
  BY <1>3 DEF Tidy, PointsOK
<1>8. EntriesOK' /\ Counted'
  BY <1>2 DEF Tidy, EntriesOK, Counted, Entries, Extent
<1>9. UnmapsOK'
  <2>1. th'[t].at \notin {"munmap", "unregister"}
    BY <1>3
  <2>2. ASSUME NEW u \in Threads \ {t} PROVE th'[u] = th[u]
    BY <1>3
  <2>3. UNCHANGED <<mem, mmap_tbl>>
    BY <1>2
  <2>4. Entries' = Entries /\ \A x : Extent(x)' = Extent(x)
    BY <2>3 DEF Entries, Extent
  <2>5. \A u \in Threads : th'[u].at \in {"munmap", "unregister"} => u # t /\ th'[u] = th[u]
    BY <2>1, <2>2
  <2> QED BY <2>3, <2>4, <2>5 DEF Tidy, UnmapsOK, At
<1>10. HeapsOK'
  <2>1. \A u \in Threads : th[u].at \in {"addheap", "forget"} \/ th'[u].at \in {"addheap", "forget"}
            => th'[u] = th[u]
    BY <1>2, <1>3
  <2> QED BY <1>2, <2>1, HeapsKept DEF Tidy
<1> QED BY <1>2, <1>5, <1>6, <1>7, <1>8, <1>9, <1>10 DEF Tidy


(***************************************************************************)
(* The lookup tables are right as long as no slot came back too early      *)
(***************************************************************************)
\* At the start nobody has anything.
LEMMA InitTidy == Init => Tidy
<1> SUFFICES ASSUME Init PROVE Tidy
  OBVIOUS
<1>1. \A t \in Threads : th[t] = Idle /\ Mine(th[t]) = {}
  BY DEF Init, Idle, Mine
<1>2. Held = {} /\ Entries = {}
  <2>1. Held = {}
    BY <1>1, InitInv, HeldIs DEF Init, Inv
  <2> QED BY <2>1 DEF Init, Entries
<1>3. PointsOK /\ OneOwner /\ AllSound
  BY <1>1, <1>2 DEF PointsOK, PointOK, Idle, OneOwner, AllSound
<1>4. EntriesOK /\ UnmapsOK /\ HeapsOK
  BY <1>1, <1>2 DEF Init, Idle, EntriesOK, UnmapsOK, HeapsOK, At
<1>5. Counted
  BY <1>2, FS_EmptySet DEF Init, Counted
<1> QED BY <1>3, <1>4, <1>5 DEF Tidy

\* A slot that came back too early stays on record.
LEMMA ReusedStays ==
    ASSUME ThInv, MemInv, MemInv', NEW t \in Threads, ~reused',
           Step(t) \/ CallMalloc(t) \/ Call(t, "free") \/ Call(t, "realloc")
    PROVE  ~reused
<1>1. CASE MmapMain(t) \/ MmapOther(t)
  BY <1>1, MmapIs DEF MmapMain, MmapOther, Maps
<1>2. CASE NewHeap(t)
  BY <1>2 DEF NewHeap
<1>3. ASSUME \/ CallMalloc(t) \/ LockArena(t) \/ MallocHeap(t) \/ AddHeap(t) \/ SwitchToMain(t)
             \/ MallocFails(t) \/ MmapOtherFails(t) \/ Relock(t) \/ StartAlign(t) \/ Align(t)
             \/ AlignFails(t) \/ Retry(t) \/ Return(t)
      PROVE  ~reused
  BY <1>3, ZenonT(60)
     DEF CallMalloc, LockArena, MallocHeap, AddHeap, SwitchToMain, MallocFails, MmapOtherFails,
         Relock, StartAlign, Align, AlignFails, Retry, Return
<1>4. ASSUME \/ Call(t, "free") \/ Call(t, "realloc") \/ FindMmap(t) \/ FindHeap(t)
             \/ FreeMmapped(t) \/ ReallocMmapped(t) \/ LookupDelete(t) \/ Munmap(t)
             \/ Unregister(t) \/ FreeHeap(t) \/ ForgetHeap(t)
      PROVE  ~reused
  BY <1>4, ZenonT(60)
     DEF Call, FindMmap, FindHeap, FreeMmapped, ReallocMmapped, LookupDelete, Munmap,
         Unregister, FreeHeap, ForgetHeap, Abort
<1> QED BY <1>1, <1>2, <1>3, <1>4 DEF Step

\* No step of a thread disturbs it, and none fails an assertion.
LEMMA TidyStep ==
    ASSUME Inv, Inv', Tidy, NEW t \in Threads, ~reused',
           Step(t) \/ CallMalloc(t) \/ Call(t, "free") \/ Call(t, "realloc")
    PROVE  Tidy' /\ aborted' = aborted
<1> USE DEF Inv
<1>1. CASE \/ CallMalloc(t) \/ LockArena(t) \/ SwitchToMain(t) \/ MallocFails(t)
           \/ MmapOtherFails(t) \/ Relock(t) \/ StartAlign(t) \/ AlignFails(t)
           \/ Retry(t) \/ Return(t)
  <2>1. Tidy'
    BY <1>1, MallocPaper
  <2>2. aborted' = aborted
    BY <1>1, ZenonT(60) DEF CallMalloc, LockArena, SwitchToMain, MallocFails, MmapOtherFails, Relock,
                StartAlign, AlignFails, Retry, Return
  <2> QED BY <2>1, <2>2
<1>2. CASE \/ Call(t, "free") \/ Call(t, "realloc") \/ FindMmap(t) \/ FindHeap(t)
           \/ FreeMmapped(t) \/ ReallocMmapped(t)
  BY <1>2, FreePaper
<1>3. CASE MallocHeap(t)
  BY <1>3, MallocHeapTidy DEF MallocHeap
<1>4. CASE NewHeap(t)
  BY <1>4, NewHeapTidy DEF NewHeap
<1>5. CASE AddHeap(t)
  BY <1>5, AddHeapTidy DEF AddHeap
<1>6. CASE MmapMain(t) \/ MmapOther(t)
  BY <1>6, MmapTidy
<1>7. CASE Align(t)
  BY <1>7, AlignTidy
<1>8. CASE LookupDelete(t)
  BY <1>8, LookupDeleteTidy
<1>9. CASE Munmap(t)
  BY <1>9, MunmapTidy
<1>10. CASE Unregister(t)
  BY <1>10, UnregisterTidy
<1>11. CASE FreeHeap(t)
  BY <1>11, FreeHeapTidy DEF FreeHeap
<1>12. CASE ForgetHeap(t)
  BY <1>12, ForgetHeapTidy
<1> QED BY <1>1, <1>2, <1>3, <1>4, <1>5, <1>6, <1>7, <1>8, <1>9, <1>10, <1>11, <1>12 DEF Step

\* what holds as long as no slot was handed out before it was forgotten
InOrder == ~reused => Tidy /\ ~aborted

\* A step that changes nothing changes nothing in it.
LEMMA StutterInOrder == InOrder /\ UNCHANGED vars => InOrder'
<1> SUFFICES ASSUME InOrder, UNCHANGED vars PROVE InOrder'
  OBVIOUS
<1>1. UNCHANGED <<mem, mmap_tbl, heap_tbl, records, n_mmaps, used, live, th, aborted, reused>>
  BY DEF vars, tables
<1>2. Held' = Held /\ Entries' = Entries
  BY <1>1 DEF Held, Entries, At
<1>3. PointsOK' <=> PointsOK
  BY <1>1 DEF PointsOK
<1>4. OneOwner' <=> OneOwner
  BY <1>1 DEF OneOwner
<1>5. AllSound' <=> AllSound
  BY <1>1, <1>2 DEF AllSound, Sound
<1>6. EntriesOK' <=> EntriesOK
  BY <1>1, <1>2 DEF EntriesOK, Extent
<1>7. UnmapsOK' <=> UnmapsOK
  BY <1>1, <1>2 DEF UnmapsOK, Extent, At
<1>8. HeapsOK' <=> HeapsOK
  BY <1>1 DEF HeapsOK, At
<1>9. Counted' <=> Counted
  BY <1>1, <1>2 DEF Counted
<1> QED BY <1>1, <1>3, <1>4, <1>5, <1>6, <1>7, <1>8, <1>9 DEF InOrder, Tidy

\* Every step keeps it.
LEMMA NextInOrder == Inv /\ Inv' /\ InOrder /\ [Next]_vars => InOrder'
<1> SUFFICES ASSUME Inv, Inv', InOrder, [Next]_vars PROVE InOrder'
  OBVIOUS
<1>1. ASSUME NEW t \in Threads,
             Step(t) \/ CallMalloc(t) \/ Call(t, "free") \/ Call(t, "realloc")
      PROVE  InOrder'
  <2> SUFFICES ASSUME ~reused' PROVE Tidy' /\ ~aborted'
    BY DEF InOrder
  <2>1. Tidy /\ ~aborted
    BY <1>1, ReusedStays DEF InOrder, Inv
  <2>2. Tidy' /\ aborted' = aborted
    BY <1>1, <2>1, TidyStep
  <2> QED BY <2>1, <2>2
<1>2. CASE UNCHANGED vars
  BY <1>2, StutterInOrder
<1> QED BY <1>1, <1>2 DEF Next, Finished

\* Every chunk has one owner and memory of its own, the tables of lookup.c and the records
\* of mmapped chunks (metadata.c) are right about it, and nothing has an entry without
\* being mapped, as long as no slot was handed out again between the munmap of
\* munmap_chunk or heap_trim and the deletion of its record or entry.
THEOREM InOrderAlways == Spec => []InOrder
<1>1. Init => InOrder
  BY InitTidy DEF InOrder, Init
<1> QED BY <1>1, NextInOrder, InvAlways, PTL DEF Spec

\* The variables have their types.
LEMMA InvTypes == Inv => TypeOK
<1> SUFFICES ASSUME Inv PROVE TypeOK
  OBVIOUS
<1>1. MaybeChunks \subseteq Chunks /\ RealChunks \subseteq Chunks
  BY RegionsAssumption DEF MaybeChunks, RealChunks, NoChunk, Chunks, Lengths, Slots
<1>2. \A a \in Addresses : \A i \in DOMAIN records[a] : records[a][i] \in 1 .. NSlots
  <2> SUFFICES ASSUME NEW a \in Addresses, NEW i \in DOMAIN records[a]
               PROVE  records[a][i] \in 1 .. NSlots
    OBVIOUS
  <2>1. PICK chain : chain = records[a]
    OBVIOUS
  <2>2. chain \in Seq(Lengths)
    BY <2>1 DEF Inv, MemInv
  <2>3. \A j \in 1 .. Len(chain) : chain[j] \in Lengths
    BY <2>2
  <2>4. DOMAIN chain = 1 .. Len(chain)
    BY <2>2
  <2> QED BY <2>1, <2>3, <2>4 DEF Lengths
<1>3. \A t \in Threads : th[t].at \in Points /\ th[t].arena \in Arenas
                         /\ th[t].new \in Chunks /\ th[t].old \in Chunks
  BY <1>1 DEF Inv, ThInv, Locals
<1>4. mmap_tbl \in [Addresses -> 0 .. NSlots]
  <2>1. Lengths \union {0} \subseteq 0 .. NSlots
    BY RegionsAssumption DEF Lengths
  <2>2. mmap_tbl \in [Addresses -> Lengths \union {0}]
    BY DEF Inv, MemInv
  <2> QED BY <2>1, <2>2
<1>5. live \subseteq Chunks
  BY <1>1 DEF Inv, MemInv
<1> QED BY <1>2, <1>3, <1>4, <1>5 DEF TypeOK, Inv, MemInv, LockInv

\* lookup_arena_index gives the owner of every chunk, the newest record of a mmapped chunk is
\* its own and mp_.n_mmaps counts the entries, for any number of threads, arenas and slots,
\* although sysmalloc, memalign and realloc (malloc.c) change mutexes half-way; with the
\* proviso that no slot came back before it was forgotten.
THEOREM OwnerFoundAlways == Spec => []OwnerFound
<1>1. Inv /\ InOrder => OwnerFound
  <2> SUFFICES ASSUME Inv, InOrder PROVE OwnerFound
    OBVIOUS
  <2>1. TypeOK
    BY InvTypes
  <2> QED BY <2>1 DEF OwnerFound, InOrder, Tidy, Counted, AllSound, Sound
<1> QED BY <1>1, InvAlways, InOrderAlways, PTL

\* The memory of a mmapped chunk is what its entry names.
LEMMA BlockIs ==
    ASSUME ThInv, MemInv, Tidy, NEW c \in Held
    PROVE  /\ c \in RealChunks /\ Sound(c)
           /\ c.index = MMAPPED_ARENA_INDEX => Address(c) \in Entries /\ Block(c) = Extent(Address(c))
           /\ c.index # MMAPPED_ARENA_INDEX => Block(c) = {c.slot}
<1>1. c \in RealChunks /\ Sound(c)
  BY HeldReal DEF Tidy, AllSound
<1>2. ASSUME c.index = MMAPPED_ARENA_INDEX
      PROVE  Address(c) \in Entries /\ Block(c) = Extent(Address(c))
  <2>1. Address(c) \in Entries
    BY <1>1, <1>2, EntryTells DEF Entries
  <2> QED BY <1>1, <1>2, <2>1 DEF Block, Extent, Sound, Address
<1>3. ASSUME c.index # MMAPPED_ARENA_INDEX
      PROVE  Block(c) = {c.slot}
  <2>1. c.size = 1 /\ c.slot \in Int
    BY <1>1, <1>3 DEF Sound, RealChunks, Slots
  <2> QED BY <2>1 DEF Block
<1> QED BY <1>1, <1>2, <1>3

\* No two chunks share memory and all of it is mapped, so that munmap_chunk (malloc.c) and
\* heap_trim (arena.c) give back what nobody uses: for any number of threads, arenas and
\* slots, with the same proviso.
THEOREM DisjointAlways == Spec => []Disjoint
<1>1. Inv /\ InOrder => Disjoint
  <2> SUFFICES ASSUME Inv, InOrder, ~reused, NEW c \in Held
               PROVE  /\ \A s \in Block(c) :
                             mem[s] = IF c.index = MMAPPED_ARENA_INDEX THEN "mmap" ELSE "heap"
                      /\ \A d \in Held \ {c} : Block(c) \intersect Block(d) # {} =>
                             c.index = d.index /\ c.index # 0 /\ c.off # d.off
    BY DEF Disjoint
  <2>1. ThInv /\ MemInv /\ Tidy
    BY DEF Inv, InOrder
  <2>2. \A e \in Held : \A s \in Block(e) :
            mem[s] = IF e.index = MMAPPED_ARENA_INDEX THEN "mmap" ELSE "heap"
    BY <2>1, BlockIs DEF Tidy, EntriesOK, Sound
  <2>3. ASSUME NEW d \in Held \ {c}, NEW s \in Block(c) \intersect Block(d)
        PROVE  c.index = d.index /\ c.index # 0 /\ c.off # d.off
    <3>1. c \in RealChunks /\ d \in RealChunks /\ Sound(c) /\ Sound(d)
      BY <2>1, BlockIs
    <3>2. c.index = MMAPPED_ARENA_INDEX <=> d.index = MMAPPED_ARENA_INDEX
      BY <2>2
    <3>3. ASSUME c.index = MMAPPED_ARENA_INDEX PROVE FALSE
      <4>1. Address(c) = Address(d)
        BY <2>1, <3>2, <3>3, BlockIs DEF Tidy, EntriesOK
      <4>2. c.slot = d.slot /\ c.off = d.off /\ c.size = d.size /\ c.index = d.index
        BY <3>1, <3>2, <3>3, <4>1 DEF Address, Sound
      <4> QED BY <3>1, <4>2 DEF RealChunks
    <3>4. c.slot = d.slot
      BY <2>1, <3>2, <3>3, BlockIs
    <3>5. c.index = d.index /\ c.size = d.size
      BY <3>1, <3>2, <3>3, <3>4 DEF Sound
    <3>6. c.off # d.off
      BY <3>1, <3>4, <3>5 DEF RealChunks
    <3> QED BY <3>3, <3>5, <3>6 DEF MMAPPED_ARENA_INDEX
  <2> QED BY <2>2, <2>3
<1> QED BY <1>1, InvAlways, InOrderAlways, PTL

\* No assertion of lookup.c or malloc.c fails and no record is missing, for any number of
\* threads, arenas and slots, with the same proviso.
THEOREM NoAbortAlways == Spec => []NoAbort
<1>1. InOrder => NoAbort
  BY DEF InOrder, NoAbort
<1> QED BY <1>1, InOrderAlways, PTL


(***************************************************************************)
(* Records of mappings that were not aligned.  No proviso here: a slot may *)
(* be handed out too early and records may be too long, but as many calls  *)
(* and chunks of the program as work with an address have a record there.  *)
(***************************************************************************)
\* the address of a mapping that was not aligned
Base(s) == <<s, 0>>

\* what claims a record at Base(s): the program's chunks, and the two roles of chunks
\* in calls, until the record of the old chunk is removed
ClaimsOf(L, h, s) ==
    {<<"live", c>> : c \in {d \in L : Address(d) = Base(s)}}
    \union {<<"old", t>> : t \in {u \in Threads : Address(h[u].old) = Base(s)}}
    \union {<<"new", t>> : t \in {u \in Threads : Address(h[u].new) = Base(s)}}

\* at most n claims
AtMost(S, n) == IsFiniteSet(S) /\ Cardinality(S) <= n

Recorded0 == \A s \in Slots : AtMost(ClaimsOf(live, th, s), Len(records[Base(s)]))

\* What a set of claims may become when n records become m
LEMMA FewerClaims ==
    ASSUME NEW S, NEW n \in Int, AtMost(S, n), NEW T, T \subseteq S
    PROVE  AtMost(T, n)
<1>1. IsFiniteSet(T) /\ Cardinality(T) <= Cardinality(S)
  BY FS_Subset DEF AtMost
<1>2. Cardinality(T) \in Nat /\ Cardinality(S) \in Nat
  BY <1>1, FS_CardinalityType DEF AtMost
<1> QED BY <1>1, <1>2 DEF AtMost

LEMMA OneClaimMore ==
    ASSUME NEW S, NEW n \in Int, AtMost(S, n), NEW y, NEW T, T \subseteq S \union {y}
    PROVE  AtMost(T, n + 1)
<1>1. /\ IsFiniteSet(S \cup {y})
      /\ Cardinality(S \cup {y}) = IF y \in S THEN Cardinality(S) ELSE Cardinality(S) + 1
  BY FS_AddElement DEF AtMost
<1>2. Cardinality(S) \in Nat
  BY FS_CardinalityType DEF AtMost
<1>3. AtMost(S \cup {y}, n + 1)
  BY <1>1, <1>2 DEF AtMost
<1> QED BY <1>3, FewerClaims

LEMMA OneClaimLess ==
    ASSUME NEW S, NEW n \in Int, AtMost(S, n), NEW x \in S, NEW T, T \subseteq S \ {x}
    PROVE  AtMost(T, n - 1)
<1>1. IsFiniteSet(S \ {x}) /\ Cardinality(S \ {x}) = Cardinality(S) - 1
  BY FS_RemoveElement DEF AtMost
<1>2. Cardinality(S) \in Nat
  BY FS_CardinalityType DEF AtMost
<1>3. AtMost(S \ {x}, n - 1)
  BY <1>1, <1>2 DEF AtMost
<1> QED BY <1>3, FewerClaims

LEMMA ClaimMoves ==
    ASSUME NEW S, NEW n \in Int, AtMost(S, n), NEW x \in S, NEW y,
           NEW T, T \subseteq (S \ {x}) \union {y}
    PROVE  AtMost(T, n)
<1>1. AtMost(S \ {x}, n - 1)
  BY OneClaimLess
<1>2. AtMost(T, (n - 1) + 1)
  BY <1>1, OneClaimMore
<1> QED BY <1>2

\* What a step of t makes of the claims
LEMMA ClaimsAfter ==
    ASSUME NEW t \in Threads, \A u \in Threads \ {t} : th'[u] = th[u],
           NEW s, NEW x \in ClaimsOf(live', th', s)
    PROVE  \/ x \in ClaimsOf(live, th, s) \ {<<"old", t>>, <<"new", t>>}
           \/ \E c \in live' \ live : Address(c) = Base(s) /\ x = <<"live", c>>
           \/ x = <<"old", t>> /\ Address(th'[t].old) = Base(s)
           \/ x = <<"new", t>> /\ Address(th'[t].new) = Base(s)
<1>1. CASE \E c \in live' : Address(c) = Base(s) /\ x = <<"live", c>>
  BY <1>1 DEF ClaimsOf
<1>2. CASE \E u \in Threads : Address(th'[u].old) = Base(s) /\ x = <<"old", u>>
  BY <1>2 DEF ClaimsOf
<1>3. CASE \E u \in Threads : Address(th'[u].new) = Base(s) /\ x = <<"new", u>>
  BY <1>3 DEF ClaimsOf
<1> QED BY <1>1, <1>2, <1>3 DEF ClaimsOf

\* An address of a chunk of a heap, or of none, is nobody's base.
LEMMA NotBase ==
    ASSUME NEW s \in Slots
    PROVE  /\ Address(NoChunk) # Base(s)
           /\ \A c : c.off # 0 => Address(c) # Base(s)
<1>1. s # 0
  BY DEF Slots
<1> QED BY <1>1 DEF Address, NoChunk, Base

\* A step that leaves the records alone, and makes no claim
LEMMA QuietClaims ==
    ASSUME Recorded0, MemInv, NEW t \in Threads, \A u \in Threads \ {t} : th'[u] = th[u],
           UNCHANGED records, live' \subseteq live,
           \A s \in Slots : /\ Address(th'[t].old) = Base(s) => Address(th[t].old) = Base(s)
                            /\ Address(th'[t].new) = Base(s) => Address(th[t].new) = Base(s)
    PROVE  Recorded0'
<1> SUFFICES ASSUME NEW s \in Slots
             PROVE  AtMost(ClaimsOf(live', th', s), Len(records[Base(s)]))
  BY DEF Recorded0
<1>1. ClaimsOf(live', th', s) \subseteq ClaimsOf(live, th, s)
  <2> SUFFICES ASSUME NEW x \in ClaimsOf(live', th', s) PROVE x \in ClaimsOf(live, th, s)
    OBVIOUS
  <2>1. \/ x \in ClaimsOf(live, th, s)
        \/ x = <<"old", t>> /\ Address(th[t].old) = Base(s)
        \/ x = <<"new", t>> /\ Address(th[t].new) = Base(s)
    BY ClaimsAfter
  <2> QED BY <2>1 DEF ClaimsOf
<1>2. Len(records[Base(s)]) \in Int
  BY RegionsAssumption DEF MemInv, Base, Addresses
<1> QED BY <1>1, <1>2, FewerClaims DEF Recorded0

\* A call that takes a chunk from the program
LEMMA CallClaims ==
    ASSUME Recorded0, MemInv, ThInv, NEW t \in Threads, NEW o, Call(t, o)
    PROVE  Recorded0'
<1>1. PICK p \in live : /\ live' = live \ {p} /\ th'[t].old = p /\ th'[t].new = NoChunk
                        /\ \A u \in Threads \ {t} : th'[u] = th[u]
  <2>1. PICK p \in live, n \in Sizes :
            /\ live' = live \ {p}
            /\ th' = [th EXCEPT ![t] = [Idle EXCEPT !.at = "find", !.op = o, !.old = p,
                                                    !.size = n]]
    BY Zenon DEF Call
  <2> QED BY <2>1 DEF ThInv, Idle
<1> SUFFICES ASSUME NEW s \in Slots
             PROVE  AtMost(ClaimsOf(live', th', s), Len(records'[Base(s)]))
  BY DEF Recorded0
<1>S. PICK S : S = ClaimsOf(live, th, s)
  OBVIOUS
<1>T. PICK T : T = ClaimsOf(live', th', s)
  OBVIOUS
<1>2. records' = records /\ Len(records[Base(s)]) \in Int
  BY RegionsAssumption DEF Call, tables, MemInv, Base, Addresses
<1>3. AtMost(S, Len(records[Base(s)]))
  BY <1>S DEF Recorded0
<1>4. \A x \in T : x \in S \/ (x = <<"old", t>> /\ Address(p) = Base(s))
  BY <1>1, <1>S, <1>T, ClaimsAfter, NotBase
<1>5. CASE Address(p) = Base(s)
  <2>1. <<"live", p>> \in S
    BY <1>1, <1>5, <1>S DEF ClaimsOf
  <2>2. <<"live", p>> \notin T
    BY <1>1, <1>T DEF ClaimsOf
  <2>3. T \subseteq (S \ {<<"live", p>>}) \union {<<"old", t>>}
    BY <1>4, <2>2
  <2>4. AtMost(T, Len(records[Base(s)]))
    BY <1>2, <1>3, <2>1, <2>3, ClaimMoves
  <2> QED BY <2>4, <1>2, <1>T
<1>6. CASE Address(p) # Base(s)
  <2>1. AtMost(T, Len(records[Base(s)]))
    BY <1>2, <1>3, <1>4, <1>6, FewerClaims
  <2> QED BY <2>1, <1>2, <1>T
<1> QED BY <1>5, <1>6

\* A chunk of a call goes back to the program, and what is not moved is dropped.
LEMMA ClaimGivenBack ==
    ASSUME NEW S, NEW n \in Int, NEW s, NEW t, NEW c, NEW role \in {"old", "new"},
           AtMost(S, n), Address(c) = Base(s) => <<role, t>> \in S,
           NEW T, T \subseteq (S \ {<<role, t>>})
                              \union {x \in {<<"live", c>>} : Address(c) = Base(s)}
    PROVE  AtMost(T, n)
<1>1. CASE Address(c) = Base(s)
  <2>1. <<role, t>> \in S /\ T \subseteq (S \ {<<role, t>>}) \union {<<"live", c>>}
    BY <1>1
  <2> QED BY <2>1, ClaimMoves
<1>2. CASE Address(c) # Base(s)
  BY <1>2, FewerClaims
<1> QED BY <1>1, <1>2

\* A call ends, and the program has its chunks (again).
LEMMA ReturnClaims ==
    ASSUME Recorded0, MemInv, ThInv, NEW t \in Threads, Finish(t), UNCHANGED records,
           live' \subseteq live \union {th[t].new, th[t].old}
    PROVE  Recorded0'
<1>1. /\ \A u \in Threads \ {t} : th'[u] = th[u]
      /\ th'[t].old = NoChunk /\ th'[t].new = NoChunk
  BY DEF Finish, ThInv, Idle
<1> SUFFICES ASSUME NEW s \in Slots
             PROVE  AtMost(ClaimsOf(live', th', s), Len(records[Base(s)]))
  BY DEF Recorded0
<1>S. PICK S : S = ClaimsOf(live, th, s)
  OBVIOUS
<1>T. PICK T : T = ClaimsOf(live', th', s)
  OBVIOUS
<1>n. PICK n : n = Len(records[Base(s)])
  OBVIOUS
<1>c. PICK c, d : c = th[t].new /\ d = th[t].old
  OBVIOUS
<1>2. n \in Int
  BY <1>n, RegionsAssumption DEF MemInv, Base, Addresses
<1>3. AtMost(S, n)
  BY <1>S, <1>n DEF Recorded0
<1>M. PICK M : M = (S \ {<<"new", t>>}) \union {x \in {<<"live", c>>} : Address(c) = Base(s)}
  OBVIOUS
<1>4. (Address(c) = Base(s) => <<"new", t>> \in S) /\ (Address(d) = Base(s) => <<"old", t>> \in S)
  BY <1>S, <1>c DEF ClaimsOf
<1>5. AtMost(M, n)
  BY <1>2, <1>3, <1>4, <1>M, ClaimGivenBack
<1>6. Address(d) = Base(s) => <<"old", t>> \in M
  BY <1>4, <1>M
<1>7. T \subseteq (M \ {<<"old", t>>}) \union {x \in {<<"live", d>>} : Address(d) = Base(s)}
  <2> SUFFICES ASSUME NEW x \in T
               PROVE  x \in (M \ {<<"old", t>>})
                            \union {y \in {<<"live", d>>} : Address(d) = Base(s)}
    OBVIOUS
  <2>1. \/ x \in S \ {<<"old", t>>, <<"new", t>>}
        \/ \E e \in live' \ live : Address(e) = Base(s) /\ x = <<"live", e>>
    BY <1>1, <1>S, <1>T, ClaimsAfter, NotBase
  <2>2. CASE x \in S \ {<<"old", t>>, <<"new", t>>}
    BY <2>2, <1>M
  <2>3. ASSUME NEW e \in live' \ live, Address(e) = Base(s), x = <<"live", e>>
        PROVE  x \in (M \ {<<"old", t>>})
                     \union {y \in {<<"live", d>>} : Address(d) = Base(s)}
    <3>1. e = c \/ e = d
      BY <2>3, <1>c
    <3> QED BY <3>1, <2>3, <1>M
  <2> QED BY <2>1, <2>2, <2>3
<1>8. AtMost(T, n)
  <2>1. CASE Address(d) = Base(s)
    <3>1. <<"old", t>> \in M /\ T \subseteq (M \ {<<"old", t>>}) \union {<<"live", d>>}
      BY <1>6, <1>7, <2>1
    <3> QED BY <3>1, <1>2, <1>5, ClaimMoves
  <2>2. CASE Address(d) # Base(s)
    <3>1. T \subseteq M
      BY <1>7, <2>2
    <3> QED BY <3>1, <1>2, <1>5, FewerClaims
  <2> QED BY <2>1, <2>2
<1> QED BY <1>8, <1>T, <1>n

\* The record of the old chunk goes, and with it its claim.
LEMMA UnregisterClaims ==
    ASSUME Recorded0, MemInv, ThInv, NEW t \in Threads, Unregister(t)
    PROVE  Recorded0'
<1>1. /\ \A u \in Threads \ {t} : th'[u] = th[u]
      /\ th'[t].old = NoChunk /\ th'[t].new = NoChunk
  BY DEF Unregister, Finish, ThInv, Idle
<1> SUFFICES ASSUME NEW s \in Slots
             PROVE  AtMost(ClaimsOf(live', th', s), Len(records'[Base(s)]))
  BY DEF Recorded0
<1>S. PICK S : S = ClaimsOf(live, th, s)
  OBVIOUS
<1>T. PICK T : T = ClaimsOf(live', th', s)
  OBVIOUS
<1>n. PICK n, m : n = Len(records[Base(s)]) /\ m = Len(records'[Base(s)])
  OBVIOUS
<1>c. PICK c, d : c = th[t].new /\ d = th[t].old
  OBVIOUS
<1>2. /\ Address(d) \in Addresses /\ Base(s) \in Addresses /\ d \in RealChunks
      /\ records \in [Addresses -> Seq(Lengths)]
  BY <1>c, LocalsKnown, RegionsAssumption
     DEF Known, Freeing, MemInv, Base, Addresses, Unregister, At
<1>3. AtMost(S, n) /\ n \in Int
  BY <1>S, <1>n, <1>2 DEF Recorded0
<1>4. records' = [records EXCEPT ![Address(d)] = Older(@)] /\ live' = live \union ({c} \ {NoChunk})
  BY <1>c DEF Unregister
<1>5. (Address(c) = Base(s) => <<"new", t>> \in S) /\ (Address(d) = Base(s) => <<"old", t>> \in S)
  BY <1>S, <1>c DEF ClaimsOf
<1>M. PICK M : M = S \ {<<"old", t>>}
  OBVIOUS
<1>6. AtMost(M, m) /\ m \in Int
  <2>1. CASE Address(d) = Base(s)
    <3>1. n >= 1
      <4>1. Cardinality(S) # 0 /\ Cardinality(S) \in Nat
        BY <1>3, <1>5, <2>1, FS_EmptySet, FS_CardinalityType DEF AtMost
      <4> QED BY <1>3, <4>1 DEF AtMost
    <3>2. m = n - 1
      <4>1. PICK chain : chain = records[Base(s)]
        OBVIOUS
      <4>2. chain \in Seq(Lengths) /\ chain # <<>> /\ n = Len(chain)
        BY <1>2, <1>n, <3>1, <4>1
      <4>3. records'[Base(s)] = Tail(chain)
        BY <1>2, <1>4, <2>1, <4>1, <4>2 DEF Older
      <4> QED BY <1>n, <4>2, <4>3
    <3>3. AtMost(M, n - 1)
      BY <1>3, <1>5, <1>M, <2>1, OneClaimLess
    <3> QED BY <1>3, <3>2, <3>3
  <2>2. CASE Address(d) # Base(s)
    <3>1. m = n
      BY <1>2, <1>4, <1>n, <2>2
    <3>2. M \subseteq S
      BY <1>M
    <3> QED BY <1>3, <3>1, <3>2, FewerClaims
  <2> QED BY <2>1, <2>2
<1>7. T \subseteq (M \ {<<"new", t>>}) \union {x \in {<<"live", c>>} : Address(c) = Base(s)}
  <2> SUFFICES ASSUME NEW x \in T
               PROVE  x \in (M \ {<<"new", t>>})
                            \union {y \in {<<"live", c>>} : Address(c) = Base(s)}
    OBVIOUS
  <2>1. \/ x \in S \ {<<"old", t>>, <<"new", t>>}
        \/ \E e \in live' \ live : Address(e) = Base(s) /\ x = <<"live", e>>
    BY <1>1, <1>S, <1>T, ClaimsAfter, NotBase
  <2> QED BY <2>1, <1>4, <1>M
<1>8. AtMost(T, m)
  <2>1. CASE Address(c) = Base(s)
    <3>1. <<"new", t>> \in M /\ T \subseteq (M \ {<<"new", t>>}) \union {<<"live", c>>}
      BY <1>5, <1>7, <1>M, <2>1
    <3> QED BY <3>1, <1>6, ClaimMoves
  <2>2. CASE Address(c) # Base(s)
    <3>1. T \subseteq M
      BY <1>7, <2>2
    <3> QED BY <3>1, <1>6, FewerClaims
  <2> QED BY <2>1, <2>2
<1> QED BY <1>8, <1>T, <1>n

\* A mapping and its record are made together.
LEMMA MmapClaims ==
    ASSUME Recorded0, MemInv, ThInv, NEW t \in Threads, MmapMain(t) \/ MmapOther(t)
    PROVE  Recorded0'
<1>1. PICK k \in Slots, n \in Lengths : <<k, 0>> \in Addresses /\ Maps(t, "relock", k, n)
  BY MmapIs DEF MmapMain, MmapOther
<1>2. After(t, "relock", Mapping(k, n), th[t].old) /\ live' = live
  BY <1>1, LocalsAfter DEF Maps
<1>3. /\ \A u \in Threads \ {t} : th'[u] = th[u]
      /\ th'[t].old = th[t].old /\ Address(th'[t].new) = Base(k)
  BY <1>2 DEF After, Mapping, Address, Base
<1> SUFFICES ASSUME NEW s \in Slots
             PROVE  AtMost(ClaimsOf(live', th', s), Len(records'[Base(s)]))
  BY DEF Recorded0
<1>S. PICK S : S = ClaimsOf(live, th, s)
  OBVIOUS
<1>T. PICK T : T = ClaimsOf(live', th', s)
  OBVIOUS
<1>4. /\ Base(s) \in Addresses /\ records \in [Addresses -> Seq(Lengths)]
      /\ records' = [records EXCEPT ![Base(k)] = <<n>> \o @]
  BY <1>1, RegionsAssumption DEF MemInv, Base, Addresses, Maps
<1>c. PICK chain : chain = records[Base(s)]
  OBVIOUS
<1>5. chain \in Seq(Lengths) /\ AtMost(S, Len(chain)) /\ Len(chain) \in Int
  BY <1>4, <1>S, <1>c DEF Recorded0
<1>6. \A x \in T : x \in S \/ (x = <<"new", t>> /\ s = k)
  <2> SUFFICES ASSUME NEW x \in T, x \notin S PROVE x = <<"new", t>> /\ s = k
    OBVIOUS
  <2>1. \/ x = <<"old", t>> /\ Address(th'[t].old) = Base(s)
        \/ x = <<"new", t>> /\ Address(th'[t].new) = Base(s)
    BY <1>2, <1>3, <1>S, <1>T, ClaimsAfter
  <2>2. ~(x = <<"old", t>> /\ Address(th[t].old) = Base(s))
    BY <1>S DEF ClaimsOf
  <2> QED BY <2>1, <2>2, <1>3 DEF Base
<1>7. CASE s = k
  <2>1. records'[Base(s)] = <<n>> \o chain
    BY <1>4, <1>7, <1>c
  <2>2. Len(<<n>> \o chain) = Len(chain) + 1
    BY <1>5
  <2>3. AtMost(T, Len(chain) + 1)
    <3>1. T \subseteq S \union {<<"new", t>>}
      BY <1>6
    <3> QED BY <3>1, <1>5, OneClaimMore
  <2> QED BY <2>1, <2>2, <2>3, <1>T
<1>8. CASE s # k
  <2>1. records'[Base(s)] = chain
    BY <1>4, <1>8, <1>c DEF Base
  <2>2. AtMost(T, Len(chain))
    BY <1>5, <1>6, <1>8, FewerClaims
  <2> QED BY <2>1, <2>2, <1>T
<1> QED BY <1>7, <1>8

\* An aligned chunk leaves the address of its mapping, and its record there goes.
LEMMA AlignClaims ==
    ASSUME Recorded0, MemInv, ThInv, NEW t \in Threads, Align(t)
    PROVE  Recorded0'
<1>p. PICK p : p = th[t].new
  OBVIOUS
<1>1. /\ p \in RealChunks /\ Address(p) \in Addresses /\ Address(Aligned(p)) = <<p.slot, 1>>
      /\ <<p.slot, 1>> \in Addresses
  BY <1>p, AlignIs
<1>2. After(t, "relock", Aligned(p), th[t].old) /\ live' = live
  <2>1. Goes(t, "relock", Aligned(p)) /\ live' = live
    BY <1>p DEF Align, Aligned
  <2> QED BY <2>1, LocalsAfter
<1>3. /\ \A u \in Threads \ {t} : th'[u] = th[u]
      /\ th'[t].old = th[t].old /\ th'[t].new = Aligned(p)
  BY <1>2 DEF After
<1> SUFFICES ASSUME NEW s \in Slots
             PROVE  AtMost(ClaimsOf(live', th', s), Len(records'[Base(s)]))
  BY DEF Recorded0
<1>S. PICK S : S = ClaimsOf(live, th, s)
  OBVIOUS
<1>T. PICK T : T = ClaimsOf(live', th', s)
  OBVIOUS
<1>c. PICK chain : chain = records[Base(s)]
  OBVIOUS
<1>4. /\ Base(s) \in Addresses /\ records \in [Addresses -> Seq(Lengths)]
      /\ records' = [records EXCEPT ![<<p.slot, 1>>] = <<p.size>> \o @, ![Address(p)] = Older(@)]
  <2>1. Base(s) \in Addresses /\ records \in [Addresses -> Seq(Lengths)]
    BY RegionsAssumption DEF MemInv, Base, Addresses
  <2>2. records' = [records EXCEPT ![Address(Aligned(p))] = <<p.size>> \o @,
                                   ![Address(p)] = Older(@)]
    BY Zenon, <1>p DEF Align, Aligned
  <2> QED BY <2>1, <2>2, <1>1
<1>5. chain \in Seq(Lengths) /\ AtMost(S, Len(chain)) /\ Len(chain) \in Int
  BY <1>4, <1>S, <1>c DEF Recorded0
<1>6. T \subseteq S \ {<<"new", t>>}
  <2> SUFFICES ASSUME NEW x \in T PROVE x \in S \ {<<"new", t>>}
    OBVIOUS
  <2>1. Address(Aligned(p)) # Base(s)
    BY <1>1 DEF Base
  <2>2. \/ x \in S \ {<<"old", t>>, <<"new", t>>}
        \/ x = <<"old", t>> /\ Address(th'[t].old) = Base(s)
    BY <1>2, <1>3, <1>S, <1>T, <2>1, ClaimsAfter
  <2> QED BY <2>2, <1>3, <1>S DEF ClaimsOf
<1>7. <<p.slot, 1>> # Base(s)
  BY DEF Base
<1>8. CASE Address(p) = Base(s)
  <2>1. records'[Base(s)] = Older(chain)
    BY <1>1, <1>4, <1>7, <1>8, <1>c
  <2>2. <<"new", t>> \in S
    BY <1>8, <1>p, <1>S DEF ClaimsOf
  <2>3. Len(chain) # 0
    <3>1. Cardinality(S) # 0 /\ Cardinality(S) \in Nat
      BY <1>5, <2>2, FS_EmptySet, FS_CardinalityType DEF AtMost
    <3> QED BY <1>5, <3>1 DEF AtMost
  <2>4. Len(Older(chain)) = Len(chain) - 1
    BY <1>5, <2>3 DEF Older
  <2>5. AtMost(T, Len(chain) - 1)
    BY <1>5, <1>6, <2>2, OneClaimLess
  <2> QED BY <2>1, <2>4, <2>5, <1>T
<1>9. CASE Address(p) # Base(s)
  <2>1. records'[Base(s)] = chain
    BY <1>1, <1>4, <1>7, <1>9, <1>c
  <2>2. AtMost(T, Len(chain))
    BY <1>5, <1>6, FewerClaims
  <2> QED BY <2>1, <2>2, <1>T
<1> QED BY <1>8, <1>9

\* a step of t that makes no claim: its chunks keep their addresses or go, and a new
\* one is in a heap
ClaimsNothing(t) ==
    /\ \A u \in Threads \ {t} : th'[u] = th[u]
    /\ UNCHANGED records /\ live' \subseteq live
    /\ Address(th'[t].old) \in {Address(th[t].old), Address(NoChunk)}
    /\ th'[t].new \in {th[t].new, NoChunk} \/ th'[t].new.off # 0

LEMMA NothingClaimed ==
    ASSUME Recorded0, MemInv, NEW t \in Threads, ClaimsNothing(t)
    PROVE  Recorded0'
<1>1. ASSUME NEW s \in Slots
      PROVE  /\ Address(th'[t].old) = Base(s) => Address(th[t].old) = Base(s)
             /\ Address(th'[t].new) = Base(s) => Address(th[t].new) = Base(s)
  BY NotBase DEF ClaimsNothing
<1> QED BY <1>1, QuietClaims DEF ClaimsNothing

\* moving on, and the end of a call that gives the program nothing
LEMMA MovesClaim ==
    ASSUME ThInv, NEW t \in Threads, UNCHANGED <<records, live>>,
           \/ \E pt : GoTo(t, pt) \/ Goes(t, pt, NoChunk)
           \/ \E pt, c : Goes(t, pt, c) /\ c.off # 0
           \/ Finish(t)
    PROVE  ClaimsNothing(t)
<1>1. ASSUME NEW pt, GoTo(t, pt) PROVE ClaimsNothing(t)
  BY <1>1, LocalsAfter DEF After, ClaimsNothing
<1>2. ASSUME NEW pt, NEW c, Goes(t, pt, c), c = NoChunk \/ c.off # 0 PROVE ClaimsNothing(t)
  BY <1>2, LocalsAfter DEF After, ClaimsNothing
<1>3. ASSUME Finish(t) PROVE ClaimsNothing(t)
  <2>1. th'[t] = Idle /\ \A u \in Threads \ {t} : th'[u] = th[u]
    BY <1>3, LocalsAfter
  <2> QED BY <2>1 DEF ClaimsNothing, Idle
<1> QED BY <1>1, <1>2, <1>3

LEMMA MallocClaims ==
    ASSUME Recorded0, MemInv, ThInv, NEW t \in Threads,
           \/ CallMalloc(t) \/ LockArena(t) \/ MallocHeap(t) \/ NewHeap(t) \/ AddHeap(t)
           \/ SwitchToMain(t) \/ MallocFails(t) \/ MmapOtherFails(t) \/ Relock(t)
           \/ StartAlign(t) \/ AlignFails(t) \/ Retry(t) \/ Return(t)
    PROVE  Recorded0'
<1>1. CASE CallMalloc(t)
  <2>1. UNCHANGED <<records, live>>
    BY Zenon, <1>1 DEF CallMalloc, tables
  <2>2. PICK a \in Arenas, n \in Sizes \union {0}, op \in {"malloc", "memalign"} :
          th' = [th EXCEPT ![t] = [Idle EXCEPT !.at = "lock", !.op = op, !.arena = a, !.size = n]]
    BY Zenon, <1>1 DEF CallMalloc
  <2>3. ClaimsNothing(t)
    BY <2>1, <2>2 DEF ClaimsNothing, ThInv, Idle
  <2> QED BY <2>3, NothingClaimed
<1>2. CASE LockArena(t) \/ AddHeap(t) \/ SwitchToMain(t) \/ Relock(t) \/ StartAlign(t)
  <2>1. UNCHANGED <<records, live>> /\ \E pt : GoTo(t, pt)
    BY <1>2, ZenonT(60) DEF LockArena, AddHeap, SwitchToMain, Relock, StartAlign, tables
  <2> QED BY <2>1, MovesClaim, NothingClaimed
<1>3. CASE MallocFails(t) \/ MmapOtherFails(t) \/ AlignFails(t)
  <2>1. UNCHANGED <<records, live>> /\ \E pt : Goes(t, pt, NoChunk)
    BY <1>3, ZenonT(60) DEF MallocFails, MmapOtherFails, AlignFails, tables
  <2> QED BY <2>1, MovesClaim, NothingClaimed
<1>4. CASE MallocHeap(t)
  <2>1. UNCHANGED <<records, live>>
    BY <1>4 DEF MallocHeap
  <2>2. PICK s \in HeapsOf(th[t].arena), o \in 1 .. HeapChunks :
            Goes(t, "got", [slot |-> s, off |-> o, size |-> 1, index |-> th[t].arena])
    BY Zenon, <1>4 DEF MallocHeap
  <2>3. PICK c : c = [slot |-> s, off |-> o, size |-> 1, index |-> th[t].arena]
    OBVIOUS
  <2>4. c.off # 0 /\ Goes(t, "got", c)
    BY <2>2, <2>3
  <2> QED BY <2>1, <2>4, MovesClaim, NothingClaimed
<1>5. CASE NewHeap(t)
  <2>1. UNCHANGED <<records, live>>
    BY <1>5 DEF NewHeap, tables
  <2>2. PICK s \in Slots :
            Goes(t, "addheap", [slot |-> s, off |-> 1, size |-> 1, index |-> th[t].arena])
    BY <1>5 DEF NewHeap
  <2>3. PICK c : c = [slot |-> s, off |-> 1, size |-> 1, index |-> th[t].arena]
    OBVIOUS
  <2>4. c.off # 0 /\ Goes(t, "addheap", c)
    BY <2>2, <2>3
  <2> QED BY <2>1, <2>4, MovesClaim, NothingClaimed
<1>6. CASE Retry(t)
  <2>1. UNCHANGED <<records, live>>
    BY Zenon, <1>6 DEF Retry, tables
  <2>2. PICK a \in Arenas : th' = [th EXCEPT ![t].at = "lock", ![t].arena = a, ![t].tried = TRUE]
    BY Zenon, <1>6 DEF Retry
  <2>3. ClaimsNothing(t)
    BY <2>1, <2>2 DEF ClaimsNothing, ThInv, Locals
  <2> QED BY <2>3, NothingClaimed
<1>7. CASE Return(t)
  <2>1. UNCHANGED records
    BY <1>7 DEF Return, tables
  <2>2. CASE GoTo(t, "delete") /\ UNCHANGED live
    BY <2>1, <2>2, MovesClaim, NothingClaimed
  <2>3. CASE live' = live \union ({th[t].new, th[t].old} \ {NoChunk}) /\ Finish(t)
    BY <2>1, <2>3, ReturnClaims
  <2> QED BY <1>7, <2>2, <2>3 DEF Return
<1> QED BY <1>1, <1>2, <1>3, <1>4, <1>5, <1>6, <1>7

LEMMA FreeClaims ==
    ASSUME Recorded0, MemInv, ThInv, NEW t \in Threads,
           \/ FindMmap(t) \/ FindHeap(t) \/ FreeMmapped(t) \/ ReallocMmapped(t)
           \/ LookupDelete(t) \/ Munmap(t) \/ FreeHeap(t) \/ ForgetHeap(t)
    PROVE  Recorded0'
<1>0. ASSUME Abort PROVE Recorded0'
  <2>1. UNCHANGED <<records, live, th>>
    BY <1>0 DEF Abort, tables
  <2>2. ClaimsNothing(t)
    BY <2>1 DEF ClaimsNothing
  <2> QED BY <2>2, NothingClaimed
<1>1. CASE FindMmap(t) \/ LookupDelete(t) \/ Munmap(t) \/ FreeHeap(t) \/ ForgetHeap(t)
  <2>1. Abort \/ (UNCHANGED <<records, live>> /\ ((\E pt : GoTo(t, pt)) \/ Finish(t)))
    BY <1>1, ZenonT(60) DEF FindMmap, LookupDelete, Munmap, FreeHeap, ForgetHeap, tables
  <2> QED BY <1>0, <2>1, MovesClaim, NothingClaimed
<1>2. CASE FindHeap(t) /\ ~Abort
  <2>1. UNCHANGED <<records, live>>
    BY <1>2 DEF FindHeap, tables
  <2>2. th' = [th EXCEPT ![t].at = "heap", ![t].arena = heap_tbl[th[t].old.slot]]
    BY <1>2 DEF FindHeap
  <2>3. ClaimsNothing(t)
    BY <2>1, <2>2 DEF ClaimsNothing, ThInv, Locals
  <2> QED BY <2>3, NothingClaimed
<1>r. ASSUME th[t].at = "mmapped"
      PROVE  Address(Recorded(t)) = Address(th[t].old)
  <2>1. th[t].old \in RealChunks
    BY <1>r, LocalsKnown DEF Known, Freeing
  <2> QED BY <2>1 DEF Recorded, Address, RealChunks
<1>3. CASE FreeMmapped(t) /\ ~Abort
  <2>1. UNCHANGED <<records, live>>
    BY <1>3 DEF FreeMmapped, tables
  <2>2. th' = [th EXCEPT ![t].at = "delete", ![t].old = Recorded(t)] /\ th[t].at = "mmapped"
    BY <1>3 DEF FreeMmapped, At
  <2>3. ClaimsNothing(t)
    BY <2>1, <2>2, <1>r DEF ClaimsNothing, ThInv, Locals
  <2> QED BY <2>3, NothingClaimed
<1>4. CASE ReallocMmapped(t) /\ ~Abort
  <2>1. UNCHANGED records /\ th[t].at = "mmapped"
    BY <1>4, ZenonT(60) DEF ReallocMmapped, tables, At
  <2>2. CASE Finish(t) /\ live' = live \union {th[t].old}
    BY <2>1, <2>2, ReturnClaims
  <2>3. ASSUME NEW a \in Arenas, UNCHANGED live,
               th' = [th EXCEPT ![t].at = "lock", ![t].arena = a, ![t].old = Recorded(t)]
        PROVE  Recorded0'
    <3>1. ClaimsNothing(t)
      BY <2>1, <2>3, <1>r DEF ClaimsNothing, ThInv, Locals
    <3> QED BY <3>1, NothingClaimed
  <2>4. \/ Finish(t) /\ live' = live \union {th[t].old}
        \/ \E a \in Arenas :
              /\ th' = [th EXCEPT ![t].at = "lock", ![t].arena = a, ![t].old = Recorded(t)]
              /\ UNCHANGED live
    BY Zenon, <1>4 DEF ReallocMmapped
  <2> QED BY Zenon, <2>2, <2>3, <2>4
<1> QED BY <1>0, <1>1, <1>2, <1>3, <1>4

\* Every step keeps a record for every claim.
LEMMA RecordedStep ==
    ASSUME Recorded0, MemInv, ThInv, NEW t \in Threads,
           Step(t) \/ CallMalloc(t) \/ Call(t, "free") \/ Call(t, "realloc")
    PROVE  Recorded0'
<1>1. CASE \/ CallMalloc(t) \/ LockArena(t) \/ MallocHeap(t) \/ NewHeap(t) \/ AddHeap(t)
           \/ SwitchToMain(t) \/ MallocFails(t) \/ MmapOtherFails(t) \/ Relock(t)
           \/ StartAlign(t) \/ AlignFails(t) \/ Retry(t) \/ Return(t)
  BY Zenon, <1>1, MallocClaims
<1>2. CASE \/ FindMmap(t) \/ FindHeap(t) \/ FreeMmapped(t) \/ ReallocMmapped(t)
           \/ LookupDelete(t) \/ Munmap(t) \/ FreeHeap(t) \/ ForgetHeap(t)
  BY Zenon, <1>2, FreeClaims
<1>3. CASE Call(t, "free") \/ Call(t, "realloc")
  BY Zenon, <1>3, CallClaims
<1>4. CASE MmapMain(t) \/ MmapOther(t)
  BY Zenon, <1>4, MmapClaims
<1>5. CASE Align(t)
  BY Zenon, <1>5, AlignClaims
<1>6. CASE Unregister(t)
  BY Zenon, <1>6, UnregisterClaims
<1> QED BY Zenon, <1>1, <1>2, <1>3, <1>4, <1>5, <1>6 DEF Step

\* So does every step of the system, and a step that changes nothing.
LEMMA NextRecorded == Inv /\ Recorded0 /\ [Next]_vars => Recorded0'
<1> SUFFICES ASSUME Inv, Recorded0, [Next]_vars PROVE Recorded0'
  OBVIOUS
<1>1. ASSUME NEW t \in Threads,
             Step(t) \/ CallMalloc(t) \/ Call(t, "free") \/ Call(t, "realloc")
      PROVE  Recorded0'
  BY <1>1, RecordedStep DEF Inv
<1>2. CASE UNCHANGED vars
  BY <1>2 DEF vars, tables, Recorded0
<1> QED BY <1>1, <1>2 DEF Next, Finished

\* At first there is neither a claim nor a record.
LEMMA InitRecorded == Init => Recorded0
<1> SUFFICES ASSUME Init, NEW s \in Slots
             PROVE  AtMost(ClaimsOf(live, th, s), Len(records[Base(s)]))
  BY DEF Recorded0
<1>1. live = {} /\ \A t \in Threads : th[t].old = NoChunk /\ th[t].new = NoChunk
  BY DEF Init, Idle
<1>2. ClaimsOf(live, th, s) = {}
  BY <1>1, NotBase DEF ClaimsOf
<1>3. records[Base(s)] = <<>>
  BY RegionsAssumption DEF Init, Base, Addresses
<1> QED BY <1>2, <1>3, FS_EmptySet DEF AtMost

\* A chunk whose address is that of its mapping claims a record there.
LEMMA HasRecord ==
    ASSUME Inv, Recorded0, NEW c \in Mmapped, c.off = 0
    PROVE  records[Address(c)] # <<>>
<1>1. c \in Held /\ c \in RealChunks
  BY HeldReal DEF Mmapped, Inv
<1>2. c.slot \in Slots /\ Address(c) = Base(c.slot)
  BY <1>1 DEF RealChunks, Address, Base
<1> DEFINE S == ClaimsOf(live, th, c.slot)
<1>3. S # {}
  <2>1. c \in live \/ \E t \in Threads : c \in Mine(th[t])
    BY <1>1, HeldIs DEF Inv
  <2>2. c \in live \/ \E t \in Threads : c = th[t].old \/ c = th[t].new
    BY <2>1 DEF Mine
  <2>3. CASE c \in live
    BY <1>2, <2>3 DEF ClaimsOf
  <2>4. ASSUME NEW t \in Threads, c = th[t].old \/ c = th[t].new PROVE S # {}
    BY <1>2, <2>4 DEF ClaimsOf
  <2> QED BY <2>2, <2>3, <2>4
<1>4. AtMost(S, Len(records[Base(c.slot)]))
  BY <1>2 DEF Recorded0
<1> HIDE DEF S
<1>5. Cardinality(S) # 0 /\ Cardinality(S) \in Nat
  BY <1>3, <1>4, FS_EmptySet, FS_CardinalityType DEF AtMost
<1>6. Len(records[Base(c.slot)]) # 0
  <2>1. Len(records[Base(c.slot)]) \in Nat
    BY <1>2, RegionsAssumption DEF Inv, MemInv, Base, Addresses
  <2> QED BY <1>4, <1>5, <2>1 DEF AtMost
<1> QED BY <1>2, <1>6

\* What a lookup (lookup.c) finds is mapped memory, as long as no slot came back before it
\* was forgotten; and in any case free and realloc (malloc.c) find a record for each mmapped
\* chunk that was not aligned, although realloc unregisters a chunk after it was unmapped.
THEOREM NoneStaleAlways == Spec => []NoneStale
<1>1. Spec => []Recorded0
  BY InitRecorded, NextRecorded, InvAlways, PTL DEF Spec
<1>2. Inv /\ InOrder /\ Recorded0 => NoneStale
  <2> SUFFICES ASSUME Inv, InOrder, Recorded0 PROVE NoneStale
    OBVIOUS
  <2>1. \A c \in Mmapped : c.off = 0 => records[Address(c)] # <<>>
    BY HasRecord
  <2>2. ~reused => \A a \in Addresses :
          mmap_tbl[a] # 0 => \A s \in a[1] .. a[1] + mmap_tbl[a] - 1 : mem[s] = "mmap"
    BY DEF InOrder, Tidy, EntriesOK, Entries, Extent
  <2> QED BY <2>1, <2>2 DEF NoneStale
<1> QED BY <1>1, <1>2, InvAlways, InOrderAlways, PTL
================================================================================
