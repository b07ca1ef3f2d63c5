------------------------------- MODULE ArenaList -------------------------------
(***************************************************************************)
(* How threads get an arena (arena.c): the cyclic list of arenas, the free *)
(* list of those that no thread uses, and the mutexes.  A thread first     *)
(* tries the arena it is attached to, then the free list, then makes a new *)
(* arena, and from the limit on takes the first one it can lock.  list_lock *)
(* protects free_list, next_free and attached_threads; everything else is  *)
(* read and written without it.                                            *)
(*                                                                         *)
(* Every wait for a mutex is a step of its own; so is every access to what *)
(* no lock protects.  The arenas are numbered by arena_index, which is     *)
(* their order in the list; the main arena is the first.                   *)
(***************************************************************************)
EXTENDS Integers, FiniteSets

CONSTANTS
    Threads,
    ArenaMax,       \* mp_.arena_max, 0 if it is not set
    ArenaTest,      \* mp_.arena_test
    CoresLimit,     \* the limit that follows from the number of cores
    MaxArenas,      \* bound on the number of arenas
    Corruptible,    \* the arenas whose corruption may be detected
    MaxForks        \* bound on the number of forks

NULL   == 0
main   == 1
Arenas == 1 .. MaxArenas
NoOne  == "no thread"

ASSUME LimitAssumption ==
    /\ ArenaMax \in Nat /\ ArenaTest \in Nat \ {0} /\ CoresLimit \in Nat \ {0}
    /\ MaxArenas \in Nat \ {0} /\ MaxForks \in Nat
ASSUME ThreadAssumption ==
    IsFiniteSet(Threads) /\ NoOne \notin Threads /\ Corruptible \subseteq Arenas

VARIABLES
    arena_count,      \* arenas in the cyclic list
    narenas,          \* arenas that were made, or are being made
    narenas_limit,    \* how many there may be, 0 as long as it is not known
    free_list,        \* the first arena of the free list
    next_free,        \* the next one, for every arena
    attached_threads, \* of every arena
    corrupt,          \* arena_is_corrupt
    next_to_use,      \* where reused_arena starts, NULL before its first call
    list_lock,        \* who holds list_lock
    mutex,            \* who holds the mutex of every arena
    thread_arena,     \* the arena each thread is attached to
    forks,            \* forks so far
    th                \* where each thread is, with its locals

list    == <<arena_count, narenas, narenas_limit, next_to_use, corrupt>>
freeing == <<free_list, next_free, attached_threads>>
locks   == <<list_lock, mutex>>
vars == <<list, freeing, locks, thread_arena, forks, th>>

Points == {"idle", "get", "free_list", "lock_free", "arena_get2", "repeat", "cas",
           "new_heap", "link", "lock_new", "try", "wait", "attach", "advance",
           "int_malloc", "retry", "lock_visit", "visit", "exit", "lock_list",
           "lock_all", "forked"}

Idle == [at |-> "idle", ar |-> NULL, avoid |-> NULL, n |-> 0, retried |-> FALSE]

Init ==
    /\ arena_count = 1 /\ narenas = 1 /\ narenas_limit = 0
    /\ free_list = NULL
    /\ next_free = [a \in Arenas |-> NULL]
    \* the first thread starts attached to the main arena
    /\ \E t \in Threads :
          thread_arena = [u \in Threads |-> IF u = t THEN main ELSE NULL]
    /\ attached_threads = [a \in Arenas |-> IF a = main THEN 1 ELSE 0]
    /\ corrupt = {}
    /\ next_to_use = NULL
    /\ list_lock = NoOne
    /\ mutex = [a \in Arenas |-> NoOne]
    /\ forks = 0
    /\ th = [t \in Threads |-> Idle]

At(t, point) == th[t].at = point
GoTo(t, point) == th' = [th EXCEPT ![t].at = point]
GoWith(t, point, a) == th' = [th EXCEPT ![t].at = point, ![t].ar = a]
Finish(t) == th' = [th EXCEPT ![t] = Idle]

\* a->next
NextArena(a) == IF a = arena_count THEN main ELSE a + 1

Lock(t, a)   == mutex[a] = NoOne /\ mutex' = [mutex EXCEPT ![a] = t]
Unlock(t, a) == mutex' = [mutex EXCEPT ![a] = NoOne]

\* arena a has n threads now; detach_arena takes the thread off the one it had
Attach(t, a, n) ==
    LET old == thread_arena[t]
        in  == [attached_threads EXCEPT ![a] = n]
    IN  attached_threads' = IF old = NULL THEN in ELSE [in EXCEPT ![old] = @ - 1]

(***************************************************************************)
(* __libc_malloc                                                           *)
(***************************************************************************)
\* While a fork holds everything, the hooks make other threads wait for list_lock.
Forking == \E t \in Threads : At(t, "forked")

CallMalloc(t) ==
    /\ At(t, "idle") /\ ~Forking
    /\ LET a == thread_arena[t]
       IN  IF a # NULL /\ a \notin corrupt THEN GoWith(t, "get", a)
           ELSE GoTo(t, "free_list")
    /\ UNCHANGED <<list, freeing, locks, thread_arena, forks>>

LockOwn(t) ==
    /\ At(t, "get")
    /\ Lock(t, th[t].ar)
    /\ GoTo(t, "int_malloc")
    /\ UNCHANGED <<list, freeing, list_lock, thread_arena, forks>>

\* Mutant: the mutex is kept while another arena is tried.
FailMutant(t) ==
    /\ At(t, "int_malloc") /\ ~th[t].retried
    /\ th' = [th EXCEPT ![t] = [Idle EXCEPT !.at = IF th[t].ar = main THEN "free_list"
                                                                      ELSE "retry",
                                            !.avoid = th[t].ar, !.retried = TRUE]]
    /\ UNCHANGED <<list, freeing, locks, thread_arena, forks>>

\* _int_malloc fails: arena_get_retry goes on to the main arena, or from it to another
Fail(t) ==
    /\ At(t, "int_malloc") /\ ~th[t].retried
    /\ Unlock(t, th[t].ar)
    /\ th' = [th EXCEPT ![t] =
                  IF th[t].ar = main
                  THEN [Idle EXCEPT !.at = "free_list", !.avoid = main, !.retried = TRUE]
                  ELSE IF main \in corrupt THEN Idle
                  ELSE [Idle EXCEPT !.at = "retry", !.retried = TRUE]]
    /\ UNCHANGED <<list, freeing, list_lock, thread_arena, forks>>

LockMain(t) ==
    /\ At(t, "retry")
    /\ Lock(t, main)
    /\ GoWith(t, "int_malloc", main)
    /\ UNCHANGED <<list, freeing, list_lock, thread_arena, forks>>

\* malloc returns; _int_malloc may have found the arena corrupt
Return(t) ==
    /\ At(t, "int_malloc")
    /\ Unlock(t, th[t].ar)
    /\ corrupt' \in {corrupt, corrupt \cup ({th[t].ar} \cap Corruptible)}
    /\ Finish(t)
    /\ UNCHANGED <<arena_count, narenas, narenas_limit, next_to_use, freeing, list_lock,
                   thread_arena, forks>>

\* free, realloc, malloc_trim, mallinfo: any arena of the list
CallVisit(t) ==
    /\ At(t, "idle") /\ ~Forking
    /\ \E a \in 1 .. arena_count : GoWith(t, "lock_visit", a)
    /\ UNCHANGED <<list, freeing, locks, thread_arena, forks>>

Visit(t) ==
    /\ At(t, "lock_visit")
    /\ Lock(t, th[t].ar)
    /\ GoTo(t, "visit")
    /\ UNCHANGED <<list, freeing, list_lock, thread_arena, forks>>

Leave(t) ==
    /\ At(t, "visit")
    /\ Unlock(t, th[t].ar)
    /\ Finish(t)
    /\ UNCHANGED <<list, freeing, list_lock, thread_arena, forks>>

(***************************************************************************)
(* get_free_list                                                           *)
(***************************************************************************)
\* Mutant: the arena stays on the free list.
GetFreeListMutant(t) ==
    /\ At(t, "free_list") /\ list_lock = NoOne
    /\ IF free_list = NULL THEN GoTo(t, "arena_get2") /\ UNCHANGED attached_threads
       ELSE Attach(t, free_list, 1) /\ GoWith(t, "lock_free", free_list)
    /\ UNCHANGED <<list, free_list, next_free, locks, thread_arena, forks>>

\* free_list is read without the lock, then again with it
GetFreeList(t) ==
    /\ At(t, "free_list")
    /\ \/ \* nothing there, at the first look or the second
          /\ free_list = NULL
          /\ GoTo(t, "arena_get2")
          /\ UNCHANGED freeing
       \/ /\ free_list # NULL /\ list_lock = NoOne
          /\ free_list' = next_free[free_list]
          /\ Attach(t, free_list, 1)
          /\ GoWith(t, "lock_free", free_list)
          /\ UNCHANGED next_free
    /\ UNCHANGED <<list, locks, thread_arena, forks>>

LockFree(t) ==
    /\ At(t, "lock_free")
    /\ Lock(t, th[t].ar)
    /\ thread_arena' = [thread_arena EXCEPT ![t] = th[t].ar]
    /\ GoTo(t, "int_malloc")
    /\ UNCHANGED <<list, freeing, list_lock, forks>>

(***************************************************************************)
(* arena_get2 and _int_new_arena                                           *)
(***************************************************************************)
\* the limit, once it is needed
ArenaGet2(t) ==
    /\ At(t, "arena_get2")
    /\ narenas_limit' = IF narenas_limit # 0 THEN narenas_limit
                        ELSE IF ArenaMax # 0 THEN ArenaMax
                        ELSE IF narenas > ArenaTest THEN CoresLimit ELSE 0
    /\ GoTo(t, "repeat")
    /\ UNCHANGED <<arena_count, narenas, next_to_use, corrupt, freeing, locks,
                   thread_arena, forks>>

\* reused_arena begins at the main arena when it is called for the first time
Repeat(t) ==
    LET more  == narenas_limit = 0 \/ narenas < narenas_limit
        first == IF next_to_use = NULL THEN main ELSE next_to_use
    IN  /\ At(t, "repeat")
        /\ th' = [th EXCEPT ![t].n = narenas, ![t].ar = first,
                            ![t].at = IF more THEN "cas" ELSE "try"]
        /\ next_to_use' = IF more THEN next_to_use ELSE first
        /\ UNCHANGED <<arena_count, narenas, narenas_limit, corrupt, freeing, locks,
                       thread_arena, forks>>

\* Mutant: narenas is written without comparing.
CasMutant(t) ==
    /\ At(t, "cas")
    /\ narenas' = th[t].n + 1
    /\ GoTo(t, "new_heap")
    /\ UNCHANGED <<arena_count, narenas_limit, next_to_use, corrupt, freeing, locks,
                   thread_arena, forks>>

Cas(t) ==
    /\ At(t, "cas")
    /\ IF narenas = th[t].n
       THEN narenas' = narenas + 1 /\ GoTo(t, "new_heap")
       ELSE GoTo(t, "repeat") /\ UNCHANGED narenas
    /\ UNCHANGED <<arena_count, narenas_limit, next_to_use, corrupt, freeing, locks,
                   thread_arena, forks>>

\* no memory for a heap: no arena, and malloc goes on without one
NewHeap(t) ==
    /\ At(t, "new_heap")
    /\ \/ GoTo(t, "link") /\ UNCHANGED narenas
       \/ narenas' = narenas - 1 /\ Finish(t)
    /\ UNCHANGED <<arena_count, narenas_limit, next_to_use, corrupt, freeing, locks,
                   thread_arena, forks>>

\* the new arena joins the list, then the thread locks it
Link(t) ==
    /\ At(t, "link") /\ list_lock = NoOne
    /\ list_lock' = t
    /\ arena_count' = arena_count + 1
    /\ Attach(t, arena_count', 1)
    /\ thread_arena' = [thread_arena EXCEPT ![t] = arena_count']
    /\ GoWith(t, "lock_new", arena_count')
    /\ UNCHANGED <<narenas, narenas_limit, next_to_use, corrupt, free_list, next_free,
                   mutex, forks>>

\* Mutant: list_lock is not released.
LockNewMutant(t) ==
    /\ At(t, "lock_new")
    /\ Lock(t, th[t].ar)
    /\ GoTo(t, "int_malloc")
    /\ UNCHANGED <<list, freeing, list_lock, thread_arena, forks>>

LockNew(t) ==
    /\ At(t, "lock_new")
    /\ Lock(t, th[t].ar)
    /\ list_lock' = NoOne
    /\ GoTo(t, "int_malloc")
    /\ UNCHANGED <<list, freeing, thread_arena, forks>>

(***************************************************************************)
(* reused_arena                                                            *)
(***************************************************************************)
\* One turn of the loop: mutex_trylock, else the next arena.  After a full turn the
\* next one that is neither corrupt nor the one to avoid is waited for, unless that
\* is the one the search began with.
Try(t) ==
    LET a     == th[t].ar
        after == NextArena(a)
        begin == IF after = th[t].avoid THEN NextArena(after) ELSE after
        bad(x) == x \in corrupt \/ x = th[t].avoid
        good  == {x \in 1 .. arena_count : ~bad(x)}
        dist(x) == (x - begin) % arena_count
    IN  /\ At(t, "try")
        /\ IF a \notin corrupt /\ mutex[a] = NoOne
           THEN Lock(t, a) /\ GoTo(t, "attach")
           ELSE /\ \/ after # next_to_use /\ GoWith(t, "try", after)
                   \/ after = next_to_use /\ (good = {} \/ ~bad(begin)) /\ Finish(t)
                   \/ /\ after = next_to_use /\ bad(begin)
                      /\ \E x \in good : /\ \A y \in good : dist(x) <= dist(y)
                                        /\ GoWith(t, "wait", x)
                /\ UNCHANGED mutex
        /\ UNCHANGED <<list, freeing, list_lock, thread_arena, forks>>

Wait(t) ==
    /\ At(t, "wait")
    /\ Lock(t, th[t].ar)
    /\ GoTo(t, "attach")
    /\ UNCHANGED <<list, freeing, list_lock, thread_arena, forks>>

Reuse(t) ==
    LET a == th[t].ar
    IN  /\ At(t, "attach") /\ list_lock = NoOne
        /\ Attach(t, a, attached_threads[a] + 1)
        /\ thread_arena' = [thread_arena EXCEPT ![t] = a]
        /\ GoTo(t, "advance")
        /\ UNCHANGED <<list, free_list, next_free, locks, forks>>

Advance(t) ==
    /\ At(t, "advance")
    /\ next_to_use' = NextArena(th[t].ar)
    /\ GoTo(t, "int_malloc")
    /\ UNCHANGED <<arena_count, narenas, narenas_limit, corrupt, freeing, locks,
                   thread_arena, forks>>

(***************************************************************************)
(* arena_thread_freeres: the thread ends; another may start in its place.  *)
(***************************************************************************)
CallExit(t) ==
    /\ At(t, "idle") /\ thread_arena[t] # NULL
    /\ GoWith(t, "exit", thread_arena[t])
    /\ thread_arena' = [thread_arena EXCEPT ![t] = NULL]
    /\ UNCHANGED <<list, freeing, locks, forks>>

Exit(t) ==
    LET a == th[t].ar
    IN  /\ At(t, "exit") /\ list_lock = NoOne
        /\ attached_threads' = [attached_threads EXCEPT ![a] = @ - 1]
        /\ IF attached_threads'[a] = 0
           THEN next_free' = [next_free EXCEPT ![a] = free_list] /\ free_list' = a
           ELSE UNCHANGED <<free_list, next_free>>
        /\ Finish(t)
        /\ UNCHANGED <<list, locks, thread_arena, forks>>

(***************************************************************************)
(* fork: ptmalloc_lock_all before it; then ptmalloc_unlock_all in the      *)
(* parent, or ptmalloc_unlock_all2 in the child, where only one thread is. *)
(***************************************************************************)
CallFork(t) ==
    /\ At(t, "idle") /\ ~Forking /\ forks < MaxForks
    /\ forks' = forks + 1
    /\ GoTo(t, "lock_list")
    /\ UNCHANGED <<list, freeing, locks, thread_arena>>

LockList(t) ==
    /\ At(t, "lock_list") /\ list_lock = NoOne
    /\ list_lock' = t
    /\ GoWith(t, "lock_all", main)
    /\ UNCHANGED <<list, freeing, mutex, thread_arena, forks>>

LockAll(t) ==
    /\ At(t, "lock_all")
    /\ Lock(t, th[t].ar)
    /\ IF NextArena(th[t].ar) = main THEN GoWith(t, "forked", NULL)
       ELSE GoWith(t, "lock_all", NextArena(th[t].ar))
    /\ UNCHANGED <<list, freeing, list_lock, thread_arena, forks>>

UnlockAll(t) ==
    /\ At(t, "forked")
    /\ mutex' = [a \in Arenas |-> NoOne]
    /\ list_lock' = NoOne
    /\ Finish(t)
    /\ UNCHANGED <<list, freeing, thread_arena, forks>>

\* Mutant: the counts of the parent are kept.
UnlockAll2Mutant(t) ==
    /\ At(t, "forked")
    /\ mutex' = [a \in Arenas |-> NoOne] /\ list_lock' = NoOne
    /\ thread_arena' = [u \in Threads |-> IF u = t THEN thread_arena[t] ELSE NULL]
    /\ th' = [u \in Threads |-> Idle]
    /\ UNCHANGED <<list, freeing, forks>>

\* all arenas but the thread's own go to the free list, the last one first; before the
\* first one, or if there is no other, comes NULL
UnlockAll2(t) ==
    LET own == thread_arena[t]
        others == 1 .. arena_count \ {own}
        before(a) == IF own # NULL /\ a - 1 = own THEN a - 2 ELSE a - 1
    IN  /\ At(t, "forked")
        /\ mutex' = [a \in Arenas |-> NoOne] /\ list_lock' = NoOne
        /\ attached_threads' = [a \in Arenas |-> IF a = own THEN 1
                                                 ELSE IF a \in others THEN 0
                                                 ELSE attached_threads[a]]
        /\ free_list' = before(arena_count + 1)
        /\ next_free' = [a \in Arenas |-> IF a \in others THEN before(a)
                                          ELSE next_free[a]]
        /\ thread_arena' = [u \in Threads |-> IF u = t THEN own ELSE NULL]
        /\ th' = [u \in Threads |-> Idle]
        /\ UNCHANGED <<list, forks>>

-----------------------------------------------------------------------------
Call(t) == CallMalloc(t) \/ CallVisit(t) \/ CallExit(t) \/ CallFork(t)

Step(t) ==
    \/ LockOwn(t) \/ Fail(t) \/ LockMain(t) \/ Return(t) \/ Visit(t) \/ Leave(t)
    \/ GetFreeList(t) \/ LockFree(t) \/ ArenaGet2(t) \/ Repeat(t) \/ Cas(t)
    \/ NewHeap(t) \/ Link(t) \/ LockNew(t)
    \/ Try(t) \/ Wait(t) \/ Reuse(t) \/ Advance(t)
    \/ Exit(t) \/ LockList(t) \/ LockAll(t) \/ UnlockAll(t) \/ UnlockAll2(t)

Next == \E t \in Threads : Call(t) \/ Step(t)

Spec == Init /\ [][Next]_vars

\* a thread that is not blocked keeps running, and a mutex that is free again and
\* again is got at last
FairSpec == Spec /\ \A t \in Threads : SF_vars(Step(t))

(***************************************************************************)
(* Properties.                                                             *)
(***************************************************************************)
TypeOK ==
    /\ arena_count \in Arenas /\ narenas \in Nat /\ narenas_limit \in Nat
    /\ next_to_use \in Arenas \cup {NULL}
    /\ free_list \in Arenas \cup {NULL}
    /\ next_free \in [Arenas -> Arenas \cup {NULL}]
    /\ attached_threads \in [Arenas -> Int]
    /\ corrupt \subseteq Corruptible
    /\ list_lock \in Threads \cup {NoOne}
    /\ mutex \in [Arenas -> Threads \cup {NoOne}]
    /\ thread_arena \in [Threads -> Arenas \cup {NULL}]
    /\ forks \in 0 .. MaxForks
    /\ th \in [Threads -> [at : Points, ar : Arenas \cup {NULL},
                           avoid : Arenas \cup {NULL}, n : Nat, retried : BOOLEAN]]

\* the threads that make an arena, counted in narenas already
Making == {t \in Threads : th[t].at \in {"new_heap", "link"}}

\* No more arenas are made than the limit allows, though the count is read and written
\* without a lock; as long as nobody knows the limit, every thread may make one arena
\* more than arena_test.
WithinLimit ==
    /\ arena_count + Cardinality(Making) <= narenas
    /\ IF ArenaMax # 0 THEN narenas <= ArenaMax
       ELSE narenas <= CoresLimit \/ narenas <= ArenaTest + Cardinality(Threads)

\* the arenas whose mutex a thread at this point holds
Held(t) ==
    CASE th[t].at \in {"attach", "advance", "int_malloc", "visit"} -> {th[t].ar}
      [] th[t].at = "lock_all" -> 1 .. th[t].ar - 1
      [] th[t].at = "forked"   -> 1 .. arena_count
      [] OTHER -> {}

\* A thread holds one arena's mutex while it allocates, and none while it waits for
\* another's, unless it forks.
OneMutex ==
    /\ \A a \in Arenas, t \in Threads : mutex[a] = t <=> a \in Held(t)
    /\ \A t \in Threads : list_lock = t <=> th[t].at \in {"lock_new", "lock_all", "forked"}

\* the arenas on the free list: the fewest that have the first one and, of each, the next
OnFreeList ==
    LET closed(S) == /\ free_list \in S \cup {NULL}
                     /\ \A a \in S : next_free[a] \in S \cup {NULL}
    IN  {a \in Arenas : \A S \in SUBSET Arenas : closed(S) => a \in S}

\* the threads attached to a; one that waits for the mutex of an arena of the free
\* list is, and one that ends still is
Attached(a) ==
    {t \in Threads : IF th[t].at \in {"lock_free", "exit"} THEN th[t].ar = a
                     ELSE thread_arena[t] = a}

\* arena.c 1015: arenas on the free list are not attached to any thread. It holds until
\* reused_arena, which also goes to arenas of the free list, is called for the first time.
FreeListDetached == next_to_use = NULL => \A a \in OnFreeList : Attached(a) = {}

\* attached_threads counts the threads attached, so that an arena becomes free when
\* the last one ends; until reused_arena is called, for get_free_list then forgets the
\* threads that it attached.
AttachedCounted ==
    next_to_use = NULL =>
        \A a \in 1 .. arena_count : attached_threads[a] = Cardinality(Attached(a))

\* arena.c 57: no thread waits for an arena that a thread waiting for list_lock holds.
NoDeadlock ==
    ~ \E t, u \in Threads :
        /\ th[t].at \in {"lock_new", "lock_all"} /\ mutex[th[t].ar] = u
        /\ th[u].at = "attach"

\* Every call returns, unless the cycle of locks closes; only the loop that counts a
\* new arena can go on, and only while other threads get no memory for theirs again
\* and again.
CallsReturn ==
    []NoDeadlock /\ <>[][narenas' >= narenas]_narenas =>
        \A t \in Threads : ~At(t, "idle") ~> At(t, "idle")
=============================================================================
