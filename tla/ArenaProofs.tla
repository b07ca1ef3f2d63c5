------------------------------ MODULE ArenaProofs ------------------------------
(***************************************************************************)
(* Proofs about the arenas.  Part 1 is about ArenaList, the arenas and the *)
(* threads; part 2 about ArenaHeaps, the heaps and chunks of one arena.    *)
(* The two specifications have no variable in common.                      *)
(***************************************************************************)
EXTENDS ArenaList, ArenaHeaps, FiniteSetTheorems, WellFoundedInduction, TLAPS

(***************************************************************************)
(* Part 1: the list of arenas, when M_ARENA_MAX is set: the types, that no *)
(* more arenas are made than it allows, and that threads hold the mutexes  *)
(* that they should.                                                       *)
(*                                                                         *)
(* The inductive invariant Inv has five parts.  The list may not outgrow   *)
(* the arenas of the model, so that the types need the limit; the limit    *)
(* needs what a thread knows between the test and the compare-and-swap;    *)
(* and OneMutex needs the types to name the arena that a thread locks.     *)
(***************************************************************************)

\* M_ARENA_MAX is set, and the model has that many arenas.
LimitKnown == ArenaMax \in 1 .. MaxArenas

\* the points where a thread works on an arena
Locking == {"get", "lock_free", "lock_new", "try", "wait", "attach", "advance",
            "int_malloc", "lock_visit", "visit", "exit", "lock_all"}

\* the locals of a thread while the list has n arenas
Locals(n) == [at : Points, ar : 0 .. n, avoid : {NULL, main}, n : Nat, retried : BOOLEAN]

\* the locals f of all threads
ThInv(n, f) ==
    /\ f \in [Threads -> Locals(n)]
    /\ \A t \in Threads : f[t].at \in Locking => f[t].ar # NULL

\* the arenas that the list variables refer to are in the list
ListInv ==
    /\ arena_count \in Nat \ {0}
    /\ next_to_use \in 0 .. arena_count
    /\ free_list \in 0 .. arena_count
    /\ next_free \in [Arenas -> 0 .. arena_count]
    /\ thread_arena \in [Threads -> 0 .. arena_count]

\* A step to another point keeps the types of the locals.
LEMMA GoToType ==
    ASSUME NEW n \in Nat, ThInv(n, th), NEW t \in Threads,
           NEW pt, pt \in Points, GoTo(t, pt), pt \in Locking => th[t].ar # NULL
    PROVE  /\ ThInv(n, th')
           /\ th'[t].at = pt /\ th'[t].ar = th[t].ar /\ th'[t].n = th[t].n
           /\ \A u \in Threads \ {t} : th'[u] = th[u]
BY DEF GoTo, Locals, ThInv

\* So does a step to another point with another arena,
LEMMA GoWithType ==
    ASSUME NEW n \in Nat, ThInv(n, th), NEW t \in Threads,
           NEW pt, pt \in Points, NEW a, a \in 0 .. n, GoWith(t, pt, a),
                  pt \in Locking => a # NULL
    PROVE  /\ ThInv(n, th')
           /\ th'[t].at = pt /\ th'[t].ar = a /\ th'[t].n = th[t].n
           /\ \A u \in Threads \ {t} : th'[u] = th[u]
BY DEF GoWith, Locals, ThInv

\* the return of a call,
LEMMA FinishType ==
    ASSUME NEW n \in Nat, ThInv(n, th), NEW t \in Threads, Finish(t)
    PROVE  /\ ThInv(n, th')
           /\ th'[t] = Idle
           /\ \A u \in Threads \ {t} : th'[u] = th[u]
BY DEF Finish, Locals, ThInv, Idle, NULL, Points, Locking

\* The list always has the main arena.
LEMMA ListMain ==
    ASSUME ListInv
    PROVE  /\ main \in 0 .. arena_count /\ main # NULL
           /\ NULL \in 0 .. arena_count /\ arena_count \in Nat
BY DEF ListInv, NULL, main

\* and any other record of locals.
LEMMA SetType ==
    ASSUME NEW n \in Nat, ThInv(n, th), NEW t \in Threads,
           NEW r \in Locals(n), r.at \in Locking => r.ar # NULL, th' = [th EXCEPT ![t] = r]
    PROVE  /\ ThInv(n, th')
           /\ th'[t] = r
           /\ \A u \in Threads \ {t} : th'[u] = th[u]
BY DEF ThInv

\* The locals stay valid when an arena joins the list.
LEMMA MoreArenas ==
    ASSUME NEW n \in Nat, ThInv(n, th)
    PROVE  ThInv(n + 1, th)
BY DEF ThInv, Locals

\* A thread outside malloc works on no arena.
LEMMA IdleType ==
    ASSUME NEW n \in Nat
    PROVE  Idle \in Locals(n) /\ Idle.at \notin Locking
BY DEF Idle, Locals, Points, NULL, Locking

\* The arena a thread works on is in the list, and is there where it locks it.
LEMMA ArKnown ==
    ASSUME NEW n \in Nat, ThInv(n, th), NEW t \in Threads
    PROVE  /\ th[t] \in Locals(n)
           /\ th[t].ar \in 0 .. n /\ th[t].at \in Points
           /\ th[t].at \in Locking => th[t].ar # NULL
BY DEF ThInv, Locals

\* The arenas of the list and of the free list are among those of the model.
LEMMA Bounded ==
    ASSUME ListInv, arena_count <= MaxArenas
    PROVE  /\ 1 .. arena_count \subseteq Arenas
           /\ free_list # NULL => free_list \in Arenas
BY LimitAssumption DEF ListInv, Arenas, NULL

\* Every step leaves each thread with an arena of the list where it needs one (arena.c
\* 1037-1098: the search in reused_arena never leaves the cycle).
LEMMA ThStep ==
    ASSUME ListInv, ThInv(arena_count, th), narenas \in Nat, NEW t \in Threads,
           Call(t) \/ Step(t)
    PROVE  ThInv(arena_count', th')
<1> USE ListMain DEF At, list, Points, Locking
<1>1. CASE CallMalloc(t)
  BY <1>1, GoWithType, GoToType, ArKnown DEF CallMalloc, ListInv
<1>2. CASE CallVisit(t)
  <2>1. PICK a \in 1 .. arena_count : GoWith(t, "lock_visit", a)
    BY <1>2 DEF CallVisit
  <2>2. a \in 0 .. arena_count /\ a # NULL
    BY DEF NULL
  <2> QED BY <1>2, <2>1, <2>2, GoWithType DEF CallVisit
<1>3. CASE CallExit(t)
  <2>1. PICK a : a = thread_arena[t]
    OBVIOUS
  <2>2. GoWith(t, "exit", a) /\ a # NULL /\ arena_count' = arena_count
    BY <1>3, <2>1 DEF CallExit
  <2>3. a \in 0 .. arena_count /\ arena_count \in Nat
    BY <2>1 DEF ListInv
  <2> QED BY <2>2, <2>3, GoWithType
<1>4. CASE CallFork(t)
  BY <1>4, GoToType, ArKnown DEF CallFork, ListInv
<1>5. CASE LockOwn(t)
  BY <1>5, GoToType, ArKnown DEF LockOwn, ListInv
<1>6. CASE Fail(t)
  <2> DEFINE r == IF th[t].ar = main
                  THEN [Idle EXCEPT !.at = "free_list", !.avoid = main, !.retried = TRUE]
                  ELSE IF main \in corrupt THEN Idle
                  ELSE [Idle EXCEPT !.at = "retry", !.retried = TRUE]
  <2>1. r \in Locals(arena_count) /\ r.at \notin Locking
    BY DEF Idle, Locals, NULL, main, ListInv
  <2> QED BY <1>6, <2>1, SetType DEF Fail
<1>7. CASE LockMain(t)
  BY <1>7, GoWithType, ArKnown DEF LockMain, ListInv
<1>8. CASE Return(t)
  BY <1>8, FinishType DEF Return, ListInv
<1>9. CASE Visit(t)
  BY <1>9, GoToType, ArKnown DEF Visit, ListInv
<1>10. CASE Leave(t)
  BY <1>10, FinishType DEF Leave, ListInv
<1>11. CASE GetFreeList(t)
  BY <1>11, GoWithType, GoToType, ArKnown DEF GetFreeList, ListInv
<1>12. CASE LockFree(t)
  BY <1>12, GoToType, ArKnown DEF LockFree, ListInv
<1>13. CASE ArenaGet2(t)
  BY <1>13, GoToType, ArKnown DEF ArenaGet2, ListInv
<1>14. CASE Repeat(t)
  <2> DEFINE first == IF next_to_use = NULL THEN main ELSE next_to_use
             r == [th[t] EXCEPT !.n = narenas, !.ar = first,
                       !.at = IF narenas_limit = 0 \/ narenas < narenas_limit
                              THEN "cas" ELSE "try"]
  <2>1. first \in 1 .. arena_count
    BY DEF ListInv, NULL, main
  <2>2. r \in Locals(arena_count) /\ r.ar # NULL
    <3>1. th[t] \in Locals(arena_count) /\ first \in 0 .. arena_count /\ first # NULL
      BY <2>1, ArKnown DEF NULL
    <3>2. (IF narenas_limit = 0 \/ narenas < narenas_limit THEN "cas" ELSE "try") \in Points
      BY DEF Points
    <3> HIDE DEF Points, first
    <3> QED BY <3>1, <3>2 DEF Locals
  <2>3. th' = [th EXCEPT ![t] = r]
    BY <1>14 DEF Repeat
  <2>4. next_to_use' \in 0 .. arena_count /\ arena_count' = arena_count
    BY <1>14, <2>1 DEF Repeat, ListInv
  <2>5. ThInv(arena_count, th')
    BY <2>2, <2>3, SetType
  <2> QED BY <1>14, <2>4, <2>5 DEF Repeat, ListInv, freeing
<1>15. CASE Cas(t)
  BY <1>15, GoToType, ArKnown DEF Cas, ListInv
<1>16. CASE NewHeap(t)
  BY <1>16, GoToType, FinishType, ArKnown DEF NewHeap, ListInv
<1>17. CASE Link(t)
  <2>1. ThInv(arena_count', th) /\ arena_count' \in Nat \ {0}
    BY <1>17, MoreArenas DEF Link, ListInv
  <2>2. arena_count' \in 0 .. arena_count' /\ arena_count' # NULL
    BY <2>1 DEF NULL
  <2> QED BY <1>17, <2>1, <2>2, GoWithType DEF Link
<1>18. CASE LockNew(t)
  BY <1>18, GoToType, ArKnown DEF LockNew, ListInv
<1>19. CASE Try(t)
  <2> DEFINE a     == th[t].ar
             after == NextArena(a)
  <2>1. a \in 1 .. arena_count /\ after \in 0 .. arena_count /\ after # NULL
    BY <1>19, ArKnown DEF Try, NextArena, NULL, main, ListInv
  <2>2. \/ GoTo(t, "attach")
        \/ GoWith(t, "try", after)
        \/ Finish(t)
        \/ \E x \in 1 .. arena_count : GoWith(t, "wait", x)
    BY <1>19 DEF Try
  <2>3. 1 .. arena_count \subseteq 0 .. arena_count /\ NULL \notin 1 .. arena_count
    BY DEF NULL
  <2>4. arena_count' = arena_count /\ arena_count \in Nat
    BY <1>19 DEF Try, ListInv
  <2>5. CASE GoTo(t, "attach")
    BY <2>1, <2>4, <2>5, GoToType, NULL \notin 1 .. arena_count DEF NULL
  <2>6. CASE GoWith(t, "try", after)
    BY Zenon, <2>1, <2>4, <2>6, GoWithType
  <2>7. CASE Finish(t)
    BY <2>4, <2>7, FinishType
  <2>8. ASSUME NEW x \in 1 .. arena_count, GoWith(t, "wait", x)
        PROVE  ThInv(arena_count', th')
    BY Zenon, <2>3, <2>4, <2>8, GoWithType
  <2> QED BY <2>2, <2>5, <2>6, <2>7, <2>8
<1>20. CASE Wait(t)
  BY <1>20, GoToType, ArKnown DEF Wait, ListInv
<1>21. CASE Reuse(t)
  BY <1>21, GoToType, ArKnown DEF Reuse, ListInv
<1>22. CASE Advance(t)
  BY <1>22, GoToType, ArKnown DEF Advance, ListInv
<1>23. CASE Exit(t)
  BY <1>23, FinishType DEF Exit, ListInv
<1>24. CASE LockList(t)
  BY <1>24, GoWithType, ArKnown DEF LockList, ListInv
<1>25. CASE LockAll(t)
  <2>1. NextArena(th[t].ar) \in 0 .. arena_count /\ NextArena(th[t].ar) # NULL
    BY <1>25, ArKnown DEF LockAll, NextArena, NULL, main, ListInv
  <2> QED BY <1>25, <2>1, GoWithType DEF LockAll
<1>26. CASE UnlockAll(t)
  BY <1>26, FinishType DEF UnlockAll, ListInv
<1>27. CASE UnlockAll2(t)
  BY <1>27, IdleType DEF UnlockAll2, ThInv
<1> QED BY <1>1, <1>2, <1>3, <1>4, <1>5, <1>6, <1>7, <1>8, <1>9, <1>10, <1>11, <1>12,
       <1>13, <1>14, <1>15, <1>16, <1>17, <1>18, <1>19, <1>20, <1>21, <1>22, <1>23, <1>24,
       <1>25, <1>26, <1>27 DEF Call, Step

\* Every step keeps the list, the free list, next_to_use and the threads' arenas within
\* the arenas that were linked.
LEMMA ListStep ==
    ASSUME ListInv, ThInv(arena_count, th), arena_count <= MaxArenas, NEW t \in Threads,
           Call(t) \/ Step(t)
    PROVE  ListInv'
<1> USE ListMain DEF list, freeing
<1>1. CASE CallMalloc(t)
  BY <1>1 DEF CallMalloc, ListInv
<1>2. CASE CallVisit(t)
  BY <1>2 DEF CallVisit, ListInv
<1>3. CASE CallExit(t)
  BY <1>3 DEF CallExit, ListInv, NULL
<1>4. CASE CallFork(t)
  BY <1>4 DEF CallFork, ListInv
<1>5. CASE LockOwn(t)
  BY <1>5 DEF LockOwn, ListInv
<1>6. CASE Fail(t)
  BY <1>6 DEF Fail, ListInv
<1>7. CASE LockMain(t)
  BY <1>7 DEF LockMain, ListInv
<1>8. CASE Return(t)
  BY <1>8 DEF Return, ListInv
<1>9. CASE Visit(t)
  BY <1>9 DEF Visit, ListInv
<1>10. CASE Leave(t)
  BY <1>10 DEF Leave, ListInv
<1>11. CASE GetFreeList(t)
  BY <1>11, Bounded DEF GetFreeList, ListInv
<1>12. CASE LockFree(t)
  BY <1>12, ArKnown DEF LockFree, ListInv
<1>13. CASE ArenaGet2(t)
  BY <1>13 DEF ArenaGet2, ListInv
<1>14. CASE Repeat(t)
  BY <1>14 DEF Repeat, ListInv
<1>15. CASE Cas(t)
  BY <1>15 DEF Cas, ListInv
<1>16. CASE NewHeap(t)
  BY <1>16 DEF NewHeap, ListInv
<1>17. CASE Link(t)
  <2>1. next_free \in [Arenas -> 0 .. arena_count + 1]
    BY DEF ListInv
  <2>2. thread_arena' \in [Threads -> 0 .. arena_count + 1]
    BY <1>17 DEF Link, ListInv
  <2> QED BY <1>17, <2>1, <2>2 DEF Link, ListInv
<1>18. CASE LockNew(t)
  BY <1>18 DEF LockNew, ListInv
<1>19. CASE Try(t)
  BY <1>19 DEF Try, ListInv
<1>20. CASE Wait(t)
  BY <1>20 DEF Wait, ListInv
<1>21. CASE Reuse(t)
  BY <1>21, ArKnown DEF Reuse, ListInv
<1>22. CASE Advance(t)
  BY <1>22, ArKnown DEF Advance, ListInv, NextArena, Locking, NULL, main, At
<1>23. CASE Exit(t)
  BY <1>23, ArKnown DEF Exit, ListInv
<1>24. CASE LockList(t)
  BY <1>24 DEF LockList, ListInv
<1>25. CASE LockAll(t)
  BY <1>25 DEF LockAll, ListInv
<1>26. CASE UnlockAll(t)
  BY <1>26 DEF UnlockAll, ListInv
<1>27. CASE UnlockAll2(t)
  <2> DEFINE own == thread_arena[t]
             before(a) == IF own # NULL /\ a - 1 = own THEN a - 2 ELSE a - 1
  <2>1. \A a \in 1 .. arena_count + 1 : before(a) \in 0 .. arena_count
    BY DEF ListInv, NULL
  <2>2. free_list' \in 0 .. arena_count
    BY <1>27, <2>1 DEF UnlockAll2, ListInv
  <2>3. next_free' \in [Arenas -> 0 .. arena_count]
    BY <1>27, <2>1 DEF UnlockAll2, ListInv
  <2>4. thread_arena' \in [Threads -> 0 .. arena_count]
    BY <1>27 DEF UnlockAll2, ListInv, NULL
  <2> QED BY <1>27, <2>2, <2>3, <2>4 DEF UnlockAll2, ListInv
<1> QED BY <1>1, <1>2, <1>3, <1>4, <1>5, <1>6, <1>7, <1>8, <1>9, <1>10, <1>11, <1>12,
       <1>13, <1>14, <1>15, <1>16, <1>17, <1>18, <1>19, <1>20, <1>21, <1>22, <1>23, <1>24,
       <1>25, <1>26, <1>27 DEF Call, Step

\* the types of what the list does not bound
RestInv ==
    /\ attached_threads \in [Arenas -> Int]
    /\ corrupt \subseteq Corruptible
    /\ list_lock \in Threads \cup {NoOne}
    /\ mutex \in [Arenas -> Threads \cup {NoOne}]
    /\ forks \in 0 .. MaxForks

\* the arenas that a thread at this point, working on ar, holds while the list has n
HeldBy(at, ar, n) ==
    IF at \in {"attach", "advance", "int_malloc", "visit"} THEN {ar}
    ELSE IF at = "lock_all" THEN 1 .. ar - 1
    ELSE IF at = "forked" THEN 1 .. n
    ELSE {}

\* whether it holds list_lock
HoldsList(at) == at \in {"lock_new", "lock_all", "forked"}

\* the two parts of OneMutex
MutexOK ==
    \A a \in Arenas, u \in Threads :
        mutex[a] = u <=> a \in HeldBy(th[u].at, th[u].ar, arena_count)
ListOK == \A u \in Threads : list_lock = u <=> HoldsList(th[u].at)

\* OneMutex is about the arenas' mutexes and about list_lock.
LEMMA OneMutexParts ==
    /\ OneMutex <=> MutexOK /\ ListOK
    /\ OneMutex' <=> MutexOK' /\ ListOK'
BY DEF OneMutex, MutexOK, ListOK, Held, HeldBy, HoldsList

\* only t moves: to the point pt, where it works on the arena b
Moves(t, pt, b) ==
    th'[t].at = pt /\ th'[t].ar = b /\ \A u \in Threads \ {t} : th'[u] = th[u]

\* GoTo, GoWith and Finish move one thread.
LEMMA StepOf ==
    ASSUME NEW n \in Nat, ThInv(n, th), NEW t \in Threads
    PROVE  /\ \A pt : GoTo(t, pt) => Moves(t, pt, th[t].ar)
           /\ \A pt, b : GoWith(t, pt, b) => Moves(t, pt, b)
           /\ Finish(t) => Moves(t, "idle", NULL)
BY DEF ThInv, Locals, GoTo, GoWith, Finish, Moves, Idle

\* A thread only holds mutexes of arenas in the list.
LEMMA HeldInList ==
    ASSUME ListInv, ThInv(arena_count, th), NEW u \in Threads
    PROVE  HeldBy(th[u].at, th[u].ar, arena_count) \subseteq 1 .. arena_count
BY DEF ListInv, ThInv, Locals, HeldBy, Locking, NULL

\* The mutexes agree with the points after a step that takes and releases none,
LEMMA MutexKept ==
    ASSUME MutexOK, NEW t \in Threads, NEW pt, NEW b, Moves(t, pt, b),
           UNCHANGED <<mutex, arena_count>>,
           HeldBy(pt, b, arena_count) = HeldBy(th[t].at, th[t].ar, arena_count)
    PROVE  MutexOK'
BY DEF MutexOK, Moves

\* after one that takes the mutex of a,
LEMMA MutexTaken ==
    ASSUME MutexOK, RestInv, NEW t \in Threads, NEW pt, NEW b, Moves(t, pt, b),
           UNCHANGED arena_count,
           NEW a \in Arenas, Lock(t, a),
           HeldBy(pt, b, arena_count) = HeldBy(th[t].at, th[t].ar, arena_count) \cup {a}
    PROVE  MutexOK'
BY ThreadAssumption DEF MutexOK, Moves, Lock, RestInv

\* and after one that releases it.
LEMMA MutexReleased ==
    ASSUME MutexOK, RestInv, NEW t \in Threads, NEW pt, NEW b, Moves(t, pt, b),
           UNCHANGED arena_count,
           NEW a \in Arenas, Unlock(t, a), a \in HeldBy(th[t].at, th[t].ar, arena_count),
           HeldBy(pt, b, arena_count) = HeldBy(th[t].at, th[t].ar, arena_count) \ {a}
    PROVE  MutexOK'
BY ThreadAssumption DEF MutexOK, Moves, Unlock, RestInv

\* list_lock agrees with the points after a step that leaves it alone,
LEMMA ListKept ==
    ASSUME ListOK, NEW t \in Threads, NEW pt, NEW b, Moves(t, pt, b), UNCHANGED list_lock,
           HoldsList(pt) <=> HoldsList(th[t].at)
    PROVE  ListOK'
BY DEF ListOK, Moves

\* after one that takes it,
LEMMA ListTaken ==
    ASSUME ListOK, NEW t \in Threads, NEW pt, NEW b, Moves(t, pt, b), list_lock = NoOne,
           list_lock' = t, HoldsList(pt)
    PROVE  ListOK'
BY ThreadAssumption DEF ListOK, Moves

\* and after one that releases it.
LEMMA ListReleased ==
    ASSUME ListOK, NEW t \in Threads, NEW pt, NEW b, Moves(t, pt, b), list_lock' = NoOne,
           HoldsList(th[t].at), ~HoldsList(pt)
    PROVE  ListOK'
BY ThreadAssumption DEF ListOK, Moves

\* the points where a thread holds nothing
Quiet == {"idle", "get", "free_list", "lock_free", "arena_get2", "repeat", "cas",
          "new_heap", "link", "try", "wait", "retry", "lock_visit", "exit", "lock_list"}

\* At these points a thread holds no mutex and not list_lock.
LEMMA QuietHolds ==
    ASSUME NEW pt \in Quiet, NEW b, NEW n
    PROVE  HeldBy(pt, b, n) = {} /\ ~HoldsList(pt)
BY DEF Quiet, HeldBy, HoldsList

\* A step between two of them changes no mutex.
LEMMA QuietStep ==
    ASSUME OneMutex, NEW t \in Threads, th[t].at \in Quiet,
           NEW pt, NEW b, Moves(t, pt, b), pt \in Quiet,
           UNCHANGED <<mutex, list_lock, arena_count>>
    PROVE  OneMutex'
BY QuietHolds, MutexKept, ListKept, OneMutexParts

\* From one of them a thread comes to hold the arena it locks (LOCK_ARENA),
LEMMA TakeStep ==
    ASSUME ListInv, ThInv(arena_count, th), RestInv, OneMutex, arena_count <= MaxArenas,
           NEW t \in Threads, th[t].at \in Quiet,
           NEW pt, NEW b, Moves(t, pt, b), pt \in {"attach", "int_malloc", "visit"},
           b \in Arenas, Lock(t, b), UNCHANGED <<list_lock, arena_count>>
    PROVE  OneMutex'
<1>1. HeldBy(pt, b, arena_count) = {b} /\ ~HoldsList(pt)
  BY DEF HeldBy, HoldsList
<1> QED BY <1>1, QuietHolds, MutexTaken, ListKept, OneMutexParts

\* keeps it while it attaches and allocates,
LEMMA KeepStep ==
    ASSUME OneMutex, NEW t \in Threads, th[t].at \in {"attach", "advance", "int_malloc"},
           NEW pt, NEW b, Moves(t, pt, b), pt \in {"attach", "advance", "int_malloc"},
                  b = th[t].ar,
           UNCHANGED <<mutex, list_lock, arena_count>>
    PROVE  OneMutex'
<1>1. /\ HeldBy(pt, b, arena_count) = HeldBy(th[t].at, th[t].ar, arena_count)
      /\ ~HoldsList(pt) /\ ~HoldsList(th[t].at)
  BY DEF HeldBy, HoldsList
<1> QED BY <1>1, MutexKept, ListKept, OneMutexParts

\* and gives it back (UNLOCK_ARENA).
LEMMA ReleaseStep ==
    ASSUME RestInv, OneMutex, NEW t \in Threads, th[t].at \in {"int_malloc", "visit"},
           NEW pt, NEW b, Moves(t, pt, b), pt \in Quiet, th[t].ar \in Arenas,
           Unlock(t, th[t].ar), UNCHANGED <<list_lock, arena_count>>
    PROVE  OneMutex'
<1>1. HeldBy(th[t].at, th[t].ar, arena_count) = {th[t].ar} /\ ~HoldsList(th[t].at)
  BY DEF HeldBy, HoldsList
<1> QED BY <1>1, QuietHolds, MutexReleased, ListKept, OneMutexParts

\* Where a thread locks an arena, that is an arena of the model.
LEMMA ArIsArena ==
    ASSUME ListInv, ThInv(arena_count, th), arena_count <= MaxArenas, NEW t \in Threads
    PROVE  /\ th[t].at \in Locking => th[t].ar \in Arenas
           /\ main \in Arenas
BY Bounded, ArKnown DEF ListInv, NULL, main, Arenas

\* attach and detach_arena keep the counts numbers.
LEMMA AttachType ==
    ASSUME ListInv, RestInv, arena_count <= MaxArenas,
           NEW t \in Threads, NEW a \in Arenas, NEW n \in Int, Attach(t, a, n)
    PROVE  attached_threads' \in [Arenas -> Int]
<1>1. thread_arena[t] = NULL \/ thread_arena[t] \in Arenas
  BY Bounded DEF ListInv, NULL
<1> DEFINE in == [attached_threads EXCEPT ![a] = n]
<1>2. in \in [Arenas -> Int]
  BY DEF RestInv
<1>3. attached_threads' = IF thread_arena[t] = NULL THEN in
                          ELSE [in EXCEPT ![thread_arena[t]] = @ - 1]
  BY DEF Attach
<1> HIDE DEF in
<1> QED BY <1>1, <1>2, <1>3

\* Every step keeps the types of the counts and of the locks.
LEMMA RestStep ==
    ASSUME ListInv, ThInv(arena_count, th), RestInv, arena_count <= MaxArenas,
           arena_count' <= MaxArenas, NEW t \in Threads, Call(t) \/ Step(t)
    PROVE  RestInv'
<1> USE LimitAssumption, ThreadAssumption DEF list, freeing, locks, Lock, Unlock, At,
       Locking
<1>1. CASE CallMalloc(t)
  BY <1>1 DEF CallMalloc, RestInv
<1>2. CASE CallVisit(t)
  BY <1>2 DEF CallVisit, RestInv
<1>3. CASE CallExit(t)
  BY <1>3 DEF CallExit, RestInv
<1>4. CASE CallFork(t)
  BY <1>4 DEF CallFork, RestInv
<1>5. CASE LockOwn(t)
  BY <1>5 DEF LockOwn, RestInv
<1>6. CASE Fail(t)
  BY <1>6 DEF Fail, RestInv
<1>7. CASE LockMain(t)
  BY <1>7 DEF LockMain, RestInv
<1>8. CASE Return(t)
  BY <1>8 DEF Return, RestInv
<1>9. CASE Visit(t)
  BY <1>9 DEF Visit, RestInv
<1>10. CASE Leave(t)
  BY <1>10 DEF Leave, RestInv
<1>11. CASE GetFreeList(t)
  <2>1. CASE free_list = NULL
    BY <1>11, <2>1 DEF GetFreeList, RestInv
  <2>2. CASE free_list # NULL
    <3>1. attached_threads' \in [Arenas -> Int]
      BY <1>11, <2>2, Bounded, AttachType DEF GetFreeList
    <3> QED BY <1>11, <2>2, <3>1 DEF GetFreeList, RestInv
  <2> QED BY <2>1, <2>2
<1>12. CASE LockFree(t)
  BY <1>12 DEF LockFree, RestInv
<1>13. CASE ArenaGet2(t)
  BY <1>13 DEF ArenaGet2, RestInv
<1>14. CASE Repeat(t)
  BY <1>14 DEF Repeat, RestInv
<1>15. CASE Cas(t)
  BY <1>15 DEF Cas, RestInv
<1>16. CASE NewHeap(t)
  BY <1>16 DEF NewHeap, RestInv
<1>17. CASE Link(t)
  <2>1. arena_count' \in Arenas
    BY <1>17, LimitAssumption DEF Link, ListInv, Arenas
  <2>2. attached_threads' \in [Arenas -> Int]
    BY <1>17, <2>1, AttachType DEF Link
  <2> QED BY <1>17, <2>2 DEF Link, RestInv
<1>18. CASE LockNew(t)
  BY <1>18 DEF LockNew, RestInv
<1>19. CASE Try(t)
  BY <1>19 DEF Try, RestInv
<1>20. CASE Wait(t)
  BY <1>20 DEF Wait, RestInv
<1>21. CASE Reuse(t)
  <2>1. th[t].ar \in Arenas /\ attached_threads[th[t].ar] + 1 \in Int
    BY <1>21, ArIsArena DEF Reuse, RestInv
  <2>2. attached_threads' \in [Arenas -> Int]
    BY <1>21, <2>1, AttachType DEF Reuse
  <2> QED BY <1>21, <2>2 DEF Reuse, RestInv
<1>22. CASE Advance(t)
  BY <1>22 DEF Advance, RestInv
<1>23. CASE Exit(t)
  <2>1. PICK a : a = th[t].ar /\ attached_threads' = [attached_threads EXCEPT ![a] = @ - 1]
    BY <1>23 DEF Exit
  <2>2. attached_threads' \in [Arenas -> Int]
    <3>1. a \in Arenas /\ attached_threads \in [Arenas -> Int]
      BY <1>23, <2>1, ArIsArena DEF Exit, RestInv
    <3>2. attached_threads[a] - 1 \in Int
      BY <3>1
    <3> QED BY <2>1, <3>1, <3>2
  <2>3. UNCHANGED <<corrupt, list_lock, mutex, forks>>
    BY <1>23 DEF Exit
  <2> QED BY <2>2, <2>3 DEF RestInv
<1>24. CASE LockList(t)
  BY <1>24 DEF LockList, RestInv
<1>25. CASE LockAll(t)
  BY <1>25 DEF LockAll, RestInv
<1>26. CASE UnlockAll(t)
  BY <1>26 DEF UnlockAll, RestInv
<1>27. CASE UnlockAll2(t)
  BY <1>27 DEF UnlockAll2, RestInv
<1> QED BY <1>1, <1>2, <1>3, <1>4, <1>5, <1>6, <1>7, <1>8, <1>9, <1>10, <1>11, <1>12,
       <1>13, <1>14, <1>15, <1>16, <1>17, <1>18, <1>19, <1>20, <1>21, <1>22, <1>23, <1>24,
       <1>25, <1>26, <1>27 DEF Call, Step

\* Every step keeps the mutexes where the code says they are: a thread holds exactly the
\* arenas of its point, through allocation, fork and the three ways to get an arena.
LEMMA MutexStep ==
    ASSUME ListInv, ThInv(arena_count, th), RestInv, OneMutex, arena_count <= MaxArenas,
           NEW t \in Threads, Call(t) \/ Step(t)
    PROVE  OneMutex'
<1> USE ListMain
<1>1. CASE CallMalloc(t)
  BY <1>1, StepOf, QuietStep DEF CallMalloc, list, freeing, locks, At, Quiet
<1>2. CASE CallVisit(t)
  <2>1. PICK a : GoWith(t, "lock_visit", a)
    BY <1>2 DEF CallVisit
  <2> QED BY <1>2, <2>1, StepOf, QuietStep DEF CallVisit, list, locks, At, Quiet
<1>3. CASE CallExit(t)
  BY <1>3, StepOf, QuietStep DEF CallExit, list, freeing, locks, At, Quiet
<1>4. CASE CallFork(t)
  BY <1>4, StepOf, QuietStep DEF CallFork, list, freeing, locks, At, Quiet
<1>5. CASE LockOwn(t)
  BY <1>5, ArIsArena, StepOf, TakeStep DEF LockOwn, list, At, Quiet, Locking
<1>6. CASE Fail(t)
  <2>1. \E pt \in Quiet : \E b : Moves(t, pt, b)
    BY <1>6 DEF Fail, ThInv, Locals, Moves, Idle, Quiet
  <2> QED BY <1>6, <2>1, ArIsArena, ReleaseStep DEF Fail, list, At, Locking
<1>7. CASE LockMain(t)
  BY <1>7, ArIsArena, StepOf, TakeStep DEF LockMain, list, At, Quiet, Locking
<1>8. CASE Return(t)
  BY <1>8, ArIsArena, StepOf, ReleaseStep DEF Return, list, At, Quiet, Locking
<1>9. CASE Visit(t)
  BY <1>9, ArIsArena, StepOf, TakeStep DEF Visit, list, At, Quiet, Locking
<1>10. CASE Leave(t)
  BY <1>10, ArIsArena, StepOf, ReleaseStep DEF Leave, list, At, Quiet, Locking
<1>11. CASE GetFreeList(t)
  BY <1>11, StepOf, QuietStep DEF GetFreeList, list, freeing, locks, At, Quiet
<1>12. CASE LockFree(t)
  BY <1>12, ArIsArena, StepOf, TakeStep DEF LockFree, list, At, Quiet, Locking
<1>13. CASE ArenaGet2(t)
  BY <1>13, StepOf, QuietStep DEF ArenaGet2, list, freeing, locks, At, Quiet
<1>14. CASE Repeat(t)
  <2>1. \E pt \in Quiet : \E b : Moves(t, pt, b)
    BY <1>14 DEF Repeat, ThInv, Locals, Moves, Quiet
  <2> QED BY <1>14, <2>1, QuietStep DEF Repeat, list, locks, At, Quiet
<1>15. CASE Cas(t)
  BY <1>15, StepOf, QuietStep DEF Cas, list, freeing, locks, At, Quiet
<1>16. CASE NewHeap(t)
  BY <1>16, StepOf, QuietStep DEF NewHeap, list, freeing, locks, At, Quiet
<1>17. CASE Link(t)
  <2>1. Moves(t, "lock_new", arena_count') /\ th[t].at = "link"
    BY <1>17, StepOf DEF Link, At
  <2>2. ListOK'
    <3>1. HoldsList("lock_new")
      BY DEF HoldsList
    <3> QED BY <1>17, <2>1, <3>1, ListTaken, OneMutexParts DEF Link
  <2>3. ASSUME NEW u \in Threads
        PROVE  HeldBy(th'[u].at, th'[u].ar, arena_count') = HeldBy(th[u].at, th[u].ar,
               arena_count)
    <3>1. list_lock # u
      BY <1>17, ThreadAssumption DEF Link
    <3>2. th[u].at # "forked"
      BY <3>1, OneMutexParts DEF ListOK, HoldsList
    <3> QED BY <2>1, <3>2 DEF HeldBy, Moves
  <2>4. MutexOK'
    BY <1>17, <2>3, OneMutexParts DEF Link, MutexOK
  <2> QED BY <2>2, <2>4, OneMutexParts
<1>18. CASE LockNew(t)
  <2>1. /\ th[t].at = "lock_new" /\ th[t].ar \in Arenas /\ Lock(t, th[t].ar)
        /\ Moves(t, "int_malloc", th[t].ar)
    BY <1>18, ArIsArena, StepOf DEF LockNew, At, Locking
  <2>2. /\ HeldBy(th[t].at, th[t].ar, arena_count) = {}
        /\ HeldBy("int_malloc", th[t].ar, arena_count) = {th[t].ar}
        /\ HoldsList(th[t].at) /\ ~HoldsList("int_malloc")
    BY <2>1 DEF HeldBy, HoldsList
  <2> QED BY <1>18, <2>1, <2>2, MutexTaken, ListReleased, OneMutexParts DEF LockNew, list
<1>19. CASE Try(t)
  <2>1. th[t].at = "try" /\ th[t].ar \in Arenas /\ UNCHANGED <<list_lock, arena_count>>
    BY <1>19, ArIsArena DEF Try, At, Locking, list
  <2>2. CASE Lock(t, th[t].ar) /\ GoTo(t, "attach")
    BY <2>1, <2>2, StepOf, TakeStep DEF Quiet
  <2>3. CASE mutex' = mutex /\ Finish(t)
    BY <2>1, <2>3, StepOf, QuietStep DEF Quiet
  <2>4. CASE mutex' = mutex /\ \E b : GoWith(t, "try", b)
    BY <2>1, <2>4, StepOf, QuietStep DEF Quiet
  <2>5. CASE mutex' = mutex /\ \E b : GoWith(t, "wait", b)
    BY <2>1, <2>5, StepOf, QuietStep DEF Quiet
  <2> QED BY <1>19, <2>2, <2>3, <2>4, <2>5 DEF Try
<1>20. CASE Wait(t)
  BY <1>20, ArIsArena, StepOf, TakeStep DEF Wait, list, At, Quiet, Locking
<1>21. CASE Reuse(t)
  BY <1>21, StepOf, KeepStep DEF Reuse, list, locks, freeing, At
<1>22. CASE Advance(t)
  BY <1>22, StepOf, KeepStep DEF Advance, list, locks, freeing, At
<1>23. CASE Exit(t)
  BY <1>23, StepOf, QuietStep DEF Exit, list, freeing, locks, At, Quiet
<1>24. CASE LockList(t)
  <2>1. Moves(t, "lock_all", main) /\ th[t].at = "lock_list"
    BY <1>24, StepOf DEF LockList, At
  <2>2. HeldBy("lock_all", main, arena_count) = {} /\ HoldsList("lock_all")
    BY DEF HeldBy, HoldsList, main
  <2>3. HeldBy(th[t].at, th[t].ar, arena_count) = {}
    BY <2>1, QuietHolds DEF Quiet
  <2> QED BY <1>24, <2>1, <2>2, <2>3, MutexKept, ListTaken, OneMutexParts DEF LockList, list
<1>25. CASE LockAll(t)
  <2> DEFINE a == th[t].ar
  <2>1. th[t].at = "lock_all" /\ a \in Arenas /\ a \in 1 .. arena_count /\ Lock(t, a)
        /\ UNCHANGED <<list_lock, arena_count>>
    BY <1>25, ArIsArena, ArKnown DEF LockAll, At, Locking, list, NULL
  <2>2. HeldBy(th[t].at, a, arena_count) = 1 .. a - 1 /\ HoldsList(th[t].at)
    BY <2>1 DEF HeldBy, HoldsList
  <2>3. CASE NextArena(a) = main
    <3>1. a = arena_count
      BY <2>1, <2>3 DEF NextArena, main
    <3>2. HeldBy("forked", NULL, arena_count) = 1 .. arena_count /\ HoldsList("forked")
      BY DEF HeldBy, HoldsList
    <3>3. 1 .. arena_count = (1 .. a - 1) \cup {a}
      BY <2>1, <3>1
    <3>4. Moves(t, "forked", NULL)
      BY <1>25, <2>3, StepOf DEF LockAll
    <3> QED BY <2>1, <2>2, <3>2, <3>3, <3>4, MutexTaken, ListKept, OneMutexParts
  <2>4. CASE NextArena(a) # main
    <3>1. NextArena(a) = a + 1
      BY <2>4 DEF NextArena
    <3>2. HeldBy("lock_all", a + 1, arena_count) = 1 .. a /\ HoldsList("lock_all")
      BY <2>1 DEF HeldBy, HoldsList
    <3>3. 1 .. a = (1 .. a - 1) \cup {a}
      BY <2>1
    <3>4. Moves(t, "lock_all", a + 1)
      BY <1>25, <2>4, <3>1, StepOf DEF LockAll
    <3> QED BY <2>1, <2>2, <3>2, <3>3, <3>4, MutexTaken, ListKept, OneMutexParts
  <2> QED BY <2>3, <2>4
<1>26. CASE UnlockAll(t)
  <2>1. Moves(t, "idle", NULL) /\ th[t].at = "forked"
    BY <1>26, StepOf DEF UnlockAll, At
  <2>2. HeldBy("idle", NULL, arena_count) = {} /\ HoldsList(th[t].at) /\ ~HoldsList("idle")
    BY <2>1 DEF HeldBy, HoldsList
  <2>3. \A a \in 1 .. arena_count : mutex[a] = t
    BY <2>1, Bounded, OneMutexParts DEF MutexOK, HeldBy
  <2>4. \A u \in Threads \ {t} : HeldBy(th[u].at, th[u].ar, arena_count) = {}
    BY <2>3, HeldInList, Bounded, OneMutexParts DEF MutexOK
  <2>5. MutexOK'
    BY <1>26, <2>1, <2>2, <2>4, ThreadAssumption DEF UnlockAll, MutexOK, Moves, list
  <2> QED BY <1>26, <2>1, <2>2, <2>5, ListReleased, OneMutexParts DEF UnlockAll
<1>27. CASE UnlockAll2(t)
  <2>1. \A u \in Threads : th'[u].at = "idle"
    BY <1>27 DEF UnlockAll2, Idle
  <2>2. \A b, n : HeldBy("idle", b, n) = {} /\ ~HoldsList("idle")
    BY DEF HeldBy, HoldsList
  <2>3. MutexOK' /\ ListOK'
    BY <1>27, <2>1, <2>2, ThreadAssumption DEF UnlockAll2, MutexOK, ListOK
  <2> QED BY <2>3, OneMutexParts
<1> QED BY <1>1, <1>2, <1>3, <1>4, <1>5, <1>6, <1>7, <1>8, <1>9, <1>10, <1>11, <1>12,
       <1>13, <1>14, <1>15, <1>16, <1>17, <1>18, <1>19, <1>20, <1>21, <1>22, <1>23, <1>24,
       <1>25, <1>26, <1>27 DEF Call, Step

\* the limit, and what a thread on its way to count an arena knows of it
LimitInv ==
    /\ narenas \in Nat /\ narenas <= ArenaMax
    /\ arena_count + Cardinality(Making) <= narenas
    /\ narenas_limit \in {0, ArenaMax}
    /\ \A t \in Threads :
          /\ th[t].at \in {"repeat", "cas"} => narenas_limit = ArenaMax
          /\ th[t].at = "cas" => th[t].n < ArenaMax

\* The threads that make an arena can be counted.
LEMMA MakingFinite ==
    /\ IsFiniteSet(Making) /\ Cardinality(Making) \in Nat
    /\ Cardinality(Making') \in Nat
BY ThreadAssumption, FS_Subset, FS_CardinalityType DEF Making

\* There are no more arenas than the limit.
LEMMA Counted ==
    ASSUME ListInv, LimitInv, LimitKnown
    PROVE  arena_count <= MaxArenas
BY MakingFinite, LimitAssumption DEF ListInv, LimitInv, LimitKnown

\* A step that neither begins nor ends to make an arena leaves their number,
LEMMA MakingKept ==
    ASSUME NEW t \in Threads, NEW pt, NEW b, Moves(t, pt, b),
           th[t].at \in {"new_heap", "link"} <=> pt \in {"new_heap", "link"}
    PROVE  Making' = Making
BY DEF Making, Moves

\* one that counted an arena adds one,
LEMMA MakingMore ==
    ASSUME NEW t \in Threads, NEW b, Moves(t, "new_heap", b),
           th[t].at \notin {"new_heap", "link"}
    PROVE  Cardinality(Making') = Cardinality(Making) + 1
<1>1. Making' = Making \cup {t} /\ t \notin Making
  BY DEF Making, Moves
<1> QED BY <1>1, MakingFinite, FS_AddElement

\* and one that linked it, or got no heap for it, takes one off.
LEMMA MakingLess ==
    ASSUME NEW t \in Threads, NEW pt, NEW b, Moves(t, pt, b),
           pt \notin {"new_heap", "link"}, th[t].at \in {"new_heap", "link"}
    PROVE  Cardinality(Making') = Cardinality(Making) - 1
<1>1. Making' = Making \ {t} /\ t \in Making
  BY DEF Making, Moves
<1> QED BY <1>1, MakingFinite, FS_RemoveElement

\* A step that neither counts an arena nor goes where one is counted.
LEMMA LimitKept ==
    ASSUME LimitInv, NEW t \in Threads, NEW pt, NEW b, Moves(t, pt, b),
           pt \notin {"repeat", "cas", "new_heap", "link"},
           th[t].at \notin {"new_heap", "link"},
           UNCHANGED <<narenas, narenas_limit, arena_count>>
    PROVE  LimitInv'
<1>1. Making' = Making
  BY MakingKept
<1> QED BY <1>1 DEF LimitInv, Moves

\* Every step keeps the number of arenas, and of those being made, within narenas and
\* that within the limit: the compare-and-swap of arena_get2 (arena.c 1136) fails unless
\* narenas is what was compared with the limit.
LEMMA LimitStep ==
    ASSUME ListInv, ThInv(arena_count, th), LimitInv, LimitKnown, NEW t \in Threads,
           Call(t) \/ Step(t)
    PROVE  LimitInv'
<1> USE ListMain
<1>1. CASE CallMalloc(t)
  BY <1>1, StepOf, LimitKept DEF CallMalloc, list, At
<1>2. CASE CallVisit(t)
  <2>1. PICK a : GoWith(t, "lock_visit", a)
    BY <1>2 DEF CallVisit
  <2> QED BY <1>2, <2>1, StepOf, LimitKept DEF CallVisit, list, At
<1>3. CASE CallExit(t)
  BY <1>3, StepOf, LimitKept DEF CallExit, list, At
<1>4. CASE CallFork(t)
  BY <1>4, StepOf, LimitKept DEF CallFork, list, At
<1>5. CASE LockOwn(t)
  BY <1>5, StepOf, LimitKept DEF LockOwn, list, At
<1>6. CASE Fail(t)
  <2>1. \E pt \in {"free_list", "idle", "retry"} : \E b : Moves(t, pt, b)
    BY <1>6 DEF Fail, ThInv, Locals, Moves, Idle
  <2> QED BY <1>6, <2>1, LimitKept DEF Fail, list, At
<1>7. CASE LockMain(t)
  BY <1>7, StepOf, LimitKept DEF LockMain, list, At
<1>8. CASE Return(t)
  BY <1>8, StepOf, LimitKept DEF Return, At
<1>9. CASE Visit(t)
  BY <1>9, StepOf, LimitKept DEF Visit, list, At
<1>10. CASE Leave(t)
  BY <1>10, StepOf, LimitKept DEF Leave, list, At
<1>11. CASE GetFreeList(t)
  BY <1>11, StepOf, LimitKept DEF GetFreeList, list, At
<1>12. CASE LockFree(t)
  BY <1>12, StepOf, LimitKept DEF LockFree, list, At
<1>13. CASE ArenaGet2(t)
  <2>1. Moves(t, "repeat", th[t].ar) /\ th[t].at = "arena_get2"
    BY <1>13, StepOf DEF ArenaGet2, At
  <2>2. Making' = Making
    BY <2>1, MakingKept
  <2>3. narenas_limit' = ArenaMax
    BY <1>13 DEF ArenaGet2, LimitInv, LimitKnown
  <2> QED BY <1>13, <2>1, <2>2, <2>3 DEF ArenaGet2, LimitInv, Moves
<1>14. CASE Repeat(t)
  <2>1. /\ th[t].at = "repeat" /\ th'[t].n = narenas
        /\ \E a \in {main, next_to_use} :
              \/ Moves(t, "cas", a) /\ (narenas_limit = 0 \/ narenas < narenas_limit)
              \/ Moves(t, "try", a)
    BY <1>14 DEF Repeat, ThInv, Locals, Moves, At
  <2>2. Making' = Making
    BY <2>1, MakingKept
  <2>3. narenas_limit = ArenaMax /\ (th'[t].at = "cas" => narenas < ArenaMax)
    BY <2>1 DEF LimitInv, LimitKnown, Moves
  <2> QED BY <1>14, <2>1, <2>2, <2>3 DEF Repeat, LimitInv, Moves, list
<1>15. CASE Cas(t)
  <2>1. th[t].at = "cas" /\ th[t].n < ArenaMax /\ th[t].n \in Nat
    BY <1>15 DEF Cas, At, LimitInv, ThInv, Locals
  <2>2. CASE narenas = th[t].n
    <3>1. Moves(t, "new_heap", th[t].ar) /\ narenas' = narenas + 1
      BY <1>15, <2>2, StepOf DEF Cas
    <3>2. Cardinality(Making') = Cardinality(Making) + 1
      BY <2>1, <3>1, MakingMore
    <3>3. narenas' \in Nat /\ narenas' <= ArenaMax
      BY <2>1, <2>2, <3>1, LimitAssumption
    <3> QED BY <1>15, <3>1, <3>2, <3>3, MakingFinite DEF Cas, ListInv, LimitInv, Moves
  <2>3. CASE narenas # th[t].n
    <3>1. Moves(t, "repeat", th[t].ar) /\ narenas' = narenas
      BY <1>15, <2>3, StepOf DEF Cas
    <3>2. Making' = Making
      BY <2>1, <3>1, MakingKept
    <3>3. narenas_limit = ArenaMax
      BY <1>15, <2>1 DEF LimitInv
    <3> QED BY <1>15, <3>1, <3>2, <3>3 DEF Cas, LimitInv, Moves
  <2> QED BY <2>2, <2>3
<1>16. CASE NewHeap(t)
  <2>1. th[t].at = "new_heap"
    BY <1>16 DEF NewHeap, At
  <2>2. CASE GoTo(t, "link") /\ narenas' = narenas
    <3>1. Moves(t, "link", th[t].ar)
      BY <2>2, StepOf
    <3>2. Making' = Making
      BY <2>1, <3>1, MakingKept
    <3> QED BY <1>16, <2>2, <3>1, <3>2 DEF NewHeap, LimitInv, Moves
  <2>3. CASE Finish(t) /\ narenas' = narenas - 1
    <3>1. Moves(t, "idle", NULL)
      BY <2>3, StepOf
    <3>2. Cardinality(Making') = Cardinality(Making) - 1 /\ Cardinality(Making') \in Nat
      BY <2>1, <3>1, MakingLess, MakingFinite
    <3> QED BY <1>16, <2>3, <3>1, <3>2, MakingFinite, LimitAssumption
            DEF NewHeap, ListInv, LimitInv, Moves
  <2> QED BY <1>16, <2>2, <2>3 DEF NewHeap
<1>17. CASE Link(t)
  <2>1. th[t].at = "link" /\ Moves(t, "lock_new", arena_count')
    BY <1>17, StepOf DEF Link, At
  <2>2. Cardinality(Making') = Cardinality(Making) - 1
    BY <2>1, MakingLess
  <2> QED BY <1>17, <2>1, <2>2, MakingFinite DEF Link, ListInv, LimitInv, Moves
<1>18. CASE LockNew(t)
  BY <1>18, StepOf, LimitKept DEF LockNew, list, At
<1>19. CASE Try(t)
  <2>1. th[t].at = "try" /\ UNCHANGED <<narenas, narenas_limit, arena_count>>
    BY <1>19 DEF Try, At, list
  <2>2. CASE GoTo(t, "attach") \/ Finish(t)
    BY <2>1, <2>2, StepOf, LimitKept
  <2>3. CASE \E b : GoWith(t, "try", b)
    BY <2>1, <2>3, StepOf, LimitKept
  <2>4. CASE \E b : GoWith(t, "wait", b)
    BY <2>1, <2>4, StepOf, LimitKept
  <2> QED BY <1>19, <2>2, <2>3, <2>4 DEF Try
<1>20. CASE Wait(t)
  BY <1>20, StepOf, LimitKept DEF Wait, list, At
<1>21. CASE Reuse(t)
  BY <1>21, StepOf, LimitKept DEF Reuse, list, At
<1>22. CASE Advance(t)
  BY <1>22, StepOf, LimitKept DEF Advance, list, At
<1>23. CASE Exit(t)
  BY <1>23, StepOf, LimitKept DEF Exit, list, At
<1>24. CASE LockList(t)
  BY <1>24, StepOf, LimitKept DEF LockList, list, At
<1>25. CASE LockAll(t)
  BY <1>25, StepOf, LimitKept DEF LockAll, list, At
<1>26. CASE UnlockAll(t)
  BY <1>26, StepOf, LimitKept DEF UnlockAll, list, At
<1>27. CASE UnlockAll2(t)
  <2>1. \A u \in Threads : th'[u].at = "idle"
    BY <1>27 DEF UnlockAll2, Idle
  <2>2. Making' = {} /\ Cardinality({}) = 0
    BY <2>1, FS_EmptySet DEF Making
  <2> QED BY <1>27, <2>1, <2>2, MakingFinite DEF UnlockAll2, ListInv, LimitInv, list
<1> QED BY <1>1, <1>2, <1>3, <1>4, <1>5, <1>6, <1>7, <1>8, <1>9, <1>10, <1>11, <1>12,
       <1>13, <1>14, <1>15, <1>16, <1>17, <1>18, <1>19, <1>20, <1>21, <1>22, <1>23, <1>24,
       <1>25, <1>26, <1>27 DEF Call, Step

(***************************************************************************)
(* The theorems.                                                           *)
(***************************************************************************)
\* the inductive invariant
Inv == ListInv /\ ThInv(arena_count, th) /\ RestInv /\ OneMutex /\ LimitInv

\* The invariant holds when the program starts.
LEMMA InitInv ==
    ASSUME LimitKnown, Init
    PROVE  Inv
<1> USE LimitAssumption, ThreadAssumption DEF Init
<1>1. ListInv
  BY DEF ListInv, NULL, main, Arenas
<1>2. ThInv(arena_count, th)
  BY IdleType DEF ThInv
<1>3. RestInv
  BY DEF RestInv, main
<1>4. OneMutex
  <2>1. \A u \in Threads : th[u].at = "idle"
    BY DEF Idle
  <2>2. HeldBy("idle", NULL, arena_count) = {} /\ ~HoldsList("idle")
    BY DEF HeldBy, HoldsList
  <2>3. \A u \in Threads : HeldBy(th[u].at, th[u].ar, arena_count) = {}
    BY <2>1 DEF HeldBy
  <2>4. MutexOK /\ ListOK
    BY <2>1, <2>2, <2>3 DEF MutexOK, ListOK
  <2> QED BY <2>4, OneMutexParts
<1>5. LimitInv
  <2>1. Making = {} /\ Cardinality({}) = 0
    BY FS_EmptySet DEF Making, Idle
  <2>2. \A u \in Threads : th[u].at = "idle"
    BY DEF Idle
  <2> QED BY <2>1, <2>2 DEF LimitInv, LimitKnown
<1> QED BY <1>1, <1>2, <1>3, <1>4, <1>5 DEF Inv

\* Every step keeps it.
LEMMA NextInv ==
    ASSUME LimitKnown, Inv, [Next]_vars
    PROVE  Inv'
<1>1. CASE UNCHANGED vars
  BY <1>1 DEF vars, list, freeing, locks, Inv, ListInv, ThInv, RestInv, OneMutex, Held,
              LimitInv, Making
<1>2. ASSUME NEW t \in Threads, Call(t) \/ Step(t)
      PROVE  Inv'
  <2>1. arena_count <= MaxArenas
    BY Counted DEF Inv
  <2>2. ListInv' /\ ThInv(arena_count', th') /\ LimitInv'
    BY <1>2, <2>1, ListStep, ThStep, LimitStep DEF Inv, LimitInv
  <2>3. arena_count' <= MaxArenas
    BY <2>2, MakingFinite, LimitAssumption DEF ListInv, LimitInv, LimitKnown
  <2>4. RestInv' /\ OneMutex'
    BY <1>2, <2>1, <2>3, RestStep, MutexStep DEF Inv
  <2> QED BY <2>2, <2>4 DEF Inv
<1> QED BY <1>1, <1>2 DEF Next

\* The invariant holds in every state if M_ARENA_MAX is set.
THEOREM InvAlways == ASSUME LimitKnown PROVE Spec => []Inv
BY InitInv, NextInv, PTL DEF Spec

\* The invariant implies the types.
LEMMA InvTypes ==
    ASSUME LimitKnown, Inv
    PROVE  TypeOK
<1>1. arena_count <= MaxArenas
  BY Counted DEF Inv
<1>2. 0 .. arena_count \subseteq Arenas \cup {NULL} /\ 1 .. arena_count \subseteq Arenas
  BY <1>1, LimitAssumption DEF Inv, ListInv, Arenas, NULL
<1>3. Locals(arena_count) \subseteq
          [at : Points, ar : Arenas \cup {NULL}, avoid : Arenas \cup {NULL},
           n : Nat, retried : BOOLEAN]
  BY <1>2, LimitAssumption DEF Locals, NULL, main, Arenas
<1>4. arena_count \in Arenas /\ narenas_limit \in Nat
  BY <1>1, LimitAssumption DEF Inv, ListInv, LimitInv, Arenas
<1> QED BY <1>2, <1>3, <1>4 DEF Inv, ListInv, ThInv, RestInv, LimitInv, TypeOK

\* The variables of arena.c have their types: every arena a thread, the list or the free
\* list refers to exists.
THEOREM Types == ASSUME LimitKnown PROVE Spec => []TypeOK
BY InvAlways, InvTypes, PTL

\* No more arenas are ever made than M_ARENA_MAX, whatever the threads do between reading
\* narenas and counting a new arena (arena_get2).
THEOREM Limited == ASSUME LimitKnown PROVE Spec => []WithinLimit
<1>1. Inv => WithinLimit
  BY LimitAssumption DEF LimitKnown, Inv, LimitInv, WithinLimit
<1> QED BY <1>1, InvAlways, PTL

\* A thread never allocates without the arena's mutex, holds one arena's at most, and none
\* while it waits for another's, unless it forks; list_lock is held where the code says.
THEOREM MutexesHeld == ASSUME LimitKnown PROVE Spec => []OneMutex
<1>1. Inv => OneMutex
  BY DEF Inv
<1> QED BY <1>1, InvAlways, PTL

(***************************************************************************)
(* The free list when M_ARENA_MAX is set: until reused_arena is called for *)
(* the first time, attached_threads counts the threads of every arena, and *)
(* the arenas of the free list have none.                                  *)
(*                                                                         *)
(* The inductive invariant FreeInv says besides that the free list is a    *)
(* chain without a cycle, or an arena that get_free_list takes off could   *)
(* still be on it; that a thread that ends has forgotten its arena; and    *)
(* that nobody is in reused_arena before its first call.                   *)
(***************************************************************************)

\* the arena to which a thread counts
ArenaOf(t) == IF th[t].at \in {"lock_free", "exit"} THEN th[t].ar ELSE thread_arena[t]

\* the arenas of S have no threads and are linked towards the end of the free list, of
\* which r tells the distance
Chain(S, r) ==
    /\ S \subseteq 1 .. arena_count
    /\ free_list = NULL \/ free_list \in S
    /\ \A a \in S :
          /\ Attached(a) = {} /\ r[a] \in Nat
          /\ next_free[a] = NULL \/ (next_free[a] \in S /\ r[next_free[a]] < r[a])

\* the points in reused_arena
ReusePoints == {"try", "wait", "attach", "advance"}

\* what the points say
PointInv ==
    /\ \A u \in Threads : th[u].at = "exit" => thread_arena[u] = NULL
    /\ next_to_use = NULL => \A u \in Threads : th[u].at \notin ReusePoints

\* attached_threads counts the threads of every arena
CountInv == \A a \in 1 .. arena_count : attached_threads[a] = Cardinality(Attached(a))

\* the invariant
FreeInv ==
    /\ PointInv
    /\ next_to_use = NULL => CountInv /\ \E S, r : Chain(S, r)

\* Attached(a) are the threads that count to a.
LEMMA AttachedIs ==
    ASSUME NEW a
    PROVE  /\ Attached(a) = {t \in Threads : ArenaOf(t) = a}
           /\ Attached(a)' = {t \in Threads : ArenaOf(t)' = a}
BY DEF Attached, ArenaOf

\* They can be counted.
LEMMA AttachedFinite ==
    ASSUME NEW a
    PROVE  IsFiniteSet(Attached(a)) /\ Cardinality(Attached(a)) \in Nat
BY ThreadAssumption, FS_Subset, FS_CardinalityType DEF Attached

\* A thread counts to an arena of the list, or to none.
LEMMA ArenaOfKnown ==
    ASSUME ListInv, ThInv(arena_count, th), NEW t \in Threads
    PROVE  ArenaOf(t) \in 0 .. arena_count
BY ArKnown DEF ListInv, ArenaOf

\* A step that moves no thread from one arena to another, and leaves the free list and
\* the counts alone, keeps the lists and counts.
LEMMA SameArenas ==
    ASSUME CountInv, NEW S, NEW r, Chain(S, r),
           \A u \in Threads : ArenaOf(u)' = ArenaOf(u), UNCHANGED <<freeing, arena_count>>
    PROVE  CountInv' /\ Chain(S, r)'
<1>1. \A a : Attached(a)' = Attached(a)
  BY AttachedIs
<1> QED BY <1>1 DEF CountInv, Chain, freeing

\* Most steps are of this kind.
LEMMA PlainStep ==
    ASSUME FreeInv, NEW t \in Threads, NEW pt, NEW b, Moves(t, pt, b),
           {pt, th[t].at} \cap {"lock_free", "exit"} = {},
           pt \in ReusePoints => next_to_use' # NULL,
           next_to_use' = NULL => next_to_use = NULL,
           UNCHANGED <<freeing, arena_count, thread_arena>>
    PROVE  FreeInv'
<1>1. PointInv'
  BY DEF FreeInv, PointInv, Moves
<1>2. \A u \in Threads : ArenaOf(u)' = ArenaOf(u)
  BY DEF ArenaOf, Moves
<1>3. next_to_use' = NULL => CountInv' /\ \E S, r : Chain(S, r)'
  BY <1>2, SameArenas DEF FreeInv
<1> QED BY <1>1, <1>3 DEF FreeInv

\* A thread goes from one arena, or from none, to another, or to none.
LEMMA ArenaChanges ==
    ASSUME NEW t \in Threads, NEW a, ArenaOf(t)' = a, ArenaOf(t) # a,
           \A u \in Threads \ {t} : ArenaOf(u)' = ArenaOf(u),
           NEW x
    PROVE  /\ Attached(x)' = IF x = a THEN Attached(x) \cup {t} ELSE Attached(x) \ {t}
           /\ Cardinality(Attached(x)') =
                  IF x = a THEN Cardinality(Attached(x)) + 1
                  ELSE IF x = ArenaOf(t) THEN Cardinality(Attached(x)) - 1
                  ELSE Cardinality(Attached(x))
<1>1. Attached(x)' = IF x = a THEN Attached(x) \cup {t} ELSE Attached(x) \ {t}
  BY AttachedIs
<1>2. t \in Attached(x) <=> x = ArenaOf(t)
  BY AttachedIs
<1>3. IsFiniteSet(Attached(x))
  BY AttachedFinite
<1> QED BY <1>1, <1>2, <1>3, FS_AddElement, FS_RemoveElement

\* attach and detach_arena (arena.c 905, 1008) change the counts of two arenas.
LEMMA AttachCounts ==
    ASSUME RestInv, ListInv, arena_count <= MaxArenas,
           NEW t \in Threads, NEW a \in Arenas, NEW n \in Int, Attach(t, a, n),
           thread_arena[t] # a, NEW x \in Arenas
    PROVE  attached_threads'[x] = IF x = a THEN n
                                  ELSE IF x = thread_arena[t] THEN attached_threads[x] - 1
                                  ELSE attached_threads[x]
<1>1. NULL \notin Arenas
  BY DEF NULL, Arenas
<1>2. thread_arena[t] = NULL \/ thread_arena[t] \in Arenas
  BY Bounded DEF ListInv, NULL
<1> QED BY <1>1, <1>2 DEF Attach, RestInv

\* What get_free_list takes off is not on the list any more, and has one thread.
LEMMA GetFreeListKeeps ==
    ASSUME ListInv, ThInv(arena_count, th), RestInv, FreeInv, arena_count <= MaxArenas,
           NEW t \in Threads, GetFreeList(t), free_list # NULL, UNCHANGED next_free,
           free_list' = next_free[free_list], Attach(t, free_list, 1),
           GoWith(t, "lock_free", free_list)
    PROVE  FreeInv'
<1> DEFINE a == free_list
<1>1. /\ UNCHANGED <<arena_count, next_to_use, thread_arena>>
      /\ th[t].at = "free_list"
  BY DEF GetFreeList, list, At
<1>2. Moves(t, "lock_free", a)
  BY StepOf DEF ListInv
<1>3. PointInv'
  BY <1>1, <1>2 DEF FreeInv, PointInv, Moves, ReusePoints
<1> SUFFICES ASSUME next_to_use = NULL, CountInv, NEW S, NEW r, Chain(S, r)
             PROVE  CountInv' /\ \E Q : Chain(Q, r)'
  BY <1>1, <1>3 DEF FreeInv
<1>5. a \in S /\ a \in 1 .. arena_count /\ Attached(a) = {}
  BY DEF Chain
<1>6. /\ ArenaOf(t) = thread_arena[t] /\ ArenaOf(t)' = a
      /\ \A u \in Threads \ {t} : ArenaOf(u)' = ArenaOf(u)
  BY <1>1, <1>2 DEF ArenaOf, Moves
<1>7. ArenaOf(t) # a
  BY <1>5, AttachedIs
<1>8. CountInv'
  <2> SUFFICES ASSUME NEW x \in 1 .. arena_count
                 PROVE  attached_threads'[x] = Cardinality(Attached(x)')
    BY <1>1 DEF CountInv
  <2>2. x \in Arenas /\ a \in Arenas
    BY Bounded, <1>5
  <2>3. attached_threads'[x] = IF x = a THEN 1
                               ELSE IF x = ArenaOf(t) THEN attached_threads[x] - 1
                               ELSE attached_threads[x]
    BY <2>2, <1>6, <1>7, AttachCounts
  <2>4. Cardinality(Attached(a)) = 0
    BY <1>5, FS_EmptySet
  <2> QED BY <2>3, <2>4, <1>6, <1>7, ArenaChanges DEF CountInv
<1>9. \E Q : Chain(Q, r)'
  <2>0. PICK Q : Q = {x \in S : r[x] < r[a]}
    OBVIOUS
  <2>1. \A x \in Q : x # a /\ Attached(x)' = Attached(x) \ {t}
    BY <2>0, <1>5, <1>6, <1>7, ArenaChanges DEF Chain
  <2>2. \A x \in Q : Attached(x)' = {}
    BY <2>0, <2>1 DEF Chain
  <2>3. \A x \in Q : next_free[x] = NULL \/ (next_free[x] \in Q /\ r[next_free[x]] < r[x])
    <3> SUFFICES ASSUME NEW x \in Q, next_free[x] # NULL
                 PROVE  next_free[x] \in Q /\ r[next_free[x]] < r[x]
      OBVIOUS
    <3>1. next_free[x] \in S /\ r[next_free[x]] < r[x] /\ r[x] < r[a]
      BY <2>0 DEF Chain
    <3>2. r[next_free[x]] \in Nat /\ r[x] \in Nat /\ r[a] \in Nat
      BY <2>0, <3>1, <1>5 DEF Chain
    <3> QED BY <2>0, <3>1, <3>2
  <2>4. free_list' = NULL \/ free_list' \in Q
    BY <2>0, <1>5 DEF Chain
  <2>5. Q \subseteq 1 .. arena_count /\ \A x \in Q : r[x] \in Nat
    BY <2>0 DEF Chain
  <2>6. Chain(Q, r)'
    BY <1>1, <2>2, <2>3, <2>4, <2>5 DEF Chain
  <2> QED BY <2>6
<1> QED BY <1>8, <1>9

\* The new arena (_int_new_arena) has the thread that made it, and no other arena gets one.
LEMMA LinkKeeps ==
    ASSUME ListInv, ThInv(arena_count, th), RestInv, FreeInv, arena_count' <= MaxArenas,
           NEW t \in Threads, Link(t)
    PROVE  FreeInv'
<1> DEFINE a == arena_count + 1
<1>1. /\ arena_count' = a /\ UNCHANGED <<next_to_use, free_list, next_free>>
      /\ thread_arena' = [thread_arena EXCEPT ![t] = a]
      /\ Attach(t, a, 1) /\ GoWith(t, "lock_new", a)
      /\ th[t].at = "link" /\ arena_count \in Nat
  BY DEF Link, At, ListInv
<1>2. Moves(t, "lock_new", a)
  BY <1>1, StepOf
<1>3. PointInv'
  BY <1>1, <1>2 DEF FreeInv, PointInv, Moves, ReusePoints
<1> SUFFICES ASSUME next_to_use = NULL, CountInv, NEW S, NEW r, Chain(S, r)
             PROVE  CountInv' /\ Chain(S, r)'
  BY <1>1, <1>3 DEF FreeInv
<1>4. \A u \in Threads : ArenaOf(u) # a
  BY <1>1, ArenaOfKnown
<1>5. ArenaOf(t) = thread_arena[t]
  BY <1>1 DEF ArenaOf
<1>6. ArenaOf(t)' = a /\ \A u \in Threads \ {t} : ArenaOf(u)' = ArenaOf(u)
  BY <1>1, <1>2 DEF ArenaOf, Moves, ListInv
<1>7. Cardinality(Attached(a)) = 0
  BY <1>4, AttachedIs, FS_EmptySet
<1>8. CountInv'
  <2> SUFFICES ASSUME NEW x \in 1 .. a
               PROVE  attached_threads'[x] = Cardinality(Attached(x)')
    BY <1>1 DEF CountInv
  <2>1. x \in Arenas /\ a \in Arenas /\ arena_count <= MaxArenas
    BY <1>1, LimitAssumption DEF Arenas
  <2>2. attached_threads'[x] = IF x = a THEN 1
                               ELSE IF x = ArenaOf(t) THEN attached_threads[x] - 1
                               ELSE attached_threads[x]
    BY <2>1, <1>1, <1>4, <1>5, AttachCounts
  <2>3. x # a => x \in 1 .. arena_count
    BY <1>1
  <2> QED BY <2>2, <2>3, <1>4, <1>6, <1>7, ArenaChanges DEF CountInv
<1>9. Chain(S, r)'
  <2>1. S \subseteq 1 .. a /\ a \notin S
    BY <1>1 DEF Chain
  <2>2. \A x \in S : Attached(x)' = Attached(x) \ {t}
    BY <2>1, <1>4, <1>6, ArenaChanges
  <2>3. \A x \in S : Attached(x)' = {}
    BY <2>2 DEF Chain
  <2> QED BY <1>1, <2>1, <2>3 DEF Chain
<1> QED BY <1>8, <1>9

\* The last thread of an arena to end puts it on the free list, on which it was not.
LEMMA ExitKeeps ==
    ASSUME ListInv, ThInv(arena_count, th), RestInv, FreeInv, arena_count <= MaxArenas,
           NEW t \in Threads, Exit(t)
    PROVE  FreeInv'
<1>1. PICK a : a = th[t].ar
  OBVIOUS
<1>2. /\ UNCHANGED <<arena_count, next_to_use, thread_arena>>
      /\ th[t].at = "exit" /\ Finish(t)
      /\ attached_threads' = [attached_threads EXCEPT ![a] = @ - 1]
      /\ IF attached_threads'[a] = 0
         THEN next_free' = [next_free EXCEPT ![a] = free_list] /\ free_list' = a
         ELSE UNCHANGED <<free_list, next_free>>
  BY <1>1 DEF Exit, list, At
<1>3. a \in 1 .. arena_count /\ a \in Arenas /\ a # NULL
  BY <1>1, <1>2, ArKnown, ArIsArena DEF Locking, ListInv, NULL
<1>4. Moves(t, "idle", NULL)
  BY <1>2, StepOf DEF ListInv
<1>5. PointInv'
  BY <1>2, <1>4 DEF FreeInv, PointInv, Moves, ReusePoints
<1> SUFFICES ASSUME next_to_use = NULL, CountInv, NEW S, NEW r, Chain(S, r)
             PROVE  CountInv' /\ \E Q, q : Chain(Q, q)'
  BY <1>2, <1>5 DEF FreeInv
<1>6. /\ ArenaOf(t) = a /\ ArenaOf(t)' = NULL
      /\ \A u \in Threads \ {t} : ArenaOf(u)' = ArenaOf(u)
  BY <1>1, <1>2, <1>4 DEF ArenaOf, Moves, FreeInv, PointInv
<1>7. \A x \in 1 .. arena_count :
          /\ Attached(x)' = Attached(x) \ {t}
          /\ Cardinality(Attached(x)') = IF x = a THEN Cardinality(Attached(x)) - 1
                                         ELSE Cardinality(Attached(x))
  BY <1>3, <1>6, ArenaChanges DEF NULL
<1>8. CountInv'
  <2> SUFFICES ASSUME NEW x \in 1 .. arena_count
               PROVE  attached_threads'[x] = Cardinality(Attached(x)')
    BY <1>2 DEF CountInv
  <2>1. attached_threads'[x] = IF x = a THEN attached_threads[x] - 1
                               ELSE attached_threads[x]
    BY <1>2, <1>3, Bounded DEF RestInv
  <2> QED BY <2>1, <1>7 DEF CountInv
<1>9. \A x \in S : Attached(x)' = {}
  BY <1>7 DEF Chain
<1>10. a \notin S
  BY <1>6, AttachedIs DEF Chain
<1>11. CASE attached_threads'[a] # 0
  <2>1. Chain(S, r)'
    BY <1>2, <1>9, <1>11 DEF Chain
  <2> QED BY <1>8, <2>1
<1>12. CASE attached_threads'[a] = 0
  <2>1. next_free' = [next_free EXCEPT ![a] = free_list] /\ free_list' = a
    BY <1>2, <1>12
  <2>2. PICK Q : Q = S \cup {a}
    OBVIOUS
  <2>3. PICK d \in Nat : free_list \in S => r[free_list] < d
    <3>1. free_list \in S => r[free_list] \in Nat
      BY DEF Chain
    <3> QED BY <3>1, r[free_list] + 1 \in Nat \/ free_list \notin S, 0 \in Nat
  <2>4. PICK q : q = [x \in Q |-> IF x = a THEN d ELSE r[x]]
    OBVIOUS
  <2>5. Attached(a)' = {}
    <3>1. Cardinality(Attached(a)') = 0
      BY <1>3, <1>8, <1>2, <1>12 DEF CountInv
    <3>2. IsFiniteSet(Attached(a)')
      BY <1>3, <1>7, AttachedFinite, FS_Subset
    <3> QED BY <3>1, <3>2, FS_EmptySet
  <2>6. \A x \in Q : next_free'[x] = NULL \/ (next_free'[x] \in Q /\ q[next_free'[x]] < q[x])
    <3>1. next_free'[a] = free_list
      BY <2>1, <1>3 DEF ListInv
    <3>2. \A x \in S : next_free'[x] = next_free[x] /\ q[x] = r[x] /\ x \in Q
      BY <2>1, <2>2, <2>4, <1>10
    <3>3. q[a] = d
      BY <2>2, <2>4
    <3> QED BY <2>2, <2>3, <3>1, <3>2, <3>3 DEF Chain
  <2>7. \A x \in Q : x \in 1 .. arena_count /\ Attached(x)' = {} /\ q[x] \in Nat
    BY <1>3, <1>9, <2>2, <2>4, <2>5 DEF Chain
  <2>8. Chain(Q, q)'
    BY <1>2, <2>1, <2>2, <2>6, <2>7 DEF Chain
  <2> QED BY <1>8, <2>8
<1> QED BY <1>11, <1>12
\* In the child of a fork (ptmalloc_unlock_all2) only one thread is left, and the arenas
\* that it does not use are free.
LEMMA UnlockAll2Keeps ==
    ASSUME ListInv, RestInv, FreeInv, arena_count <= MaxArenas,
           NEW t \in Threads, UnlockAll2(t)
    PROVE  FreeInv'
<1>1. PICK own : own = thread_arena[t]
  OBVIOUS
<1>2. PICK S : S = 1 .. arena_count \ {own}
  OBVIOUS
<1>3. PICK r : r = [a \in S |-> a]
  OBVIOUS
<1>4. own \in 0 .. arena_count /\ arena_count \in Nat \ {0}
  BY <1>1 DEF ListInv
<1>5. UNCHANGED <<arena_count, next_to_use>> /\ \A u \in Threads : th'[u].at = "idle"
  BY DEF UnlockAll2, list, Idle
<1>6. \A u \in Threads : ArenaOf(u)' = IF u = t THEN own ELSE NULL
  BY <1>1, <1>5 DEF UnlockAll2, ArenaOf
<1>7. PointInv'
  BY <1>5 DEF PointInv, ReusePoints
<1>8. \A a \in 1 .. arena_count : Attached(a)' = IF a = own THEN {t} ELSE {}
  BY <1>6, AttachedIs DEF NULL
<1>9. CountInv'
  <2> SUFFICES ASSUME NEW a \in 1 .. arena_count
               PROVE  attached_threads'[a] = Cardinality(Attached(a)')
    BY <1>5 DEF CountInv
  <2>1. attached_threads'[a] = IF a = own THEN 1 ELSE 0
    BY <1>1, Bounded DEF UnlockAll2
  <2> QED BY <2>1, <1>8, FS_EmptySet, FS_Singleton
<1>10. Chain(S, r)'
  <2> DEFINE before(a) == IF own # NULL /\ a - 1 = own THEN a - 2 ELSE a - 1
  <2>1. \A a \in 1 .. arena_count + 1 :
            before(a) = NULL \/ (before(a) \in S /\ before(a) < a)
    BY <1>2, <1>4 DEF NULL
  <2>2. free_list' = before(arena_count + 1)
    BY <1>1 DEF UnlockAll2
  <2>3. \A a \in S : next_free'[a] = before(a)
    BY <1>1, <1>2, Bounded DEF UnlockAll2
  <2> HIDE DEF before
  <2>4. \A a \in S : a \in 1 .. arena_count /\ r[a] = a /\ Attached(a)' = {}
    BY <1>2, <1>3, <1>8
  <2>5. free_list' = NULL \/ free_list' \in S
    BY <2>1, <2>2, <1>4
  <2>6. \A a \in S : /\ r[a] \in Nat
                     /\ next_free'[a] = NULL
                           \/ (next_free'[a] \in S /\ r[next_free'[a]] < r[a])
    BY <2>1, <2>3, <2>4, <1>4
  <2> QED BY <1>5, <2>4, <2>5, <2>6 DEF Chain
<1> QED BY <1>7, <1>9, <1>10 DEF FreeInv
\* Every step keeps the invariant.
LEMMA FreeStep ==
    ASSUME ListInv, ThInv(arena_count, th), RestInv, FreeInv,
           arena_count <= MaxArenas, arena_count' <= MaxArenas,
           NEW t \in Threads, Call(t) \/ Step(t)
    PROVE  FreeInv'
<1> USE ListMain DEF ReusePoints
<1>1. CASE CallMalloc(t)
  <2>1. \E pt \in {"get", "free_list"} : \E b : Moves(t, pt, b)
    BY <1>1, StepOf DEF CallMalloc
  <2> QED BY <1>1, <2>1, PlainStep DEF CallMalloc, list, At
<1>2. CASE CallVisit(t)
  <2>1. PICK a : GoWith(t, "lock_visit", a)
    BY <1>2 DEF CallVisit
  <2> QED BY <1>2, <2>1, StepOf, PlainStep DEF CallVisit, list, At
<1>3. CASE CallExit(t)
  <2>1. /\ Moves(t, "exit", thread_arena[t]) /\ th[t].at = "idle"
        /\ thread_arena' = [thread_arena EXCEPT ![t] = NULL]
        /\ UNCHANGED <<freeing, arena_count, next_to_use>>
    BY <1>3, StepOf DEF CallExit, At, list
  <2>2. \A u \in Threads : ArenaOf(u)' = ArenaOf(u)
    BY <2>1 DEF ArenaOf, Moves, ListInv
  <2>3. PointInv'
    BY <2>1 DEF FreeInv, PointInv, Moves, ListInv
  <2> QED BY <2>1, <2>2, <2>3, SameArenas DEF FreeInv
<1>4. CASE CallFork(t)
  BY <1>4, StepOf, PlainStep DEF CallFork, list, At
<1>5. CASE LockOwn(t)
  BY <1>5, StepOf, PlainStep DEF LockOwn, list, At
<1>6. CASE Fail(t)
  <2>1. \E pt \in {"free_list", "idle", "retry"} : \E b : Moves(t, pt, b)
    BY <1>6 DEF Fail, ThInv, Locals, Moves, Idle
  <2> QED BY <1>6, <2>1, PlainStep DEF Fail, list, At
<1>7. CASE LockMain(t)
  BY <1>7, StepOf, PlainStep DEF LockMain, list, At
<1>8. CASE Return(t)
  BY <1>8, StepOf, PlainStep DEF Return, list, At
<1>9. CASE Visit(t)
  BY <1>9, StepOf, PlainStep DEF Visit, list, At
<1>10. CASE Leave(t)
  BY <1>10, StepOf, PlainStep DEF Leave, list, At
<1>11. CASE GetFreeList(t)
  <2>1. CASE free_list = NULL
    <3>1. GoTo(t, "arena_get2") /\ UNCHANGED freeing
      BY <1>11, <2>1 DEF GetFreeList
    <3> QED BY <1>11, <3>1, StepOf, PlainStep DEF GetFreeList, list, At
  <2>2. CASE free_list # NULL
    BY <1>11, <2>2, GetFreeListKeeps DEF GetFreeList
  <2> QED BY <2>1, <2>2
<1>12. CASE LockFree(t)
  <2>1. /\ Moves(t, "int_malloc", th[t].ar) /\ th[t].at = "lock_free"
        /\ thread_arena' = [thread_arena EXCEPT ![t] = th[t].ar]
        /\ UNCHANGED <<freeing, arena_count, next_to_use>>
    BY <1>12, StepOf DEF LockFree, At, list
  <2>2. \A u \in Threads : ArenaOf(u)' = ArenaOf(u)
    BY <2>1 DEF ArenaOf, Moves, ListInv
  <2>3. PointInv'
    BY <2>1 DEF FreeInv, PointInv, Moves, ListInv
  <2> QED BY <2>1, <2>2, <2>3, SameArenas DEF FreeInv
<1>13. CASE ArenaGet2(t)
  BY <1>13, StepOf, PlainStep DEF ArenaGet2, list, At
<1>14. CASE Repeat(t)
  <2>1. /\ th[t].at = "repeat"
        /\ \E b : \/ Moves(t, "cas", b) /\ next_to_use' = next_to_use
                  \/ Moves(t, "try", b) /\ next_to_use' # NULL
    BY <1>14 DEF Repeat, ThInv, Locals, Moves, At
  <2> QED BY <1>14, <2>1, PlainStep DEF Repeat, list, At
<1>15. CASE Cas(t)
  <2>1. \E pt \in {"new_heap", "repeat"} : \E b : Moves(t, pt, b)
    BY <1>15, StepOf DEF Cas
  <2> QED BY <1>15, <2>1, PlainStep DEF Cas, list, At
<1>16. CASE NewHeap(t)
  <2>1. \E pt \in {"link", "idle"} : \E b : Moves(t, pt, b)
    BY <1>16, StepOf DEF NewHeap
  <2> QED BY <1>16, <2>1, PlainStep DEF NewHeap, list, At
<1>17. CASE Link(t)
  BY <1>17, LinkKeeps
<1>18. CASE LockNew(t)
  BY <1>18, StepOf, PlainStep DEF LockNew, list, At
<1>19. CASE Try(t)
  <2>1. /\ th[t].at = "try" /\ next_to_use # NULL
        /\ UNCHANGED <<freeing, arena_count, thread_arena, next_to_use>>
    BY <1>19 DEF Try, At, list, FreeInv, PointInv
  <2>2. CASE GoTo(t, "attach") \/ Finish(t)
    BY <2>1, <2>2, StepOf, PlainStep
  <2>3. CASE \E b : GoWith(t, "try", b)
    BY <2>1, <2>3, StepOf, PlainStep
  <2>4. CASE \E b : GoWith(t, "wait", b)
    BY <2>1, <2>4, StepOf, PlainStep
  <2> QED BY <1>19, <2>2, <2>3, <2>4 DEF Try
<1>20. CASE Wait(t)
  <2>1. th[t].at = "wait" /\ next_to_use # NULL /\ UNCHANGED next_to_use
    BY <1>20 DEF Wait, At, list, FreeInv, PointInv
  <2> QED BY <1>20, <2>1, StepOf, PlainStep DEF Wait, list
<1>21. CASE Reuse(t)
  <2>1. /\ th[t].at = "attach" /\ next_to_use # NULL /\ UNCHANGED next_to_use
        /\ thread_arena' = [thread_arena EXCEPT ![t] = th[t].ar]
        /\ Moves(t, "advance", th[t].ar)
    BY <1>21, StepOf DEF Reuse, At, list, FreeInv, PointInv
  <2>2. PointInv'
    BY <2>1 DEF FreeInv, PointInv, Moves, ListInv
  <2> QED BY <2>1, <2>2 DEF FreeInv
<1>22. CASE Advance(t)
  <2>1. next_to_use' # NULL
    BY <1>22, ArKnown DEF Advance, NextArena, Locking, ListInv, NULL, main, At
  <2> QED BY <1>22, <2>1, StepOf, PlainStep DEF Advance, list, At
<1>23. CASE Exit(t)
  BY <1>23, ExitKeeps
<1>24. CASE LockList(t)
  BY <1>24, StepOf, PlainStep DEF LockList, list, At
<1>25. CASE LockAll(t)
  <2>1. \E pt \in {"forked", "lock_all"} : \E b : Moves(t, pt, b)
    BY <1>25, StepOf DEF LockAll
  <2> QED BY <1>25, <2>1, PlainStep DEF LockAll, list, At
<1>26. CASE UnlockAll(t)
  BY <1>26, StepOf, PlainStep DEF UnlockAll, list, At
<1>27. CASE UnlockAll2(t)
  BY <1>27, UnlockAll2Keeps
<1> QED BY <1>1, <1>2, <1>3, <1>4, <1>5, <1>6, <1>7, <1>8, <1>9, <1>10, <1>11, <1>12,
       <1>13, <1>14, <1>15, <1>16, <1>17, <1>18, <1>19, <1>20, <1>21, <1>22, <1>23, <1>24,
       <1>25, <1>26, <1>27 DEF Call, Step

(***************************************************************************)
(* The theorems.                                                           *)
(***************************************************************************)
\* At the start the free list is empty, and the first thread is the only one of the main
\* arena.
LEMMA InitFree ==
    ASSUME Init
    PROVE  FreeInv
<1>1. PointInv
  BY DEF Init, PointInv, Idle, ReusePoints
<1>2. PICK t \in Threads : thread_arena = [u \in Threads |-> IF u = t THEN main ELSE NULL]
  BY DEF Init
<1>3. Attached(main) = {t}
  BY <1>2 DEF Init, Attached, Idle, main, NULL
<1>4. 1 .. arena_count = {main} /\ main \in Arenas
  BY LimitAssumption DEF Init, main, Arenas
<1>5. CountInv
  BY <1>3, <1>4, FS_Singleton DEF Init, CountInv
<1>6. Chain({}, <<>>)
  BY DEF Init, Chain
<1> QED BY <1>1, <1>5, <1>6 DEF FreeInv

\* Every step keeps the invariant, as it keeps Inv.
LEMMA NextFree ==
    ASSUME LimitKnown, Inv, Inv', FreeInv, [Next]_vars
    PROVE  FreeInv'
<1>1. CASE UNCHANGED vars
  <2>1. PointInv' /\ (next_to_use' = NULL => next_to_use = NULL)
    BY <1>1 DEF vars, list, FreeInv, PointInv
  <2>2. \A u \in Threads : ArenaOf(u)' = ArenaOf(u)
    BY <1>1 DEF vars, ArenaOf
  <2>3. UNCHANGED <<freeing, arena_count>>
    BY <1>1 DEF vars, list
  <2> QED BY <2>1, <2>2, <2>3, SameArenas DEF FreeInv
<1>2. CASE \E t \in Threads : Call(t) \/ Step(t)
  <2>1. arena_count <= MaxArenas
    BY Counted DEF Inv
  <2>2. arena_count' <= MaxArenas
    BY MakingFinite, LimitAssumption DEF Inv, ListInv, LimitInv, LimitKnown
  <2> QED BY <1>2, <2>1, <2>2, FreeStep DEF Inv
<1> QED BY <1>1, <1>2 DEF Next

\* The invariant holds in every state if M_ARENA_MAX is set.
THEOREM FreeAlways == ASSUME LimitKnown PROVE Spec => []FreeInv
<1>1. Init => FreeInv
  BY InitFree
<1>2. Inv /\ Inv' /\ FreeInv /\ [Next]_vars => FreeInv'
  BY NextFree
<1> QED BY <1>1, <1>2, InvAlways, PTL DEF Spec

\* attached_threads tells how many threads an arena has, those included that
\* get_free_list gave it and those that arena_thread_freeres has still to take off, until
\* reused_arena is called for the first time.
THEOREM ThreadsCounted == ASSUME LimitKnown PROVE Spec => []AttachedCounted
<1>1. FreeInv => AttachedCounted
  BY DEF FreeInv, CountInv, AttachedCounted
<1> QED BY <1>1, FreeAlways, PTL

\* As long as that holds, no thread is attached to an arena of the free list, whatever
\* the order in which threads end, take arenas off the list and fork (arena.c 1015).
THEOREM FreeArenasDetached == ASSUME LimitKnown PROVE Spec => []FreeListDetached
<1>1. ASSUME Inv, FreeInv
      PROVE  FreeListDetached
  <2> SUFFICES ASSUME next_to_use = NULL, NEW a \in OnFreeList
               PROVE  Attached(a) = {}
    BY DEF FreeListDetached
  <2>1. PICK S, r : Chain(S, r)
    BY <1>1 DEF FreeInv
  <2>2. S \in SUBSET Arenas
    BY <1>1, <2>1, Counted, Bounded DEF Chain, Inv
  <2>3. a \in S
    BY <2>1, <2>2 DEF OnFreeList, Chain
  <2> QED BY <2>1, <2>3 DEF Chain
<1> QED BY <1>1, InvAlways, FreeAlways, PTL

(***************************************************************************)
(* Part 2: the heaps of an arena                                           *)
(*                                                                         *)
(* The inductive invariant HeapsInv is stated of any records m, heaps hs   *)
(* and top chunk t, and of any sets B of free chunks and L of chunks in    *)
(* use: within one step of the program these take several values.  Arena   *)
(* has three parts: Geo, the chunks tile the heaps in the order of their   *)
(* links; Tags, what a chunk says of the one before; and Places, where the *)
(* free chunks, the chunks in use and the fenceposts are.  There is a      *)
(* lemma about Arena for each thing that malloc, free and heap_trim do to  *)
(* the chunks, and each action is one or a few of these.                   *)
(***************************************************************************)

ChunkInfo == [size : Nat, prev_inuse : BOOLEAN, prev_size : Nat, md_prev : Int, md_next : Int]
HeapRec   == [size : Nat, mprotect_size : Nat, access : Nat, prev : Int]

UnitsOf(c)   == IF c.size = 0 THEN 1 ELSE c.size
EndOf(hs, h) == h + hs[h].size
IsPrev(hs, h) == \E g \in DOMAIN hs : hs[g].prev = h

\* The heaps: their sizes, what is accessible of them, and their order
HeapsOK(hs) ==
    /\ hs \in [DOMAIN hs -> HeapRec]
    /\ DOMAIN hs \subseteq Bases /\ FirstHeap \in DOMAIN hs
    /\ \A h \in DOMAIN hs :
          /\ HeapInfo <= hs[h].size /\ hs[h].size <= HEAP_MAX_SIZE /\ hs[h].size % PageSize = 0
          /\ hs[h].mprotect_size <= hs[h].access /\ hs[h].size <= hs[h].access
          /\ IF h = FirstHeap THEN hs[h].prev = Nil ELSE hs[h].prev \in DOMAIN hs
    /\ \A g, h \in DOMAIN hs : hs[g].prev = hs[h].prev => g = h

Recs(m) == m \in [DOMAIN m -> ChunkInfo] /\ DOMAIN m \subseteq Nat \ {Nil}

\* every chunk lies in a heap, behind its header
Within(m, hs) ==
    \A p \in DOMAIN m :
       /\ HeapForPtr(p) \in DOMAIN hs
       /\ Start(HeapForPtr(p)) <= p /\ p + UnitsOf(m[p]) <= EndOf(hs, HeapForPtr(p))

Disjointly(m) == \A p, q \in DOMAIN m : p < q => p + UnitsOf(m[p]) <= q

Covers(m, hs) ==
    \A h \in DOMAIN hs : \A x \in Start(h) .. EndOf(hs, h) - 1 :
       \E p \in DOMAIN m : p <= x /\ x < p + UnitsOf(m[p])

\* what follows p: the next chunk of the heap or, behind its last fencepost, the first
\* one of the heap that came next
Follows(m, hs, p, n) ==
    IF m[p].size = 0 THEN \E h \in DOMAIN hs : hs[h].prev = HeapForPtr(p) /\ n = Start(h)
                     ELSE n = p + m[p].size

Nexts(m, hs, t) ==
    /\ m[t].md_next = Nil
    /\ \A p \in DOMAIN m \ {t} :
          /\ m[p].md_next \in DOMAIN m /\ m[m[p].md_next].md_prev = p
          /\ Follows(m, hs, p, m[p].md_next)

Backs(m) ==
    \A p \in DOMAIN m :
       m[p].md_prev # Nil => m[p].md_prev \in DOMAIN m /\ m[m[p].md_prev].md_next = p

\* the last fencepost f, and the chunk before it
Post(m, f) ==
    /\ f \in DOMAIN m /\ m[f].size = 0
    /\ m[f].md_prev \in DOMAIN m /\ m[m[f].md_prev].size # 0

Posts(m, hs) ==
    /\ \A h \in DOMAIN hs : IsPrev(hs, h) => Post(m, EndOf(hs, h) - 1)
    /\ \A p \in DOMAIN m : m[p].size = 0 => p = EndOf(hs, HeapForPtr(p)) - 1

TopEnds(m, hs, t) ==
    /\ t \in DOMAIN m /\ m[t].size >= MINSIZE
    /\ t + m[t].size = EndOf(hs, HeapForPtr(t))
    /\ ~IsPrev(hs, HeapForPtr(t))

Geo(m, hs, t) ==
    /\ Recs(m) /\ Within(m, hs) /\ Disjointly(m) /\ Covers(m, hs)
    /\ Nexts(m, hs, t) /\ Backs(m) /\ Posts(m, hs) /\ TopEnds(m, hs, t)

\* prev_inuse and prev_size of p tell of the chunk before p
Right(m, B, p) ==
    /\ m[p].prev_inuse <=> m[p].md_prev \notin B
    /\ m[p].md_prev \in B => m[p].prev_size = m[m[p].md_prev].size

Tags(m, t, B) ==
    /\ B \subseteq DOMAIN m
    /\ \A p \in DOMAIN m : Right(m, B, p)
    /\ \A p \in B : m[p].md_next # t /\ m[p].md_next \notin B

\* no chunk is in two places, and none that is free or in use is a last fencepost, or
\* borders one: what borders it is short.
Places(m, t, B, L) ==
    /\ B \cap L = {} /\ t \notin B \cup L /\ L \subseteq DOMAIN m
    /\ \A p \in B \cup L : m[p].size # 0 /\ m[m[p].md_next].size # 0
    /\ \A p \in DOMAIN m : m[p].size = 0 => m[m[p].md_prev].size \in {1, 2}

Arena(m, hs, t, B, L) == Geo(m, hs, t) /\ Tags(m, t, B) /\ Places(m, t, B, L)

HeapsInv ==
    /\ HeapsOK(heaps)
    /\ Arena(md, heaps, top, binned, held)
    /\ op \in {Nil, HeapForPtr(top)}
    /\ system_mem = Total(heaps)

(***************************************************************************)
(* Addresses and sizes                                                     *)
(***************************************************************************)
LEMMA Constants ==
    /\ HEAP_MAX_SIZE \in Nat \ {0} /\ HEAP_MIN_SIZE \in Nat /\ HEAP_MIN_SIZE <= HEAP_MAX_SIZE
    /\ HeapInfo \in Nat \ {0} /\ ArenaState \in Nat \ {0} /\ PageSize \in Nat \ {0}
    /\ TopPad \in Nat /\ MINSIZE = 2 /\ Nil = 0
    /\ HeapInfo + ArenaState + 2 <= HEAP_MIN_SIZE
    /\ HEAP_MIN_SIZE % PageSize = 0 /\ HEAP_MAX_SIZE % PageSize = 0
BY HeapsAssumption DEF MINSIZE, Nil

LEMMA Product ==
    ASSUME NEW a \in Nat \ {0}, NEW i \in Int, NEW j \in Int, i < j
    PROVE  a * i + a <= a * j
<1>1. PICK k \in Nat : j = i + 1 + k
  <2>1. j - i - 1 \in Nat /\ j = i + 1 + (j - i - 1)
    OBVIOUS
  <2> QED BY <2>1
<1>2. a * j = a * i + a + a * k
  BY <1>1
<1>3. a * k \in Nat
  OBVIOUS
<1>4. a * i \in Int /\ a * j \in Int
  OBVIOUS
<1> QED BY <1>2, <1>3, <1>4

LEMMA Remainder ==
    ASSUME NEW n \in Int, NEW a \in Nat \ {0}
    PROVE  n % a \in 0 .. a - 1 /\ \E q \in Int : n % a = n - a * q
OBVIOUS

LEMMA RoundedDown ==
    ASSUME NEW n \in Int, NEW a \in Nat \ {0}
    PROVE  /\ AlignDown(n, a) \in Int /\ AlignDown(n, a) <= n /\ n < AlignDown(n, a) + a
           /\ \E q \in Int : AlignDown(n, a) = a * q
<1>1. n % a \in 0 .. a - 1
  BY Remainder
<1>2. PICK q \in Int : n % a = n - a * q
  BY Remainder
<1>3. a * q \in Int
  OBVIOUS
<1>4. AlignDown(n, a) = a * q
  BY <1>1, <1>2, <1>3 DEF AlignDown
<1>5. AlignDown(n, a) \in Int /\ AlignDown(n, a) <= n /\ n < AlignDown(n, a) + a
  BY <1>1 DEF AlignDown
<1> QED BY <1>4, <1>5

LEMMA RoundedUp ==
    ASSUME NEW n \in Int, NEW a \in Nat \ {0}
    PROVE  /\ AlignUp(n, a) \in Int /\ n <= AlignUp(n, a) /\ AlignUp(n, a) < n + a
           /\ \E q \in Int : AlignUp(n, a) = a * q
<1>k. PICK k \in Int : k = -n
  OBVIOUS
<1>1. k % a \in 0 .. a - 1
  BY Remainder
<1>2. PICK q \in Int : k % a = k - a * q
  BY Remainder
<1>3. a * q \in Int /\ a * (-q) = -(a * q) /\ -q \in Int
  OBVIOUS
<1>4. AlignUp(n, a) = a * (-q)
  BY <1>1, <1>2, <1>3, <1>k DEF AlignUp
<1>5. AlignUp(n, a) \in Int /\ n <= AlignUp(n, a) /\ AlignUp(n, a) < n + a
  BY <1>1, <1>k DEF AlignUp
<1> QED BY <1>3, <1>4, <1>5

\* What is a multiple leaves no remainder, and the other way round.
LEMMA Multiple ==
    ASSUME NEW a \in Nat \ {0}, NEW n \in Int
    PROVE  n % a = 0 <=> \E q \in Int : n = a * q
<1>1. ASSUME n % a = 0 PROVE \E q \in Int : n = a * q
  <2>1. PICK q \in Int : n % a = n - a * q
    BY Remainder
  <2>2. a * q \in Int
    OBVIOUS
  <2> QED BY <2>1, <2>2, <1>1
<1>2. ASSUME NEW q \in Int, n = a * q PROVE n % a = 0
  <2>1. n % a \in 0 .. a - 1
    BY Remainder
  <2>2. PICK r \in Int : n % a = n - a * r
    BY Remainder
  <2>3. a * q \in Int /\ a * r \in Int
    OBVIOUS
  <2>4. CASE q = r
    BY <2>2, <2>4, <2>3, <1>2
  <2>5. CASE q < r
    <3>1. a * q + a <= a * r
      BY <2>5, Product
    <3> QED BY <3>1, <2>1, <2>2, <2>3, <1>2
  <2>6. CASE r < q
    <3>1. a * r + a <= a * q
      BY <2>6, Product
    <3> QED BY <3>1, <2>1, <2>2, <2>3, <1>2
  <2> QED BY <2>4, <2>5, <2>6
<1> QED BY <1>1, <1>2

LEMMA SumOfMultiples ==
    ASSUME NEW a \in Nat \ {0}, NEW m \in Int, NEW n \in Int, m % a = 0, n % a = 0
    PROVE  (m + n) % a = 0 /\ (m - n) % a = 0
<1>1. PICK i \in Int : m = a * i
  BY Multiple
<1>2. PICK j \in Int : n = a * j
  BY Multiple
<1>3. a * (i + j) = a * i + a * j /\ a * (i - j) = a * i - a * j
  OBVIOUS
<1>4. i + j \in Int /\ i - j \in Int
  OBVIOUS
<1>5. m + n = a * (i + j) /\ m - n = a * (i - j)
  BY <1>1, <1>2, <1>3
<1>6. (m + n) % a = 0
  <2>1. m + n \in Int
    OBVIOUS
  <2> QED BY <2>1, <1>4, <1>5, Multiple
<1>7. (m - n) % a = 0
  <2>1. m - n \in Int
    OBVIOUS
  <2> QED BY <2>1, <1>4, <1>5, Multiple
<1> QED BY <1>6, <1>7

\* Aligned up, a number does not pass the next multiple.
LEMMA RoundedWithin ==
    ASSUME NEW a \in Nat \ {0}, NEW n \in Int, NEW k \in Int, n <= k, k % a = 0
    PROVE  AlignUp(n, a) <= k
<1>1. PICK q \in Int : AlignUp(n, a) = a * q
  BY RoundedUp
<1>2. PICK i \in Int : k = a * i
  BY Multiple
<1>3. a * q \in Int /\ a * i \in Int /\ AlignUp(n, a) < n + a
  BY RoundedUp
<1>4. CASE q <= i
  <2>1. CASE q = i
    BY <2>1, <1>1, <1>2, <1>3
  <2>2. CASE q < i
    <3>1. a * q + a <= a * i
      BY <2>2, Product
    <3> QED BY <3>1, <1>1, <1>2, <1>3
  <2> QED BY <2>1, <2>2, <1>4
<1>5. CASE i < q
  <2>1. a * i + a <= a * q
    BY <1>5, Product
  <2> QED BY <2>1, <1>1, <1>2, <1>3
<1> QED BY <1>4, <1>5

\* heap_for_ptr finds the heap in which an address lies.
LEMMA HeapAt ==
    ASSUME NEW h \in Bases, NEW p \in Int
    PROVE  /\ h \in Nat /\ HEAP_MAX_SIZE <= h
           /\ HeapForPtr(p) = h <=> h <= p /\ p < h + HEAP_MAX_SIZE
<1>1. PICK i \in 1 .. MaxHeaps : h = HEAP_MAX_SIZE * i
  BY DEF Bases
<1>2. i \in Nat /\ i >= 1 /\ HEAP_MAX_SIZE \in Nat \ {0}
  BY <1>1, HeapsAssumption, Constants
<1>3. h \in Nat /\ HEAP_MAX_SIZE <= h
  <2>1. CASE i = 1
    BY <2>1, <1>1, <1>2
  <2>2. CASE 1 < i
    <3>1. HEAP_MAX_SIZE * 1 + HEAP_MAX_SIZE <= HEAP_MAX_SIZE * i
      BY <2>2, <1>2, Product
    <3>2. HEAP_MAX_SIZE * i \in Int
      BY <1>2
    <3> QED BY <3>1, <3>2, <1>1, <1>2
  <2> QED BY <2>1, <2>2, <1>2
<1>4. /\ HeapForPtr(p) \in Int /\ HeapForPtr(p) <= p /\ p < HeapForPtr(p) + HEAP_MAX_SIZE
  BY <1>2, RoundedDown DEF HeapForPtr
<1>5. PICK q \in Int : HeapForPtr(p) = HEAP_MAX_SIZE * q
  BY <1>2, RoundedDown DEF HeapForPtr
<1>6. ASSUME h <= p, p < h + HEAP_MAX_SIZE PROVE HeapForPtr(p) = h
  <2>1. CASE q = i
    BY <2>1, <1>1, <1>5
  <2>2. CASE q < i
    <3>1. HEAP_MAX_SIZE * q + HEAP_MAX_SIZE <= HEAP_MAX_SIZE * i
      BY <2>2, <1>2, Product
    <3> QED BY <3>1, <1>1, <1>2, <1>3, <1>4, <1>5, <1>6
  <2>3. CASE i < q
    <3>1. HEAP_MAX_SIZE * i + HEAP_MAX_SIZE <= HEAP_MAX_SIZE * q
      BY <2>3, <1>2, Product
    <3> QED BY <3>1, <1>1, <1>2, <1>3, <1>4, <1>5, <1>6
  <2> QED BY <2>1, <2>2, <2>3, <1>2
<1> QED BY <1>3, <1>4, <1>6

LEMMA FirstIsBase == FirstHeap \in Bases
<1>1. HEAP_MAX_SIZE = HEAP_MAX_SIZE * 1 /\ 1 \in 1 .. MaxHeaps
  BY Constants, HeapsAssumption
<1> QED BY <1>1 DEF FirstHeap, Bases

LEMMA BasesApart ==
    ASSUME NEW g \in Bases, NEW h \in Bases, g # h
    PROVE  g + HEAP_MAX_SIZE <= h \/ h + HEAP_MAX_SIZE <= g
<1>1. g \in Nat /\ h \in Nat /\ HEAP_MAX_SIZE \in Nat \ {0}
  <2>1. 0 \in Int
    OBVIOUS
  <2> QED BY <2>1, HeapAt, Constants
<1>2. HeapForPtr(g) = g /\ HeapForPtr(h) = h
  <2>1. g \in Int /\ h \in Int
    BY <1>1
  <2>2. g <= g /\ g < g + HEAP_MAX_SIZE /\ h <= h /\ h < h + HEAP_MAX_SIZE
    BY <1>1
  <2> QED BY <2>1, <2>2, HeapAt
<1>3. ~(h <= g /\ g < h + HEAP_MAX_SIZE)
  BY <1>1, <1>2, HeapAt
<1>4. ~(g <= h /\ h < g + HEAP_MAX_SIZE)
  BY <1>1, <1>2, HeapAt
<1> QED BY <1>1, <1>3, <1>4

LEMMA StartIs ==
    ASSUME NEW h \in Bases
    PROVE  /\ Start(h) \in Nat /\ h < Start(h)
           /\ h # FirstHeap => Start(h) = h + HeapInfo
           /\ Start(FirstHeap) = FirstHeap + HeapInfo + ArenaState
<1>1. h \in Nat
  <2>1. 0 \in Int
    OBVIOUS
  <2> QED BY <2>1, HeapAt
<1> QED BY <1>1, Constants DEF Start

(***************************************************************************)
(* What lies where in the records after each operator                      *)
(***************************************************************************)
\* Two records that agree on what the layout is made of, and on the tags.
SameGeo(c, d)  == c.size = d.size /\ c.md_next = d.md_next /\ c.md_prev = d.md_prev
SameTags(c, d) == c.prev_inuse = d.prev_inuse /\ c.prev_size = d.prev_size

PutsSize(D, m, p, v, z) ==
    /\ z \in [D -> ChunkInfo] /\ DOMAIN z = D
    /\ \A x \in D : /\ z[x].size = (IF x = p THEN v ELSE m[x].size)
                    /\ z[x].md_next = m[x].md_next /\ z[x].md_prev = m[x].md_prev
                    /\ SameTags(z[x], m[x])

LEMMA PutSize ==
    ASSUME NEW D, NEW m \in [D -> ChunkInfo], NEW p \in D, NEW v \in Nat,
           NEW z, z = [m EXCEPT ![p].size = v]
    PROVE  PutsSize(D, m, p, v, z)
BY DEF ChunkInfo, SameTags, PutsSize

PutsNext(D, m, p, v, z) ==
    /\ z \in [D -> ChunkInfo] /\ DOMAIN z = D
    /\ \A x \in D : /\ z[x].md_next = (IF x = p THEN v ELSE m[x].md_next)
                    /\ z[x].size = m[x].size /\ z[x].md_prev = m[x].md_prev
                    /\ SameTags(z[x], m[x])

LEMMA PutNext ==
    ASSUME NEW D, NEW m \in [D -> ChunkInfo], NEW p \in D, NEW v \in Int,
           NEW z, z = [m EXCEPT ![p].md_next = v]
    PROVE  PutsNext(D, m, p, v, z)
BY DEF ChunkInfo, SameTags, PutsNext

PutsPrev(D, m, p, v, z) ==
    /\ z \in [D -> ChunkInfo] /\ DOMAIN z = D
    /\ \A x \in D : /\ z[x].md_prev = (IF x = p THEN v ELSE m[x].md_prev)
                    /\ z[x].size = m[x].size /\ z[x].md_next = m[x].md_next
                    /\ SameTags(z[x], m[x])

LEMMA PutPrev ==
    ASSUME NEW D, NEW m \in [D -> ChunkInfo], NEW p \in D, NEW v \in Int,
           NEW z, z = [m EXCEPT ![p].md_prev = v]
    PROVE  PutsPrev(D, m, p, v, z)
BY DEF ChunkInfo, SameTags, PutsPrev

PutsInuse(D, m, p, v, z) ==
    /\ z \in [D -> ChunkInfo] /\ DOMAIN z = D
    /\ \A x \in D : /\ z[x].prev_inuse = (IF x = p THEN v ELSE m[x].prev_inuse)
                    /\ z[x].prev_size = m[x].prev_size
                    /\ SameGeo(z[x], m[x])

LEMMA PutInuse ==
    ASSUME NEW D, NEW m \in [D -> ChunkInfo], NEW p \in D, NEW v \in BOOLEAN,
           NEW z, z = [m EXCEPT ![p].prev_inuse = v]
    PROVE  PutsInuse(D, m, p, v, z)
BY DEF ChunkInfo, SameGeo, PutsInuse

PutsPrevSize(D, m, p, v, z) ==
    /\ z \in [D -> ChunkInfo] /\ DOMAIN z = D
    /\ \A x \in D : /\ z[x].prev_size = (IF x = p THEN v ELSE m[x].prev_size)
                    /\ z[x].prev_inuse = m[x].prev_inuse
                    /\ SameGeo(z[x], m[x])

LEMMA PutPrevSize ==
    ASSUME NEW D, NEW m \in [D -> ChunkInfo], NEW p \in D, NEW v \in Nat,
           NEW z, z = [m EXCEPT ![p].prev_size = v]
    PROVE  PutsPrevSize(D, m, p, v, z)
BY DEF ChunkInfo, SameGeo, PutsPrevSize

PutsRecord(D, m, p, c, z) ==
    /\ z \in [D \cup {p} -> ChunkInfo] /\ DOMAIN z = D \cup {p} /\ z[p] = c
    /\ \A x \in D \ {p} : z[x] = m[x]

LEMMA RegisterIs ==
    ASSUME NEW D, NEW m \in [D -> ChunkInfo], NEW p, NEW c \in ChunkInfo,
           NEW z, z = Register(m, p, c)
    PROVE  PutsRecord(D, m, p, c, z)
BY DEF Register, PutsRecord

PutsOut(D, m, p, z) ==
    /\ z \in [D \ {p} -> ChunkInfo] /\ DOMAIN z = D \ {p}
    /\ \A x \in D \ {p} : z[x] = m[x]

LEMMA WithoutIs ==
    ASSUME NEW D, NEW m \in [D -> ChunkInfo], NEW p, NEW z, z = Without(m, p)
    PROVE  PutsOut(D, m, p, z)
BY DEF Without, PutsOut

\* md_next of p, and md_prev of n
PutsLink(D, m, p, n, z) ==
    /\ z \in [D -> ChunkInfo] /\ DOMAIN z = D
    /\ \A x \in D : /\ z[x].md_next = (IF x = p THEN n ELSE m[x].md_next)
                    /\ z[x].md_prev = (IF x = n THEN p ELSE m[x].md_prev)
                    /\ z[x].size = m[x].size /\ SameTags(z[x], m[x])

LEMMA LinkIs ==
    ASSUME NEW D, NEW m \in [D -> ChunkInfo], NEW p \in D, NEW n, n = Nil \/ n \in D,
           D \subseteq Nat \ {Nil}, NEW z, z = LinkChunks(m, p, n)
    PROVE  PutsLink(D, m, p, n, z)
<1>s. PICK s : s = [m EXCEPT ![p].md_next = n]
  OBVIOUS
<1>1. p \in Int /\ n \in Int
  <2>1. Nil \in Int
    BY DEF Nil
  <2>2. D \subseteq Int
    OBVIOUS
  <2> QED BY <2>1, <2>2
<1>2. /\ s \in [D -> ChunkInfo] /\ DOMAIN s = D
      /\ \A x \in D : /\ s[x].md_next = (IF x = p THEN n ELSE m[x].md_next)
                      /\ s[x].size = m[x].size /\ s[x].md_prev = m[x].md_prev
                      /\ SameTags(s[x], m[x])
  BY <1>1, <1>s, PutNext DEF PutsNext
<1>3. CASE n = Nil
  <2>1. z = s
    BY <1>3, <1>s DEF LinkChunks
  <2>2. Nil \notin D
    OBVIOUS
  <2> QED BY <2>1, <2>2, <1>2, <1>3 DEF PutsLink
<1>4. CASE n # Nil
  <2>1. z = [s EXCEPT ![n].md_prev = p]
    BY <1>4, <1>s DEF LinkChunks
  <2>2. n \in D
    BY <1>4
  <2>3. /\ z \in [D -> ChunkInfo] /\ DOMAIN z = D
        /\ \A x \in D : /\ z[x].md_prev = (IF x = n THEN p ELSE s[x].md_prev)
                        /\ z[x].size = s[x].size /\ z[x].md_next = s[x].md_next
                        /\ SameTags(z[x], s[x])
    <3>1. s \in [D -> ChunkInfo]
      BY <1>2
    <3>2. PutsPrev(D, s, n, p, z)
      BY <3>1, <2>1, <2>2, <1>1, PutPrev
    <3> QED BY <3>2 DEF PutsPrev
  <2> QED BY <2>3, <1>2 DEF SameTags, PutsLink
<1> QED BY <1>3, <1>4

\* set_head of p, with PREV_INUSE
PutsHead(D, m, p, v, z) ==
    /\ z \in [D -> ChunkInfo] /\ DOMAIN z = D
    /\ z[p].prev_inuse = TRUE /\ z[p].prev_size = 0
    /\ \A x \in D : /\ z[x].size = (IF x = p THEN v ELSE m[x].size)
                    /\ z[x].md_next = m[x].md_next /\ z[x].md_prev = m[x].md_prev
                    /\ x # p => SameTags(z[x], m[x])

LEMMA SetHeadIs ==
    ASSUME NEW D, NEW m \in [D -> ChunkInfo], NEW p \in D, NEW v \in Nat,
           NEW z, z = SetHead(m, p, v)
    PROVE  PutsHead(D, m, p, v, z)
<1>a. PICK a : a = [m EXCEPT ![p].size = v]
  OBVIOUS
<1>b. PICK b : b = [a EXCEPT ![p].prev_inuse = TRUE]
  OBVIOUS
<1>1. /\ a \in [D -> ChunkInfo] /\ DOMAIN a = D
      /\ \A x \in D : /\ a[x].size = (IF x = p THEN v ELSE m[x].size)
                      /\ a[x].md_next = m[x].md_next /\ a[x].md_prev = m[x].md_prev
                      /\ SameTags(a[x], m[x])
  BY <1>a, PutSize DEF PutsSize
<1>v. PICK v1 \in BOOLEAN : v1 = TRUE
  OBVIOUS
<1>w. PICK v2 \in Nat : v2 = 0
  OBVIOUS
<1>2. /\ b \in [D -> ChunkInfo] /\ DOMAIN b = D
      /\ \A x \in D : /\ b[x].prev_inuse = (IF x = p THEN v1 ELSE a[x].prev_inuse)
                      /\ b[x].prev_size = a[x].prev_size
                      /\ SameGeo(b[x], a[x])
  <2>1. b = [a EXCEPT ![p].prev_inuse = v1]
    BY <1>b, <1>v
  <2>2. a \in [D -> ChunkInfo]
    BY <1>1
  <2>3. PutsInuse(D, a, p, v1, b)
    BY <2>1, <2>2, <1>v, PutInuse
  <2> QED BY <2>3 DEF PutsInuse
<1>3. z = [b EXCEPT ![p].prev_size = 0]
  BY <1>a, <1>b DEF SetHead
<1>4. /\ z \in [D -> ChunkInfo] /\ DOMAIN z = D
      /\ \A x \in D : /\ z[x].prev_size = (IF x = p THEN v2 ELSE b[x].prev_size)
                      /\ z[x].prev_inuse = b[x].prev_inuse
                      /\ SameGeo(z[x], b[x])
  <2>1. z = [b EXCEPT ![p].prev_size = v2]
    BY <1>3, <1>w
  <2>2. b \in [D -> ChunkInfo]
    BY <1>2
  <2>3. PutsPrevSize(D, b, p, v2, z)
    BY <2>1, <2>2, <1>w, PutPrevSize
  <2> QED BY <2>3 DEF PutsPrevSize
<1>5. ASSUME NEW x \in D
      PROVE  /\ z[x].size = (IF x = p THEN v ELSE m[x].size)
             /\ z[x].md_next = m[x].md_next /\ z[x].md_prev = m[x].md_prev
  BY <1>1, <1>2, <1>4 DEF SameGeo
<1>6. ASSUME NEW x \in D, x # p PROVE SameTags(z[x], m[x])
  BY <1>1, <1>2, <1>4, <1>6 DEF SameTags
<1>7. z[p].prev_inuse = TRUE /\ z[p].prev_size = 0
  BY <1>2, <1>4, <1>v, <1>w
<1> QED BY <1>4, <1>5, <1>6, <1>7 DEF PutsHead

PutsFoot(D, m, p, z) ==
    /\ z \in [D -> ChunkInfo] /\ DOMAIN z = D
    /\ \A x \in D : /\ z[x].prev_size = (IF x = m[p].md_next THEN m[p].size
                                                            ELSE m[x].prev_size)
                    /\ z[x].prev_inuse = m[x].prev_inuse
                    /\ SameGeo(z[x], m[x])

LEMMA SetFootIs ==
    ASSUME NEW D, NEW m \in [D -> ChunkInfo], NEW p \in D, m[p].md_next \in D,
           NEW z, z = SetFoot(m, p)
    PROVE  PutsFoot(D, m, p, z)
<1>1. m[p].size \in Nat
  BY DEF ChunkInfo
<1>2. z = [m EXCEPT ![m[p].md_next].prev_size = m[p].size]
  BY DEF SetFoot
<1>3. PutsPrevSize(D, m, m[p].md_next, m[p].size, z)
  BY <1>1, <1>2, PutPrevSize
<1> QED BY <1>3 DEF PutsPrevSize, PutsFoot

PutsUsed(D, m, p, z) ==
    /\ z \in [D -> ChunkInfo] /\ DOMAIN z = D
    /\ z[m[p].md_next].prev_inuse = TRUE
    /\ \A x \in D : /\ x # m[p].md_next => SameTags(z[x], m[x])
                    /\ SameGeo(z[x], m[x])

LEMMA SetInuseIs ==
    ASSUME NEW D, NEW m \in [D -> ChunkInfo], NEW p \in D, m[p].md_next \in D,
           NEW z, z = SetInuse(m, p)
    PROVE  PutsUsed(D, m, p, z)
<1>n. PICK n : n = m[p].md_next
  OBVIOUS
<1>v. PICK v1 \in BOOLEAN : v1 = TRUE
  OBVIOUS
<1>w. PICK v2 \in Nat : v2 = 0
  OBVIOUS
<1>s. PICK s : s = [m EXCEPT ![n].prev_inuse = v1]
  OBVIOUS
<1>1. /\ s \in [D -> ChunkInfo] /\ DOMAIN s = D
      /\ \A x \in D : /\ s[x].prev_inuse = (IF x = n THEN v1 ELSE m[x].prev_inuse)
                      /\ s[x].prev_size = m[x].prev_size
                      /\ SameGeo(s[x], m[x])
  <2>1. PutsInuse(D, m, n, v1, s)
    BY <1>n, <1>s, PutInuse
  <2> QED BY <2>1 DEF PutsInuse
<1>2. z = [s EXCEPT ![n].prev_size = 0]
  BY <1>n, <1>s, <1>v DEF SetInuse
<1>3. /\ z \in [D -> ChunkInfo] /\ DOMAIN z = D
      /\ \A x \in D : /\ z[x].prev_size = (IF x = n THEN v2 ELSE s[x].prev_size)
                      /\ z[x].prev_inuse = s[x].prev_inuse
                      /\ SameGeo(z[x], s[x])
  <2>1. z = [s EXCEPT ![n].prev_size = v2]
    BY <1>2, <1>w
  <2>2. s \in [D -> ChunkInfo] /\ n \in D
    BY <1>1, <1>n
  <2>3. PutsPrevSize(D, s, n, v2, z)
    BY <2>1, <2>2, <1>w, PutPrevSize
  <2> QED BY <2>3 DEF PutsPrevSize
<1>5. ASSUME NEW x \in D PROVE SameGeo(z[x], m[x])
  BY <1>1, <1>3 DEF SameGeo
<1>6. ASSUME NEW x \in D, x # n PROVE SameTags(z[x], m[x])
  BY <1>1, <1>3, <1>6 DEF SameTags
<1>7. z[n].prev_inuse = TRUE
  BY <1>1, <1>3, <1>n, <1>v
<1> QED BY <1>3, <1>5, <1>6, <1>7, <1>n DEF PutsUsed

FreshChunk(c, n, prev, next) ==
    /\ c \in ChunkInfo /\ c.size = n /\ c.prev_inuse = TRUE /\ c.prev_size = 0
    /\ c.md_prev = prev /\ c.md_next = next

LEMMA ChunkIs ==
    ASSUME NEW n \in Nat, NEW prev \in Int, NEW next \in Int, NEW c, c = Chunk(n, prev, next)
    PROVE  FreshChunk(c, n, prev, next)
BY DEF Chunk, ChunkInfo, FreshChunk

LEMMA FieldTypes ==
    ASSUME NEW D, NEW m \in [D -> ChunkInfo], NEW p \in D
    PROVE  /\ m[p].size \in Nat /\ m[p].prev_inuse \in BOOLEAN /\ m[p].prev_size \in Nat
           /\ m[p].md_prev \in Int /\ m[p].md_next \in Int
BY DEF ChunkInfo

\* The records z after m when p has been cut off at the address r
Cut(m, p, r, z) ==
    /\ r \notin DOMAIN m /\ r \in Nat
    /\ DOMAIN z = DOMAIN m \cup {r} /\ z \in [DOMAIN z -> ChunkInfo]
    /\ z[p].size = r - p /\ z[p].md_next = r /\ z[p].md_prev = m[p].md_prev
    /\ z[r].size = p + m[p].size - r /\ z[r].md_next = m[p].md_next /\ z[r].md_prev = p
    /\ \A x \in DOMAIN m \ {p} :
          /\ z[x].size = m[x].size /\ z[x].md_next = m[x].md_next
          /\ z[x].md_prev = (IF x = m[p].md_next THEN r ELSE m[x].md_prev)

Carved(m, p, r, z) ==
    /\ Cut(m, p, r, z)
    /\ z[r].prev_inuse = TRUE
    /\ \A x \in DOMAIN m : SameTags(z[x], m[x])

\* The records z after m when n, the chunk behind p, has been taken out of the list; p has
\* its size still.
Absorbed(m, p, n, z) ==
    /\ DOMAIN z = DOMAIN m \ {n} /\ z \in [DOMAIN z -> ChunkInfo]
    /\ \A x \in DOMAIN m \ {n} :
          /\ z[x].size = m[x].size
          /\ z[x].md_next = (IF x = p THEN m[n].md_next ELSE m[x].md_next)
          /\ z[x].md_prev = (IF x = m[n].md_next THEN p ELSE m[x].md_prev)
          /\ SameTags(z[x], m[x])

LEMMA CarveIs ==
    ASSUME NEW m, Recs(m), NEW p \in DOMAIN m, NEW nb \in Nat, nb < m[p].size,
           NEW r, r = p + nb, r \notin DOMAIN m,
           m[p].md_next = Nil \/ m[p].md_next \in DOMAIN m, m[p].md_next # p,
           NEW z, z = Carve(m, p, nb)
    PROVE  Carved(m, p, r, z)
<1>D. PICK D : D = DOMAIN m
  OBVIOUS
<1>n. PICK n : n = m[p].md_next
  OBVIOUS
<1>1. m \in [D -> ChunkInfo] /\ D \subseteq Nat \ {Nil} /\ p \in D /\ p \in Nat \ {Nil}
  BY <1>D DEF Recs
<1>2. m[p].size \in Nat /\ n \in Int
  BY <1>1, <1>n, FieldTypes
<1>3. r \in Nat /\ r # Nil /\ r \notin D /\ r # p
  BY <1>1, <1>D DEF Nil
<1>d. PICK d : d = m[p].size - nb
  OBVIOUS
<1>c. PICK c : c = Chunk(d, p, n)
  OBVIOUS
<1>4. d \in Nat /\ c \in ChunkInfo
      /\ c.size = d /\ c.prev_inuse = TRUE /\ c.md_prev = p /\ c.md_next = n
  <2>1. d \in Nat /\ p \in Int
    BY <1>d, <1>1, <1>2
  <2>2. FreshChunk(c, d, p, n)
    BY <2>1, <1>c, <1>2, ChunkIs
  <2> QED BY <2>1, <2>2 DEF FreshChunk
<1>e. PICK e : e = [m EXCEPT ![p].size = nb]
  OBVIOUS
<1>f. PICK f : f = Register(e, r, c)
  OBVIOUS
<1>g. PICK g : g = LinkChunks(f, p, r)
  OBVIOUS
<1>5. z = LinkChunks(g, r, n)
  BY <1>n, <1>d, <1>c, <1>e, <1>f, <1>g DEF Carve
<1>6. PutsSize(D, m, p, nb, e)
  BY <1>1, <1>e, PutSize
<1>7. PutsRecord(D, e, r, c, f)
  <2>1. e \in [D -> ChunkInfo]
    BY <1>6 DEF PutsSize
  <2> QED BY <2>1, <1>4, <1>f, RegisterIs
<1>E. PICK E : E = D \cup {r}
  OBVIOUS
<1>8. E \subseteq Nat \ {Nil} /\ p \in E /\ r \in E /\ (n = Nil \/ n \in E)
  BY <1>E, <1>1, <1>3, <1>n, <1>D
<1>9. PutsLink(E, f, p, r, g)
  <2>1. f \in [E -> ChunkInfo]
    BY <1>7, <1>E DEF PutsRecord
  <2> QED BY <2>1, <1>8, <1>g, LinkIs
<1>10. PutsLink(E, g, r, n, z)
  <2>1. g \in [E -> ChunkInfo]
    BY <1>9 DEF PutsLink
  <2> QED BY <2>1, <1>8, <1>5, LinkIs
<1>11. n # r /\ n # p
  <2>1. n # r
    BY <1>n, <1>3, <1>D
  <2> QED BY <2>1, <1>n
<1>12. DOMAIN z = E /\ z \in [E -> ChunkInfo]
  BY <1>10 DEF PutsLink
<1>13. ASSUME NEW x \in D
       PROVE  /\ z[x].size = (IF x = p THEN nb ELSE m[x].size)
              /\ z[x].md_next = (IF x = p THEN r ELSE m[x].md_next)
              /\ z[x].md_prev = (IF x = n THEN r ELSE m[x].md_prev)
              /\ SameTags(z[x], m[x])
  <2>1. x \in E /\ x # r
    BY <1>E, <1>3
  <2>2. /\ e[x].size = (IF x = p THEN nb ELSE m[x].size)
        /\ e[x].md_next = m[x].md_next /\ e[x].md_prev = m[x].md_prev
        /\ SameTags(e[x], m[x])
    BY <1>6 DEF PutsSize
  <2>3. f[x] = e[x]
    BY <1>7, <2>1 DEF PutsRecord
  <2>4. /\ g[x].md_next = (IF x = p THEN r ELSE f[x].md_next) /\ g[x].md_prev = f[x].md_prev
        /\ g[x].size = f[x].size /\ SameTags(g[x], f[x])
    BY <1>9, <2>1 DEF PutsLink
  <2>5. /\ z[x].md_next = g[x].md_next /\ z[x].md_prev = (IF x = n THEN r ELSE g[x].md_prev)
        /\ z[x].size = g[x].size /\ SameTags(z[x], g[x])
    BY <1>10, <2>1 DEF PutsLink
  <2> QED BY <2>2, <2>3, <2>4, <2>5 DEF SameTags
<1>14. z[r].size = d /\ z[r].md_next = n /\ z[r].md_prev = p /\ z[r].prev_inuse = TRUE
  <2>1. f[r] = c
    BY <1>7 DEF PutsRecord
  <2>2. g[r].size = f[r].size /\ g[r].md_prev = p /\ SameTags(g[r], f[r])
    BY <1>9, <1>8 DEF PutsLink
  <2>3. z[r].size = g[r].size /\ z[r].md_next = n /\ z[r].md_prev = g[r].md_prev
        /\ SameTags(z[r], g[r])
    BY <1>10, <1>8, <1>11 DEF PutsLink
  <2> QED BY <2>1, <2>2, <2>3, <1>4 DEF SameTags
<1>15. d = p + m[p].size - r /\ nb = r - p
  BY <1>1, <1>2, <1>d
<1> QED BY <1>3, <1>11, <1>12, <1>13, <1>14, <1>15, <1>1, <1>D, <1>E, <1>n DEF Carved, Cut

\* what the code of consolidation does to the list
LEMMA AbsorbIs ==
    ASSUME NEW m, Recs(m), NEW p \in DOMAIN m, NEW n \in DOMAIN m, p # n,
           NEW nn, nn = m[n].md_next, nn = Nil \/ nn \in DOMAIN m, nn # n,
           NEW z, z = Without(LinkChunks(m, p, nn), n)
    PROVE  Absorbed(m, p, n, z)
<1>D. PICK D : D = DOMAIN m
  OBVIOUS
<1>g. PICK g : g = LinkChunks(m, p, nn)
  OBVIOUS
<1>1. m \in [D -> ChunkInfo] /\ D \subseteq Nat \ {Nil} /\ p \in D /\ (nn = Nil \/ nn \in D)
  BY <1>D DEF Recs
<1>2. PutsLink(D, m, p, nn, g)
  BY <1>1, <1>g, LinkIs
<1>3. PutsOut(D, g, n, z)
  <2>1. g \in [D -> ChunkInfo]
    BY <1>2 DEF PutsLink
  <2> QED BY <2>1, <1>g, WithoutIs
<1>4. DOMAIN z = D \ {n} /\ z \in [D \ {n} -> ChunkInfo]
  BY <1>3 DEF PutsOut
<1>5. ASSUME NEW x \in D \ {n}
      PROVE  /\ z[x].size = m[x].size
             /\ z[x].md_next = (IF x = p THEN nn ELSE m[x].md_next)
             /\ z[x].md_prev = (IF x = nn THEN p ELSE m[x].md_prev)
             /\ SameTags(z[x], m[x])
  <2>1. z[x] = g[x]
    BY <1>3 DEF PutsOut
  <2> QED BY <2>1, <1>2 DEF PutsLink
<1> QED BY <1>4, <1>5, <1>D DEF Absorbed

(***************************************************************************)
(* The layout after each change of the list of chunks                      *)
(***************************************************************************)
\* Of a heap
LEMMA HeapFacts ==
    ASSUME NEW hs, HeapsOK(hs), NEW h \in DOMAIN hs
    PROVE  /\ h \in Bases /\ h \in Nat /\ h > 0 /\ hs[h].size \in Nat /\ hs[h].size <= HEAP_MAX_SIZE
           /\ HeapInfo <= hs[h].size
           /\ EndOf(hs, h) \in Nat /\ EndOf(hs, h) <= h + HEAP_MAX_SIZE
           /\ Start(h) \in Nat /\ h < Start(h)
<1>1. h \in Bases /\ hs[h].size <= HEAP_MAX_SIZE /\ HeapInfo <= hs[h].size
  BY DEF HeapsOK
<1>2. hs[h].size \in Nat
  BY DEF HeapsOK, HeapRec
<1>3. h \in Nat /\ HEAP_MAX_SIZE <= h
  <2>1. 0 \in Int
    OBVIOUS
  <2> QED BY <1>1, <2>1, HeapAt
<1>4. Start(h) \in Nat /\ h < Start(h)
  BY <1>1, StartIs
<1> QED BY <1>1, <1>2, <1>3, <1>4, Constants DEF EndOf

\* Of a chunk
LEMMA ChunkFacts ==
    ASSUME NEW m, NEW hs, NEW t, HeapsOK(hs), Geo(m, hs, t), NEW p \in DOMAIN m
    PROVE  /\ p \in Nat /\ p # Nil /\ m[p].size \in Nat
           /\ m[p].md_prev \in Int /\ m[p].md_next \in Int
           /\ UnitsOf(m[p]) \in Nat /\ UnitsOf(m[p]) >= 1
           /\ m[p].size # 0 => UnitsOf(m[p]) = m[p].size
           /\ HeapForPtr(p) \in DOMAIN hs
           /\ Start(HeapForPtr(p)) <= p
           /\ p + UnitsOf(m[p]) <= EndOf(hs, HeapForPtr(p))
           /\ HeapForPtr(p) < p /\ EndOf(hs, HeapForPtr(p)) <= HeapForPtr(p) + HEAP_MAX_SIZE
<1>1. m \in [DOMAIN m -> ChunkInfo] /\ p \in Nat /\ p # Nil
  BY DEF Geo, Recs
<1>2. m[p].size \in Nat /\ m[p].md_prev \in Int /\ m[p].md_next \in Int
  BY <1>1, FieldTypes
<1>3. /\ UnitsOf(m[p]) \in Nat /\ UnitsOf(m[p]) >= 1
      /\ m[p].size # 0 => UnitsOf(m[p]) = m[p].size
  BY <1>2 DEF UnitsOf
<1>4. /\ HeapForPtr(p) \in DOMAIN hs /\ Start(HeapForPtr(p)) <= p
      /\ p + UnitsOf(m[p]) <= EndOf(hs, HeapForPtr(p))
  BY DEF Geo, Within
<1>h. PICK h \in DOMAIN hs : h = HeapForPtr(p)
  BY <1>4
<1>5. h < Start(h) /\ Start(h) \in Nat /\ h \in Nat /\ EndOf(hs, h) <= h + HEAP_MAX_SIZE
  BY HeapFacts
<1> QED BY <1>1, <1>2, <1>3, <1>4, <1>5, <1>h

\* An address within a chunk is in its heap.
LEMMA SameHeap ==
    ASSUME NEW m, NEW hs, NEW t, HeapsOK(hs), Geo(m, hs, t), NEW p \in DOMAIN m,
           NEW r \in Int, p <= r, r < p + UnitsOf(m[p])
    PROVE  HeapForPtr(r) = HeapForPtr(p)
<1>1. /\ HeapForPtr(p) < p /\ EndOf(hs, HeapForPtr(p)) <= HeapForPtr(p) + HEAP_MAX_SIZE
      /\ p + UnitsOf(m[p]) <= EndOf(hs, HeapForPtr(p)) /\ p \in Nat /\ UnitsOf(m[p]) \in Nat
      /\ HeapForPtr(p) \in DOMAIN hs
  BY ChunkFacts
<1>h. PICK h \in DOMAIN hs : h = HeapForPtr(p)
  BY <1>1
<1>2. h \in Bases /\ h \in Nat /\ EndOf(hs, h) \in Nat
  BY HeapFacts
<1>3. h <= r /\ r < h + HEAP_MAX_SIZE
  BY <1>1, <1>2, <1>h, Constants
<1> QED BY <1>2, <1>3, <1>h, HeapAt

\* A chunk of size 0 is the last fencepost of its heap.
LEMMA FenceIs ==
    ASSUME NEW m, NEW hs, NEW t, Geo(m, hs, t), NEW p \in DOMAIN m, m[p].size = 0
    PROVE  Post(m, p) /\ p # t /\ IsPrev(hs, HeapForPtr(p)) /\ p = EndOf(hs, HeapForPtr(p)) - 1
<1>1. p # t
  BY DEF Geo, TopEnds, MINSIZE
<1>2. \E h \in DOMAIN hs : hs[h].prev = HeapForPtr(p)
  BY <1>1 DEF Geo, Nexts, Follows
<1>3. p = EndOf(hs, HeapForPtr(p)) - 1 /\ HeapForPtr(p) \in DOMAIN hs
  BY DEF Geo, Posts, Within
<1>4. Post(m, EndOf(hs, HeapForPtr(p)) - 1)
  BY <1>2, <1>3 DEF Geo, Posts, IsPrev
<1> QED BY <1>1, <1>2, <1>3, <1>4 DEF IsPrev

\* A chunk other than the top is followed by another one.
LEMMA NextChunk ==
    ASSUME NEW m, NEW hs, NEW t, HeapsOK(hs), Geo(m, hs, t), NEW p \in DOMAIN m, p # t
    PROVE  /\ m[p].md_next \in DOMAIN m /\ m[p].md_next # Nil /\ m[p].md_next # p
           /\ m[m[p].md_next].md_prev = p
           /\ m[p].size # 0 => m[p].md_next = p + m[p].size
<1>1. /\ m[p].md_next \in DOMAIN m /\ m[m[p].md_next].md_prev = p
      /\ Follows(m, hs, p, m[p].md_next)
  BY DEF Geo, Nexts
<1>2. m[p].md_next # Nil /\ p \in Nat /\ m[p].size \in Nat
  BY <1>1, ChunkFacts
<1>3. m[p].size # 0 => m[p].md_next = p + m[p].size
  BY <1>1 DEF Follows
<1>4. ASSUME m[p].size = 0 PROVE m[p].md_next # p
  <2>1. Post(m, p)
    BY <1>4, FenceIs
  <2>2. m[m[p].md_prev].size # 0
    BY <2>1 DEF Post
  <2> QED BY <2>2, <1>1, <1>4
<1>5. ASSUME m[p].size # 0 PROVE m[p].md_next # p
  BY <1>2, <1>3, <1>5
<1> QED BY <1>1, <1>2, <1>3, <1>4, <1>5

\* Nothing changes but the tags.
LEMMA GeoSame ==
    ASSUME NEW m, NEW hs, NEW t, Geo(m, hs, t), NEW z,
           z \in [DOMAIN m -> ChunkInfo], \A x \in DOMAIN m : SameGeo(z[x], m[x])
    PROVE  Geo(z, hs, t)
<1>1. DOMAIN z = DOMAIN m
  OBVIOUS
<1>2. \A x \in DOMAIN m : /\ z[x].size = m[x].size /\ z[x].md_next = m[x].md_next
                          /\ z[x].md_prev = m[x].md_prev
                          /\ UnitsOf(z[x]) = UnitsOf(m[x])
  BY DEF SameGeo, UnitsOf
<1>3. Recs(z)
  BY <1>1 DEF Geo, Recs
<1>4. Within(z, hs)
  BY <1>1, <1>2 DEF Geo, Within
<1>5. Disjointly(z)
  BY <1>1, <1>2 DEF Geo, Disjointly
<1>6. Covers(z, hs)
  BY <1>1, <1>2 DEF Geo, Covers
<1>7. t \in DOMAIN m
  BY DEF Geo, TopEnds
<1>8. Nexts(z, hs, t)
  BY <1>1, <1>2, <1>7 DEF Geo, Nexts, Follows
<1>9. Backs(z)
  BY <1>1, <1>2 DEF Geo, Backs
<1>10. Posts(z, hs)
  BY <1>1, <1>2 DEF Geo, Posts, Post
<1>11. TopEnds(z, hs, t)
  BY <1>1, <1>2 DEF Geo, TopEnds
<1> QED BY <1>3, <1>4, <1>5, <1>6, <1>8, <1>9, <1>10, <1>11 DEF Geo

\* The chunk p is cut in two.
LEMMA GeoCarve ==
    ASSUME NEW m, NEW hs, NEW t, HeapsOK(hs), Geo(m, hs, t), NEW p \in DOMAIN m, NEW r \in Int,
           NEW z, Cut(m, p, r, z), p < r, r < p + m[p].size,
           p = t => p + m[p].size - r >= MINSIZE,
           NEW t2, t2 = IF p = t THEN r ELSE t
    PROVE  Geo(z, hs, t2)
<1>n. PICK n : n = m[p].md_next
  OBVIOUS
<1>1. /\ p \in Nat /\ p # Nil /\ m[p].size \in Nat /\ m[p].size # 0 /\ UnitsOf(m[p]) = m[p].size
      /\ HeapForPtr(p) \in DOMAIN hs /\ Start(HeapForPtr(p)) <= p
      /\ p + m[p].size <= EndOf(hs, HeapForPtr(p))
  <2>1. p \in Nat /\ p # Nil /\ m[p].size \in Nat
    BY ChunkFacts
  <2>2. m[p].size # 0
    BY <2>1
  <2> QED BY <2>1, <2>2, ChunkFacts
<1>2. HeapForPtr(r) = HeapForPtr(p)
  BY <1>1, SameHeap
<1>3. /\ r \notin DOMAIN m /\ DOMAIN z = DOMAIN m \cup {r}
      /\ z[p].size = r - p /\ z[p].md_next = r /\ z[p].md_prev = m[p].md_prev
      /\ z[r].size = p + m[p].size - r /\ z[r].md_next = n /\ z[r].md_prev = p
  BY <1>n DEF Cut
<1>4. \A x \in DOMAIN m \ {p} :
          /\ z[x].size = m[x].size /\ z[x].md_next = m[x].md_next
          /\ z[x].md_prev = (IF x = n THEN r ELSE m[x].md_prev)
          /\ UnitsOf(z[x]) = UnitsOf(m[x])
  BY <1>n DEF Cut, UnitsOf
<1>5. UnitsOf(z[p]) = r - p /\ UnitsOf(z[r]) = p + m[p].size - r /\ z[p].size # 0 /\ z[r].size # 0
  BY <1>1, <1>3 DEF UnitsOf
<1>6. t \in DOMAIN m /\ (p # t => n \in DOMAIN m /\ n # p /\ n = p + m[p].size
                                  /\ m[n].md_prev = p)
      /\ (p = t => n = Nil)
  <2>1. t \in DOMAIN m
    BY DEF Geo, TopEnds
  <2>2. p = t => n = Nil
    BY <1>n DEF Geo, Nexts
  <2> QED BY <2>1, <2>2, <1>1, <1>n, NextChunk
<1>7. Nil \notin DOMAIN m /\ r # Nil /\ DOMAIN m \subseteq Nat
  BY <1>1 DEF Geo, Recs, Nil
<1>8. Recs(z)
  BY <1>3, <1>7 DEF Cut, Recs
<1>9. Within(z, hs)
  <2>1. ASSUME NEW x \in DOMAIN m \ {p}
        PROVE  /\ HeapForPtr(x) \in DOMAIN hs
               /\ Start(HeapForPtr(x)) <= x /\ x + UnitsOf(z[x]) <= EndOf(hs, HeapForPtr(x))
    BY <1>4 DEF Geo, Within
  <2>h. PICK h \in DOMAIN hs : h = HeapForPtr(p)
    BY <1>1
  <2>2. Start(h) \in Nat /\ EndOf(hs, h) \in Nat
    BY HeapFacts
  <2>3. Start(h) <= p /\ p + UnitsOf(z[p]) <= EndOf(hs, h)
    BY <1>1, <1>5, <2>h, <2>2
  <2>4. Start(h) <= r /\ r + UnitsOf(z[r]) <= EndOf(hs, h)
    BY <1>1, <1>5, <2>h, <2>2
  <2> QED BY <2>1, <2>3, <2>4, <2>h, <1>2, <1>3 DEF Within
<1>10. Disjointly(z)
  <2>1. \A x, y \in DOMAIN m : x < y => x + UnitsOf(m[x]) <= y
    BY DEF Geo, Disjointly
  <2>2. \A x \in DOMAIN m : x \in Nat /\ UnitsOf(m[x]) \in Nat
    BY ChunkFacts
  <2>3. ASSUME NEW x \in DOMAIN z, NEW y \in DOMAIN z, x < y PROVE x + UnitsOf(z[x]) <= y
    <3>1. CASE x = p
      <4>1. CASE y = r
        BY <3>1, <4>1, <1>1, <1>5
      <4>2. CASE y # r
        BY <3>1, <4>2, <2>1, <2>2, <2>3, <1>1, <1>3, <1>5
      <4> QED BY <4>1, <4>2
    <3>2. CASE x = r
      <4>1. y \in DOMAIN m /\ p < y
        BY <3>2, <2>2, <2>3, <1>1, <1>3
      <4>2. p + m[p].size <= y
        BY <4>1, <2>1, <1>1
      <4> QED BY <3>2, <4>2, <1>5, <1>1
    <3>3. CASE x # p /\ x # r
      <4>1. x \in DOMAIN m /\ UnitsOf(z[x]) = UnitsOf(m[x])
        BY <3>3, <1>3, <1>4
      <4>2. CASE y = r
        <5>1. CASE x < p
          <6>1. x + UnitsOf(m[x]) <= p
            BY <5>1, <4>1, <2>1
          <6> QED BY <6>1, <4>1, <4>2, <2>2, <1>1
        <5>2. CASE p < x
          <6>1. p + m[p].size <= x
            BY <5>2, <4>1, <2>1, <1>1
          <6> QED BY <6>1, <4>1, <4>2, <2>2, <2>3, <1>1
        <5> QED BY <5>1, <5>2, <4>1, <3>3, <2>2, <1>1
      <4>3. CASE y # r
        BY <4>1, <4>3, <2>1, <2>3, <1>3
      <4> QED BY <4>2, <4>3
    <3> QED BY <3>1, <3>2, <3>3
  <2> QED BY <2>3 DEF Disjointly
<1>11. Covers(z, hs)
  <2>1. ASSUME NEW h \in DOMAIN hs, NEW x \in Start(h) .. EndOf(hs, h) - 1
        PROVE  \E q \in DOMAIN z : q <= x /\ x < q + UnitsOf(z[q])
    <3>1. PICK q \in DOMAIN m : q <= x /\ x < q + UnitsOf(m[q])
      BY DEF Geo, Covers
    <3>2. x \in Int
      OBVIOUS
    <3>3. CASE q # p
      BY <3>1, <3>3, <1>3, <1>4
    <3>4. CASE q = p /\ x < r
      <4>1. p \in DOMAIN z /\ p <= x /\ x < p + UnitsOf(z[p])
        BY <3>1, <3>2, <3>4, <1>1, <1>3, <1>5
      <4> QED BY <4>1
    <3>5. CASE q = p /\ r <= x
      <4>1. r \in DOMAIN z /\ r <= x /\ x < r + UnitsOf(z[r])
        BY <3>1, <3>2, <3>5, <1>1, <1>3, <1>5
      <4> QED BY <4>1
    <3> QED BY <3>3, <3>4, <3>5, <3>2
  <2> QED BY <2>1 DEF Covers
<1>12. Nexts(z, hs, t2)
  <2>1. z[t2].md_next = Nil
    <3>1. m[t].md_next = Nil
      BY DEF Geo, Nexts
    <3> QED BY <3>1, <1>3, <1>4, <1>6
  <2>2. ASSUME NEW x \in DOMAIN z \ {t2}
        PROVE  /\ z[x].md_next \in DOMAIN z /\ z[z[x].md_next].md_prev = x
               /\ Follows(z, hs, x, z[x].md_next)
    <3>1. CASE x = p
      <4>1. r = p + z[p].size
        BY <1>1, <1>3
      <4> QED BY <3>1, <4>1, <1>3, <1>5 DEF Follows
    <3>2. CASE x = r
      <4>1. p # t /\ n \in DOMAIN m /\ n # p /\ n = p + m[p].size
        BY <3>2, <1>6
      <4>2. n = r + z[r].size
        BY <4>1, <1>1, <1>3
      <4>3. z[n].md_prev = r
        BY <4>1, <1>4
      <4> QED BY <3>2, <4>1, <4>2, <4>3, <1>3, <1>5 DEF Follows
    <3>3. CASE x # p /\ x # r
      <4>1. x \in DOMAIN m \ {t} /\ x # p
        BY <3>3, <1>3
      <4>2. m[x].md_next \in DOMAIN m /\ m[m[x].md_next].md_prev = x
            /\ Follows(m, hs, x, m[x].md_next)
        BY <4>1 DEF Geo, Nexts
      <4>3. z[x].md_next = m[x].md_next /\ z[x].size = m[x].size
        BY <4>1, <1>4
      <4>4. m[x].md_next # n
        BY <4>1, <4>2, <1>6, <1>7
      <4>5. z[m[x].md_next].md_prev = x
        BY <4>2, <4>4, <1>3, <1>4
      <4> QED BY <4>2, <4>3, <4>5, <1>3 DEF Follows
    <3> QED BY <3>1, <3>2, <3>3
  <2> QED BY <2>1, <2>2 DEF Nexts
<1>13. Backs(z)
  <2>1. \A x \in DOMAIN m :
           m[x].md_prev # Nil => m[x].md_prev \in DOMAIN m /\ m[m[x].md_prev].md_next = x
    BY DEF Geo, Backs
  <2>2. ASSUME NEW x \in DOMAIN z, z[x].md_prev # Nil
        PROVE  z[x].md_prev \in DOMAIN z /\ z[z[x].md_prev].md_next = x
    <3>1. CASE x = r
      BY <3>1, <1>3
    <3>2. CASE x = n /\ x # r
      <4>1. x # p /\ x \in DOMAIN m
        BY <3>2, <1>3, <1>6, <1>7
      <4> QED BY <3>2, <4>1, <1>3, <1>4
    <3>3. CASE x # r /\ x # n
      <4>1. x \in DOMAIN m /\ z[x].md_prev = m[x].md_prev
        BY <3>3, <1>3, <1>4
      <4>2. m[x].md_prev \in DOMAIN m /\ m[m[x].md_prev].md_next = x
        BY <4>1, <2>1, <2>2
      <4>3. m[x].md_prev # p
        BY <4>2, <3>3, <1>n
      <4> QED BY <4>1, <4>2, <4>3, <1>3, <1>4
    <3> QED BY <3>1, <3>2, <3>3
  <2> QED BY <2>2 DEF Backs
<1>14. Posts(z, hs)
  <2>1. ASSUME NEW h \in DOMAIN hs, IsPrev(hs, h) PROVE Post(z, EndOf(hs, h) - 1)
    <3>f. PICK f : f = EndOf(hs, h) - 1
      OBVIOUS
    <3>1. f \in DOMAIN m /\ m[f].size = 0
          /\ m[f].md_prev \in DOMAIN m /\ m[m[f].md_prev].size # 0
      BY <2>1, <3>f DEF Geo, Posts, Post
    <3>2. f # p
      BY <3>1, <1>1
    <3>3. m[m[f].md_prev].md_next = f
      BY <3>1, <1>7 DEF Geo, Backs
    <3>4. CASE f = n
      BY <3>1, <3>2, <3>4, <3>f, <1>3, <1>4, <1>5 DEF Post
    <3>5. CASE f # n
      <4>1. m[f].md_prev # p
        BY <3>3, <3>5, <1>n
      <4> QED BY <3>1, <3>2, <3>5, <4>1, <3>f, <1>3, <1>4 DEF Post
    <3> QED BY <3>4, <3>5
  <2>2. ASSUME NEW x \in DOMAIN z, z[x].size = 0 PROVE x = EndOf(hs, HeapForPtr(x)) - 1
    <3>1. x \in DOMAIN m \ {p} /\ m[x].size = 0
      BY <2>2, <1>3, <1>4, <1>5
    <3> QED BY <3>1 DEF Geo, Posts
  <2> QED BY <2>1, <2>2 DEF Posts
<1>15. TopEnds(z, hs, t2)
  <2>1. /\ m[t].size >= MINSIZE /\ t + m[t].size = EndOf(hs, HeapForPtr(t))
        /\ ~IsPrev(hs, HeapForPtr(t))
    BY DEF Geo, TopEnds
  <2>2. CASE p = t
    <3>1. r + z[r].size = t + m[t].size
      BY <2>2, <1>1, <1>3
    <3> QED BY <2>1, <2>2, <3>1, <1>2, <1>3 DEF TopEnds
  <2>3. CASE p # t
    BY <2>1, <2>3, <1>3, <1>4, <1>6 DEF TopEnds
  <2> QED BY <2>2, <2>3
<1> QED BY <1>8, <1>9, <1>10, <1>11, <1>12, <1>13, <1>14, <1>15 DEF Geo

\* Chunks that border each other are in the same heap.
LEMMA Adjacent ==
    ASSUME NEW m, NEW hs, NEW t, HeapsOK(hs), Geo(m, hs, t), NEW p \in DOMAIN m, p # t,
           m[p].size # 0, NEW n, n = m[p].md_next
    PROVE  /\ n \in DOMAIN m /\ n = p + m[p].size /\ p < n /\ HeapForPtr(n) = HeapForPtr(p)
           /\ m[n].md_prev = p
<1>1. n \in DOMAIN m /\ n = p + m[p].size /\ m[n].md_prev = p
  BY NextChunk
<1>2. /\ p \in Nat /\ m[p].size \in Nat /\ UnitsOf(m[p]) = m[p].size
      /\ p + m[p].size <= EndOf(hs, HeapForPtr(p)) /\ HeapForPtr(p) < p
      /\ HeapForPtr(p) \in DOMAIN hs
  BY ChunkFacts
<1>3. /\ n \in Nat /\ UnitsOf(m[n]) \in Nat /\ UnitsOf(m[n]) >= 1
      /\ n + UnitsOf(m[n]) <= EndOf(hs, HeapForPtr(n)) /\ HeapForPtr(n) < n
      /\ HeapForPtr(n) \in DOMAIN hs
  BY <1>1, ChunkFacts
<1>g. PICK g \in DOMAIN hs : g = HeapForPtr(p)
  BY <1>2
<1>h. PICK h \in DOMAIN hs : h = HeapForPtr(n)
  BY <1>3
<1>4. /\ g \in Bases /\ g \in Nat /\ EndOf(hs, g) \in Nat /\ EndOf(hs, g) <= g + HEAP_MAX_SIZE
      /\ h \in Bases /\ h \in Nat /\ EndOf(hs, h) \in Nat /\ EndOf(hs, h) <= h + HEAP_MAX_SIZE
  BY HeapFacts
<1>5. HEAP_MAX_SIZE \in Nat
  BY Constants
<1>6. n <= g + HEAP_MAX_SIZE /\ g < n /\ h < n /\ n < h + HEAP_MAX_SIZE
  <2>1. p + m[p].size <= EndOf(hs, g) /\ g < p
    BY <1>2, <1>g
  <2>2. n + UnitsOf(m[n]) <= EndOf(hs, h) /\ h < n
    BY <1>3, <1>h
  <2>3. n <= g + HEAP_MAX_SIZE /\ g < n
    BY <2>1, <1>1, <1>2, <1>3, <1>4, <1>5
  <2>4. n < h + HEAP_MAX_SIZE
    BY <2>2, <1>3, <1>4, <1>5
  <2> QED BY <2>2, <2>3, <2>4
<1>7. g = h
  <2>1. SUFFICES ASSUME g # h PROVE FALSE
    OBVIOUS
  <2>2. g + HEAP_MAX_SIZE <= h \/ h + HEAP_MAX_SIZE <= g
    BY <2>1, <1>4, BasesApart
  <2>3. g \in Nat /\ h \in Nat /\ n \in Nat
    BY <1>3, <1>4
  <2> QED BY <2>2, <2>3, <1>5, <1>6
<1>8. HeapForPtr(n) = HeapForPtr(p)
  BY <1>7, <1>g, <1>h
<1>9. p < n
  BY <1>1, <1>2
<1> QED BY <1>1, <1>8, <1>9

\* The records z after m when p has the memory of n, the chunk behind it
Merged(m, p, n, z) ==
    /\ DOMAIN z = DOMAIN m \ {n} /\ z \in [DOMAIN z -> ChunkInfo]
    /\ z[p].size = m[p].size + m[n].size
    /\ \A x \in DOMAIN m \ {n} :
          /\ x # p => z[x].size = m[x].size
          /\ z[x].md_next = (IF x = p THEN m[n].md_next ELSE m[x].md_next)
          /\ z[x].md_prev = (IF x = m[n].md_next THEN p ELSE m[x].md_prev)

LEMMA GeoMerge ==
    ASSUME NEW m, NEW hs, NEW t, HeapsOK(hs), Geo(m, hs, t), NEW p \in DOMAIN m, p # t,
           NEW n, n = m[p].md_next, m[p].size # 0, m[n].size # 0,
           NEW z, Merged(m, p, n, z), NEW t2, t2 = IF n = t THEN p ELSE t
    PROVE  Geo(z, hs, t2)
<1>k. PICK k : k = m[n].md_next
  OBVIOUS
<1>1. /\ n \in DOMAIN m /\ n = p + m[p].size /\ p < n /\ HeapForPtr(n) = HeapForPtr(p)
      /\ m[n].md_prev = p
  BY Adjacent
<1>2. /\ p \in Nat /\ p # Nil /\ m[p].size \in Nat /\ UnitsOf(m[p]) = m[p].size
      /\ HeapForPtr(p) \in DOMAIN hs /\ Start(HeapForPtr(p)) <= p
      /\ p + m[p].size <= EndOf(hs, HeapForPtr(p))
  BY ChunkFacts
<1>3. /\ n \in Nat /\ n # Nil /\ m[n].size \in Nat /\ UnitsOf(m[n]) = m[n].size
      /\ n + m[n].size <= EndOf(hs, HeapForPtr(p))
  <2>1. n \in Nat /\ n # Nil /\ m[n].size \in Nat
    BY <1>1, ChunkFacts
  <2>2. UnitsOf(m[n]) = m[n].size /\ n + UnitsOf(m[n]) <= EndOf(hs, HeapForPtr(n))
    BY <1>1, ChunkFacts
  <2> QED BY <2>1, <2>2, <1>1
<1>4. /\ DOMAIN z = DOMAIN m \ {n} /\ z[p].size = m[p].size + m[n].size
      /\ z[p].size # 0 /\ UnitsOf(z[p]) = m[p].size + m[n].size
      /\ p \in DOMAIN z
  <2>1. DOMAIN z = DOMAIN m \ {n} /\ z[p].size = m[p].size + m[n].size
    BY DEF Merged
  <2>2. p # n
    BY <1>1, <1>2
  <2>3. z[p].size # 0
    BY <2>1, <1>2, <1>3
  <2> QED BY <2>1, <2>2, <2>3 DEF UnitsOf
<1>5. \A x \in DOMAIN m \ {n} :
          /\ x # p => z[x].size = m[x].size /\ UnitsOf(z[x]) = UnitsOf(m[x])
          /\ z[x].md_next = (IF x = p THEN k ELSE m[x].md_next)
          /\ z[x].md_prev = (IF x = k THEN p ELSE m[x].md_prev)
  BY <1>k DEF Merged, UnitsOf
<1>6. t \in DOMAIN m /\ (n # t => k \in DOMAIN m /\ k # n /\ k # p /\ k = n + m[n].size
                                  /\ m[k].md_prev = n)
      /\ (n = t => k = Nil)
  <2>1. t \in DOMAIN m
    BY DEF Geo, TopEnds
  <2>2. n = t => k = Nil
    BY <1>k DEF Geo, Nexts
  <2>3. ASSUME n # t PROVE k \in DOMAIN m /\ k # n /\ k = n + m[n].size /\ m[k].md_prev = n
    BY <2>3, <1>1, <1>k, NextChunk
  <2>4. ASSUME n # t PROVE k # p
    BY <2>3, <2>4, <1>1, <1>2, <1>3
  <2> QED BY <2>1, <2>2, <2>3, <2>4, <1>k
<1>7. Nil \notin DOMAIN m /\ DOMAIN m \subseteq Nat
  BY DEF Geo, Recs
<1>8. Recs(z)
  <2>1. z \in [DOMAIN z -> ChunkInfo]
    BY DEF Merged
  <2> QED BY <2>1, <1>4, <1>7 DEF Recs
<1>9. Within(z, hs)
  <2>1. ASSUME NEW x \in DOMAIN m \ {n, p}
        PROVE  /\ HeapForPtr(x) \in DOMAIN hs
               /\ Start(HeapForPtr(x)) <= x /\ x + UnitsOf(z[x]) <= EndOf(hs, HeapForPtr(x))
    BY <1>5 DEF Geo, Within
  <2>2. p + UnitsOf(z[p]) = n + m[n].size
    BY <1>1, <1>2, <1>3, <1>4
  <2> QED BY <2>1, <2>2, <1>2, <1>3, <1>4 DEF Within
<1>10. Disjointly(z)
  <2>1. \A x, y \in DOMAIN m : x < y => x + UnitsOf(m[x]) <= y
    BY DEF Geo, Disjointly
  <2>2. ASSUME NEW x \in DOMAIN z, NEW y \in DOMAIN z, x < y PROVE x + UnitsOf(z[x]) <= y
    <3>1. CASE x = p
      <4>1. p + m[p].size <= y
        BY <3>1, <2>1, <2>2, <1>2, <1>4
      <4>2. y \in Nat /\ n < y
        BY <4>1, <1>1, <1>3, <1>4, <1>7
      <4>3. n + m[n].size <= y
        BY <4>2, <2>1, <1>1, <1>3, <1>4
      <4> QED BY <3>1, <4>2, <4>3, <1>1, <1>2, <1>3, <1>4
    <3>2. CASE x # p
      BY <3>2, <2>1, <2>2, <1>4, <1>5
    <3> QED BY <3>1, <3>2
  <2> QED BY <2>2 DEF Disjointly
<1>11. Covers(z, hs)
  <2>1. ASSUME NEW h \in DOMAIN hs, NEW x \in Start(h) .. EndOf(hs, h) - 1
        PROVE  \E q \in DOMAIN z : q <= x /\ x < q + UnitsOf(z[q])
    <3>1. PICK q \in DOMAIN m : q <= x /\ x < q + UnitsOf(m[q])
      BY DEF Geo, Covers
    <3>2. x \in Int
      OBVIOUS
    <3>3. CASE q # p /\ q # n
      BY <3>1, <3>3, <1>4, <1>5
    <3>4. CASE q = p \/ q = n
      <4>1. p <= x /\ x < p + UnitsOf(z[p])
        BY <3>1, <3>2, <3>4, <1>1, <1>2, <1>3, <1>4
      <4> QED BY <4>1, <1>4
    <3> QED BY <3>3, <3>4
  <2> QED BY <2>1 DEF Covers
<1>12. Nexts(z, hs, t2)
  <2>1. z[t2].md_next = Nil
    <3>1. m[t].md_next = Nil
      BY DEF Geo, Nexts
    <3> QED BY <3>1, <1>4, <1>5, <1>6
  <2>2. ASSUME NEW x \in DOMAIN z \ {t2}
        PROVE  /\ z[x].md_next \in DOMAIN z /\ z[z[x].md_next].md_prev = x
               /\ Follows(z, hs, x, z[x].md_next)
    <3>1. CASE x = p
      <4>1. n # t /\ k \in DOMAIN m /\ k # n /\ k = n + m[n].size
        BY <3>1, <1>6
      <4>2. k = p + z[p].size
        BY <4>1, <1>1, <1>2, <1>3, <1>4
      <4>3. z[p].md_next = k /\ k \in DOMAIN z /\ z[k].md_prev = p
        BY <4>1, <1>4, <1>5
      <4> QED BY <3>1, <4>2, <4>3, <1>4 DEF Follows
    <3>2. CASE x # p
      <4>1. x \in DOMAIN m \ {t} /\ x # n /\ x # p
        BY <3>2, <1>4
      <4>2. m[x].md_next \in DOMAIN m /\ m[m[x].md_next].md_prev = x
            /\ Follows(m, hs, x, m[x].md_next)
        BY <4>1 DEF Geo, Nexts
      <4>3. z[x].md_next = m[x].md_next /\ z[x].size = m[x].size
        BY <4>1, <1>5
      <4>4. m[x].md_next # n /\ m[x].md_next # k
        BY <4>1, <4>2, <1>1, <1>6, <1>7
      <4>5. z[m[x].md_next].md_prev = x
        BY <4>2, <4>4, <1>5
      <4> QED BY <4>2, <4>3, <4>4, <4>5, <1>4 DEF Follows
    <3> QED BY <3>1, <3>2
  <2> QED BY <2>1, <2>2 DEF Nexts
<1>13. Backs(z)
  <2>1. \A x \in DOMAIN m :
           m[x].md_prev # Nil => m[x].md_prev \in DOMAIN m /\ m[m[x].md_prev].md_next = x
    BY DEF Geo, Backs
  <2>2. ASSUME NEW x \in DOMAIN z, z[x].md_prev # Nil
        PROVE  z[x].md_prev \in DOMAIN z /\ z[z[x].md_prev].md_next = x
    <3>1. CASE x = k
      BY <3>1, <1>4, <1>5
    <3>2. CASE x # k
      <4>1. x \in DOMAIN m /\ x # n /\ z[x].md_prev = m[x].md_prev
        BY <3>2, <1>4, <1>5
      <4>2. m[x].md_prev \in DOMAIN m /\ m[m[x].md_prev].md_next = x
        BY <4>1, <2>1, <2>2
      <4>3. m[x].md_prev # n /\ m[x].md_prev # p
        BY <4>1, <4>2, <3>2, <1>k
      <4> QED BY <4>1, <4>2, <4>3, <1>4, <1>5
    <3> QED BY <3>1, <3>2
  <2> QED BY <2>2 DEF Backs
<1>14. Posts(z, hs)
  <2>1. ASSUME NEW h \in DOMAIN hs, IsPrev(hs, h) PROVE Post(z, EndOf(hs, h) - 1)
    <3>f. PICK f : f = EndOf(hs, h) - 1
      OBVIOUS
    <3>1. f \in DOMAIN m /\ m[f].size = 0
          /\ m[f].md_prev \in DOMAIN m /\ m[m[f].md_prev].size # 0
      BY <2>1, <3>f DEF Geo, Posts, Post
    <3>2. f # p /\ f # n
      BY <3>1
    <3>3. m[m[f].md_prev].md_next = f
      BY <3>1, <1>7 DEF Geo, Backs
    <3>4. CASE f = k
      BY <3>1, <3>2, <3>4, <3>f, <1>4, <1>5 DEF Post
    <3>5. CASE f # k
      <4>1. m[f].md_prev # p /\ m[f].md_prev # n
        BY <3>2, <3>3, <3>5, <1>k
      <4> QED BY <3>1, <3>2, <3>5, <4>1, <3>f, <1>4, <1>5 DEF Post
    <3> QED BY <3>4, <3>5
  <2>2. ASSUME NEW x \in DOMAIN z, z[x].size = 0 PROVE x = EndOf(hs, HeapForPtr(x)) - 1
    <3>1. x \in DOMAIN m /\ m[x].size = 0
      BY <2>2, <1>4, <1>5
    <3> QED BY <3>1 DEF Geo, Posts
  <2> QED BY <2>1, <2>2 DEF Posts
<1>15. TopEnds(z, hs, t2)
  <2>1. /\ m[t].size >= MINSIZE /\ t + m[t].size = EndOf(hs, HeapForPtr(t))
        /\ ~IsPrev(hs, HeapForPtr(t))
    BY DEF Geo, TopEnds
  <2>2. CASE n = t
    <3>1. p + z[p].size = t + m[t].size /\ z[p].size >= MINSIZE
      BY <2>1, <2>2, <1>1, <1>2, <1>3, <1>4, Constants
    <3> QED BY <2>1, <2>2, <3>1, <1>1, <1>4 DEF TopEnds
  <2>3. CASE n # t
    BY <2>1, <2>3, <1>4, <1>5, <1>6 DEF TopEnds
  <2> QED BY <2>2, <2>3
<1> QED BY <1>8, <1>9, <1>10, <1>11, <1>12, <1>13, <1>14, <1>15 DEF Geo

\* The last unit of a heap, and any unit behind its header, are in that heap.
LEMMA UnitInHeap ==
    ASSUME NEW hs, HeapsOK(hs), NEW h \in DOMAIN hs, NEW x \in Int, h <= x, x < EndOf(hs, h)
    PROVE  HeapForPtr(x) = h
<1>1. h \in Bases /\ h \in Nat /\ EndOf(hs, h) \in Nat /\ EndOf(hs, h) <= h + HEAP_MAX_SIZE
  BY HeapFacts
<1>2. x < h + HEAP_MAX_SIZE
  BY <1>1, Constants
<1> QED BY <1>1, <1>2, HeapAt

LEMMA LastUnit ==
    ASSUME NEW hs, HeapsOK(hs), NEW h \in DOMAIN hs
    PROVE  HeapForPtr(EndOf(hs, h) - 1) = h
<1>x. PICK x \in Int : x = EndOf(hs, h) - 1
  BY HeapFacts
<1>1. h \in Nat /\ hs[h].size \in Nat /\ HeapInfo <= hs[h].size /\ HeapInfo \in Nat \ {0}
  BY HeapFacts, Constants
<1>2. h <= x /\ x < EndOf(hs, h)
  BY <1>1, <1>x DEF EndOf
<1> QED BY <1>2, <1>x, UnitInHeap

\* The top chunk gets another size, and its heap too.
Resized(m, t, size, z) ==
    /\ z \in [DOMAIN m -> ChunkInfo] /\ z[t].size = size
    /\ \A x \in DOMAIN m :
          /\ x # t => z[x].size = m[x].size
          /\ z[x].md_next = m[x].md_next /\ z[x].md_prev = m[x].md_prev

LEMMA GeoResize ==
    ASSUME NEW m, NEW hs, NEW t, HeapsOK(hs), Geo(m, hs, t), NEW h, h = HeapForPtr(t),
           NEW hs2, HeapsOK(hs2), DOMAIN hs2 = DOMAIN hs,
           \A g \in DOMAIN hs : hs2[g].prev = hs[g].prev /\ (g # h => hs2[g].size = hs[g].size),
           NEW size \in Nat, size >= MINSIZE, t + size = EndOf(hs2, h),
           NEW z, Resized(m, t, size, z)
    PROVE  Geo(z, hs2, t)
<1>1. /\ t \in DOMAIN m /\ t \in Nat /\ h \in DOMAIN hs /\ m[t].size \in Nat
      /\ t + m[t].size = EndOf(hs, h) /\ ~IsPrev(hs, h) /\ UnitsOf(m[t]) = m[t].size
      /\ Start(h) <= t /\ m[t].size # 0 /\ h < t
  <2>1. t \in DOMAIN m /\ m[t].size >= MINSIZE /\ t + m[t].size = EndOf(hs, h) /\ ~IsPrev(hs, h)
    BY DEF Geo, TopEnds
  <2>2. m[t].size \in Nat /\ t \in Nat /\ h \in DOMAIN hs /\ Start(h) <= t /\ h < t
    BY <2>1, ChunkFacts
  <2>3. m[t].size # 0
    BY <2>1, <2>2, Constants
  <2> QED BY <2>1, <2>2, <2>3, ChunkFacts
<1>2. DOMAIN z = DOMAIN m /\ z[t].size = size /\ size # 0 /\ UnitsOf(z[t]) = size
  BY Constants DEF Resized, UnitsOf
<1>3. \A x \in DOMAIN m :
         /\ x # t => z[x].size = m[x].size /\ UnitsOf(z[x]) = UnitsOf(m[x])
         /\ z[x].md_next = m[x].md_next /\ z[x].md_prev = m[x].md_prev
  BY DEF Resized, UnitsOf
<1>4. \A g \in DOMAIN hs : g # h => EndOf(hs2, g) = EndOf(hs, g)
  BY DEF EndOf
<1>5. \A g : IsPrev(hs2, g) <=> IsPrev(hs, g)
  BY DEF IsPrev
<1>6. \A x, y \in DOMAIN m : x < y => x + UnitsOf(m[x]) <= y
  BY DEF Geo, Disjointly
<1>7. Recs(z)
  BY <1>2 DEF Geo, Recs, Resized
\* in the heap of the top chunk, all others lie before it
<1>8. ASSUME NEW x \in DOMAIN m, x # t, HeapForPtr(x) = h
      PROVE  x < t /\ x + UnitsOf(m[x]) <= t
  <2>1. /\ x \in Nat /\ x + UnitsOf(m[x]) <= EndOf(hs, h)
        /\ UnitsOf(m[x]) \in Nat /\ UnitsOf(m[x]) >= 1
    BY <1>8, ChunkFacts
  <2>2. CASE x < t
    BY <2>2, <1>1, <1>6
  <2>3. CASE t < x
    BY <2>1, <2>3, <1>1, <1>6
  <2> QED BY <2>1, <2>2, <2>3, <1>1, <1>8
<1>9. Within(z, hs2)
  <2>1. ASSUME NEW x \in DOMAIN m
        PROVE  /\ HeapForPtr(x) \in DOMAIN hs2
               /\ Start(HeapForPtr(x)) <= x /\ x + UnitsOf(z[x]) <= EndOf(hs2, HeapForPtr(x))
    <3>1. /\ HeapForPtr(x) \in DOMAIN hs2
          /\ Start(HeapForPtr(x)) <= x /\ x + UnitsOf(m[x]) <= EndOf(hs, HeapForPtr(x))
      BY DEF Geo, Within
    <3>2. CASE x = t
      BY <3>1, <3>2, <1>1, <1>2
    <3>3. CASE x # t /\ HeapForPtr(x) = h
      <4>1. x + UnitsOf(z[x]) <= t /\ x \in Nat /\ UnitsOf(z[x]) \in Nat
        BY <3>3, <1>3, <1>8, ChunkFacts
      <4> QED BY <3>1, <3>3, <4>1, <1>1
    <3>4. CASE x # t /\ HeapForPtr(x) # h
      BY <3>1, <3>4, <1>3, <1>4
    <3> QED BY <3>2, <3>3, <3>4
  <2> QED BY <2>1, <1>2 DEF Within
<1>10. Disjointly(z)
  <2>1. ASSUME NEW x \in DOMAIN m, NEW y \in DOMAIN m, x < y PROVE x + UnitsOf(z[x]) <= y
    <3>1. CASE x # t
      BY <2>1, <3>1, <1>3, <1>6
    <3>2. CASE x = t
      <4>1. HeapForPtr(y) # h
        BY <2>1, <3>2, <1>1, <1>8, ChunkFacts
      <4>2. PICK g \in DOMAIN hs : g = HeapForPtr(y)
        BY ChunkFacts
      <4>3. g < y /\ y \in Nat /\ y < EndOf(hs, g)
        <5>1. y + UnitsOf(m[y]) <= EndOf(hs, g) /\ UnitsOf(m[y]) >= 1 /\ UnitsOf(m[y]) \in Nat
              /\ y \in Nat /\ g < y
          BY <4>2, ChunkFacts
        <5> QED BY <5>1, HeapFacts
      <4>4. /\ h \in Bases /\ g \in Bases /\ h \in Nat /\ g \in Nat
            /\ EndOf(hs, g) \in Nat /\ EndOf(hs, g) <= g + HEAP_MAX_SIZE
        BY <1>1, HeapFacts
      <4>5. EndOf(hs2, h) <= h + HEAP_MAX_SIZE /\ EndOf(hs2, h) \in Nat
        BY <1>1, HeapFacts
      <4>6. h + HEAP_MAX_SIZE <= g \/ g + HEAP_MAX_SIZE <= h
        BY <4>1, <4>2, <4>4, BasesApart
      <4>7. EndOf(hs2, h) <= y
        <5>1. CASE h + HEAP_MAX_SIZE <= g
          BY <5>1, <4>3, <4>4, <4>5, Constants
        <5>2. CASE g + HEAP_MAX_SIZE <= h
          BY <5>2, <4>3, <4>4, <1>1, <2>1, <3>2, Constants
        <5> QED BY <5>1, <5>2, <4>6
      <4> QED BY <3>2, <4>7, <1>1, <1>2
    <3> QED BY <3>1, <3>2
  <2> QED BY <2>1, <1>2 DEF Disjointly
<1>11. Covers(z, hs2)
  <2>1. ASSUME NEW g \in DOMAIN hs2, NEW x \in Start(g) .. EndOf(hs2, g) - 1
        PROVE  \E q \in DOMAIN z : q <= x /\ x < q + UnitsOf(z[q])
    <3>0. x \in Int /\ g \in DOMAIN hs /\ EndOf(hs, g) \in Nat /\ EndOf(hs2, g) \in Nat
          /\ Start(g) \in Nat /\ g < Start(g) /\ g \in Nat /\ Start(g) <= x /\ x < EndOf(hs2, g)
      BY HeapFacts
    <3>1. CASE g = h /\ t <= x
      <4>1. t <= x /\ x < t + UnitsOf(z[t])
        BY <3>0, <3>1, <1>1, <1>2
      <4> QED BY <4>1, <1>1, <1>2
    <3>2. CASE g = h /\ x < t
      <4>1. x \in Start(g) .. EndOf(hs, g) - 1
        BY <3>0, <3>2, <1>1
      <4>2. PICK q \in DOMAIN m : q <= x /\ x < q + UnitsOf(m[q])
        BY <3>0, <4>1 DEF Geo, Covers
      <4>3. q # t
        BY <3>0, <3>2, <4>2, <1>1
      <4> QED BY <4>2, <4>3, <1>2, <1>3
    <3>3. CASE g # h
      <4>1. x \in Start(g) .. EndOf(hs, g) - 1
        BY <3>0, <3>3, <1>4
      <4>2. PICK q \in DOMAIN m : q <= x /\ x < q + UnitsOf(m[q])
        BY <3>0, <4>1 DEF Geo, Covers
      <4>3. HeapForPtr(x) = g
        BY <3>0, UnitInHeap
      <4>4. HeapForPtr(x) = HeapForPtr(q)
        BY <3>0, <4>2, SameHeap
      <4> QED BY <3>3, <4>2, <4>3, <4>4, <1>2, <1>3
    <3> QED BY <3>0, <3>1, <3>2, <3>3, <1>1
  <2> QED BY <2>1 DEF Covers
<1>12. Nexts(z, hs2, t)
  <2>1. m[t].md_next = Nil
    BY DEF Geo, Nexts
  <2>2. ASSUME NEW x \in DOMAIN m \ {t}
        PROVE  /\ z[x].md_next \in DOMAIN z /\ z[z[x].md_next].md_prev = x
               /\ Follows(z, hs2, x, z[x].md_next)
    <3>1. m[x].md_next \in DOMAIN m /\ m[m[x].md_next].md_prev = x
          /\ Follows(m, hs, x, m[x].md_next)
      BY DEF Geo, Nexts
    <3>2. z[x].size = m[x].size /\ z[x].md_next = m[x].md_next
      BY <1>3
    <3> QED BY <3>1, <3>2, <1>2, <1>3 DEF Follows
  <2> QED BY <2>1, <2>2, <1>1, <1>2, <1>3 DEF Nexts
<1>13. Backs(z)
  BY <1>2, <1>3 DEF Geo, Backs
<1>14. Posts(z, hs2)
  <2>1. ASSUME NEW g \in DOMAIN hs2, IsPrev(hs2, g) PROVE Post(z, EndOf(hs2, g) - 1)
    <3>f. PICK f : f = EndOf(hs2, g) - 1
      OBVIOUS
    <3>1. g # h /\ IsPrev(hs, g) /\ f = EndOf(hs, g) - 1
      BY <2>1, <3>f, <1>1, <1>4, <1>5
    <3>2. f \in DOMAIN m /\ m[f].size = 0
          /\ m[f].md_prev \in DOMAIN m /\ m[m[f].md_prev].size # 0
      BY <3>1 DEF Geo, Posts, Post
    <3> QED BY <3>2, <3>f, <1>1, <1>2, <1>3 DEF Post
  <2>2. ASSUME NEW x \in DOMAIN z, z[x].size = 0 PROVE x = EndOf(hs2, HeapForPtr(x)) - 1
    <3>1. x # t /\ m[x].size = 0 /\ x \in DOMAIN m
      BY <2>2, <1>2, <1>3
    <3>2. IsPrev(hs, HeapForPtr(x)) /\ x = EndOf(hs, HeapForPtr(x)) - 1
      BY <3>1, FenceIs
    <3>3. HeapForPtr(x) # h /\ HeapForPtr(x) \in DOMAIN hs
      BY <3>1, <3>2, <1>1, ChunkFacts
    <3> QED BY <3>2, <3>3, <1>4
  <2> QED BY <2>1, <2>2 DEF Posts
<1>15. TopEnds(z, hs2, t)
  BY <1>1, <1>2, <1>5 DEF TopEnds
<1> QED BY <1>7, <1>9, <1>10, <1>11, <1>12, <1>13, <1>14, <1>15 DEF Geo

\* The records z after m when the top chunk t has given its last unit to the fencepost f, and
\* the chunk u of another heap is the top chunk behind it.
Added(m, t, f, u, size, z) ==
    /\ DOMAIN z = DOMAIN m \cup {f, u} /\ z \in [DOMAIN z -> ChunkInfo]
    /\ z[t].size = m[t].size - 1 /\ z[t].md_next = f /\ z[t].md_prev = m[t].md_prev
    /\ z[f].size = 0 /\ z[f].md_next = u /\ z[f].md_prev = t
    /\ z[u].size = size /\ z[u].md_next = Nil /\ z[u].md_prev = f
    /\ \A x \in DOMAIN m \ {t} : SameGeo(z[x], m[x])

\* The heap h is added behind the one of the top chunk.
AddedHeap(hs, t, h, hs2) ==
    /\ HeapsOK(hs2) /\ h \in Bases \ DOMAIN hs /\ DOMAIN hs2 = DOMAIN hs \cup {h}
    /\ hs2[h].prev = HeapForPtr(t)
    /\ \A g \in DOMAIN hs : hs2[g].prev = hs[g].prev /\ hs2[g].size = hs[g].size

LEMMA AddAddresses ==
    ASSUME NEW m, NEW hs, NEW t, HeapsOK(hs), Geo(m, hs, t), NEW h, NEW hs2, AddedHeap(hs, t, h, hs2),
           NEW u, u = Start(h), NEW size \in Nat, u + size = EndOf(hs2, h), size >= MINSIZE,
           NEW f, f = t + m[t].size - 1
    PROVE  /\ u \in Nat /\ f \in Nat /\ u > 0 /\ f > t /\ u # f
           /\ u \notin DOMAIN m /\ f \notin DOMAIN m
           /\ HeapForPtr(u) = h /\ HeapForPtr(f) = HeapForPtr(t)
           /\ \A x \in DOMAIN m :
                 /\ x < f => x + UnitsOf(m[x]) <= f + 1
                 /\ x < f /\ x # t => x + UnitsOf(m[x]) <= f
                 /\ f < x => f + 1 <= x
                 /\ x < u => x + UnitsOf(m[x]) <= u
                 /\ u < x => u + size <= x
<1>g. PICK g : g = HeapForPtr(t)
  OBVIOUS
<1>1. /\ t \in DOMAIN m /\ t \in Nat /\ g \in DOMAIN hs /\ m[t].size \in Nat /\ m[t].size >= 2
      /\ t + m[t].size = EndOf(hs, g) /\ UnitsOf(m[t]) = m[t].size
  <2>1. t \in DOMAIN m /\ m[t].size >= 2 /\ t + m[t].size = EndOf(hs, g)
    BY <1>g, Constants DEF Geo, TopEnds
  <2>2. m[t].size \in Nat /\ t \in Nat /\ g \in DOMAIN hs
    BY <2>1, <1>g, ChunkFacts
  <2>3. m[t].size # 0
    BY <2>1, <2>2
  <2> QED BY <2>1, <2>2, <2>3, ChunkFacts
<1>2. f \in Nat /\ f > t /\ f < t + UnitsOf(m[t]) /\ f + 1 = t + UnitsOf(m[t])
  BY <1>1
<1>3. HeapForPtr(f) = g
  BY <1>1, <1>2, <1>g, SameHeap
<1>4. /\ h \in DOMAIN hs2 /\ h \in Bases /\ h \in Nat /\ h > 0 /\ u \in Nat /\ h < u
      /\ EndOf(hs2, h) \in Nat /\ EndOf(hs2, h) <= h + HEAP_MAX_SIZE /\ size >= 2
  <2>1. h \in DOMAIN hs2 /\ HeapsOK(hs2)
    BY DEF AddedHeap
  <2> QED BY <2>1, HeapFacts, Constants
<1>5. HeapForPtr(u) = h
  <2>1. h <= u /\ u < EndOf(hs2, h)
    BY <1>4
  <2>2. HeapsOK(hs2)
    BY DEF AddedHeap
  <2> QED BY <2>1, <2>2, <1>4, UnitInHeap
<1>6. \A x, y \in DOMAIN m : x < y => x + UnitsOf(m[x]) <= y
  BY DEF Geo, Disjointly
<1>7. ASSUME NEW x \in DOMAIN m
      PROVE  /\ x \in Nat /\ UnitsOf(m[x]) \in Nat /\ UnitsOf(m[x]) >= 1
             /\ (x + UnitsOf(m[x]) <= u \/ u + size <= x)
  <2>k. PICK k \in DOMAIN hs : k = HeapForPtr(x)
    BY ChunkFacts
  <2>1. /\ x \in Nat /\ UnitsOf(m[x]) \in Nat /\ UnitsOf(m[x]) >= 1 /\ k < x
        /\ x + UnitsOf(m[x]) <= EndOf(hs, k)
    BY <2>k, ChunkFacts
  <2>2. k \in Bases /\ k \in Nat /\ EndOf(hs, k) \in Nat /\ EndOf(hs, k) <= k + HEAP_MAX_SIZE
    BY HeapFacts
  <2>3. k # h
    BY DEF AddedHeap
  <2>4. k + HEAP_MAX_SIZE <= h \/ h + HEAP_MAX_SIZE <= k
    BY <2>2, <2>3, <1>4, BasesApart
  <2>5. CASE k + HEAP_MAX_SIZE <= h
    <3>1. x + UnitsOf(m[x]) <= u
      BY <2>1, <2>2, <2>5, <1>4, Constants
    <3> QED BY <3>1, <2>1
  <2>6. CASE h + HEAP_MAX_SIZE <= k
    <3>1. u + size <= x
      BY <2>1, <2>2, <2>6, <1>4, Constants
    <3> QED BY <3>1, <2>1
  <2> QED BY <2>4, <2>5, <2>6
<1>8. u \notin DOMAIN m
  <2>1. SUFFICES ASSUME u \in DOMAIN m PROVE FALSE
    OBVIOUS
  <2>2. u + UnitsOf(m[u]) <= u \/ u + size <= u
    BY <2>1, <1>7
  <2> QED BY <2>1, <2>2, <1>4, <1>7
<1>9. f \notin DOMAIN m
  <2>1. SUFFICES ASSUME f \in DOMAIN m PROVE FALSE
    OBVIOUS
  <2>2. t + UnitsOf(m[t]) <= f
    BY <2>1, <1>1, <1>2, <1>6
  <2> QED BY <2>2, <1>1, <1>2
<1>10. u # f
  <2>1. h # g
    BY <1>1 DEF AddedHeap
  <2> QED BY <2>1, <1>3, <1>5
<1>11. ASSUME NEW x \in DOMAIN m
       PROVE  /\ x < f => x + UnitsOf(m[x]) <= f + 1
              /\ x < f /\ x # t => x + UnitsOf(m[x]) <= f
              /\ f < x => f + 1 <= x
              /\ x < u => x + UnitsOf(m[x]) <= u
              /\ u < x => u + size <= x
  <2>1. x \in Nat /\ UnitsOf(m[x]) \in Nat /\ UnitsOf(m[x]) >= 1
    BY <1>7
  <2>2. ASSUME x < t PROVE x + UnitsOf(m[x]) <= f
    <3>1. x + UnitsOf(m[x]) <= t
      BY <2>2, <1>1, <1>6
    <3> QED BY <3>1, <2>1, <1>1, <1>2
  <2>3. ASSUME t < x PROVE f + 1 <= x
    BY <2>3, <1>1, <1>2, <1>6
  <2>4. x < u => x + UnitsOf(m[x]) <= u
    BY <2>1, <1>4, <1>7
  <2>5. u < x => u + size <= x
    BY <2>1, <1>4, <1>7
  <2>6. x < t \/ x = t \/ t < x
    BY <2>1, <1>1
  <2>7. x < f /\ x # t => x + UnitsOf(m[x]) <= f
    BY <2>1, <2>2, <2>3, <2>6, <1>2
  <2>8. f < x => f + 1 <= x
    BY <2>1, <1>2
  <2>9. x < f => x + UnitsOf(m[x]) <= f + 1
    BY <2>1, <2>7, <1>1, <1>2
  <2> QED BY <2>4, <2>5, <2>7, <2>8, <2>9
<1> QED BY <1>2, <1>3, <1>4, <1>5, <1>8, <1>9, <1>10, <1>11, <1>g

LEMMA GeoAdd ==
    ASSUME NEW m, NEW hs, NEW t, HeapsOK(hs), Geo(m, hs, t), NEW h, NEW hs2, AddedHeap(hs, t, h, hs2),
           NEW u, u = Start(h), NEW size \in Nat, u + size = EndOf(hs2, h), size >= MINSIZE,
           NEW f, f = t + m[t].size - 1, NEW z, Added(m, t, f, u, size, z)
    PROVE  Geo(z, hs2, u)
<1>g. PICK g : g = HeapForPtr(t)
  OBVIOUS
<1>1. /\ t \in DOMAIN m /\ t \in Nat /\ g \in DOMAIN hs /\ m[t].size \in Nat /\ m[t].size >= 2
      /\ t + m[t].size = EndOf(hs, g) /\ UnitsOf(m[t]) = m[t].size /\ ~IsPrev(hs, g)
      /\ Start(g) <= t /\ m[t].md_next = Nil
  <2>1. t \in DOMAIN m /\ m[t].size >= 2 /\ t + m[t].size = EndOf(hs, g) /\ ~IsPrev(hs, g)
    BY <1>g, Constants DEF Geo, TopEnds
  <2>2. m[t].size \in Nat /\ t \in Nat /\ g \in DOMAIN hs /\ Start(g) <= t
    BY <2>1, <1>g, ChunkFacts
  <2>3. m[t].size # 0 /\ m[t].md_next = Nil
    BY <2>1, <2>2 DEF Geo, Nexts
  <2> QED BY <2>1, <2>2, <2>3, ChunkFacts
<1>2. /\ u \in Nat /\ f \in Nat /\ u > 0 /\ f > t /\ u # f
      /\ u \notin DOMAIN m /\ f \notin DOMAIN m
      /\ HeapForPtr(u) = h /\ HeapForPtr(f) = g
  BY <1>g, AddAddresses
<1>3. \A x \in DOMAIN m :
         /\ x < f => x + UnitsOf(m[x]) <= f + 1
         /\ x < f /\ x # t => x + UnitsOf(m[x]) <= f
         /\ f < x => f + 1 <= x
         /\ x < u => x + UnitsOf(m[x]) <= u
         /\ u < x => u + size <= x
  BY AddAddresses
<1>4. /\ DOMAIN z = DOMAIN m \cup {f, u}
      /\ z[t].size = m[t].size - 1 /\ z[t].size # 0 /\ UnitsOf(z[t]) = m[t].size - 1
      /\ z[t].md_next = f /\ z[t].md_prev = m[t].md_prev
      /\ z[f].size = 0 /\ z[f].md_next = u /\ z[f].md_prev = t /\ UnitsOf(z[f]) = 1
      /\ z[u].size = size /\ z[u].md_next = Nil /\ z[u].md_prev = f
      /\ UnitsOf(z[u]) = size /\ size # 0
  BY <1>1, Constants DEF Added, UnitsOf
<1>5. \A x \in DOMAIN m :
         /\ x # t => z[x].size = m[x].size /\ UnitsOf(z[x]) = UnitsOf(m[x])
                     /\ z[x].md_next = m[x].md_next
         /\ z[x].md_prev = m[x].md_prev
  BY <1>4 DEF Added, UnitsOf, SameGeo
<1>6. /\ h \in Bases /\ h \notin DOMAIN hs /\ DOMAIN hs2 = DOMAIN hs \cup {h} /\ hs2[h].prev = g
      /\ HeapsOK(hs2)
      /\ \A k \in DOMAIN hs : hs2[k].prev = hs[k].prev /\ EndOf(hs2, k) = EndOf(hs, k)
  BY <1>g DEF AddedHeap, EndOf
<1>7. DOMAIN m \subseteq Nat /\ Nil \notin DOMAIN m /\ Nil = 0
  BY Constants DEF Geo, Recs
<1>8. \A k : IsPrev(hs2, k) <=> IsPrev(hs, k) \/ k = g
  BY <1>6 DEF IsPrev
<1>9. Recs(z)
  <2>1. DOMAIN z \subseteq Nat \ {Nil}
    BY <1>1, <1>2, <1>4, <1>7
  <2> QED BY <2>1 DEF Recs, Added
<1>10. Within(z, hs2)
  <2>1. ASSUME NEW x \in DOMAIN m, x # t
        PROVE  /\ HeapForPtr(x) \in DOMAIN hs2
               /\ Start(HeapForPtr(x)) <= x /\ x + UnitsOf(z[x]) <= EndOf(hs2, HeapForPtr(x))
    BY <2>1, <1>5, <1>6 DEF Geo, Within
  <2>2. Start(g) \in Nat
    BY <1>1, HeapFacts
  <2>3. Start(g) <= t /\ t + UnitsOf(z[t]) <= EndOf(hs2, g)
    BY <1>1, <1>4, <1>6
  <2>4. Start(g) <= f /\ f + UnitsOf(z[f]) <= EndOf(hs2, g)
    BY <2>2, <1>1, <1>2, <1>4, <1>6
  <2>5. Start(h) <= u /\ u + UnitsOf(z[u]) <= EndOf(hs2, h)
    BY <1>2, <1>4
  <2> QED BY <2>1, <2>3, <2>4, <2>5, <1>1, <1>2, <1>4, <1>6, <1>g DEF Within
<1>11. Disjointly(z)
  <2>1. \A x, y \in DOMAIN m : x < y => x + UnitsOf(m[x]) <= y
    BY DEF Geo, Disjointly
  <2>2. \A x \in DOMAIN m : x \in Nat /\ UnitsOf(m[x]) \in Nat
    BY ChunkFacts
  <2>3. u < f => u + size <= f
    <3>1. u < t => u + size <= t
      BY <1>1, <1>3
    <3>2. t < u => t + UnitsOf(m[t]) <= u
      BY <1>1, <1>3
    <3> QED BY <3>1, <3>2, <1>1, <1>2
  <2>4. f < u => f + 1 <= u
    BY <1>2
  <2>5. ASSUME NEW x \in DOMAIN z, NEW y \in DOMAIN z, x < y PROVE x + UnitsOf(z[x]) <= y
    <3>1. CASE x = f
      <4>1. y = u \/ y \in DOMAIN m
        BY <2>5, <3>1, <1>2, <1>4
      <4> QED BY <2>4, <2>5, <3>1, <4>1, <1>3, <1>4
    <3>2. CASE x = u
      <4>1. y = f \/ y \in DOMAIN m
        BY <2>5, <3>2, <1>2, <1>4
      <4> QED BY <2>3, <2>5, <3>2, <4>1, <1>3, <1>4
    <3>3. CASE x = t
      <4>1. t + UnitsOf(z[t]) = f
        BY <1>1, <1>4
      <4>2. y = f \/ y = u \/ y \in DOMAIN m
        BY <1>4
      <4>3. CASE y = f
        BY <3>3, <4>1, <4>3, <1>2
      <4>4. CASE y = u
        <5>1. t + m[t].size <= u
          BY <2>5, <3>3, <4>4, <1>1, <1>3
        <5> QED BY <3>3, <4>1, <4>4, <5>1, <1>1, <1>2
      <4>5. CASE y \in DOMAIN m
        <5>1. t + m[t].size <= y
          BY <2>1, <2>5, <3>3, <4>5, <1>1
        <5> QED BY <2>2, <3>3, <4>1, <4>5, <5>1, <1>1, <1>2
      <4> QED BY <4>2, <4>3, <4>4, <4>5
    <3>4. CASE x \in DOMAIN m /\ x # t
      <4>1. y = f \/ y = u \/ y \in DOMAIN m
        BY <1>4
      <4> QED BY <2>1, <2>5, <3>4, <4>1, <1>3, <1>5
    <3> QED BY <3>1, <3>2, <3>3, <3>4, <1>4
  <2> QED BY <2>5 DEF Disjointly
<1>12. Covers(z, hs2)
  <2>1. ASSUME NEW k \in DOMAIN hs2, NEW x \in Start(k) .. EndOf(hs2, k) - 1
        PROVE  \E q \in DOMAIN z : q <= x /\ x < q + UnitsOf(z[q])
    <3>0. x \in Int /\ EndOf(hs2, k) \in Nat /\ Start(k) \in Nat /\ Start(k) <= x
          /\ x < EndOf(hs2, k)
      BY <1>6, HeapFacts
    <3>1. CASE k = h
      <4>1. u <= x /\ x < u + UnitsOf(z[u])
        BY <3>0, <3>1, <1>4
      <4> QED BY <4>1, <1>4
    <3>2. CASE k # h
      <4>1. k \in DOMAIN hs /\ x \in Start(k) .. EndOf(hs, k) - 1
        BY <3>0, <3>2, <1>6
      <4>2. PICK q \in DOMAIN m : q <= x /\ x < q + UnitsOf(m[q])
        BY <4>1 DEF Geo, Covers
      <4>3. CASE q # t
        BY <4>2, <4>3, <1>4, <1>5
      <4>4. CASE q = t /\ x < f
        <5>1. x < t + UnitsOf(z[t])
          BY <3>0, <4>4, <1>1, <1>4
        <5> QED BY <4>2, <4>4, <5>1, <1>1, <1>4
      <4>5. CASE q = t /\ f <= x
        <5>1. x < f + UnitsOf(z[f])
          BY <3>0, <4>2, <4>5, <1>1, <1>2, <1>4
        <5> QED BY <4>5, <5>1, <1>4
      <4> QED BY <3>0, <4>3, <4>4, <4>5, <1>2
    <3> QED BY <3>1, <3>2
  <2> QED BY <2>1 DEF Covers
<1>13. Nexts(z, hs2, u)
  <2>1. ASSUME NEW x \in DOMAIN z \ {u}
        PROVE  /\ z[x].md_next \in DOMAIN z /\ z[z[x].md_next].md_prev = x
               /\ Follows(z, hs2, x, z[x].md_next)
    <3>1. CASE x = t
      <4>1. f = t + z[t].size
        BY <1>1, <1>4
      <4> QED BY <3>1, <4>1, <1>4 DEF Follows
    <3>2. CASE x = f
      <4>1. Follows(z, hs2, f, u)
        BY <1>2, <1>4, <1>6 DEF Follows
      <4> QED BY <3>2, <4>1, <1>4
    <3>3. CASE x \in DOMAIN m /\ x # t
      <4>1. m[x].md_next \in DOMAIN m /\ m[m[x].md_next].md_prev = x
            /\ Follows(m, hs, x, m[x].md_next)
        BY <3>3 DEF Geo, Nexts
      <4>2. z[x].size = m[x].size /\ z[x].md_next = m[x].md_next
        BY <3>3, <1>5
      <4>3. Follows(z, hs2, x, z[x].md_next)
        BY <4>1, <4>2, <1>6 DEF Follows
      <4> QED BY <4>1, <4>2, <4>3, <1>4, <1>5
    <3> QED BY <3>1, <3>2, <3>3, <1>4
  <2> QED BY <2>1, <1>4 DEF Nexts
<1>14. Backs(z)
  <2>1. ASSUME NEW x \in DOMAIN z, z[x].md_prev # Nil
        PROVE  z[x].md_prev \in DOMAIN z /\ z[z[x].md_prev].md_next = x
    <3>1. CASE x = f \/ x = u
      BY <3>1, <1>1, <1>4
    <3>2. CASE x \in DOMAIN m
      <4>1. z[x].md_prev = m[x].md_prev
        BY <3>2, <1>5
      <4>2. m[x].md_prev \in DOMAIN m /\ m[m[x].md_prev].md_next = x
        BY <2>1, <3>2, <4>1 DEF Geo, Backs
      <4>3. m[x].md_prev # t
        BY <3>2, <4>2, <1>1, <1>7
      <4> QED BY <4>1, <4>2, <4>3, <1>4, <1>5
    <3> QED BY <3>1, <3>2, <1>4
  <2> QED BY <2>1 DEF Backs
<1>15. Posts(z, hs2)
  <2>1. ASSUME NEW k \in DOMAIN hs2, IsPrev(hs2, k) PROVE Post(z, EndOf(hs2, k) - 1)
    <3>1. CASE k = g
      <4>1. EndOf(hs2, k) - 1 = f
        BY <3>1, <1>1, <1>6
      <4> QED BY <4>1, <1>1, <1>4 DEF Post
    <3>2. CASE k # g
      <4>1. IsPrev(hs, k)
        BY <2>1, <3>2, <1>8
      <4>2. k # h
        <5>1. SUFFICES ASSUME k = h PROVE FALSE
          OBVIOUS
        <5>2. PICK l \in DOMAIN hs : hs[l].prev = h
          BY <4>1, <5>1 DEF IsPrev
        <5>3. h = Nil \/ h \in DOMAIN hs
          BY <5>2 DEF HeapsOK
        <5>4. h # Nil
          BY <1>6, HeapFacts, Constants
        <5> QED BY <5>3, <5>4, <1>6
      <4>f. PICK l : l = EndOf(hs, k) - 1
        OBVIOUS
      <4>3. l \in DOMAIN m /\ m[l].size = 0
            /\ m[l].md_prev \in DOMAIN m /\ m[m[l].md_prev].size # 0
        BY <4>1, <4>2, <4>f, <2>1, <1>6 DEF Geo, Posts, Post
      <4>4. l # t
        BY <4>3, <1>1
      <4>5. l = EndOf(hs2, k) - 1
        BY <4>2, <4>f, <2>1, <1>6
      <4>6. l \in DOMAIN z /\ z[l].size = 0 /\ z[l].md_prev = m[l].md_prev
        BY <4>3, <4>4, <1>4, <1>5
      <4>7. m[l].md_prev \in DOMAIN z /\ z[m[l].md_prev].size # 0
        BY <4>3, <1>4, <1>5
      <4> QED BY <4>5, <4>6, <4>7 DEF Post
    <3> QED BY <3>1, <3>2
  <2>2. ASSUME NEW x \in DOMAIN z, z[x].size = 0 PROVE x = EndOf(hs2, HeapForPtr(x)) - 1
    <3>1. CASE x = f
      BY <3>1, <1>1, <1>2, <1>6
    <3>2. CASE x # f
      <4>1. x \in DOMAIN m /\ m[x].size = 0
        BY <2>2, <3>2, <1>4, <1>5
      <4>2. x = EndOf(hs, HeapForPtr(x)) - 1 /\ HeapForPtr(x) \in DOMAIN hs
        BY <4>1 DEF Geo, Posts, Within
      <4> QED BY <4>2, <1>6
    <3> QED BY <3>1, <3>2
  <2> QED BY <2>1, <2>2 DEF Posts
<1>16. TopEnds(z, hs2, u)
  <2>1. ~IsPrev(hs2, h)
    <3>1. SUFFICES ASSUME NEW l \in DOMAIN hs2, hs2[l].prev = h PROVE FALSE
      BY DEF IsPrev
    <3>2. h # g
      BY <1>1, <1>6
    <3>3. l \in DOMAIN hs /\ hs[l].prev = h
      BY <3>1, <3>2, <1>6
    <3>4. h = Nil \/ h \in DOMAIN hs
      BY <3>3 DEF HeapsOK
    <3>5. h # Nil
      BY <1>6, HeapFacts, Constants
    <3> QED BY <3>4, <3>5, <1>6
  <2> QED BY <2>1, <1>2, <1>4 DEF TopEnds
<1> QED BY <1>9, <1>10, <1>11, <1>12, <1>13, <1>14, <1>15, <1>16 DEF Geo

\* The records z after m when the top chunk t, the only one of its heap, and the fencepost f
\* before it are gone; b has the unit of the fencepost, and is the last chunk.
Dropped(m, t, f, b, z) ==
    /\ DOMAIN z = DOMAIN m \ {f, t} /\ z \in [DOMAIN z -> ChunkInfo]
    /\ z[b].size = m[b].size + 1 /\ z[b].md_next = Nil /\ z[b].md_prev = m[b].md_prev
    /\ \A x \in DOMAIN m \ {f, t, b} : SameGeo(z[x], m[x])

\* The heap of the top chunk goes, which its heap alone holds.
DroppedHeap(hs, t, h, hs2) ==
    /\ HeapsOK(hs2) /\ h \in DOMAIN hs /\ h # FirstHeap /\ h = HeapForPtr(t) /\ t = Start(h)
    /\ DOMAIN hs2 = DOMAIN hs \ {h}
    /\ \A g \in DOMAIN hs2 : hs2[g].prev = hs[g].prev /\ hs2[g].size = hs[g].size

\* the fencepost of the heap before, and the chunk before it
LEMMA PostBefore ==
    ASSUME NEW m, NEW hs, NEW t, HeapsOK(hs), Geo(m, hs, t),
           NEW h \in DOMAIN hs, h # FirstHeap, h = HeapForPtr(t), t = Start(h),
           NEW g, g = hs[h].prev, NEW f, f = EndOf(hs, g) - 1, NEW b, b = m[f].md_prev
    PROVE  /\ g \in DOMAIN hs /\ g # h /\ g # Nil
           /\ f \in DOMAIN m /\ m[f].size = 0 /\ m[f].md_next = t /\ m[t].md_prev = f /\ f # t
           /\ b \in DOMAIN m /\ m[b].size # 0 /\ m[b].md_next = f /\ b # f /\ b # t
           /\ f = b + m[b].size /\ HeapForPtr(b) = g /\ HeapForPtr(f) = g
<1>1. g \in DOMAIN hs
  BY DEF HeapsOK
<1>2. IsPrev(hs, g) /\ ~IsPrev(hs, h)
  BY DEF IsPrev, Geo, TopEnds
<1>3. g # h /\ g # Nil
  BY <1>1, <1>2, HeapFacts, Constants
<1>4. f \in DOMAIN m /\ m[f].size = 0 /\ b \in DOMAIN m /\ m[b].size # 0
  BY <1>1, <1>2 DEF Geo, Posts, Post
<1>5. HeapForPtr(f) = g
  BY <1>1, LastUnit
<1>6. f # t
  BY <1>4, FenceIs
<1>7. m[f].md_next = t /\ m[t].md_prev = f
  <2>1. Follows(m, hs, f, m[f].md_next) /\ m[m[f].md_next].md_prev = f
    BY <1>4, <1>6 DEF Geo, Nexts
  <2>2. PICK k \in DOMAIN hs : hs[k].prev = g /\ m[f].md_next = Start(k)
    BY <2>1, <1>4, <1>5 DEF Follows
  <2>3. k = h
    BY <2>2 DEF HeapsOK
  <2> QED BY <2>1, <2>2, <2>3
<1>8. m[b].md_next = f
  <2>1. b # Nil
    BY <1>4, ChunkFacts
  <2> QED BY <2>1, <1>4 DEF Geo, Backs
<1>9. b # f /\ b # t
  <2>1. m[t].md_next = Nil /\ f # Nil
    BY <1>4, ChunkFacts DEF Geo, Nexts
  <2> QED BY <2>1, <1>4, <1>8
<1>10. f = b + m[b].size /\ HeapForPtr(f) = HeapForPtr(b)
  BY <1>4, <1>8, <1>9, Adjacent
<1> QED BY <1>1, <1>3, <1>4, <1>5, <1>6, <1>7, <1>8, <1>9, <1>10

LEMMA GeoDrop ==
    ASSUME NEW m, NEW hs, NEW t, HeapsOK(hs), Geo(m, hs, t), NEW h, NEW hs2,
           DroppedHeap(hs, t, h, hs2),
           NEW g, g = hs[h].prev, NEW f, f = EndOf(hs, g) - 1, NEW b, b = m[f].md_prev,
           NEW z, Dropped(m, t, f, b, z)
    PROVE  Geo(z, hs2, b)
<1>0. /\ h \in DOMAIN hs /\ h # FirstHeap /\ h = HeapForPtr(t) /\ t = Start(h) /\ HeapsOK(hs2)
      /\ DOMAIN hs2 = DOMAIN hs \ {h}
      /\ \A k \in DOMAIN hs2 : hs2[k].prev = hs[k].prev /\ EndOf(hs2, k) = EndOf(hs, k)
  BY DEF DroppedHeap, EndOf
<1>1. /\ g \in DOMAIN hs /\ g # h
      /\ f \in DOMAIN m /\ m[f].size = 0 /\ m[f].md_next = t /\ m[t].md_prev = f /\ f # t
      /\ b \in DOMAIN m /\ m[b].size # 0 /\ m[b].md_next = f /\ b # f /\ b # t
      /\ f = b + m[b].size /\ HeapForPtr(b) = g /\ HeapForPtr(f) = g
  BY <1>0, PostBefore
<1>2. /\ t \in DOMAIN m /\ t \in Nat /\ m[t].size \in Nat /\ t + m[t].size = EndOf(hs, h)
      /\ UnitsOf(m[t]) = m[t].size /\ m[t].md_next = Nil
  <2>1. t \in DOMAIN m /\ t + m[t].size = EndOf(hs, h) /\ m[t].size >= MINSIZE /\ m[t].md_next = Nil
    BY <1>0 DEF Geo, TopEnds, Nexts
  <2>2. m[t].size \in Nat /\ t \in Nat
    BY <2>1, ChunkFacts
  <2>3. m[t].size # 0
    BY <2>1, <2>2, Constants
  <2> QED BY <2>1, <2>2, <2>3, ChunkFacts
<1>3. b \in Nat /\ m[b].size \in Nat /\ UnitsOf(m[b]) = m[b].size /\ f \in Nat /\ UnitsOf(m[f]) = 1
  BY <1>1, ChunkFacts DEF UnitsOf
<1>4. /\ DOMAIN z = DOMAIN m \ {f, t} /\ b \in DOMAIN z
      /\ z[b].size = m[b].size + 1 /\ z[b].size # 0 /\ UnitsOf(z[b]) = m[b].size + 1
      /\ z[b].md_next = Nil
  BY <1>1, <1>3 DEF Dropped, UnitsOf
<1>5. \A x \in DOMAIN z :
         /\ x # b => z[x].size = m[x].size /\ UnitsOf(z[x]) = UnitsOf(m[x])
                     /\ z[x].md_next = m[x].md_next
         /\ z[x].md_prev = m[x].md_prev
  BY DEF Dropped, SameGeo, UnitsOf
<1>6. \A x, y \in DOMAIN m : x < y => x + UnitsOf(m[x]) <= y
  BY DEF Geo, Disjointly
\* no chunk but the top was in the heap
<1>7. ASSUME NEW x \in DOMAIN z PROVE HeapForPtr(x) \in DOMAIN hs2
  <2>1. x \in DOMAIN m /\ x # t
    BY <1>4
  <2>2. /\ HeapForPtr(x) \in DOMAIN hs /\ Start(HeapForPtr(x)) <= x /\ x \in Nat
        /\ x + UnitsOf(m[x]) <= EndOf(hs, HeapForPtr(x))
        /\ UnitsOf(m[x]) \in Nat /\ UnitsOf(m[x]) >= 1
    BY <2>1, ChunkFacts
  <2>3. HeapForPtr(x) # h
    <3>1. SUFFICES ASSUME HeapForPtr(x) = h PROVE FALSE
      OBVIOUS
    <3>2. t < x
      BY <2>1, <2>2, <3>1, <1>0, <1>2
    <3>3. t + m[t].size <= x
      BY <2>1, <3>2, <1>2, <1>6
    <3>4. x + UnitsOf(m[x]) <= EndOf(hs, h)
      BY <2>2, <3>1
    <3> QED BY <2>2, <3>3, <3>4, <1>2
  <2> QED BY <2>2, <2>3, <1>0
<1>8. \A k : IsPrev(hs2, k) => IsPrev(hs, k) /\ k # g
  <2>1. ASSUME NEW k, IsPrev(hs2, k) PROVE IsPrev(hs, k) /\ k # g
    <3>1. PICK l \in DOMAIN hs2 : hs2[l].prev = k
      BY <2>1 DEF IsPrev
    <3>2. l \in DOMAIN hs /\ l # h /\ hs[l].prev = k
      BY <3>1, <1>0
    <3>3. k # g
      BY <3>2, <1>0 DEF HeapsOK
    <3> QED BY <3>2, <3>3 DEF IsPrev
  <2> QED BY <2>1
<1>9. Recs(z)
  BY <1>4 DEF Geo, Recs, Dropped
<1>10. g \in DOMAIN hs2 /\ EndOf(hs2, g) = EndOf(hs, g) /\ b + UnitsOf(z[b]) = EndOf(hs, g)
       /\ EndOf(hs, g) \in Nat
  <2>1. EndOf(hs, g) \in Nat
    BY <1>1, HeapFacts
  <2>2. b + (m[b].size + 1) = EndOf(hs, g)
    BY <2>1, <1>1, <1>3
  <2>3. g \in DOMAIN hs2 /\ EndOf(hs2, g) = EndOf(hs, g)
    BY <1>0, <1>1
  <2> QED BY <2>1, <2>2, <2>3, <1>4
<1>11. Within(z, hs2)
  <2>1. ASSUME NEW x \in DOMAIN z
        PROVE  /\ HeapForPtr(x) \in DOMAIN hs2
               /\ Start(HeapForPtr(x)) <= x /\ x + UnitsOf(z[x]) <= EndOf(hs2, HeapForPtr(x))
    <3>1. HeapForPtr(x) \in DOMAIN hs2 /\ EndOf(hs2, HeapForPtr(x)) = EndOf(hs, HeapForPtr(x))
      BY <1>0, <1>7
    <3>2. Start(HeapForPtr(x)) <= x /\ x + UnitsOf(m[x]) <= EndOf(hs, HeapForPtr(x))
      BY <1>4 DEF Geo, Within
    <3>3. CASE x = b
      <4>1. b + UnitsOf(z[b]) <= EndOf(hs, g)
        BY <1>10
      <4> QED BY <3>1, <3>2, <3>3, <4>1, <1>1
    <3>4. CASE x # b
      BY <3>1, <3>2, <3>4, <1>5
    <3> QED BY <3>3, <3>4
  <2> QED BY <2>1 DEF Within
<1>12. Disjointly(z)
  <2>1. ASSUME NEW x \in DOMAIN z, NEW y \in DOMAIN z, x < y PROVE x + UnitsOf(z[x]) <= y
    <3>1. x \in DOMAIN m /\ y \in DOMAIN m /\ y \in Nat /\ y # f
      BY <1>4, ChunkFacts
    <3>2. CASE x = b
      <4>1. f <= y
        BY <2>1, <3>1, <3>2, <1>1, <1>3, <1>6
      <4>2. f < y
        BY <3>1, <4>1, <1>3
      <4> QED BY <3>1, <3>2, <4>2, <1>1, <1>3, <1>4
    <3>3. CASE x # b
      BY <2>1, <3>1, <3>3, <1>5, <1>6
    <3> QED BY <3>2, <3>3
  <2> QED BY <2>1 DEF Disjointly
<1>13. Covers(z, hs2)
  <2>1. ASSUME NEW k \in DOMAIN hs2, NEW x \in Start(k) .. EndOf(hs2, k) - 1
        PROVE  \E q \in DOMAIN z : q <= x /\ x < q + UnitsOf(z[q])
    <3>0. x \in Int /\ EndOf(hs2, k) \in Nat /\ k \in DOMAIN hs /\ k # h
          /\ EndOf(hs2, k) = EndOf(hs, k) /\ Start(k) <= x /\ x < EndOf(hs, k) /\ k <= x
      <4>1. EndOf(hs2, k) \in Nat /\ Start(k) \in Nat /\ k \in Nat /\ k < Start(k)
        BY <1>0, HeapFacts
      <4>2. x \in Int /\ Start(k) <= x /\ x < EndOf(hs2, k) /\ k <= x
        BY <4>1
      <4>3. k \in DOMAIN hs /\ k # h /\ EndOf(hs2, k) = EndOf(hs, k)
        BY <1>0
      <4> QED BY <4>1, <4>2, <4>3
    <3>1. x \in Start(k) .. EndOf(hs, k) - 1
      BY <3>0
    <3>2. PICK q \in DOMAIN m : q <= x /\ x < q + UnitsOf(m[q])
      BY <3>0, <3>1 DEF Geo, Covers
    <3>3. HeapForPtr(x) = k
      BY <3>0, UnitInHeap
    <3>4. HeapForPtr(x) = HeapForPtr(q)
      BY <3>0, <3>2, SameHeap
    <3>5. q # t
      BY <3>0, <3>3, <3>4, <1>0
    <3>6. CASE q = f \/ q = b
      <4>1. b <= x /\ x < b + UnitsOf(z[b])
        BY <3>0, <3>2, <3>6, <1>1, <1>3, <1>4
      <4> QED BY <4>1, <1>4
    <3>7. CASE q # f /\ q # b
      BY <3>2, <3>5, <3>7, <1>4, <1>5
    <3> QED BY <3>6, <3>7
  <2> QED BY <2>1 DEF Covers
<1>14. Nexts(z, hs2, b)
  <2>1. ASSUME NEW x \in DOMAIN z \ {b}
        PROVE  /\ z[x].md_next \in DOMAIN z /\ z[z[x].md_next].md_prev = x
               /\ Follows(z, hs2, x, z[x].md_next)
    <3>1. x \in DOMAIN m /\ x # t /\ x # f /\ x # b
      BY <1>4
    <3>2. m[x].md_next \in DOMAIN m /\ m[m[x].md_next].md_prev = x
          /\ Follows(m, hs, x, m[x].md_next)
      BY <3>1 DEF Geo, Nexts
    <3>3. z[x].size = m[x].size /\ z[x].md_next = m[x].md_next
      BY <1>5
    <3>4. m[x].md_next # f /\ m[x].md_next # t
      BY <3>1, <3>2, <1>1
    <3>5. Follows(z, hs2, x, m[x].md_next)
      <4>1. CASE m[x].size = 0
        <5>1. PICK k \in DOMAIN hs : hs[k].prev = HeapForPtr(x) /\ m[x].md_next = Start(k)
          BY <3>2, <4>1 DEF Follows
        <5>2. k # h
          BY <3>4, <5>1, <1>0
        <5> QED BY <3>3, <4>1, <5>1, <5>2, <1>0 DEF Follows
      <4>2. CASE m[x].size # 0
        BY <3>2, <3>3, <4>2 DEF Follows
      <4> QED BY <4>1, <4>2
    <3>6. m[x].md_next \in DOMAIN z
      BY <3>2, <3>4, <1>4
    <3> QED BY <3>2, <3>3, <3>5, <3>6, <1>5
  <2> QED BY <2>1, <1>4 DEF Nexts
<1>15. Backs(z)
  <2>1. ASSUME NEW x \in DOMAIN z, z[x].md_prev # Nil
        PROVE  z[x].md_prev \in DOMAIN z /\ z[z[x].md_prev].md_next = x
    <3>1. x \in DOMAIN m /\ x # t /\ x # f /\ z[x].md_prev = m[x].md_prev
      BY <1>4, <1>5
    <3>2. m[x].md_prev \in DOMAIN m /\ m[m[x].md_prev].md_next = x
      BY <2>1, <3>1 DEF Geo, Backs
    <3>3. x # Nil
      BY <3>1, ChunkFacts
    <3>4. m[x].md_prev # f /\ m[x].md_prev # t /\ m[x].md_prev # b
      BY <3>1, <3>2, <3>3, <1>1, <1>2
    <3>5. m[x].md_prev \in DOMAIN z
      BY <3>2, <3>4, <1>4
    <3> QED BY <3>1, <3>2, <3>4, <3>5, <1>5
  <2> QED BY <2>1 DEF Backs
<1>16. Posts(z, hs2)
  <2>1. ASSUME NEW k \in DOMAIN hs2, IsPrev(hs2, k) PROVE Post(z, EndOf(hs2, k) - 1)
    <3>f. PICK l : l = EndOf(hs, k) - 1
      OBVIOUS
    <3>1. IsPrev(hs, k) /\ k # g /\ k \in DOMAIN hs /\ l = EndOf(hs2, k) - 1
      BY <2>1, <3>f, <1>0, <1>8
    <3>2. l \in DOMAIN m /\ m[l].size = 0
          /\ m[l].md_prev \in DOMAIN m /\ m[m[l].md_prev].size # 0
      BY <3>1, <3>f DEF Geo, Posts, Post
    <3>3. HeapForPtr(l) = k
      BY <3>1, <3>f, LastUnit
    <3>4. l # f /\ l # t
      BY <3>1, <3>2, <3>3, <1>1, FenceIs
    <3>5. m[m[l].md_prev].md_next = l /\ l # Nil
      <4>1. m[l].md_prev # Nil /\ l # Nil
        BY <3>2, ChunkFacts
      <4> QED BY <3>2, <4>1 DEF Geo, Backs
    <3>6. m[l].md_prev # f /\ m[l].md_prev # t /\ m[l].md_prev # b
      BY <3>4, <3>5, <1>1, <1>2
    <3>7. l \in DOMAIN z /\ l # b
      BY <3>2, <3>4, <1>1, <1>4
    <3>8. m[l].md_prev \in DOMAIN z
      BY <3>2, <3>6, <1>4
    <3>9. z[l].size = 0 /\ z[l].md_prev = m[l].md_prev /\ z[m[l].md_prev].size # 0
      BY <3>2, <3>6, <3>7, <3>8, <1>5
    <3> QED BY <3>1, <3>7, <3>8, <3>9 DEF Post
  <2>2. ASSUME NEW x \in DOMAIN z, z[x].size = 0 PROVE x = EndOf(hs2, HeapForPtr(x)) - 1
    <3>1. x \in DOMAIN m /\ m[x].size = 0
      BY <2>2, <1>4, <1>5
    <3>2. x = EndOf(hs, HeapForPtr(x)) - 1
      BY <3>1 DEF Geo, Posts
    <3> QED BY <3>2, <1>0, <1>7
  <2> QED BY <2>1, <2>2 DEF Posts
<1>17. TopEnds(z, hs2, b)
  <2>1. z[b].size >= MINSIZE
    BY <1>1, <1>3, <1>4, Constants
  <2>2. b + z[b].size = EndOf(hs2, g)
    BY <1>4, <1>10
  <2> QED BY <2>1, <2>2, <1>1, <1>4, <1>8 DEF TopEnds
<1> QED BY <1>9, <1>11, <1>12, <1>13, <1>14, <1>15, <1>16, <1>17 DEF Geo

\* The first heap, with its only chunk
LEMMA GeoFirst ==
    ASSUME NEW hs, HeapsOK(hs), DOMAIN hs = {FirstHeap}, NEW t, t = Start(FirstHeap),
           NEW size \in Nat, size >= MINSIZE, t + size = EndOf(hs, FirstHeap),
           NEW m, DOMAIN m = {t}, FreshChunk(m[t], size, Nil, Nil), m \in [{t} -> ChunkInfo]
    PROVE  Geo(m, hs, t)
<1>1. /\ FirstHeap \in Nat /\ FirstHeap < t /\ t \in Nat /\ EndOf(hs, FirstHeap) \in Nat
      /\ hs[FirstHeap].prev = Nil /\ FirstHeap > 0
  <2>1. FirstHeap \in DOMAIN hs
    OBVIOUS
  <2>2. hs[FirstHeap].prev = Nil
    BY <2>1 DEF HeapsOK
  <2> QED BY <2>1, <2>2, HeapFacts
<1>2. m[t].size = size /\ m[t].md_prev = Nil /\ m[t].md_next = Nil /\ size # 0
      /\ UnitsOf(m[t]) = size
  BY Constants DEF FreshChunk, UnitsOf
<1>3. HeapForPtr(t) = FirstHeap
  <2>1. FirstHeap <= t /\ t < EndOf(hs, FirstHeap)
    BY <1>1, Constants
  <2> QED BY <2>1, <1>1, UnitInHeap
<1>4. \A k : ~IsPrev(hs, k) \/ k = Nil
  BY <1>1 DEF IsPrev
<1>5. Recs(m)
  BY <1>1, Constants DEF Recs
<1>6. Within(m, hs) /\ Disjointly(m)
  BY <1>1, <1>2, <1>3 DEF Within, Disjointly
<1>7. Covers(m, hs)
  BY <1>1, <1>2 DEF Covers
<1>8. Nexts(m, hs, t) /\ Backs(m)
  BY <1>2 DEF Nexts, Backs
<1>9. FirstHeap # Nil
  BY <1>1, Constants
<1>10. Posts(m, hs)
  BY <1>2, <1>4, <1>9 DEF Posts
<1>11. TopEnds(m, hs, t)
  BY <1>2, <1>3, <1>4, <1>9 DEF TopEnds
<1> QED BY <1>5, <1>6, <1>7, <1>8, <1>10, <1>11 DEF Geo

(***************************************************************************)
(* The whole arena after each change                                       *)
(***************************************************************************)
Linkage(m, t) ==
    /\ t \in DOMAIN m /\ Nil \notin DOMAIN m /\ m[t].md_next = Nil
    /\ \A x \in DOMAIN m : m[x].md_prev \in DOMAIN m \cup {Nil}
    /\ \A x, y \in DOMAIN m : m[y].md_next = x <=> m[x].md_prev = y
    /\ \A x \in DOMAIN m \ {t} : m[x].md_next \in DOMAIN m /\ m[x].md_next # x

LEMMA LinkageIs ==
    ASSUME NEW m, NEW hs, NEW t, HeapsOK(hs), Geo(m, hs, t)
    PROVE  Linkage(m, t)
<1>1. t \in DOMAIN m /\ Nil \notin DOMAIN m /\ m[t].md_next = Nil
  BY DEF Geo, TopEnds, Recs, Nexts
<1>2. \A x \in DOMAIN m : m[x].md_prev # Nil => m[x].md_prev \in DOMAIN m /\ m[m[x].md_prev].md_next = x
  BY DEF Geo, Backs
<1>3. \A x \in DOMAIN m \ {t} : m[x].md_next \in DOMAIN m /\ m[x].md_next # x /\ m[m[x].md_next].md_prev = x
  BY NextChunk
<1> QED BY <1>1, <1>2, <1>3 DEF Linkage

\* A free chunk is taken as it is.
LEMMA TakeWhole ==
    ASSUME NEW m, NEW hs, NEW t, NEW B, NEW L, HeapsOK(hs), Arena(m, hs, t, B, L), NEW p \in B,
           NEW z, PutsUsed(DOMAIN m, m, p, z)
    PROVE  Arena(z, hs, t, B \ {p}, L \cup {p})
<1>n. PICK n : n = m[p].md_next
  OBVIOUS
<1>1. Geo(m, hs, t) /\ Tags(m, t, B) /\ Places(m, t, B, L)
  BY DEF Arena
<1>2. Linkage(m, t)
  BY <1>1, LinkageIs
<1>3. p \in DOMAIN m /\ p # t /\ n \in DOMAIN m /\ n # p
  BY <1>1, <1>2, <1>n DEF Tags, Places, Linkage
<1>4. /\ z \in [DOMAIN m -> ChunkInfo] /\ DOMAIN z = DOMAIN m /\ z[n].prev_inuse = TRUE
      /\ \A x \in DOMAIN m : /\ x # n => SameTags(z[x], m[x])
                             /\ SameGeo(z[x], m[x])
  BY <1>n DEF PutsUsed
<1>5. Geo(z, hs, t)
  BY <1>1, <1>4, GeoSame
<1>6. \A x \in DOMAIN m : /\ z[x].size = m[x].size /\ z[x].md_next = m[x].md_next
                          /\ z[x].md_prev = m[x].md_prev
  BY <1>4 DEF SameGeo
<1>7. ASSUME NEW x \in DOMAIN m PROVE Right(z, B \ {p}, x)
  <2>1. CASE x = n
    BY <2>1, <1>2, <1>3, <1>4, <1>6, <1>n DEF Right, Linkage
  <2>2. CASE x # n
    <3>1. z[x].md_prev = m[x].md_prev /\ m[x].md_prev # p
      BY <2>2, <1>2, <1>3, <1>6, <1>n DEF Linkage
    <3>2. SameTags(z[x], m[x]) /\ Right(m, B, x)
      BY <2>2, <1>1, <1>4 DEF Tags
    <3>3. m[x].md_prev \in B => z[m[x].md_prev].size = m[m[x].md_prev].size
      BY <1>1, <1>6 DEF Tags
    <3> QED BY <3>1, <3>2, <3>3 DEF Right, SameTags
  <2> QED BY <2>1, <2>2
<1>8. Tags(z, t, B \ {p})
  BY <1>1, <1>4, <1>6, <1>7 DEF Tags
<1>9. Places(z, t, B \ {p}, L \cup {p})
  <2>1. B \ {p} \subseteq DOMAIN m /\ L \subseteq DOMAIN m /\ B \subseteq DOMAIN m
    BY <1>1 DEF Tags, Places
  <2>2. ASSUME NEW x \in (B \ {p}) \cup (L \cup {p}) PROVE z[x].size # 0 /\ z[z[x].md_next].size # 0
    <3>1. x \in DOMAIN m /\ x # t /\ m[x].size # 0 /\ m[m[x].md_next].size # 0
      BY <2>1, <1>1 DEF Places
    <3>2. m[x].md_next \in DOMAIN m
      BY <3>1, <1>2 DEF Linkage
    <3> QED BY <3>1, <3>2, <1>6
  <2>3. ASSUME NEW x \in DOMAIN z, z[x].size = 0 PROVE z[z[x].md_prev].size \in {1, 2}
    <3>1. m[x].size = 0 /\ m[m[x].md_prev].size \in {1, 2} /\ x \in DOMAIN m
      BY <2>3, <1>1, <1>4, <1>6 DEF Places
    <3>2. m[x].md_prev \in DOMAIN m
      BY <3>1, <1>1, FenceIs DEF Post
    <3> QED BY <3>1, <3>2, <1>6
  <2>4. (B \ {p}) \cap (L \cup {p}) = {} /\ t \notin (B \ {p}) \cup (L \cup {p}) /\ L \cup {p} \subseteq DOMAIN z
    BY <1>1, <1>3, <1>4 DEF Places
  <2> QED BY <2>2, <2>3, <2>4 DEF Places
<1> QED BY <1>5, <1>8, <1>9 DEF Arena

\* The top chunk is cut in two: use_top.
LEMMA TakeTop ==
    ASSUME NEW m, NEW hs, NEW t, NEW B, NEW L, HeapsOK(hs), Arena(m, hs, t, B, L),
           NEW nb \in Nat, nb >= MINSIZE, m[t].size >= nb + MINSIZE, NEW r, r = t + nb,
           NEW z, z = Carve(m, t, nb)
    PROVE  Arena(z, hs, r, B, L \cup {t})
<1>1. Geo(m, hs, t) /\ Tags(m, t, B) /\ Places(m, t, B, L)
  BY DEF Arena
<1>2. Linkage(m, t) /\ Recs(m)
  BY <1>1, LinkageIs DEF Geo
<1>3. t \in DOMAIN m /\ t \in Nat /\ m[t].size \in Nat /\ UnitsOf(m[t]) = m[t].size /\ m[t].md_next = Nil
  <2>1. t \in DOMAIN m /\ m[t].md_next = Nil
    BY <1>2 DEF Linkage
  <2>2. t \in Nat /\ m[t].size \in Nat /\ (m[t].size # 0 => UnitsOf(m[t]) = m[t].size)
    BY <2>1, <1>1, ChunkFacts
  <2> QED BY <2>1, <2>2, Constants
<1>4. r \in Nat /\ t < r /\ r < t + m[t].size /\ nb < m[t].size /\ t + m[t].size - r >= MINSIZE
      /\ t + m[t].size - r # 0 /\ r - t # 0
  BY <1>3, Constants
<1>5. r \notin DOMAIN m
  <2>1. \A x \in DOMAIN m : t < x => t + UnitsOf(m[t]) <= x
    BY <1>1, <1>3 DEF Geo, Disjointly
  <2> QED BY <2>1, <1>3, <1>4
<1>6. Carved(m, t, r, z)
  <2>1. m[t].md_next # t
    BY <1>2, <1>3 DEF Linkage
  <2> QED BY <2>1, <1>2, <1>3, <1>4, <1>5, CarveIs
<1>7. Geo(z, hs, r)
  BY <1>1, <1>3, <1>4, <1>6, GeoCarve DEF Carved
<1>8. /\ DOMAIN z = DOMAIN m \cup {r} /\ z[t].size # 0 /\ z[r].size # 0
      /\ z[t].md_next = r /\ z[t].md_prev = m[t].md_prev /\ SameTags(z[t], m[t])
      /\ z[r].md_prev = t /\ z[r].prev_inuse = TRUE
      /\ \A x \in DOMAIN m \ {t} :
            /\ z[x].size = m[x].size /\ z[x].md_next = m[x].md_next
            /\ z[x].md_prev = m[x].md_prev /\ SameTags(z[x], m[x])
  <2>1. \A x \in DOMAIN m : x # m[t].md_next
    BY <1>2, <1>3 DEF Linkage
  <2> QED BY <2>1, <1>3, <1>4, <1>6 DEF Carved, Cut
<1>9. t \notin B \cup L /\ r \notin B \cup L /\ r # t
  BY <1>1, <1>3, <1>5 DEF Tags, Places
<1>10. Tags(z, r, B)
  <2>1. ASSUME NEW x \in DOMAIN z PROVE Right(z, B, x)
    <3>1. CASE x = r
      BY <3>1, <1>8, <1>9 DEF Right
    <3>2. CASE x # r
      <4>1. x \in DOMAIN m /\ z[x].md_prev = m[x].md_prev /\ SameTags(z[x], m[x]) /\ Right(m, B, x)
        BY <3>2, <1>1, <1>8 DEF Tags
      <4>2. m[x].md_prev \in B => z[m[x].md_prev].size = m[m[x].md_prev].size
        BY <1>1, <1>8, <1>9 DEF Tags
      <4> QED BY <4>1, <4>2 DEF Right, SameTags
    <3> QED BY <3>1, <3>2
  <2>2. ASSUME NEW x \in B PROVE z[x].md_next # r /\ z[x].md_next \notin B
    <3>1. x \in DOMAIN m \ {t} /\ m[x].md_next \in DOMAIN m /\ m[x].md_next \notin B
      BY <1>1, <1>2, <1>9 DEF Tags, Linkage
    <3> QED BY <3>1, <1>5, <1>8
  <2> QED BY <2>1, <2>2, <1>1, <1>8 DEF Tags
<1>11. Places(z, r, B, L \cup {t})
  <2>1. \A x \in DOMAIN m : m[x].size # 0 => z[x].size # 0
    BY <1>8
  <2>2. ASSUME NEW x \in B \cup (L \cup {t}) PROVE z[x].size # 0 /\ z[z[x].md_next].size # 0
    <3>1. CASE x = t
      BY <3>1, <1>8
    <3>2. CASE x # t
      <4>1. x \in DOMAIN m \ {t} /\ m[x].size # 0 /\ m[m[x].md_next].size # 0
        BY <3>2, <1>1 DEF Places, Tags
      <4>2. m[x].md_next \in DOMAIN m
        BY <4>1, <1>2 DEF Linkage
      <4> QED BY <2>1, <4>1, <4>2, <1>8
    <3> QED BY <3>1, <3>2
  <2>3. ASSUME NEW x \in DOMAIN z, z[x].size = 0 PROVE z[z[x].md_prev].size \in {1, 2}
    <3>1. x \in DOMAIN m /\ x # t /\ m[x].size = 0
      BY <2>3, <1>8
    <3>2. m[x].md_prev \in DOMAIN m /\ m[m[x].md_prev].size \in {1, 2}
      BY <3>1, <1>1, FenceIs DEF Post, Places
    <3>3. m[x].md_prev # t
      BY <3>1, <3>2, <1>2 DEF Linkage
    <3> QED BY <3>1, <3>2, <3>3, <1>8
  <2>4. B \cap (L \cup {t}) = {} /\ r \notin B \cup (L \cup {t}) /\ L \cup {t} \subseteq DOMAIN z
    BY <1>1, <1>3, <1>8, <1>9 DEF Places
  <2> QED BY <2>2, <2>3, <2>4 DEF Places
<1> QED BY <1>7, <1>10, <1>11 DEF Arena

\* A free chunk is cut in two, and its second part stays free.
LEMMA TakeSplit ==
    ASSUME NEW m, NEW hs, NEW t, NEW B, NEW L, HeapsOK(hs), Arena(m, hs, t, B, L), NEW p \in B,
           NEW nb \in Nat, nb >= MINSIZE, m[p].size >= nb + MINSIZE, NEW r, r = p + nb,
           NEW z, z = SetFoot(Carve(m, p, nb), r)
    PROVE  Arena(z, hs, t, (B \ {p}) \cup {r}, L \cup {p})
<1>n. PICK n : n = m[p].md_next
  OBVIOUS
<1>c. PICK c : c = Carve(m, p, nb)
  OBVIOUS
<1>1. Geo(m, hs, t) /\ Tags(m, t, B) /\ Places(m, t, B, L)
  BY DEF Arena
<1>2. Linkage(m, t) /\ Recs(m)
  BY <1>1, LinkageIs DEF Geo
<1>3. p \in DOMAIN m /\ p # t /\ n \in DOMAIN m /\ n # p /\ n # t /\ n \notin B
  BY <1>1, <1>2, <1>n DEF Tags, Places, Linkage
<1>4. p \in Nat /\ m[p].size \in Nat /\ UnitsOf(m[p]) = m[p].size
  <2>1. p \in Nat /\ m[p].size \in Nat /\ (m[p].size # 0 => UnitsOf(m[p]) = m[p].size)
    BY <1>1, <1>3, ChunkFacts
  <2> QED BY <2>1, Constants
<1>5. r \in Nat /\ p < r /\ r < p + m[p].size /\ nb < m[p].size
      /\ p + m[p].size - r # 0 /\ r - p # 0
  BY <1>4, Constants
<1>6. r \notin DOMAIN m
  <2>1. \A x \in DOMAIN m : p < x => p + UnitsOf(m[p]) <= x
    BY <1>1, <1>3 DEF Geo, Disjointly
  <2> QED BY <2>1, <1>4, <1>5
<1>7. Carved(m, p, r, c)
  BY <1>c, <1>n, <1>2, <1>3, <1>5, <1>6, CarveIs
<1>8. Geo(c, hs, t)
  BY <1>1, <1>3, <1>5, <1>7, GeoCarve DEF Carved
<1>9. /\ DOMAIN c = DOMAIN m \cup {r} /\ c \in [DOMAIN c -> ChunkInfo]
      /\ c[p].size # 0 /\ c[r].size # 0
      /\ c[p].md_next = r /\ c[p].md_prev = m[p].md_prev /\ SameTags(c[p], m[p])
      /\ c[r].md_prev = p /\ c[r].prev_inuse = TRUE /\ c[r].md_next = n
      /\ \A x \in DOMAIN m \ {p} :
            /\ c[x].size = m[x].size /\ c[x].md_next = m[x].md_next
            /\ c[x].md_prev = (IF x = n THEN r ELSE m[x].md_prev) /\ SameTags(c[x], m[x])
  BY <1>n, <1>3, <1>5, <1>7 DEF Carved, Cut
<1>D. PICK D : D = DOMAIN c
  OBVIOUS
<1>10. PutsFoot(D, c, r, z)
  <2>1. c \in [D -> ChunkInfo] /\ r \in D /\ c[r].md_next \in D
    BY <1>3, <1>9, <1>D
  <2> QED BY <2>1, <1>c, SetFootIs
<1>11. /\ z \in [DOMAIN c -> ChunkInfo] /\ DOMAIN z = DOMAIN c
       /\ \A x \in DOMAIN c : /\ z[x].prev_size = (IF x = n THEN c[r].size ELSE c[x].prev_size)
                              /\ z[x].prev_inuse = c[x].prev_inuse
                              /\ SameGeo(z[x], c[x])
  BY <1>9, <1>10, <1>D DEF PutsFoot
<1>12. Geo(z, hs, t)
  BY <1>8, <1>11, GeoSame
<1>B. PICK C : C = (B \ {p}) \cup {r}
  OBVIOUS
<1>13. /\ DOMAIN z = DOMAIN m \cup {r} /\ z[p].size # 0 /\ z[r].size # 0
       /\ z[p].md_next = r /\ z[r].md_prev = p /\ z[r].prev_inuse = TRUE /\ z[r].md_next = n
       /\ z[n].md_prev = r /\ z[n].prev_size = z[r].size /\ SameGeo(z[n], c[n])
       /\ z[n].prev_inuse = m[n].prev_inuse
  BY <1>3, <1>9, <1>11 DEF SameGeo, SameTags
<1>14. /\ \A x \in DOMAIN m \ {p} : z[x].size = m[x].size /\ z[x].md_next = m[x].md_next
       /\ \A x \in DOMAIN m \ {n} : z[x].md_prev = m[x].md_prev /\ SameTags(z[x], m[x])
  BY <1>3, <1>6, <1>9, <1>11 DEF SameGeo, SameTags
<1>15. p \notin C \cup {n} /\ r \in C /\ n \notin C /\ t \notin C /\ r # n /\ t # r
       /\ C \subseteq DOMAIN z /\ (\A x \in DOMAIN m : x \in C <=> x \in B /\ x # p)
  <2>1. t \in DOMAIN m /\ B \subseteq DOMAIN m /\ t \notin B
    BY <1>1, <1>2 DEF Linkage, Tags, Places
  <2> QED BY <2>1, <1>B, <1>3, <1>5, <1>6, <1>13
<1>16. Tags(z, t, C)
  <2>1. ASSUME NEW x \in DOMAIN z PROVE Right(z, C, x)
    <3>1. CASE x = r
      BY <3>1, <1>13, <1>15 DEF Right
    <3>2. CASE x = n
      <4>1. m[n].md_prev = p /\ Right(m, B, n)
        BY <1>1, <1>2, <1>3, <1>n DEF Linkage, Tags
      <4>2. z[n].prev_inuse = FALSE
        <5>1. n \in D /\ m[n].prev_inuse \in BOOLEAN
          BY <1>2, <1>3, <1>9, <1>D, FieldTypes DEF Recs
        <5> QED BY <5>1, <4>1, <1>13 DEF Right
      <4> QED BY <3>2, <4>2, <1>13, <1>15 DEF Right
    <3>3. CASE x # r /\ x # n
      <4>1. x \in DOMAIN m /\ z[x].md_prev = m[x].md_prev /\ SameTags(z[x], m[x]) /\ Right(m, B, x)
        BY <3>3, <1>1, <1>13, <1>14 DEF Tags
      <4>2. m[x].md_prev # p /\ m[x].md_prev \in DOMAIN m \cup {Nil}
        BY <3>3, <4>1, <1>2, <1>3, <1>n DEF Linkage
      <4>3. m[x].md_prev \in C <=> m[x].md_prev \in B
        <5>1. Nil \notin B /\ Nil \notin C
          <6>1. Nil \notin DOMAIN m /\ r # Nil /\ B \subseteq DOMAIN m
            BY <1>1, <1>2, <1>4, <1>5, Constants DEF Linkage, Tags
          <6> QED BY <6>1, <1>B
        <5> QED BY <5>1, <4>2, <1>15
      <4>4. m[x].md_prev \in B => z[m[x].md_prev].size = m[m[x].md_prev].size
        BY <4>2, <1>1, <1>14 DEF Tags
      <4> QED BY <4>1, <4>3, <4>4 DEF Right, SameTags
    <3> QED BY <3>1, <3>2, <3>3
  <2>2. ASSUME NEW x \in C PROVE z[x].md_next # t /\ z[x].md_next \notin C
    <3>1. CASE x = r
      BY <3>1, <1>3, <1>13, <1>15
    <3>2. CASE x # r
      <4>1. x \in B /\ x # p /\ x \in DOMAIN m
        BY <3>2, <1>1, <1>B DEF Tags
      <4>2. m[x].md_next # t /\ m[x].md_next \notin B /\ x # t
        BY <4>1, <1>1 DEF Tags, Places
      <4>3. m[x].md_next \in DOMAIN m
        BY <4>1, <4>2, <1>2 DEF Linkage
      <4> QED BY <4>1, <4>2, <4>3, <1>14, <1>15
    <3> QED BY <3>1, <3>2
  <2> QED BY <2>1, <2>2, <1>15 DEF Tags
<1>17. Places(z, t, C, L \cup {p})
  <2>1. \A x \in DOMAIN m : m[x].size # 0 => z[x].size # 0
    BY <1>13, <1>14
  <2>2. m[n].size # 0
    BY <1>1, <1>n DEF Places
  <2>3. ASSUME NEW x \in C \cup (L \cup {p}) PROVE z[x].size # 0 /\ z[z[x].md_next].size # 0
    <3>1. CASE x = p
      BY <3>1, <1>13
    <3>2. CASE x = r
      BY <3>2, <2>1, <2>2, <1>3, <1>13
    <3>3. CASE x # p /\ x # r
      <4>1. x \in DOMAIN m /\ x \in B \cup L
        BY <3>3, <1>1, <1>B DEF Places, Tags
      <4>2. x # t /\ m[x].size # 0 /\ m[m[x].md_next].size # 0
        BY <4>1, <1>1 DEF Places
      <4>3. m[x].md_next \in DOMAIN m
        BY <4>1, <4>2, <1>2 DEF Linkage
      <4> QED BY <2>1, <3>3, <4>1, <4>2, <4>3, <1>14
    <3> QED BY <3>1, <3>2, <3>3
  <2>4. ASSUME NEW x \in DOMAIN z, z[x].size = 0 PROVE z[z[x].md_prev].size \in {1, 2}
    <3>1. x \in DOMAIN m /\ x # p /\ m[x].size = 0
      BY <2>4, <1>13, <1>14
    <3>2. m[x].md_prev \in DOMAIN m /\ m[m[x].md_prev].size \in {1, 2}
      BY <3>1, <1>1, FenceIs DEF Post, Places
    <3>3. x # n
      BY <3>1, <2>2
    <3>4. m[x].md_prev # p
      BY <3>1, <3>2, <3>3, <1>2, <1>n DEF Linkage
    <3> QED BY <3>1, <3>2, <3>3, <3>4, <1>14
  <2>5. C \cap (L \cup {p}) = {} /\ t \notin C \cup (L \cup {p}) /\ L \cup {p} \subseteq DOMAIN z
    BY <1>1, <1>3, <1>6, <1>13, <1>15, <1>B DEF Places
  <2> QED BY <2>3, <2>4, <2>5 DEF Places
<1> QED BY <1>12, <1>16, <1>17, <1>B DEF Arena

\* The top chunk gets another size, with its heap.
LEMMA ResizeTop ==
    ASSUME NEW m, NEW hs, NEW t, NEW B, NEW L, HeapsOK(hs), Arena(m, hs, t, B, L),
           NEW h, h = HeapForPtr(t), NEW hs2, HeapsOK(hs2), DOMAIN hs2 = DOMAIN hs,
           \A g \in DOMAIN hs : hs2[g].prev = hs[g].prev /\ (g # h => hs2[g].size = hs[g].size),
           NEW size \in Nat, size >= MINSIZE, t + size = EndOf(hs2, h),
           NEW z, z = SetHead(m, t, size)
    PROVE  Arena(z, hs2, t, B, L)
<1>1. Geo(m, hs, t) /\ Tags(m, t, B) /\ Places(m, t, B, L)
  BY DEF Arena
<1>2. Linkage(m, t) /\ Recs(m)
  BY <1>1, LinkageIs DEF Geo
<1>3. t \in DOMAIN m /\ t \notin B \cup L
  BY <1>1, <1>2 DEF Linkage, Places
<1>4. PutsHead(DOMAIN m, m, t, size, z)
  BY <1>2, <1>3, SetHeadIs DEF Recs
<1>5. /\ z \in [DOMAIN m -> ChunkInfo] /\ DOMAIN z = DOMAIN m
      /\ z[t].prev_inuse = TRUE /\ z[t].size = size
      /\ \A x \in DOMAIN m : /\ x # t => z[x].size = m[x].size /\ SameTags(z[x], m[x])
                             /\ z[x].md_next = m[x].md_next /\ z[x].md_prev = m[x].md_prev
  BY <1>3, <1>4 DEF PutsHead
<1>6. Geo(z, hs2, t)
  <2>1. Resized(m, t, size, z)
    BY <1>5 DEF Resized
  <2> QED BY <2>1, <1>1, GeoResize
<1>7. size # 0 /\ m[t].size # 0
  <2>1. m[t].size >= MINSIZE /\ m[t].size \in Nat
    BY <1>1, <1>3, ChunkFacts DEF Geo, TopEnds
  <2> QED BY <2>1, Constants
<1>8. \A x \in DOMAIN m : m[x].size = 0 <=> z[x].size = 0
  BY <1>5, <1>7
<1>9. Tags(z, t, B)
  <2>1. ASSUME NEW x \in DOMAIN m PROVE Right(z, B, x)
    <3>1. CASE x = t
      <4>1. m[t].md_prev \notin B
        BY <1>1, <1>2, <1>3 DEF Tags, Linkage
      <4> QED BY <3>1, <4>1, <1>3, <1>5 DEF Right
    <3>2. CASE x # t
      <4>1. z[x].md_prev = m[x].md_prev /\ SameTags(z[x], m[x]) /\ Right(m, B, x)
        BY <3>2, <1>1, <1>5 DEF Tags
      <4>2. m[x].md_prev \in B => z[m[x].md_prev].size = m[m[x].md_prev].size
        BY <1>1, <1>3, <1>5 DEF Tags
      <4> QED BY <4>1, <4>2 DEF Right, SameTags
    <3> QED BY <3>1, <3>2
  <2> QED BY <2>1, <1>1, <1>5 DEF Tags
<1>10. Places(z, t, B, L)
  <2>1. ASSUME NEW x \in B \cup L PROVE z[x].size # 0 /\ z[z[x].md_next].size # 0
    <3>1. x \in DOMAIN m /\ x # t /\ m[x].size # 0 /\ m[m[x].md_next].size # 0
      BY <1>1 DEF Places, Tags
    <3>2. m[x].md_next \in DOMAIN m
      BY <3>1, <1>2 DEF Linkage
    <3> QED BY <3>1, <3>2, <1>5, <1>8
  <2>2. ASSUME NEW x \in DOMAIN z, z[x].size = 0 PROVE z[z[x].md_prev].size \in {1, 2}
    <3>1. x \in DOMAIN m /\ x # t /\ m[x].size = 0
      BY <2>2, <1>5, <1>7
    <3>2. m[x].md_prev \in DOMAIN m /\ m[m[x].md_prev].size \in {1, 2}
      BY <3>1, <1>1, FenceIs DEF Post, Places
    <3>3. m[x].md_prev # t
      BY <3>1, <3>2, <1>2 DEF Linkage
    <3> QED BY <3>1, <3>2, <3>3, <1>5
  <2> QED BY <2>1, <2>2, <1>1, <1>5 DEF Places
<1> QED BY <1>6, <1>9, <1>10 DEF Arena

\* The records w after m when the top chunk t has been followed by a last fencepost f, and
\* the new top u, of so many units, follows it in its own heap
Fences(m, t, f, u, size, w) ==
    /\ Added(m, t, f, u, size, w)
    /\ w[f].prev_inuse = TRUE /\ w[u].prev_inuse = TRUE
    /\ \A x \in DOMAIN m : SameTags(w[x], m[x])

\* the records z after w when the first fencepost is cut off t too
LongFence(w, t, r, z) ==
    /\ Cut(w, t, r, z)
    /\ z[t].prev_inuse = TRUE /\ z[r].prev_inuse = TRUE
    /\ \A x \in DOMAIN w \ {t} : SameTags(z[x], w[x])

LEMMA FencedIs ==
    ASSUME NEW m, Recs(m), top \in DOMAIN m, NEW old, old = m[top].size - 2, old \in Nat,
           NEW u \in Nat \ {Nil}, u \notin DOMAIN m, NEW f, f = top + old + 1, f \notin DOMAIN m, f # u,
           old >= 2 => top + old \notin DOMAIN m \cup {u},
           NEW size \in Nat, NEW R, R = Register(m, u, Chunk(size, Nil, Nil)),
           NEW z, z = Fenced(R, u)
    PROVE  \E w : /\ Fences(m, top, f, u, size, w)
                  /\ old < 2 => z = w
                  /\ old >= 2 => LongFence(w, top, top + old, z)
<1>D. PICK D : D = DOMAIN m
  OBVIOUS
<1>1. m \in [D -> ChunkInfo] /\ D \subseteq Nat \ {Nil} /\ top \in D /\ top \in Nat \ {Nil}
  BY <1>D DEF Recs
<1>2. m[top].size \in Nat /\ m[top].size = old + 2
  BY <1>1, FieldTypes
<1>c. PICK c : c = Chunk(size, Nil, Nil)
  OBVIOUS
<1>3. FreshChunk(c, size, Nil, Nil)
  <2>1. Nil \in Int
    BY Constants
  <2> QED BY <2>1, <1>c, ChunkIs
<1>4. PutsRecord(D, m, u, c, R)
  <2>1. c \in ChunkInfo
    BY <1>3 DEF FreshChunk
  <2> QED BY <2>1, <1>1, <1>c, RegisterIs
<1>E. PICK E : E = D \cup {u}
  OBVIOUS
<1>5. R \in [E -> ChunkInfo] /\ R[u] = c /\ R[top] = m[top] /\ (\A x \in D : R[x] = m[x])
  BY <1>4, <1>E, <1>D, <1>1 DEF PutsRecord
<1>k. PICK k : k = Chunk(0, top, u)
  OBVIOUS
<1>6. FreshChunk(k, 0, top, u)
  <2>1. PICK v \in Nat : v = 0
    OBVIOUS
  <2>2. FreshChunk(k, v, top, u)
    <3>1. top \in Int /\ u \in Int
      BY <1>1
    <3> QED BY <3>1, <2>1, <1>k, ChunkIs
  <2> QED BY <2>1, <2>2
<1>a. PICK a : a = Register(R, f, k)
  OBVIOUS
<1>7. PutsRecord(E, R, f, k, a)
  <2>1. k \in ChunkInfo
    BY <1>6 DEF FreshChunk
  <2> QED BY <2>1, <1>5, <1>a, RegisterIs
<1>F. PICK F : F = E \cup {f}
  OBVIOUS
<1>8. /\ F \subseteq Nat \ {Nil} /\ top \in F /\ f \in F /\ u \in F /\ f \in Nat /\ f # Nil
      /\ f \notin E /\ u \notin D
  <2>1. f \in Nat /\ f # Nil
    BY <1>1, Constants
  <2> QED BY <2>1, <1>1, <1>D, <1>E, <1>F
<1>b. PICK b : b = LinkChunks(a, top, f)
  OBVIOUS
<1>9. PutsLink(F, a, top, f, b)
  <2>1. a \in [F -> ChunkInfo]
    BY <1>7, <1>F DEF PutsRecord
  <2> QED BY <2>1, <1>8, <1>b, LinkIs
<1>d. PICK d : d = LinkChunks(b, f, u)
  OBVIOUS
<1>10. PutsLink(F, b, f, u, d)
  <2>1. b \in [F -> ChunkInfo]
    BY <1>9 DEF PutsLink
  <2> QED BY <2>1, <1>8, <1>d, LinkIs
<1>w. PICK w : w = [d EXCEPT ![top].size = old + 1]
  OBVIOUS
<1>11. PutsSize(F, d, top, old + 1, w)
  <2>1. d \in [F -> ChunkInfo] /\ old + 1 \in Nat
    BY <1>10 DEF PutsLink
  <2> QED BY <2>1, <1>8, <1>w, PutSize
<1>12. /\ d \in [F -> ChunkInfo]
       /\ \A x \in D : /\ d[x].size = m[x].size
                       /\ d[x].md_next = (IF x = top THEN f ELSE m[x].md_next)
                       /\ d[x].md_prev = m[x].md_prev
                       /\ SameTags(d[x], m[x])
  <2>1. ASSUME NEW x \in D
        PROVE  /\ d[x].size = m[x].size
               /\ d[x].md_next = (IF x = top THEN f ELSE m[x].md_next)
               /\ d[x].md_prev = m[x].md_prev
               /\ SameTags(d[x], m[x])
    <3>1. x \in E /\ x \in F /\ x # f /\ x # u
      BY <1>8, <1>E, <1>F
    <3>2. a[x] = m[x]
      BY <3>1, <1>5, <1>7 DEF PutsRecord
    <3>3. /\ b[x].md_next = (IF x = top THEN f ELSE a[x].md_next) /\ b[x].md_prev = a[x].md_prev
          /\ b[x].size = a[x].size /\ SameTags(b[x], a[x])
      BY <3>1, <1>9 DEF PutsLink
    <3>4. /\ d[x].md_next = b[x].md_next /\ d[x].md_prev = b[x].md_prev
          /\ d[x].size = b[x].size /\ SameTags(d[x], b[x])
      BY <3>1, <1>10 DEF PutsLink
    <3> QED BY <3>2, <3>3, <3>4 DEF SameTags
  <2> QED BY <2>1, <1>10 DEF PutsLink
<1>13. /\ d[f].size = 0 /\ d[f].md_next = u /\ d[f].md_prev = top /\ d[f].prev_inuse = TRUE
       /\ d[u].size = size /\ d[u].md_next = Nil /\ d[u].md_prev = f /\ d[u].prev_inuse = TRUE
  <2>1. a[f] = k /\ a[u] = c
    BY <1>5, <1>7, <1>E, <1>8 DEF PutsRecord
  <2>2. /\ b[f].size = a[f].size /\ b[f].md_prev = top /\ SameTags(b[f], a[f])
        /\ b[u].size = a[u].size /\ b[u].md_next = a[u].md_next /\ SameTags(b[u], a[u])
    BY <1>8, <1>9, <1>D DEF PutsLink
  <2>3. /\ d[f].size = b[f].size /\ d[f].md_next = u /\ d[f].md_prev = b[f].md_prev
        /\ SameTags(d[f], b[f])
        /\ d[u].size = b[u].size /\ d[u].md_next = b[u].md_next /\ d[u].md_prev = f
        /\ SameTags(d[u], b[u])
    BY <1>8, <1>10 DEF PutsLink
  <2> QED BY <2>1, <2>2, <2>3, <1>3, <1>6 DEF FreshChunk, SameTags
<1>14. /\ w \in [F -> ChunkInfo] /\ DOMAIN w = F
       /\ \A x \in F : /\ w[x].size = (IF x = top THEN old + 1 ELSE d[x].size)
                       /\ w[x].md_next = d[x].md_next /\ w[x].md_prev = d[x].md_prev
                       /\ SameTags(w[x], d[x])
  BY <1>11 DEF PutsSize
<1>15. Fences(m, top, f, u, size, w)
  <2>1. F = DOMAIN m \cup {f, u}
    BY <1>D, <1>E, <1>F
  <2>2. old + 1 = m[top].size - 1 /\ top # f /\ top # u
    BY <1>1, <1>2, <1>8, <1>E
  <2>3. \A x \in D : /\ x # top => w[x].size = m[x].size
                     /\ w[x].md_next = (IF x = top THEN f ELSE m[x].md_next)
                     /\ w[x].md_prev = m[x].md_prev
                     /\ SameTags(w[x], m[x])
    BY <1>12, <1>14, <1>E, <1>F DEF SameTags
  <2>4. /\ w[f].size = 0 /\ w[f].md_next = u /\ w[f].md_prev = top /\ w[f].prev_inuse = TRUE
        /\ w[u].size = size /\ w[u].md_next = Nil /\ w[u].md_prev = f /\ w[u].prev_inuse = TRUE
        /\ w[top].size = old + 1
    BY <2>2, <1>8, <1>13, <1>14 DEF SameTags
  <2> QED BY <2>1, <2>2, <2>3, <2>4, <1>1, <1>14, <1>D DEF Fences, Added, SameGeo
<1>16. top # f /\ f = top + old + 1
  BY <1>8, <1>E, <1>1
<1>17. R[top].size - MINSIZE = old
  BY <1>2, <1>5, Constants
<1>18. ASSUME old < 2 PROVE z = w
  <2>1. ~(old >= MINSIZE)
    BY <1>18, Constants
  <2> QED BY <2>1, <1>17, <1>16, <1>k, <1>a, <1>b, <1>d, <1>w DEF Fenced
<1>19. ASSUME old >= 2 PROVE LongFence(w, top, top + old, z)
  <2>r. PICK r : r = top + old
    OBVIOUS
  <2>1. r \notin F /\ r \in Nat /\ r # Nil /\ r # f /\ r # top /\ r # u
    <3>1. r \in Nat /\ r # Nil /\ r # f /\ r # top
      BY <2>r, <1>1, <1>16, <1>19, Constants
    <3>2. r \notin D \cup {u}
      BY <2>r, <1>19, <1>D
    <3> QED BY <3>1, <3>2, <1>E, <1>F
  <2>e. PICK e : e = Chunk(1, top, f)
    OBVIOUS
  <2>2. FreshChunk(e, 1, top, f)
    <3>1. PICK v \in Nat : v = 1
      OBVIOUS
    <3>2. FreshChunk(e, v, top, f)
      <4>1. top \in Int /\ f \in Int
        BY <1>1, <1>8
      <4> QED BY <4>1, <3>1, <2>e, ChunkIs
    <3> QED BY <3>1, <3>2
  <2>G. PICK G : G = F \cup {r}
    OBVIOUS
  <2>g. PICK g : g = Register(d, r, e)
    OBVIOUS
  <2>3. PutsRecord(F, d, r, e, g)
    <3>1. e \in ChunkInfo
      BY <2>2 DEF FreshChunk
    <3> QED BY <3>1, <1>12, <2>g, RegisterIs
  <2>4. G \subseteq Nat \ {Nil} /\ r \in G /\ f \in G /\ top \in G
    BY <2>1, <2>G, <1>8
  <2>h. PICK h : h = LinkChunks(g, r, f)
    OBVIOUS
  <2>5. PutsLink(G, g, r, f, h)
    <3>1. g \in [G -> ChunkInfo]
      BY <2>3, <2>G DEF PutsRecord
    <3> QED BY <3>1, <2>4, <2>h, LinkIs
  <2>i. PICK i : i = LinkChunks(h, top, r)
    OBVIOUS
  <2>6. PutsLink(G, h, top, r, i)
    <3>1. h \in [G -> ChunkInfo]
      BY <2>5 DEF PutsLink
    <3> QED BY <3>1, <2>4, <2>i, LinkIs
  <2>7. z = SetHead(i, top, old)
    <3>1. old >= MINSIZE
      BY <1>19, Constants
    <3> QED BY <3>1, <1>16, <1>17, <1>k, <1>a, <1>b, <1>d, <2>r, <2>e, <2>g, <2>h, <2>i DEF Fenced
  <2>8. PutsHead(G, i, top, old, z)
    <3>1. i \in [G -> ChunkInfo]
      BY <2>6 DEF PutsLink
    <3> QED BY <3>1, <2>4, <2>7, SetHeadIs
  <2>9. ASSUME NEW x \in F
        PROVE  /\ z[x].size = (IF x = top THEN old ELSE d[x].size)
               /\ z[x].md_next = (IF x = top THEN r ELSE d[x].md_next)
               /\ z[x].md_prev = (IF x = f THEN r ELSE d[x].md_prev)
               /\ x # top => SameTags(z[x], d[x])
    <3>1. x \in G /\ x # r
      BY <2>1, <2>G
    <3>2. g[x] = d[x]
      BY <3>1, <2>3 DEF PutsRecord
    <3>3. /\ h[x].md_next = g[x].md_next /\ h[x].md_prev = (IF x = f THEN r ELSE g[x].md_prev)
          /\ h[x].size = g[x].size /\ SameTags(h[x], g[x])
      BY <3>1, <2>5 DEF PutsLink
    <3>4. /\ i[x].md_next = (IF x = top THEN r ELSE h[x].md_next) /\ i[x].md_prev = h[x].md_prev
          /\ i[x].size = h[x].size /\ SameTags(i[x], h[x])
      BY <3>1, <2>6 DEF PutsLink
    <3>5. /\ z[x].size = (IF x = top THEN old ELSE i[x].size)
          /\ z[x].md_next = i[x].md_next /\ z[x].md_prev = i[x].md_prev
          /\ x # top => SameTags(z[x], i[x])
      BY <3>1, <2>8 DEF PutsHead
    <3> QED BY <3>2, <3>3, <3>4, <3>5 DEF SameTags
  <2>10. z[r].size = 1 /\ z[r].md_next = f /\ z[r].md_prev = top /\ z[r].prev_inuse = TRUE
    <3>1. g[r] = e
      BY <2>3 DEF PutsRecord
    <3>2. h[r].md_next = f /\ h[r].size = g[r].size /\ SameTags(h[r], g[r])
      BY <2>1, <2>4, <2>5 DEF PutsLink
    <3>3. i[r].md_next = h[r].md_next /\ i[r].md_prev = top /\ i[r].size = h[r].size
          /\ SameTags(i[r], h[r])
      BY <2>1, <2>4, <2>6 DEF PutsLink
    <3>4. z[r].md_next = i[r].md_next /\ z[r].md_prev = i[r].md_prev /\ z[r].size = i[r].size
          /\ SameTags(z[r], i[r])
      BY <2>1, <2>4, <2>8 DEF PutsHead
    <3> QED BY <3>1, <3>2, <3>3, <3>4, <2>2 DEF FreshChunk, SameTags
  <2>11. /\ DOMAIN z = DOMAIN w \cup {r} /\ z \in [DOMAIN z -> ChunkInfo] /\ z[top].prev_inuse = TRUE
    BY <2>8, <2>G, <1>14 DEF PutsHead
  <2>12. /\ w[top].md_next = f /\ w[top].size = old + 1 /\ w[top].md_prev = d[top].md_prev
         /\ d[top].md_next = f
    BY <1>1, <1>8, <1>12, <1>14
  <2>13. /\ old = r - top /\ 1 = top + (old + 1) - r
    BY <2>r, <1>1
  <2>14. ASSUME NEW x \in DOMAIN w \ {top}
         PROVE  /\ z[x].size = w[x].size /\ z[x].md_next = w[x].md_next
                /\ z[x].md_prev = (IF x = f THEN r ELSE w[x].md_prev)
                /\ SameTags(z[x], w[x])
    BY <2>9, <1>14 DEF SameTags
  <2>15. z[top].size = old /\ z[top].md_next = r /\ z[top].md_prev = d[top].md_prev
    BY <2>9, <1>8, <1>16
  <2>16. Cut(w, top, r, z)
    BY <2>1, <2>10, <2>11, <2>12, <2>13, <2>14, <2>15, <1>14 DEF Cut
  <2> QED BY <2>10, <2>11, <2>14, <2>16, <2>r DEF LongFence
<1> QED BY <1>15, <1>18, <1>19

\* The records z after m when the new chunks N, the fencepost f and the new top u among
\* them, follow the old top t
Extends(m, t, B, N, f, u, z) ==
    /\ DOMAIN z = DOMAIN m \cup N /\ N \cap DOMAIN m = {} /\ {f, u} \subseteq N /\ f # u
    /\ z[z[f].md_prev].size \in {1, 2}
    /\ \A x \in N : z[x].prev_inuse = TRUE /\ z[x].md_prev \notin B /\ (x # f => z[x].size # 0)
    /\ \A x \in DOMAIN m \ {t} :
          /\ z[x].size = m[x].size /\ z[x].md_next = m[x].md_next
          /\ z[x].md_prev = m[x].md_prev /\ SameTags(z[x], m[x])
    /\ z[t].size # 0 /\ z[t].md_prev = m[t].md_prev
    /\ z[t].prev_inuse = TRUE \/ SameTags(z[t], m[t])

LEMMA ExtendedTags ==
    ASSUME NEW m, NEW hs, NEW t, NEW B, NEW L, HeapsOK(hs), Arena(m, hs, t, B, L),
           NEW N, NEW f, NEW u, NEW z, Extends(m, t, B, N, f, u, z)
    PROVE  Tags(z, u, B) /\ Places(z, u, B, L)
<1>1. Geo(m, hs, t) /\ Tags(m, t, B) /\ Places(m, t, B, L)
  BY DEF Arena
<1>2. Linkage(m, t)
  BY <1>1, LinkageIs
<1>3. t \in DOMAIN m /\ t \notin B \cup L /\ B \subseteq DOMAIN m /\ L \subseteq DOMAIN m /\ m[t].md_next = Nil
  BY <1>1, <1>2 DEF Linkage, Places, Tags
<1>4. /\ DOMAIN z = DOMAIN m \cup N /\ N \cap DOMAIN m = {} /\ f \in N /\ u \in N
      /\ z[t].size # 0 /\ z[t].md_prev = m[t].md_prev
      /\ \A x \in DOMAIN m \ {t} :
            /\ z[x].size = m[x].size /\ z[x].md_next = m[x].md_next
            /\ z[x].md_prev = m[x].md_prev /\ SameTags(z[x], m[x])
  BY DEF Extends
<1>5. Tags(z, u, B)
  <2>1. ASSUME NEW x \in DOMAIN z PROVE Right(z, B, x)
    <3>1. CASE x \in N
      BY <3>1 DEF Extends, Right
    <3>2. CASE x \in DOMAIN m
      <4>1. z[x].md_prev = m[x].md_prev /\ Right(m, B, x)
        BY <3>2, <1>1, <1>4 DEF Tags
      <4>2. m[x].md_prev \in B => z[m[x].md_prev].size = m[m[x].md_prev].size
        BY <1>3, <1>4
      <4>3. CASE SameTags(z[x], m[x])
        BY <4>1, <4>2, <4>3 DEF Right, SameTags
      <4>4. CASE x = t /\ z[t].prev_inuse = TRUE
        <5>1. m[t].md_prev \notin B
          BY <1>1, <1>2, <1>3 DEF Tags, Linkage
        <5> QED BY <4>1, <4>4, <5>1 DEF Right
      <4> QED BY <3>2, <4>3, <4>4 DEF Extends
    <3> QED BY <3>1, <3>2, <1>4
  <2>2. ASSUME NEW x \in B PROVE z[x].md_next # u /\ z[x].md_next \notin B
    <3>1. x \in DOMAIN m \ {t} /\ m[x].md_next \in DOMAIN m /\ m[x].md_next \notin B
      BY <1>1, <1>2, <1>3 DEF Tags, Linkage
    <3> QED BY <3>1, <1>4
  <2> QED BY <2>1, <2>2, <1>3, <1>4 DEF Tags
<1>6. Places(z, u, B, L)
  <2>1. \A x \in DOMAIN m : m[x].size # 0 => z[x].size # 0
    BY <1>4
  <2>2. ASSUME NEW x \in B \cup L PROVE z[x].size # 0 /\ z[z[x].md_next].size # 0
    <3>1. x \in DOMAIN m \ {t} /\ m[x].size # 0 /\ m[m[x].md_next].size # 0
      BY <1>1, <1>3 DEF Places
    <3>2. m[x].md_next \in DOMAIN m
      BY <3>1, <1>2 DEF Linkage
    <3> QED BY <2>1, <3>1, <3>2, <1>4
  <2>3. ASSUME NEW x \in DOMAIN z, z[x].size = 0 PROVE z[z[x].md_prev].size \in {1, 2}
    <3>1. CASE x \in N
      BY <2>3, <3>1 DEF Extends
    <3>2. CASE x \in DOMAIN m
      <4>1. x # t /\ m[x].size = 0
        BY <2>3, <3>2, <1>4
      <4>2. m[x].md_prev \in DOMAIN m /\ m[m[x].md_prev].size \in {1, 2}
        BY <3>2, <4>1, <1>1, FenceIs DEF Post, Places
      <4>3. m[x].md_prev # t
        BY <3>2, <4>2, <1>2 DEF Linkage
      <4> QED BY <3>2, <4>1, <4>2, <4>3, <1>4
    <3> QED BY <3>1, <3>2, <1>4
  <2> QED BY <2>2, <2>3, <1>1, <1>3, <1>4 DEF Places
<1> QED BY <1>5, <1>6

\* A new heap follows: the old top chunk ends in fenceposts, and can be freed when it is
\* long enough.
LEMMA FencedArena ==
    ASSUME NEW m, NEW hs, NEW B, NEW L, HeapsOK(hs), Arena(m, hs, top, B, L),
           NEW h, NEW hs2, AddedHeap(hs, top, h, hs2), NEW u, u = Start(h),
           NEW size \in Nat, size >= MINSIZE, u + size = EndOf(hs2, h),
           NEW R, R = Register(m, u, Chunk(size, Nil, Nil)), NEW z, z = Fenced(R, u)
    PROVE  /\ Arena(z, hs2, u, B, L) /\ R[top].size = m[top].size
           /\ m[top].size >= 4 =>
                 /\ top \in DOMAIN z /\ top \notin B \cup L /\ top # u /\ z[top].size # 0
                 /\ z[top].md_next # u /\ z[z[top].md_next].size # 0
<1>1. Geo(m, hs, top) /\ Tags(m, top, B) /\ Places(m, top, B, L)
  BY DEF Arena
<1>2. Linkage(m, top) /\ Recs(m)
  BY <1>1, LinkageIs DEF Geo
<1>o. PICK old : old = m[top].size - 2
  OBVIOUS
<1>3. /\ top \in DOMAIN m /\ top \notin B \cup L /\ top \in Nat /\ m[top].size \in Nat
      /\ m[top].size >= 2 /\ old \in Nat /\ UnitsOf(m[top]) = m[top].size
      /\ m[top].md_next = Nil /\ m[top].md_prev \notin B
  <2>1. top \in DOMAIN m /\ top \notin B \cup L /\ m[top].md_next = Nil /\ m[top].md_prev \notin B
    BY <1>1, <1>2 DEF Linkage, Places, Tags
  <2>2. top \in Nat /\ m[top].size \in Nat /\ (m[top].size # 0 => UnitsOf(m[top]) = m[top].size)
    BY <2>1, <1>1, ChunkFacts
  <2>3. m[top].size >= 2
    BY <1>1, Constants DEF Geo, TopEnds
  <2> QED BY <2>1, <2>2, <2>3, <1>o
<1>f. PICK f : f = top + m[top].size - 1
  OBVIOUS
<1>4. /\ u \in Nat /\ f \in Nat /\ u > 0 /\ f > top /\ u # f /\ u \notin DOMAIN m /\ f \notin DOMAIN m
      /\ HeapForPtr(u) = h
  BY <1>1, <1>f, AddAddresses
<1>5. f = top + old + 1 /\ u # Nil /\ u # top
  <2>1. u # Nil /\ u # top
    BY <1>3, <1>4, Constants
  <2> QED BY <2>1, <1>3, <1>f, <1>o
<1>r. PICK r : r = top + old
  OBVIOUS
<1>6. ASSUME old >= 2
      PROVE  /\ r \notin DOMAIN m \cup {u, f} /\ r # top /\ r \in Nat /\ top < r
             /\ r < top + (old + 1)
  <2>1. r \in Nat /\ top < r /\ r < top + UnitsOf(m[top]) /\ r # f /\ r # top /\ r < top + (old + 1)
    BY <1>3, <1>5, <1>6, <1>o, <1>r
  <2>2. r \notin DOMAIN m
    <3>1. \A x \in DOMAIN m : top < x => top + UnitsOf(m[top]) <= x
      BY <1>1, <1>3 DEF Geo, Disjointly
    <3> QED BY <2>1, <3>1, <1>3
  <2>3. HeapForPtr(r) \in DOMAIN hs
    <3>1. HeapForPtr(r) = HeapForPtr(top)
      <4>1. r \in Int /\ top <= r
        BY <2>1, <1>3
      <4> QED BY <2>1, <4>1, <1>1, <1>3, SameHeap
    <3> QED BY <3>1, <1>1, <1>3, ChunkFacts
  <2>4. r # u
    BY <2>3, <1>4 DEF AddedHeap
  <2> QED BY <2>1, <2>2, <2>4
<1>7. PICK w : /\ Fences(m, top, f, u, size, w)
               /\ old < 2 => z = w
               /\ old >= 2 => LongFence(w, top, r, z)
  <2>1. u \in Nat \ {Nil}
    BY <1>4, <1>5
  <2>2. old >= 2 => top + old \notin DOMAIN m \cup {u}
    BY <1>6, <1>r
  <2> QED BY <2>1, <2>2, <1>2, <1>3, <1>4, <1>5, <1>o, <1>r, FencedIs
<1>8. Geo(w, hs2, u)
  BY <1>1, <1>7, <1>f, GeoAdd DEF Fences
<1>9. /\ DOMAIN w = DOMAIN m \cup {f, u} /\ w[top].size = old + 1 /\ w[top].md_next = f
      /\ w[top].md_prev = m[top].md_prev
      /\ w[f].size = 0 /\ w[f].md_next = u /\ w[f].md_prev = top /\ w[f].prev_inuse = TRUE
      /\ w[u].size = size /\ w[u].md_prev = f /\ w[u].prev_inuse = TRUE
      /\ \A x \in DOMAIN m \ {top} :
            /\ w[x].size = m[x].size /\ w[x].md_next = m[x].md_next
            /\ w[x].md_prev = m[x].md_prev
      /\ \A x \in DOMAIN m : SameTags(w[x], m[x])
  <2>1. m[top].size - 1 = old + 1
    BY <1>3, <1>o
  <2> QED BY <2>1, <1>7 DEF Fences, Added, SameGeo
<1>10. size # 0 /\ f \notin B /\ u \notin B /\ f \notin DOMAIN m /\ u \notin DOMAIN m
  BY <1>1, <1>4, Constants DEF Tags
<1>11. CASE old < 2
  <2>1. z = w
    BY <1>7, <1>11
  <2>2. Extends(m, top, B, {f, u}, f, u, w)
    <3>1. old + 1 \in {1, 2} /\ old + 1 # 0
      BY <1>3, <1>11
    <3>2. w[w[f].md_prev].size \in {1, 2} /\ w[top].size # 0
      BY <3>1, <1>9
    <3> QED BY <3>2, <1>3, <1>4, <1>9, <1>10 DEF Extends
  <2>3. ~(m[top].size >= 4)
    BY <1>3, <1>11, <1>o
  <2>4. Tags(w, u, B) /\ Places(w, u, B, L)
    BY <2>2, ExtendedTags
  <2>5. R[top].size = m[top].size
    BY <1>3, <1>5 DEF Register
  <2> QED BY <2>1, <2>3, <2>4, <2>5, <1>8 DEF Arena
<1>12. CASE old >= 2
  <2>0. /\ r \notin DOMAIN m \cup {u, f} /\ r # top /\ r \in Nat /\ top < r /\ r < top + (old + 1)
    BY <1>6, <1>12
  <2>1. LongFence(w, top, r, z)
    BY <1>7, <1>12
  <2>2. Geo(z, hs2, u)
    <3>1. HeapsOK(hs2)
      BY DEF AddedHeap
    <3>2. Cut(w, top, r, z) /\ r \in Int /\ top \in DOMAIN w /\ r < top + w[top].size
      BY <2>0, <2>1, <1>3, <1>9 DEF LongFence
    <3> QED BY <2>0, <3>1, <3>2, <1>5, <1>8, GeoCarve
  <2>3. /\ DOMAIN z = DOMAIN w \cup {r} /\ z[top].md_next = r /\ z[top].md_prev = w[top].md_prev
        /\ z[top].size = r - top /\ z[r].size = top + w[top].size - r /\ z[r].md_prev = top
        /\ z[top].prev_inuse = TRUE /\ z[r].prev_inuse = TRUE
        /\ \A x \in DOMAIN w \ {top} :
              /\ z[x].size = w[x].size /\ z[x].md_next = w[x].md_next
              /\ z[x].md_prev = (IF x = w[top].md_next THEN r ELSE w[x].md_prev)
              /\ SameTags(z[x], w[x])
    BY <2>1 DEF LongFence, Cut
  <2>4. r - top # 0 /\ top + (old + 1) - r = 1
    BY <2>0, <1>3, <1>12, <1>r
  <2>5. z[top].size # 0 /\ z[r].size = 1
    BY <2>3, <2>4, <1>9
  <2>6. \A x \in DOMAIN m \ {top} :
            /\ z[x].size = m[x].size /\ z[x].md_next = m[x].md_next
            /\ z[x].md_prev = m[x].md_prev /\ SameTags(z[x], m[x])
    BY <2>3, <1>4, <1>9 DEF SameTags
  <2>7. /\ z[f].size = 0 /\ z[f].md_prev = r /\ z[f].prev_inuse = TRUE
        /\ z[u].size = size /\ z[u].md_prev = f /\ z[u].prev_inuse = TRUE
    <3>1. f \in DOMAIN w \ {top} /\ u \in DOMAIN w \ {top} /\ u # f
      BY <1>4, <1>9, <1>3
    <3> QED BY <3>1, <2>3, <1>9 DEF SameTags
  <2>8. Extends(m, top, B, {f, u, r}, f, u, z)
    <3>1. DOMAIN z = DOMAIN m \cup {f, u, r} /\ {f, u, r} \cap DOMAIN m = {}
          /\ {f, u} \subseteq {f, u, r} /\ f # u
      BY <2>0, <2>3, <1>4, <1>9
    <3>2. z[z[f].md_prev].size \in {1, 2}
      BY <2>5, <2>7
    <3>3. \A x \in {f, u, r} : z[x].prev_inuse = TRUE /\ z[x].md_prev \notin B /\ (x # f => z[x].size # 0)
      <4>1. r \notin B /\ top \notin B
        BY <2>0, <1>1, <1>3 DEF Tags
      <4> QED BY <4>1, <2>3, <2>5, <2>7, <1>10
    <3> QED BY <3>1, <3>2, <3>3, <2>3, <2>5, <2>6, <1>9 DEF Extends
  <2>9. Tags(z, u, B) /\ Places(z, u, B, L)
    BY <2>8, ExtendedTags
  <2>10. R[top].size = m[top].size
    BY <1>3, <1>5 DEF Register
  <2>11. top \in DOMAIN z /\ z[top].md_next # u /\ z[z[top].md_next].size # 0
    BY <2>0, <2>3, <2>5, <1>3, <1>9
  <2> QED BY <2>2, <2>5, <2>9, <2>10, <2>11, <1>3, <1>5 DEF Arena
<1>13. old < 2 \/ old >= 2
  BY <1>3
<1> QED BY <1>11, <1>12, <1>13

\* The records s and g differ in the size of p only.
Loose(s, g, p) ==
    /\ s \in [DOMAIN g -> ChunkInfo]
    /\ \A x \in DOMAIN g : /\ s[x].md_next = g[x].md_next /\ s[x].md_prev = g[x].md_prev
                           /\ SameTags(s[x], g[x])
                           /\ x # p => s[x].size = g[x].size

\* What consolidation with the chunk behind p makes of the arena: the records g are
\* those of f with the size that the code sets in the end.
BackMerged(m, hs, t, L, p, f, g) ==
    /\ Arena(g, hs, t, f.binned, L)
    /\ f.p \in DOMAIN g /\ f.p \notin f.binned \cup L /\ f.p # t
    /\ f.size \in Nat /\ f.size # 0 /\ g[f.p].size = f.size
    /\ g[f.p].md_prev \notin f.binned /\ g[f.p].md_next = m[p].md_next
    /\ Loose(f.md, g, f.p)
    /\ g[m[p].md_next].size = m[m[p].md_next].size
    /\ m[p].md_next # t =>
          LET nn == m[m[p].md_next].md_next
          IN  g[m[p].md_next].md_next = nn /\ g[nn].prev_inuse = m[nn].prev_inuse

LEMMA MergeBackArena ==
    ASSUME NEW m, NEW hs, NEW t, NEW B, NEW L, HeapsOK(hs), Arena(m, hs, t, B, L),
           NEW p \in DOMAIN m, p \notin B \cup L, p # t, m[p].size # 0, m[m[p].md_next].size # 0,
           NEW f, f = MergeBack(m, B, p)
    PROVE  \E g : BackMerged(m, hs, t, L, p, f, g)
<1>n. PICK n : n = m[p].md_next
  OBVIOUS
<1>1. Geo(m, hs, t) /\ Tags(m, t, B) /\ Places(m, t, B, L)
  BY DEF Arena
<1>2. Linkage(m, t) /\ Recs(m)
  BY <1>1, LinkageIs DEF Geo
<1>D. PICK D : D = DOMAIN m
  OBVIOUS
<1>3. /\ m \in [D -> ChunkInfo] /\ p \in D /\ p \in Nat
      /\ m[p].size \in Nat /\ m[p].prev_size \in Nat /\ m[p].prev_inuse \in BOOLEAN
  <2>1. m \in [D -> ChunkInfo] /\ p \in D /\ p \in Nat
    BY <1>2, <1>D DEF Recs
  <2> QED BY <2>1, FieldTypes
<1>4. n \in DOMAIN m /\ n # p /\ p < n /\ m[n].md_prev = p /\ n \in Nat
  BY <1>1, <1>2, <1>n, Adjacent, ChunkFacts DEF Linkage
<1>5. Right(m, B, p) /\ Right(m, B, n)
  BY <1>1, <1>4 DEF Tags
<1>6. CASE m[p].prev_inuse
  <2>1. f.md = m /\ f.binned = B /\ f.p = p /\ f.size = m[p].size
    BY <1>6 DEF MergeBack
  <2>2. m[p].md_prev \notin B
    BY <1>5, <1>6 DEF Right
  <2>3. Loose(m, m, p)
    BY <1>2 DEF Loose, Recs, SameTags
  <2>4. BackMerged(m, hs, t, L, p, f, m)
    BY <2>1, <2>2, <2>3, <1>3 DEF BackMerged
  <2> QED BY <2>4
<1>7. CASE ~m[p].prev_inuse
  <2>q. PICK q : q = m[p].md_prev
    OBVIOUS
  <2>s. PICK s : s = Without(LinkChunks(m, q, n), p)
    OBVIOUS
  <2>e. PICK size : size = m[p].size + m[p].prev_size
    OBVIOUS
  <2>1. f.md = s /\ f.binned = B \ {q} /\ f.p = q /\ f.size = size
    BY <2>q, <2>s, <2>e, <1>n, <1>7 DEF MergeBack
  <2>2. q \in B /\ m[p].prev_size = m[q].size
    BY <2>q, <1>5, <1>7 DEF Right
  <2>3. q \in DOMAIN m /\ q # t /\ q # p /\ m[q].size # 0 /\ q \notin L
    BY <2>2, <1>1 DEF Tags, Places
  <2>4. m[q].md_next = p /\ q < p /\ q \in Nat /\ q # n
    <3>1. m[q].md_next = p
      BY <2>q, <2>3, <1>2 DEF Linkage
    <3>2. q < p /\ q \in Nat
      BY <2>3, <3>1, <1>1, Adjacent, ChunkFacts
    <3> QED BY <3>1, <3>2, <1>3, <1>4
  <2>5. size \in Nat /\ size # 0 /\ size = m[q].size + m[p].size
    <3>1. m[q].size \in Nat
      BY <2>3, <1>1, ChunkFacts
    <3> QED BY <3>1, <2>2, <2>e, <1>3
  <2>6. Absorbed(m, q, p, s)
    BY <2>3, <2>s, <1>2, <1>4, <1>n, AbsorbIs
  <2>E. PICK E : E = D \ {p}
    OBVIOUS
  <2>g. PICK g : g = [s EXCEPT ![q].size = size]
    OBVIOUS
  <2>7. PutsSize(E, s, q, size, g)
    <3>1. s \in [E -> ChunkInfo] /\ q \in E
      BY <2>3, <2>6, <2>E, <1>D DEF Absorbed
    <3> QED BY <3>1, <2>5, <2>g, PutSize
  <2>8. /\ DOMAIN g = D \ {p} /\ g \in [DOMAIN g -> ChunkInfo] /\ s \in [DOMAIN g -> ChunkInfo]
        /\ g[q].size = size /\ g[q].md_next = n
        /\ \A x \in D \ {p} :
              /\ x # q => g[x].size = m[x].size /\ g[x].md_next = m[x].md_next
              /\ g[x].md_prev = (IF x = n THEN q ELSE m[x].md_prev)
              /\ SameTags(g[x], m[x])
              /\ s[x].md_next = g[x].md_next /\ s[x].md_prev = g[x].md_prev
              /\ SameTags(s[x], g[x])
              /\ x # q => s[x].size = g[x].size
    BY <2>3, <2>6, <2>7, <2>E, <1>n, <1>D DEF Absorbed, PutsSize, SameTags
  <2>9. Geo(g, hs, t)
    <3>1. Merged(m, q, p, g)
      BY <2>3, <2>4, <2>5, <2>8, <1>n, <1>D DEF Merged
    <3> QED BY <3>1, <2>3, <2>4, <1>1, GeoMerge
  <2>10. Tags(g, t, B \ {q})
    <3>1. ASSUME NEW x \in DOMAIN g PROVE Right(g, B \ {q}, x)
      <4>0. x \in DOMAIN m /\ x # p /\ x \in D
        BY <2>8, <1>D
      <4>1. CASE x = n
        <5>1. m[n].prev_inuse
          BY <1>4, <1>5 DEF Right
        <5>2. g[n].md_prev = q /\ SameTags(g[n], m[n])
          BY <4>0, <4>1, <2>8
        <5> QED BY <4>1, <5>1, <5>2 DEF Right, SameTags
      <4>2. CASE x # n
        <5>1. g[x].md_prev = m[x].md_prev /\ SameTags(g[x], m[x]) /\ Right(m, B, x)
          BY <4>0, <4>2, <2>8, <1>1 DEF Tags
        <5>2. m[x].md_prev # q
          BY <4>0, <2>3, <2>4, <1>2 DEF Linkage
        <5>3. m[x].md_prev \in B => g[m[x].md_prev].size = m[m[x].md_prev].size
          BY <5>2, <2>8, <1>1, <1>D DEF Tags
        <5> QED BY <5>1, <5>2, <5>3 DEF Right, SameTags
      <4> QED BY <4>1, <4>2
    <3>2. ASSUME NEW x \in B \ {q} PROVE g[x].md_next # t /\ g[x].md_next \notin B \ {q}
      <4>1. x \in D \ {p} /\ x # q /\ m[x].md_next # t /\ m[x].md_next \notin B
        BY <1>1, <1>D DEF Tags
      <4> QED BY <4>1, <2>8
    <3> QED BY <3>1, <3>2, <2>8, <1>1, <1>D DEF Tags
  <2>11. Places(g, t, B \ {q}, L)
    <3>1. \A x \in D \ {p} : m[x].size # 0 => g[x].size # 0
      BY <2>5, <2>8
    <3>2. ASSUME NEW x \in (B \ {q}) \cup L PROVE g[x].size # 0 /\ g[g[x].md_next].size # 0
      <4>1. x \in D \ {p} /\ x # q /\ x # t /\ m[x].size # 0 /\ m[m[x].md_next].size # 0
        BY <2>3, <1>1, <1>D DEF Places, Tags
      <4>2. m[x].md_next \in D /\ m[x].md_next # p
        BY <4>1, <2>q, <1>2, <1>D DEF Linkage
      <4> QED BY <3>1, <4>1, <4>2, <2>8
    <3>3. ASSUME NEW x \in DOMAIN g, g[x].size = 0 PROVE g[g[x].md_prev].size \in {1, 2}
      <4>1. x \in D \ {p} /\ x \in DOMAIN m /\ x # q /\ m[x].size = 0
        BY <3>1, <3>3, <2>3, <2>8, <1>D
      <4>2. m[x].md_prev \in DOMAIN m /\ m[m[x].md_prev].size \in {1, 2}
        BY <4>1, <1>1, FenceIs DEF Post, Places
      <4>3. x # n
        BY <4>1, <1>n
      <4>4. m[x].md_prev # p /\ m[x].md_prev # q
        BY <4>1, <4>2, <4>3, <2>3, <2>4, <1>2, <1>n DEF Linkage
      <4> QED BY <4>1, <4>2, <4>3, <4>4, <2>8, <1>D
    <3> QED BY <3>2, <3>3, <2>8, <1>1, <1>D DEF Places
  <2>12. g[q].md_prev \notin B \ {q}
    <3>1. g[q].md_prev = m[q].md_prev
      BY <2>3, <2>4, <2>8, <1>D
    <3>2. m[q].md_prev \notin B
      BY <2>2, <2>3, <1>1, <1>2 DEF Tags, Linkage
    <3> QED BY <3>1, <3>2
  <2>13. Loose(s, g, q)
    BY <2>8 DEF Loose
  <2>14. g[n].size = m[n].size /\ g[n].md_next = m[n].md_next
    BY <2>4, <2>8, <1>4, <1>D
  <2>15. ASSUME n # t
         PROVE  g[m[n].md_next].prev_inuse = m[m[n].md_next].prev_inuse
    <3>1. n < m[n].md_next /\ m[n].md_next \in DOMAIN m
      BY <2>15, <1>1, <1>4, <1>n, Adjacent
    <3>2. m[n].md_next # p
      BY <3>1, <1>3, <1>4
    <3> QED BY <3>1, <3>2, <2>8, <1>D DEF SameTags
  <2>16. BackMerged(m, hs, t, L, p, f, g)
    BY <2>1, <2>3, <2>5, <2>8, <2>9, <2>10, <2>11, <2>12, <2>13, <2>14, <2>15, <1>n, <1>D
       DEF BackMerged, Arena
  <2> QED BY <2>16
<1> QED BY <1>6, <1>7

\* A chunk p that is in no place, about to be freed: s are the records of the code, in
\* which p has its old size still.
Freeing(g, hs, t, B, L, p, size, s) ==
    /\ HeapsOK(hs) /\ Arena(g, hs, t, B, L)
    /\ p \in DOMAIN g /\ p \notin B \cup L /\ p # t
    /\ size \in Nat /\ size # 0 /\ g[p].size = size
    /\ g[p].md_prev \notin B /\ g[g[p].md_next].size # 0
    /\ Loose(s, g, p)

LEMMA FreeingFacts ==
    ASSUME NEW g, NEW hs, NEW t, NEW B, NEW L, NEW p, NEW size, NEW s,
           Freeing(g, hs, t, B, L, p, size, s), NEW n, n = g[p].md_next
    PROVE  /\ Geo(g, hs, t) /\ Tags(g, t, B) /\ Places(g, t, B, L) /\ Linkage(g, t) /\ Recs(g)
           /\ p \in DOMAIN g /\ p \notin B \cup L /\ p # t /\ g[p].md_prev \notin B \cup {p}
           /\ n \in DOMAIN g /\ n # p /\ g[n].md_prev = p /\ g[n].size # 0
           /\ s \in [DOMAIN g -> ChunkInfo] /\ DOMAIN s = DOMAIN g
           /\ \A x \in DOMAIN g :
                 /\ s[x].md_next = g[x].md_next /\ s[x].md_prev = g[x].md_prev
                 /\ SameTags(s[x], g[x])
                 /\ x # p => s[x].size = g[x].size
           /\ \A x \in B : g[x].md_next # p
<1>1. Geo(g, hs, t) /\ Tags(g, t, B) /\ Places(g, t, B, L) /\ HeapsOK(hs)
  BY DEF Freeing, Arena
<1>2. Linkage(g, t) /\ Recs(g)
  BY <1>1, LinkageIs DEF Geo
<1>3. p \in DOMAIN g /\ p \notin B \cup L /\ p # t /\ g[p].md_prev \notin B /\ g[n].size # 0
  BY DEF Freeing
<1>4. n \in DOMAIN g /\ n # p /\ g[n].md_prev = p /\ g[p].md_prev # p
  BY <1>2, <1>3 DEF Linkage
<1>5. \A x \in B : g[x].md_next # p
  BY <1>1, <1>2, <1>3 DEF Linkage, Tags
<1>6. /\ s \in [DOMAIN g -> ChunkInfo] /\ DOMAIN s = DOMAIN g
      /\ \A x \in DOMAIN g :
                 /\ s[x].md_next = g[x].md_next /\ s[x].md_prev = g[x].md_prev
                 /\ SameTags(s[x], g[x])
                 /\ x # p => s[x].size = g[x].size
  BY DEF Freeing, Loose
<1> QED BY <1>1, <1>2, <1>3, <1>4, <1>5, <1>6

\* without the top chunk t, behind p
Untopped(s, p, t) == Without([s EXCEPT ![p].md_next = Nil], t)

\* It borders the top, and becomes the top.
LEMMA JoinTop ==
    ASSUME NEW g, NEW hs, NEW t, NEW B, NEW L, NEW p, NEW size, NEW s,
           Freeing(g, hs, t, B, L, p, size, s), g[p].md_next = t, NEW v, v = g[t].size,
           NEW sum, sum = size + v, NEW z, z = SetHead(Untopped(s, p, t), p, sum)
    PROVE  Arena(z, hs, p, B, L)
<1>1. /\ Geo(g, hs, t) /\ Tags(g, t, B) /\ Places(g, t, B, L) /\ Linkage(g, t) /\ Recs(g)
      /\ p \in DOMAIN g /\ p \notin B \cup L /\ p # t /\ g[p].md_prev \notin B \cup {p}
      /\ t \in DOMAIN g /\ g[t].md_prev = p /\ g[t].size # 0
      /\ s \in [DOMAIN g -> ChunkInfo] /\ DOMAIN s = DOMAIN g
      /\ \A x \in B : g[x].md_next # p
  BY FreeingFacts
<1>2. \A x \in DOMAIN g :
                 /\ s[x].md_next = g[x].md_next /\ s[x].md_prev = g[x].md_prev
                 /\ SameTags(s[x], g[x])
                 /\ x # p => s[x].size = g[x].size
  BY FreeingFacts
<1>D. PICK D : D = DOMAIN g
  OBVIOUS
<1>E. PICK E : E = D \ {t}
  OBVIOUS
<1>3. v \in Nat /\ size \in Nat /\ size # 0 /\ sum \in Nat /\ sum # 0 /\ sum = size + v
      /\ g[p].size = size /\ HeapsOK(hs)
  <2>1. g[t].size \in Nat
    BY <1>1, <1>D, FieldTypes DEF Recs
  <2> QED BY <2>1 DEF Freeing
<1>a. PICK a : a = [s EXCEPT ![p].md_next = Nil]
  OBVIOUS
<1>b. PICK b : b = Without(a, t)
  OBVIOUS
<1>4. PutsNext(D, s, p, Nil, a)
  <2>1. Nil \in Int
    BY Constants
  <2> QED BY <2>1, <1>1, <1>a, <1>D, PutNext
<1>5. PutsOut(D, a, t, b)
  <2>1. a \in [D -> ChunkInfo]
    BY <1>4 DEF PutsNext
  <2> QED BY <2>1, <1>b, WithoutIs
<1>6. PutsHead(E, b, p, sum, z)
  <2>1. b \in [E -> ChunkInfo] /\ p \in E
    BY <1>1, <1>5, <1>D, <1>E DEF PutsOut
  <2>2. z = SetHead(b, p, sum)
    BY <1>a, <1>b DEF Untopped
  <2> QED BY <2>1, <2>2, <1>3, SetHeadIs
<1>7. z \in [E -> ChunkInfo] /\ DOMAIN z = E /\ p \in E /\ E = DOMAIN g \ {t}
      /\ z[p].prev_inuse = TRUE
  BY <1>1, <1>6, <1>D, <1>E DEF PutsHead
<1>8. ASSUME NEW x \in E
      PROVE  /\ z[x].size = (IF x = p THEN sum ELSE g[x].size)
             /\ z[x].md_next = (IF x = p THEN Nil ELSE g[x].md_next)
             /\ z[x].md_prev = g[x].md_prev
             /\ x # p => SameTags(z[x], g[x])
  <2>1. x \in D
    BY <1>E
  <2>2. /\ a[x].md_next = (IF x = p THEN Nil ELSE s[x].md_next)
        /\ a[x].size = s[x].size /\ a[x].md_prev = s[x].md_prev /\ SameTags(a[x], s[x])
    BY <2>1, <1>4 DEF PutsNext
  <2>3. b[x] = a[x]
    BY <1>5, <1>E DEF PutsOut
  <2>4. /\ z[x].size = (IF x = p THEN sum ELSE b[x].size)
        /\ z[x].md_next = b[x].md_next /\ z[x].md_prev = b[x].md_prev
        /\ x # p => SameTags(z[x], b[x])
    BY <1>6 DEF PutsHead
  <2> QED BY <2>1, <2>2, <2>3, <2>4, <1>2, <1>D DEF SameTags
<1>9. Geo(z, hs, p)
  <2>1. g[t].md_next = Nil /\ Nil \notin DOMAIN g
    BY <1>1 DEF Linkage
  <2>2. Merged(g, p, t, z)
    BY <2>1, <1>3, <1>7, <1>8 DEF Merged
  <2>3. g[p].size # 0
    BY <1>3
  <2>4. PICK n : n = g[p].md_next
    OBVIOUS
  <2>5. PICK t2 : t2 = IF n = t THEN p ELSE t
    OBVIOUS
  <2>6. n = t /\ t2 = p
    BY <2>4, <2>5
  <2>7. Geo(z, hs, t2)
    <3>1. Merged(g, p, n, z) /\ g[n].size # 0
      BY <2>2, <2>6, <1>1
    <3>2. Geo(g, hs, t) /\ HeapsOK(hs) /\ p \in DOMAIN g /\ p # t
      BY <1>1, <1>3
    <3> QED BY <2>3, <2>4, <2>5, <3>1, <3>2, GeoMerge
  <2> QED BY <2>6, <2>7
<1>10. Tags(z, p, B)
  <2>0. B \subseteq E /\ p \notin B
    BY <1>1, <1>7 DEF Tags, Places
  <2>1. ASSUME NEW x \in DOMAIN z PROVE Right(z, B, x)
    <3>1. CASE x = p
      BY <3>1, <1>1, <1>7, <1>8 DEF Right
    <3>2. CASE x # p
      <4>1. x \in E /\ z[x].md_prev = g[x].md_prev /\ SameTags(z[x], g[x]) /\ Right(g, B, x)
        BY <3>2, <1>1, <1>7, <1>8 DEF Tags
      <4>2. g[x].md_prev \in B => z[g[x].md_prev].size = g[g[x].md_prev].size
        BY <2>0, <1>8
      <4> QED BY <4>1, <4>2 DEF Right, SameTags
    <3> QED BY <3>1, <3>2
  <2>2. ASSUME NEW x \in B PROVE z[x].md_next # p /\ z[x].md_next \notin B
    <3>1. z[x].md_next = g[x].md_next
      BY <2>0, <1>8
    <3> QED BY <3>1, <1>1 DEF Tags
  <2> QED BY <2>0, <2>1, <2>2, <1>7 DEF Tags
<1>11. Places(z, p, B, L)
  <2>1. \A x \in E : g[x].size # 0 => z[x].size # 0
    BY <1>3, <1>8
  <2>2. ASSUME NEW x \in B \cup L PROVE z[x].size # 0 /\ z[z[x].md_next].size # 0
    <3>1. x \in DOMAIN g /\ x # t /\ x # p /\ g[x].size # 0 /\ g[g[x].md_next].size # 0
      BY <1>1 DEF Places, Tags
    <3>2. g[x].md_next \in DOMAIN g /\ g[x].md_next # t
      BY <3>1, <1>1 DEF Linkage
    <3>3. x \in E /\ g[x].md_next \in E
      BY <3>1, <3>2, <1>7
    <3>4. z[x].md_next = g[x].md_next
      BY <3>1, <3>3, <1>8
    <3> QED BY <2>1, <3>1, <3>3, <3>4
  <2>3. ASSUME NEW x \in DOMAIN z, z[x].size = 0 PROVE z[z[x].md_prev].size \in {1, 2}
    <3>1. x \in DOMAIN g /\ x # t /\ x # p /\ g[x].size = 0
      BY <2>3, <1>3, <1>7, <1>8
    <3>2. g[x].md_prev \in DOMAIN g /\ g[g[x].md_prev].size \in {1, 2}
      BY <3>1, <1>1, FenceIs DEF Post, Places
    <3>3. g[x].md_prev # t /\ g[x].md_prev # p
      BY <3>1, <3>2, <1>1 DEF Linkage
    <3>4. x \in E /\ g[x].md_prev \in E
      BY <3>1, <3>2, <3>3, <1>7
    <3>5. z[x].md_prev = g[x].md_prev /\ z[g[x].md_prev].size = g[g[x].md_prev].size
      BY <3>3, <3>4, <1>8
    <3> QED BY <3>2, <3>5
  <2> QED BY <2>2, <2>3, <1>1, <1>7 DEF Places
<1> QED BY <1>9, <1>10, <1>11 DEF Arena

\* It borders a chunk in use, and goes into a bin.
LEMMA JoinNone ==
    ASSUME NEW g, NEW hs, NEW t, NEW B, NEW L, NEW p, NEW size, NEW s,
           Freeing(g, hs, t, B, L, p, size, s), NEW n, n = g[p].md_next, n # t, n \notin B,
           NEW z, z = SetFoot(SetHead([s EXCEPT ![n].prev_inuse = FALSE], p, size), p)
    PROVE  Arena(z, hs, t, B \cup {p}, L)
<1>1. /\ Geo(g, hs, t) /\ Tags(g, t, B) /\ Places(g, t, B, L) /\ Linkage(g, t) /\ Recs(g)
      /\ p \in DOMAIN g /\ p \notin B \cup L /\ p # t /\ g[p].md_prev \notin B \cup {p}
      /\ n \in DOMAIN g /\ n # p /\ g[n].md_prev = p /\ g[n].size # 0
      /\ s \in [DOMAIN g -> ChunkInfo] /\ DOMAIN s = DOMAIN g
      /\ \A x \in B : g[x].md_next # p
  BY FreeingFacts
<1>2. \A x \in DOMAIN g :
                 /\ s[x].md_next = g[x].md_next /\ s[x].md_prev = g[x].md_prev
                 /\ SameTags(s[x], g[x])
                 /\ x # p => s[x].size = g[x].size
  BY FreeingFacts
<1>3. size \in Nat /\ size # 0 /\ g[p].size = size /\ HeapsOK(hs)
  BY DEF Freeing
<1>D. PICK D : D = DOMAIN g
  OBVIOUS
<1>v. PICK v \in BOOLEAN : v = FALSE
  OBVIOUS
<1>a. PICK a : a = [s EXCEPT ![n].prev_inuse = v]
  OBVIOUS
<1>b. PICK b : b = SetHead(a, p, size)
  OBVIOUS
<1>4. PutsInuse(D, s, n, v, a)
  BY <1>1, <1>v, <1>a, <1>D, PutInuse
<1>5. PutsHead(D, a, p, size, b)
  <2>1. a \in [D -> ChunkInfo] /\ p \in D
    BY <1>1, <1>4, <1>D DEF PutsInuse
  <2> QED BY <2>1, <1>3, <1>b, SetHeadIs
<1>6. b[p].md_next = n /\ b[p].size = size
  BY <1>1, <1>2, <1>4, <1>5, <1>D DEF PutsInuse, PutsHead, SameGeo
<1>7. PutsFoot(D, b, p, z)
  <2>1. b \in [D -> ChunkInfo] /\ p \in D /\ b[p].md_next \in D
    BY <1>1, <1>5, <1>6, <1>D DEF PutsHead
  <2>2. z = SetFoot(b, p)
    BY <1>v, <1>a, <1>b
  <2> QED BY <2>1, <2>2, SetFootIs
<1>8. z \in [DOMAIN g -> ChunkInfo] /\ DOMAIN z = DOMAIN g
  BY <1>7, <1>D DEF PutsFoot
<1>9. ASSUME NEW x \in DOMAIN g
      PROVE  /\ SameGeo(z[x], g[x])
             /\ z[x].prev_inuse = (IF x = n THEN FALSE ELSE IF x = p THEN TRUE ELSE g[x].prev_inuse)
             /\ x # n /\ x # p => z[x].prev_size = g[x].prev_size
             /\ x = n => z[x].prev_size = size
  <2>1. /\ a[x].prev_inuse = (IF x = n THEN FALSE ELSE s[x].prev_inuse)
        /\ a[x].prev_size = s[x].prev_size /\ SameGeo(a[x], s[x])
    BY <1>4, <1>v, <1>D DEF PutsInuse
  <2>2. /\ b[x].size = (IF x = p THEN size ELSE a[x].size)
        /\ b[x].md_next = a[x].md_next /\ b[x].md_prev = a[x].md_prev
        /\ x # p => SameTags(b[x], a[x])
        /\ b[p].prev_inuse = TRUE
    BY <1>5, <1>D DEF PutsHead
  <2>3. /\ z[x].prev_size = (IF x = n THEN size ELSE b[x].prev_size)
        /\ z[x].prev_inuse = b[x].prev_inuse /\ SameGeo(z[x], b[x])
    BY <1>6, <1>7, <1>D DEF PutsFoot
  <2>4. SameGeo(z[x], g[x])
    BY <2>1, <2>2, <2>3, <1>2, <1>3 DEF SameGeo
  <2>5. z[x].prev_inuse = (IF x = n THEN FALSE ELSE IF x = p THEN TRUE ELSE g[x].prev_inuse)
    BY <2>1, <2>2, <2>3, <1>1, <1>2 DEF SameTags
  <2> QED BY <2>1, <2>2, <2>3, <2>4, <2>5, <1>2 DEF SameTags
<1>10. Geo(z, hs, t)
  BY <1>1, <1>8, <1>9, GeoSame
<1>11. \A x \in DOMAIN g : z[x].size = g[x].size /\ z[x].md_next = g[x].md_next
                           /\ z[x].md_prev = g[x].md_prev
  BY <1>9 DEF SameGeo
<1>12. Tags(z, t, B \cup {p})
  <2>1. ASSUME NEW x \in DOMAIN z PROVE Right(z, B \cup {p}, x)
    <3>1. CASE x = n
      <4>1. z[n].md_prev = p /\ z[p].size = size
        BY <1>1, <1>3, <1>11
      <4>2. z[n].prev_inuse = FALSE /\ z[n].prev_size = size
        BY <1>1, <1>9
      <4> QED BY <3>1, <4>1, <4>2 DEF Right
    <3>2. CASE x = p
      BY <3>2, <1>1, <1>9, <1>11 DEF Right
    <3>3. CASE x # n /\ x # p
      <4>1. /\ z[x].md_prev = g[x].md_prev /\ Right(g, B, x)
            /\ z[x].prev_inuse = g[x].prev_inuse /\ z[x].prev_size = g[x].prev_size
        BY <3>3, <1>1, <1>8, <1>9, <1>11 DEF Tags
      <4>2. g[x].md_prev # p
        BY <3>3, <1>1, <1>8 DEF Linkage
      <4>3. g[x].md_prev \in B => z[g[x].md_prev].size = g[g[x].md_prev].size
        BY <1>1, <1>11 DEF Tags
      <4> QED BY <4>1, <4>2, <4>3 DEF Right
    <3> QED BY <3>1, <3>2, <3>3
  <2>2. ASSUME NEW x \in B \cup {p} PROVE z[x].md_next # t /\ z[x].md_next \notin B \cup {p}
    <3>1. CASE x = p
      BY <3>1, <1>1, <1>11
    <3>2. CASE x \in B
      <4>1. x \in DOMAIN g /\ g[x].md_next # t /\ g[x].md_next \notin B /\ g[x].md_next # p
        BY <3>2, <1>1 DEF Tags
      <4> QED BY <4>1, <1>11
    <3> QED BY <3>1, <3>2
  <2> QED BY <2>1, <2>2, <1>1, <1>8 DEF Tags
<1>13. Places(z, t, B \cup {p}, L)
  <2>1. ASSUME NEW x \in (B \cup {p}) \cup L PROVE z[x].size # 0 /\ z[z[x].md_next].size # 0
    <3>1. x \in DOMAIN g /\ x # t /\ g[x].size # 0 /\ g[g[x].md_next].size # 0
      BY <1>1, <1>3 DEF Places, Tags
    <3>2. g[x].md_next \in DOMAIN g
      BY <3>1, <1>1 DEF Linkage
    <3> QED BY <3>1, <3>2, <1>11
  <2>2. ASSUME NEW x \in DOMAIN z, z[x].size = 0 PROVE z[z[x].md_prev].size \in {1, 2}
    <3>1. x \in DOMAIN g /\ g[x].size = 0
      BY <2>2, <1>8, <1>11
    <3>2. g[x].md_prev \in DOMAIN g /\ g[g[x].md_prev].size \in {1, 2}
      BY <3>1, <1>1, FenceIs DEF Post, Places
    <3> QED BY <3>1, <3>2, <1>11
  <2> QED BY <2>1, <2>2, <1>1, <1>8 DEF Places
<1> QED BY <1>10, <1>12, <1>13 DEF Arena

\* the free chunk n behind p
Ahead(g, B, p, n) == n = g[p].md_next /\ n \in B

\* the records s when p, of size units, takes over n
JoinedAhead(g, s, n, p, size) ==
    SetFoot(SetHead(Without(LinkChunks(s, p, g[n].md_next), n), p, size + g[n].size), p)

\* It borders a free chunk, and the two go into a bin as one.
LEMMA JoinAhead ==
    ASSUME NEW g, NEW hs, NEW t, NEW B, NEW L, NEW p, NEW size, NEW s,
           Freeing(g, hs, t, B, L, p, size, s), NEW n, Ahead(g, B, p, n),
           NEW z, z = JoinedAhead(g, s, n, p, size)
    PROVE  Arena(z, hs, t, (B \ {n}) \cup {p}, L)
<1>0. n = g[p].md_next /\ n \in B
  BY DEF Ahead
<1>1. /\ Geo(g, hs, t) /\ Tags(g, t, B) /\ Places(g, t, B, L) /\ Linkage(g, t) /\ Recs(g)
      /\ p \in DOMAIN g /\ p \notin B \cup L /\ p # t /\ g[p].md_prev \notin B \cup {p}
      /\ n \in DOMAIN g /\ n # p /\ g[n].md_prev = p /\ g[n].size # 0
      /\ s \in [DOMAIN g -> ChunkInfo] /\ DOMAIN s = DOMAIN g
      /\ \A x \in B : g[x].md_next # p
  BY <1>0, FreeingFacts
<1>2. \A x \in DOMAIN g :
                 /\ s[x].md_next = g[x].md_next /\ s[x].md_prev = g[x].md_prev
                 /\ SameTags(s[x], g[x])
                 /\ x # p => s[x].size = g[x].size
  BY <1>0, FreeingFacts
<1>n. PICK nn : nn = g[n].md_next
  OBVIOUS
<1>v. PICK v : v = g[n].size
  OBVIOUS
<1>w. PICK sum : sum = size + v
  OBVIOUS
<1>D. PICK D : D = DOMAIN g
  OBVIOUS
<1>E. PICK E : E = D \ {n}
  OBVIOUS
<1>3. sum \in Nat /\ sum # 0 /\ g[p].size = size /\ size # 0 /\ HeapsOK(hs)
  <2>1. g[n].size \in Nat
    BY <1>1, <1>D, FieldTypes DEF Recs
  <2>2. size \in Nat /\ size # 0 /\ g[p].size = size /\ HeapsOK(hs)
    BY DEF Freeing
  <2> QED BY <2>1, <2>2, <1>v, <1>w
<1>4. n # t /\ nn # t /\ nn \notin B /\ nn \in DOMAIN g /\ nn # n /\ nn # p /\ g[nn].size # 0
      /\ g[nn].md_prev = n /\ n \notin L
  <2>1. n # t /\ nn # t /\ nn \notin B /\ n \notin L /\ g[nn].size # 0
    BY <1>0, <1>1, <1>n DEF Tags, Places
  <2>2. nn \in DOMAIN g /\ nn # n /\ nn # p /\ g[nn].md_prev = n
    BY <2>1, <1>0, <1>1, <1>n DEF Linkage
  <2> QED BY <2>1, <2>2
<1>a. PICK a : a = Without(LinkChunks(s, p, nn), n)
  OBVIOUS
<1>b. PICK b : b = SetHead(a, p, sum)
  OBVIOUS
<1>z. z = SetFoot(b, p)
  BY <1>a, <1>b, <1>n, <1>v, <1>w DEF JoinedAhead
<1>5. Absorbed(s, p, n, a)
  <2>1. Recs(s) /\ nn = s[n].md_next
    BY <1>1, <1>2, <1>n DEF Recs
  <2> QED BY <2>1, <1>1, <1>4, <1>a, AbsorbIs
<1>6. /\ DOMAIN a = E /\ a \in [E -> ChunkInfo] /\ p \in E /\ E = DOMAIN g \ {n}
      /\ \A x \in E :
          /\ a[x].size = s[x].size
          /\ a[x].md_next = (IF x = p THEN nn ELSE g[x].md_next)
          /\ a[x].md_prev = (IF x = nn THEN p ELSE g[x].md_prev)
          /\ SameTags(a[x], g[x])
  BY <1>0, <1>1, <1>n, <1>2, <1>5, <1>D, <1>E DEF Absorbed, SameTags
<1>7. PutsHead(E, a, p, sum, b)
  BY <1>3, <1>6, <1>b, SetHeadIs
<1>8. b[p].md_next = nn /\ b[p].size = sum /\ nn \in E
  BY <1>4, <1>6, <1>7 DEF PutsHead
<1>9. PutsFoot(E, b, p, z)
  <2>1. b \in [E -> ChunkInfo]
    BY <1>7 DEF PutsHead
  <2> QED BY <2>1, <1>6, <1>8, <1>z, SetFootIs
<1>10. z \in [E -> ChunkInfo] /\ DOMAIN z = E
  BY <1>9 DEF PutsFoot
<1>11. ASSUME NEW x \in E
       PROVE  /\ z[x].size = (IF x = p THEN sum ELSE g[x].size)
              /\ z[x].md_next = (IF x = p THEN nn ELSE g[x].md_next)
              /\ z[x].md_prev = (IF x = nn THEN p ELSE g[x].md_prev)
              /\ z[x].prev_inuse = (IF x = p THEN TRUE ELSE g[x].prev_inuse)
              /\ x # nn /\ x # p => z[x].prev_size = g[x].prev_size
              /\ x = nn => z[x].prev_size = sum
  <2>1. /\ b[x].size = (IF x = p THEN sum ELSE a[x].size)
        /\ b[x].md_next = a[x].md_next /\ b[x].md_prev = a[x].md_prev
        /\ x # p => SameTags(b[x], a[x])
        /\ b[p].prev_inuse = TRUE
    BY <1>7 DEF PutsHead
  <2>2. /\ z[x].prev_size = (IF x = nn THEN sum ELSE b[x].prev_size)
        /\ z[x].prev_inuse = b[x].prev_inuse /\ SameGeo(z[x], b[x])
    BY <1>8, <1>9 DEF PutsFoot
  <2>3. x \in DOMAIN g
    BY <1>6
  <2>4. /\ z[x].size = (IF x = p THEN sum ELSE g[x].size)
        /\ z[x].md_next = (IF x = p THEN nn ELSE g[x].md_next)
        /\ z[x].md_prev = (IF x = nn THEN p ELSE g[x].md_prev)
    BY <2>1, <2>2, <2>3, <1>2, <1>6 DEF SameGeo
  <2>5. z[x].prev_inuse = (IF x = p THEN TRUE ELSE g[x].prev_inuse)
    BY <2>1, <2>2, <1>6 DEF SameTags
  <2>6. /\ x # nn /\ x # p => z[x].prev_size = g[x].prev_size
        /\ x = nn => z[x].prev_size = sum
    BY <2>1, <2>2, <1>6 DEF SameTags
  <2> QED BY <2>4, <2>5, <2>6
<1>12. Geo(z, hs, t)
  <2>1. Merged(g, p, n, z)
    <3>1. z[p].size = g[p].size + g[n].size
      <4>1. z[p].size = sum
        BY <1>6, <1>11
      <4> QED BY <4>1, <1>3, <1>v, <1>w
    <3>2. DOMAIN z = DOMAIN g \ {n} /\ z \in [DOMAIN z -> ChunkInfo]
      BY <1>6, <1>10
    <3>3. ASSUME NEW x \in DOMAIN g \ {n}
          PROVE  /\ x # p => z[x].size = g[x].size
                 /\ z[x].md_next = (IF x = p THEN g[n].md_next ELSE g[x].md_next)
                 /\ z[x].md_prev = (IF x = g[n].md_next THEN p ELSE g[x].md_prev)
      BY <1>6, <1>11, <1>n
    <3> QED BY <3>1, <3>2, <3>3 DEF Merged
  <2>2. g[p].size # 0
    BY <1>3
  <2>3. PICK t2 : t2 = IF n = t THEN p ELSE t
    OBVIOUS
  <2>4. t2 = t
    BY <2>3, <1>4
  <2>5. Geo(z, hs, t2)
    <3>1. Geo(g, hs, t) /\ HeapsOK(hs) /\ p \in DOMAIN g /\ p # t /\ g[n].size # 0
      BY <1>1, <1>3
    <3> QED BY <2>1, <2>2, <2>3, <3>1, <1>0, GeoMerge
  <2> QED BY <2>4, <2>5
<1>C. PICK C : C = (B \ {n}) \cup {p}
  OBVIOUS
<1>13. C \subseteq E /\ p \in C /\ n \notin C /\ nn \notin C /\ t \notin C
       /\ (\A x \in C : x # p => x \in B)
  BY <1>0, <1>1, <1>4, <1>6, <1>C DEF Tags, Places
<1>14. Tags(z, t, C)
  <2>1. ASSUME NEW x \in DOMAIN z PROVE Right(z, C, x)
    <3>0. x \in E /\ x \in DOMAIN g /\ x # n
      BY <1>6, <1>10
    <3>1. CASE x = nn
      <4>1. g[nn].prev_inuse = FALSE
        <5>1. Right(g, B, nn) /\ g[nn].prev_inuse \in BOOLEAN
          BY <1>1, <1>4, <1>D, FieldTypes DEF Tags, Recs
        <5> QED BY <5>1, <1>0, <1>4 DEF Right
      <4>2. z[nn].md_prev = p /\ z[nn].prev_inuse = FALSE /\ z[nn].prev_size = z[p].size
        <5>1. nn \in E /\ p \in E /\ nn # p
          BY <1>4, <1>6
        <5>2. z[p].size = sum
          BY <5>1, <1>11
        <5>3. z[nn].md_prev = p /\ z[nn].prev_inuse = g[nn].prev_inuse /\ z[nn].prev_size = sum
          BY <5>1, <1>11
        <5> QED BY <4>1, <5>2, <5>3
      <4> QED BY <3>1, <4>2, <1>13 DEF Right
    <3>2. CASE x = p
      <4>1. z[p].md_prev = g[p].md_prev /\ z[p].prev_inuse = TRUE
        BY <3>0, <3>2, <1>4, <1>11
      <4>2. g[p].md_prev \notin C
        BY <1>1, <1>C
      <4> QED BY <3>2, <4>1, <4>2 DEF Right
    <3>3. CASE x # nn /\ x # p
      <4>1. /\ z[x].md_prev = g[x].md_prev /\ Right(g, B, x)
            /\ z[x].prev_inuse = g[x].prev_inuse /\ z[x].prev_size = g[x].prev_size
        BY <3>0, <3>3, <1>1, <1>11 DEF Tags
      <4>2. g[x].md_prev # p /\ g[x].md_prev # n
        BY <3>0, <3>3, <1>0, <1>n, <1>1 DEF Linkage
      <4>3. g[x].md_prev \in C <=> g[x].md_prev \in B
        BY <4>2, <1>C
      <4>4. g[x].md_prev \in B => z[g[x].md_prev].size = g[g[x].md_prev].size
        BY <4>2, <1>1, <1>6, <1>11 DEF Tags
      <4> QED BY <4>1, <4>3, <4>4 DEF Right
    <3> QED BY <3>1, <3>2, <3>3
  <2>2. ASSUME NEW x \in C PROVE z[x].md_next # t /\ z[x].md_next \notin C
    <3>1. CASE x = p
      BY <3>1, <1>4, <1>6, <1>11, <1>13
    <3>2. CASE x # p
      <4>1. x \in B /\ x \in E /\ z[x].md_next = g[x].md_next
        BY <3>2, <1>11, <1>13
      <4> QED BY <4>1, <1>1, <1>C DEF Tags
    <3> QED BY <3>1, <3>2
  <2> QED BY <2>1, <2>2, <1>10, <1>13 DEF Tags
<1>15. Places(z, t, C, L)
  <2>1. \A x \in E : g[x].size # 0 => z[x].size # 0
    BY <1>3, <1>11
  <2>2. ASSUME NEW x \in C \cup L PROVE z[x].size # 0 /\ z[z[x].md_next].size # 0
    <3>1. CASE x = p
      <4>1. z[p].md_next = nn /\ z[p].size # 0
        BY <1>3, <1>6, <1>11
      <4>2. z[nn].size # 0
        BY <2>1, <1>4, <1>8
      <4> QED BY <3>1, <4>1, <4>2
    <3>2. CASE x # p
      <4>1. x \in E /\ x \in DOMAIN g /\ x \in B \cup L
        BY <3>2, <1>1, <1>4, <1>6, <1>13 DEF Places
      <4>2. x # t /\ g[x].size # 0 /\ g[g[x].md_next].size # 0
        BY <4>1, <1>1 DEF Places
      <4>3. g[x].md_next \in DOMAIN g /\ g[x].md_next # n
        BY <3>2, <4>1, <4>2, <1>1 DEF Linkage
      <4>4. g[x].md_next \in E
        BY <4>3, <1>6
      <4>5. z[x].md_next = g[x].md_next
        BY <3>2, <4>1, <1>11
      <4> QED BY <2>1, <4>1, <4>2, <4>4, <4>5
    <3> QED BY <3>1, <3>2
  <2>3. ASSUME NEW x \in DOMAIN z, z[x].size = 0 PROVE z[z[x].md_prev].size \in {1, 2}
    <3>1. x \in DOMAIN g /\ x \in E /\ x # p /\ x # nn /\ g[x].size = 0
      BY <2>1, <2>3, <1>3, <1>4, <1>6, <1>10, <1>11
    <3>2. g[x].md_prev \in DOMAIN g /\ g[g[x].md_prev].size \in {1, 2}
      BY <3>1, <1>1, FenceIs DEF Post, Places
    <3>3. g[x].md_prev # p /\ g[x].md_prev # n
      BY <3>1, <3>2, <1>0, <1>n, <1>1, <1>6 DEF Linkage
    <3>4. g[x].md_prev \in E
      BY <3>2, <3>3, <1>6
    <3>5. z[x].md_prev = g[x].md_prev
      BY <3>1, <1>11
    <3>6. z[g[x].md_prev].size = g[g[x].md_prev].size
      BY <3>3, <3>4, <1>11
    <3> QED BY <3>2, <3>5, <3>6
  <2>4. C \cap L = {} /\ t \notin C \cup L /\ L \subseteq DOMAIN z
    BY <1>1, <1>4, <1>6, <1>10, <1>13, <1>C DEF Places
  <2> QED BY <2>2, <2>3, <2>4 DEF Places
<1> QED BY <1>12, <1>14, <1>15, <1>C DEF Arena

\* _int_free as a whole
LEMMA FreedArena ==
    ASSUME NEW m, NEW hs, NEW t, NEW B, NEW L, HeapsOK(hs), Arena(m, hs, t, B, L),
           NEW p \in DOMAIN m, p \notin B \cup L, p # t, m[p].size # 0, m[m[p].md_next].size # 0,
           NEW F, F = Freed(m, B, t, p)
    PROVE  /\ Arena(F.md, hs, F.top, F.binned, L) /\ HeapForPtr(F.top) = HeapForPtr(t)
           /\ m[p].md_next # t => F.top = t
<1>n. PICK n : n = m[p].md_next
  OBVIOUS
<1>f. PICK f : f = MergeBack(m, B, p)
  OBVIOUS
<1>0. PICK g : BackMerged(m, hs, t, L, p, f, g)
  BY <1>f, MergeBackArena
<1>s. PICK s, b, q, size : s = f.md /\ b = f.binned /\ q = f.p /\ size = f.size
  OBVIOUS
<1>1. /\ Arena(g, hs, t, b, L) /\ q \in DOMAIN g /\ q \notin b \cup L /\ q # t
      /\ size \in Nat /\ size # 0 /\ g[q].size = size /\ g[q].md_prev \notin b /\ g[q].md_next = n
      /\ Loose(s, g, q) /\ g[n].size = m[n].size
      /\ n # t => g[n].md_next = m[n].md_next
                  /\ g[m[n].md_next].prev_inuse = m[m[n].md_next].prev_inuse
  BY <1>0, <1>s, <1>n DEF BackMerged
<1>2. Freeing(g, hs, t, b, L, q, size, s)
  BY <1>1, <1>n DEF Freeing
<1>3. Geo(g, hs, t) /\ Tags(g, t, b) /\ Linkage(g, t) /\ n \in DOMAIN g
  BY <1>1, <1>2, FreeingFacts
<1>4. CASE n = t
  <2>v. PICK v : v = g[t].size
    OBVIOUS
  <2>2. g[q].md_next = t /\ m[t].size = v
    BY <2>v, <1>1, <1>4
  <2>w. PICK sum : sum = size + v
    OBVIOUS
  <2>1. F.md = SetHead(Untopped(s, q, t), q, sum) /\ F.binned = b /\ F.top = q
    BY <2>2, <2>w, <1>4, <1>n, <1>f, <1>s DEF Freed, Untopped
  <2>3. Arena(F.md, hs, q, b, L)
    BY <2>1, <2>2, <2>v, <2>w, <1>2, JoinTop
  <2>4. HeapForPtr(t) = HeapForPtr(q)
    BY <2>2, <1>1, <1>3, Adjacent
  <2> QED BY <2>1, <2>3, <2>4, <1>4, <1>n
<1>5. CASE n # t
  <2>k. PICK nn, v : nn = m[n].md_next /\ v = m[n].size
    OBVIOUS
  <2>1. nn = g[n].md_next /\ v = g[n].size /\ g[nn].prev_inuse = m[nn].prev_inuse
    BY <2>k, <1>1, <1>5
  <2>2. nn \in DOMAIN g /\ g[nn].md_prev = n /\ Right(g, b, nn)
    BY <2>1, <1>3, <1>5 DEF Linkage, Tags
  <2>3. IsInuse(m, n) <=> n \notin b
    BY <2>1, <2>2, <2>k DEF IsInuse, Right
  <2>4. CASE n \notin b
    <3>1. /\ F.md = SetFoot(SetHead([s EXCEPT ![n].prev_inuse = FALSE], q, size), q)
          /\ F.binned = b \cup {q} /\ F.top = t
      BY <2>3, <2>4, <1>5, <1>n, <1>f, <1>s DEF Freed
    <3>2. Arena(F.md, hs, t, b \cup {q}, L)
      BY <3>1, <2>4, <1>1, <1>2, <1>5, JoinNone
    <3> QED BY <3>1, <3>2
  <2>5. CASE n \in b
    <3>0. /\ F.md = SetFoot(SetHead(Without(LinkChunks(s, q, nn), n), q, size + v), q)
          /\ F.binned = (b \ {n}) \cup {q} /\ F.top = t
      BY <2>3, <2>5, <2>k, <1>5, <1>n, <1>f, <1>s DEF Freed
    <3>1. F.md = JoinedAhead(g, s, n, q, size) /\ F.binned = (b \ {n}) \cup {q} /\ F.top = t
      BY <3>0, <2>1 DEF JoinedAhead
    <3>2. Ahead(g, b, q, n)
      BY <2>5, <1>1 DEF Ahead
    <3>3. Arena(F.md, hs, t, (b \ {n}) \cup {q}, L)
      BY <3>1, <3>2, <1>2, JoinAhead
    <3> QED BY <3>1, <3>3
  <2> QED BY <2>4, <2>5
<1> QED BY <1>4, <1>5

\* the list of chunks without the top chunk t and the fencepost f, of which b was before
Unlisted(m, b, f, t, n) ==
    [Without(Without(LinkChunks(m, b, t), f), t) EXCEPT ![b].md_next = n]

\* the chunk F.p, with a unit more, is the top
Retopped(F) == SetHead(F.md, F.p, F.size + 1)

\* the fencepost f of the heap k before h, and the chunk b before it
Posted(m, hs, h, k, f, b) == k = hs[h].prev /\ f = EndOf(hs, k) - 1 /\ b = m[f].md_prev

\* heap_trim deletes the newest heap: the chunk b before the fenceposts takes over what the
\* last of them had, then merges with the chunk before it.
LEMMA DeletedArena ==
    ASSUME NEW m, NEW hs, NEW t, NEW B, NEW L, HeapsOK(hs), Arena(m, hs, t, B, L),
           NEW h, NEW hs2, DroppedHeap(hs, t, h, hs2),
           NEW k, NEW f, NEW b, Posted(m, hs, h, k, f, b),
           NEW s, s = Unlisted(m, b, f, t, m[t].md_next),
           NEW F, F = MergeBack(s, B, b), NEW z, z = Retopped(F)
    PROVE  Arena(z, hs2, F.p, F.binned, L) /\ HeapForPtr(F.p) = k
<1>1. Geo(m, hs, t) /\ Tags(m, t, B) /\ Places(m, t, B, L)
  BY DEF Arena
<1>2. Linkage(m, t) /\ Recs(m)
  BY <1>1, LinkageIs DEF Geo
<1>3. /\ h \in DOMAIN hs /\ h # FirstHeap /\ h = HeapForPtr(t) /\ t = Start(h) /\ HeapsOK(hs2)
  BY DEF DroppedHeap
<1>4. /\ k \in DOMAIN hs /\ k # h /\ k # Nil
      /\ f \in DOMAIN m /\ m[f].size = 0 /\ m[f].md_next = t /\ m[t].md_prev = f /\ f # t
      /\ b \in DOMAIN m /\ m[b].size # 0 /\ m[b].md_next = f /\ b # f /\ b # t
      /\ f = b + m[b].size /\ HeapForPtr(b) = k /\ HeapForPtr(f) = k
  BY <1>1, <1>3, PostBefore DEF Posted
<1>n. PICK n : n = m[t].md_next
  OBVIOUS
<1>D. PICK D : D = DOMAIN m
  OBVIOUS
<1>5. /\ m \in [D -> ChunkInfo] /\ D \subseteq Nat \ {Nil} /\ n = Nil /\ b \in D /\ t \in D /\ f \in D
      /\ m[b].size \in Nat /\ m[b].prev_size \in Nat /\ m[b].prev_inuse \in BOOLEAN
  <2>1. /\ m \in [D -> ChunkInfo] /\ D \subseteq Nat \ {Nil} /\ n = Nil /\ b \in D /\ t \in D /\ f \in D
    BY <1>2, <1>4, <1>D, <1>n DEF Recs, Linkage
  <2> QED BY <2>1, FieldTypes
<1>6. b \notin B \cup L /\ f \notin B \cup L /\ t \notin B \cup L /\ B \subseteq D /\ L \subseteq D
  BY <1>1, <1>4, <1>D DEF Places, Tags
<1>a. PICK a : a = LinkChunks(m, b, t)
  OBVIOUS
<1>c. PICK c : c = Without(a, f)
  OBVIOUS
<1>d. PICK d : d = Without(c, t)
  OBVIOUS
<1>7. PutsLink(D, m, b, t, a)
  BY <1>5, <1>a, LinkIs
<1>C. PICK C : C = D \ {f}
  OBVIOUS
<1>8. PutsOut(D, a, f, c)
  <2>1. a \in [D -> ChunkInfo]
    BY <1>7 DEF PutsLink
  <2> QED BY <2>1, <1>c, WithoutIs
<1>9. PutsOut(C, c, t, d)
  <2>1. c \in [C -> ChunkInfo]
    BY <1>8, <1>C DEF PutsOut
  <2> QED BY <2>1, <1>d, WithoutIs
<1>E. PICK E : E = C \ {t}
  OBVIOUS
<1>10. b \in E /\ E = D \ {f, t} /\ E \subseteq Nat \ {Nil} /\ E = DOMAIN m \ {f, t}
  BY <1>4, <1>5, <1>C, <1>E, <1>D
<1>11. PutsNext(E, d, b, n, s)
  <2>1. d \in [E -> ChunkInfo] /\ n \in Int
    BY <1>5, <1>9, <1>E, Constants DEF PutsOut
  <2>2. s = [d EXCEPT ![b].md_next = n]
    BY <1>a, <1>c, <1>d, <1>n DEF Unlisted
  <2> QED BY <2>1, <2>2, <1>10, PutNext
<1>12. s \in [E -> ChunkInfo] /\ DOMAIN s = E
  BY <1>11 DEF PutsNext
<1>13. ASSUME NEW x \in E
       PROVE  /\ s[x].size = m[x].size /\ s[x].md_prev = m[x].md_prev
              /\ s[x].md_next = (IF x = b THEN Nil ELSE m[x].md_next)
              /\ SameTags(s[x], m[x])
  <2>1. x \in C /\ x \in D /\ x # t /\ x # f
    BY <1>10, <1>C, <1>E
  <2>2. /\ a[x].md_next = (IF x = b THEN t ELSE m[x].md_next)
        /\ a[x].md_prev = m[x].md_prev
        /\ a[x].size = m[x].size /\ SameTags(a[x], m[x])
    BY <2>1, <1>7 DEF PutsLink
  <2>3. c[x] = a[x] /\ d[x] = c[x]
    BY <2>1, <1>8, <1>9, <1>C DEF PutsOut
  <2>4. /\ s[x].md_next = (IF x = b THEN n ELSE d[x].md_next)
        /\ s[x].size = d[x].size /\ s[x].md_prev = d[x].md_prev
        /\ SameTags(s[x], d[x])
    BY <1>11 DEF PutsNext
  <2> QED BY <2>2, <2>3, <2>4, <1>5 DEF SameTags
<1>z. PICK sz : sz = m[b].size + 1
  OBVIOUS
<1>y. sz \in Nat /\ sz # 0
  BY <1>5, <1>z
<1>w. PICK w : w = [s EXCEPT ![b].size = sz]
  OBVIOUS
<1>14. PutsSize(E, s, b, sz, w)
  BY <1>y, <1>10, <1>12, <1>w, PutSize
<1>15. w \in [E -> ChunkInfo] /\ DOMAIN w = E
  BY <1>14 DEF PutsSize
<1>16. ASSUME NEW x \in E
       PROVE  /\ w[x].size = (IF x = b THEN sz ELSE m[x].size)
              /\ w[x].md_prev = m[x].md_prev
              /\ w[x].md_next = (IF x = b THEN Nil ELSE m[x].md_next)
              /\ SameTags(w[x], m[x])
  BY <1>13, <1>14 DEF PutsSize, SameTags
<1>17. Geo(w, hs2, b)
  <2>1. Dropped(m, t, f, b, w)
    <3>1. ASSUME NEW x \in DOMAIN m \ {f, t, b} PROVE SameGeo(w[x], m[x])
      BY <1>10, <1>16 DEF SameGeo
    <3>2. w[b].size = sz /\ w[b].md_next = Nil /\ w[b].md_prev = m[b].md_prev
      BY <1>10, <1>16
    <3> QED BY <3>1, <3>2, <1>10, <1>15, <1>z DEF Dropped
  <2> QED BY <2>1, <1>1, GeoDrop DEF Posted
<1>18. \A x \in DOMAIN m : x \in E <=> x # f /\ x # t
  BY <1>10
\* what E has of the lists of m
<1>19. ASSUME NEW x \in E, x # b
       PROVE  m[x].md_next \in E
  <2>1. x \in DOMAIN m /\ x # t /\ m[x].md_next \in DOMAIN m /\ m[m[x].md_next].md_prev = x
    BY <1>2, <1>10 DEF Linkage
  <2>2. m[x].md_next # f /\ m[x].md_next # t
    <3>1. m[f].md_prev = b
      BY DEF Posted
    <3> QED BY <2>1, <3>1, <1>4, <1>10, <1>19
  <2> QED BY <2>1, <2>2, <1>10
<1>20. ASSUME NEW x \in E, m[x].size = 0
       PROVE  m[x].md_prev \in E /\ m[x].md_prev # b /\ m[m[x].md_prev].size \in {1, 2}
              /\ m[m[x].md_prev].md_next = x
  <2>1. x \in DOMAIN m /\ x # f
    BY <1>10
  <2>2. m[x].md_prev \in DOMAIN m /\ m[m[x].md_prev].size \in {1, 2}
    BY <2>1, <1>1, <1>20, FenceIs DEF Post, Places
  <2>3. m[m[x].md_prev].md_next = x
    BY <2>1, <2>2, <1>2 DEF Linkage
  <2>4. m[x].md_prev # t /\ m[x].md_prev # b /\ m[x].md_prev # f
    BY <2>1, <2>2, <2>3, <1>2, <1>4, <1>10 DEF Linkage
  <2> QED BY <2>2, <2>3, <2>4, <1>10
<1>21. Right(m, B, b) /\ s[b].prev_inuse = m[b].prev_inuse /\ s[b].prev_size = m[b].prev_size
       /\ s[b].size = m[b].size /\ s[b].md_prev = m[b].md_prev /\ s[b].md_next = Nil
  BY <1>1, <1>4, <1>10, <1>13 DEF Tags, SameTags
<1>22. CASE m[b].prev_inuse
  <2>1. F.md = s /\ F.p = b /\ F.binned = B /\ F.size = m[b].size
    BY <1>21, <1>22 DEF MergeBack
  <2>2. m[b].md_prev \notin B
    BY <1>21, <1>22 DEF Right
  <2>3. PutsHead(E, s, b, sz, z)
    <3>1. sz \in Nat /\ z = SetHead(s, b, sz)
      BY <2>1, <1>y, <1>z DEF Retopped
    <3> QED BY <3>1, <1>10, <1>12, SetHeadIs
  <2>4. z \in [E -> ChunkInfo] /\ DOMAIN z = E /\ z[b].prev_inuse = TRUE
    BY <2>3 DEF PutsHead
  <2>5. ASSUME NEW x \in E
        PROVE  SameGeo(z[x], w[x]) /\ (x # b => SameTags(z[x], m[x]))
    BY <2>3, <1>13, <1>16 DEF PutsHead, SameGeo, SameTags
  <2>6. Geo(z, hs2, b)
    BY <2>4, <2>5, <1>15, <1>17, GeoSame
  <2>7. ASSUME NEW x \in E
        PROVE  /\ z[x].size = (IF x = b THEN sz ELSE m[x].size)
               /\ z[x].md_prev = m[x].md_prev
               /\ z[x].md_next = (IF x = b THEN Nil ELSE m[x].md_next)
    BY <2>5, <1>16 DEF SameGeo
  <2>8. Tags(z, b, B)
    <3>1. ASSUME NEW x \in E PROVE Right(z, B, x)
      <4>1. CASE x = b
        BY <4>1, <2>2, <2>4, <2>7 DEF Right
      <4>2. CASE x # b
        <5>1. z[x].md_prev = m[x].md_prev /\ SameTags(z[x], m[x]) /\ Right(m, B, x)
          BY <4>2, <2>5, <2>7, <1>1, <1>10 DEF Tags
        <5>2. m[x].md_prev \in B => z[m[x].md_prev].size = m[m[x].md_prev].size
          BY <2>7, <1>6, <1>10
        <5> QED BY <5>1, <5>2 DEF Right, SameTags
      <4> QED BY <4>1, <4>2
    <3>2. ASSUME NEW x \in B PROVE z[x].md_next # b /\ z[x].md_next \notin B
      <4>1. x \in E /\ x # b /\ x \in DOMAIN m
        BY <1>6, <1>10
      <4>2. m[x].md_next # b
        BY <2>2, <4>1, <1>2, <1>4 DEF Linkage
      <4> QED BY <4>1, <4>2, <2>7, <1>1 DEF Tags
    <3> QED BY <3>1, <3>2, <2>4, <1>6, <1>10 DEF Tags
  <2>9. Places(z, b, B, L)
    <3>1. \A x \in E : m[x].size # 0 => z[x].size # 0
      BY <1>y, <2>7
    <3>2. ASSUME NEW x \in B \cup L PROVE z[x].size # 0 /\ z[z[x].md_next].size # 0
      <4>1. x \in E /\ x # b /\ m[x].size # 0 /\ m[m[x].md_next].size # 0
        BY <1>1, <1>6, <1>10 DEF Places
      <4> QED BY <3>1, <4>1, <2>7, <1>19
    <3>3. ASSUME NEW x \in E, z[x].size = 0 PROVE z[z[x].md_prev].size \in {1, 2}
      <4>1. m[x].size = 0
        BY <3>1, <3>3
      <4> QED BY <4>1, <2>7, <1>20
    <3> QED BY <3>2, <3>3, <2>4, <1>1, <1>6, <1>10 DEF Places
  <2> QED BY <2>1, <2>6, <2>8, <2>9, <1>4 DEF Arena
<1>23. CASE ~m[b].prev_inuse
  <2>q. PICK q : q = m[b].md_prev
    OBVIOUS
  <2>1. q \in B /\ m[b].prev_size = m[q].size
    BY <2>q, <1>21, <1>23 DEF Right
  <2>2. /\ q \in E /\ q # b /\ q # t /\ q \in DOMAIN m /\ m[q].size # 0 /\ q \notin L
        /\ m[q].md_next = b /\ m[q].md_prev \notin B /\ m[q].size \in Nat
    <3>1. q \in E /\ q # b /\ q # t /\ q \in DOMAIN m /\ m[q].size # 0 /\ q \notin L
      BY <2>1, <1>1, <1>6, <1>10 DEF Places
    <3>2. m[q].md_next = b
      BY <2>q, <3>1, <1>2, <1>4 DEF Linkage
    <3>3. m[q].md_prev \notin B
      BY <3>1, <2>1, <1>1, <1>2 DEF Tags, Linkage
    <3>4. m[q].size \in Nat
      BY <3>1, <1>1, ChunkFacts
    <3> QED BY <3>1, <3>2, <3>3, <3>4
  <2>e. PICK e : e = Without(LinkChunks(s, q, Nil), b)
    OBVIOUS
  <2>v. PICK v : v = m[b].size + m[q].size + 1
    OBVIOUS
  <2>3. F.md = e /\ F.p = q /\ F.binned = B \ {q} /\ F.size + 1 = v
    <3>1. F.md = e /\ F.p = q /\ F.binned = B \ {q} /\ F.size = m[b].size + m[q].size
      BY <2>q, <2>e, <2>1, <1>21, <1>23 DEF MergeBack
    <3> QED BY <3>1, <2>v
  <2>4. v \in Nat /\ v # 0 /\ v = m[q].size + sz
    BY <2>2, <2>v, <1>5, <1>z
  <2>5. Absorbed(s, q, b, e)
    <3>1. Recs(s) /\ s[b].md_next = Nil /\ Nil # b
      BY <1>10, <1>12, <1>21 DEF Recs
    <3> QED BY <3>1, <2>2, <2>e, <1>10, <1>12, AbsorbIs
  <2>G. PICK G : G = E \ {b}
    OBVIOUS
  <2>6. PutsHead(G, e, q, v, z)
    <3>1. e \in [G -> ChunkInfo] /\ q \in G
      BY <2>2, <2>5, <2>G, <1>12 DEF Absorbed
    <3>2. z = SetHead(e, q, v)
      BY <2>3 DEF Retopped
    <3> QED BY <3>1, <3>2, <2>4, SetHeadIs
  <2>7. z \in [G -> ChunkInfo] /\ DOMAIN z = G /\ z[q].prev_inuse = TRUE /\ q \in G
    BY <2>2, <2>6, <2>G DEF PutsHead
  <2>8. ASSUME NEW x \in G
        PROVE  /\ z[x].size = (IF x = q THEN v ELSE m[x].size)
               /\ z[x].md_prev = m[x].md_prev
               /\ z[x].md_next = (IF x = q THEN Nil ELSE m[x].md_next)
               /\ x # q => SameTags(z[x], m[x])
    <3>1. x \in E /\ x # b /\ x # Nil
      BY <2>G, <1>10
    <3>2. /\ e[x].size = s[x].size /\ e[x].md_next = (IF x = q THEN Nil ELSE s[x].md_next)
          /\ e[x].md_prev = s[x].md_prev /\ SameTags(e[x], s[x])
      BY <3>1, <2>5, <1>12, <1>21 DEF Absorbed
    <3>3. /\ z[x].size = (IF x = q THEN v ELSE e[x].size)
          /\ z[x].md_next = e[x].md_next /\ z[x].md_prev = e[x].md_prev
          /\ x # q => SameTags(z[x], e[x])
      BY <2>6 DEF PutsHead
    <3> QED BY <3>1, <3>2, <3>3, <1>13 DEF SameTags
  <2>9. Geo(z, hs2, q) /\ HeapForPtr(q) = k
    <3>1. w[q].md_next = b /\ w[q].size = m[q].size /\ w[b].size = sz /\ w[b].md_next = Nil
      BY <2>2, <1>10, <1>16
    <3>2. w[b].size # 0 /\ w[q].size # 0 /\ b \in DOMAIN w /\ q \in DOMAIN w
      BY <2>2, <3>1, <1>y, <1>10, <1>15
    <3>3. Merged(w, q, b, z)
      <4>1. z[q].size = w[q].size + w[b].size
        BY <2>4, <2>7, <2>8, <3>1
      <4>2. DOMAIN z = DOMAIN w \ {b} /\ z \in [DOMAIN z -> ChunkInfo]
        BY <2>7, <2>G, <1>15
      <4>3. ASSUME NEW x \in DOMAIN w \ {b}
            PROVE  /\ x # q => z[x].size = w[x].size
                   /\ z[x].md_next = (IF x = q THEN w[b].md_next ELSE w[x].md_next)
                   /\ z[x].md_prev = (IF x = w[b].md_next THEN q ELSE w[x].md_prev)
        BY <2>8, <2>G, <3>1, <1>10, <1>15, <1>16
      <4> QED BY <4>1, <4>2, <4>3 DEF Merged
    <3>4. PICK t2 : t2 = IF b = b THEN q ELSE b
      OBVIOUS
    <3>5. Geo(z, hs2, t2)
      <4>1. q # b /\ b = w[q].md_next /\ HeapsOK(hs2)
        BY <2>2, <3>1, <1>3
      <4> QED BY <3>2, <3>3, <3>4, <4>1, <1>17, GeoMerge
    <3>6. HeapForPtr(b) = HeapForPtr(q)
      BY <2>2, <1>1, Adjacent
    <3> QED BY <3>4, <3>5, <3>6, <1>4
  <2>10. Tags(z, q, B \ {q})
    <3>1. ASSUME NEW x \in G PROVE Right(z, B \ {q}, x)
      <4>1. CASE x = q
        BY <4>1, <2>2, <2>7, <2>8 DEF Right
      <4>2. CASE x # q
        <5>1. x \in E /\ x # b /\ x \in DOMAIN m
          BY <2>G, <1>10
        <5>2. z[x].md_prev = m[x].md_prev /\ SameTags(z[x], m[x]) /\ Right(m, B, x)
          BY <4>2, <5>1, <2>8, <1>1 DEF Tags
        <5>3. m[x].md_prev # q
          BY <5>1, <2>2, <1>2 DEF Linkage
        <5>4. m[x].md_prev \in B => z[m[x].md_prev].size = m[m[x].md_prev].size
          BY <5>3, <2>8, <2>G, <1>6, <1>10
        <5> QED BY <5>2, <5>3, <5>4 DEF Right, SameTags
      <4> QED BY <4>1, <4>2
    <3>2. ASSUME NEW x \in B \ {q} PROVE z[x].md_next # q /\ z[x].md_next \notin B \ {q}
      <4>1. x \in G /\ x # q /\ x \in DOMAIN m
        BY <2>G, <1>6, <1>10
      <4>2. m[x].md_next # q
        BY <2>2, <4>1, <1>2 DEF Linkage
      <4> QED BY <4>1, <4>2, <2>8, <1>1 DEF Tags
    <3> QED BY <3>1, <3>2, <2>7, <2>G, <1>6, <1>10 DEF Tags
  <2>11. Places(z, q, B \ {q}, L)
    <3>1. \A x \in G : m[x].size # 0 => z[x].size # 0
      BY <2>4, <2>8
    <3>2. ASSUME NEW x \in (B \ {q}) \cup L PROVE z[x].size # 0 /\ z[z[x].md_next].size # 0
      <4>1. x \in E /\ x # b /\ x \in G /\ x # q /\ x \in DOMAIN m /\ x # t
            /\ m[x].size # 0 /\ m[m[x].md_next].size # 0
        BY <2>2, <2>G, <1>1, <1>6, <1>10 DEF Places
      <4>2. m[x].md_next \in E /\ m[x].md_next # b
        BY <4>1, <2>q, <1>2, <1>4, <1>19 DEF Linkage
      <4>3. m[x].md_next \in G
        BY <4>2, <2>G
      <4> QED BY <3>1, <4>1, <4>3, <2>8
    <3>3. ASSUME NEW x \in G, z[x].size = 0 PROVE z[z[x].md_prev].size \in {1, 2}
      <4>1. m[x].size = 0 /\ x \in E
        BY <3>1, <3>3, <2>G
      <4>2. m[x].md_prev \in G /\ m[x].md_prev # q
        BY <4>1, <2>2, <2>G, <3>3, <1>20
      <4> QED BY <4>1, <4>2, <2>8, <1>20
    <3> QED BY <3>2, <3>3, <2>2, <2>7, <2>G, <1>1, <1>6, <1>10 DEF Places
  <2> QED BY <2>3, <2>9, <2>10, <2>11 DEF Arena
<1> QED BY <1>22, <1>23

(***************************************************************************)
(* What the heaps come to: the sum that system_mem is                      *)
(***************************************************************************)
First(s) == CHOOSE x \in s : TRUE
SumStep(hs, it, s) == IF s = {} THEN 0 ELSE hs[First(s)].size + it[s \ {First(s)}]
Sums(hs, S, it) == it = [s \in SUBSET S |-> SumStep(hs, it, s)]
SumOf(hs, S) == CHOOSE it : Sums(hs, S, it)
Summed(hs, S) == /\ IsFiniteSet(S)
                 /\ \A h \in S : hs[h].size \in Nat

LEMMA LeastNumber ==
    ASSUME NEW S \in SUBSET Nat, S # {}
    PROVE  \E x \in S : \A y \in S : x <= y
<1> DEFINE R == {ss \in Nat \X Nat : ss[1] < ss[2]}
<1>1. IsWellFoundedOn(R, Nat)
  BY NatLessThanWellFounded DEF OpToRel
<1>2. PICK x \in S : \A y \in S : ~(<<y, x>> \in R)
  <2> HIDE DEF R
  <2> QED BY <1>1, WFMin
<1>3. ASSUME NEW y \in S PROVE x <= y
  <2>1. ~(<<y, x>> \in R)
    BY <1>2
  <2>2. <<y, x>> \in Nat \X Nat
    OBVIOUS
  <2>3. ~(y < x)
    BY <2>1, <2>2
  <2> QED BY <2>3
<1> QED BY <1>3

LEMMA TotalIs ==
    ASSUME NEW hs
    PROVE  Total(hs) = SumOf(hs, DOMAIN hs)[DOMAIN hs]
BY Zenon DEF Total, SumOf, Sums, SumStep, First, MapThenSumSet, MapThenFoldSet

LEMMA FirstIn ==
    ASSUME NEW s, s # {}
    PROVE  First(s) \in s
BY DEF First

\* A smaller set is left when an element goes.
LEMMA Smaller ==
    ASSUME NEW S, IsFiniteSet(S), NEW s \in SUBSET S, NEW x \in s
    PROVE  /\ IsFiniteSet(s) /\ s \ {x} \in SUBSET S
           /\ Cardinality(s) \in Nat /\ Cardinality(s \ {x}) \in Nat
           /\ Cardinality(s \ {x}) = Cardinality(s) - 1
<1>1. IsFiniteSet(s)
  BY FS_Subset
<1>2. IsFiniteSet(s \ {x}) /\ Cardinality(s \ {x}) = Cardinality(s) - 1
  BY <1>1, FS_RemoveElement
<1>3. Cardinality(s) \in Nat /\ Cardinality(s \ {x}) \in Nat
  BY <1>1, <1>2, FS_CardinalityType
<1> QED BY <1>1, <1>2, <1>3

\* it is right for the sets of up to n elements
RightUpTo(hs, S, n, it) ==
    /\ DOMAIN it = SUBSET S
    /\ \A s \in SUBSET S : Cardinality(s) <= n => it[s] = SumStep(hs, it, s)

LEMMA SumToNext ==
    ASSUME NEW hs, NEW S, Summed(hs, S), NEW n \in Nat, NEW it, RightUpTo(hs, S, n, it)
    PROVE  \E it2 : RightUpTo(hs, S, n + 1, it2)
<1>n. PICK k \in Nat : k = n + 1
  OBVIOUS
<1>1. PICK it2 : it2 = [s \in SUBSET S |-> SumStep(hs, it, s)]
  OBVIOUS
<1>2. ASSUME NEW s \in SUBSET S, Cardinality(s) <= k PROVE it2[s] = SumStep(hs, it2, s)
  <2>1. it2[s] = SumStep(hs, it, s)
    BY <1>1
  <2>2. CASE s = {}
    BY <2>1, <2>2 DEF SumStep
  <2>3. CASE s # {}
    <3>1. PICK x \in s : x = First(s)
      BY <2>3, FirstIn
    <3>2. /\ s \ {x} \in SUBSET S /\ Cardinality(s) \in Nat /\ Cardinality(s \ {x}) \in Nat
          /\ Cardinality(s \ {x}) = Cardinality(s) - 1
      BY Smaller DEF Summed
    <3>3. Cardinality(s \ {x}) <= n
      BY <3>2, <1>2, <1>n
    <3>4. it[s \ {x}] = SumStep(hs, it, s \ {x})
      BY <3>2, <3>3 DEF RightUpTo
    <3>5. it2[s \ {x}] = SumStep(hs, it, s \ {x})
      BY <3>2, <1>1
    <3>6. it2[s \ {x}] = it[s \ {x}]
      BY <3>4, <3>5
    <3> QED BY <2>1, <3>6, <3>1, <2>3 DEF SumStep
  <2> QED BY <2>2, <2>3
<1>3. RightUpTo(hs, S, k, it2)
  BY <1>1, <1>2 DEF RightUpTo
<1> QED BY <1>3, <1>n

LEMMA SumUpTo ==
    ASSUME NEW hs, NEW S, Summed(hs, S), NEW n \in Nat
    PROVE  \E it : RightUpTo(hs, S, n, it)
<1>1. PICK Bad : Bad = {k \in Nat : ~\E it : RightUpTo(hs, S, k, it)}
  OBVIOUS
<1>2. SUFFICES ASSUME Bad # {} PROVE FALSE
  BY <1>1
<1>3. Bad \in SUBSET Nat
  BY <1>1
<1>4. PICK k \in Bad : \A y \in Bad : k <= y
  BY <1>2, <1>3, LeastNumber
<1>5. k \in Nat /\ ~\E it : RightUpTo(hs, S, k, it)
  BY <1>1
<1>6. CASE k = 0
  <2>1. PICK it : it = [s \in SUBSET S |-> 0]
    OBVIOUS
  <2>2. ASSUME NEW s \in SUBSET S, Cardinality(s) <= 0 PROVE it[s] = SumStep(hs, it, s)
    <3>1. IsFiniteSet(s)
      BY FS_Subset DEF Summed
    <3>2. Cardinality(s) \in Nat
      BY <3>1, FS_CardinalityType
    <3>3. s = {}
      BY <3>1, <3>2, <2>2, FS_EmptySet
    <3> QED BY <3>3, <2>1 DEF SumStep
  <2>3. RightUpTo(hs, S, 0, it)
    BY <2>1, <2>2 DEF RightUpTo
  <2> QED BY <2>3, <1>5, <1>6
<1>7. CASE k # 0
  <2>1. PICK j \in Nat : k = j + 1
    <3>1. k - 1 \in Nat /\ k = k - 1 + 1
      BY <1>5, <1>7
    <3> QED BY <3>1
  <2>2. j \notin Bad
    BY <2>1, <1>4
  <2>3. PICK it : RightUpTo(hs, S, j, it)
    BY <2>2, <1>1
  <2>4. \E it2 : RightUpTo(hs, S, j + 1, it2)
    BY <2>3, SumToNext
  <2> QED BY <2>4, <2>1, <1>5
<1> QED BY <1>6, <1>7

LEMMA SumExists ==
    ASSUME NEW hs, NEW S, Summed(hs, S)
    PROVE  Sums(hs, S, SumOf(hs, S))
<1>1. Cardinality(S) \in Nat
  BY FS_CardinalityType DEF Summed
<1>2. PICK it : RightUpTo(hs, S, Cardinality(S), it)
  BY <1>1, SumUpTo
<1>3. ASSUME NEW s \in SUBSET S PROVE it[s] = SumStep(hs, it, s)
  <2>1. Cardinality(s) <= Cardinality(S)
    BY FS_Subset DEF Summed
  <2> QED BY <2>1, <1>2 DEF RightUpTo
<1>4. PICK f : f = [s \in SUBSET S |-> it[s]]
  OBVIOUS
<1>5. ASSUME NEW s \in SUBSET S PROVE SumStep(hs, f, s) = f[s]
  <2>1. f[s] = SumStep(hs, it, s)
    BY <1>3, <1>4
  <2>2. CASE s = {}
    BY <2>1, <2>2 DEF SumStep
  <2>3. CASE s # {}
    <3>1. f[s \ {First(s)}] = it[s \ {First(s)}]
      BY <1>4
    <3> QED BY <3>1, <2>1, <2>3 DEF SumStep
  <2> QED BY <2>2, <2>3
<1>6. f = [s \in SUBSET S |-> SumStep(hs, f, s)]
  BY <1>4, <1>5
<1>7. Sums(hs, S, f)
  BY <1>6 DEF Sums
<1> QED BY <1>7 DEF SumOf

\* Sums are natural numbers, and do not depend on the order of their terms.
Steady(hs, S, n) ==
    \A s \in SUBSET S : Cardinality(s) <= n =>
       /\ SumOf(hs, S)[s] \in Nat
       /\ \A x \in s : SumOf(hs, S)[s] = hs[x].size + SumOf(hs, S)[s \ {x}]

LEMMA SumOne ==
    ASSUME NEW hs, NEW S, Summed(hs, S), NEW s \in SUBSET S
    PROVE  /\ s = {} => SumOf(hs, S)[s] = 0
           /\ s # {} => SumOf(hs, S)[s] = hs[First(s)].size + SumOf(hs, S)[s \ {First(s)}]
<1>1. PICK it : it = SumOf(hs, S)
  OBVIOUS
<1>0. Sums(hs, S, it)
  BY <1>1, SumExists
<1>2. it = [x \in SUBSET S |-> SumStep(hs, it, x)]
  BY <1>0 DEF Sums
<1>3. it[s] = SumStep(hs, it, s)
  BY <1>2
<1> QED BY <1>3, <1>1 DEF SumStep

LEMMA SumSteady ==
    ASSUME NEW hs, NEW S, Summed(hs, S), NEW n \in Nat
    PROVE  Steady(hs, S, n)
<1>1. PICK Bad : Bad = {k \in Nat : ~Steady(hs, S, k)}
  OBVIOUS
<1>2. SUFFICES ASSUME Bad # {} PROVE FALSE
  BY <1>1
<1>3. Bad \in SUBSET Nat
  BY <1>1
<1>4. PICK k \in Bad : \A y \in Bad : k <= y
  BY <1>2, <1>3, LeastNumber
<1>5. k \in Nat /\ ~Steady(hs, S, k)
  BY <1>1
<1>it. PICK it : it = SumOf(hs, S)
  OBVIOUS
<1>6. ASSUME NEW s \in SUBSET S, Cardinality(s) <= k
      PROVE  it[s] \in Nat /\ \A x \in s : it[s] = hs[x].size + it[s \ {x}]
  <2>1. CASE s = {}
    <3>1. it[s] = 0
      BY <2>1, SumOne, <1>it
    <3> QED BY <3>1, <2>1
  <2>2. CASE s # {}
    <3>1. PICK c \in s : c = First(s)
      BY <2>2, FirstIn
    <3>2. it[s] = hs[c].size + it[s \ {c}]
      BY <2>2, <3>1, SumOne, <1>it
    <3>3. PICK j \in Nat : j = Cardinality(s) - 1
      <4>1. Cardinality(s) \in Nat /\ Cardinality(s \ {c}) \in Nat /\ Cardinality(s \ {c}) = Cardinality(s) - 1
        BY Smaller DEF Summed
      <4> QED BY <4>1
    <3>4. j < k
      <4>1. Cardinality(s) \in Nat /\ Cardinality(s \ {c}) = Cardinality(s) - 1
        BY Smaller DEF Summed
      <4> QED BY <4>1, <3>3, <1>6, <1>5
    <3>5. j \notin Bad
      BY <3>4, <1>4, <1>5
    <3>6. Steady(hs, S, j)
      BY <3>5, <1>1
    <3>7. \A x \in s : s \ {x} \in SUBSET S /\ Cardinality(s \ {x}) <= j
      <4>1. ASSUME NEW x \in s PROVE s \ {x} \in SUBSET S /\ Cardinality(s \ {x}) = j
        BY Smaller, <3>3 DEF Summed
      <4> QED BY <4>1
    <3>8. \A x \in s : /\ it[s \ {x}] \in Nat
                       /\ \A y \in s \ {x} : it[s \ {x}] = hs[y].size + it[(s \ {x}) \ {y}]
      BY <3>6, <3>7, <1>it DEF Steady
    <3>9. \A x \in s : hs[x].size \in Nat
      BY DEF Summed
    <3>10. it[s] \in Nat
      BY <3>2, <3>8, <3>9
    <3>11. ASSUME NEW x \in s PROVE it[s] = hs[x].size + it[s \ {x}]
      <4>1. CASE x = c
        BY <4>1, <3>2
      <4>2. CASE x # c
        <5>1. PICK r : r = (s \ {x}) \ {c}
          OBVIOUS
        <5>2. (s \ {c}) \ {x} = r
          BY <5>1
        <5>3. it[s \ {c}] = hs[x].size + it[r]
          BY <5>2, <3>8, <4>2
        <5>4. it[s \ {x}] = hs[c].size + it[r]
          BY <5>1, <3>8, <4>2
        <5>5. PICK a, b, u : a = it[s \ {c}] /\ b = it[s \ {x}] /\ u = it[r]
          OBVIOUS
        <5>6. r = (s \ {x}) \ {c} /\ Cardinality(r) <= j /\ r \in SUBSET S
          <6>1. s \ {x} \in SUBSET S /\ c \in s \ {x}
            BY <4>2
          <6>2. Cardinality(r) = Cardinality(s \ {x}) - 1 /\ Cardinality(s \ {x}) \in Nat /\ r \in SUBSET S
            BY <6>1, Smaller, <5>1 DEF Summed
          <6> QED BY <6>2, <3>7, <5>1
        <5>7. u \in Nat
          BY <5>6, <3>6, <5>5, <1>it DEF Steady
        <5>8. a = hs[x].size + u /\ b = hs[c].size + u /\ it[s] = hs[c].size + a
          BY <5>3, <5>4, <5>5, <3>2
        <5>9. PICK v, w \in Nat : v = hs[x].size /\ w = hs[c].size
          BY <3>9
        <5>10. it[s] = w + (v + u) /\ b = w + u
          BY <5>8, <5>9
        <5>11. it[s] = v + b
          BY <5>10, <5>7, <5>9
        <5> QED BY <5>11, <5>9, <5>5
      <4> QED BY <4>1, <4>2
    <3> QED BY <3>10, <3>11
  <2> QED BY <2>1, <2>2
<1>7. Steady(hs, S, k)
  BY <1>6, <1>it DEF Steady
<1> QED BY <1>7, <1>5

SameSizes(hs, hs2, D) == \A h \in D : hs[h].size = hs2[h].size
SameSum(hs, S, hs2, S2, s) == SumOf(hs, S)[s] = SumOf(hs2, S2)[s]

LEMMA SumAgrees ==
    ASSUME NEW hs, NEW S, Summed(hs, S), NEW hs2, NEW S2, Summed(hs2, S2),
           SameSizes(hs, hs2, S \cap S2)
    PROVE  \A s \in SUBSET (S \cap S2) : SameSum(hs, S, hs2, S2, s)
<1>1. PICK Bad : Bad = {Cardinality(s) : s \in {r \in SUBSET (S \cap S2) : ~SameSum(hs, S, hs2, S2, r)}}
  OBVIOUS
<1>2. SUFFICES ASSUME Bad # {} PROVE FALSE
  BY <1>1
<1>3. \A s \in SUBSET (S \cap S2) : Cardinality(s) \in Nat /\ s \in SUBSET S /\ s \in SUBSET S2
  <2>1. ASSUME NEW s \in SUBSET (S \cap S2)
        PROVE  Cardinality(s) \in Nat /\ s \in SUBSET S /\ s \in SUBSET S2
    <3>1. s \in SUBSET S /\ s \in SUBSET S2
      OBVIOUS
    <3>2. IsFiniteSet(s)
      BY <3>1, FS_Subset DEF Summed
    <3> QED BY <3>1, <3>2, FS_CardinalityType
  <2> QED BY <2>1
<1>4. Bad \in SUBSET Nat
  BY <1>1, <1>3
<1>5. PICK k \in Bad : \A y \in Bad : k <= y
  BY <1>2, <1>4, LeastNumber
<1>6. PICK s \in SUBSET (S \cap S2) : k = Cardinality(s) /\ ~SameSum(hs, S, hs2, S2, s)
  BY <1>1
<1>7. CASE s = {}
  <2>0. s \in SUBSET S /\ s \in SUBSET S2
    BY <1>6
  <2>1. SumOf(hs, S)[s] = 0
    <3>1. s = {} => SumOf(hs, S)[s] = 0
      BY <2>0, SumOne
    <3> QED BY <3>1, <1>7
  <2>2. SumOf(hs2, S2)[s] = 0
    <3>1. s = {} => SumOf(hs2, S2)[s] = 0
      BY <2>0, SumOne
    <3> QED BY <3>1, <1>7
  <2> QED BY <2>1, <2>2, <1>6 DEF SameSum
<1>8. CASE s # {}
  <2>1. PICK x \in s : x = First(s)
    BY <1>8, FirstIn
  <2>2. PICK r : r = s \ {x}
    OBVIOUS
  <2>3. r \in SUBSET (S \cap S2) /\ Cardinality(r) = Cardinality(s) - 1 /\ Cardinality(r) \in Nat
    <3>1. s \in SUBSET S
      BY <1>3
    <3> QED BY <3>1, <2>2, Smaller DEF Summed
  <2>4. ~(k <= Cardinality(r)) /\ k \in Nat
    BY <2>3, <1>6, <1>3
  <2>5. Cardinality(r) \notin Bad
    BY <2>4, <1>5
  <2>6. SameSum(hs, S, hs2, S2, r)
    BY <2>5, <2>3, <1>1
  <2>0. s \in SUBSET S /\ s \in SUBSET S2
    BY <1>6
  <2>7. SumOf(hs, S)[s] = hs[x].size + SumOf(hs, S)[r]
    <3>1. s # {} => SumOf(hs, S)[s] = hs[First(s)].size + SumOf(hs, S)[s \ {First(s)}]
      BY <2>0, SumOne
    <3> QED BY <3>1, <1>8, <2>1, <2>2
  <2>8. SumOf(hs2, S2)[s] = hs2[x].size + SumOf(hs2, S2)[r]
    <3>1. s # {} => SumOf(hs2, S2)[s] = hs2[First(s)].size + SumOf(hs2, S2)[s \ {First(s)}]
      BY <2>0, SumOne
    <3> QED BY <3>1, <1>8, <2>1, <2>2
  <2>9. hs[x].size = hs2[x].size
    <3>1. x \in S \cap S2
      BY <1>6
    <3> QED BY <3>1 DEF SameSizes
  <2> QED BY <2>6, <2>7, <2>8, <2>9, <1>6 DEF SameSum
<1> QED BY <1>7, <1>8

\* All but one of the heaps hs, of the same sizes
Rest(hs, h, rest) ==
    /\ h \in DOMAIN hs /\ DOMAIN rest = DOMAIN hs \ {h}
    /\ \A g \in DOMAIN rest : rest[g].size = hs[g].size

LEMMA TotalWithout ==
    ASSUME NEW hs, Summed(hs, DOMAIN hs), NEW h, NEW rest, Rest(hs, h, rest)
    PROVE  /\ Total(hs) \in Nat /\ Total(rest) \in Nat
           /\ Total(hs) = hs[h].size + Total(rest)
<1>1. PICK S, S2 : S = DOMAIN hs /\ S2 = DOMAIN rest
  OBVIOUS
<1>2. h \in S /\ S2 = S \ {h} /\ \A g \in S2 : rest[g].size = hs[g].size
  BY <1>1 DEF Rest
<1>3. IsFiniteSet(S) /\ Cardinality(S) \in Nat /\ IsFiniteSet(S2) /\ Cardinality(S2) \in Nat
  <2>1. IsFiniteSet(S) /\ IsFiniteSet(S2)
    BY <1>1, <1>2, FS_Subset DEF Summed
  <2> QED BY <2>1, FS_CardinalityType
<1>4. Summed(rest, S2) /\ Summed(hs, S)
  BY <1>1, <1>2, <1>3 DEF Summed
<1>5. Steady(hs, S, Cardinality(S))
  BY <1>3, <1>4, SumSteady
<1>6. SumOf(hs, S)[S] \in Nat /\ SumOf(hs, S)[S] = hs[h].size + SumOf(hs, S)[S2]
  <2>1. S \in SUBSET S /\ Cardinality(S) <= Cardinality(S)
    BY <1>3
  <2> QED BY <2>1, <1>5, <1>2 DEF Steady
<1>7. Steady(rest, S2, Cardinality(S2))
  BY <1>3, <1>4, SumSteady
<1>8. SumOf(rest, S2)[S2] \in Nat
  <2>1. S2 \in SUBSET S2 /\ Cardinality(S2) <= Cardinality(S2)
    BY <1>3
  <2> QED BY <2>1, <1>7 DEF Steady
<1>9. SumOf(hs, S)[S2] = SumOf(rest, S2)[S2]
  <2>0. SameSizes(hs, rest, S \cap S2)
    BY <1>2 DEF SameSizes
  <2>1. \A s \in SUBSET (S \cap S2) : SameSum(hs, S, rest, S2, s)
    BY <2>0, <1>4, SumAgrees
  <2>2. S2 \in SUBSET (S \cap S2)
    BY <1>2
  <2> QED BY <2>1, <2>2 DEF SameSum
<1>10. Total(hs) = SumOf(hs, S)[S] /\ Total(rest) = SumOf(rest, S2)[S2]
  BY <1>1, TotalIs
<1> QED BY <1>6, <1>8, <1>9, <1>10

LEMMA TotalOne ==
    ASSUME NEW hs, NEW h, DOMAIN hs = {h}, hs[h].size \in Nat
    PROVE  Total(hs) = hs[h].size
<1>1. Summed(hs, DOMAIN hs)
  BY FS_Singleton DEF Summed
<1>2. PICK rest : rest = [x \in {} |-> 0]
  OBVIOUS
<1>3. Rest(hs, h, rest)
  BY <1>2 DEF Rest
<1>4. Total(hs) = hs[h].size + Total(rest)
  BY <1>1, <1>3, TotalWithout
<1>5. Total(rest) = 0
  <2>1. DOMAIN rest = {}
    BY <1>2
  <2>2. Summed(rest, {})
    BY FS_EmptySet DEF Summed
  <2>3. SumOf(rest, {})[{}] = 0
    BY <2>2, SumOne
  <2> QED BY <2>1, <2>3, TotalIs
<1> QED BY <1>4, <1>5

LEMMA BasesFinite ==
    /\ Bases \in SUBSET Nat /\ IsFiniteSet(Bases)
<1>1. HEAP_MAX_SIZE \in Nat \ {0} /\ MaxHeaps \in Nat \ {0}
  BY Constants, HeapsAssumption
<1>2. PICK n \in Nat : n = HEAP_MAX_SIZE * MaxHeaps
  BY <1>1
<1>3. ASSUME NEW h \in Bases PROVE h \in Nat /\ h <= n
  <2>1. PICK i \in 1 .. MaxHeaps : h = HEAP_MAX_SIZE * i
    BY DEF Bases
  <2>2. h \in Nat
    BY HeapAt, <1>1
  <2>3. CASE i = MaxHeaps
    BY <2>1, <2>3, <1>2, <2>2
  <2>4. CASE i < MaxHeaps
    <3>1. HEAP_MAX_SIZE * i + HEAP_MAX_SIZE <= HEAP_MAX_SIZE * MaxHeaps
      BY <2>4, <1>1, Product
    <3> QED BY <3>1, <2>1, <2>2, <1>1, <1>2
  <2>5. i <= MaxHeaps /\ i \in Int
    BY <1>1
  <2> QED BY <2>2, <2>3, <2>4, <2>5, <1>1
<1> QED BY <1>3, FS_BoundedSetOfNaturals

LEMMA HeapsSummed ==
    ASSUME NEW hs, HeapsOK(hs)
    PROVE  Summed(hs, DOMAIN hs)
<1>1. IsFiniteSet(DOMAIN hs)
  BY BasesFinite, FS_Subset DEF HeapsOK
<1>2. \A h \in DOMAIN hs : hs[h].size \in Nat
  BY DEF HeapsOK, HeapRec
<1> QED BY <1>1, <1>2 DEF Summed

\* A heap is part of the total; with another size of it the total changes by as much.
LEMMA TotalSplit ==
    ASSUME NEW hs, HeapsOK(hs), NEW h \in DOMAIN hs
    PROVE  /\ Rest(hs, h, Without(hs, h))
           /\ Total(hs) \in Nat /\ Total(Without(hs, h)) \in Nat
           /\ Total(hs) = hs[h].size + Total(Without(hs, h))
<1>1. Rest(hs, h, Without(hs, h))
  BY DEF Rest, Without
<1> QED BY <1>1, HeapsSummed, TotalWithout

LEMMA TotalChanged ==
    ASSUME NEW hs, HeapsOK(hs), NEW hs2, HeapsOK(hs2), NEW h \in DOMAIN hs,
           DOMAIN hs2 = DOMAIN hs, \A g \in DOMAIN hs \ {h} : hs2[g].size = hs[g].size
    PROVE  Total(hs2) = Total(hs) + hs2[h].size - hs[h].size
<1>1. PICK r : r = Without(hs, h)
  OBVIOUS
<1>2. Rest(hs, h, r) /\ Total(hs) \in Nat /\ Total(r) \in Nat /\ Total(hs) = hs[h].size + Total(r)
  BY <1>1, TotalSplit
<1>3. Rest(hs2, h, r)
  BY <1>2 DEF Rest
<1>4. Total(hs2) = hs2[h].size + Total(r)
  BY <1>3, HeapsSummed, TotalWithout
<1>5. hs[h].size \in Nat /\ hs2[h].size \in Nat
  BY DEF HeapsOK, HeapRec
<1> QED BY <1>2, <1>4, <1>5

(***************************************************************************)
(* How large a new heap is                                                 *)
(***************************************************************************)
LEMMA HeapSizeIs ==
    ASSUME NEW size \in Nat
    PROVE  /\ HeapSize(size) \in Nat /\ HeapSize(size) <= HEAP_MAX_SIZE
           /\ HeapSize(size) % PageSize = 0
           /\ HeapSize(size) # 0 => size <= HeapSize(size)
           /\ size <= HEAP_MAX_SIZE => HEAP_MIN_SIZE <= HeapSize(size)
<1> DEFINE asked == IF size + TopPad < HEAP_MIN_SIZE THEN HEAP_MIN_SIZE
                    ELSE IF size + TopPad <= HEAP_MAX_SIZE THEN size + TopPad
                    ELSE IF size > HEAP_MAX_SIZE THEN 0 ELSE HEAP_MAX_SIZE
<1>0. /\ HEAP_MAX_SIZE \in Nat /\ HEAP_MIN_SIZE \in Nat /\ HEAP_MIN_SIZE <= HEAP_MAX_SIZE
      /\ PageSize \in Nat \ {0} /\ TopPad \in Nat /\ HEAP_MAX_SIZE % PageSize = 0
  BY Constants
<1>1. PICK n : n = asked
  OBVIOUS
<1>2. /\ n \in Nat /\ n <= HEAP_MAX_SIZE /\ (n = 0 \/ size <= n)
      /\ size <= HEAP_MAX_SIZE => HEAP_MIN_SIZE <= n
  BY <1>0, <1>1
<1>3. PICK r : r = HeapSize(size)
  OBVIOUS
<1>4. r = AlignUp(n, PageSize)
  BY <1>1, <1>3 DEF HeapSize
<1> HIDE DEF asked
<1>5. r \in Int /\ n <= r /\ \E q \in Int : r = PageSize * q
  <2>1. n \in Int /\ PageSize \in Nat \ {0}
    BY <1>0, <1>2
  <2>2. /\ AlignUp(n, PageSize) \in Int /\ n <= AlignUp(n, PageSize)
        /\ \E q \in Int : AlignUp(n, PageSize) = PageSize * q
    BY <2>1, RoundedUp
  <2> QED BY <2>2, <1>4
<1>6. r <= HEAP_MAX_SIZE
  <2>1. n \in Int /\ HEAP_MAX_SIZE \in Int /\ PageSize \in Nat \ {0}
    BY <1>0, <1>2
  <2>2. AlignUp(n, PageSize) <= HEAP_MAX_SIZE
    BY <2>1, <1>0, <1>2, RoundedWithin
  <2> QED BY <2>2, <1>4
<1>7. r % PageSize = 0
  BY <1>5, <1>0, Multiple
<1>8. n = 0 => r = 0
  <2>1. ASSUME n = 0 PROVE r <= 0
    <3>1. PageSize * 0 = 0
      BY <1>0
    <3>2. 0 % PageSize = 0
      BY <3>1, <1>0, Multiple
    <3> QED BY <3>2, <2>1, <1>0, <1>4, RoundedWithin
  <2> QED BY <2>1, <1>5
<1> QED BY <1>0, <1>2, <1>3, <1>5, <1>6, <1>7, <1>8

LEMMA FreeBase ==
    ASSUME NEW free, free \subseteq Bases, free # {}
    PROVE  Min(free) \in free
<1>1. free \in SUBSET Nat
  BY BasesFinite
<1>2. \E x \in free : \A y \in free : x <= y
  BY <1>1, LeastNumber
<1> QED BY <1>2, Zenon DEF Min

LEMMA HeapIs ==
    ASSUME NEW size \in Nat, NEW prev \in Int, NEW c, c = Heap(size, prev)
    PROVE  /\ c \in HeapRec /\ c.size = size /\ c.mprotect_size = size
           /\ c.access = size /\ c.prev = prev
BY DEF Heap, HeapRec

LEMMA TopFacts ==
    ASSUME NEW m, NEW hs, NEW t, HeapsOK(hs), Geo(m, hs, t)
    PROVE  /\ t \in DOMAIN m /\ t \in Nat /\ m[t].size \in Nat /\ m[t].size >= MINSIZE
           /\ t + m[t].size = EndOf(hs, HeapForPtr(t))
           /\ HeapForPtr(t) \in DOMAIN hs /\ ~IsPrev(hs, HeapForPtr(t))
           /\ m[t].md_next = Nil
<1>1. t \in DOMAIN m
  BY DEF Geo, TopEnds
<1> QED BY <1>1, ChunkFacts DEF Geo, TopEnds, Nexts

\* The heaps with one more, whose heap before is nobody else's.
LEMMA MoreHeaps ==
    ASSUME NEW m, NEW hs, NEW t, HeapsOK(hs), Geo(m, hs, t), NEW h \in Bases \ DOMAIN hs,
           NEW size \in Nat, HeapInfo <= size, size <= HEAP_MAX_SIZE, size % PageSize = 0,
           NEW hs2, hs2 = Register(hs, h, Heap(size, HeapForPtr(t)))
    PROVE  AddedHeap(hs, t, h, hs2) /\ hs2[h].size = size
<1>1. PICK k : k = HeapForPtr(t)
  OBVIOUS
<1>2. k \in DOMAIN hs /\ ~IsPrev(hs, k)
  BY <1>1, TopFacts
<1>3. k \in Nat
  BY <1>2, HeapFacts
<1>4. PICK c : c = Heap(size, k)
  OBVIOUS
<1>5. c \in HeapRec /\ c.size = size /\ c.mprotect_size = size /\ c.access = size /\ c.prev = k
  BY <1>3, <1>4, HeapIs
<1>6. hs2 = Register(hs, h, c)
  BY <1>1, <1>4
<1>7. DOMAIN hs2 = DOMAIN hs \cup {h} /\ hs2[h] = c /\ \A g \in DOMAIN hs : hs2[g] = hs[g]
  BY <1>6 DEF Register
<1>8. hs2 \in [DOMAIN hs2 -> HeapRec]
  <2>1. hs2 = [x \in DOMAIN hs2 |-> hs2[x]]
    BY <1>6 DEF Register
  <2>2. \A x \in DOMAIN hs2 : hs2[x] \in HeapRec
    BY <1>7, <1>5 DEF HeapsOK
  <2> QED BY <2>1, <2>2
<1>9. h # FirstHeap
  BY DEF HeapsOK
<1>10. HeapsOK(hs2)
  <2>1. DOMAIN hs2 \subseteq Bases /\ FirstHeap \in DOMAIN hs2
    BY <1>7 DEF HeapsOK
  <2>2. ASSUME NEW g \in DOMAIN hs2
        PROVE  /\ HeapInfo <= hs2[g].size /\ hs2[g].size <= HEAP_MAX_SIZE /\ hs2[g].size % PageSize = 0
               /\ hs2[g].mprotect_size <= hs2[g].access /\ hs2[g].size <= hs2[g].access
               /\ IF g = FirstHeap THEN hs2[g].prev = Nil ELSE hs2[g].prev \in DOMAIN hs2
    <3>1. CASE g = h
      BY <3>1, <1>7, <1>5, <1>9, <1>2
    <3>2. CASE g # h
      BY <3>2, <1>7 DEF HeapsOK
    <3> QED BY <3>1, <3>2
  <2>3. ASSUME NEW g \in DOMAIN hs2, NEW j \in DOMAIN hs2, hs2[g].prev = hs2[j].prev PROVE g = j
    <3>1. \A x \in DOMAIN hs : hs[x].prev # k
      BY <1>2 DEF IsPrev
    <3>2. \A x \in DOMAIN hs : hs2[x].prev = hs[x].prev
      BY <1>7
    <3>3. hs2[h].prev = k
      BY <1>7, <1>5
    <3>4. \A x, y \in DOMAIN hs : hs[x].prev = hs[y].prev => x = y
      BY DEF HeapsOK
    <3> QED BY <3>1, <3>2, <3>3, <3>4, <2>3, <1>7
  <2> QED BY <2>1, <2>2, <2>3, <1>8 DEF HeapsOK
<1>11. hs2[h].prev = HeapForPtr(t)
  BY <1>7, <1>5, <1>1
<1> QED BY <1>7, <1>10, <1>11, <1>5 DEF AddedHeap

\* The heaps without the newest.
LEMMA FewerHeaps ==
    ASSUME NEW m, NEW hs, NEW t, HeapsOK(hs), Geo(m, hs, t), NEW h, h = HeapForPtr(t),
           h # FirstHeap, t = Start(h), NEW hs2, hs2 = Without(hs, h)
    PROVE  DroppedHeap(hs, t, h, hs2)
<1>1. h \in DOMAIN hs /\ ~IsPrev(hs, h)
  BY TopFacts
<1>2. DOMAIN hs2 = DOMAIN hs \ {h} /\ \A g \in DOMAIN hs2 : hs2[g] = hs[g]
  BY DEF Without
<1>3. hs2 \in [DOMAIN hs2 -> HeapRec]
  <2>1. hs2 = [x \in DOMAIN hs2 |-> hs2[x]]
    BY DEF Without
  <2>2. \A x \in DOMAIN hs2 : hs2[x] \in HeapRec
    BY <1>2 DEF HeapsOK
  <2> QED BY <2>1, <2>2
<1>4. HeapsOK(hs2)
  <2>1. DOMAIN hs2 \subseteq Bases /\ FirstHeap \in DOMAIN hs2
    BY <1>2 DEF HeapsOK
  <2>2. ASSUME NEW g \in DOMAIN hs2
        PROVE  /\ HeapInfo <= hs2[g].size /\ hs2[g].size <= HEAP_MAX_SIZE /\ hs2[g].size % PageSize = 0
               /\ hs2[g].mprotect_size <= hs2[g].access /\ hs2[g].size <= hs2[g].access
               /\ IF g = FirstHeap THEN hs2[g].prev = Nil ELSE hs2[g].prev \in DOMAIN hs2
    <3>1. hs2[g] = hs[g] /\ g \in DOMAIN hs
      BY <1>2
    <3>2. hs[g].prev # h
      BY <3>1, <1>1 DEF IsPrev
    <3> QED BY <3>1, <3>2, <1>2 DEF HeapsOK
  <2>3. \A g, j \in DOMAIN hs2 : hs2[g].prev = hs2[j].prev => g = j
    BY <1>2 DEF HeapsOK
  <2> QED BY <2>1, <2>2, <2>3, <1>3 DEF HeapsOK
<1>5. \A g \in DOMAIN hs2 : hs2[g].prev = hs[g].prev /\ hs2[g].size = hs[g].size
  BY <1>2
<1> QED BY <1>1, <1>2, <1>4, <1>5 DEF DroppedHeap

\* The heaps with another size of one of them
Sized(hs, h, size, mp, acc, hs2) ==
    /\ DOMAIN hs2 = DOMAIN hs
    /\ hs2 = [x \in DOMAIN hs2 |-> hs2[x]]
    /\ hs2[h].size = size /\ hs2[h].mprotect_size = mp /\ hs2[h].access = acc
    /\ hs2[h].prev = hs[h].prev /\ hs2[h] \in HeapRec
    /\ \A g \in DOMAIN hs \ {h} : hs2[g] = hs[g]

LEMMA SizedHeaps ==
    ASSUME NEW hs, HeapsOK(hs), NEW h \in DOMAIN hs,
           NEW size \in Nat, HeapInfo <= size, size <= HEAP_MAX_SIZE, size % PageSize = 0,
           NEW mp \in Nat, NEW acc \in Nat, mp <= acc, size <= acc,
           NEW hs2, Sized(hs, h, size, mp, acc, hs2)
    PROVE  /\ HeapsOK(hs2) /\ DOMAIN hs2 = DOMAIN hs
           /\ \A g \in DOMAIN hs : hs2[g].prev = hs[g].prev /\ (g # h => hs2[g].size = hs[g].size)
           /\ Total(hs2) = Total(hs) + size - hs[h].size
<1>1. /\ DOMAIN hs2 = DOMAIN hs
      /\ \A g \in DOMAIN hs : hs2[g].prev = hs[g].prev
      /\ \A g \in DOMAIN hs \ {h} : hs2[g] = hs[g]
  BY DEF Sized
<1>2. hs2 \in [DOMAIN hs2 -> HeapRec]
  <2>1. hs2 = [x \in DOMAIN hs2 |-> hs2[x]]
    BY DEF Sized
  <2>2. \A x \in DOMAIN hs2 : hs2[x] \in HeapRec
    BY DEF HeapsOK, Sized
  <2> QED BY <2>1, <2>2
<1>3. HeapsOK(hs2)
  <2>1. DOMAIN hs2 \subseteq Bases /\ FirstHeap \in DOMAIN hs2
    BY <1>1 DEF HeapsOK
  <2>2. ASSUME NEW g \in DOMAIN hs2
        PROVE  /\ HeapInfo <= hs2[g].size /\ hs2[g].size <= HEAP_MAX_SIZE /\ hs2[g].size % PageSize = 0
               /\ hs2[g].mprotect_size <= hs2[g].access /\ hs2[g].size <= hs2[g].access
    <3>1. CASE g = h
      BY <3>1 DEF Sized
    <3>2. CASE g # h
      BY <3>2, <1>1 DEF HeapsOK
    <3> QED BY <3>1, <3>2
  <2>3. \A g \in DOMAIN hs2 : IF g = FirstHeap THEN hs2[g].prev = Nil ELSE hs2[g].prev \in DOMAIN hs2
    BY <1>1 DEF HeapsOK
  <2>4. \A g, j \in DOMAIN hs2 : hs2[g].prev = hs2[j].prev => g = j
    BY <1>1 DEF HeapsOK
  <2> QED BY <2>1, <2>2, <2>3, <2>4, <1>2 DEF HeapsOK
<1>4. \A g \in DOMAIN hs \ {h} : hs2[g].size = hs[g].size
  BY <1>1
<1>5. hs2[h].size = size
  BY DEF Sized
<1>6. Total(hs2) = Total(hs) + size - hs[h].size
  BY <1>1, <1>3, <1>4, <1>5, TotalChanged
<1> QED BY <1>1, <1>3, <1>4, <1>6

(***************************************************************************)
(* The steps keep the invariant                                            *)
(***************************************************************************)
LEMMA RequestIs ==
    ASSUME NEW nb \in Requests
    PROVE  nb \in Nat /\ nb >= MINSIZE
BY HeapsAssumption

LEMMA InvParts ==
    ASSUME HeapsInv
    PROVE  /\ HeapsOK(heaps) /\ Arena(md, heaps, top, binned, held) /\ Geo(md, heaps, top)
           /\ Tags(md, top, binned) /\ Places(md, top, binned, held)
           /\ op \in {Nil, HeapForPtr(top)} /\ system_mem = Total(heaps)
           /\ md \in [DOMAIN md -> ChunkInfo] /\ DOMAIN md \subseteq Nat \ {Nil}
BY DEF HeapsInv, Arena, Geo, Recs

LEMMA MallocFitKeeps ==
    ASSUME HeapsInv, NEW nb \in Requests, MallocFit(nb)
    PROVE  HeapsInv'
<1>1. HeapsOK(heaps) /\ Arena(md, heaps, top, binned, held) /\ Geo(md, heaps, top)
  BY InvParts
<1>2. nb \in Nat /\ nb >= MINSIZE
  BY RequestIs
<1>3. heaps' = heaps /\ top' = top /\ system_mem' = system_mem /\ op' = op
  BY Zenon DEF MallocFit
<1>4. PICK p \in Fits(nb) :
          IF md[p].size < nb + MINSIZE
          THEN /\ md' = SetInuse(md, p)
               /\ binned' = binned \ {p}
               /\ held' = held \union {p}
          ELSE /\ md' = SetFoot(Carve(md, p, nb), p + nb)
               /\ binned' = (binned \ {p}) \union {p + nb}
               /\ held' = held \union {p}
  BY Zenon DEF MallocFit
<1>5. p \in binned /\ p \in DOMAIN md
  BY <1>4, InvParts DEF Fits, Tags
<1>6. md[p].size \in Nat /\ md[p].md_next \in DOMAIN md
  <2>1. p # top
    BY <1>5, InvParts DEF Places
  <2> QED BY <2>1, <1>1, <1>5, ChunkFacts, NextChunk
<1>7. Arena(md', heaps, top, binned', held')
  <2>1. CASE md[p].size < nb + MINSIZE
    <3>1. md' = SetInuse(md, p) /\ binned' = binned \ {p} /\ held' = held \cup {p}
      BY <1>4, <2>1
    <3>2. PutsUsed(DOMAIN md, md, p, SetInuse(md, p))
      BY <1>5, <1>6, InvParts, SetInuseIs
    <3>3. PICK z : z = SetInuse(md, p)
      OBVIOUS
    <3>4. Arena(z, heaps, top, binned \ {p}, held \cup {p})
      BY <3>2, <3>3, <1>1, <1>5, TakeWhole
    <3> QED BY <3>1, <3>3, <3>4
  <2>2. CASE ~(md[p].size < nb + MINSIZE)
    <3>1. PICK r : r = p + nb
      OBVIOUS
    <3>2. md' = SetFoot(Carve(md, p, nb), r) /\ binned' = (binned \ {p}) \cup {r} /\ held' = held \cup {p}
      BY <1>4, <2>2, <3>1
    <3>3. PICK z : z = SetFoot(Carve(md, p, nb), r)
      OBVIOUS
    <3>4. md[p].size >= nb + MINSIZE
      BY <2>2, <1>2, <1>6, Constants
    <3>5. Arena(z, heaps, top, (binned \ {p}) \cup {r}, held \cup {p})
      BY <3>1, <3>3, <3>4, <1>1, <1>2, <1>5, TakeSplit
    <3> QED BY <3>2, <3>3, <3>5
  <2> QED BY <2>1, <2>2
<1>8. HeapsOK(heaps') /\ Arena(md', heaps', top', binned', held')
  BY <1>1, <1>3, <1>7
<1>9. op' \in {Nil, HeapForPtr(top')} /\ system_mem' = Total(heaps')
  BY <1>3, InvParts
<1> QED BY <1>8, <1>9 DEF HeapsInv

LEMMA MallocTopKeeps ==
    ASSUME HeapsInv, NEW nb \in Requests, MallocTop(nb)
    PROVE  HeapsInv'
<1>1. HeapsOK(heaps) /\ Arena(md, heaps, top, binned, held) /\ Geo(md, heaps, top)
  BY InvParts
<1>2. nb \in Nat /\ nb >= MINSIZE
  BY RequestIs
<1>3. /\ heaps' = heaps /\ binned' = binned /\ system_mem' = system_mem /\ op' = op /\ op = Nil
      /\ md[top].size >= nb + MINSIZE
  BY Zenon DEF MallocTop
<1>4. md' = Carve(md, top, nb) /\ top' = top + nb /\ held' = held \cup {top}
  BY Zenon DEF MallocTop, SplitTop
<1>5. PICK r, z : r = top + nb /\ z = Carve(md, top, nb)
  OBVIOUS
<1>6. Arena(z, heaps, r, binned, held \cup {top})
  BY <1>1, <1>2, <1>3, <1>5, TakeTop
<1>7. HeapsOK(heaps') /\ Arena(md', heaps', top', binned', held')
  BY <1>1, <1>3, <1>4, <1>5, <1>6
<1>8. op' \in {Nil, HeapForPtr(top')} /\ system_mem' = Total(heaps')
  BY <1>3, InvParts
<1> QED BY <1>7, <1>8 DEF HeapsInv

LEMMA GrowHeapKeeps ==
    ASSUME HeapsInv, NEW nb \in Requests, GrowHeap(nb)
    PROVE  HeapsInv'
<1>1. HeapsOK(heaps) /\ Arena(md, heaps, top, binned, held) /\ Geo(md, heaps, top)
  BY InvParts
<1>2. nb \in Nat /\ nb >= MINSIZE
  BY RequestIs
<1>h. PICK h : h = HeapForPtr(top)
  OBVIOUS
<1>3. /\ top \in DOMAIN md /\ top \in Nat /\ md[top].size \in Nat /\ h \in DOMAIN heaps
      /\ top + md[top].size = EndOf(heaps, h)
  BY <1>1, <1>h, TopFacts
<1>4. /\ h \in Nat /\ heaps[h].size \in Nat /\ heaps[h].mprotect_size \in Nat /\ heaps[h].access \in Nat
      /\ HeapInfo <= heaps[h].size /\ heaps[h].size % PageSize = 0
      /\ heaps[h].mprotect_size <= heaps[h].access /\ heaps[h].size <= heaps[h].access
  BY <1>1, <1>3, HeapFacts DEF HeapsOK, HeapRec
<1>5. PICK more : more = AlignUp(MINSIZE + nb - md[top].size, PageSize)
  OBVIOUS
<1>6. PICK new_size : new_size = GrownSize(nb)
  OBVIOUS
<1>7. /\ md[top].size < nb + MINSIZE /\ new_size <= HEAP_MAX_SIZE /\ binned' = binned /\ op' = op /\ op = Nil
      /\ heaps' = [heaps EXCEPT
                ![h].size = new_size,
                ![h].mprotect_size = IF new_size > @ THEN new_size ELSE @,
                ![h].access = IF new_size > heaps[h].mprotect_size THEN new_size ELSE @]
      /\ system_mem' = system_mem + new_size - heaps[h].size
      /\ SplitTop(SetHead(md, top, h + new_size - top), top, nb)
  BY <1>h, <1>6, Zenon DEF GrowHeap, NoRoom
<1>8. new_size = heaps[h].size + more
  BY <1>5, <1>6, <1>h DEF GrownSize
<1>9. /\ more \in Nat /\ md[top].size + more >= nb + MINSIZE /\ more % PageSize = 0
  <2>1. PICK lack \in Int : lack = MINSIZE + nb - md[top].size /\ lack > 0
    <3>1. MINSIZE + nb - md[top].size \in Int /\ MINSIZE + nb - md[top].size > 0
      BY <1>2, <1>3, <1>7, Constants
    <3> QED BY <3>1
  <2>2. more = AlignUp(lack, PageSize) /\ PageSize \in Nat \ {0}
    BY <1>5, <2>1, Constants
  <2>3. more \in Int /\ lack <= more /\ \E q \in Int : more = PageSize * q
    <3>0. lack \in Int /\ PageSize \in Nat \ {0}
      BY <2>1, Constants
    <3>1. /\ AlignUp(lack, PageSize) \in Int /\ lack <= AlignUp(lack, PageSize)
          /\ \E q \in Int : AlignUp(lack, PageSize) = PageSize * q
      BY <3>0, RoundedUp
    <3> QED BY <3>1, <2>2
  <2>4. more % PageSize = 0
    BY <2>3, <2>2, Multiple
  <2>5. more \in Nat
    BY <2>1, <2>3
  <2>6. PICK s, r \in Nat : s = md[top].size /\ r = nb
    BY <1>2, <1>3
  <2>7. lack = 2 + r - s /\ lack <= more
    BY <2>1, <2>3, <2>6, Constants
  <2>8. s + more >= r + 2
    BY <2>5, <2>6, <2>7, <2>1
  <2>9. md[top].size + more >= nb + MINSIZE
    BY <2>6, <2>8, Constants
  <2> QED BY <2>4, <2>5, <2>9
<1>10. new_size \in Nat /\ heaps[h].size <= new_size /\ new_size % PageSize = 0
  <2>1. new_size \in Nat /\ heaps[h].size <= new_size
    BY <1>8, <1>9, <1>4
  <2>2. PICK a, b \in Int : a = heaps[h].size /\ b = more
    BY <1>4, <1>9
  <2>3. a % PageSize = 0 /\ b % PageSize = 0 /\ PageSize \in Nat \ {0}
    BY <2>2, <1>4, <1>9, Constants
  <2>4. (a + b) % PageSize = 0
    BY <2>3, SumOfMultiples
  <2> QED BY <2>1, <2>2, <2>4, <1>8
<1>11. PICK mp, acc : /\ mp = IF new_size > heaps[h].mprotect_size THEN new_size ELSE heaps[h].mprotect_size
                      /\ acc = IF new_size > heaps[h].mprotect_size THEN new_size ELSE heaps[h].access
  OBVIOUS
<1>12. mp \in Nat /\ acc \in Nat /\ mp <= acc /\ new_size <= acc
  BY <1>4, <1>10, <1>11
<1>13. PICK hs2 : hs2 = [heaps EXCEPT ![h].size = new_size, ![h].mprotect_size = mp, ![h].access = acc]
  OBVIOUS
<1>14. heaps' = hs2
  BY <1>7, <1>11, <1>13, <1>1, <1>3 DEF HeapsOK, HeapRec
<1>15. Sized(heaps, h, new_size, mp, acc, hs2)
  <2>1. heaps \in [DOMAIN heaps -> HeapRec]
    BY <1>1 DEF HeapsOK
  <2> QED BY <2>1, <1>3, <1>10, <1>12, <1>13 DEF Sized, HeapRec
<1>16. /\ HeapsOK(hs2) /\ DOMAIN hs2 = DOMAIN heaps
       /\ \A g \in DOMAIN heaps : hs2[g].prev = heaps[g].prev /\ (g # h => hs2[g].size = heaps[g].size)
       /\ Total(hs2) = Total(heaps) + new_size - heaps[h].size
  <2>1. HeapInfo <= new_size
    BY <1>4, <1>10, Constants
  <2> QED BY <2>1, <1>1, <1>3, <1>7, <1>10, <1>12, <1>15, SizedHeaps
<1>17. hs2[h].size = new_size
  BY <1>15 DEF Sized
<1>18. PICK size \in Nat : size = md[top].size + more
  BY <1>3, <1>9
<1>19. /\ size = h + new_size - top /\ size >= nb + MINSIZE /\ size >= MINSIZE
       /\ top + size = EndOf(hs2, h)
  <2>1. top + md[top].size = h + heaps[h].size
    BY <1>3 DEF EndOf
  <2>2. size = h + new_size - top
    BY <2>1, <1>8, <1>18, <1>3, <1>4, <1>9, <1>10
  <2>3. size >= nb + MINSIZE /\ size >= MINSIZE
    BY <1>2, <1>9, <1>18, Constants
  <2>4. top + size = h + new_size
    BY <2>2, <1>18, <1>3, <1>4, <1>10
  <2> QED BY <2>2, <2>3, <2>4, <1>17 DEF EndOf
<1>20. PICK s : s = SetHead(md, top, size)
  OBVIOUS
<1>21. Arena(s, hs2, top, binned, held)
  <2>1. HeapsOK(hs2) /\ DOMAIN hs2 = DOMAIN heaps
    BY <1>16
  <2>2. \A g \in DOMAIN heaps : hs2[g].prev = heaps[g].prev /\ (g # h => hs2[g].size = heaps[g].size)
    BY <1>16
  <2>3. size \in Nat /\ size >= MINSIZE /\ top + size = EndOf(hs2, h)
    BY <1>19
  <2> QED BY <2>1, <2>2, <2>3, <1>1, <1>h, <1>20, ResizeTop
<1>22. s[top].size = size
  <2>1. PICK D : D = DOMAIN md
    OBVIOUS
  <2>2. md \in [D -> ChunkInfo] /\ top \in D
    BY <2>1, <1>3, InvParts
  <2>3. PutsHead(D, md, top, size, s)
    BY <2>2, <1>20, SetHeadIs
  <2> QED BY <2>3, <2>2 DEF PutsHead
<1>23. SplitTop(s, top, nb)
  BY <1>7, <1>19, <1>20
<1>24. md' = Carve(s, top, nb) /\ top' = top + nb /\ held' = held \cup {top}
  BY <1>23 DEF SplitTop
<1>25. PICK r, z : r = top + nb /\ z = Carve(s, top, nb)
  OBVIOUS
<1>26. Arena(z, hs2, r, binned, held \cup {top})
  BY <1>2, <1>16, <1>19, <1>21, <1>22, <1>25, TakeTop
<1>27. HeapsOK(heaps') /\ Arena(md', heaps', top', binned', held')
  BY <1>7, <1>14, <1>16, <1>24, <1>25, <1>26
<1>28. op' \in {Nil, HeapForPtr(top')}
  BY <1>7
<1>29. system_mem' = Total(heaps')
  BY <1>7, <1>14, <1>16, InvParts
<1> QED BY <1>27, <1>28, <1>29 DEF HeapsInv

LEMMA AddHeapKeeps ==
    ASSUME HeapsInv, NEW nb \in Requests, AddHeap(nb)
    PROVE  HeapsInv'
<1>1. HeapsOK(heaps) /\ Arena(md, heaps, top, binned, held) /\ Geo(md, heaps, top)
  BY InvParts
<1>2. nb \in Nat /\ nb >= MINSIZE
  BY RequestIs
<1>s. PICK size : size = HeapSize(nb + MINSIZE + HeapInfo)
  OBVIOUS
<1>free. PICK free : free = Bases \ DOMAIN heaps
  OBVIOUS
<1>h. PICK h : h = Min(free)
  OBVIOUS
<1>u. PICK u : u = h + HeapInfo
  OBVIOUS
<1>R. PICK R : R = Register(md, u, Chunk(size - HeapInfo, Nil, Nil))
  OBVIOUS
<1>m. PICK m : m = Fenced(R, u)
  OBVIOUS
<1>3. /\ op = Nil /\ size # 0 /\ free # {}
      /\ heaps' = Register(heaps, h, Heap(size, HeapForPtr(top)))
      /\ system_mem' = system_mem + size
      /\ IF md[top].size - MINSIZE >= MINSIZE
         THEN SplitTop(Freed(m, binned, u, top).md, u, nb) /\ binned' = Freed(m, binned, u, top).binned
         ELSE SplitTop(m, u, nb) /\ binned' = binned
      /\ op' = op
  BY <1>s, <1>free, <1>h, <1>u, <1>R, <1>m, Zenon DEF AddHeap, NoRoom
<1>4. h \in Bases \ DOMAIN heaps /\ h \in Nat
  <2>1. h \in free
    BY <1>free, <1>h, <1>3, FreeBase
  <2> QED BY <2>1, <1>free, BasesFinite
<1>5. /\ size \in Nat /\ size <= HEAP_MAX_SIZE /\ size % PageSize = 0
      /\ nb + MINSIZE + HeapInfo <= size
  <2>1. PICK want \in Nat : want = nb + MINSIZE + HeapInfo
    BY <1>2, Constants
  <2>2. /\ HeapSize(want) \in Nat /\ HeapSize(want) <= HEAP_MAX_SIZE /\ HeapSize(want) % PageSize = 0
        /\ HeapSize(want) # 0 => want <= HeapSize(want)
    BY HeapSizeIs
  <2> QED BY <2>1, <2>2, <1>s, <1>3
<1>6. PICK n \in Nat : n = size - HeapInfo /\ n >= nb + MINSIZE /\ n >= MINSIZE
  <2>1. size - HeapInfo \in Nat /\ size - HeapInfo >= nb + MINSIZE /\ size - HeapInfo >= MINSIZE
    BY <1>5, <1>2, Constants
  <2> QED BY <2>1
<1>7. PICK hs2 : hs2 = Register(heaps, h, Heap(size, HeapForPtr(top)))
  OBVIOUS
<1>8. AddedHeap(heaps, top, h, hs2) /\ hs2[h].size = size
  <2>1. HeapInfo <= size
    BY <1>5, <1>2, Constants
  <2> QED BY <2>1, <1>1, <1>4, <1>5, <1>7, MoreHeaps
<1>9. u = Start(h) /\ u + n = EndOf(hs2, h) /\ HeapForPtr(u) = h /\ HeapsOK(hs2) /\ h \in DOMAIN hs2
  <2>1. h # FirstHeap
    BY <1>1, <1>4 DEF HeapsOK
  <2>2. u = Start(h)
    BY <2>1, <1>4, <1>u, StartIs
  <2>3. u + n = EndOf(hs2, h)
    BY <1>u, <1>6, <1>8, <1>4, <1>5, Constants DEF EndOf
  <2>4. HeapsOK(hs2) /\ h \in DOMAIN hs2
    BY <1>8 DEF AddedHeap
  <2>5. h <= u /\ u < EndOf(hs2, h) /\ u \in Int
    BY <2>3, <1>u, <1>4, <1>6, <1>2, Constants
  <2> QED BY <2>2, <2>3, <2>4, <2>5, UnitInHeap
<1>10. /\ Arena(m, hs2, u, binned, held)
       /\ md[top].size >= 4 =>
                 /\ top \in DOMAIN m /\ top \notin binned \cup held /\ top # u /\ m[top].size # 0
                 /\ m[top].md_next # u /\ m[m[top].md_next].size # 0
  <2>1. R = Register(md, u, Chunk(n, Nil, Nil))
    BY <1>R, <1>6
  <2> QED BY <2>1, <1>m, <1>1, <1>6, <1>8, <1>9, FencedArena
<1>11. md[top].size \in Nat
  BY <1>1, TopFacts
<1>12. PICK s, B : /\ Arena(s, hs2, u, B, held) /\ SplitTop(s, u, nb) /\ binned' = B
  <2>1. CASE md[top].size - MINSIZE >= MINSIZE
    <3>1. md[top].size >= 4
      BY <2>1, <1>11, Constants
    <3>2. PICK F : F = Freed(m, binned, u, top)
      OBVIOUS
    <3>3. /\ Arena(F.md, hs2, F.top, F.binned, held)
          /\ m[top].md_next # u => F.top = u
      BY <3>1, <3>2, <1>10, <1>9, FreedArena
    <3>4. Arena(F.md, hs2, u, F.binned, held)
      BY <3>1, <3>3, <1>10
    <3>5. SplitTop(F.md, u, nb) /\ binned' = F.binned
      BY <2>1, <3>2, <1>3
    <3> QED BY <3>4, <3>5
  <2>2. CASE ~(md[top].size - MINSIZE >= MINSIZE)
    <3>1. SplitTop(m, u, nb) /\ binned' = binned
      BY <2>2, <1>3
    <3> QED BY <3>1, <1>10
  <2> QED BY <2>1, <2>2
<1>13. s[u].size = n
  <2>1. Geo(s, hs2, u)
    BY <1>12 DEF Arena
  <2>2. u + s[u].size = EndOf(hs2, h) /\ s[u].size \in Nat /\ u \in Nat
    BY <2>1, <1>9, TopFacts
  <2> QED BY <2>2, <1>9, <1>6
<1>14. md' = Carve(s, u, nb) /\ top' = u + nb /\ held' = held \cup {u}
  BY <1>12 DEF SplitTop
<1>15. PICK r, z : r = u + nb /\ z = Carve(s, u, nb)
  OBVIOUS
<1>16. Arena(z, hs2, r, B, held \cup {u})
  <2>1. s[u].size >= nb + MINSIZE
    BY <1>13, <1>6
  <2> QED BY <2>1, <1>2, <1>9, <1>12, <1>15, TakeTop
<1>17. HeapsOK(heaps') /\ Arena(md', heaps', top', binned', held')
  BY <1>3, <1>7, <1>9, <1>12, <1>14, <1>15, <1>16
<1>18. op' \in {Nil, HeapForPtr(top')}
  BY <1>3
<1>19. system_mem' = Total(heaps')
  <2>1. Rest(hs2, h, heaps)
    BY <1>8, <1>4 DEF Rest, AddedHeap
  <2>2. Total(hs2) = hs2[h].size + Total(heaps) /\ Total(heaps) \in Nat
    BY <2>1, <1>9, HeapsSummed, TotalWithout
  <2> QED BY <2>2, <1>3, <1>5, <1>7, <1>8, InvParts
<1> QED BY <1>17, <1>18, <1>19 DEF HeapsInv

LEMMA FreeKeeps ==
    ASSUME HeapsInv, NEW p \in held, Free(p)
    PROVE  HeapsInv'
<1>1. HeapsOK(heaps) /\ Arena(md, heaps, top, binned, held) /\ Geo(md, heaps, top)
  BY InvParts
<1>2. PICK F : F = Freed(md, binned, top, p)
  OBVIOUS
<1>3. /\ md' = F.md /\ binned' = F.binned /\ top' = F.top
      /\ op' = IF F.size >= ConsolidateThreshold THEN HeapForPtr(top) ELSE Nil
      /\ held' = held \ {p} /\ heaps' = heaps /\ system_mem' = system_mem
  BY <1>2, Zenon DEF Free
<1>4. PICK L : L = held \ {p}
  OBVIOUS
<1>5. Arena(md, heaps, top, binned, L)
  BY <1>1, <1>4, InvParts DEF Arena, Places
<1>6. /\ p \in DOMAIN md /\ p \notin binned \cup L /\ p # top
      /\ md[p].size # 0 /\ md[md[p].md_next].size # 0
  BY <1>4, InvParts DEF Places
<1>7. Arena(F.md, heaps, F.top, F.binned, L) /\ HeapForPtr(F.top) = HeapForPtr(top)
  BY <1>1, <1>2, <1>5, <1>6, FreedArena
<1>8. HeapsOK(heaps') /\ Arena(md', heaps', top', binned', held')
  BY <1>1, <1>3, <1>4, <1>7
<1>9. op' \in {Nil, HeapForPtr(top')}
  BY <1>3, <1>7
<1>10. system_mem' = Total(heaps')
  BY <1>3, InvParts
<1> QED BY <1>8, <1>9, <1>10 DEF HeapsInv

LEMMA DeleteHeapKeeps ==
    ASSUME HeapsInv, DeleteHeap
    PROVE  HeapsInv'
<1>1. HeapsOK(heaps) /\ Arena(md, heaps, top, binned, held) /\ Geo(md, heaps, top)
  BY InvParts
<1>2. op # Nil /\ top = op + HeapInfo /\ heaps[op].prev # Nil
  BY DEF DeleteHeap, EmptyHeap, Sane, Prev
<1>3. op = HeapForPtr(top) /\ op \in DOMAIN heaps /\ op \in Bases
  BY <1>1, <1>2, InvParts, TopFacts DEF HeapsOK
<1>4. op # FirstHeap
  BY <1>1, <1>2, <1>3 DEF HeapsOK
<1>5. top = Start(op)
  BY <1>2, <1>3, <1>4, StartIs
<1>6. PICK hs2 : hs2 = Without(heaps, op)
  OBVIOUS
<1>7. DroppedHeap(heaps, top, op, hs2)
  BY <1>1, <1>3, <1>4, <1>5, <1>6, FewerHeaps
<1>8. PICK k, f, b : k = Prev /\ f = Fencepost /\ b = BeforePost
  OBVIOUS
<1>9. Posted(md, heaps, op, k, f, b)
  <2>1. k = heaps[op].prev
    BY <1>8 DEF Prev
  <2>2. f = EndOf(heaps, k) - 1
    <3>1. k \in DOMAIN heaps
      BY <2>1, <1>1, <1>2, <1>3 DEF HeapsOK
    <3>2. PICK a, c \in Int : a = k /\ c = heaps[k].size
      BY <3>1, <1>1, HeapFacts
    <3>3. f = a + c - (MINSIZE - 1)
      BY <3>2, <1>8 DEF Fencepost
    <3>4. f = a + c - 1
      BY <3>3, Constants
    <3> QED BY <3>2, <3>4 DEF EndOf
  <2>3. b = md[f].md_prev
    BY <1>8 DEF BeforePost
  <2> QED BY <2>1, <2>2, <2>3 DEF Posted
<1>10. PICK s : s = Unlisted(md, b, f, top, md[top].md_next)
  OBVIOUS
<1>11. PICK F : F = MergeBack(s, binned, b)
  OBVIOUS
<1>12. /\ md' = SetHead(F.md, F.p, F.size + (MINSIZE - 1))
       /\ binned' = F.binned /\ top' = F.p
       /\ system_mem' = system_mem - heaps[op].size
       /\ heaps' = hs2 /\ op' = k /\ held' = held
  BY <1>6, <1>8, <1>10, <1>11, Zenon DEF DeleteHeap, Unlisted
<1>13. PICK z : z = Retopped(F)
  OBVIOUS
<1>14. md' = z
  BY <1>12, <1>13 DEF Retopped, MINSIZE
<1>15. Arena(z, hs2, F.p, F.binned, held) /\ HeapForPtr(F.p) = k
  BY <1>1, <1>7, <1>9, <1>10, <1>11, <1>13, DeletedArena
<1>16. HeapsOK(hs2)
  BY <1>7 DEF DroppedHeap
<1>17. HeapsOK(heaps') /\ Arena(md', heaps', top', binned', held')
  BY <1>12, <1>14, <1>15, <1>16
<1>18. op' \in {Nil, HeapForPtr(top')}
  BY <1>12, <1>15
<1>19. system_mem' = Total(heaps')
  <2>1. /\ Total(heaps) \in Nat /\ Total(hs2) \in Nat
        /\ Total(heaps) = heaps[op].size + Total(hs2)
    BY <1>1, <1>3, <1>6, TotalSplit
  <2>2. heaps[op].size \in Nat
    BY <1>1, <1>3, HeapFacts
  <2> QED BY <2>1, <2>2, <1>12, InvParts
<1> QED BY <1>17, <1>18, <1>19 DEF HeapsInv

LEMMA ShrinkHeapKeeps ==
    ASSUME HeapsInv, ShrinkHeap
    PROVE  HeapsInv'
<1>1. HeapsOK(heaps) /\ Arena(md, heaps, top, binned, held) /\ Geo(md, heaps, top)
  BY InvParts
<1>h. PICK h : h = op
  OBVIOUS
<1>e. PICK extra : extra = Extra
  OBVIOUS
<1>n. PICK new_size : new_size = heaps[h].size - extra
  OBVIOUS
<1>2. /\ op # Nil /\ md[top].size - MINSIZE > TopPad /\ extra > 0 /\ new_size >= HeapInfo
      /\ \/ heaps' = [heaps EXCEPT ![h].size = new_size, ![h].mprotect_size = new_size,
                                   ![h].access = new_size]
         \/ heaps' = [heaps EXCEPT ![h].size = new_size]
      /\ system_mem' = system_mem - extra
      /\ md' = SetHead(md, top, md[top].size - extra)
      /\ op' = Nil /\ binned' = binned /\ top' = top /\ held' = held
  BY <1>h, <1>e, <1>n, Zenon DEF ShrinkHeap, LoopEnds, Shrinks
<1>3. h = HeapForPtr(top)
  BY <1>h, <1>2, InvParts
<1>4. /\ top \in DOMAIN md /\ top \in Nat /\ md[top].size \in Nat /\ h \in DOMAIN heaps
      /\ top + md[top].size = EndOf(heaps, h)
  BY <1>1, <1>3, TopFacts
<1>5. /\ h \in Nat /\ heaps[h].size \in Nat /\ heaps[h].mprotect_size \in Nat /\ heaps[h].access \in Nat
      /\ heaps[h].size <= HEAP_MAX_SIZE /\ heaps[h].size % PageSize = 0
      /\ heaps[h].mprotect_size <= heaps[h].access /\ heaps[h].size <= heaps[h].access
  BY <1>1, <1>4, HeapFacts DEF HeapsOK, HeapRec
<1>6. extra \in Nat /\ extra % PageSize = 0 /\ extra + MINSIZE <= md[top].size
  <2>1. PICK n \in Int : n = md[top].size - MINSIZE - TopPad - 1
    <3>1. md[top].size - MINSIZE - TopPad - 1 \in Int
      BY <1>4, Constants
    <3> QED BY <3>1
  <2>2. extra = AlignDown(n, PageSize)
    BY <2>1, <1>e DEF Extra
  <2>3. PageSize \in Nat \ {0}
    BY Constants
  <2>4. /\ AlignDown(n, PageSize) \in Int /\ AlignDown(n, PageSize) <= n
        /\ \E q \in Int : AlignDown(n, PageSize) = PageSize * q
    BY <2>3, RoundedDown
  <2>5. extra \in Int /\ extra <= n
    BY <2>2, <2>4
  <2>6. extra % PageSize = 0
    <3>1. \E q \in Int : extra = PageSize * q
      BY <2>2, <2>4
    <3> QED BY <3>1, <2>3, <2>5, Multiple
  <2>7. extra + MINSIZE <= md[top].size
    BY <2>1, <2>5, <1>4, Constants
  <2> QED BY <2>5, <2>6, <2>7, <1>2
<1>7. new_size \in Nat /\ new_size <= heaps[h].size /\ new_size % PageSize = 0
  <2>1. PICK a, b \in Int : a = heaps[h].size /\ b = extra
    BY <1>5, <1>6
  <2>2. a % PageSize = 0 /\ b % PageSize = 0 /\ PageSize \in Nat \ {0}
    BY <2>1, <1>5, <1>6, Constants
  <2>3. (a - b) % PageSize = 0
    BY <2>2, SumOfMultiples
  <2>4. new_size % PageSize = 0
    BY <2>1, <2>3, <1>n
  <2>5. new_size \in Nat /\ new_size <= heaps[h].size
    BY <1>2, <1>5, <1>6, <1>n, Constants
  <2> QED BY <2>4, <2>5
<1>8. PICK hs2 : hs2 = heaps'
  OBVIOUS
<1>9. heaps \in [DOMAIN heaps -> HeapRec]
  BY <1>1 DEF HeapsOK
<1>10. \E mp, acc \in Nat : mp <= acc /\ new_size <= acc /\ Sized(heaps, h, new_size, mp, acc, hs2)
  <2>1. CASE hs2 = [heaps EXCEPT ![h].size = new_size, ![h].mprotect_size = new_size,
                                 ![h].access = new_size]
    <3>1. Sized(heaps, h, new_size, new_size, new_size, hs2)
      BY <2>1, <1>4, <1>7, <1>9 DEF Sized, HeapRec
    <3> QED BY <3>1, <1>7
  <2>2. CASE hs2 = [heaps EXCEPT ![h].size = new_size]
    <3>1. PICK mp, acc \in Nat : mp = heaps[h].mprotect_size /\ acc = heaps[h].access
      BY <1>5
    <3>2. Sized(heaps, h, new_size, mp, acc, hs2)
      BY <2>2, <3>1, <1>4, <1>7, <1>9 DEF Sized, HeapRec
    <3>3. mp <= acc /\ new_size <= acc
      BY <3>1, <1>5, <1>7
    <3> QED BY <3>2, <3>3
  <2> QED BY <2>1, <2>2, <1>2, <1>8
<1>11. PICK mp, acc \in Nat : mp <= acc /\ new_size <= acc /\ Sized(heaps, h, new_size, mp, acc, hs2)
  BY <1>10
<1>12. /\ HeapsOK(hs2) /\ DOMAIN hs2 = DOMAIN heaps
       /\ \A g \in DOMAIN heaps : hs2[g].prev = heaps[g].prev /\ (g # h => hs2[g].size = heaps[g].size)
       /\ Total(hs2) = Total(heaps) + new_size - heaps[h].size
  <2>1. HeapInfo <= new_size /\ new_size <= HEAP_MAX_SIZE
    BY <1>2, <1>5, <1>7, Constants
  <2> QED BY <2>1, <1>1, <1>4, <1>7, <1>11, SizedHeaps
<1>13. hs2[h].size = new_size
  BY <1>11 DEF Sized
<1>14. PICK size \in Nat : size = md[top].size - extra
  <2>1. md[top].size - extra \in Nat
    BY <1>4, <1>6, Constants
  <2> QED BY <2>1
<1>15. size >= MINSIZE /\ top + size = EndOf(hs2, h)
  <2>1. size >= MINSIZE
    BY <1>4, <1>6, <1>14, Constants
  <2>2. top + md[top].size = h + heaps[h].size
    BY <1>4 DEF EndOf
  <2>3. top + size = h + new_size
    BY <2>2, <1>14, <1>n, <1>4, <1>5, <1>6
  <2> QED BY <2>1, <2>3, <1>13 DEF EndOf
<1>16. PICK z : z = SetHead(md, top, size)
  OBVIOUS
<1>17. Arena(z, hs2, top, binned, held)
  <2>1. HeapsOK(hs2) /\ DOMAIN hs2 = DOMAIN heaps
    BY <1>12
  <2>2. \A g \in DOMAIN heaps : hs2[g].prev = heaps[g].prev /\ (g # h => hs2[g].size = heaps[g].size)
    BY <1>12
  <2> QED BY <2>1, <2>2, <1>15, <1>1, <1>3, <1>16, ResizeTop
<1>18. md' = z
  BY <1>2, <1>14, <1>16
<1>19. HeapsOK(heaps') /\ Arena(md', heaps', top', binned', held')
  BY <1>2, <1>8, <1>12, <1>17, <1>18
<1>20. op' \in {Nil, HeapForPtr(top')}
  BY <1>2
<1>21. system_mem' = Total(heaps')
  <2>1. HeapsOK(heaps) /\ IsFiniteSet(DOMAIN heaps)
    BY <1>1, HeapsSummed DEF Summed
  <2>2. Total(heaps) \in Nat
    BY <1>1, <1>4, TotalSplit
  <2> QED BY <2>2, <1>2, <1>5, <1>6, <1>8, <1>12, <1>n, InvParts
<1> QED BY <1>19, <1>20, <1>21 DEF HeapsInv

LEMMA TrimDoneKeeps ==
    ASSUME HeapsInv, TrimDone
    PROVE  HeapsInv'
<1>1. /\ heaps' = heaps /\ md' = md /\ binned' = binned /\ top' = top /\ held' = held
      /\ system_mem' = system_mem /\ op' = Nil
  BY Zenon DEF TrimDone
<1> QED BY <1>1 DEF HeapsInv

LEMMA HeapsInvFirst ==
    ASSUME HeapsInit
    PROVE  HeapsInv
<1>s. PICK size : size = HeapSize(HeapInfo + ArenaState + 1)
  OBVIOUS
<1>p. PICK p : p = Start(FirstHeap)
  OBVIOUS
<1>c. PICK c : c = Heap(size, Nil)
  OBVIOUS
<1>d. PICK d : d = Chunk(FirstHeap + size - p, Nil, Nil)
  OBVIOUS
<1>1. /\ heaps = [h \in {FirstHeap} |-> c] /\ md = [x \in {p} |-> d]
      /\ top = p /\ system_mem = size /\ binned = {} /\ held = {} /\ op = Nil
  BY <1>s, <1>p, <1>c, <1>d, Zenon DEF HeapsInit
<1>2. FirstHeap \in Bases /\ FirstHeap \in Nat /\ FirstHeap # Nil /\ p = FirstHeap + HeapInfo + ArenaState
      /\ p \in Nat
  <2>1. FirstHeap \in Bases
    BY FirstIsBase
  <2>2. FirstHeap \in Nat /\ FirstHeap # Nil
    BY Constants DEF FirstHeap
  <2> QED BY <2>1, <2>2, <1>p, StartIs
<1>3. /\ size \in Nat /\ size <= HEAP_MAX_SIZE /\ size % PageSize = 0 /\ HEAP_MIN_SIZE <= size
  <2>1. PICK want \in Nat : want = HeapInfo + ArenaState + 1 /\ want <= HEAP_MAX_SIZE
    BY Constants
  <2>2. /\ HeapSize(want) \in Nat /\ HeapSize(want) <= HEAP_MAX_SIZE /\ HeapSize(want) % PageSize = 0
        /\ HEAP_MIN_SIZE <= HeapSize(want)
    BY <2>1, HeapSizeIs
  <2> QED BY <2>1, <2>2, <1>s
<1>4. c \in HeapRec /\ c.size = size /\ c.mprotect_size = size /\ c.access = size /\ c.prev = Nil
  <2>1. Nil \in Int
    BY Constants
  <2> QED BY <2>1, <1>3, <1>c, HeapIs
<1>5. HeapInfo <= size
  BY <1>3, Constants
<1>6. HeapsOK(heaps)
  <2>1. DOMAIN heaps = {FirstHeap} /\ heaps[FirstHeap] = c /\ heaps \in [DOMAIN heaps -> HeapRec]
    BY <1>1, <1>4
  <2> QED BY <2>1, <1>2, <1>3, <1>4, <1>5 DEF HeapsOK
<1>7. PICK n \in Nat : n = FirstHeap + size - p /\ n >= MINSIZE /\ p + n = FirstHeap + size
  <2>1. /\ FirstHeap + size - p \in Nat /\ FirstHeap + size - p >= MINSIZE
        /\ p + (FirstHeap + size - p) = FirstHeap + size
    BY <1>2, <1>3, Constants
  <2> QED BY <2>1
<1>8. d = Chunk(n, Nil, Nil) /\ Nil \in Int
  BY <1>7, <1>d, Constants
<1>9. FreshChunk(d, n, Nil, Nil)
  BY <1>8, ChunkIs
<1>10. DOMAIN md = {p} /\ md[p] = d /\ md \in [{p} -> ChunkInfo]
  BY <1>1, <1>9 DEF FreshChunk
<1>11. Geo(md, heaps, top)
  <2>1. DOMAIN heaps = {FirstHeap}
    BY <1>1
  <2>2. p + n = EndOf(heaps, FirstHeap)
    BY <1>7, <1>1, <1>4 DEF EndOf
  <2>3. FreshChunk(md[p], n, Nil, Nil)
    BY <1>9, <1>10
  <2>4. Geo(md, heaps, p)
    BY <2>1, <2>2, <2>3, <1>6, <1>7, <1>10, <1>p, GeoFirst
  <2> QED BY <2>4, <1>1
<1>12. Tags(md, top, binned)
  BY <1>1, <1>9, <1>10 DEF Tags, Right, FreshChunk
<1>13. Places(md, top, binned, held)
  <2>1. md[p].size # 0
    BY <1>7, <1>9, <1>10, Constants DEF FreshChunk
  <2> QED BY <2>1, <1>1, <1>10 DEF Places
<1>14. system_mem = Total(heaps)
  <2>1. DOMAIN heaps = {FirstHeap} /\ heaps[FirstHeap].size = size
    BY <1>1, <1>4
  <2> QED BY <2>1, <1>1, <1>3, TotalOne
<1>15. op \in {Nil, HeapForPtr(top)}
  BY <1>1
<1> QED BY <1>6, <1>11, <1>12, <1>13, <1>14, <1>15 DEF HeapsInv, Arena

LEMMA HeapsInvNext ==
    ASSUME HeapsInv, [HeapsNext]_heapsVars
    PROVE  HeapsInv'
<1>1. CASE UNCHANGED heapsVars
  <2>1. /\ heaps' = heaps /\ md' = md /\ binned' = binned /\ top' = top /\ held' = held
        /\ system_mem' = system_mem /\ op' = op
    BY <1>1 DEF heapsVars
  <2> QED BY <2>1 DEF HeapsInv
<1>2. ASSUME NEW nb \in Requests, Malloc(nb) PROVE HeapsInv'
  BY <1>2, MallocFitKeeps, MallocTopKeeps, GrowHeapKeeps, AddHeapKeeps, Zenon DEF Malloc
<1>3. ASSUME NEW p \in held, Free(p) PROVE HeapsInv'
  BY <1>3, FreeKeeps
<1>4. CASE Trim
  BY <1>4, DeleteHeapKeeps, ShrinkHeapKeeps, TrimDoneKeeps, Zenon DEF Trim
<1> QED BY <1>1, <1>2, <1>3, <1>4, Zenon DEF HeapsNext

\* The inductive invariant: the heaps and the chunks fit together, and system_mem is the
\* total of the heaps, whatever sysmalloc, _int_free and heap_trim do.
THEOREM HeapsInvAlways == HeapsSpec => []HeapsInv
<1>1. HeapsInit => HeapsInv
  BY HeapsInvFirst
<1>2. HeapsInv /\ [HeapsNext]_heapsVars => HeapsInv'
  BY HeapsInvNext
<1> QED BY <1>1, <1>2, PTL DEF HeapsSpec

(***************************************************************************)
(* What follows from the invariant                                         *)
(***************************************************************************)
LEMMA TypesHold ==
    ASSUME HeapsInv
    PROVE  HeapsTypeOK
<1>1. HeapsOK(heaps) /\ Geo(md, heaps, top)
  BY InvParts
<1>2. Linkage(md, top)
  BY <1>1, LinkageIs
<1>3. /\ DOMAIN heaps \subseteq Bases
      /\ \A h \in DOMAIN heaps :
            /\ heaps[h].size \in HeapInfo .. HEAP_MAX_SIZE /\ heaps[h].size % PageSize = 0
            /\ heaps[h].prev \in DOMAIN heaps \cup {Nil}
  BY <1>1, Constants DEF HeapsOK, HeapRec
<1>4. top \in DOMAIN md /\ binned \subseteq DOMAIN md /\ held \subseteq DOMAIN md
  BY <1>2, InvParts DEF Linkage, Tags, Places
<1>5. ASSUME NEW p \in DOMAIN md
      PROVE  /\ md[p].size \in Nat /\ md[p].prev_inuse \in BOOLEAN
             /\ {md[p].md_next, md[p].md_prev} \subseteq DOMAIN md \cup {Nil}
  <2>1. md[p].size \in Nat /\ md[p].prev_inuse \in BOOLEAN
    <3>1. PICK D : D = DOMAIN md
      OBVIOUS
    <3>2. md \in [D -> ChunkInfo] /\ p \in D
      BY <3>1, InvParts
    <3> QED BY <3>2, FieldTypes
  <2>2. md[p].md_prev \in DOMAIN md \cup {Nil} /\ md[p].md_next \in DOMAIN md \cup {Nil}
    BY <1>2 DEF Linkage
  <2> QED BY <2>1, <2>2
<1>6. op \in DOMAIN heaps \cup {Nil}
  BY <1>1, InvParts, TopFacts
<1> QED BY <1>3, <1>4, <1>5, <1>6, InvParts DEF HeapsTypeOK

LEMMA UnitsAre ==
    ASSUME HeapsInv, NEW p \in DOMAIN md
    PROVE  /\ p \in Nat /\ UnitsOf(md[p]) \in Nat /\ UnitsOf(md[p]) >= 1
           /\ \A x : x \in Units(p) <=> x \in Int /\ p <= x /\ x < p + UnitsOf(md[p])
<1>1. p \in Nat /\ UnitsOf(md[p]) \in Nat /\ UnitsOf(md[p]) >= 1
  BY InvParts, ChunkFacts
<1>2. PICK n : n = UnitsOf(md[p])
  OBVIOUS
<1>3. Units(p) = p .. p + n - 1
  BY <1>2 DEF Units, UnitsOf
<1> QED BY <1>1, <1>2, <1>3

LEMMA HeapsTiled ==
    ASSUME HeapsInv, NEW h \in DOMAIN heaps
    PROVE  UNION {Units(p) : p \in {q \in DOMAIN md : HeapForPtr(q) = h}} = Start(h) .. End(h) - 1
<1>1. HeapsOK(heaps) /\ Geo(md, heaps, top)
  BY InvParts
<1>2. PICK a, e \in Int : a = Start(h) /\ e = EndOf(heaps, h) /\ h < a
  BY <1>1, HeapFacts
<1>3. End(h) = e
  BY <1>2 DEF End, EndOf
<1>4. ASSUME NEW p \in DOMAIN md, HeapForPtr(p) = h, NEW x \in Units(p) PROVE x \in a .. e - 1
  <2>1. x \in Int /\ p <= x /\ x < p + UnitsOf(md[p]) /\ p \in Nat /\ UnitsOf(md[p]) \in Nat
    BY <1>4, UnitsAre
  <2>2. a <= p /\ p + UnitsOf(md[p]) <= e
    BY <1>1, <1>2, <1>4, ChunkFacts
  <2> QED BY <2>1, <2>2, <1>2
<1>5. ASSUME NEW x \in a .. e - 1 PROVE \E p \in DOMAIN md : HeapForPtr(p) = h /\ x \in Units(p)
  <2>1. x \in Start(h) .. EndOf(heaps, h) - 1 /\ x \in Int /\ a <= x /\ x < e
    BY <1>2, <1>5
  <2>2. PICK p \in DOMAIN md : p <= x /\ x < p + UnitsOf(md[p])
    BY <2>1, <1>1 DEF Geo, Covers
  <2>3. x \in Units(p)
    BY <2>1, <2>2, UnitsAre
  <2>4. HeapForPtr(x) = HeapForPtr(p)
    BY <2>1, <2>2, <1>1, SameHeap
  <2>5. HeapForPtr(x) = h
    <3>1. h <= x /\ x < EndOf(heaps, h)
      <4>1. h \in Nat
        BY <1>1, HeapFacts
      <4> QED BY <4>1, <2>1, <1>2
    <3> QED BY <3>1, <2>1, <1>1, UnitInHeap
  <2> QED BY <2>3, <2>4, <2>5
<1>6. UNION {Units(p) : p \in {q \in DOMAIN md : HeapForPtr(q) = h}} = a .. e - 1
  <2>1. ASSUME NEW x \in UNION {Units(p) : p \in {q \in DOMAIN md : HeapForPtr(q) = h}}
        PROVE  x \in a .. e - 1
    <3>1. PICK p \in DOMAIN md : HeapForPtr(p) = h /\ x \in Units(p)
      BY <2>1
    <3> QED BY <3>1, <1>4
  <2>2. ASSUME NEW x \in a .. e - 1
        PROVE  x \in UNION {Units(p) : p \in {q \in DOMAIN md : HeapForPtr(q) = h}}
    <3>1. PICK p \in DOMAIN md : HeapForPtr(p) = h /\ x \in Units(p)
      BY <1>5
    <3> QED BY <3>1
  <2> QED BY <2>1, <2>2
<1> QED BY <1>2, <1>3, <1>6

LEMMA ChunksApart ==
    ASSUME HeapsInv, NEW p \in DOMAIN md, NEW q \in DOMAIN md, p # q
    PROVE  Units(p) \cap Units(q) = {}
<1>1. Disjointly(md)
  BY InvParts DEF Geo
<1>2. p \in Nat /\ q \in Nat /\ UnitsOf(md[p]) \in Nat /\ UnitsOf(md[q]) \in Nat
  BY UnitsAre
<1>3. p + UnitsOf(md[p]) <= q \/ q + UnitsOf(md[q]) <= p
  BY <1>1, <1>2 DEF Disjointly
<1>4. ASSUME NEW x, x \in Units(p), x \in Units(q) PROVE FALSE
  <2>1. x \in Int /\ p <= x /\ x < p + UnitsOf(md[p])
    BY <1>4, UnitsAre
  <2>2. q <= x /\ x < q + UnitsOf(md[q])
    BY <1>4, UnitsAre
  <2> QED BY <2>1, <2>2, <1>2, <1>3
<1> QED BY <1>4

LEMMA ChunksLinked ==
    ASSUME HeapsInv
    PROVE  Linked
<1>1. HeapsOK(heaps) /\ Geo(md, heaps, top)
  BY InvParts
<1>2. Nexts(md, heaps, top) /\ TopEnds(md, heaps, top) /\ Nil \notin DOMAIN md
  BY <1>1, InvParts DEF Geo
<1>3. ASSUME NEW p \in DOMAIN md, NEW n, n = md[p].md_next
      PROVE  /\ (n = Nil) <=> (p = top)
             /\ n # Nil => /\ md[n].md_prev = p
                            /\ n = IF md[p].size = 0
                                   THEN Start(CHOOSE h \in DOMAIN heaps : heaps[h].prev = HeapForPtr(p))
                                   ELSE p + md[p].size
  <2>1. CASE p = top
    BY <2>1, <1>2, <1>3 DEF Nexts
  <2>2. CASE p # top
    <3>1. n \in DOMAIN md /\ md[n].md_prev = p /\ Follows(md, heaps, p, n)
      BY <2>2, <1>2, <1>3 DEF Nexts
    <3>2. ASSUME md[p].size = 0
          PROVE  n = Start(CHOOSE h \in DOMAIN heaps : heaps[h].prev = HeapForPtr(p))
      <4>1. PICK g \in DOMAIN heaps : heaps[g].prev = HeapForPtr(p) /\ n = Start(g)
        BY <3>1, <3>2 DEF Follows
      <4>2. PICK k : k = CHOOSE h \in DOMAIN heaps : heaps[h].prev = HeapForPtr(p)
        OBVIOUS
      <4>3. k \in DOMAIN heaps /\ heaps[k].prev = HeapForPtr(p)
        BY <4>1, <4>2
      <4>4. k = g
        BY <4>1, <4>3, <1>1 DEF HeapsOK
      <4> QED BY <4>1, <4>2, <4>4
    <3>3. md[p].size # 0 => n = p + md[p].size
      BY <3>1 DEF Follows
    <3> QED BY <3>1, <3>2, <3>3, <2>2, <1>2
  <2> QED BY <2>1, <2>2
<1>4. HeapForPtr(top) \notin {heaps[h].prev : h \in DOMAIN heaps}
  BY <1>2 DEF TopEnds, IsPrev
<1> QED BY <1>3, <1>4 DEF Linked

LEMMA TilingHolds ==
    ASSUME HeapsInv
    PROVE  Tiling
BY TypesHold, HeapsTiled, ChunksApart, ChunksLinked DEF Tiling

LEMMA BoundaryTagsHold ==
    ASSUME HeapsInv
    PROVE  BoundaryTags
<1>1. ASSUME NEW p \in DOMAIN md, p # top, NEW n, n = md[p].md_next
      PROVE  /\ md[n].prev_inuse <=> p \notin binned
             /\ p \in binned => md[n].prev_size = md[p].size /\ n # top /\ n \notin binned
  <2>1. n \in DOMAIN md /\ md[n].md_prev = p
    BY <1>1, InvParts, NextChunk
  <2>2. Right(md, binned, n)
    BY <2>1, InvParts DEF Tags
  <2>3. p \in binned => n # top /\ n \notin binned
    BY <1>1, InvParts DEF Tags
  <2> QED BY <2>1, <2>2, <2>3 DEF Right
<1> QED BY <1>1 DEF BoundaryTags

LEMMA AccessibleHolds ==
    ASSUME HeapsInv
    PROVE  Accessible
BY InvParts DEF Accessible, HeapsOK

\* Every chunk behind the header of a heap is smaller than the arena.
LEMMA SmallerThanArena ==
    ASSUME HeapsInv, NEW n \in DOMAIN md
    PROVE  md[n].size < system_mem
<1>1. HeapsOK(heaps) /\ Geo(md, heaps, top) /\ system_mem = Total(heaps)
  BY InvParts
<1>2. PICK h : h = HeapForPtr(n)
  OBVIOUS
<1>3. /\ h \in DOMAIN heaps /\ n \in Nat /\ md[n].size \in Nat /\ h < n
      /\ n + UnitsOf(md[n]) <= EndOf(heaps, h) /\ UnitsOf(md[n]) \in Nat /\ UnitsOf(md[n]) >= 1
      /\ md[n].size # 0 => UnitsOf(md[n]) = md[n].size
  BY <1>1, <1>2, ChunkFacts
<1>4. h \in Nat /\ heaps[h].size \in Nat
  BY <1>1, <1>3, HeapFacts
<1>5. Total(heaps) \in Nat /\ heaps[h].size <= Total(heaps)
  <2>1. /\ Total(heaps) \in Nat /\ Total(Without(heaps, h)) \in Nat
        /\ Total(heaps) = heaps[h].size + Total(Without(heaps, h))
    BY <1>1, <1>3, TotalSplit
  <2> QED BY <2>1, <1>4
<1>6. md[n].size < heaps[h].size
  <2>1. md[n].size <= UnitsOf(md[n])
    BY <1>3
  <2>2. n + UnitsOf(md[n]) <= h + heaps[h].size
    BY <1>3 DEF EndOf
  <2> QED BY <2>1, <2>2, <1>3, <1>4
<1> QED BY <1>1, <1>3, <1>4, <1>5, <1>6

LEMMA FreeChecks ==
    ASSUME HeapsInv, NEW p \in held
    PROVE  ~FreeAborts(p)
<1>1. PICK n : n = md[p].md_next
  OBVIOUS
<1>2. p \in DOMAIN md /\ p # top /\ p \notin binned /\ md[n].size # 0
  BY <1>1, InvParts DEF Places
<1>3. n \in DOMAIN md /\ md[n].md_prev = p
  BY <1>1, <1>2, InvParts, NextChunk
<1>4. md[n].prev_inuse
  BY <1>2, <1>3, InvParts DEF Tags, Right
<1>5. md[n].size < system_mem /\ md[n].size \in Nat
  BY <1>3, InvParts, ChunkFacts, SmallerThanArena
<1>6. system_mem \in Nat
  <2>1. HeapsOK(heaps) /\ FirstHeap \in DOMAIN heaps
    BY InvParts DEF HeapsOK
  <2> QED BY <2>1, InvParts, TotalSplit
<1>7. ~(md[n].size >= system_mem)
  BY <1>5, <1>6
<1> QED BY <1>1, <1>2, <1>4, <1>7 DEF FreeAborts

\* the newest heap h, which the top chunk t has for itself
NewestAlone(hs, t, h) ==
    h \in DOMAIN hs /\ h # FirstHeap /\ h = HeapForPtr(t) /\ t = Start(h)

LEMMA PostFacts ==
    ASSUME NEW m, NEW hs, NEW t, HeapsOK(hs), Geo(m, hs, t),
           NEW h, NewestAlone(hs, t, h), NEW g, NEW f, NEW b, Posted(m, hs, h, g, f, b)
    PROVE  /\ g \in DOMAIN hs /\ g # h /\ g # Nil
           /\ f \in DOMAIN m /\ m[f].size = 0 /\ m[f].md_next = t /\ m[t].md_prev = f /\ f # t
           /\ b \in DOMAIN m /\ m[b].size # 0 /\ m[b].md_next = f /\ b # f /\ b # t
           /\ f = b + m[b].size /\ HeapForPtr(b) = g /\ HeapForPtr(f) = g
<1>1. h \in DOMAIN hs /\ h # FirstHeap /\ h = HeapForPtr(t) /\ t = Start(h)
  BY DEF NewestAlone
<1> QED BY <1>1, PostBefore DEF Posted

LEMMA TrimChecks ==
    ASSUME HeapsInv, EmptyHeap
    PROVE  Sane
<1>1. HeapsOK(heaps) /\ Geo(md, heaps, top) /\ Tags(md, top, binned) /\ Places(md, top, binned, held)
  BY InvParts
<1>2. op # Nil /\ top = op + HeapInfo
  BY DEF EmptyHeap
<1>h. PICK h : h = op
  OBVIOUS
<1>3. h = HeapForPtr(top) /\ h \in DOMAIN heaps /\ h \in Bases
  BY <1>1, <1>2, <1>h, InvParts, TopFacts DEF HeapsOK
<1>4. h # FirstHeap
  <2>1. Start(h) <= top /\ top \in Nat
    BY <1>1, <1>3, TopFacts, ChunkFacts
  <2>2. Start(FirstHeap) = FirstHeap + HeapInfo + ArenaState
    BY FirstIsBase, StartIs
  <2>3. FirstHeap \in Nat
    BY Constants DEF FirstHeap
  <2> QED BY <2>1, <2>2, <2>3, <1>2, <1>h, Constants
<1>5. top = Start(h)
  BY <1>2, <1>3, <1>4, <1>h, StartIs
<1>6. PICK g, f, b : Posted(md, heaps, h, g, f, b)
  BY DEF Posted
<1>7. /\ g \in DOMAIN heaps /\ g # h /\ g # Nil
      /\ f \in DOMAIN md /\ md[f].size = 0 /\ md[f].md_next = top /\ md[top].md_prev = f /\ f # top
      /\ b \in DOMAIN md /\ md[b].size # 0 /\ md[b].md_next = f /\ b # f /\ b # top
      /\ f = b + md[b].size /\ HeapForPtr(b) = g /\ HeapForPtr(f) = g
  <2>1. NewestAlone(heaps, top, h)
    BY <1>3, <1>4, <1>5 DEF NewestAlone
  <2> QED BY <2>1, <1>1, <1>6, PostFacts
<1>8. Prev = g
  BY <1>6, <1>h DEF Prev, Posted
<1>9. Fencepost = f
  <2>1. PICK a, c \in Int : a = g /\ c = heaps[g].size
    BY <1>1, <1>7, HeapFacts
  <2>2. Fencepost = a + c - (MINSIZE - 1)
    BY <2>1, <1>8 DEF Fencepost
  <2>3. Fencepost = a + c - 1
    BY <2>2, Constants
  <2> QED BY <2>1, <2>3, <1>6 DEF EndOf, Posted
<1>10. BeforePost = b
  BY <1>6, <1>9 DEF BeforePost, Posted
<1>11. md[b].size \in {1, 2}
  BY <1>1, <1>6, <1>7 DEF Places, Posted
<1>12. md[f].prev_inuse
  <2>1. Right(md, binned, f)
    BY <1>1, <1>7 DEF Tags
  <2>2. b \notin binned
    BY <1>1, <1>7 DEF Places
  <2> QED BY <2>1, <2>2, <1>6 DEF Right, Posted
<1>13. Shortened > 0 /\ Shortened < 2 * MINSIZE
  <2>1. Shortened = md[b].size + (MINSIZE - 1)
    BY <1>10 DEF Shortened
  <2> QED BY <2>1, <1>11, Constants
<1> QED BY <1>7, <1>8, <1>9, <1>12, <1>13 DEF Sane

LEMMA NoAbortHolds ==
    ASSUME HeapsInv
    PROVE  NoAbort
BY FreeChecks, TrimChecks DEF NoAbort

\* The chunks of each heap tile it, linked in order across the heaps, whatever new_heap,
\* grow_heap, the fenceposts of sysmalloc and heap_trim have done to them.
THEOREM TilingAlways == HeapsSpec => []Tiling
BY HeapsInvAlways, TilingHolds, PTL

\* PREV_INUSE is clear exactly behind a free chunk, whose size prev_size then is, across
\* fenceposts and heaps: free chunks always merge, with each other and with the top.
THEOREM BoundaryTagsAlways == HeapsSpec => []BoundaryTags
BY HeapsInvAlways, BoundaryTagsHold, PTL

\* A heap is never larger than what the kernel lets the process touch of it, nor does
\* mprotect_size say more, in whichever way shrink_heap gave pages back.
THEOREM AccessibleAlways == HeapsSpec => []Accessible
BY HeapsInvAlways, AccessibleHolds, PTL

\* No assertion of heap_trim fails, its fencepost being where it looks for it, and no check
\* of _int_free does.
THEOREM NoAbortAlways == HeapsSpec => []NoAbort
BY HeapsInvAlways, NoAbortHolds, PTL
================================================================================
