---------------------------------- MODULE Lfht ----------------------------------
(***************************************************************************)
(* The lock-free hash table of lfht.c: open addressing with linear probing *)
(* in a chain of tables.  A table with too many keys gets a successor of   *)
(* twice its length; from then on every operation first moves some keys    *)
(* from the old table to the new one (its migration tax).                  *)
(*                                                                         *)
(* A step is one access to a shared word: the read of a slot, a            *)
(* compare-and-swap, an atomic load or store.  A compare-and-swap that is  *)
(* simply repeated when it fails is one step with the read before it, so   *)
(* the attempts that fail, which change nothing, are left out.             *)
(***************************************************************************)
EXTENDS Integers, Sequences, FiniteSets

CONSTANTS
    Threads, Keys, Values,
    Hash(_),                    \* jenkins_hash_ptr
    InitialMax,                 \* length of the first table, a power of two
    MaxTables,                  \* bound on the number of tables: later ones are refused
    MIGRATIONS_PER_ACCESS,
    MaxCalls                    \* bound on the number of calls

TOMBSTONE == 0
NoKey     == 0

ASSUME LfhtAssumption ==
    /\ InitialMax \in Nat \ {0} /\ MaxTables \in Nat \ {0}
    /\ MIGRATIONS_PER_ACCESS \in Nat \ {0} /\ MaxCalls \in Nat
    /\ NoKey \notin Keys /\ TOMBSTONE \notin Values
    /\ IsFiniteSet(Threads)
    /\ \A k \in Keys : Hash(k) \in Nat

VARIABLES
    tables,     \* the chain; the last one is table_hdr, its predecessor is next
    state,      \* ht->state
    th,         \* what each thread is doing, with its locals
    calls,      \* number of calls so far
    aborted,    \* an assertion failed
    raced       \* history: two operations overlapped while keys were left to move

vars == <<tables, state, th, calls, aborted, raced>>

Last == Len(tables)

(***************************************************************************)
(* Tables                                                                  *)
(***************************************************************************)
EmptySlot == [key |-> NoKey, moved |-> FALSE, val |-> TOMBSTONE]

\* alloc_lfht_hdr: mmap gives zeros
NewTable(max) ==
    [max |-> max, assimilated |-> FALSE, count |-> 0,
     slot |-> [i \in 0 .. max - 1 |-> EmptySlot]]

\* RESIZE_RATIO is 0.6
Threshold(max) == (6 * max) \div 10

Home(n, k)  == Hash(k) % tables[n].max
Slot(n, i)  == tables[n].slot[i]
After(n, i) == (i + 1) % tables[n].max

Write(n, i, s) == tables' = [tables EXCEPT ![n].slot[i] = s]

(***************************************************************************)
(* Threads                                                                 *)
(***************************************************************************)
Idle == [at |-> "idle", op |-> "none", key |-> NoKey, val |-> TOMBSTONE,
         hdr |-> 0, i |-> 0, ret |-> FALSE, valp |-> TOMBSTONE,
         from |-> 0, mi |-> 0, moved |-> 0, success |-> FALSE,
         mkey |-> NoKey, mval |-> TOMBSTONE, external |-> TRUE]

Points == {"idle", "tax", "from", "scan", "mark", "finish", "recheck", "expanded", "start",
           "probe", "update", "store", "count", "grow", "published", "expanding", "check",
           "exit"}

At(t, point) == th[t].at = point
GoTo(t, point) == th' = [th EXCEPT ![t].at = point]
Busy(t) == ~At(t, "idle")

\* the key and value of the add in progress: the thread's own, or those it moves
TheKey(t) == IF th[t].external THEN th[t].key ELSE th[t].mkey
TheVal(t) == IF th[t].external THEN th[t].val ELSE th[t].mval
TheOp(t)  == IF th[t].external THEN th[t].op ELSE "add"

Init ==
    /\ tables = <<NewTable(InitialMax)>>
    /\ state = "initial"
    /\ th = [t \in Threads |-> Idle]
    /\ calls = 0
    /\ aborted = FALSE
    /\ raced = FALSE

Call(t) ==
    /\ At(t, "idle")
    /\ calls < MaxCalls /\ calls' = calls + 1
    /\ \E k \in Keys :
          \/ \E v \in Values :
                th' = [th EXCEPT ![t] = [Idle EXCEPT !.at = "tax", !.op = "add",
                                                     !.key = k, !.val = v]]
          \/ \E op \in {"remove", "find"} :
                th' = [th EXCEPT ![t] = [Idle EXCEPT !.at = "tax", !.op = op, !.key = k]]
    /\ UNCHANGED <<tables, state, aborted>>

(***************************************************************************)
(* _migrate_table and assimilate                                           *)
(***************************************************************************)
\* the locals of assimilate and of the add it calls are forgotten as they return
Goes(t, point) ==
    [th[t] EXCEPT !.at = point, !.mi = 0, !.moved = 0, !.success = FALSE, !.external = TRUE,
                  !.mkey = NoKey, !.mval = TOMBSTONE, !.hdr = 0, !.i = 0,
                  !.from = IF point = "start" THEN 0 ELSE @]

\* Mutant: no tax is paid.
TaxMutant(t) ==
    /\ At(t, "tax")
    /\ GoTo(t, "start")
    /\ UNCHANGED <<tables, state, aborted>>

Tax(t) ==
    /\ At(t, "tax")
    /\ GoTo(t, IF state = "expanding" THEN "from" ELSE "start")
    /\ UNCHANGED <<tables, state, aborted>>

\* table_hdr, and whether the table before it is done with; that one cannot be undone, so
\* the two reads are one step
From(t) ==
    /\ At(t, "from")
    /\ LET from == Last - 1
       IN  th' = [th EXCEPT ![t] =
               IF tables[from].assimilated THEN [Goes(t, "finish") EXCEPT !.from = from]
               ELSE [th[t] EXCEPT !.from = from, !.mi = Home(from, th[t].key), !.at = "scan"]]
    /\ UNCHANGED <<tables, state, aborted>>

\* where assimilate goes after a slot, of n keys moved and sure of the key or not
NextSlot(t, n, sure) ==
    LET from == th[t].from
        next == After(from, th[t].mi)
    IN  IF next # Home(from, th[t].key)
        THEN [Goes(t, "scan") EXCEPT !.mi = next, !.moved = n, !.success = sure]
        ELSE Goes(t, IF n < MIGRATIONS_PER_ACCESS THEN "finish" ELSE "start")

Scan(t) ==
    LET e    == Slot(th[t].from, th[t].mi)
        sure == th[t].success \/ e.key \in {NoKey, th[t].key}
        mine == e.key = th[t].key /\ ~e.moved
        more == th[t].moved < MIGRATIONS_PER_ACCESS
    IN  /\ At(t, "scan")
        /\ th' = [th EXCEPT ![t] =
                  IF (mine \/ more) /\ e.key # NoKey /\ ~e.moved
                  THEN [th[t] EXCEPT !.success = sure, !.at = "mark",
                                     !.mkey = e.key, !.mval = e.val]
                  ELSE IF ~more /\ sure THEN Goes(t, "start")
                  ELSE NextSlot(t, th[t].moved, sure)]
        /\ UNCHANGED <<tables, state, aborted>>

\* The key is marked first; the value that was read before goes to the new table.
Mark(t) ==
    LET e == Slot(th[t].from, th[t].mi)
    IN  /\ At(t, "mark")
        /\ IF e.moved
           THEN UNCHANGED tables /\ th' = [th EXCEPT ![t] = NextSlot(t, th[t].moved, th[t].success)]
           ELSE /\ Write(th[t].from, th[t].mi, [e EXCEPT !.moved = TRUE])
                /\ th' = [th EXCEPT ![t] =
                          IF th[t].mval = TOMBSTONE
                          THEN NextSlot(t, th[t].moved, th[t].success)
                          ELSE [th[t] EXCEPT !.at = "start", !.external = FALSE]]
        /\ UNCHANGED <<state, aborted>>

Finish(t) ==
    /\ At(t, "finish")
    /\ tables' = [tables EXCEPT ![th[t].from].assimilated = TRUE]
    /\ GoTo(t, "recheck")
    /\ UNCHANGED <<state, aborted>>

\* Mutant: the state is not set to expanded after a migration.
RecheckMutant(t) ==
    /\ At(t, "recheck")
    /\ th' = [th EXCEPT ![t] = Goes(t, "start")]
    /\ UNCHANGED <<tables, state, aborted>>

Recheck(t) ==
    /\ At(t, "recheck")
    /\ th' = [th EXCEPT ![t] = Goes(t, IF Last = th[t].from + 1 THEN "expanded" ELSE "start")]
    /\ UNCHANGED <<tables, state, aborted>>

Expanded(t) ==
    /\ At(t, "expanded")
    /\ state' = "expanded"
    /\ th' = [th EXCEPT ![t] = Goes(t, "start")]
    /\ UNCHANGED <<tables, aborted>>

(***************************************************************************)
(* _lfht_add, lfht_remove and lfht_find on the current table               *)
(***************************************************************************)
Start(t) ==
    /\ At(t, "start")
    /\ th' = [th EXCEPT ![t].at = "probe", ![t].hdr = Last, ![t].i = Home(Last, TheKey(t))]
    /\ UNCHANGED <<tables, state, aborted>>

\* the slot that the thread is at
Here(t) == Slot(th[t].hdr, th[t].i)
Matches(e, k) == e.key = k /\ ~e.moved

ProbeNext(t) ==
    LET next == After(th[t].hdr, th[t].i)
    IN  /\ At(t, "probe")
        /\ Here(t).key # NoKey /\ ~Matches(Here(t), TheKey(t))
        /\ th' = [th EXCEPT ![t].i = next,
                            ![t].at = IF next = Home(th[t].hdr, TheKey(t)) THEN "exit" ELSE @]
        /\ UNCHANGED <<tables, state, aborted>>

\* Mutant: the slot of a key that was removed is used again.
ClaimMutant(t) ==
    /\ At(t, "probe") /\ TheOp(t) = "add"
    /\ Here(t).val = TOMBSTONE /\ ~Matches(Here(t), TheKey(t))
    /\ Write(th[t].hdr, th[t].i, [Here(t) EXCEPT !.key = TheKey(t)])
    /\ GoTo(t, "store")
    /\ UNCHANGED <<state, aborted>>

Claim(t) ==
    /\ At(t, "probe") /\ TheOp(t) = "add"
    /\ Here(t).key = NoKey
    /\ Write(th[t].hdr, th[t].i, [Here(t) EXCEPT !.key = TheKey(t)])
    /\ GoTo(t, "store")
    /\ UNCHANGED <<state, aborted>>

Absent(t) ==
    /\ At(t, "probe") /\ TheOp(t) # "add"
    /\ Here(t).key = NoKey
    /\ GoTo(t, "exit")
    /\ UNCHANGED <<tables, state, aborted>>

Present(t) ==
    /\ At(t, "probe")
    /\ Matches(Here(t), TheKey(t))
    /\ GoTo(t, "update")
    /\ UNCHANGED <<tables, state, aborted>>

\* what the client is told; the add of a key that is moved tells nobody
Returns(t, point, val) ==
    th' = [th EXCEPT ![t].at = point, ![t].ret = @ \/ th[t].external, ![t].valp = val]

\* The value alone is read or swapped: the key may have been marked meanwhile.
Update(t) ==
    /\ At(t, "update")
    /\ CASE TheOp(t) = "find"   -> UNCHANGED tables
         [] TheOp(t) = "remove" -> Write(th[t].hdr, th[t].i, [Here(t) EXCEPT !.val = TOMBSTONE])
         [] TheOp(t) = "add"    -> Write(th[t].hdr, th[t].i, [Here(t) EXCEPT !.val = TheVal(t)])
    /\ Returns(t, "exit", IF TheOp(t) = "find" THEN Here(t).val ELSE TOMBSTONE)
    /\ UNCHANGED <<state, aborted>>

Store(t) ==
    /\ At(t, "store")
    /\ Write(th[t].hdr, th[t].i, [Here(t) EXCEPT !.val = TheVal(t)])
    /\ Returns(t, "count", TOMBSTONE)
    /\ UNCHANGED <<state, aborted>>

Count(t) ==
    LET n == tables[th[t].hdr].count + 1
    IN  /\ At(t, "count")
        /\ tables' = [tables EXCEPT ![th[t].hdr].count = n]
        /\ GoTo(t, IF n > Threshold(tables[th[t].hdr].max) THEN "grow" ELSE "exit")
        /\ UNCHANGED <<state, aborted>>

\* Mutant: the operation probes the table that was left again.
ExitMutant(t) ==
    /\ At(t, "exit")
    /\ th' = [th EXCEPT ![t] =
              IF ~th[t].external THEN NextSlot(t, th[t].moved + 1, th[t].success)
              ELSE IF tables[th[t].hdr].assimilated THEN [@ EXCEPT !.at = "probe"]
              ELSE Idle]
    /\ UNCHANGED <<tables, state, aborted>>

\* Slow thread last gasp: an operation of the client on a table that was left is repeated.
Exit(t) ==
    /\ At(t, "exit")
    /\ th' = [th EXCEPT ![t] =
              IF ~th[t].external THEN NextSlot(t, th[t].moved + 1, th[t].success)
              ELSE IF tables[th[t].hdr].assimilated THEN Goes(t, "start")
              ELSE Idle]
    /\ UNCHANGED <<tables, state, aborted>>

(***************************************************************************)
(* _grow_table                                                             *)
(***************************************************************************)
\* someone else was first, or there is no memory
GrowFails(t) ==
    /\ At(t, "grow")
    /\ GoTo(t, "exit")
    /\ UNCHANGED <<tables, state, aborted>>

Grow(t) ==
    /\ At(t, "grow")
    /\ th[t].hdr = Last /\ Last < MaxTables
    /\ tables' = Append(tables, NewTable(2 * tables[Last].max))
    /\ GoTo(t, "published")
    /\ UNCHANGED <<state, aborted>>

\* assert(state == INITIAL || state == EXPANDED)
Published(t) ==
    /\ At(t, "published")
    /\ aborted' = (state = "expanding")
    /\ GoTo(t, "expanding")
    /\ UNCHANGED <<tables, state>>

Expanding(t) ==
    /\ At(t, "expanding")
    /\ state' = "expanding"
    /\ GoTo(t, "check")
    /\ UNCHANGED <<tables, aborted>>

\* the table before the old one must be done with, and nobody may have grown the new one
Check(t) ==
    /\ At(t, "check")
    /\ aborted' = ~(/\ th[t].hdr > 1 => tables[th[t].hdr - 1].assimilated
                    /\ Last = th[t].hdr + 1)
    /\ GoTo(t, "exit")
    /\ UNCHANGED <<tables, state>>

(***************************************************************************)
(* Specification                                                           *)
(***************************************************************************)
Step(t) ==
    \/ Tax(t) \/ From(t) \/ Scan(t) \/ Mark(t) \/ Finish(t) \/ Recheck(t) \/ Expanded(t)
    \/ Start(t) \/ ProbeNext(t) \/ Claim(t) \/ Absent(t) \/ Present(t) \/ Update(t)
    \/ Store(t) \/ Count(t) \/ Exit(t)
    \/ GrowFails(t) \/ Grow(t) \/ Published(t) \/ Expanding(t) \/ Check(t)

Migrating == \E n \in 1 .. Last - 1 : ~tables[n].assimilated
Overlap   == Migrating /\ \E t, u \in Threads : t # u /\ Busy(t) /\ Busy(u)

\* an assertion that fails ends the program
Running == ~aborted /\ raced' = (raced \/ Overlap')

Steps(t) == Step(t) /\ UNCHANGED calls

Next == \E t \in Threads : (Call(t) \/ Steps(t)) /\ Running

Spec == Init /\ [][Next]_vars

\* the scheduler stops no thread for ever
FairSpec == Spec /\ \A t \in Threads : WF_vars(Steps(t) /\ Running)

(***************************************************************************)
(* Properties                                                              *)
(***************************************************************************)
Locals == [at : Points, op : {"none", "add", "remove", "find"},
           key : Keys \cup {NoKey}, val : Values \cup {TOMBSTONE},
           hdr : Nat, i : Nat, ret : BOOLEAN, valp : Values \cup {TOMBSTONE},
           from : Nat, mi : Nat, moved : Nat, success : BOOLEAN,
           mkey : Keys \cup {NoKey}, mval : Values \cup {TOMBSTONE}, external : BOOLEAN]

SlotType == [key : Keys \cup {NoKey}, moved : BOOLEAN, val : Values \cup {TOMBSTONE}]

Used(n) == {i \in 0 .. tables[n].max - 1 : Slot(n, i).key # NoKey}

\* The variables have their types; each table is twice as long as the one before it, and
\* the count on which the decision to grow rests is the number of its keys, but for those
\* whose threads are still between the two (_lfht_add).
TypeOK ==
    /\ Last \in 1 .. MaxTables
    /\ \A n \in 1 .. Last :
          /\ tables[n].max = IF n = 1 THEN InitialMax ELSE 2 * tables[n - 1].max
          /\ tables[n].assimilated \in BOOLEAN
          /\ tables[n].count = Cardinality(Used(n))
                - Cardinality({t \in Threads :
                      th[t].hdr = n /\ (At(t, "store") \/ At(t, "count"))})
          /\ tables[n].slot \in [0 .. tables[n].max - 1 -> SlotType]
    /\ state \in {"initial", "expanding", "expanded"}
    /\ th \in [Threads -> Locals]
    /\ calls \in 0 .. MaxCalls
    /\ aborted \in BOOLEAN /\ raced \in BOOLEAN

(***************************************************************************)
(* Linear probing works in every table, whatever the threads do: a probe   *)
(* that starts at a key's home meets no empty slot before it meets the     *)
(* key, and no key is there twice unmarked.  The slots and the locals have *)
(* their types.                                                            *)
(***************************************************************************)
Distance(n, k, i) == (i - Home(n, k)) % tables[n].max

Probing ==
    /\ TypeOK
    /\ \A n \in 1 .. Last : \A i \in Used(n) :
          LET k == Slot(n, i).key
          IN  \A j \in 0 .. tables[n].max - 1 :
                  Distance(n, k, j) < Distance(n, k, i) =>
                      j \in Used(n) /\ ~(Matches(Slot(n, j), k) /\ Matches(Slot(n, i), k))

(***************************************************************************)
(* No assertion of _grow_table fails as long as operations do not overlap  *)
(* during a migration and no table was filled further than to where it     *)
(* grows, because there was no memory: the table is never grown again      *)
(* before the previous migration is over, which is what the tax is for.    *)
(***************************************************************************)
Crowded == \E n \in 1 .. Last - 1 : tables[n].count > Threshold(tables[n].max) + 1

AssertsHold == aborted => raced \/ Crowded

(***************************************************************************)
(* The table implements AtomicMap as long as operations do not overlap     *)
(* during a migration: each add, remove and find takes effect at one       *)
(* moment, also an operation that grows the table or migrates keys.        *)
(* A value on its way to the next table is still the value of its key.     *)
(***************************************************************************)
InFlight(k) == {t \in Threads : ~th[t].external /\ th[t].mkey = k}
Holding(k)  == {p \in UNION {{n} \X Used(n) : n \in 1 .. Last} :
                    Matches(Slot(p[1], p[2]), k)}
ValueOf(k) ==
    IF InFlight(k) # {} THEN th[CHOOSE t \in InFlight(k) : TRUE].mval
    ELSE IF Holding(k) = {} THEN TOMBSTONE
    ELSE LET p == CHOOSE p \in Holding(k) : \A q \in Holding(k) : q[1] <= p[1]
         IN  Slot(p[1], p[2]).val

PendingOf(t) ==
    LET c == th[t]
    IN  IF c.at = "idle" THEN [op |-> "none"]
        ELSE IF c.external /\ (c.ret \/ c.at = "exit")
             THEN [op |-> "answered", answer |-> IF c.op = "find" THEN c.valp ELSE c.ret]
             ELSE [op |-> c.op, key |-> c.key, val |-> c.val]

ValuesOf == [k \in Keys |-> ValueOf(k)]
PendingOps == [t \in Threads |-> PendingOf(t)]

Map == INSTANCE AtomicMap WITH map <- ValuesOf, pending <- PendingOps, broken <- raced

IsMap == Map!Spec

(***************************************************************************)
(* Every operation returns: the retries of slow threads end ("Termination  *)
(* then becomes an issue"), because the clients make MaxCalls calls, and a *)
(* table that is left is never returned to.                                *)
(***************************************************************************)
OperationsReturn == <>[](aborted \/ \A t \in Threads : ~Busy(t))
=============================================================================
