------------------------------- MODULE Replay -------------------------------
(***************************************************************************)
(* Recording a program's calls (mhooks/mhook.c) and replaying them         *)
(* (replay/replaylib.c). A hook makes the call and writes its line after   *)
(* it, so lines of different threads come in another order than the calls. *)
(* The replayer makes the calls again and keeps a table from the addresses *)
(* of the log to those that it got itself. The table accumulates values    *)
(* under a key, the latest first; lphash.c promises that (lphash.h:150).   *)
(*                                                                         *)
(* A line of calloc differs from one of malloc in its sizes only, and      *)
(* replay_calloc from replay_malloc in nothing that matters here. mtreplay *)
(* has several threads that replay the same file, each with its own table. *)
(***************************************************************************)
EXTENDS Naturals, Sequences, FiniteSets

CONSTANTS
    Threads,        \* the program's
    Addrs,          \* the addresses that the program gets
    Replayers,      \* the threads of mtreplay, or the one of replay
    Vals,           \* the addresses that the replayers get
    NULL,
    MaxCalls        \* bound on the recorded calls

ASSUME ReplayAssumption == NULL \notin Addrs \union Vals /\ MaxCalls \in Nat

VARIABLES
    early,      \* blocks that the program got before mhook_init opened the log
    live,       \* the program's blocks
    line,       \* for each of its threads, the line that it has still to write
    log,
    exited,     \* the program has ended; its log is complete
    heap,       \* blocks of the replaying process
    htbl,       \* for each replayer and each address of the log, its values
    pos,        \* the line that a replayer reads next
    status,     \* running, or failed: process_file gave up
    short       \* history: the replayer itself did not get memory

recording == <<early, live, line, log, exited>>
replaying == <<heap, htbl, pos, status, short>>
vars      == <<early, live, line, log, exited, heap, htbl, pos, status, short>>

NoLine == [op |-> "none"]
Malloc(p)        == [op |-> "m", out |-> p]
Free(p)          == [op |-> "f", in |-> p]
Realloc(p, n, q) == [op |-> "r", in |-> p, size |-> n, out |-> q]

Init ==
    /\ early \in SUBSET Addrs /\ live = early
    /\ line = [t \in Threads |-> NoLine]
    /\ log = <<>> /\ exited = FALSE
    /\ heap = {}
    /\ htbl = [r \in Replayers |-> [a \in Addrs \union {NULL} |-> <<>>]]
    /\ pos = [r \in Replayers |-> 1]
    /\ status = [r \in Replayers |-> "running"]
    /\ short = [r \in Replayers |-> FALSE]

(***************************************************************************)
(* Recording.                                                              *)
(***************************************************************************)
Pending == {t \in Threads : line[t] # NoLine}

\* T has made the call of line L and writes it later; the hooks are off for T until then
Calls(t, l) ==
    /\ ~exited /\ t \notin Pending
    /\ Len(log) + Cardinality(Pending) < MaxCalls
    /\ line' = [line EXCEPT ![t] = l]
    /\ UNCHANGED <<early, log, exited, replaying>>

Fresh == Addrs \ live

\* the block that a call without its line will return, or leave to its caller
InCall(l) ==
    IF l.op \notin {"m", "r"} THEN NULL
    ELSE IF l.op = "r" /\ l.out = NULL /\ l.size # 0 THEN l.in ELSE l.out

\* blocks that the program may pass to a call
Usable == live \ {InCall(line[t]) : t \in Threads}

my_malloc_hook(t) ==
    \/ \E p \in Fresh : Calls(t, Malloc(p)) /\ live' = live \union {p}
    \/ Calls(t, Malloc(NULL)) /\ UNCHANGED live

my_free_hook(t) ==
    \E p \in Usable \union {NULL} : Calls(t, Free(p)) /\ live' = live \ {p}

\* Size 0 frees, a null pointer allocates, and a block that cannot grow stays.
my_realloc_hook(t) ==
    \/ \E p \in Usable : Calls(t, Realloc(p, 0, NULL)) /\ live' = live \ {p}
    \/ \E n \in {0, 1}, q \in Fresh : Calls(t, Realloc(NULL, n, q)) /\ live' = live \union {q}
    \/ \E p \in Usable, q \in Fresh :
          Calls(t, Realloc(p, 1, q)) /\ live' = (live \ {p}) \union {q}
    \/ \E p \in Usable : Calls(t, Realloc(p, 1, p)) /\ UNCHANGED live
    \/ \E p \in Usable \union {NULL} : Calls(t, Realloc(p, 1, NULL)) /\ UNCHANGED live

\* Mutant: nothing is written for a call with a null pointer in it.
WriteLogEntryMutant(t) ==
    /\ ~exited /\ t \in Pending
    /\ log' = IF line[t].op = "r" /\ line[t].out = NULL THEN log ELSE Append(log, line[t])
    /\ line' = [line EXCEPT ![t] = NoLine]
    /\ UNCHANGED <<early, live, exited, replaying>>

\* one write, to a file opened with O_APPEND
WriteLogEntry(t) ==
    /\ ~exited /\ t \in Pending
    /\ log' = Append(log, line[t])
    /\ line' = [line EXCEPT ![t] = NoLine]
    /\ UNCHANGED <<early, live, exited, replaying>>

\* exit does not wait for other threads: lines may be missing at the end
Exit ==
    /\ ~exited /\ exited' = TRUE
    /\ UNCHANGED <<early, live, line, log, replaying>>

(***************************************************************************)
(* Replaying.                                                              *)
(***************************************************************************)
\* process_file ends at the line that cannot be replayed
Fails(r) ==
    /\ status' = [status EXCEPT ![r] = "failed"]
    /\ UNCHANGED pos

Goes(r) ==
    /\ pos' = [pos EXCEPT ![r] = @ + 1]
    /\ UNCHANGED status

lphash_lookup(r, key) == IF htbl[r][key] = <<>> THEN NULL ELSE Head(htbl[r][key])

\* Mutant: all buckets of the key go, as in lphash_delete_all.
DeletedMutant(r, key) == [htbl[r] EXCEPT ![key] = <<>>]

\* the table without the first bucket of KEY, if there is one
Deleted(r, key) == IF htbl[r][key] = <<>> THEN htbl[r] ELSE [htbl[r] EXCEPT ![key] = Tail(@)]

Inserted(table, key, val) == [table EXCEPT ![key] = <<val>> \o @]

\* The line ends with the insertion of VAL under KEY into TABLE, unless there is no memory for
\* the bucket, or for the expansion of the table after it.  Where the log has an address and the
\* replayer gets none, it is short of memory.
Insert(r, table, key, val) ==
    \/ /\ htbl' = [htbl EXCEPT ![r] = Inserted(table, key, val)]
       /\ short' = [short EXCEPT ![r] = @ \/ (val = NULL /\ key # NULL)]
       /\ Goes(r)
    \/ /\ \E left \in {table, Inserted(table, key, val)} : htbl' = [htbl EXCEPT ![r] = left]
       /\ short' = [short EXCEPT ![r] = TRUE]
       /\ Fails(r)

NewVals == Vals \ heap

replay_malloc(r, l) ==
    /\ l.op = "m"
    /\ \E val \in NewVals \union {NULL} :
          /\ heap' = heap \union ({val} \ {NULL})
          /\ Insert(r, htbl[r], l.out, val)

\* Mutant: the key stays in the table.
replay_freeMutant(r, l) ==
    /\ l.op = "f"
    /\ heap' = IF l.in = NULL THEN heap ELSE heap \ {lphash_lookup(r, l.in)}
    /\ Goes(r)
    /\ UNCHANGED <<htbl, short>>

\* free of a null pointer does nothing, a key that is not there or has no value is passed over
replay_free(r, l) ==
    LET val == IF l.in = NULL THEN NULL ELSE lphash_lookup(r, l.in) IN
    /\ l.op = "f"
    /\ heap' = heap \ {val}
    /\ htbl' = IF val = NULL THEN htbl ELSE [htbl EXCEPT ![r] = Deleted(r, l.in)]
    /\ Goes(r)
    /\ UNCHANGED short

\* what realloc(OLD, SIZE) may answer, whatever it answered in the log
ReallocResults(old, size) ==
    IF old # NULL /\ size = 0 THEN {NULL}
    ELSE NewVals \union {NULL} \union {old}

\* the block OLD is gone unless it is the answer or there was none
AfterRealloc(old, size, new) ==
    IF new = NULL /\ size # 0 THEN heap ELSE (heap \ {old}) \union ({new} \ {NULL})

\* the address is the same in the log and here
Stays(l, old, new) == l.in = l.out /\ old = new

replay_realloc(r, l) ==
    LET old == IF l.in = NULL THEN NULL ELSE lphash_lookup(r, l.in) IN
    /\ l.op = "r"
    /\ \/ /\ l.in # NULL /\ old = NULL
          /\ Fails(r)
          /\ UNCHANGED <<heap, htbl, short>>
       \/ /\ l.in # NULL => old # NULL
          /\ \E new \in ReallocResults(old, l.size) :
                /\ heap' = AfterRealloc(old, l.size, new)
                /\ IF l.size # 0 /\ Stays(l, old, new)
                   THEN Goes(r) /\ UNCHANGED <<htbl, short>>
                   ELSE Insert(r, Deleted(r, l.in), l.out, new)

process_file(r) ==
    /\ exited
    /\ status[r] = "running" /\ pos[r] <= Len(log)
    /\ LET l == log[pos[r]] IN replay_malloc(r, l) \/ replay_free(r, l) \/ replay_realloc(r, l)
    /\ UNCHANGED recording

Next ==
    \/ \E t \in Threads :
          my_malloc_hook(t) \/ my_free_hook(t) \/ my_realloc_hook(t) \/ WriteLogEntry(t)
    \/ Exit
    \/ \E r \in Replayers : process_file(r)

Spec == Init /\ [][Next]_vars

(***************************************************************************)
(* Properties.                                                             *)
(***************************************************************************)
Keys == Addrs \union {NULL}

Lines == [op : {"m"}, out : Keys] \union [op : {"f"}, in : Keys]
         \union [op : {"r"}, in : Keys, size : {0, 1}, out : Keys]

TypeOK ==
    /\ early \subseteq Addrs /\ live \subseteq Addrs /\ exited \in BOOLEAN
    /\ line \in [Threads -> Lines \union {NoLine}] /\ log \in Seq(Lines)
    /\ heap \subseteq Vals
    /\ htbl \in [Replayers -> [Keys -> Seq(Vals \union {NULL})]]
    /\ pos \in [Replayers -> Nat] /\ status \in [Replayers -> {"running", "failed"}]
    /\ short \in [Replayers -> BOOLEAN]
    /\ \A r \in Replayers :
          /\ pos[r] \in 1 .. Len(log) + 1
          /\ status[r] = "failed" => pos[r] <= Len(log)

\* A value of a table is a block of the replaying process, and is in no other place of a table:
\* no replayer frees or reallocates a block twice, or one of another replayer, however the
\* lines are ordered and whatever they say (replaylib.c:576, 466).
ValuesOwned ==
    \A r, q \in Replayers, a, b \in Keys :
        \A i \in 1 .. Len(htbl[r][a]), j \in 1 .. Len(htbl[q][b]) :
            htbl[r][a][i] # NULL =>
                /\ htbl[r][a][i] \in heap
                /\ htbl[r][a][i] = htbl[q][b][j] => r = q /\ a = b /\ i = j

\* A log that began with the program and in which no block was denied its new size.
Complete ==
    /\ early = {}
    /\ \A i \in 1 .. Len(log) :
          log[i].op = "r" => log[i].size = 0 \/ log[i].out # NULL

\* A complete log can be replayed to its end, in whatever order the threads wrote their lines
\* and also if the last ones are missing: a block that realloc takes is in the table
\* (replaylib.c:458).
NeverMissing ==
    \A r \in Replayers : Complete /\ ~short[r] => status[r] = "running"

\* At the end of a complete log to which no line is missing the table has exactly the blocks
\* that the program had at its end, one value each.
MirrorsProgram ==
    \A r \in Replayers :
        Complete /\ exited /\ Pending = {} /\ ~short[r] /\ pos[r] > Len(log) =>
            \A a \in Addrs : Len(htbl[r][a]) = IF a \in live THEN 1 ELSE 0
=============================================================================
