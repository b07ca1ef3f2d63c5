------------------------------- MODULE AtomicMap -------------------------------
(***************************************************************************)
(* What the lock-free table of lfht.c promises: a map, on which each       *)
(* operation takes effect at one moment between its call and its return.   *)
(* TOMBSTONE is the value of a key that is absent.  The promise may be     *)
(* withdrawn for good: broken says so.                                     *)
(***************************************************************************)
CONSTANTS Threads, Keys, Values, TOMBSTONE

VARIABLES
    map,        \* the value of every key
    pending,    \* what each thread is doing
    broken

vars == <<map, pending, broken>>

\* no operation, or one that has not taken effect yet, or one with its answer
NoCall == [op |-> "none"]

Init ==
    /\ map = [k \in Keys |-> TOMBSTONE]
    /\ pending = [t \in Threads |-> NoCall]
    /\ broken = FALSE

Call(t) ==
    /\ pending[t] = NoCall
    /\ \E op \in {"add", "remove", "find"}, k \in Keys, v \in Values \cup {TOMBSTONE} :
          pending' = [pending EXCEPT ![t] = [op |-> op, key |-> k, val |-> v]]
    /\ UNCHANGED map

Answered(t, a) == pending' = [pending EXCEPT ![t] = [op |-> "answered", answer |-> a]]

\* an add may also find no room
Add(t) ==
    LET c == pending[t]
    IN  /\ c.op = "add"
        /\ \/ map' = [map EXCEPT ![c.key] = c.val] /\ Answered(t, TRUE)
           \/ UNCHANGED map /\ Answered(t, FALSE)

\* the answer false means that the key was absent
Remove(t) ==
    LET c == pending[t]
    IN  /\ c.op = "remove"
        /\ map' = [map EXCEPT ![c.key] = TOMBSTONE]
        /\ \/ Answered(t, TRUE)
           \/ map[c.key] = TOMBSTONE /\ Answered(t, FALSE)

Find(t) ==
    LET c == pending[t]
    IN  /\ c.op = "find"
        /\ Answered(t, map[c.key])
        /\ UNCHANGED map

Return(t) ==
    /\ pending[t].op = "answered"
    /\ pending' = [pending EXCEPT ![t] = NoCall]
    /\ UNCHANGED map

Kept == ~broken /\ ~broken' /\ \E t \in Threads : Call(t) \/ Add(t) \/ Remove(t) \/ Find(t) \/ Return(t)

Next == Kept \/ broken'

Spec == Init /\ [][Next]_vars
=============================================================================
