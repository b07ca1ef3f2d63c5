------------------------------ MODULE MetadataMap ------------------------------
(***************************************************************************)
(* What the metadata table promises the arena (metadata.h): a chunk maps   *)
(* to the buckets added for it, the last one first.                        *)
(***************************************************************************)
EXTENDS Sequences

CONSTANTS Chunks, Buckets, NoBucket

VARIABLES
    stacks, \* the buckets of every chunk
    answer  \* what the last lookup or deletion returned

First(c) == IF stacks[c] = <<>> THEN NoBucket ELSE Head(stacks[c])

Init ==
    /\ stacks = [c \in Chunks |-> <<>>]
    /\ answer = NoBucket

Add(c, b) ==
    /\ \A d \in Chunks : \A i \in DOMAIN stacks[d] : stacks[d][i] # b
    /\ stacks' = [stacks EXCEPT ![c] = <<b>> \o @]
    /\ UNCHANGED answer

Lookup(c) ==
    /\ answer' = First(c)
    /\ UNCHANGED stacks

Delete(c) ==
    /\ answer' = First(c)
    /\ stacks' = [stacks EXCEPT ![c] = IF @ = <<>> THEN @ ELSE Tail(@)]

DeleteAll(c) ==
    /\ stacks' = [stacks EXCEPT ![c] = <<>>]
    /\ UNCHANGED answer

Next ==
    \E c \in Chunks :
        \/ \E b \in Buckets : Add(c, b)
        \/ Lookup(c) \/ Delete(c) \/ DeleteAll(c)

Spec == Init /\ [][Next]_<<stacks, answer>>
=============================================================================
