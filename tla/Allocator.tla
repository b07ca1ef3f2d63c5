------------------------------ MODULE Allocator ------------------------------
(***************************************************************************)
(* What malloc, free, realloc and memalign promise their caller: a live    *)
(* block lies in memory the system has given, and no two live blocks       *)
(* overlap.  The memory grows and shrinks, but never under a live block.   *)
(***************************************************************************)
EXTENDS Integers

CONSTANTS Addresses, Sizes

VARIABLES
    live,   \* the live blocks: address -> size asked for
    memory  \* the units obtained from the system

Block(p, n) == p .. p + n - 1

\* the blocks of f are apart, and inside the memory m
WellPlaced(f, m) ==
    /\ \A p \in DOMAIN f : Block(p, f[p]) \subseteq m
    /\ \A p, q \in DOMAIN f : p # q => Block(p, f[p]) \cap Block(q, f[q]) = {}

Init == live = [p \in {} |-> 0] /\ memory = {}

\* malloc, memalign; and realloc of the block b, which it gives up
Allocate(p, n, b) ==
    /\ live' = [q \in (DOMAIN live \ {b}) \cup {p} |-> IF q = p THEN n ELSE live[q]]
    /\ p \in DOMAIN live => p = b
    /\ \A q \in DOMAIN live \ {b} : Block(p, n) \cap Block(q, live[q]) = {}
    /\ Block(p, n) \subseteq memory
    /\ UNCHANGED memory

Free(p) ==
    /\ p \in DOMAIN live
    /\ live' = [q \in DOMAIN live \ {p} |-> live[q]]
    /\ UNCHANGED memory

\* sbrk, mmap and trimming
Resize ==
    /\ memory' \in SUBSET Addresses
    /\ \A p \in DOMAIN live : Block(p, live[p]) \subseteq memory'
    /\ UNCHANGED live

Next ==
    \/ \E p \in Addresses, n \in Sizes, b \in Addresses : Allocate(p, n, b)
    \/ \E p \in Addresses : Free(p)
    \/ Resize

Spec == Init /\ [][Next]_<<live, memory>>
=============================================================================
