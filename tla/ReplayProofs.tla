---------------------------- MODULE ReplayProofs ----------------------------
(***************************************************************************)
(* The tables of the replayers never hold a block twice, and only blocks   *)
(* of the process, whatever the lines say and in what order they come; and *)
(* a complete log is replayed to its end and leaves the program's blocks.  *)
(* For any number of threads, replayers, addresses, values and calls.      *)
(***************************************************************************)
EXTENDS Replay, SequenceTheorems, FiniteSetTheorems, TLAPS

Tables == [Replayers -> [Keys -> Seq(Vals \union {NULL})]]

\* The non-null values of the tables TABS are blocks of H, each in one place.
Owned(H, tabs) ==
    \A r, q \in Replayers, a, b \in Keys :
        \A i \in 1 .. Len(tabs[r][a]), j \in 1 .. Len(tabs[q][b]) :
            tabs[r][a][i] # NULL =>
                /\ tabs[r][a][i] \in H
                /\ tabs[r][a][i] = tabs[q][b][j] => r = q /\ a = b /\ i = j

Without(tabs, r, key) ==
    [tabs EXCEPT ![r] = IF tabs[r][key] = <<>> THEN tabs[r]
                        ELSE [tabs[r] EXCEPT ![key] = Tail(@)]]
With(tabs, r, key, val) == [tabs EXCEPT ![r] = Inserted(tabs[r], key, val)]
First(tabs, r, key) == IF tabs[r][key] = <<>> THEN NULL ELSE Head(tabs[r][key])

LEMMA OwnedMore ==
    ASSUME NEW H, NEW H2, NEW tabs, Owned(H, tabs), H \subseteq H2
    PROVE  Owned(H2, tabs)
BY DEF Owned

\* What a bucket less does to a sequence.
LEMMA TailPlaces ==
    ASSUME NEW S, NEW s \in Seq(S), s # <<>>
    PROVE  /\ Tail(s) \in Seq(S) /\ Len(Tail(s)) = Len(s) - 1 /\ Len(s) \in Nat \ {0}
           /\ \A i \in 1 .. Len(Tail(s)) : Tail(s)[i] = s[i + 1] /\ i + 1 \in 1 .. Len(s)
           /\ Head(s) = s[1] /\ 1 \in 1 .. Len(s)
OBVIOUS

LEMMA FrontPlaces ==
    ASSUME NEW S, NEW s \in Seq(S), NEW v \in S
    PROVE  LET n == <<v>> \o s IN
           /\ n \in Seq(S) /\ Len(n) = Len(s) + 1 /\ Len(s) \in Nat
           /\ n[1] = v
           /\ \A i \in 2 .. Len(n) : n[i] = s[i - 1] /\ i - 1 \in 1 .. Len(s)
OBVIOUS

\* Deleting the first bucket of a key lets go of its value.
LEMMA WithoutOwned ==
    ASSUME NEW H, NEW tabs \in Tables, Owned(H, tabs), NULL \notin H,
           NEW r \in Replayers, NEW key \in Keys
    PROVE  /\ Without(tabs, r, key) \in Tables
           /\ Owned(H \ {First(tabs, r, key)}, Without(tabs, r, key))
<1> DEFINE t2 == Without(tabs, r, key)
           v == First(tabs, r, key)
<1>1. CASE tabs[r][key] = <<>>
  <2>1. t2 = tabs /\ v = NULL
    BY <1>1 DEF Without, First, Tables
  <2> QED
    BY <2>1, OwnedMore
<1>2. CASE tabs[r][key] # <<>>
  <2> DEFINE s == tabs[r][key]
  <2>1. s \in Seq(Vals \union {NULL})
    BY DEF Tables
  <2>2. /\ Tail(s) \in Seq(Vals \union {NULL}) /\ Len(Tail(s)) = Len(s) - 1 /\ Len(s) \in Nat \ {0}
        /\ \A i \in 1 .. Len(Tail(s)) : Tail(s)[i] = s[i + 1] /\ i + 1 \in 1 .. Len(s)
        /\ Head(s) = s[1] /\ 1 \in 1 .. Len(s)
    BY <1>2, <2>1, TailPlaces
  <2>3. /\ t2 = [tabs EXCEPT ![r] = [tabs[r] EXCEPT ![key] = Tail(s)]]
        /\ v = s[1]
    BY <1>2, <2>2 DEF Without, First, Tables
  <2>4. t2 \in Tables
    BY <2>2, <2>3 DEF Tables
  <2>5. /\ t2[r][key] = Tail(s)
        /\ \A q \in Replayers, b \in Keys : (q # r \/ b # key) => t2[q][b] = tabs[q][b]
    BY <2>3 DEF Tables
  <2> DEFINE Old(q, b, i) == IF q = r /\ b = key THEN i + 1 ELSE i
  <2>6. ASSUME NEW q \in Replayers, NEW b \in Keys, NEW i \in 1 .. Len(t2[q][b])
        PROVE  /\ Old(q, b, i) \in 1 .. Len(tabs[q][b])
               /\ t2[q][b][i] = tabs[q][b][Old(q, b, i)]
               /\ t2[q][b][i] # NULL => t2[q][b][i] # v
    <3>1. CASE q = r /\ b = key
      <4>1. i \in 1 .. Len(Tail(s)) /\ t2[q][b][i] = Tail(s)[i]
        BY <2>5, <3>1
      <4>2. Old(q, b, i) = i + 1 /\ i + 1 \in 1 .. Len(s) /\ t2[q][b][i] = s[i + 1]
        BY <2>2, <3>1, <4>1
      <4>3. i + 1 # 1
        BY <4>1, <2>2
      <4>4. s[i + 1] # NULL => s[i + 1] # s[1]
        BY <2>2, <4>2, <4>3 DEF Owned
      <4> QED
        BY <2>3, <3>1, <4>2, <4>4
    <3>2. CASE q # r \/ b # key
      <4>1. t2[q][b] = tabs[q][b] /\ Old(q, b, i) = i
        BY <2>5, <3>2
      <4>2. tabs[q][b][i] # NULL => tabs[q][b][i] # s[1]
        BY <2>2, <3>2, <4>1 DEF Owned
      <4> QED
        BY <2>3, <4>1, <4>2
    <3> QED
      BY <3>1, <3>2
  <2> HIDE DEF t2, v
  <2>7. ASSUME NEW p \in Replayers, NEW q \in Replayers, NEW a \in Keys, NEW b \in Keys,
               NEW i \in 1 .. Len(t2[p][a]), NEW j \in 1 .. Len(t2[q][b]),
               t2[p][a][i] # NULL
        PROVE  /\ t2[p][a][i] \in H \ {v}
               /\ t2[p][a][i] = t2[q][b][j] => p = q /\ a = b /\ i = j
    <3>1. /\ Old(p, a, i) \in 1 .. Len(tabs[p][a]) /\ t2[p][a][i] = tabs[p][a][Old(p, a, i)]
          /\ Old(q, b, j) \in 1 .. Len(tabs[q][b]) /\ t2[q][b][j] = tabs[q][b][Old(q, b, j)]
          /\ t2[p][a][i] # v
      BY <2>6, <2>7
    <3> HIDE DEF Old
    <3>2. /\ t2[p][a][i] \in H
          /\ t2[p][a][i] = t2[q][b][j] => p = q /\ a = b /\ Old(p, a, i) = Old(q, b, j)
      BY <2>7, <3>1, SMTT(30) DEF Owned
    <3>3. i \in Int /\ j \in Int
      BY <2>4, <2>7 DEF Tables
    <3> QED
      BY <3>1, <3>2, <3>3 DEF Old
  <2>8. Owned(H \ {v}, t2)
    BY <2>7 DEF Owned
  <2> QED
    BY <2>4, <2>8 DEF t2, v
<1> QED
  BY <1>1, <1>2

\* A new bucket with a value that no table can have.
LEMMA WithOwned ==
    ASSUME NEW H, NEW tabs \in Tables, Owned(H, tabs), NULL \notin Vals,
           NEW r \in Replayers, NEW key \in Keys, NEW val \in (Vals \ H) \union {NULL}
    PROVE  /\ With(tabs, r, key, val) \in Tables
           /\ Owned(H \union ({val} \ {NULL}), With(tabs, r, key, val))
<1> DEFINE t2 == With(tabs, r, key, val)
           s == tabs[r][key]
           n == <<val>> \o s
<1>1. s \in Seq(Vals \union {NULL})
  BY DEF Tables
<1>2. /\ n \in Seq(Vals \union {NULL}) /\ Len(n) = Len(s) + 1 /\ Len(s) \in Nat
      /\ n[1] = val
      /\ \A i \in 2 .. Len(n) : n[i] = s[i - 1] /\ i - 1 \in 1 .. Len(s)
  BY <1>1, FrontPlaces
<1>3. t2 = [tabs EXCEPT ![r] = [tabs[r] EXCEPT ![key] = n]]
  BY DEF With, Inserted, Tables
<1>4. t2 \in Tables
  BY <1>2, <1>3 DEF Tables
<1>5. /\ t2[r][key] = n
      /\ \A q \in Replayers, b \in Keys : (q # r \/ b # key) => t2[q][b] = tabs[q][b]
  BY <1>3 DEF Tables
<1> DEFINE New(q, b, i) == q = r /\ b = key /\ i = 1
           Old(q, b, i) == IF q = r /\ b = key THEN i - 1 ELSE i
<1>6. ASSUME NEW q \in Replayers, NEW b \in Keys, NEW i \in 1 .. Len(t2[q][b])
      PROVE  /\ i \in Int
             /\ New(q, b, i) => t2[q][b][i] = val
             /\ ~New(q, b, i) => /\ Old(q, b, i) \in 1 .. Len(tabs[q][b])
                                 /\ t2[q][b][i] = tabs[q][b][Old(q, b, i)]
                                 /\ t2[q][b][i] # NULL => t2[q][b][i] # val /\ t2[q][b][i] \in H
  <2>1. i \in Int
    OBVIOUS
  <2>2. CASE New(q, b, i)
    BY <1>2, <1>5, <2>1, <2>2
  <2>3. CASE q = r /\ b = key /\ i # 1
    <3>1. i \in 2 .. Len(n) /\ t2[q][b][i] = n[i]
      BY <1>2, <1>5, <2>1, <2>3, SMTT(30)
    <3>2. i - 1 \in 1 .. Len(s) /\ n[i] = s[i - 1]
      BY <1>2, <3>1
    <3>3. s[i - 1] # NULL => s[i - 1] \in H
      BY <3>2 DEF Owned
    <3> QED
      BY <2>1, <2>3, <3>1, <3>2, <3>3
  <2>4. CASE q # r \/ b # key
    <3>1. t2[q][b] = tabs[q][b]
      BY <1>5, <2>4
    <3>2. tabs[q][b][i] # NULL => tabs[q][b][i] \in H
      BY <3>1 DEF Owned
    <3> QED
      BY <2>1, <2>4, <3>1, <3>2
  <2> QED
    BY <2>2, <2>3, <2>4
<1> HIDE DEF t2
<1>7. ASSUME NEW p \in Replayers, NEW q \in Replayers, NEW a \in Keys, NEW b \in Keys,
             NEW i \in 1 .. Len(t2[p][a]), NEW j \in 1 .. Len(t2[q][b]),
             t2[p][a][i] # NULL
      PROVE  /\ t2[p][a][i] \in H \union ({val} \ {NULL})
             /\ t2[p][a][i] = t2[q][b][j] => p = q /\ a = b /\ i = j
  <2>1. /\ i \in Int /\ j \in Int
        /\ New(p, a, i) => t2[p][a][i] = val
        /\ New(q, b, j) => t2[q][b][j] = val
        /\ ~New(p, a, i) => /\ Old(p, a, i) \in 1 .. Len(tabs[p][a])
                            /\ t2[p][a][i] = tabs[p][a][Old(p, a, i)]
                            /\ t2[p][a][i] # val /\ t2[p][a][i] \in H
        /\ ~New(q, b, j) => /\ Old(q, b, j) \in 1 .. Len(tabs[q][b])
                            /\ t2[q][b][j] = tabs[q][b][Old(q, b, j)]
                            /\ t2[q][b][j] # NULL => t2[q][b][j] # val
    BY <1>6, <1>7
  <2>2. CASE ~New(p, a, i) /\ ~New(q, b, j)
    <3> DEFINE x == Old(p, a, i)
               y == Old(q, b, j)
    <3>1. /\ x \in 1 .. Len(tabs[p][a]) /\ t2[p][a][i] = tabs[p][a][x]
          /\ y \in 1 .. Len(tabs[q][b]) /\ t2[q][b][j] = tabs[q][b][y]
          /\ tabs[p][a][x] # NULL
      BY <1>7, <2>1, <2>2
    <3> HIDE DEF x, y
    <3>2. tabs[p][a][x] = tabs[q][b][y] => p = q /\ a = b /\ x = y
      BY <3>1 DEF Owned
    <3> QED
      BY <2>1, <2>2, <3>1, <3>2 DEF x, y
  <2>3. CASE New(p, a, i) /\ New(q, b, j)
    BY <1>7, <2>1, <2>3
  <2>4. CASE New(p, a, i) /\ ~New(q, b, j)
    BY <1>7, <2>1, <2>4
  <2>5. CASE ~New(p, a, i) /\ New(q, b, j)
    BY <1>7, <2>1, <2>5
  <2> QED
    BY <2>2, <2>3, <2>4, <2>5
<1>8. Owned(H \union ({val} \ {NULL}), t2)
  BY <1>7 DEF Owned
<1> QED
  BY <1>4, <1>8 DEF t2

-----------------------------------------------------------------------------
\* What a line says of its addresses.
LEMMA LineAddresses ==
    ASSUME NEW l \in Lines
    PROVE  /\ l.op = "m" => l.out \in Keys
           /\ l.op = "f" => l.in \in Keys
           /\ l.op = "r" => l.in \in Keys /\ l.out \in Keys
BY DEF Lines

Inv == TypeOK /\ ValuesOwned

LEMMA InitInv == Init => Inv
<1> SUFFICES ASSUME Init PROVE Inv
  OBVIOUS
<1>1. TypeOK
  <2>1. <<>> \in Seq(Vals \union {NULL}) /\ <<>> \in Seq(Lines) /\ Len(<<>>) = 0
    OBVIOUS
  <2>2. htbl \in [Replayers -> [Keys -> Seq(Vals \union {NULL})]]
    BY <2>1 DEF Init, Keys
  <2>3. /\ log \in Seq(Lines) /\ Len(log) = 0
        /\ line \in [Threads -> Lines \union {NoLine}]
    BY <2>1 DEF Init
  <2>4. /\ early \subseteq Addrs /\ live \subseteq Addrs /\ exited \in BOOLEAN
        /\ heap \subseteq Vals
        /\ pos \in [Replayers -> Nat] /\ status \in [Replayers -> {"running", "failed"}]
        /\ short \in [Replayers -> BOOLEAN]
        /\ \A r \in Replayers : pos[r] = 1 /\ status[r] = "running"
    BY DEF Init
  <2> QED
    BY <2>2, <2>3, <2>4 DEF TypeOK
<1>2. ValuesOwned
  <2>1. \A r \in Replayers, a \in Keys : Len(htbl[r][a]) = 0
    BY DEF Init, Keys
  <2> QED
    BY <2>1 DEF ValuesOwned
<1> QED
  BY <1>1, <1>2 DEF Inv

\* Recording adds lines to the log and touches nothing else that Inv speaks of.
LEMMA CallKeepsInv ==
    ASSUME Inv, NEW t \in Threads, NEW l \in Lines, Calls(t, l), live' \subseteq Addrs
    PROVE  Inv'
<1>1. TypeOK'
  BY DEF Inv, TypeOK, Calls, replaying
<1>2. ValuesOwned'
  BY DEF Inv, ValuesOwned, Calls, replaying
<1> QED
  BY <1>1, <1>2 DEF Inv

LEMMA RecordKeepsInv ==
    ASSUME Inv, NEW t \in Threads,
           my_malloc_hook(t) \/ my_free_hook(t) \/ my_realloc_hook(t)
    PROVE  Inv'
<1>1. live \subseteq Addrs /\ Usable \subseteq Addrs /\ Fresh \subseteq Addrs
  BY DEF Inv, TypeOK, Usable, Fresh
<1>2. ASSUME NEW p \in Keys, NEW q \in Keys, NEW n \in {0, 1}
      PROVE  Malloc(p) \in Lines /\ Free(p) \in Lines /\ Realloc(p, n, q) \in Lines
  BY DEF Lines, Malloc, Free, Realloc
<1>3. \E l \in Lines : Calls(t, l) /\ live' \subseteq Addrs
  <2>1. CASE my_malloc_hook(t)
    BY <1>1, <1>2, <2>1 DEF my_malloc_hook, Keys
  <2>2. CASE my_free_hook(t)
    BY <1>1, <1>2, <2>2 DEF my_free_hook, Keys
  <2>3. CASE my_realloc_hook(t)
    BY <1>1, <1>2, <2>3 DEF my_realloc_hook, Keys
  <2> QED
    BY <2>1, <2>2, <2>3
<1> QED
  BY <1>3, CallKeepsInv

LEMMA WriteKeepsInv ==
    ASSUME Inv, NEW t \in Threads, WriteLogEntry(t)
    PROVE  Inv'
<1>1. line[t] \in Lines /\ log \in Seq(Lines)
  BY DEF Inv, TypeOK, WriteLogEntry, Pending
<1>2. log' \in Seq(Lines) /\ Len(log') = Len(log) + 1 /\ Len(log) \in Nat
  BY <1>1 DEF WriteLogEntry
<1>3. TypeOK'
  BY <1>2 DEF Inv, TypeOK, WriteLogEntry, replaying
<1>4. ValuesOwned'
  BY SMTT(30) DEF Inv, ValuesOwned, WriteLogEntry, replaying
<1> QED
  BY <1>3, <1>4 DEF Inv

\* A line is replayed: the parts of Inv that a replayer can disturb.
LEMMA LineKeepsInv ==
    ASSUME Inv, NEW r \in Replayers, UNCHANGED recording,
           status[r] = "running", pos[r] <= Len(log),
           Goes(r) \/ Fails(r),
           short' \in [Replayers -> BOOLEAN],
           heap' \subseteq Vals, htbl' \in Tables, Owned(heap', htbl')
    PROVE  Inv'
<1>1. TypeOK'
  <2>1. log \in Seq(Lines) /\ Len(log) \in Nat
    BY DEF Inv, TypeOK
  <2>2. /\ pos \in [Replayers -> Nat] /\ status \in [Replayers -> {"running", "failed"}]
        /\ \A q \in Replayers :
              pos[q] \in 1 .. Len(log) + 1 /\ (status[q] = "failed" => pos[q] <= Len(log))
    BY DEF Inv, TypeOK
  <2>3. /\ pos' \in [Replayers -> Nat] /\ status' \in [Replayers -> {"running", "failed"}]
        /\ \A q \in Replayers :
              pos'[q] \in 1 .. Len(log) + 1 /\ (status'[q] = "failed" => pos'[q] <= Len(log))
    <3>1. CASE Goes(r)
      <4>1. status' = status /\ \A q \in Replayers : pos'[q] = IF q = r THEN pos[q] + 1 ELSE pos[q]
        BY <2>2, <3>1 DEF Goes
      <4>2. pos' \in [Replayers -> Nat]
        BY <2>2, <3>1 DEF Goes
      <4>3. ASSUME NEW q \in Replayers
            PROVE  pos'[q] \in 1 .. Len(log) + 1 /\ (status'[q] = "failed" => pos'[q] <= Len(log))
        <5>1. CASE q = r
          <6>1. pos'[q] = pos[q] + 1 /\ pos[q] <= Len(log) /\ status'[q] = "running"
            BY <4>1, <5>1
          <6>2. pos[q] \in 1 .. Len(log) + 1
            BY <2>2
          <6> QED
            BY <2>1, <6>1, <6>2
        <5>2. CASE q # r
          BY <2>2, <4>1, <5>2
        <5> QED
          BY <5>1, <5>2
      <4> QED
        BY <2>2, <4>1, <4>2, <4>3
    <3>2. CASE Fails(r)
      <4>1. pos' = pos /\ \A q \in Replayers : status'[q] = IF q = r THEN "failed" ELSE status[q]
        BY <2>2, <3>2 DEF Fails
      <4>2. status' \in [Replayers -> {"running", "failed"}]
        BY <2>2, <3>2 DEF Fails
      <4> QED
        BY <2>1, <2>2, <4>1, <4>2
    <3> QED
      BY <3>1, <3>2
  <2> QED
    BY <2>3 DEF Inv, TypeOK, recording, Tables
<1>2. ValuesOwned'
  BY DEF ValuesOwned, Owned
<1> QED
  BY <1>1, <1>2 DEF Inv

LEMMA InsertKeepsInv ==
    ASSUME Inv, NEW r \in Replayers, UNCHANGED recording,
           status[r] = "running", pos[r] <= Len(log),
           NEW tabs \in Tables, tabs = [htbl EXCEPT ![r] = tabs[r]],
           NEW key \in Keys, NEW H, H \subseteq Vals, Owned(H, tabs),
           NEW val \in (Vals \ H) \union {NULL},
           heap' \subseteq Vals, H \union ({val} \ {NULL}) \subseteq heap',
           Insert(r, tabs[r], key, val)
    PROVE  Inv'
<1>1. NULL \notin Vals
  BY ReplayAssumption
<1>2. htbl \in Tables /\ short \in [Replayers -> BOOLEAN]
  BY DEF Inv, TypeOK, Tables
<1>3. CASE /\ htbl' = [htbl EXCEPT ![r] = Inserted(tabs[r], key, val)]
           /\ short' \in [Replayers -> BOOLEAN]
           /\ Goes(r) \/ Fails(r)
  <2>1. htbl' = With(tabs, r, key, val)
    BY <1>2, <1>3 DEF With, Tables
  <2>2. htbl' \in Tables /\ Owned(H \union ({val} \ {NULL}), htbl')
    BY <1>1, <2>1, WithOwned
  <2>3. Owned(heap', htbl')
    BY <2>2, OwnedMore
  <2> QED
    BY <1>3, <2>2, <2>3, LineKeepsInv
<1>4. CASE /\ htbl' = [htbl EXCEPT ![r] = tabs[r]]
           /\ short' \in [Replayers -> BOOLEAN]
           /\ Fails(r)
  <2>1. htbl' = tabs
    BY <1>4
  <2>2. Owned(heap', htbl')
    BY <2>1, OwnedMore
  <2> QED
    BY <1>4, <2>1, <2>2, LineKeepsInv
<1>5. short' \in [Replayers -> BOOLEAN]
  BY <1>2 DEF Insert
<1>6. \/ /\ htbl' = [htbl EXCEPT ![r] = Inserted(tabs[r], key, val)]
         /\ Goes(r) \/ Fails(r)
      \/ htbl' = [htbl EXCEPT ![r] = tabs[r]] /\ Fails(r)
  BY DEF Insert
<1> QED
  BY <1>3, <1>4, <1>5, <1>6

\* The tables after lphash_delete.
LEMMA DeletedOwned ==
    ASSUME Inv, NEW r \in Replayers, NEW key \in Keys
    PROVE  LET tabs == [htbl EXCEPT ![r] = Deleted(r, key)] IN
           /\ tabs \in Tables
           /\ tabs[r] = Deleted(r, key)
           /\ tabs = [htbl EXCEPT ![r] = tabs[r]]
           /\ Owned(heap \ {lphash_lookup(r, key)}, tabs)
<1>1. htbl \in Tables /\ Owned(heap, htbl) /\ NULL \notin heap
  BY ReplayAssumption DEF Inv, TypeOK, Tables, ValuesOwned, Owned
<1> DEFINE tabs == [htbl EXCEPT ![r] = Deleted(r, key)]
<1>2. tabs = Without(htbl, r, key)
  BY DEF Deleted, Without
<1>3. lphash_lookup(r, key) = First(htbl, r, key)
  BY DEF lphash_lookup, First
<1>4. tabs[r] = Deleted(r, key)
  BY <1>1 DEF Tables
<1>5. tabs \in Tables /\ Owned(heap \ {lphash_lookup(r, key)}, tabs)
  <2>1. /\ Without(htbl, r, key) \in Tables
        /\ Owned(heap \ {First(htbl, r, key)}, Without(htbl, r, key))
    BY <1>1, WithoutOwned
  <2> HIDE DEF tabs
  <2> QED
    BY <1>2, <1>3, <2>1
<1>6. tabs = [htbl EXCEPT ![r] = tabs[r]]
  BY <1>4
<1> QED
  BY <1>4, <1>5, <1>6

LEMMA MallocKeepsInv ==
    ASSUME Inv, NEW r \in Replayers, NEW l \in Lines, UNCHANGED recording,
           status[r] = "running", pos[r] <= Len(log), replay_malloc(r, l)
    PROVE  Inv'
<1>1. htbl \in Tables /\ Owned(heap, htbl) /\ heap \subseteq Vals
  BY DEF Inv, TypeOK, Tables, ValuesOwned, Owned
<1>2. PICK val \in NewVals \union {NULL} :
          /\ heap' = heap \union ({val} \ {NULL})
          /\ Insert(r, htbl[r], l.out, val)
  BY DEF replay_malloc
<1>3. l.out \in Keys
  BY LineAddresses DEF replay_malloc
<1>4. heap' \subseteq Vals /\ val \in (Vals \ heap) \union {NULL}
  BY <1>1, <1>2 DEF NewVals
<1>5. htbl = [htbl EXCEPT ![r] = htbl[r]]
  BY <1>1 DEF Tables
<1> QED
  BY <1>1, <1>2, <1>3, <1>4, <1>5, InsertKeepsInv

LEMMA FreeKeepsInv ==
    ASSUME Inv, NEW r \in Replayers, NEW l \in Lines, UNCHANGED recording,
           status[r] = "running", pos[r] <= Len(log), replay_free(r, l)
    PROVE  Inv'
<1> DEFINE val == IF l.in = NULL THEN NULL ELSE lphash_lookup(r, l.in)
<1>1. htbl \in Tables /\ Owned(heap, htbl) /\ heap \subseteq Vals /\ NULL \notin heap
  BY ReplayAssumption DEF Inv, TypeOK, Tables, ValuesOwned, Owned
<1>2. /\ l.in \in Keys /\ Goes(r) /\ heap' = heap \ {val}
      /\ htbl' = IF val = NULL THEN htbl ELSE [htbl EXCEPT ![r] = Deleted(r, l.in)]
  BY LineAddresses DEF replay_free
<1>4. short' \in [Replayers -> BOOLEAN]
  BY DEF replay_free, Inv, TypeOK
<1>3. htbl' \in Tables /\ Owned(heap', htbl')
  <2>1. CASE val = NULL
    BY <1>1, <1>2, <2>1
  <2>2. CASE val # NULL
    BY <1>2, <2>2, DeletedOwned
  <2> QED
    BY <2>1, <2>2
<1>5. heap' \subseteq Vals
  BY <1>1, <1>2
<1> QED
  BY <1>2, <1>3, <1>4, <1>5, LineKeepsInv

LEMMA ReallocKeepsInv ==
    ASSUME Inv, NEW r \in Replayers, NEW l \in Lines, UNCHANGED recording,
           status[r] = "running", pos[r] <= Len(log), replay_realloc(r, l)
    PROVE  Inv'
<1> DEFINE old == IF l.in = NULL THEN NULL ELSE lphash_lookup(r, l.in)
           tabs == [htbl EXCEPT ![r] = Deleted(r, l.in)]
           top == lphash_lookup(r, l.in)
<1>1. htbl \in Tables /\ Owned(heap, htbl) /\ heap \subseteq Vals /\ NULL \notin Vals
      /\ short \in [Replayers -> BOOLEAN]
  BY ReplayAssumption DEF Inv, TypeOK, Tables, ValuesOwned, Owned
<1>2. l.in \in Keys /\ l.out \in Keys
  BY LineAddresses DEF replay_realloc
<1>3. tabs \in Tables /\ tabs[r] = Deleted(r, l.in) /\ tabs = [htbl EXCEPT ![r] = tabs[r]]
      /\ Owned(heap \ {top}, tabs)
  BY <1>2, DeletedOwned
<1>4. old # NULL => old = top /\ old \in heap
  <2>1. htbl[r][l.in] \in Seq(Vals \union {NULL})
    BY <1>1, <1>2 DEF Tables
  <2>2. htbl[r][l.in] # <<>> =>
            Head(htbl[r][l.in]) = htbl[r][l.in][1] /\ 1 \in 1 .. Len(htbl[r][l.in])
    BY <2>1, TailPlaces
  <2> QED
    BY <1>1, <1>2, <2>2 DEF lphash_lookup, Owned
<1>5. CASE Fails(r) /\ UNCHANGED <<heap, htbl, short>>
  BY <1>1, <1>5, LineKeepsInv
<1>6. ASSUME NEW new \in ReallocResults(old, l.size),
             heap' = AfterRealloc(old, l.size, new),
             IF l.size # 0 /\ Stays(l, old, new)
             THEN Goes(r) /\ UNCHANGED <<htbl, short>>
             ELSE Insert(r, Deleted(r, l.in), l.out, new)
      PROVE  Inv'
  <2> HIDE DEF old, tabs, top
  <2>1. new \in Vals \union {NULL} /\ heap' \subseteq Vals
    BY <1>1, <1>4, <1>6 DEF ReallocResults, NewVals, AfterRealloc
  <2>2. CASE l.size # 0 /\ Stays(l, old, new)
    <3>1. heap \subseteq heap'
      BY <1>1, <1>4, <1>6, <2>2 DEF AfterRealloc, Stays
    <3>2. Owned(heap', htbl)
      BY <1>1, <3>1, OwnedMore
    <3>3. Goes(r) /\ UNCHANGED <<htbl, short>>
      BY <1>6, <2>2
    <3> QED
      BY <1>1, <2>1, <3>2, <3>3, LineKeepsInv
  <2>3. CASE ~(l.size # 0 /\ Stays(l, old, new))
    <3> DEFINE H == heap \ {top, new}
    <3>1. Insert(r, tabs[r], l.out, new)
      BY <1>3, <1>6, <2>3
    <3>2. Owned(H, tabs)
      <4>1. new = top \/ new \notin heap
        BY <1>1, <1>4, <1>6 DEF ReallocResults, NewVals
      <4>2. H = heap \ {top}
        BY <4>1
      <4> QED
        BY <1>3, <4>2
    <3>3. new \in (Vals \ H) \union {NULL} /\ H \subseteq Vals
      BY <1>1, <2>1
    <3>4. H \union ({new} \ {NULL}) \subseteq heap'
      BY <1>1, <1>4, <1>6 DEF AfterRealloc
    <3> HIDE DEF H
    <3> QED
      BY <1>2, <1>3, <2>1, <3>1, <3>2, <3>3, <3>4, InsertKeepsInv
  <2> QED
    BY <2>2, <2>3
<1> QED
  BY <1>5, <1>6 DEF replay_realloc

LEMMA NextInv == Inv /\ [Next]_vars => Inv'
<1> SUFFICES ASSUME Inv, [Next]_vars PROVE Inv'
  OBVIOUS
<1>1. ASSUME NEW t \in Threads,
             my_malloc_hook(t) \/ my_free_hook(t) \/ my_realloc_hook(t)
      PROVE  Inv'
  BY <1>1, RecordKeepsInv
<1>2. ASSUME NEW t \in Threads, WriteLogEntry(t) PROVE Inv'
  BY <1>2, WriteKeepsInv
<1>3. CASE Exit
  BY <1>3 DEF Exit, Inv, TypeOK, ValuesOwned, replaying
<1>4. ASSUME NEW r \in Replayers, process_file(r) PROVE Inv'
  <2> DEFINE l == log[pos[r]]
  <2>1. l \in Lines
    <3>1. log \in Seq(Lines) /\ pos[r] \in 1 .. Len(log) + 1 /\ pos[r] <= Len(log)
      BY <1>4 DEF Inv, TypeOK, process_file
    <3>2. pos[r] \in 1 .. Len(log)
      BY <3>1
    <3> QED
      BY <3>1, <3>2
  <2>2. /\ replay_malloc(r, l) \/ replay_free(r, l) \/ replay_realloc(r, l)
        /\ UNCHANGED recording /\ status[r] = "running" /\ pos[r] <= Len(log)
    BY <1>4 DEF process_file
  <2> HIDE DEF l
  <2> QED
    BY <2>1, <2>2, MallocKeepsInv, FreeKeepsInv, ReallocKeepsInv
<1>5. CASE UNCHANGED vars
  BY <1>5 DEF vars, Inv, TypeOK, ValuesOwned
<1> QED
  BY <1>1, <1>2, <1>3, <1>4, <1>5 DEF Next

\* The tables have the types that the replay assumes, and a failed replay stands at its line.
THEOREM TypesHold == Spec => []TypeOK
<1>1. Inv => TypeOK
  BY DEF Inv
<1> QED
  BY InitInv, NextInv, <1>1, PTL DEF Spec

\* No value is freed or reallocated twice, and none of another replayer, by any replay of any
\* log (replaylib.c:576, 466).
THEOREM NoValueTwice == Spec => []ValuesOwned
<1>1. Inv => ValuesOwned
  BY DEF Inv
<1> QED
  BY InitInv, NextInv, <1>1, PTL DEF Spec

(***************************************************************************)
(* A complete log can be replayed to its end. Each line gives an address a *)
(* block, takes it away, or both; the hooks write a line that takes only   *)
(* after the one that gave, so that no beginning of the log takes more     *)
(* than it gives, and a replayer's table has the difference.               *)
(***************************************************************************)
One(b) == IF b THEN 1 ELSE 0

\* what a line does to an address; a realloc that failed does nothing
Does(role, l, a) ==
    IF role = "gives" THEN l.op \in {"m", "r"} /\ l.out = a
    ELSE l.op \in {"f", "r"} /\ l.in = a /\ (l.op = "r" => l.size = 0 \/ l.out # NULL)

Roles == {"gives", "takes"}

\* the lines among the first n of L that do it, and the threads whose lines will
Places(role, L, n, a) == {i \in 1 .. n : Does(role, L[i], a)}
Doing(role, h, a)     == {t \in Threads : Does(role, h[t], a)}

\* so many of the first n lines do it, and so many threads
Lined(role, L, n, a) == Cardinality(Places(role, L, n, a))
Due(role, h, a)      == Cardinality(Doing(role, h, a))

\* The number of lines is a number, also with one line more.
LEMMA LinedNext ==
    ASSUME NEW role, NEW L, NEW n \in Nat, NEW a
    PROVE  /\ Lined(role, L, n, a) \in Nat
           /\ Lined(role, L, n + 1, a) = Lined(role, L, n, a) + One(Does(role, L[n + 1], a))
<1> DEFINE S == Places(role, L, n, a)
<1>1. IsFiniteSet(S)
  <2>1. IsFiniteSet(1 .. n) /\ S \subseteq 1 .. n
    BY FS_Interval DEF Places
  <2> QED BY <2>1, FS_Subset
<1>2. n + 1 \notin S
  BY DEF Places
<1>3. CASE Does(role, L[n + 1], a)
  <2>1. Places(role, L, n + 1, a) = S \union {n + 1}
    BY <1>3 DEF Places
  <2> QED BY <1>1, <1>2, <1>3, <2>1, FS_AddElement, FS_CardinalityType DEF Lined, One
<1>4. CASE ~Does(role, L[n + 1], a)
  <2>1. Places(role, L, n + 1, a) = S
    BY <1>4 DEF Places
  <2> QED BY <1>1, <1>4, <2>1, FS_CardinalityType DEF Lined, One
<1> QED BY <1>3, <1>4

\* A line at the end changes nothing before it.
LEMMA LinedAppend ==
    ASSUME NEW role, NEW L \in Seq(Lines), NEW l \in Lines, NEW n \in 0 .. Len(L), NEW a
    PROVE  Lined(role, Append(L, l), n, a) = Lined(role, L, n, a)
<1>1. \A i \in 1 .. n : Append(L, l)[i] = L[i]
  OBVIOUS
<1>2. Places(role, Append(L, l), n, a) = Places(role, L, n, a)
  BY <1>1 DEF Places
<1> QED BY <1>2 DEF Lined

\* A thread whose line changes.
LEMMA DueNext ==
    ASSUME NEW role, NEW h, NEW h2, NEW t \in Threads, NEW a,
           IsFiniteSet(Doing(role, h, a)), ~Does(role, h[t], a),
           \A u \in Threads \ {t} : h2[u] = h[u]
    PROVE  /\ Due(role, h, a) \in Nat
           /\ Due(role, h2, a) = Due(role, h, a) + One(Does(role, h2[t], a))
           /\ IsFiniteSet(Doing(role, h2, a))
<1> DEFINE S == Doing(role, h, a)
<1>1. t \notin S
  BY DEF Doing
<1>2. CASE Does(role, h2[t], a)
  <2>1. Doing(role, h2, a) = S \union {t}
    BY <1>2 DEF Doing
  <2> QED BY <1>1, <1>2, <2>1, FS_AddElement, FS_CardinalityType DEF Due, One
<1>3. CASE ~Does(role, h2[t], a)
  <2>1. Doing(role, h2, a) = S
    BY <1>3 DEF Doing
  <2> QED BY <1>3, <2>1, FS_CardinalityType DEF Due, One
<1> QED BY <1>2, <1>3

-----------------------------------------------------------------------------
(* Recording *)

\* what was given to A is what was taken and what the program has
Balanced(a) ==
    Lined("gives", log, Len(log), a) + Due("gives", line, a)
        = Lined("takes", log, Len(log), a) + Due("takes", line, a) + One(a \in live)

\* the lines still to be written do not take more than those of the log have given
Backed(a) ==
    Lined("takes", log, Len(log), a) + Due("takes", line, a) <= Lined("gives", log, Len(log), a)

\* neither did any line before it was written
TakesGiven(L, a) ==
    \A i \in 1 .. Len(L) :
        Does("takes", L[i], a) => Lined("takes", L, i - 1, a) < Lined("gives", L, i - 1, a)

Accounted ==
    /\ \A role \in Roles, a \in Addrs : IsFiniteSet(Doing(role, line, a))
    /\ early = {} => \A a \in Addrs : Balanced(a) /\ Backed(a) /\ TakesGiven(log, a)

\* what a call makes of the program's blocks
Settles(l) ==
    \A a \in Addrs :
        /\ One(Does("gives", l, a)) + One(a \in live)
               = One(Does("takes", l, a)) + One(a \in live')
        /\ Does("takes", l, a) => a \in Usable

\* No line, and none of a call with a null pointer, does anything to an address.
LEMMA NoLineDoes ==
    ASSUME NEW role \in Roles, NEW a
    PROVE  ~Does(role, NoLine, a)
BY DEF Roles, Does, NoLine

\* A block that the program may use is not in a line still to be written as given.
LEMMA UsableNotDue ==
    ASSUME NEW a \in Addrs, a \in Usable
    PROVE  a \in live /\ Due("gives", line, a) = 0
<1>1. \A t \in Threads : ~Does("gives", line[t], a)
  BY ReplayAssumption DEF Usable, InCall, Does
<1>2. Doing("gives", line, a) = {}
  BY <1>1 DEF Doing
<1> QED BY <1>2, FS_EmptySet DEF Due, Usable

\* A call leaves the books in balance.
LEMMA CallAccounted ==
    ASSUME TypeOK, Accounted, NEW t \in Threads, NEW l, Calls(t, l), Settles(l)
    PROVE  Accounted'
<1>1. /\ UNCHANGED <<log, early>> /\ line[t] = NoLine /\ line'[t] = l
      /\ \A u \in Threads \ {t} : line'[u] = line[u]
  BY DEF Calls, Pending, TypeOK
<1>2. ASSUME NEW role \in Roles, NEW a \in Addrs
      PROVE  /\ Due(role, line, a) \in Nat
             /\ Due(role, line', a) = Due(role, line, a) + One(Does(role, l, a))
             /\ IsFiniteSet(Doing(role, line', a))
  <2>1. ~Does(role, line[t], a)
    BY <1>1, NoLineDoes
  <2>2. IsFiniteSet(Doing(role, line, a))
    BY DEF Accounted
  <2> QED BY <1>1, <2>1, <2>2, DueNext
<1>3. ASSUME early = {}, NEW a \in Addrs
      PROVE  Balanced(a)' /\ Backed(a)' /\ TakesGiven(log', a)
  <2>1. Balanced(a) /\ Backed(a) /\ TakesGiven(log, a)
    BY <1>3 DEF Accounted
  <2>2. \A role \in Roles : Lined(role, log, Len(log), a) \in Nat
    <3>1. Len(log) \in Nat
      BY DEF TypeOK
    <3> QED BY <3>1, LinedNext
  <2>3. Does("takes", l, a) => a \in live /\ Due("gives", line, a) = 0
    BY UsableNotDue DEF Settles
  <2>4. One(Does("gives", l, a)) + One(a \in live) = One(Does("takes", l, a)) + One(a \in live')
    BY DEF Settles
  <2>5. /\ Due("gives", line', a) = Due("gives", line, a) + One(Does("gives", l, a))
        /\ Due("takes", line', a) = Due("takes", line, a) + One(Does("takes", l, a))
        /\ Due("gives", line, a) \in Nat /\ Due("takes", line, a) \in Nat
        /\ Lined("gives", log, Len(log), a) \in Nat /\ Lined("takes", log, Len(log), a) \in Nat
    BY <1>2, <2>2 DEF Roles
  <2> DEFINE G == Lined("gives", log, Len(log), a)
             T == Lined("takes", log, Len(log), a)
             g == Due("gives", line, a)
             k == Due("takes", line, a)
  <2>8. /\ G + g = T + k + One(a \in live) /\ T + k <= G
        /\ G \in Nat /\ T \in Nat /\ g \in Nat /\ k \in Nat
    BY <2>1, <2>5 DEF Balanced, Backed
  <2>9. /\ Balanced(a)' <=> G + Due("gives", line', a) = T + Due("takes", line', a) + One(a \in live')
        /\ Backed(a)' <=> T + Due("takes", line', a) <= G
    BY <1>1 DEF Balanced, Backed
  <2>10. /\ Due("gives", line', a) = g + One(Does("gives", l, a))
         /\ Due("takes", line', a) = k + One(Does("takes", l, a))
         /\ Does("takes", l, a) => a \in live /\ g = 0
    BY <2>3, <2>5
  <2> HIDE DEF G, T, g, k
  <2>6. Balanced(a)'
    BY <2>4, <2>8, <2>9, <2>10 DEF One
  <2>7. Backed(a)'
    BY <2>8, <2>9, <2>10 DEF One
  <2> QED BY <1>1, <2>1, <2>6, <2>7
<1> QED BY <1>1, <1>2, <1>3 DEF Accounted

\* So the hooks do.
LEMMA RecordAccounted ==
    ASSUME TypeOK, Accounted, NEW t \in Threads,
           my_malloc_hook(t) \/ my_free_hook(t) \/ my_realloc_hook(t)
    PROVE  Accounted'
<1> NULL \notin Addrs /\ Usable \subseteq live /\ Fresh \intersect live = {}
  BY ReplayAssumption DEF Usable, Fresh
<1> SUFFICES \E l : Calls(t, l) /\ Settles(l)
  BY CallAccounted
<1>1. CASE my_malloc_hook(t)
  <2>1. ASSUME NEW p \in Fresh, Calls(t, Malloc(p)), live' = live \union {p}
        PROVE  Settles(Malloc(p))
    BY <2>1 DEF Settles, Does, Malloc, One
  <2>2. ASSUME Calls(t, Malloc(NULL)), UNCHANGED live PROVE Settles(Malloc(NULL))
    BY <2>2 DEF Settles, Does, Malloc, One
  <2> QED BY Zenon, <1>1, <2>1, <2>2 DEF my_malloc_hook
<1>2. CASE my_free_hook(t)
  <2>1. ASSUME NEW p \in Usable \union {NULL}, live' = live \ {p} PROVE Settles(Free(p))
    BY <2>1 DEF Settles, Does, Free, One
  <2> QED BY Zenon, <1>2, <2>1 DEF my_free_hook
<1>3. CASE my_realloc_hook(t)
  <2>1. ASSUME NEW p \in Usable, live' = live \ {p} PROVE Settles(Realloc(p, 0, NULL))
    BY <2>1 DEF Settles, Does, Realloc, One
  <2>2. ASSUME NEW n \in {0, 1}, NEW q \in Fresh, live' = live \union {q}
        PROVE  Settles(Realloc(NULL, n, q))
    BY <2>2 DEF Settles, Does, Realloc, One
  <2>3. ASSUME NEW p \in Usable, NEW q \in Fresh, live' = (live \ {p}) \union {q}
        PROVE  Settles(Realloc(p, 1, q))
    <3> SUFFICES ASSUME NEW a \in Addrs
                 PROVE  /\ One(Does("gives", Realloc(p, 1, q), a)) + One(a \in live)
                               = One(Does("takes", Realloc(p, 1, q), a)) + One(a \in live')
                        /\ Does("takes", Realloc(p, 1, q), a) => a \in Usable
      BY DEF Settles
    <3>1. /\ Does("gives", Realloc(p, 1, q), a) <=> a = q
          /\ Does("takes", Realloc(p, 1, q), a) <=> a = p
      BY DEF Does, Realloc, Fresh
    <3>2. p \in live /\ q \notin live /\ (a \in live' <=> a = q \/ (a \in live /\ a # p))
      BY <2>3
    <3> QED BY <3>1, <3>2 DEF One
  <2>4. ASSUME NEW p \in Usable, UNCHANGED live PROVE Settles(Realloc(p, 1, p))
    BY <2>4 DEF Settles, Does, Realloc, One
  <2>5. ASSUME NEW p \in Usable \union {NULL}, UNCHANGED live
        PROVE  Settles(Realloc(p, 1, NULL))
    BY <2>5 DEF Settles, Does, Realloc, One
  <2> QED BY Zenon, <1>3, <2>1, <2>2, <2>3, <2>4, <2>5 DEF my_realloc_hook
<1> QED BY <1>1, <1>2, <1>3

\* A line moves from its thread to the log; what it takes had been given before.
LEMMA WriteAccounted ==
    ASSUME TypeOK, Accounted, NEW t \in Threads, WriteLogEntry(t)
    PROVE  Accounted'
<1> DEFINE l == line[t]
           n == Len(log)
<1>1. /\ l \in Lines /\ log \in Seq(Lines) /\ n \in Nat
      /\ log' = Append(log, l) /\ line'[t] = NoLine /\ UNCHANGED <<early, live>>
      /\ \A u \in Threads \ {t} : line'[u] = line[u]
  BY DEF TypeOK, WriteLogEntry, Pending
<1>2. Len(log') = n + 1 /\ log'[n + 1] = l /\ \A i \in 1 .. n : log'[i] = log[i]
  BY <1>1
<1>3. ASSUME NEW role \in Roles, NEW a \in Addrs
      PROVE  /\ Due(role, line', a) \in Nat
             /\ Due(role, line, a) = Due(role, line', a) + One(Does(role, l, a))
             /\ IsFiniteSet(Doing(role, line', a))
  <2>1. IsFiniteSet(Doing(role, line', a))
    <3>1. \A u \in Threads : Does(role, line'[u], a) => Does(role, line[u], a)
      BY <1>1, NoLineDoes
    <3>2. Doing(role, line', a) \subseteq Doing(role, line, a)
      BY <3>1 DEF Doing
    <3> QED BY <3>2, FS_Subset DEF Accounted
  <2>2. ~Does(role, line'[t], a)
    BY <1>1, NoLineDoes
  <2>3. \A u \in Threads \ {t} : line[u] = line'[u]
    BY <1>1
  <2> HIDE DEF l
  <2> QED BY <2>1, <2>2, <2>3, DueNext DEF l
<1>4. ASSUME NEW role \in Roles, NEW a \in Addrs
      PROVE  /\ \A m \in 0 .. n : Lined(role, log', m, a) = Lined(role, log, m, a)
             /\ Lined(role, log', n + 1, a) = Lined(role, log, n, a) + One(Does(role, l, a))
             /\ Lined(role, log, n, a) \in Nat
  <2>1. \A m \in 0 .. n : Lined(role, log', m, a) = Lined(role, log, m, a)
    BY <1>1, LinedAppend
  <2>2. /\ Lined(role, log', n, a) \in Nat
        /\ Lined(role, log', n + 1, a)
              = Lined(role, log', n, a) + One(Does(role, log'[n + 1], a))
    <3>1. n \in Nat
      BY <1>1
    <3> HIDE DEF n
    <3> QED BY <3>1, LinedNext
  <2>3. Lined(role, log', n, a) = Lined(role, log, n, a)
    BY <1>1, <2>1
  <2> HIDE DEF l, n
  <2> QED BY <1>2, <2>1, <2>2, <2>3
<1>5. ASSUME early = {}, NEW a \in Addrs
      PROVE  Balanced(a)' /\ Backed(a)' /\ TakesGiven(log', a)
  <2> DEFINE G == Lined("gives", log, n, a)
             T == Lined("takes", log, n, a)
             g == Due("gives", line', a)
             k == Due("takes", line', a)
             dg == One(Does("gives", l, a))
             dk == One(Does("takes", l, a))
  <2>1. Balanced(a) /\ Backed(a) /\ TakesGiven(log, a)
    BY <1>5 DEF Accounted
  <2>2. /\ Due("gives", line, a) = g + dg /\ Due("takes", line, a) = k + dk
        /\ G \in Nat /\ T \in Nat /\ g \in Nat /\ k \in Nat
        /\ Lined("gives", log', n + 1, a) = G + dg
        /\ Lined("takes", log', n + 1, a) = T + dk
    BY <1>3, <1>4 DEF Roles
  <2>3. /\ G + (g + dg) = T + (k + dk) + One(a \in live)
        /\ T + (k + dk) <= G
    BY <2>1, <2>2 DEF Balanced, Backed
  <2>4. /\ Balanced(a)' <=> (G + dg) + g = (T + dk) + k + One(a \in live)
        /\ Backed(a)' <=> (T + dk) + k <= G + dg
    BY <1>1, <1>2, <2>2 DEF Balanced, Backed
  <2>5. dg \in {0, 1} /\ dk \in {0, 1} /\ One(a \in live) \in {0, 1}
    BY DEF One
  <2>6. Does("takes", l, a) => T < G
    <3>1. Does("takes", l, a) => dk = 1
      BY DEF One
    <3> HIDE DEF G, T, g, k, dg, dk
    <3> QED BY <2>2, <2>3, <3>1
  <2>7. TakesGiven(log', a)
    <3> SUFFICES ASSUME NEW i \in 1 .. n + 1, Does("takes", log'[i], a)
                 PROVE  Lined("takes", log', i - 1, a) < Lined("gives", log', i - 1, a)
      BY <1>2 DEF TakesGiven
    <3>1. i - 1 \in 0 .. n
      BY <1>1
    <3>2. /\ Lined("takes", log', i - 1, a) = Lined("takes", log, i - 1, a)
          /\ Lined("gives", log', i - 1, a) = Lined("gives", log, i - 1, a)
      BY <1>4, <3>1 DEF Roles
    <3>3. CASE i = n + 1
      BY <1>1, <1>2, <2>6, <3>2, <3>3
    <3>4. CASE i \in 1 .. n
      BY <1>2, <2>1, <3>2, <3>4 DEF TakesGiven
    <3> QED BY <1>1, <3>3, <3>4
  <2>8. Balanced(a)' /\ Backed(a)'
    <3> HIDE DEF G, T, g, k, dg, dk
    <3> QED BY <2>2, <2>3, <2>4, <2>5
  <2> QED BY <2>7, <2>8
<1> QED BY <1>1, <1>3, <1>5 DEF Accounted

LEMMA InitAccounted == Init => Accounted
<1> SUFFICES ASSUME Init PROVE Accounted
  OBVIOUS
<1>1. ASSUME NEW role \in Roles, NEW a \in Addrs
      PROVE  /\ Doing(role, line, a) = {} /\ Due(role, line, a) = 0
             /\ IsFiniteSet(Doing(role, line, a))
             /\ Lined(role, log, Len(log), a) = 0
  <2>1. Doing(role, line, a) = {}
    BY NoLineDoes DEF Init, Doing
  <2>2. log = <<>> /\ Len(log) = 0
    BY DEF Init
  <2>3. Places(role, log, 0, a) = {}
    BY DEF Places
  <2> QED BY <2>1, <2>2, <2>3, FS_EmptySet DEF Due, Lined
<1>2. ASSUME early = {}, NEW a \in Addrs
      PROVE  Balanced(a) /\ Backed(a) /\ TakesGiven(log, a)
  <2>1. a \notin live /\ Len(log) = 0
    BY <1>2 DEF Init
  <2> QED BY <1>1, <2>1 DEF Roles, Balanced, Backed, TakesGiven, One
<1> QED BY <1>1, <1>2 DEF Accounted

\* Replaying does not concern the books.
LEMMA NextAccounted == Inv /\ Accounted /\ [Next]_vars => Accounted'
<1> SUFFICES ASSUME Inv, Accounted, [Next]_vars PROVE Accounted'
  OBVIOUS
<1> TypeOK
  BY DEF Inv
<1>1. ASSUME UNCHANGED <<early, live, line, log>> PROVE Accounted'
  BY <1>1 DEF Accounted, Balanced, Backed
<1>2. ASSUME NEW t \in Threads,
             my_malloc_hook(t) \/ my_free_hook(t) \/ my_realloc_hook(t) \/ WriteLogEntry(t)
      PROVE  Accounted'
  BY <1>2, RecordAccounted, WriteAccounted
<1>3. CASE Exit
  BY <1>1, <1>3 DEF Exit
<1>4. ASSUME NEW r \in Replayers, process_file(r) PROVE Accounted'
  BY <1>1, <1>4 DEF process_file, recording
<1>5. CASE UNCHANGED vars
  BY <1>1, <1>5 DEF vars
<1> QED BY <1>2, <1>3, <1>4, <1>5 DEF Next

-----------------------------------------------------------------------------
(* Replaying *)

\* an address has n values in a table, and none of them is null
Full(s, n) == Len(s) = n /\ \A i \in 1 .. Len(s) : s[i] # NULL

LEMMA FullTail ==
    ASSUME NEW S, NEW s \in Seq(S), NEW n \in Int, Full(s, n), n > 0
    PROVE  s # <<>> /\ Head(s) # NULL /\ Full(Tail(s), n - 1)
<1>1. s # <<>>
  BY DEF Full
<1>2. /\ Len(Tail(s)) = Len(s) - 1 /\ Len(s) \in Nat \ {0}
      /\ \A i \in 1 .. Len(Tail(s)) : Tail(s)[i] = s[i + 1] /\ i + 1 \in 1 .. Len(s)
      /\ Head(s) = s[1] /\ 1 \in 1 .. Len(s)
  BY <1>1, TailPlaces
<1> QED BY <1>1, <1>2 DEF Full

LEMMA FullFront ==
    ASSUME NEW S, NEW s \in Seq(S), NEW v \in S, NEW n \in Int, Full(s, n), v # NULL
    PROVE  Full(<<v>> \o s, n + 1)
<1> DEFINE m == <<v>> \o s
<1>1. /\ Len(m) = Len(s) + 1 /\ Len(s) \in Nat /\ m[1] = v
      /\ \A i \in 2 .. Len(m) : m[i] = s[i - 1] /\ i - 1 \in 1 .. Len(s)
  BY FrontPlaces
<1> HIDE DEF m
<1>2. ASSUME NEW i \in 1 .. Len(m) PROVE m[i] # NULL
  <2>1. i = 1 \/ i \in 2 .. Len(m)
    BY <1>1
  <2> QED BY <1>1, <2>1 DEF Full
<1> QED BY <1>1, <1>2 DEF Full, m

\* An insertion for which there was memory.
LEMMA InsertDone ==
    ASSUME TypeOK, NEW r \in Replayers, NEW tab \in [Keys -> Seq(Vals \union {NULL})],
           NEW key \in Keys, NEW val \in Vals \union {NULL}, Insert(r, tab, key, val),
           ~short'[r], NEW d \in [Addrs -> Int], \A a \in Addrs : Full(tab[a], d[a])
    PROVE  Goes(r) /\ \A a \in Addrs : Full(htbl'[r][a], d[a] + One(key = a))
<1>1. /\ htbl' = [htbl EXCEPT ![r] = Inserted(tab, key, val)]
      /\ val = NULL => key = NULL
      /\ Goes(r)
  <2>1. short \in [Replayers -> BOOLEAN]
    BY DEF TypeOK
  <2>2. CASE /\ htbl' = [htbl EXCEPT ![r] = Inserted(tab, key, val)]
             /\ short' = [short EXCEPT ![r] = @ \/ (val = NULL /\ key # NULL)]
             /\ Goes(r)
    BY <2>1, <2>2
  <2>3. CASE short' = [short EXCEPT ![r] = TRUE]
    BY <2>1, <2>3
  <2> QED BY Zenon, <2>2, <2>3 DEF Insert
<1>2. htbl'[r] = Inserted(tab, key, val)
  BY <1>1 DEF TypeOK
<1> SUFFICES ASSUME NEW a \in Addrs PROVE Full(htbl'[r][a], d[a] + One(key = a))
  BY <1>1
<1>3. a \in Keys /\ a # NULL /\ d[a] \in Int
  BY ReplayAssumption DEF Keys
<1>4. CASE key = a
  <2>1. htbl'[r][a] = <<val>> \o tab[a] /\ val # NULL
    BY <1>1, <1>2, <1>3, <1>4 DEF Inserted
  <2>2. Full(<<val>> \o tab[a], d[a] + 1)
    BY <1>3, <2>1, FullFront
  <2> QED BY <1>4, <2>1, <2>2 DEF One
<1>5. CASE key # a
  <2>1. htbl'[r][a] = tab[a]
    BY <1>2, <1>3, <1>5 DEF Inserted
  <2> QED BY <1>3, <1>5, <2>1 DEF One
<1> QED BY <1>4, <1>5

\* a table has for each address as many values as D says, and L takes none that is not there
Holds(tab, d)  == \A a \in Addrs : Full(tab[a], d[a])
Covers(l, d)   == \A a \in Addrs : Does("takes", l, a) => d[a] > 0
Moves(l, d, t2) ==
    \A a \in Addrs : Full(t2[a], d[a] - One(Does("takes", l, a)) + One(Does("gives", l, a)))

LEMMA MallocDone ==
    ASSUME TypeOK, NEW r \in Replayers, NEW l \in Lines, replay_malloc(r, l), ~short'[r],
           NEW d \in [Addrs -> Int], Holds(htbl[r], d)
    PROVE  Goes(r) /\ Moves(l, d, htbl'[r])
<1>1. PICK val \in NewVals \union {NULL} : Insert(r, htbl[r], l.out, val)
  BY Zenon DEF replay_malloc
<1>2. /\ val \in Vals \union {NULL} /\ l.op = "m" /\ l.out \in Keys
      /\ htbl[r] \in [Keys -> Seq(Vals \union {NULL})]
  BY LineAddresses DEF replay_malloc, NewVals, TypeOK
<1>3. Goes(r) /\ \A a \in Addrs : Full(htbl'[r][a], d[a] + One(l.out = a))
  BY <1>1, <1>2, InsertDone DEF Holds
<1>4. ASSUME NEW a \in Addrs
      PROVE  /\ One(Does("gives", l, a)) = One(l.out = a) /\ One(Does("takes", l, a)) = 0
             /\ d[a] \in Int
  BY <1>2 DEF Does, One
<1> QED BY <1>3, <1>4 DEF Moves

\* The bucket of the address that the line takes is there, with a value, and goes.
LEMMA DeletedHolds ==
    ASSUME TypeOK, NEW r \in Replayers, NEW l \in Lines, l.op \in {"f", "r"},
           l.op = "r" => l.size = 0 \/ l.out # NULL,
           NEW d \in [Addrs -> Int], Holds(htbl[r], d), Covers(l, d)
    PROVE  /\ l.in \in Keys /\ Deleted(r, l.in) \in [Keys -> Seq(Vals \union {NULL})]
           /\ l.in # NULL => lphash_lookup(r, l.in) # NULL
           /\ \A a \in Addrs : /\ Does("takes", l, a) <=> l.in = a
                               /\ Full(Deleted(r, l.in)[a], d[a] - One(l.in = a))
<1>1. l.in \in Keys /\ htbl[r] \in [Keys -> Seq(Vals \union {NULL})] /\ NULL \notin Addrs
  BY LineAddresses, ReplayAssumption DEF TypeOK
<1>2. \A a \in Addrs : Does("takes", l, a) <=> l.in = a
  BY DEF Does
<1>3. l.in # NULL => /\ l.in \in Addrs /\ htbl[r][l.in] # <<>> /\ Head(htbl[r][l.in]) # NULL
                     /\ Full(Tail(htbl[r][l.in]), d[l.in] - 1)
  <2> SUFFICES ASSUME l.in # NULL
               PROVE  /\ l.in \in Addrs /\ htbl[r][l.in] # <<>> /\ Head(htbl[r][l.in]) # NULL
                      /\ Full(Tail(htbl[r][l.in]), d[l.in] - 1)
    OBVIOUS
  <2>1. l.in \in Addrs
    BY <1>1 DEF Keys
  <2>2. Full(htbl[r][l.in], d[l.in]) /\ d[l.in] > 0 /\ d[l.in] \in Int
    BY <1>2, <2>1 DEF Holds, Covers
  <2>3. htbl[r][l.in] \in Seq(Vals \union {NULL})
    BY <1>1
  <2> QED BY <2>1, <2>2, <2>3, FullTail
<1>4. Deleted(r, l.in) \in [Keys -> Seq(Vals \union {NULL})]
  <2>1. htbl[r][l.in] \in Seq(Vals \union {NULL})
    BY <1>1
  <2>2. htbl[r][l.in] # <<>> => Tail(htbl[r][l.in]) \in Seq(Vals \union {NULL})
    BY <2>1, TailPlaces
  <2> QED BY <1>1, <2>2 DEF Deleted
<1>5. ASSUME NEW a \in Addrs PROVE Full(Deleted(r, l.in)[a], d[a] - One(l.in = a))
  <2>1. Full(htbl[r][a], d[a]) /\ d[a] \in Int /\ a \in Keys
    BY DEF Holds, Keys
  <2>2. CASE l.in = a
    <3>1. Deleted(r, l.in)[a] = Tail(htbl[r][a])
      BY <1>1, <1>3, <2>1, <2>2 DEF Deleted
    <3> QED BY <1>1, <1>3, <2>2, <3>1 DEF One
  <2>3. CASE l.in # a
    <3>1. Deleted(r, l.in)[a] = htbl[r][a]
      BY <1>1, <2>1, <2>3 DEF Deleted
    <3> QED BY <2>1, <2>3, <3>1 DEF One
  <2> QED BY <2>2, <2>3
<1>6. l.in # NULL => lphash_lookup(r, l.in) # NULL
  BY <1>3 DEF lphash_lookup
<1> QED BY <1>1, <1>2, <1>4, <1>5, <1>6

LEMMA FreeDone ==
    ASSUME TypeOK, NEW r \in Replayers, NEW l \in Lines, replay_free(r, l),
           NEW d \in [Addrs -> Int], Holds(htbl[r], d), Covers(l, d)
    PROVE  Goes(r) /\ Moves(l, d, htbl'[r])
<1> DEFINE val == IF l.in = NULL THEN NULL ELSE lphash_lookup(r, l.in)
<1>1. /\ l.op = "f" /\ Goes(r)
      /\ htbl' = IF val = NULL THEN htbl ELSE [htbl EXCEPT ![r] = Deleted(r, l.in)]
  BY Zenon DEF replay_free
<1>2. /\ l.in # NULL => lphash_lookup(r, l.in) # NULL
      /\ \A a \in Addrs : /\ Does("takes", l, a) <=> l.in = a
                          /\ Full(Deleted(r, l.in)[a], d[a] - One(l.in = a))
  BY <1>1, DeletedHolds
<1> SUFFICES ASSUME NEW a \in Addrs
             PROVE  Full(htbl'[r][a],
                         d[a] - One(Does("takes", l, a)) + One(Does("gives", l, a)))
  BY <1>1 DEF Moves
<1>3. /\ One(Does("takes", l, a)) = One(l.in = a) /\ One(Does("gives", l, a)) = 0
      /\ d[a] \in Int /\ One(l.in = a) \in Int /\ a # NULL
  BY <1>1, <1>2, ReplayAssumption DEF Does, One
<1>4. Full(htbl'[r][a], d[a] - One(l.in = a))
  <2>1. CASE l.in = NULL
    <3>1. htbl' = htbl /\ One(l.in = a) = 0
      BY <1>1, <1>3, <2>1 DEF One
    <3> QED BY <1>3, <3>1 DEF Holds
  <2>2. CASE l.in # NULL
    <3>1. htbl'[r] = Deleted(r, l.in)
      BY <1>1, <1>2, <2>2 DEF TypeOK
    <3> QED BY <1>2, <3>1
  <2> QED BY <2>1, <2>2
<1> QED BY <1>3, <1>4

LEMMA ReallocDone ==
    ASSUME TypeOK, NEW r \in Replayers, NEW l \in Lines, replay_realloc(r, l), ~short'[r],
           l.size = 0 \/ l.out # NULL,
           NEW d \in [Addrs -> Int], Holds(htbl[r], d), Covers(l, d)
    PROVE  Goes(r) /\ Moves(l, d, htbl'[r])
<1> DEFINE old == IF l.in = NULL THEN NULL ELSE lphash_lookup(r, l.in)
           d2  == [a \in Addrs |-> d[a] - One(l.in = a)]
<1>1. l.op = "r"
  BY DEF replay_realloc
<1>2. /\ l.in \in Keys /\ l.out \in Keys
      /\ Deleted(r, l.in) \in [Keys -> Seq(Vals \union {NULL})]
      /\ l.in # NULL => old # NULL
      /\ \A a \in Addrs : /\ Does("takes", l, a) <=> l.in = a
                          /\ Full(Deleted(r, l.in)[a], d[a] - One(l.in = a))
  BY <1>1, DeletedHolds, LineAddresses
<1>3. ASSUME NEW a \in Addrs
      PROVE  /\ One(Does("takes", l, a)) = One(l.in = a)
             /\ One(Does("gives", l, a)) = One(l.out = a)
             /\ d[a] \in Int /\ One(l.in = a) \in Int /\ One(l.out = a) \in Int
  BY <1>1, <1>2 DEF Does, One
<1>4. PICK new \in ReallocResults(old, l.size) :
          IF l.size # 0 /\ Stays(l, old, new)
          THEN Goes(r) /\ UNCHANGED <<htbl, short>>
          ELSE Insert(r, Deleted(r, l.in), l.out, new)
  BY Zenon, <1>2 DEF replay_realloc
<1>5. new \in Vals \union {NULL}
  <2>1. lphash_lookup(r, l.in) \in Vals \union {NULL}
    <3>1. htbl[r][l.in] \in Seq(Vals \union {NULL})
      BY <1>2 DEF TypeOK, Keys
    <3> QED BY <3>1 DEF lphash_lookup
  <2>2. old \in Vals \union {NULL}
    BY <2>1
  <2> HIDE DEF old
  <2> QED BY <2>2 DEF ReallocResults, NewVals
<1> HIDE DEF old
<1>6. CASE l.size # 0 /\ Stays(l, old, new)
  <2>1. l.in = l.out /\ htbl' = htbl /\ Goes(r)
    BY <1>4, <1>6 DEF Stays
  <2>2. ASSUME NEW a \in Addrs
        PROVE  Full(htbl'[r][a],
                    d[a] - One(Does("takes", l, a)) + One(Does("gives", l, a)))
    <3>1. d[a] - One(Does("takes", l, a)) + One(Does("gives", l, a)) = d[a]
      BY <1>3, <2>1
    <3> QED BY <2>1, <3>1 DEF Holds
  <2> QED BY <2>1, <2>2 DEF Moves
<1>7. CASE ~(l.size # 0 /\ Stays(l, old, new))
  <2>1. Insert(r, Deleted(r, l.in), l.out, new)
    BY <1>4, <1>7
  <2>2. d2 \in [Addrs -> Int] /\ \A a \in Addrs : Full(Deleted(r, l.in)[a], d2[a])
    BY <1>2, <1>3
  <2> HIDE DEF d2
  <2>3. Goes(r) /\ \A a \in Addrs : Full(htbl'[r][a], d2[a] + One(l.out = a))
    BY <1>2, <1>5, <2>1, <2>2, InsertDone
  <2>4. ASSUME NEW a \in Addrs
        PROVE  Full(htbl'[r][a],
                    d[a] - One(Does("takes", l, a)) + One(Does("gives", l, a)))
    <3>1. d2[a] + One(l.out = a) = d[a] - One(Does("takes", l, a)) + One(Does("gives", l, a))
      BY <1>3 DEF d2
    <3> QED BY <2>3, <3>1
  <2> QED BY <2>3, <2>4 DEF Moves
<1> QED BY <1>6, <1>7

\* what the first n lines leave
Left(L, n) == [a \in Addrs |-> Lined("gives", L, n, a) - Lined("takes", L, n, a)]

\* A replayer with memory to spare has what the lines that it has read leave of a complete log.
KeepsUp(r) ==
    Complete /\ ~short[r] => status[r] = "running" /\ Holds(htbl[r], Left(log, pos[r] - 1))

AllKeepUp == \A r \in Replayers : KeepsUp(r)

LEMMA LeftNext ==
    ASSUME NEW L, NEW n \in Nat
    PROVE  /\ Left(L, n) \in [Addrs -> Int]
           /\ \A a \in Addrs :
                 Left(L, n + 1)[a] = Left(L, n)[a] - One(Does("takes", L[n + 1], a))
                                     + One(Does("gives", L[n + 1], a))
<1>1. ASSUME NEW a \in Addrs, NEW role \in Roles
      PROVE  /\ Lined(role, L, n, a) \in Nat
             /\ Lined(role, L, n + 1, a) = Lined(role, L, n, a) + One(Does(role, L[n + 1], a))
  BY LinedNext
<1>2. ASSUME NEW a \in Addrs, NEW role \in Roles PROVE One(Does(role, L[n + 1], a)) \in Int
  BY DEF One
<1>3. Left(L, n) \in [Addrs -> Int]
  BY <1>1 DEF Left, Roles
<1>4. ASSUME NEW a \in Addrs
      PROVE  Left(L, n + 1)[a] = Left(L, n)[a] - One(Does("takes", L[n + 1], a))
                                 + One(Does("gives", L[n + 1], a))
  <2>1. /\ Left(L, n + 1)[a] = Lined("gives", L, n + 1, a) - Lined("takes", L, n + 1, a)
        /\ Left(L, n)[a] = Lined("gives", L, n, a) - Lined("takes", L, n, a)
    BY DEF Left
  <2> QED BY <1>1, <1>2, <2>1 DEF Roles
<1> QED BY <1>3, <1>4

\* Recording changes nothing for the lines that were read.
LEMMA RecordKeepUp ==
    ASSUME TypeOK, AllKeepUp, UNCHANGED <<early, replaying>>,
           log' = log \/ \E l \in Lines : log' = Append(log, l)
    PROVE  AllKeepUp'
<1> SUFFICES ASSUME NEW r \in Replayers, Complete', ~short[r]
             PROVE  status[r] = "running" /\ Holds(htbl[r], Left(log', pos[r] - 1))
  BY DEF AllKeepUp, KeepsUp, replaying
<1>1. CASE log' = log
  BY <1>1 DEF AllKeepUp, KeepsUp, Complete
<1>2. ASSUME NEW l \in Lines, log' = Append(log, l)
      PROVE  status[r] = "running" /\ Holds(htbl[r], Left(log', pos[r] - 1))
  <2>1. /\ log \in Seq(Lines) /\ Len(log) \in Nat /\ pos[r] - 1 \in 0 .. Len(log)
        /\ Len(log') = Len(log) + 1 /\ \A i \in 1 .. Len(log) : log'[i] = log[i]
    BY <1>2 DEF TypeOK
  <2>2. Complete
    BY <2>1 DEF Complete
  <2>3. Left(log', pos[r] - 1) = Left(log, pos[r] - 1)
    BY <1>2, <2>1, LinedAppend DEF Left
  <2> QED BY <2>2, <2>3 DEF AllKeepUp, KeepsUp
<1> QED BY <1>1, <1>2

\* A line of a complete log is replayed.
LEMMA FileKeepsUp ==
    ASSUME Inv, Accounted, AllKeepUp, NEW r \in Replayers, process_file(r)
    PROVE  AllKeepUp'
<1> DEFINE n == pos[r] - 1
           l == log[pos[r]]
<1>1. /\ UNCHANGED <<early, log>> /\ status[r] = "running"
      /\ replay_malloc(r, l) \/ replay_free(r, l) \/ replay_realloc(r, l)
  BY DEF process_file, recording
<1>2. n \in Nat /\ n + 1 = pos[r] /\ pos[r] \in 1 .. Len(log) /\ l \in Lines /\ TypeOK
  <2>1. log \in Seq(Lines) /\ Len(log) \in Nat /\ pos[r] \in Nat
        /\ pos[r] \in 1 .. Len(log) + 1 /\ pos[r] <= Len(log)
    BY DEF Inv, TypeOK, process_file
  <2> QED BY <2>1 DEF Inv
<1>3. ASSUME NEW q \in Replayers \ {r}
      PROVE  htbl'[q] = htbl[q] /\ pos'[q] = pos[q] /\ status'[q] = status[q] /\ short'[q] = short[q]
  <2>1. Goes(r) \/ Fails(r)
    BY <1>1, ZenonT(30) DEF replay_malloc, replay_free, replay_realloc, Insert
  <2>2. pos'[q] = pos[q] /\ status'[q] = status[q]
    BY <1>2, <2>1 DEF Goes, Fails, TypeOK
  <2>3. /\ \E tab : htbl' = htbl \/ htbl' = [htbl EXCEPT ![r] = tab]
        /\ \E b : short' = short \/ short' = [short EXCEPT ![r] = b]
    BY <1>1, ZenonT(60) DEF replay_malloc, replay_free, replay_realloc, Insert
  <2>4. htbl'[q] = htbl[q] /\ short'[q] = short[q]
    BY <1>2, <2>3 DEF TypeOK
  <2> QED BY <2>2, <2>4
<1>4. Complete' <=> Complete
  BY <1>1 DEF Complete
<1>5. ASSUME Complete, ~short'[r]
      PROVE  status'[r] = "running" /\ Holds(htbl'[r], Left(log, pos'[r] - 1))
  <2>1. ~short[r]
    <3>1. short \in [Replayers -> BOOLEAN]
      BY <1>2 DEF TypeOK
    <3>2. \/ UNCHANGED short
          \/ \E val, key : short' = [short EXCEPT ![r] = @ \/ (val = NULL /\ key # NULL)]
          \/ short' = [short EXCEPT ![r] = TRUE]
      BY <1>1, ZenonT(60) DEF replay_malloc, replay_free, replay_realloc, Insert
    <3> QED BY <1>5, <3>1, <3>2
  <2> DEFINE d == Left(log, n)
  <2>2. Holds(htbl[r], d)
    BY <1>5, <2>1 DEF AllKeepUp, KeepsUp
  <2>3. /\ d \in [Addrs -> Int]
        /\ \A a \in Addrs : Left(log, n + 1)[a]
                               = d[a] - One(Does("takes", l, a)) + One(Does("gives", l, a))
    <3> HIDE DEF n
    <3> QED BY <1>2, LeftNext
  <2>4. Covers(l, d)
    <3> SUFFICES ASSUME NEW a \in Addrs, Does("takes", l, a) PROVE d[a] > 0
      BY DEF Covers
    <3>1. TakesGiven(log, a)
      BY <1>5 DEF Accounted, Complete
    <3>2. Lined("takes", log, n, a) < Lined("gives", log, n, a)
      BY <1>2, <3>1 DEF TakesGiven
    <3>3. Lined("takes", log, n, a) \in Nat /\ Lined("gives", log, n, a) \in Nat
      BY <1>2, LinedNext
    <3> QED BY <3>2, <3>3 DEF Left
  <2>5. l.op = "r" => l.size = 0 \/ l.out # NULL
    BY <1>2, <1>5 DEF Complete
  <2> HIDE DEF d, l
  <2>6. Goes(r) /\ Moves(l, d, htbl'[r])
    <3>1. CASE replay_malloc(r, l)
      BY <1>2, <1>5, <2>2, <2>3, <3>1, MallocDone
    <3>2. CASE replay_free(r, l)
      BY <1>2, <2>2, <2>3, <2>4, <3>2, FreeDone
    <3>3. CASE replay_realloc(r, l)
      <4>1. l.size = 0 \/ l.out # NULL
        BY <2>5, <3>3 DEF replay_realloc
      <4> QED BY <1>2, <1>5, <2>2, <2>3, <2>4, <3>3, <4>1, ReallocDone
    <3> QED BY <1>1, <3>1, <3>2, <3>3
  <2>7. pos'[r] - 1 = n + 1 /\ status'[r] = "running"
    BY <1>1, <1>2, <2>6 DEF Goes, TypeOK
  <2> HIDE DEF n
  <2>8. Holds(htbl'[r], Left(log, n + 1))
    BY <2>3, <2>6 DEF Moves, Holds
  <2> QED BY <2>7, <2>8
<1> SUFFICES ASSUME NEW q \in Replayers PROVE KeepsUp(q)'
  BY DEF AllKeepUp
<1>6. CASE q = r
  BY <1>1, <1>4, <1>5, <1>6 DEF KeepsUp
<1>7. CASE q # r
  BY <1>1, <1>3, <1>4, <1>7 DEF AllKeepUp, KeepsUp
<1> QED BY <1>6, <1>7

LEMMA NextKeepsUp == Inv /\ Accounted /\ AllKeepUp /\ [Next]_vars => AllKeepUp'
<1> SUFFICES ASSUME Inv, Accounted, AllKeepUp, [Next]_vars PROVE AllKeepUp'
  OBVIOUS
<1> TypeOK
  BY DEF Inv
<1>1. ASSUME NEW t \in Threads,
             my_malloc_hook(t) \/ my_free_hook(t) \/ my_realloc_hook(t)
      PROVE  AllKeepUp'
  <2>1. UNCHANGED <<early, log, replaying>>
    BY <1>1, ZenonT(30) DEF my_malloc_hook, my_free_hook, my_realloc_hook, Calls
  <2> QED BY <2>1, RecordKeepUp
<1>2. ASSUME NEW t \in Threads, WriteLogEntry(t) PROVE AllKeepUp'
  <2>1. line[t] \in Lines
    BY <1>2 DEF TypeOK, WriteLogEntry, Pending
  <2> QED BY <1>2, <2>1, RecordKeepUp DEF WriteLogEntry
<1>3. CASE Exit
  BY <1>3, RecordKeepUp DEF Exit
<1>4. ASSUME NEW r \in Replayers, process_file(r) PROVE AllKeepUp'
  BY <1>4, FileKeepsUp
<1>5. CASE UNCHANGED vars
  BY <1>5, RecordKeepUp DEF vars, replaying
<1> QED BY <1>1, <1>2, <1>3, <1>4, <1>5 DEF Next

LEMMA InitKeepsUp == Init => AllKeepUp
<1> SUFFICES ASSUME Init, NEW r \in Replayers
             PROVE  status[r] = "running" /\ Holds(htbl[r], Left(log, pos[r] - 1))
  BY DEF AllKeepUp, KeepsUp
<1>1. status[r] = "running" /\ pos[r] = 1 /\ \A a \in Addrs : htbl[r][a] = <<>>
  BY DEF Init
<1>2. ASSUME NEW a \in Addrs PROVE Left(log, 0)[a] = 0
  <2>1. \A role \in Roles : Places(role, log, 0, a) = {}
    BY DEF Places
  <2> QED BY <2>1, FS_EmptySet DEF Roles, Left, Lined
<1> QED BY <1>1, <1>2 DEF Holds, Full

\* The books of the recorder are always right, and the replayers keep up with them.
LEMMA KeepsUpAlways == Spec => [](Inv /\ Accounted /\ AllKeepUp)
BY InitInv, NextInv, InitAccounted, NextAccounted, InitKeepsUp, NextKeepsUp, PTL DEF Spec

\* A log that began with the program and in which no realloc failed is replayed to its end by
\* every replayer that gets memory: the block that realloc takes is in the table
\* (replaylib.c:458), for any number of threads, calls and addresses, although the hooks
\* (mhook.c) write their lines in another order than that of the calls.
THEOREM NeverMissingAlways == Spec => []NeverMissing
<1>1. AllKeepUp => NeverMissing
  BY DEF AllKeepUp, KeepsUp, NeverMissing
<1> QED BY KeepsUpAlways, <1>1, PTL

\* At its end the table has one value for each block that the program had, and no other,
\* if no line is missing.
THEOREM MirrorsAlways == Spec => []MirrorsProgram
<1>1. Inv /\ Accounted /\ AllKeepUp => MirrorsProgram
  <2> SUFFICES ASSUME Inv, Accounted, AllKeepUp, NEW r \in Replayers, Complete,
                      Pending = {}, ~short[r], pos[r] > Len(log), NEW a \in Addrs
               PROVE  Len(htbl[r][a]) = IF a \in live THEN 1 ELSE 0
    BY DEF MirrorsProgram
  <2>1. pos[r] - 1 = Len(log) /\ Len(log) \in Nat
    BY DEF Inv, TypeOK
  <2>2. Len(htbl[r][a]) = Left(log, Len(log))[a]
    BY <2>1 DEF AllKeepUp, KeepsUp, Holds, Full
  <2>3. ASSUME NEW role \in Roles PROVE Due(role, line, a) = 0
    <3>1. Doing(role, line, a) = {}
      BY NoLineDoes DEF Doing, Pending
    <3> QED BY <3>1, FS_EmptySet DEF Due
  <2>4. Balanced(a)
    BY DEF Accounted, Complete
  <2>5. Lined("gives", log, Len(log), a) \in Nat /\ Lined("takes", log, Len(log), a) \in Nat
    BY <2>1, LinedNext
  <2> QED BY <2>2, <2>3, <2>4, <2>5 DEF Roles, Balanced, Left, One
<1> QED BY KeepsUpAlways, <1>1, PTL
=============================================================================
