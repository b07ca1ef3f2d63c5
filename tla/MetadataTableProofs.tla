-------------------------- MODULE MetadataTableProofs --------------------------
(***************************************************************************)
(* The metadata table keeps every bucket in the bin of its chunk, through  *)
(* splits, mergers and refused memory, and so is the map of MetadataMap,   *)
(* for any number of buckets and segments, any length of a segment and     *)
(* any loads.                                                              *)
(***************************************************************************)
EXTENDS MetadataTable, FiniteSetTheorems, SequenceTheorems, WellFoundedInduction, TLAPS

(***************************************************************************)
(* Natural numbers                                                         *)
(***************************************************************************)
LEMMA LeastNumber ==
    ASSUME NEW S \in SUBSET Nat, S # {}
    PROVE  Min(S) \in S /\ \A n \in S : Min(S) <= n
<1> DEFINE R == {e \in Nat \X Nat : e[1] < e[2]}
<1>1. IsWellFoundedOn(R, Nat)
  BY NatLessThanWellFounded DEF OpToRel
<1>2. PICK m \in S : \A n \in S : ~(<<n, m>> \in R)
  <2> HIDE DEF R
  <2> QED BY <1>1, WFMin
<1>3. ASSUME NEW n \in S PROVE m <= n
  <2>1. <<n, m>> \in Nat \X Nat /\ ~(<<n, m>> \in R)
    BY <1>2
  <2>2. ~(n < m)
    BY <2>1
  <2> QED BY <2>2
<1> QED BY <1>3 DEF Min

\* Induction, for a set of numbers.
LEMMA AllNumbers ==
    ASSUME NEW S, 0 \in S, \A n \in Nat : n \in S => n + 1 \in S
    PROVE  Nat \subseteq S
<1> DEFINE Missing == Nat \ S
<1> SUFFICES ASSUME Missing # {} PROVE FALSE
  OBVIOUS
<1>1. Min(Missing) \in Missing /\ \A n \in Missing : Min(Missing) <= n
  BY LeastNumber
<1>m. PICK m : m = Min(Missing)
  OBVIOUS
<1>2. m \in Nat /\ m # 0 /\ m \notin S
  BY <1>1, <1>m
<1>3. m - 1 \in Nat /\ m - 1 \notin Missing
  <2>1. \A n \in Missing : m <= n
    BY <1>1, <1>m
  <2>2. m - 1 \in Nat /\ ~(m <= m - 1)
    BY <1>2
  <2> HIDE DEF Missing
  <2> QED BY <2>1, <2>2
<1>4. (m - 1) + 1 \in S
  BY <1>3
<1> QED BY <1>2, <1>4

\* The doublings.
LEMMA Powers ==
    /\ PowerOfTwo[0] = 1
    /\ \A n \in Nat : PowerOfTwo[n] \in Nat \ {0} /\ PowerOfTwo[n + 1] = 2 * PowerOfTwo[n]
<1> DEFINE P(g, n) ==
        g \in [0 .. n -> Nat \ {0}] /\ \A i \in 0 .. n : g[i] = IF i = 0 THEN 1 ELSE 2 * g[i - 1]
<1>1. \A n \in Nat : \E g : P(g, n)
  <2> DEFINE S == {n \in Nat : \E g : P(g, n)}
  <2>1. 0 \in S
    <3>1. P([i \in 0 .. 0 |-> 1], 0)
      OBVIOUS
    <3> QED BY <3>1
  <2>2. ASSUME NEW n \in Nat, n \in S PROVE n + 1 \in S
    <3>1. PICK g : P(g, n)
      BY <2>2
    <3>2. g[n] \in Nat \ {0}
      BY <3>1
    <3>h. PICK h : h = [i \in 0 .. n + 1 |-> IF i = n + 1 THEN 2 * g[n] ELSE g[i]]
      OBVIOUS
    <3>a. h[n + 1] = 2 * g[n] /\ \A i \in 0 .. n : h[i] = g[i]
      BY <3>h
    <3>b. h \in [0 .. n + 1 -> Nat \ {0}]
      BY <3>1, <3>2, <3>h
    <3>c. ASSUME NEW i \in 0 .. n + 1 PROVE h[i] = IF i = 0 THEN 1 ELSE 2 * h[i - 1]
      <4>1. CASE i = n + 1
        BY <4>1, <3>a
      <4>2. CASE i \in 0 .. n
        <5>1. i # 0 => i - 1 \in 0 .. n
          BY <4>2
        <5> QED BY <4>2, <5>1, <3>a, <3>1
      <4> QED BY <4>1, <4>2
    <3>3. P(h, n + 1)
      BY <3>b, <3>c
    <3> HIDE DEF P
    <3> QED BY <3>3
  <2> HIDE DEF S
  <2>3. Nat \subseteq S
    BY <2>1, <2>2, AllNumbers
  <2> QED BY <2>3 DEF S
<1>2. ASSUME NEW n \in Nat, NEW m \in Nat, NEW g, NEW h, P(g, n), P(h, m),
             NEW i \in Nat, i <= n, i <= m
      PROVE  g[i] = h[i]
  <2> DEFINE S == {k \in Nat : k <= n /\ k <= m => g[k] = h[k]}
  <2>1. 0 \in S
    BY <1>2
  <2>2. ASSUME NEW k \in Nat, k \in S PROVE k + 1 \in S
    <3> SUFFICES ASSUME k + 1 <= n, k + 1 <= m PROVE g[k + 1] = h[k + 1]
      OBVIOUS
    <3>1. g[k] = h[k]
      BY <2>2
    <3>2. g[k + 1] = 2 * g[(k + 1) - 1] /\ h[k + 1] = 2 * h[(k + 1) - 1]
      BY <1>2
    <3> QED BY <3>1, <3>2
  <2> HIDE DEF S
  <2>3. Nat \subseteq S
    BY <2>1, <2>2, AllNumbers
  <2> QED BY <1>2, <2>3 DEF S
<1> DEFINE pick(n) == CHOOSE g : P(g, n)
           f == [n \in Nat |-> pick(n)[n]]
<1>3. \A n \in Nat : P(pick(n), n)
  BY <1>1
<1>4. ASSUME NEW n \in Nat PROVE f[n] = IF n = 0 THEN 1 ELSE 2 * f[n - 1]
  <2>1. CASE n = 0
    <3>1. P(pick(0), 0)
      BY <1>3
    <3>2. f[0] = pick(0)[0]
      OBVIOUS
    <3>3. pick(0)[0] = 1
      <4>1. PICK g : g = pick(0)
        OBVIOUS
      <4>2. \A i \in 0 .. 0 : g[i] = IF i = 0 THEN 1 ELSE 2 * g[i - 1]
        BY <3>1, <4>1
      <4>3. g[0] = 1
        BY <4>2
      <4> QED BY <4>1, <4>3
    <3> QED BY <2>1, <3>2, <3>3
  <2>2. CASE n # 0
    <3>0. n - 1 \in Nat
      BY <2>2
    <3>1. P(pick(n), n) /\ P(pick(n - 1), n - 1)
      <4> HIDE DEF P, pick
      <4> QED BY <1>3, <3>0
    <3>2. pick(n)[n] = 2 * pick(n)[n - 1]
      <4>1. PICK g : g = pick(n)
        OBVIOUS
      <4>2. \A i \in 0 .. n : g[i] = IF i = 0 THEN 1 ELSE 2 * g[i - 1]
        BY <3>1, <4>1
      <4>3. g[n] = 2 * g[n - 1]
        BY <4>2, <2>2
      <4> QED BY <4>1, <4>3
    <3>3. pick(n)[n - 1] = pick(n - 1)[n - 1]
      <4> HIDE DEF P, pick
      <4> QED BY <3>1, <2>2, <1>2
    <3>4. f[n] = pick(n)[n] /\ f[n - 1] = pick(n - 1)[n - 1]
      BY <2>2
    <3> HIDE DEF P, pick, f
    <3> QED BY <2>2, <3>2, <3>3, <3>4
  <2> QED BY <2>1, <2>2
<1>5. f = [n \in Nat |-> IF n = 0 THEN 1 ELSE 2 * f[n - 1]]
  <2>g. PICK g : g = [n \in Nat |-> IF n = 0 THEN 1 ELSE 2 * f[n - 1]]
    OBVIOUS
  <2>1. f = [n \in Nat |-> f[n]]
    <3>p. PICK q : q = [n \in Nat |-> pick(n)[n]]
      OBVIOUS
    <3>1. q = [n \in Nat |-> q[n]]
      <4> HIDE DEF pick
      <4> QED BY <3>p
    <3> QED BY <3>p, <3>1
  <2> HIDE DEF f
  <2>2. \A n \in Nat : g[n] = f[n]
    BY <2>g, <1>4
  <2>3. g = [n \in Nat |-> g[n]]
    BY <2>g
  <2> QED BY <2>1, <2>2, <2>3, <2>g
<1>6. PowerOfTwo = [n \in Nat |-> IF n = 0 THEN 1 ELSE 2 * PowerOfTwo[n - 1]]
  <2> HIDE DEF f
  <2> QED BY <1>5 DEF PowerOfTwo
<1>7. \A n \in Nat : PowerOfTwo[n] = IF n = 0 THEN 1 ELSE 2 * PowerOfTwo[n - 1]
  BY <1>6
<1>8. PowerOfTwo[0] = 1
  BY <1>7
<1>9. ASSUME NEW n \in Nat PROVE PowerOfTwo[n + 1] = 2 * PowerOfTwo[n]
  <2>1. n + 1 \in Nat /\ n + 1 # 0 /\ (n + 1) - 1 = n
    OBVIOUS
  <2> QED BY <1>7, <2>1
<1>10. Nat \subseteq {n \in Nat : PowerOfTwo[n] \in Nat \ {0}}
  <2> DEFINE S == {n \in Nat : PowerOfTwo[n] \in Nat \ {0}}
  <2>1. 0 \in S
    BY <1>8
  <2>2. ASSUME NEW n \in Nat, n \in S PROVE n + 1 \in S
    BY <2>2, <1>9
  <2> HIDE DEF S
  <2>3. Nat \subseteq S
    BY <2>1, <2>2, AllNumbers
  <2> QED BY <2>3 DEF S
<1> QED BY <1>8, <1>9, <1>10

(***************************************************************************)
(* What is selected from a sequence                                        *)
(***************************************************************************)
Places(s, B) == {j \in DOMAIN s : s[j] \in B}

\* f lists J in its order.
Lists(f, n, J) ==
    /\ n \in Nat /\ f \in [1 .. n -> J]
    /\ \A i, k \in 1 .. n : i < k => f[i] < f[k]
    /\ \A j \in J : \E i \in 1 .. n : f[i] = j

LEMMA CanBeListed ==
    ASSUME NEW m \in Nat, NEW J \in SUBSET (1 .. m)
    PROVE  \E n, f : Lists(f, n, J)
<1> DEFINE S == {k \in Nat : \A I \in SUBSET (1 .. k) : \E n, f : Lists(f, n, I)}
<1>1. 0 \in S
  <2>1. ASSUME NEW I \in SUBSET (1 .. 0) PROVE Lists([i \in 1 .. 0 |-> 0], 0, I)
    BY DEF Lists
  <2> QED BY <2>1
<1>2. ASSUME NEW k \in Nat, k \in S PROVE k + 1 \in S
  <2> SUFFICES ASSUME NEW I \in SUBSET (1 .. k + 1)
               PROVE  \E n, f : Lists(f, n, I)
    OBVIOUS
  <2>1. CASE k + 1 \notin I
    <3>1. I \in SUBSET (1 .. k)
      BY <2>1
    <3> QED BY <3>1, <1>2
  <2>2. CASE k + 1 \in I
    <3>1. I \ {k + 1} \in SUBSET (1 .. k)
      OBVIOUS
    <3>2. PICK n, f : Lists(f, n, I \ {k + 1})
      BY <3>1, <1>2
    <3>n. n \in Nat
      BY <3>2 DEF Lists
    <3>g. PICK g : g = [i \in 1 .. n + 1 |-> IF i = n + 1 THEN k + 1 ELSE f[i]]
      OBVIOUS
    <3>3. g[n + 1] = k + 1 /\ \A i \in 1 .. n : g[i] = f[i] /\ f[i] \in I /\ f[i] \in 1 .. k
      <4>1. \A i \in 1 .. n : f[i] \in I \ {k + 1}
        BY <3>2 DEF Lists
      <4>2. g[n + 1] = k + 1 /\ \A i \in 1 .. n : g[i] = f[i]
        BY <3>g, <3>n
      <4> QED BY <4>1, <4>2, <3>1
    <3>4. g \in [1 .. n + 1 -> I]
      <4>1. ASSUME NEW i \in 1 .. n + 1 PROVE g[i] \in I
        <5>1. i = n + 1 \/ i \in 1 .. n
          BY <3>n
        <5> QED BY <5>1, <3>3, <2>2
      <4> QED BY <4>1, <3>g
    <3>5. ASSUME NEW a \in 1 .. n + 1, NEW b \in 1 .. n + 1, a < b PROVE g[a] < g[b]
      <4>1. a \in 1 .. n /\ (b = n + 1 \/ b \in 1 .. n)
        BY <3>5, <3>n
      <4>2. CASE b = n + 1
        BY <4>1, <4>2, <3>3
      <4>3. CASE b \in 1 .. n
        <5>1. f[a] < f[b]
          BY <4>1, <4>3, <3>5, <3>2 DEF Lists
        <5> QED BY <5>1, <4>1, <4>3, <3>3
      <4> QED BY <4>1, <4>2, <4>3
    <3>6. ASSUME NEW j \in I PROVE \E i \in 1 .. n + 1 : g[i] = j
      <4>0. n + 1 \in 1 .. n + 1 /\ \A i \in 1 .. n : i \in 1 .. n + 1
        BY <3>n
      <4>1. CASE j = k + 1
        BY <4>1, <4>0, <3>3
      <4>2. CASE j # k + 1
        <5>1. PICK i \in 1 .. n : f[i] = j
          BY <4>2, <3>2 DEF Lists
        <5> QED BY <5>1, <4>0, <3>3
      <4> QED BY <4>1, <4>2
    <3>7. Lists(g, n + 1, I)
      BY <3>n, <3>4, <3>5, <3>6 DEF Lists
    <3> QED BY <3>7
  <2> QED BY <2>1, <2>2
<1> HIDE DEF S
<1>3. m \in S
  BY <1>1, <1>2, AllNumbers
<1> QED BY <1>3 DEF S

\* The rank of an element is its place in the list.
LEMMA RankIsPlace ==
    ASSUME NEW m \in Nat, NEW J \in SUBSET (1 .. m), NEW n, NEW f, Lists(f, n, J)
    PROVE  /\ Cardinality(J) = n
           /\ \A i \in 1 .. n : Cardinality({k \in J : k <= f[i]}) = i
<1>0. n \in Nat
  BY DEF Lists
<1>a. \A i, k \in 1 .. n : /\ f[i] \in J /\ f[i] \in Nat
                           /\ i < k => f[i] < f[k]
                           /\ f[i] = f[k] => i = k
                           /\ f[i] <= f[k] => i <= k
  <2>1. ASSUME NEW i \in 1 .. n, NEW k \in 1 .. n
        PROVE  f[i] \in J /\ f[i] \in Nat /\ (i < k => f[i] < f[k]) /\ (k < i => f[k] < f[i])
               /\ i \in Int /\ k \in Int /\ f[k] \in Nat
    <3>1. f[i] \in J /\ f[k] \in J
      BY DEF Lists
    <3>2. (i < k => f[i] < f[k]) /\ (k < i => f[k] < f[i])
      BY DEF Lists
    <3>3. f[i] \in 1 .. m /\ f[k] \in 1 .. m
      BY <3>1
    <3>4. i \in Int /\ k \in Int
      BY <1>0
    <3> QED BY <3>1, <3>2, <3>3, <3>4
  <2>2. ASSUME NEW i \in 1 .. n, NEW k \in 1 .. n
        PROVE  (f[i] = f[k] => i = k) /\ (f[i] <= f[k] => i <= k)
    BY <2>1
  <2> QED BY <2>1, <2>2
<1>1. ASSUME NEW i \in 0 .. n, NEW T, T = {k \in J : \E x \in 1 .. i : f[x] = k}
      PROVE  Cardinality(T) = i
  <2>g. PICK g : g = [x \in 1 .. i |-> f[x]]
    OBVIOUS
  <2>1. g \in [1 .. i -> T] /\ \A x \in 1 .. i : g[x] = f[x]
    BY <2>g, <1>a, <1>1, <1>0
  <2>2. g \in Bijection(1 .. i, T)
    <3>1. \A x, y \in 1 .. i : g[x] = g[y] => x = y
      <4>1. \A x \in 1 .. i : x \in 1 .. n
        BY <1>0
      <4> HIDE DEF Lists
      <4> QED BY <2>1, <1>a, <4>1
    <3>2. \A t \in T : \E x \in 1 .. i : g[x] = t
      BY <2>1, <1>1
    <3> QED BY <2>1, <3>1, <3>2 DEF Bijection, Injection, Surjection, IsInjective
  <2>3. ExistsBijection(1 .. i, T)
    BY <2>2 DEF ExistsBijection
  <2>4. IsFiniteSet(1 .. i) /\ Cardinality(1 .. i) = i
    BY FS_Interval, <1>0
  <2> HIDE <1>1
  <2> QED BY <2>3, <2>4, FS_Bijection
<1>2. J = {k \in J : \E x \in 1 .. n : f[x] = k}
  BY DEF Lists
<1>3. ASSUME NEW i \in 1 .. n
      PROVE  {k \in J : k <= f[i]} = {k \in J : \E x \in 1 .. i : f[x] = k}
  <2>1. ASSUME NEW k \in J PROVE k <= f[i] <=> \E x \in 1 .. i : f[x] = k
    <3>1. PICK y \in 1 .. n : f[y] = k
      BY DEF Lists
    <3>2. k <= f[i] => y \in 1 .. i
      BY <3>1, <1>a, <1>0
    <3>3. ASSUME NEW x \in 1 .. i, f[x] = k PROVE k <= f[i]
      <4>1. x \in 1 .. n /\ (x < i \/ x = i)
        BY <1>0
      <4> QED BY <3>3, <4>1, <1>a
    <3> QED BY <3>1, <3>2, <3>3
  <2> QED BY <2>1
<1>4. n \in 0 .. n /\ \A i \in 1 .. n : i \in 0 .. n
  BY <1>0
<1> QED BY <1>1, <1>2, <1>3, <1>4

\* What Only selects, by any list of the places.
LEMMA OnlyIs ==
    ASSUME NEW S, NEW s \in Seq(S), NEW B, NEW n, NEW f, Lists(f, n, Places(s, B))
    PROVE  Only(s, B) = [i \in 1 .. n |-> s[f[i]]]
<1> DEFINE J == Places(s, B)
           at(i) == CHOOSE j \in J : Cardinality({k \in J : k <= j}) = i
<1>1. Len(s) \in Nat /\ J \in SUBSET (1 .. Len(s))
  BY DEF Places
<1>2. Lists(f, n, J)
  OBVIOUS
<1> HIDE DEF J
<1>3. Cardinality(J) = n /\ \A i \in 1 .. n : Cardinality({k \in J : k <= f[i]}) = i
  BY <1>1, <1>2, RankIsPlace
<1>4. ASSUME NEW i \in 1 .. n PROVE at(i) = f[i]
  <2>1. f[i] \in J /\ Cardinality({k \in J : k <= f[i]}) = i
    BY <1>2, <1>3 DEF Lists
  <2>2. at(i) \in J /\ Cardinality({k \in J : k <= at(i)}) = i
    BY <2>1
  <2> HIDE DEF at
  <2>3. PICK j \in 1 .. n : f[j] = at(i)
    BY <2>2, <1>2 DEF Lists
  <2>4. j = i
    BY <2>2, <2>3, <1>3
  <2> QED BY <2>3, <2>4
<1>5. Only(s, B) = [i \in 1 .. Cardinality(J) |-> s[at(i)]]
  BY DEF Only, J, Places
<1> HIDE DEF at
<1> QED BY <1>3, <1>4, <1>5

LEMMA OnlyListed ==
    ASSUME NEW S, NEW s \in Seq(S), NEW B
    PROVE  \E n, f : /\ Lists(f, n, Places(s, B)) /\ n \in Nat
                     /\ Only(s, B) = [i \in 1 .. n |-> s[f[i]]]
                     /\ Only(s, B) \in Seq(S) /\ Len(Only(s, B)) = n
                     /\ \A i \in 1 .. n : f[i] \in DOMAIN s /\ s[f[i]] \in B
<1>1. Len(s) \in Nat /\ Places(s, B) \in SUBSET (1 .. Len(s))
  BY DEF Places
<1>2. PICK n, f : Lists(f, n, Places(s, B))
  BY <1>1, CanBeListed
<1>3. Only(s, B) = [i \in 1 .. n |-> s[f[i]]]
  BY <1>2, OnlyIs
<1>4. n \in Nat /\ \A i \in 1 .. n : f[i] \in DOMAIN s /\ s[f[i]] \in B
  BY <1>2 DEF Lists, Places
<1>5. \A i \in 1 .. n : s[f[i]] \in S
  BY <1>4
<1>t. PICK t : t = [i \in 1 .. n |-> s[f[i]]]
  OBVIOUS
<1>6. t \in Seq(S) /\ Len(t) = n
  BY <1>t, <1>4, <1>5
<1> QED BY <1>2, <1>3, <1>4, <1>6, <1>t

\* The elements of what is selected
LEMMA OnlyElements ==
    ASSUME NEW S, NEW s \in Seq(S), NEW B
    PROVE  /\ Only(s, B) \in Seq(S)
           /\ \A i \in DOMAIN Only(s, B) :
                 Only(s, B)[i] \in B /\ \E j \in DOMAIN s : s[j] = Only(s, B)[i]
           /\ \A j \in DOMAIN s : s[j] \in B => \E i \in DOMAIN Only(s, B) : Only(s, B)[i] = s[j]
           /\ (\A j, k \in DOMAIN s : s[j] = s[k] => j = k) =>
                 \A i, k \in DOMAIN Only(s, B) : Only(s, B)[i] = Only(s, B)[k] => i = k
<1>1. PICK n, f : /\ Lists(f, n, Places(s, B)) /\ n \in Nat
                  /\ Only(s, B) = [i \in 1 .. n |-> s[f[i]]]
                  /\ Only(s, B) \in Seq(S) /\ Len(Only(s, B)) = n
                  /\ \A i \in 1 .. n : f[i] \in DOMAIN s /\ s[f[i]] \in B
  BY OnlyListed
<1>t. PICK t : t = Only(s, B)
  OBVIOUS
<1>2. DOMAIN t = 1 .. n /\ \A i \in 1 .. n : t[i] = s[f[i]]
  BY <1>1, <1>t
<1>3. \A i \in DOMAIN t : t[i] \in B /\ \E j \in DOMAIN s : s[j] = t[i]
  BY <1>1, <1>2
<1>4. ASSUME NEW j \in DOMAIN s, s[j] \in B PROVE \E i \in DOMAIN t : t[i] = s[j]
  <2>1. PICK i \in 1 .. n : f[i] = j
    BY <1>1, <1>4 DEF Lists, Places
  <2> QED BY <2>1, <1>2
<1>5. ASSUME \A j, k \in DOMAIN s : s[j] = s[k] => j = k,
             NEW i \in DOMAIN t, NEW k \in DOMAIN t, t[i] = t[k]
      PROVE  i = k
  <2>1. i \in 1 .. n /\ k \in 1 .. n /\ f[i] = f[k]
    BY <1>1, <1>2, <1>5
  <2>2. (i < k => f[i] < f[k]) /\ (k < i => f[k] < f[i]) /\ i \in Int /\ k \in Int
    BY <2>1, <1>1 DEF Lists
  <2>3. f[i] \in Nat /\ f[k] \in Nat
    BY <2>1, <1>1
  <2> QED BY <2>1, <2>2, <2>3
<1> QED BY <1>1, <1>3, <1>4, <1>5, <1>t

(***************************************************************************)
(* Division                                                                *)
(***************************************************************************)
LEMMA Product ==
    ASSUME NEW n \in Nat \ {0}, NEW q \in Nat
    PROVE  n * q \in Nat
OBVIOUS

LEMMA Division ==
    ASSUME NEW n \in Nat \ {0}, NEW i \in Nat
    PROVE  i \div n \in Nat /\ i % n \in 0 .. n - 1 /\ i = n * (i \div n) + (i % n)
<1>a. i % n = i - n * (i \div n) /\ i \div n \in Int
  OBVIOUS
<1>b. i % n \in 0 .. n - 1
  OBVIOUS
<1>1. i \div n \in Int /\ i % n \in 0 .. n - 1 /\ i = n * (i \div n) + (i % n)
  <2>q. PICK q \in Int : q = i \div n
    BY <1>a
  <2>1. n * q \in Int
    OBVIOUS
  <2> QED BY <1>a, <1>b, <2>q, <2>1
<1>2. ~(i \div n < 0)
  <2> SUFFICES ASSUME i \div n <= -1 PROVE FALSE
    BY <1>1
  <2>q. PICK q \in Int : q = i \div n
    BY <1>1
  <2>1. n * q <= -n
    <3>1. -1 - q \in Nat
      BY <2>q
    <3>2. n * (-1 - q) \in Nat
      BY <3>1, Product
    <3>3. n * (-1 - q) = -n - n * q
      OBVIOUS
    <3> QED BY <3>2, <3>3
  <2> QED BY <1>1, <2>1, <2>q
<1> QED BY <1>1, <1>2

LEMMA Factors ==
    ASSUME NEW n \in Nat \ {0}, NEW q \in Nat, NEW r \in 0 .. n - 1, NEW i, i = n * q + r
    PROVE  i \in Nat /\ i \div n = q /\ i % n = r
<1>0. i \in Nat
  BY Product
<1>a. PICK a : a = i \div n
  OBVIOUS
<1>b. PICK b : b = i % n
  OBVIOUS
<1>1. a \in Nat /\ b \in 0 .. n - 1 /\ i = n * a + b
  BY <1>0, <1>a, <1>b, Division
<1>2. ASSUME NEW x \in Nat, NEW y \in Nat, x < y, NEW s \in 0 .. n - 1, NEW t \in 0 .. n - 1
      PROVE  n * x + s # n * y + t
  <2>1. PICK d \in Nat : y = x + 1 + d
    <3>1. y - x - 1 \in Nat /\ y = x + 1 + (y - x - 1)
      BY <1>2
    <3> QED BY <3>1
  <2>2. n * y = n * x + n + n * d /\ n * d \in Nat /\ n * x \in Nat /\ n * y \in Nat
    BY <2>1, Product
  <2> QED BY <2>2
<1>3. ~(a < q) /\ ~(q < a)
  BY <1>1, <1>2
<1>4. a = q
  BY <1>1, <1>3
<1>5. b = r
  <2>1. n * q \in Nat
    BY Product
  <2> QED BY <1>1, <1>4, <2>1
<1> QED BY <1>0, <1>4, <1>5, <1>a, <1>b

\* Products and order
LEMMA ProductOrder ==
    ASSUME NEW n \in Nat \ {0}, NEW x \in Nat, NEW y \in Nat
    PROVE  /\ n * x \in Nat /\ n * y \in Nat
           /\ x < y => n * x + n <= n * y
           /\ n * (x + 1) = n * x + n
<1>1. n * x \in Nat /\ n * y \in Nat
  BY Product
<1>2. ASSUME x < y PROVE n * x + n <= n * y
  <2>1. PICK d \in Nat : y = x + 1 + d
    <3>1. y - x - 1 \in Nat /\ y = x + 1 + (y - x - 1)
      BY <1>2
    <3> QED BY <3>1
  <2>2. n * y = n * x + n + n * d /\ n * d \in Nat
    BY <2>1, Product
  <2> QED BY <1>1, <2>2
<1> QED BY <1>1, <1>2

\* The quotient of a number below a multiple
LEMMA QuotientBelow ==
    ASSUME NEW n \in Nat \ {0}, NEW q \in Nat, NEW i \in 0 .. n * q - 1
    PROVE  i \in Nat /\ i \div n \in 0 .. q - 1 /\ i % n \in 0 .. n - 1
           /\ i = n * (i \div n) + (i % n)
<1>0. n * q \in Nat
  BY Product
<1>1. i \in Nat
  BY <1>0
<1>2. i \div n \in Nat /\ i % n \in 0 .. n - 1 /\ i = n * (i \div n) + (i % n)
  BY <1>1, Division
<1>a. PICK a \in Nat : a = i \div n
  BY <1>2
<1>3. ~(q <= a)
  <2> SUFFICES ASSUME q <= a PROVE FALSE
    OBVIOUS
  <2>1. n * q <= n * a
    <3>1. q = a \/ q < a
      BY <1>a
    <3>2. n * a \in Nat
      BY Product
    <3> QED BY <3>1, <3>2, <1>0, ProductOrder
  <2> QED BY <1>0, <1>2, <1>a, <2>1
<1> QED BY <1>1, <1>2, <1>3, <1>a

\* Where the end of the bins lies in the segments
LEMMA Window ==
    ASSUME NEW n \in Nat \ {0}, NEW q \in Nat, NEW i \in Nat, n * q < i + n, i < n * q
    PROVE  i \div n = q - 1 /\ (i % n = 0 <=> i = n * (q - 1)) /\ q - 1 \in Nat
<1>0. i \in 0 .. n * q - 1
  BY Product
<1>1. i \div n \in 0 .. q - 1 /\ i % n \in 0 .. n - 1 /\ i = n * (i \div n) + (i % n)
  BY <1>0, QuotientBelow
<1>a. PICK a \in Nat : a = i \div n
  BY <1>1
<1>2. q - 1 \in Nat /\ n * q = n * (q - 1) + n
  BY <1>1
<1>3. ~(a < q - 1)
  <2>1. a < q - 1 => n * a + n <= n * (q - 1)
    BY <1>2, ProductOrder
  <2>2. n * a \in Nat /\ n * (q - 1) \in Nat /\ n * q \in Nat
    BY <1>2, Product
  <2> QED BY <1>1, <1>a, <1>2, <2>1, <2>2
<1>4. a = q - 1
  BY <1>1, <1>3, <1>a
<1>5. n * (q - 1) \in Nat
  BY <1>2, Product
<1> QED BY <1>1, <1>2, <1>4, <1>5, <1>a

(***************************************************************************)
(* Where a chunk is filed, and how a split changes that                    *)
(***************************************************************************)
LEMMA Constants ==
    /\ SegLength \in Nat \ {0} /\ InitialDirectoryLength \in Nat \ {0} /\ MaxSegments \in Nat \ {0}
    /\ NBuckets \in Nat /\ BincountMax \in Nat /\ SegLength < BincountMax
    /\ MinLoad \in Nat /\ MaxLoad \in Nat
    /\ NULL \notin Chunks /\ \A c \in Chunks : Hash(c) \in Nat
BY TableAssumption, HashAssumption

Limits(at, limit) ==
    at \in Nat /\ limit \in Nat /\ at < limit /\ limit < BincountMax

NextAt(at, limit)    == IF at + 1 = limit THEN 0 ELSE at + 1
NextLimit(at, limit) == IF at + 1 = limit THEN 2 * limit ELSE limit

LEMMA TwiceRemainder ==
    ASSUME NEW m \in Nat \ {0}, NEW h \in Nat
    PROVE  /\ h % m \in 0 .. m - 1
           /\ h % (2 * m) \in {h % m, m + (h % m)}
<1>1. 2 * m \in Nat \ {0}
  OBVIOUS
<1>q. PICK q \in Nat : q = h \div (2 * m)
  BY <1>1, Division
<1>r. PICK r \in 0 .. 2 * m - 1 : r = h % (2 * m)
  BY <1>1, Division
<1>2. h = (2 * m) * q + r
  BY <1>1, <1>q, <1>r, Division
<1>3. (2 * m) * q = m * (2 * q) /\ m * (2 * q + 1) = m * (2 * q) + m /\ m * (2 * q) \in Nat
  <2>1. m * q \in Nat
    BY Product
  <2> QED BY <2>1
<1>4. CASE r < m
  <2>1. r \in 0 .. m - 1 /\ 2 * q \in Nat /\ h = m * (2 * q) + r
    BY <1>2, <1>3, <1>4
  <2>2. h % m = r
    BY <2>1, Factors
  <2> QED BY <1>r, <2>1, <2>2
<1>5. CASE ~(r < m)
  <2>a. m * (2 * q) + r = (m * (2 * q) + m) + (r - m)
    BY <1>3
  <2>b. h = m * (2 * q + 1) + (r - m)
    BY <1>2, <1>3, <2>a
  <2>c. r - m \in 0 .. m - 1 /\ 2 * q + 1 \in Nat
    BY <1>5
  <2>1. r - m \in 0 .. m - 1 /\ 2 * q + 1 \in Nat /\ h = m * (2 * q + 1) + (r - m)
    BY <2>b, <2>c
  <2>2. h % m = r - m
    <3>e. PICK e \in 0 .. m - 1 : e = r - m
      BY <2>1
    <3>k. PICK k \in Nat : k = 2 * q + 1
      BY <2>1
    <3>1. h = m * k + e
      BY <2>b, <3>e, <3>k, Zenon
    <3>2. h % m = e
      BY <3>1, Factors
    <3> QED BY <3>2, <3>e
  <2> QED BY <1>r, <2>1, <2>2
<1> QED BY <1>4, <1>5

\* A chunk is filed in a bin that is in use.
LEMMA BindexRange ==
    ASSUME NEW c \in Chunks, NEW at, NEW limit, Limits(at, limit)
    PROVE  Bindex(c, at, limit) \in 0 .. limit + at - 1
<1>1. Hash(c) \in Nat /\ limit \in Nat \ {0} /\ at \in Nat /\ at < limit
  BY Constants DEF Limits
<1>2. Hash(c) % limit \in 0 .. limit - 1
      /\ Hash(c) % (2 * limit) \in {Hash(c) % limit, limit + (Hash(c) % limit)}
  BY <1>1, TwiceRemainder
<1>l. PICK l : l = Hash(c) % limit
  OBVIOUS
<1>k. PICK k : k = Hash(c) % (2 * limit)
  OBVIOUS
<1>3. Bindex(c, at, limit) = IF l < at /\ 2 * limit < BincountMax THEN k ELSE l
  BY <1>l, <1>k DEF Bindex
<1> QED BY <1>1, <1>2, <1>3, <1>l, <1>k

\* A split files only the chunks of the bin that is split anew, there or in the new bin.
LEMMA Readdressed ==
    ASSUME NEW c \in Chunks, NEW at, NEW limit, Limits(at, limit),
           Limits(NextAt(at, limit), NextLimit(at, limit))
    PROVE  LET before == Bindex(c, at, limit)
               after  == Bindex(c, NextAt(at, limit), NextLimit(at, limit))
           IN  /\ before # at => after = before
               /\ before = at => after \in {at, limit + at}
<1>1. Hash(c) \in Nat /\ limit \in Nat \ {0} /\ at \in Nat /\ at < limit /\ BincountMax \in Nat
  BY Constants DEF Limits
<1>2. Hash(c) % limit \in 0 .. limit - 1
      /\ Hash(c) % (2 * limit) \in {Hash(c) % limit, limit + (Hash(c) % limit)}
  BY <1>1, TwiceRemainder
<1>l. PICK l : l = Hash(c) % limit
  OBVIOUS
<1>k. PICK k : k = Hash(c) % (2 * limit)
  OBVIOUS
<1>3. Bindex(c, at, limit) = IF l < at /\ 2 * limit < BincountMax THEN k ELSE l
  BY <1>l, <1>k DEF Bindex
<1>4. CASE at + 1 = limit
  <2>1. NextAt(at, limit) = 0 /\ NextLimit(at, limit) = 2 * limit /\ 2 * limit < BincountMax
    BY <1>4 DEF NextAt, NextLimit, Limits
  <2>2. k \in Nat
    BY <1>1, <1>2, <1>l, <1>k
  <2>3. Bindex(c, 0, 2 * limit) = k
    BY <2>2, <1>k DEF Bindex
  <2> QED BY <1>1, <1>2, <1>3, <1>4, <1>l, <1>k, <2>1, <2>3
<1>5. CASE at + 1 # limit
  <2>1. NextAt(at, limit) = at + 1 /\ NextLimit(at, limit) = limit
    BY <1>5 DEF NextAt, NextLimit
  <2>3. Bindex(c, at + 1, limit) = IF l < at + 1 /\ 2 * limit < BincountMax THEN k ELSE l
    BY <1>l, <1>k DEF Bindex
  <2>4. l \in Nat /\ (k = l \/ k = limit + l)
    BY <1>1, <1>2, <1>l, <1>k
  <2>5. CASE l < at
    BY <1>1, <1>3, <2>1, <2>3, <2>4, <2>5
  <2>6. CASE l = at
    BY <1>1, <1>3, <2>1, <2>3, <2>4, <2>6
  <2>7. CASE l > at
    BY <1>1, <1>3, <2>1, <2>3, <2>4, <2>7
  <2> QED BY <1>1, <2>4, <2>5, <2>6, <2>7
<1> QED BY <1>4, <1>5

(***************************************************************************)
(* The contents of the bins, as a function from their indices              *)
(***************************************************************************)
In(s, b) == \E j \in DOMAIN s : s[j] = b
Once(s)  == \A j, k \in DOMAIN s : s[j] = s[k] => j = k

Bins(top) == [0 .. top - 1 -> Seq(Buckets)]
Chunked == [Buckets -> Chunks \cup {NULL}]

\* Every bucket in use is in the bin of its chunk, every bin in use holds buckets of its
\* chunks, each once, and the others hold nothing.
Filed(bins, of, at, limit, n) ==
    /\ \A b \in Buckets : of[b] # NULL => In(bins[Bindex(of[b], at, limit)], b)
    /\ \A i \in 0 .. n - 1 :
          /\ Once(bins[i])
          /\ \A j \in DOMAIN bins[i] :
                of[bins[i][j]] # NULL /\ Bindex(of[bins[i][j]], at, limit) = i
    /\ \A i \in DOMAIN bins : i >= n => bins[i] = <<>>

\* the elements of a bin
LEMMA FiledIn ==
    ASSUME NEW top \in Nat, NEW bins \in Bins(top), NEW of \in Chunked,
           NEW at, NEW limit, NEW n \in Nat, n <= top, Filed(bins, of, at, limit, n),
           NEW i \in 0 .. top - 1, NEW b, In(bins[i], b)
    PROVE  /\ b \in Buckets /\ of[b] # NULL /\ of[b] \in Chunks
           /\ Bindex(of[b], at, limit) = i /\ i < n
<1>1. PICK j \in DOMAIN bins[i] : bins[i][j] = b
  BY DEF In
<1>2. bins[i] \in Seq(Buckets) /\ bins[i] # <<>>
  BY <1>1 DEF Bins
<1>3. i < n
  BY <1>2 DEF Filed, Bins
<1>4. b \in Buckets
  BY <1>1, <1>2
<1>5. of[b] # NULL /\ Bindex(of[b], at, limit) = i
  BY <1>1, <1>3 DEF Filed
<1> QED BY <1>3, <1>4, <1>5 DEF Chunked

LEMMA OnlyIn ==
    ASSUME NEW s \in Seq(Buckets), NEW B
    PROVE  /\ Only(s, B) \in Seq(Buckets)
           /\ \A b : In(Only(s, B), b) <=> In(s, b) /\ b \in B
           /\ Once(s) => Once(Only(s, B))
<1>t. PICK t : t = Only(s, B)
  OBVIOUS
<1>1. /\ t \in Seq(Buckets)
      /\ \A i \in DOMAIN t : t[i] \in B /\ \E j \in DOMAIN s : s[j] = t[i]
      /\ \A j \in DOMAIN s : s[j] \in B => \E i \in DOMAIN t : t[i] = s[j]
      /\ Once(s) => Once(t)
  BY <1>t, OnlyElements DEF Once
<1>2. \A b : In(t, b) <=> In(s, b) /\ b \in B
  BY <1>1 DEF In
<1> QED BY <1>1, <1>2, <1>t

Joined(s, t) == s \o t

LEMMA JoinedAt ==
    ASSUME NEW s \in Seq(Buckets), NEW t \in Seq(Buckets)
    PROVE  /\ Joined(s, t) \in Seq(Buckets) /\ Len(Joined(s, t)) = Len(s) + Len(t)
           /\ \A i \in 1 .. Len(s) : Joined(s, t)[i] = s[i]
           /\ \A i \in 1 .. Len(t) : Joined(s, t)[Len(s) + i] = t[i]
<1>u. PICK u : u = s \o t
  OBVIOUS
<1>1. /\ u \in Seq(Buckets) /\ Len(u) = Len(s) + Len(t)
      /\ \A i \in 1 .. Len(s) : u[i] = s[i]
      /\ \A i \in 1 .. Len(t) : u[Len(s) + i] = t[i]
  BY <1>u
<1> QED BY <1>1, <1>u DEF Joined

LEMMA JoinedIn ==
    ASSUME NEW s \in Seq(Buckets), NEW t \in Seq(Buckets)
    PROVE  /\ Joined(s, t) \in Seq(Buckets)
           /\ \A b : In(Joined(s, t), b) <=> In(s, b) \/ In(t, b)
           /\ (\A b : ~(In(s, b) /\ In(t, b))) /\ Once(s) /\ Once(t) => Once(Joined(s, t))
<1>u. PICK u : u = s \o t
  OBVIOUS
<1>1. /\ u \in Seq(Buckets) /\ Len(u) = Len(s) + Len(t) /\ Len(s) \in Nat /\ Len(t) \in Nat
      /\ \A i \in 1 .. Len(s) : u[i] = s[i]
      /\ \A i \in 1 .. Len(t) : u[Len(s) + i] = t[i]
  BY <1>u
<1>2. ASSUME NEW i \in DOMAIN u
      PROVE  i \in 1 .. Len(s) \/ \E k \in 1 .. Len(t) : i = Len(s) + k
  <2>1. i \in 1 .. Len(s) + Len(t)
    BY <1>1
  <2>2. i \in 1 .. Len(s) \/ (i - Len(s) \in 1 .. Len(t) /\ i = Len(s) + (i - Len(s)))
    BY <2>1, <1>1
  <2> QED BY <2>2
<1>3. \A i \in 1 .. Len(s) : i \in DOMAIN u
  BY <1>1
<1>4. \A i \in 1 .. Len(t) : Len(s) + i \in DOMAIN u
  BY <1>1
<1>5. DOMAIN s = 1 .. Len(s) /\ DOMAIN t = 1 .. Len(t)
  OBVIOUS
<1>6. \A b : In(u, b) <=> In(s, b) \/ In(t, b)
  <2>1. ASSUME NEW b, In(u, b) PROVE In(s, b) \/ In(t, b)
    BY <2>1, <1>1, <1>2, <1>5 DEF In
  <2>2. ASSUME NEW b, In(s, b) PROVE In(u, b)
    BY <2>2, <1>1, <1>3, <1>5 DEF In
  <2>3. ASSUME NEW b, In(t, b) PROVE In(u, b)
    BY <2>3, <1>1, <1>4, <1>5 DEF In
  <2> QED BY <2>1, <2>2, <2>3
<1>7. ASSUME \A b : ~(In(s, b) /\ In(t, b)), Once(s), Once(t) PROVE Once(u)
  <2> SUFFICES ASSUME NEW i \in DOMAIN u, NEW k \in DOMAIN u, u[i] = u[k] PROVE i = k
    BY DEF Once
  <2>1. \A x \in 1 .. Len(s), y \in 1 .. Len(t) : s[x] # t[y]
    BY <1>7, <1>5 DEF In
  <2>2. CASE i \in 1 .. Len(s) /\ k \in 1 .. Len(s)
    BY <2>2, <1>1, <1>5, <1>7 DEF Once
  <2>3. CASE (\E x \in 1 .. Len(t) : i = Len(s) + x) /\ (\E x \in 1 .. Len(t) : k = Len(s) + x)
    <3>1. PICK x \in 1 .. Len(t), y \in 1 .. Len(t) : i = Len(s) + x /\ k = Len(s) + y
      BY <2>3
    <3>2. t[x] = t[y]
      BY <3>1, <1>1
    <3>3. x = y
      BY <3>2, <1>5, <1>7 DEF Once
    <3> QED BY <3>1, <3>3
  <2>4. CASE i \in 1 .. Len(s) /\ \E x \in 1 .. Len(t) : k = Len(s) + x
    BY <2>4, <2>1, <1>1
  <2>5. CASE k \in 1 .. Len(s) /\ \E x \in 1 .. Len(t) : i = Len(s) + x
    BY <2>5, <2>1, <1>1
  <2> QED BY <2>2, <2>3, <2>4, <2>5, <1>2
<1> QED BY <1>1, <1>6, <1>7, <1>u DEF Joined

\* A filing in terms of the elements of the bins
LEMMA FiledFrom ==
    ASSUME NEW top \in Nat, NEW bins \in Bins(top), NEW of \in Chunked,
           NEW at, NEW limit, NEW n \in Nat, n <= top,
           \A b \in Buckets : of[b] # NULL => In(bins[Bindex(of[b], at, limit)], b),
           \A i \in 0 .. n - 1 : Once(bins[i]),
           \A i \in 0 .. n - 1, b \in Buckets :
               In(bins[i], b) => of[b] # NULL /\ Bindex(of[b], at, limit) = i,
           \A i \in n .. top - 1 : bins[i] = <<>>
    PROVE  Filed(bins, of, at, limit, n)
<1>1. ASSUME NEW i \in 0 .. n - 1, NEW j \in DOMAIN bins[i]
      PROVE  of[bins[i][j]] # NULL /\ Bindex(of[bins[i][j]], at, limit) = i
  <2>1. bins[i] \in Seq(Buckets)
    BY DEF Bins
  <2>2. bins[i][j] \in Buckets /\ In(bins[i], bins[i][j])
    BY <2>1 DEF In
  <2> QED BY <2>2
<1>2. \A i \in DOMAIN bins : i >= n => i \in n .. top - 1
  BY DEF Bins
<1> QED BY <1>1, <1>2 DEF Filed

\* metadata_expand_table files the buckets of the bin that it splits anew.
LEMMA SplitFiled ==
    ASSUME NEW top \in Nat, NEW bins \in Bins(top), NEW of \in Chunked,
           NEW at, NEW limit, NEW n, n = limit + at, n < top,
           Limits(at, limit), Limits(NextAt(at, limit), NextLimit(at, limit)),
           Filed(bins, of, at, limit, n),
           NEW new \in Bins(top),
           new[at] = Only(bins[at], {b \in Buckets :
                          Bindex(of[b], NextAt(at, limit), NextLimit(at, limit)) # n}),
           new[n]  = Only(bins[at], {b \in Buckets :
                          Bindex(of[b], NextAt(at, limit), NextLimit(at, limit)) = n}),
           \A i \in 0 .. top - 1 : i # at /\ i # n => new[i] = bins[i]
    PROVE  Filed(new, of, NextAt(at, limit), NextLimit(at, limit), n + 1)
<1> DEFINE before(b) == Bindex(of[b], at, limit)
           after(b)  == Bindex(of[b], NextAt(at, limit), NextLimit(at, limit))
<1>0. at \in Nat /\ limit \in Nat /\ n \in Nat /\ at < n /\ at \in 0 .. top - 1 /\ n \in 0 .. top - 1
      /\ n + 1 <= top
  BY DEF Limits
<1>1. ASSUME NEW b \in Buckets, of[b] # NULL
      PROVE  /\ before(b) \in 0 .. n - 1
             /\ before(b) # at => after(b) = before(b)
             /\ before(b) = at => after(b) \in {at, n}
  <2>1. of[b] \in Chunks
    BY <1>1 DEF Chunked
  <2>c. PICK c \in Chunks : c = of[b]
    BY <2>1
  <2>2. Bindex(c, at, limit) \in 0 .. limit + at - 1
    BY BindexRange
  <2>3. LET x == Bindex(c, at, limit)
            y == Bindex(c, NextAt(at, limit), NextLimit(at, limit))
        IN  (x # at => y = x) /\ (x = at => y \in {at, limit + at})
    BY Readdressed
  <2> QED BY <1>0, <2>c, <2>2, <2>3
<1>2. bins[at] \in Seq(Buckets)
  BY <1>0 DEF Bins
<1>3. \A b : In(new[at], b) <=> In(bins[at], b) /\ b \in Buckets /\ after(b) # n
  BY <1>2, OnlyIn
<1>4. \A b : In(new[n], b) <=> In(bins[at], b) /\ b \in Buckets /\ after(b) = n
  BY <1>2, OnlyIn
<1>5. \A i \in 0 .. top - 1 : \A b : In(bins[i], b) =>
          b \in Buckets /\ of[b] # NULL /\ before(b) = i /\ i < n
  <2>1. n <= top
    BY <1>0
  <2> QED BY <1>0, <2>1, FiledIn
<1>6. \A b \in Buckets : of[b] # NULL => In(bins[before(b)], b)
  BY DEF Filed
<1>7. \A i \in 0 .. n - 1 : Once(bins[i])
  BY DEF Filed
<1>8. Once(bins[at]) => Once(new[at]) /\ Once(new[n])
  BY <1>2, OnlyIn
<1>9. \A i \in n .. top - 1 : bins[i] = <<>>
  BY <1>0 DEF Filed, Bins
<1> HIDE DEF before, after
<1>10. ASSUME NEW b \in Buckets, of[b] # NULL PROVE In(new[after(b)], b)
  <2>1. CASE before(b) = at
    BY <1>10, <2>1, <1>1, <1>3, <1>4, <1>6, <1>0
  <2>2. CASE before(b) # at
    BY <1>10, <2>2, <1>1, <1>6, <1>0
  <2> QED BY <2>1, <2>2
<1>11. ASSUME NEW i \in 0 .. (n + 1) - 1 PROVE Once(new[i])
  BY <1>0, <1>7, <1>8
<1>12. ASSUME NEW i \in 0 .. (n + 1) - 1, NEW b \in Buckets, In(new[i], b)
       PROVE  of[b] # NULL /\ after(b) = i
  <2>0. i \in 0 .. top - 1
    BY <1>0
  <2>1. CASE i = at
    BY <2>1, <1>12, <1>0, <1>1, <1>3, <1>5
  <2>2. CASE i = n
    BY <2>2, <1>12, <1>0, <1>4, <1>5
  <2>3. CASE i # at /\ i # n
    BY <2>0, <2>3, <1>12, <1>0, <1>1, <1>5
  <2> QED BY <2>1, <2>2, <2>3
<1>13. ASSUME NEW i \in n + 1 .. top - 1 PROVE new[i] = <<>>
  BY <1>0, <1>9
<1> QED BY <1>0, <1>10, <1>11, <1>12, <1>13, FiledFrom DEF after

Nothing == <<>>

\* metadata_contract_table undoes a split.
LEMMA MergeFiled ==
    ASSUME NEW top \in Nat, NEW bins \in Bins(top), NEW of \in Chunked,
           NEW at, NEW limit, NEW n, n = limit + at, n < top, NEW m, m = n + 1,
           Limits(at, limit), Limits(NextAt(at, limit), NextLimit(at, limit)),
           Filed(bins, of, NextAt(at, limit), NextLimit(at, limit), m),
           NEW new \in Bins(top),
           new[at] = Joined(bins[at], bins[n]), new[n] = Nothing,
           \A i \in 0 .. top - 1 : i # at /\ i # n => new[i] = bins[i]
    PROVE  Filed(new, of, at, limit, n)
<1> DEFINE before(b) == Bindex(of[b], NextAt(at, limit), NextLimit(at, limit))
           after(b)  == Bindex(of[b], at, limit)
<1>0. at \in Nat /\ limit \in Nat /\ n \in Nat /\ at < n /\ at \in 0 .. top - 1 /\ n \in 0 .. top - 1
      /\ m \in Nat /\ m <= top /\ m = n + 1
  BY DEF Limits
<1>1. ASSUME NEW b \in Buckets, of[b] # NULL
      PROVE  /\ after(b) \in 0 .. n - 1
             /\ after(b) # at => before(b) = after(b)
             /\ after(b) = at => before(b) \in {at, n}
  <2>1. of[b] \in Chunks
    BY <1>1 DEF Chunked
  <2>c. PICK c \in Chunks : c = of[b]
    BY <2>1
  <2>2. Bindex(c, at, limit) \in 0 .. limit + at - 1
    BY BindexRange
  <2>3. LET x == Bindex(c, at, limit)
            y == Bindex(c, NextAt(at, limit), NextLimit(at, limit))
        IN  (x # at => y = x) /\ (x = at => y \in {at, limit + at})
    BY Readdressed
  <2> QED BY <1>0, <2>c, <2>2, <2>3
<1>2. bins[at] \in Seq(Buckets) /\ bins[n] \in Seq(Buckets)
  BY <1>0 DEF Bins
<1>3. /\ \A b : In(new[at], b) <=> In(bins[at], b) \/ In(bins[n], b)
      /\ (\A b : ~(In(bins[at], b) /\ In(bins[n], b))) /\ Once(bins[at]) /\ Once(bins[n])
            => Once(new[at])
  BY <1>2, JoinedIn
<1>4. \A b : ~In(new[n], b)
  BY DEF In, Nothing
<1>5. \A i \in 0 .. top - 1 : \A b : In(bins[i], b) =>
          b \in Buckets /\ of[b] # NULL /\ before(b) = i /\ i < m
  BY <1>0, FiledIn
<1>6. \A b \in Buckets : of[b] # NULL => In(bins[before(b)], b)
  BY DEF Filed
<1>7. \A i \in 0 .. n : Once(bins[i])
  BY <1>0 DEF Filed
<1>9. \A i \in m .. top - 1 : bins[i] = Nothing
  BY <1>0 DEF Filed, Bins, Nothing
<1> HIDE DEF before, after
<1>8. \A b : ~(In(bins[at], b) /\ In(bins[n], b))
  BY <1>0, <1>5
<1>10. ASSUME NEW b \in Buckets, of[b] # NULL PROVE In(new[after(b)], b)
  <2>1. CASE after(b) = at
    BY <1>10, <2>1, <1>1, <1>3, <1>6, <1>0
  <2>2. CASE after(b) # at
    BY <1>10, <2>2, <1>1, <1>6, <1>0
  <2> QED BY <2>1, <2>2
<1>11. ASSUME NEW i \in 0 .. n - 1 PROVE Once(new[i])
  BY <1>0, <1>3, <1>7, <1>8
<1>12. ASSUME NEW i \in 0 .. n - 1, NEW b \in Buckets, In(new[i], b)
       PROVE  of[b] # NULL /\ after(b) = i
  <2>0. i \in 0 .. top - 1
    BY <1>0
  <2>1. CASE i = at
    BY <2>1, <1>12, <1>0, <1>1, <1>3, <1>5
  <2>3. CASE i # at
    BY <2>0, <2>3, <1>12, <1>0, <1>1, <1>5
  <2> QED BY <2>1, <2>3
<1>13. ASSUME NEW i \in n .. top - 1 PROVE new[i] = <<>>
  <2>1. i = n \/ i \in m .. top - 1
    BY <1>0
  <2>2. new[i] = Nothing
    BY <1>0, <1>9, <2>1
  <2> QED BY <2>2 DEF Nothing
<1> QED BY <1>0, <1>10, <1>11, <1>12, <1>13, FiledFrom DEF after

LEMMA OneIn ==
    ASSUME NEW b \in Buckets
    PROVE  <<b>> \in Seq(Buckets) /\ Once(<<b>>) /\ \A e : In(<<b>>, e) <=> e = b
<1>s. PICK s : s = <<b>>
  OBVIOUS
<1>1. s \in Seq(Buckets) /\ DOMAIN s = {1} /\ s[1] = b
  BY <1>s
<1> QED BY <1>1, <1>s DEF In, Once

Given(of, b, c) == [of EXCEPT ![b] = c]
Freed(of, gone) == [b \in Buckets |-> IF b \in gone THEN NULL ELSE of[b]]

\* metadata_add puts a bucket in front of the bin of its chunk.
LEMMA AddFiled ==
    ASSUME NEW top \in Nat, NEW bins \in Bins(top), NEW of \in Chunked,
           NEW at, NEW limit, NEW n, n = limit + at, n <= top,
           Limits(at, limit), Filed(bins, of, at, limit, n),
           NEW b \in Buckets, of[b] = NULL, NEW c \in Chunks,
           NEW i, i = Bindex(c, at, limit),
           NEW new \in Bins(top), new[i] = Joined(<<b>>, bins[i]),
           \A k \in 0 .. top - 1 : k # i => new[k] = bins[k],
           NEW of2, of2 = Given(of, b, c)
    PROVE  of2 \in Chunked /\ i \in 0 .. n - 1 /\ Filed(new, of2, at, limit, n)
<1>0. at \in Nat /\ limit \in Nat /\ n \in Nat
  BY DEF Limits
<1>1. i \in 0 .. n - 1 /\ i \in 0 .. top - 1
  BY <1>0, BindexRange
<1>2. of2 \in Chunked /\ of2[b] = c /\ \A e \in Buckets : e # b => of2[e] = of[e]
  BY DEF Chunked, Given
<1>3. bins[i] \in Seq(Buckets)
  BY <1>1 DEF Bins
<1>4. /\ \A e : In(new[i], e) <=> e = b \/ In(bins[i], e)
      /\ Once(bins[i]) /\ ~In(bins[i], b) => Once(new[i])
  <2>s. PICK s : s = <<b>>
    OBVIOUS
  <2>t. PICK t : t = bins[i]
    OBVIOUS
  <2>1. s \in Seq(Buckets) /\ Once(s) /\ \A e : In(s, e) <=> e = b
    BY <2>s, OneIn
  <2>2. t \in Seq(Buckets)
    BY <2>t, <1>3
  <2>3. /\ \A e : In(Joined(s, t), e) <=> In(s, e) \/ In(t, e)
        /\ (\A e : ~(In(s, e) /\ In(t, e))) /\ Once(s) /\ Once(t) => Once(Joined(s, t))
    BY <2>1, <2>2, JoinedIn
  <2>4. Once(t) /\ ~In(t, b) => Once(Joined(s, t))
    BY <2>1, <2>3
  <2>5. new[i] = Joined(s, t)
    BY <2>s, <2>t
  <2> QED BY <2>1, <2>3, <2>4, <2>5, <2>t
<1>5. \A k \in 0 .. top - 1 : \A e : In(bins[k], e) =>
          e \in Buckets /\ of[e] # NULL /\ Bindex(of[e], at, limit) = k /\ k < n
  BY <1>0, FiledIn
<1>6. \A e \in Buckets : of[e] # NULL => In(bins[Bindex(of[e], at, limit)], e)
  BY DEF Filed
<1>7. \A k \in 0 .. n - 1 : Once(bins[k])
  BY DEF Filed
<1>8. \A e \in Buckets : of[e] # NULL => Bindex(of[e], at, limit) \in 0 .. top - 1
  <2> SUFFICES ASSUME NEW e \in Buckets, of[e] # NULL
               PROVE  Bindex(of[e], at, limit) \in 0 .. top - 1
    OBVIOUS
  <2>1. of[e] \in Chunks
    BY DEF Chunked
  <2> QED BY <2>1, <1>0, BindexRange
<1>9. \A k \in n .. top - 1 : bins[k] = Nothing
  <2>1. \A k \in n .. top - 1 : k \in DOMAIN bins /\ k >= n
    BY <1>0 DEF Bins
  <2> QED BY <2>1 DEF Filed, Nothing
<1>c. c # NULL
  BY Constants
<1>10. ASSUME NEW e \in Buckets, of2[e] # NULL PROVE In(new[Bindex(of2[e], at, limit)], e)
  <2>1. CASE e = b
    BY <2>1, <1>2, <1>4
  <2>2. CASE e # b
    BY <2>2, <1>10, <1>1, <1>2, <1>4, <1>6, <1>8
  <2> QED BY <2>1, <2>2
<1>11. ASSUME NEW k \in 0 .. n - 1 PROVE Once(new[k])
  BY <1>0, <1>1, <1>4, <1>5, <1>7
<1>12. ASSUME NEW k \in 0 .. n - 1, NEW e \in Buckets, In(new[k], e)
       PROVE  of2[e] # NULL /\ Bindex(of2[e], at, limit) = k
  <2>0. k \in 0 .. top - 1
    BY <1>0
  <2>1. CASE e = b
    <3>1. ~In(bins[k], e)
      BY <2>0, <2>1, <1>5
    <3>2. k = i
      BY <2>0, <3>1, <1>12
    <3> QED BY <2>1, <3>2, <1>2, <1>c
  <2>2. CASE e # b
    <3>1. In(bins[k], e)
      BY <2>0, <2>2, <1>12, <1>4
    <3> QED BY <2>0, <2>2, <3>1, <1>2, <1>5
  <2> QED BY <2>1, <2>2
<1>13. ASSUME NEW k \in n .. top - 1 PROVE new[k] = <<>>
  <2>1. new[k] = Nothing
    BY <1>0, <1>1, <1>9
  <2> QED BY <2>1 DEF Nothing
<1> QED BY <1>0, <1>1, <1>2, <1>10, <1>11, <1>12, <1>13, FiledFrom

\* metadata_lookup moves a bucket within its bin.
LEMMA ReorderFiled ==
    ASSUME NEW top \in Nat, NEW bins \in Bins(top), NEW of \in Chunked,
           NEW at, NEW limit, NEW n, n = limit + at, n <= top,
           Limits(at, limit), Filed(bins, of, at, limit, n),
           NEW i \in 0 .. n - 1, NEW new \in Bins(top), Once(new[i]),
           \A e : In(new[i], e) <=> In(bins[i], e),
           \A k \in 0 .. top - 1 : k # i => new[k] = bins[k]
    PROVE  Filed(new, of, at, limit, n)
<1>0. at \in Nat /\ limit \in Nat /\ n \in Nat
  BY DEF Limits
<1>5. \A k \in 0 .. top - 1 : \A e : In(bins[k], e) =>
          e \in Buckets /\ of[e] # NULL /\ Bindex(of[e], at, limit) = k /\ k < n
  BY <1>0, FiledIn
<1>6. \A e \in Buckets : of[e] # NULL => In(bins[Bindex(of[e], at, limit)], e)
  BY DEF Filed
<1>7. \A k \in 0 .. n - 1 : Once(bins[k])
  BY DEF Filed
<1>8. \A e \in Buckets : of[e] # NULL => Bindex(of[e], at, limit) \in 0 .. top - 1
  <2> SUFFICES ASSUME NEW e \in Buckets, of[e] # NULL
               PROVE  Bindex(of[e], at, limit) \in 0 .. top - 1
    OBVIOUS
  <2>1. of[e] \in Chunks
    BY DEF Chunked
  <2> QED BY <2>1, <1>0, BindexRange
<1>9. \A k \in n .. top - 1 : bins[k] = Nothing
  <2>1. \A k \in n .. top - 1 : k \in DOMAIN bins /\ k >= n
    BY <1>0 DEF Bins
  <2> QED BY <2>1 DEF Filed, Nothing
<1>1. \A k \in 0 .. top - 1 : \A e : In(new[k], e) <=> In(bins[k], e)
  <2> SUFFICES ASSUME NEW k \in 0 .. top - 1 PROVE \A e : In(new[k], e) <=> In(bins[k], e)
    OBVIOUS
  <2>1. CASE k = i
    BY <2>1
  <2>2. CASE k # i
    <3>1. new[k] = bins[k]
      BY <2>2
    <3> QED BY <3>1
  <2> QED BY <2>1, <2>2
<1>10. ASSUME NEW e \in Buckets, of[e] # NULL PROVE In(new[Bindex(of[e], at, limit)], e)
  BY <1>1, <1>6, <1>8, <1>10
<1>11. ASSUME NEW k \in 0 .. n - 1 PROVE Once(new[k])
  BY <1>0, <1>7
<1>12. ASSUME NEW k \in 0 .. n - 1, NEW e \in Buckets, In(new[k], e)
       PROVE  of[e] # NULL /\ Bindex(of[e], at, limit) = k
  <2>0. k \in 0 .. top - 1
    BY <1>0
  <2> QED BY <2>0, <1>1, <1>5, <1>12
<1>13. ASSUME NEW k \in n .. top - 1 PROVE new[k] = <<>>
  <2>1. new[k] = Nothing
    BY <1>0, <1>9
  <2> QED BY <2>1 DEF Nothing
<1> QED BY <1>0, <1>10, <1>11, <1>12, <1>13, FiledFrom

\* metadata_delete takes buckets out of their bin and gives them back to the pool.
LEMMA ReleaseFiled ==
    ASSUME NEW top \in Nat, NEW bins \in Bins(top), NEW of \in Chunked,
           NEW at, NEW limit, NEW n, n = limit + at, n <= top,
           Limits(at, limit), Filed(bins, of, at, limit, n),
           NEW i \in 0 .. n - 1, NEW gone, \A b \in gone : In(bins[i], b),
           NEW new \in Bins(top), new[i] = Only(bins[i], Buckets \ gone),
           \A k \in 0 .. top - 1 : k # i => new[k] = bins[k],
           NEW of2, of2 = Freed(of, gone)
    PROVE  of2 \in Chunked /\ gone \subseteq Buckets /\ Filed(new, of2, at, limit, n)
<1>0. at \in Nat /\ limit \in Nat /\ n \in Nat /\ i \in 0 .. top - 1
  BY DEF Limits
<1>2. of2 \in Chunked /\ (\A b \in gone : b \in Buckets => of2[b] = NULL)
      /\ \A e \in Buckets : e \notin gone => of2[e] = of[e]
  BY DEF Chunked, Freed
<1>3. bins[i] \in Seq(Buckets)
  BY <1>0 DEF Bins
<1>4. /\ \A e : In(new[i], e) <=> In(bins[i], e) /\ e \in Buckets \ gone
      /\ Once(bins[i]) => Once(new[i])
  BY <1>3, OnlyIn
<1>5. \A k \in 0 .. top - 1 : \A e : In(bins[k], e) =>
          e \in Buckets /\ of[e] # NULL /\ Bindex(of[e], at, limit) = k /\ k < n
  BY <1>0, FiledIn
<1>6. \A e \in Buckets : of[e] # NULL => In(bins[Bindex(of[e], at, limit)], e)
  BY DEF Filed
<1>7. \A k \in 0 .. n - 1 : Once(bins[k])
  BY DEF Filed
<1>8. \A e \in Buckets : of[e] # NULL => Bindex(of[e], at, limit) \in 0 .. top - 1
  <2> SUFFICES ASSUME NEW e \in Buckets, of[e] # NULL
               PROVE  Bindex(of[e], at, limit) \in 0 .. top - 1
    OBVIOUS
  <2>1. of[e] \in Chunks
    BY DEF Chunked
  <2> QED BY <2>1, <1>0, BindexRange
<1>9. \A k \in n .. top - 1 : bins[k] = Nothing
  <2>1. \A k \in n .. top - 1 : k \in DOMAIN bins /\ k >= n
    BY <1>0 DEF Bins
  <2> QED BY <2>1 DEF Filed, Nothing
<1>g. gone \subseteq Buckets
  BY <1>0, <1>5
<1>1. \A k \in 0 .. top - 1 : \A e : In(new[k], e) <=> In(bins[k], e) /\ e \notin gone
  <2> SUFFICES ASSUME NEW k \in 0 .. top - 1, NEW e
               PROVE  In(new[k], e) <=> In(bins[k], e) /\ e \notin gone
    OBVIOUS
  <2>1. CASE k = i
    BY <2>1, <1>4, <1>5
  <2>2. CASE k # i
    <3>1. In(bins[k], e) => ~In(bins[i], e)
      BY <2>2, <1>0, <1>5
    <3> QED BY <2>2, <3>1
  <2> QED BY <2>1, <2>2
<1>10. ASSUME NEW e \in Buckets, of2[e] # NULL PROVE In(new[Bindex(of2[e], at, limit)], e)
  <2>1. e \notin gone /\ of2[e] = of[e]
    BY <1>10, <1>2
  <2> QED BY <2>1, <1>1, <1>6, <1>8, <1>10
<1>11. ASSUME NEW k \in 0 .. n - 1 PROVE Once(new[k])
  BY <1>0, <1>4, <1>7
<1>12. ASSUME NEW k \in 0 .. n - 1, NEW e \in Buckets, In(new[k], e)
       PROVE  of2[e] # NULL /\ Bindex(of2[e], at, limit) = k
  <2>0. k \in 0 .. top - 1
    BY <1>0
  <2> QED BY <2>0, <1>1, <1>2, <1>5, <1>12
<1>13. ASSUME NEW k \in n .. top - 1 PROVE new[k] = <<>>
  <2>1. new[k] = Nothing
    BY <1>0, <1>9
  <2> QED BY <2>1 DEF Nothing
<1> QED BY <1>0, <1>2, <1>g, <1>10, <1>11, <1>12, <1>13, FiledFrom

(***************************************************************************)
(* The order of what is selected                                           *)
(***************************************************************************)
\* What is selected depends on the elements of the sequence only.
LEMMA OnlySame ==
    ASSUME NEW s, NEW A, NEW B, \A j \in DOMAIN s : s[j] \in A <=> s[j] \in B
    PROVE  Only(s, A) = Only(s, B)
<1> DEFINE at(J) == [i \in 1 .. Cardinality(J) |->
                       s[CHOOSE j \in J : Cardinality({k \in J : k <= j}) = i]]
<1>1. {j \in DOMAIN s : s[j] \in A} = {j \in DOMAIN s : s[j] \in B}
  OBVIOUS
<1>2. Only(s, A) = at({j \in DOMAIN s : s[j] \in A}) /\ Only(s, B) = at({j \in DOMAIN s : s[j] \in B})
  BY DEF Only
<1> HIDE DEF at
<1> QED BY <1>1, <1>2

LEMMA OnlyNone ==
    ASSUME NEW s, \A e : ~In(s, e)
    PROVE  s \in Seq(Buckets) => s = Nothing
<1> SUFFICES ASSUME s \in Seq(Buckets) PROVE s = Nothing
  OBVIOUS
<1>1. \A j \in DOMAIN s : FALSE
  BY DEF In
<1>2. Len(s) = 0
  <2>1. Len(s) \in Nat /\ DOMAIN s = 1 .. Len(s)
    OBVIOUS
  <2>2. Len(s) > 0 => 1 \in DOMAIN s
    BY <2>1
  <2> QED BY <2>1, <2>2, <1>1
<1> QED BY <1>2 DEF Nothing

\* To select twice
LEMMA OnlyTwice ==
    ASSUME NEW s \in Seq(Buckets), NEW A, NEW B
    PROVE  Only(Only(s, A), B) = Only(s, A \cap B)
<1>t. PICK t : t = Only(s, A)
  OBVIOUS
<1>p. PICK n, f : /\ Lists(f, n, Places(s, A)) /\ n \in Nat
                  /\ Only(s, A) = [i \in 1 .. n |-> s[f[i]]]
                  /\ Only(s, A) \in Seq(Buckets) /\ Len(Only(s, A)) = n
                  /\ \A i \in 1 .. n : f[i] \in DOMAIN s /\ s[f[i]] \in A
  BY OnlyListed
<1>1. /\ Lists(f, n, Places(s, A)) /\ n \in Nat
      /\ t = [i \in 1 .. n |-> s[f[i]]] /\ t \in Seq(Buckets)
      /\ \A i \in 1 .. n : f[i] \in DOMAIN s /\ s[f[i]] \in A
  BY <1>p, <1>t
<1>2. PICK m, g : /\ Lists(g, m, Places(t, B)) /\ m \in Nat
                  /\ Only(t, B) = [i \in 1 .. m |-> t[g[i]]]
                  /\ Only(t, B) \in Seq(Buckets) /\ Len(Only(t, B)) = m
                  /\ \A i \in 1 .. m : g[i] \in DOMAIN t /\ t[g[i]] \in B
  <2>1. t \in Seq(Buckets)
    BY <1>1
  <2> QED BY <2>1, OnlyListed
<1>h. PICK h : h = [i \in 1 .. m |-> f[g[i]]]
  OBVIOUS
<1>3. DOMAIN t = 1 .. n /\ \A i \in 1 .. n : t[i] = s[f[i]]
  BY <1>1
<1>4. \A i \in 1 .. m : g[i] \in 1 .. n /\ h[i] = f[g[i]] /\ t[g[i]] = s[h[i]]
  BY <1>2, <1>3, <1>h
<1>5. \A i \in 1 .. m : h[i] \in Places(s, A \cap B)
  BY <1>1, <1>2, <1>3, <1>4 DEF Places
<1>6. ASSUME NEW i \in 1 .. m, NEW k \in 1 .. m, i < k PROVE h[i] < h[k]
  <2>1. g[i] < g[k]
    BY <1>2, <1>6 DEF Lists
  <2> QED BY <2>1, <1>1, <1>4 DEF Lists
<1>7. ASSUME NEW j \in Places(s, A \cap B) PROVE \E i \in 1 .. m : h[i] = j
  <2>1. j \in Places(s, A)
    BY DEF Places
  <2>2. PICK x \in 1 .. n : f[x] = j
    BY <2>1, <1>1 DEF Lists
  <2>3. x \in Places(t, B)
    BY <2>2, <1>3 DEF Places
  <2>4. PICK i \in 1 .. m : g[i] = x
    BY <2>3, <1>2 DEF Lists
  <2> QED BY <2>2, <2>4, <1>4
<1>8. Lists(h, m, Places(s, A \cap B))
  <2>1. h \in [1 .. m -> Places(s, A \cap B)]
    BY <1>5, <1>h
  <2> QED BY <2>1, <1>2, <1>6, <1>7 DEF Lists
<1>9. Only(s, A \cap B) = [i \in 1 .. m |-> s[h[i]]]
  <2>c. PICK C : C = A \cap B
    OBVIOUS
  <2>1. Lists(h, m, Places(s, C))
    BY <1>8, <2>c
  <2>2. Only(s, C) = [i \in 1 .. m |-> s[h[i]]]
    BY <2>1, OnlyIs
  <2> QED BY <2>2, <2>c
<1> QED BY <1>2, <1>4, <1>9, <1>t

\* To select from a sequence and another one that holds nothing of it
LEMMA OnlyLeft ==
    ASSUME NEW s \in Seq(Buckets), NEW t \in Seq(Buckets), NEW B,
           \A e \in B : ~In(t, e)
    PROVE  Only(Joined(s, t), B) = Only(s, B)
<1>u. PICK u : u = Joined(s, t)
  OBVIOUS
<1>1. /\ u \in Seq(Buckets) /\ Len(u) = Len(s) + Len(t) /\ Len(s) \in Nat /\ Len(t) \in Nat
      /\ \A i \in 1 .. Len(s) : u[i] = s[i]
      /\ \A i \in 1 .. Len(t) : u[Len(s) + i] = t[i]
  <2>1. Len(s) \in Nat /\ Len(t) \in Nat
    OBVIOUS
  <2>2. /\ u \in Seq(Buckets) /\ Len(u) = Len(s) + Len(t)
        /\ \A i \in 1 .. Len(s) : u[i] = s[i]
        /\ \A i \in 1 .. Len(t) : u[Len(s) + i] = t[i]
    BY <1>u, JoinedAt
  <2> QED BY <2>1, <2>2
<1>2. DOMAIN u = 1 .. Len(s) + Len(t) /\ DOMAIN s = 1 .. Len(s) /\ DOMAIN t = 1 .. Len(t)
  BY <1>1
<1>3. Places(u, B) = Places(s, B)
  <2>1. ASSUME NEW j \in DOMAIN u, u[j] \in B PROVE j \in DOMAIN s
    <3> SUFFICES ASSUME j \notin DOMAIN s PROVE FALSE
      OBVIOUS
    <3>1. j - Len(s) \in 1 .. Len(t) /\ Len(s) + (j - Len(s)) = j
      BY <1>1, <1>2
    <3>2. t[j - Len(s)] = u[j]
      BY <3>1, <1>1
    <3> QED BY <3>1, <3>2, <2>1, <1>2 DEF In
  <2>2. \A j \in DOMAIN s : j \in DOMAIN u /\ u[j] = s[j]
    BY <1>1, <1>2
  <2> QED BY <2>1, <2>2 DEF Places
<1>4. PICK n, f : /\ Lists(f, n, Places(s, B)) /\ Only(s, B) = [i \in 1 .. n |-> s[f[i]]]
                  /\ \A i \in 1 .. n : f[i] \in DOMAIN s
  BY OnlyListed
<1>5. Only(u, B) = [i \in 1 .. n |-> u[f[i]]]
  BY <1>1, <1>3, <1>4, OnlyIs
<1>6. \A i \in 1 .. n : u[f[i]] = s[f[i]]
  BY <1>1, <1>2, <1>4
<1> QED BY <1>4, <1>5, <1>6, <1>u

LEMMA OnlyRight ==
    ASSUME NEW s \in Seq(Buckets), NEW t \in Seq(Buckets), NEW B,
           \A e \in B : ~In(s, e)
    PROVE  Only(Joined(s, t), B) = Only(t, B)
<1>u. PICK u : u = Joined(s, t)
  OBVIOUS
<1>l. PICK l : l = Len(s)
  OBVIOUS
<1>1. /\ u \in Seq(Buckets) /\ Len(u) = l + Len(t) /\ l \in Nat /\ Len(t) \in Nat
      /\ \A i \in 1 .. l : u[i] = s[i]
      /\ \A i \in 1 .. Len(t) : u[l + i] = t[i]
  <2>1. Len(s) \in Nat /\ Len(t) \in Nat
    OBVIOUS
  <2>2. /\ u \in Seq(Buckets) /\ Len(u) = Len(s) + Len(t)
        /\ \A i \in 1 .. Len(s) : u[i] = s[i]
        /\ \A i \in 1 .. Len(t) : u[Len(s) + i] = t[i]
    BY <1>u, JoinedAt
  <2> QED BY <2>1, <2>2, <1>l
<1>2. DOMAIN u = 1 .. l + Len(t) /\ DOMAIN s = 1 .. l /\ DOMAIN t = 1 .. Len(t)
  BY <1>1, <1>l
<1>4. PICK n, f : /\ Lists(f, n, Places(t, B)) /\ Only(t, B) = [i \in 1 .. n |-> t[f[i]]]
                  /\ n \in Nat /\ \A i \in 1 .. n : f[i] \in DOMAIN t /\ t[f[i]] \in B
  BY OnlyListed
<1>h. PICK h : h = [i \in 1 .. n |-> l + f[i]]
  OBVIOUS
<1>3. \A i \in 1 .. n : h[i] = l + f[i] /\ u[h[i]] = t[f[i]] /\ f[i] \in Nat
  BY <1>1, <1>2, <1>4, <1>h
<1>5. ASSUME NEW i \in 1 .. n PROVE h[i] \in Places(u, B)
  BY <1>1, <1>2, <1>3, <1>4 DEF Places
<1>6. ASSUME NEW i \in 1 .. n, NEW k \in 1 .. n, i < k PROVE h[i] < h[k]
  <2>1. f[i] < f[k]
    BY <1>4, <1>6 DEF Lists
  <2> QED BY <2>1, <1>1, <1>3
<1>7. ASSUME NEW j \in Places(u, B) PROVE \E i \in 1 .. n : h[i] = j
  <2>1. j \in DOMAIN u /\ u[j] \in B
    BY DEF Places
  <2>2. j \notin DOMAIN s
    BY <2>1, <1>1, <1>2 DEF In
  <2>3. j - l \in 1 .. Len(t) /\ l + (j - l) = j
    BY <2>1, <2>2, <1>1, <1>2
  <2>4. j - l \in Places(t, B)
    BY <2>1, <2>3, <1>1, <1>2 DEF Places
  <2>5. PICK i \in 1 .. n : f[i] = j - l
    BY <2>4, <1>4 DEF Lists
  <2> QED BY <2>3, <2>5, <1>3
<1>8. Lists(h, n, Places(u, B))
  <2>1. h \in [1 .. n -> Places(u, B)]
    BY <1>5, <1>h
  <2> QED BY <2>1, <1>4, <1>6, <1>7 DEF Lists
<1>9. Only(u, B) = [i \in 1 .. n |-> u[h[i]]]
  BY <1>1, <1>8, OnlyIs
<1> QED BY <1>3, <1>4, <1>9, <1>u

\* An element in front that is selected too
LEMMA OnlyInFront ==
    ASSUME NEW s \in Seq(Buckets), NEW b \in Buckets, NEW B, b \in B
    PROVE  Only(Joined(<<b>>, s), B) = Joined(<<b>>, Only(s, B))
<1>o. PICK o : o = <<b>>
  OBVIOUS
<1>u. PICK u : u = Joined(o, s)
  OBVIOUS
<1>0. o \in Seq(Buckets) /\ Len(o) = 1 /\ o[1] = b
  BY <1>o
<1>1. /\ u \in Seq(Buckets) /\ Len(u) = 1 + Len(s) /\ Len(s) \in Nat /\ u[1] = b
      /\ \A i \in 1 .. Len(s) : u[1 + i] = s[i]
  <2>2. /\ u \in Seq(Buckets) /\ Len(u) = Len(o) + Len(s)
        /\ \A i \in 1 .. Len(o) : u[i] = o[i]
        /\ \A i \in 1 .. Len(s) : u[Len(o) + i] = s[i]
    BY <1>0, <1>u, JoinedAt
  <2> QED BY <2>2, <1>0
<1>2. DOMAIN u = 1 .. 1 + Len(s) /\ DOMAIN s = 1 .. Len(s)
  BY <1>1
<1>t. PICK t : t = Only(s, B)
  OBVIOUS
<1>p. PICK n, f : /\ Lists(f, n, Places(s, B)) /\ n \in Nat
                  /\ Only(s, B) = [i \in 1 .. n |-> s[f[i]]]
                  /\ Only(s, B) \in Seq(Buckets) /\ Len(Only(s, B)) = n
                  /\ \A i \in 1 .. n : f[i] \in DOMAIN s /\ s[f[i]] \in B
  BY OnlyListed
<1>4. /\ Lists(f, n, Places(s, B)) /\ n \in Nat /\ t \in Seq(Buckets) /\ Len(t) = n
      /\ \A i \in 1 .. n : t[i] = s[f[i]] /\ f[i] \in 1 .. Len(s) /\ s[f[i]] \in B
  BY <1>p, <1>t, <1>2
<1>h. PICK h : h = [i \in 1 .. n + 1 |-> IF i = 1 THEN 1 ELSE 1 + f[i - 1]]
  OBVIOUS
<1>3. h[1] = 1 /\ \A i \in 1 .. n + 1 : i = 1 \/ (i - 1 \in 1 .. n /\ h[i] = 1 + f[i - 1])
  BY <1>4, <1>h
<1>5. ASSUME NEW i \in 1 .. n + 1 PROVE h[i] \in Places(u, B)
  <2>1. CASE i = 1
    BY <2>1, <1>1, <1>2, <1>3 DEF Places
  <2>2. CASE i # 1
    <3>k. PICK k \in 1 .. n : k = i - 1
      BY <2>2, <1>3
    <3>1. h[i] = 1 + f[k] /\ f[k] \in 1 .. Len(s) /\ s[f[k]] \in B
      BY <2>2, <3>k, <1>3, <1>4
    <3> QED BY <3>1, <1>1, <1>2 DEF Places
  <2> QED BY <2>1, <2>2
<1>6. ASSUME NEW i \in 1 .. n + 1, NEW k \in 1 .. n + 1, i < k PROVE h[i] < h[k]
  <2>1. k - 1 \in 1 .. n /\ h[k] = 1 + f[k - 1] /\ f[k - 1] \in 1 .. Len(s)
    BY <1>3, <1>4, <1>6
  <2>2. CASE i = 1
    BY <2>1, <2>2, <1>3, <1>1
  <2>3. CASE i # 1
    <3>1. i - 1 \in 1 .. n /\ h[i] = 1 + f[i - 1] /\ f[i - 1] \in 1 .. Len(s)
      BY <2>3, <1>3, <1>4
    <3>2. i - 1 < k - 1
      BY <1>4, <1>6
    <3>3. f[i - 1] < f[k - 1]
      BY <2>1, <3>1, <3>2, <1>4 DEF Lists
    <3> QED BY <2>1, <3>1, <3>3, <1>1
  <2> QED BY <2>2, <2>3
<1>7. ASSUME NEW j \in Places(u, B) PROVE \E i \in 1 .. n + 1 : h[i] = j
  <2>0. j \in 1 .. 1 + Len(s) /\ u[j] \in B
    BY <1>2 DEF Places
  <2>1. CASE j = 1
    <3>1. 1 \in 1 .. n + 1
      BY <1>4
    <3> QED BY <2>1, <3>1, <1>3
  <2>2. CASE j # 1
    <3>1. j - 1 \in 1 .. Len(s) /\ 1 + (j - 1) = j
      BY <2>0, <2>2, <1>1
    <3>2. j - 1 \in Places(s, B)
      BY <2>0, <3>1, <1>1, <1>2 DEF Places
    <3>3. PICK i \in 1 .. n : f[i] = j - 1
      BY <3>2, <1>4 DEF Lists
    <3>4. i + 1 \in 1 .. n + 1 /\ i + 1 # 1 /\ (i + 1) - 1 = i
      BY <1>4
    <3> QED BY <3>1, <3>3, <3>4, <1>3
  <2> QED BY <2>1, <2>2
<1>8. Lists(h, n + 1, Places(u, B))
  <2>1. h \in [1 .. n + 1 -> Places(u, B)]
    BY <1>5, <1>h
  <2>2. n + 1 \in Nat
    BY <1>4
  <2> QED BY <2>1, <2>2, <1>6, <1>7 DEF Lists
<1>w. PICK w : w = Only(u, B)
  OBVIOUS
<1>9. w = [i \in 1 .. n + 1 |-> u[h[i]]]
  BY <1>1, <1>8, <1>w, OnlyIs
<1>v. PICK v : v = Joined(o, t)
  OBVIOUS
<1>10. v \in Seq(Buckets) /\ Len(v) = n + 1 /\ v[1] = b /\ \A i \in 1 .. n : v[1 + i] = t[i]
  <2>2. /\ v \in Seq(Buckets) /\ Len(v) = Len(o) + Len(t)
        /\ \A i \in 1 .. Len(o) : v[i] = o[i]
        /\ \A i \in 1 .. Len(t) : v[Len(o) + i] = t[i]
    BY <1>0, <1>4, <1>v, JoinedAt
  <2> QED BY <2>2, <1>0, <1>4
<1>11. ASSUME NEW i \in 1 .. n + 1 PROVE u[h[i]] = v[i]
  <2>1. CASE i = 1
    BY <2>1, <1>1, <1>3, <1>10
  <2>2. CASE i # 1
    <3>k. PICK k \in 1 .. n : k = i - 1
      BY <2>2, <1>3
    <3>1. h[i] = 1 + f[k] /\ 1 + k = i
      BY <2>2, <3>k, <1>3, <1>4
    <3>2. u[h[i]] = s[f[k]]
      BY <3>1, <1>1, <1>4
    <3> QED BY <3>1, <3>2, <1>4, <1>10
  <2> QED BY <2>1, <2>2
<1>12. v = [i \in 1 .. n + 1 |-> v[i]]
  BY <1>4, <1>10
<1>13. w = v
  BY <1>9, <1>11, <1>12
<1> QED BY <1>13, <1>o, <1>t, <1>u, <1>v, <1>w

\* All but the first
LEMMA OnlyRest ==
    ASSUME NEW s \in Seq(Buckets), Once(s), s # Nothing
    PROVE  Only(s, Buckets \ {Head(s)}) = Tail(s)
<1>n. PICK n : n = Len(s)
  OBVIOUS
<1>1. n \in Nat /\ n >= 1 /\ DOMAIN s = 1 .. n
  BY <1>n DEF Nothing
<1>b. PICK b : b = Head(s)
  OBVIOUS
<1>2. b = s[1]
  BY <1>b, <1>1, <1>n
<1>t. PICK t : t = Tail(s)
  OBVIOUS
<1>3. t = [i \in 1 .. n - 1 |-> s[i + 1]]
  <2>1. s # <<>>
    BY DEF Nothing
  <2>2. t \in Seq(Buckets) /\ Len(t) = n - 1 /\ \A i \in 1 .. Len(t) : t[i] = s[i + 1]
    BY <2>1, <1>t, <1>n, HeadTailProperties
  <2>3. t = [i \in 1 .. Len(t) |-> t[i]]
    BY <2>2
  <2> QED BY <2>2, <2>3
<1>f. PICK f : f = [i \in 1 .. n - 1 |-> i + 1]
  OBVIOUS
<1>B. PICK B : B = Buckets \ {b}
  OBVIOUS
<1>4. \A j \in 1 .. n : j \in Places(s, B) <=> j # 1
  <2>1. \A j \in 1 .. n : s[j] \in Buckets
    BY <1>1
  <2>2. 1 \in 1 .. n
    BY <1>1
  <2>3. \A j \in 1 .. n : s[j] = s[1] <=> j = 1
    BY <2>2, <1>1 DEF Once
  <2> QED BY <2>1, <2>3, <1>1, <1>2, <1>B DEF Places
<1>5. Lists(f, n - 1, Places(s, B))
  <2>1. n - 1 \in Nat
    BY <1>1
  <2>2. \A i \in 1 .. n - 1 : f[i] = i + 1 /\ i + 1 \in 1 .. n /\ i + 1 # 1
    BY <1>1, <1>f
  <2>3. f \in [1 .. n - 1 -> Places(s, B)]
    BY <2>2, <1>4, <1>f
  <2>4. \A i, k \in 1 .. n - 1 : i < k => f[i] < f[k]
    BY <2>2, <1>1
  <2>5. ASSUME NEW j \in Places(s, B) PROVE \E i \in 1 .. n - 1 : f[i] = j
    <3>1. j \in 1 .. n /\ j # 1
      BY <1>1, <1>4 DEF Places
    <3>2. j - 1 \in 1 .. n - 1 /\ (j - 1) + 1 = j
      BY <3>1, <1>1
    <3> QED BY <3>2, <2>2
  <2> QED BY <2>1, <2>3, <2>4, <2>5 DEF Lists
<1>6. Only(s, B) = [i \in 1 .. n - 1 |-> s[f[i]]]
  BY <1>5, OnlyIs
<1>7. \A i \in 1 .. n - 1 : s[f[i]] = s[i + 1]
  BY <1>f
<1> QED BY <1>3, <1>6, <1>7, <1>b, <1>B, <1>t

\* The first place of what is selected is the first of the selected.
LEMMA OnlyFirst ==
    ASSUME NEW s \in Seq(Buckets), NEW B, NEW J, J = Places(s, B), J # {}
    PROVE  /\ Only(s, B) \in Seq(Buckets) /\ Only(s, B) # Nothing
           /\ Min(J) \in J /\ Head(Only(s, B)) = s[Min(J)]
<1>p. PICK n, f : /\ Lists(f, n, Places(s, B)) /\ n \in Nat
                  /\ Only(s, B) = [i \in 1 .. n |-> s[f[i]]]
                  /\ Only(s, B) \in Seq(Buckets) /\ Len(Only(s, B)) = n
                  /\ \A i \in 1 .. n : f[i] \in DOMAIN s /\ s[f[i]] \in B
  BY OnlyListed
<1>t. PICK t : t = Only(s, B)
  OBVIOUS
<1>1. /\ Lists(f, n, J) /\ n \in Nat /\ t \in Seq(Buckets) /\ Len(t) = n
      /\ \A i \in 1 .. n : t[i] = s[f[i]] /\ f[i] \in J
  BY <1>p, <1>t DEF Places
<1>2. J \in SUBSET Nat
  <2>1. DOMAIN s \subseteq Nat
    OBVIOUS
  <2> QED BY <2>1 DEF Places
<1>m. PICK m : m = Min(J)
  OBVIOUS
<1>3. m \in J /\ \A j \in J : m <= j
  BY <1>2, <1>m, LeastNumber
<1>4. PICK i \in 1 .. n : f[i] = m
  BY <1>1, <1>3 DEF Lists
<1>5. i = 1
  <2>1. CASE i > 1
    <3>1. 1 \in 1 .. n /\ 1 < i
      BY <2>1, <1>1
    <3>2. f[1] < f[i] /\ f[1] \in J
      BY <3>1, <1>1 DEF Lists
    <3>3. f[1] \in Nat /\ m \in Nat
      BY <3>2, <1>2, <1>3
    <3> QED BY <3>2, <3>3, <1>3, <1>4
  <2> QED BY <2>1, <1>1
<1>6. t[1] = s[m] /\ n >= 1
  BY <1>1, <1>4, <1>5
<1>7. t # Nothing
  <2>1. Len(Nothing) = 0
    BY DEF Nothing
  <2> QED BY <2>1, <1>1, <1>6
<1>8. Head(t) = t[1]
  BY <1>1, <1>6
<1> QED BY <1>1, <1>3, <1>6, <1>7, <1>8, <1>m, <1>t

(***************************************************************************)
(* The stacks that the bins hold: the buckets of a chunk, in their order   *)
(***************************************************************************)
Mine(of, c) == {b \in Buckets : of[b] = c}

Stacked(bins, of, at, limit) ==
    [c \in Chunks |-> Only(bins[Bindex(c, at, limit)], Mine(of, c))]

\* What an addition, and what a deletion, make of the stacks
InFront(b, s) == <<b>> \o s
Pushed(held, c, b)  == [held EXCEPT ![c] = InFront(b, @)]
Without(held, gone) == [c \in Chunks |-> Only(held[c], Buckets \ gone)]

LEMMA SplitStacked ==
    ASSUME NEW top \in Nat, NEW bins \in Bins(top), NEW of \in Chunked,
           NEW at, NEW limit, NEW n, n = limit + at, n < top,
           Limits(at, limit), Limits(NextAt(at, limit), NextLimit(at, limit)),
           NEW new \in Bins(top),
           new[at] = Only(bins[at], {b \in Buckets :
                          Bindex(of[b], NextAt(at, limit), NextLimit(at, limit)) # n}),
           new[n]  = Only(bins[at], {b \in Buckets :
                          Bindex(of[b], NextAt(at, limit), NextLimit(at, limit)) = n}),
           \A i \in 0 .. top - 1 : i # at /\ i # n => new[i] = bins[i]
    PROVE  Stacked(new, of, NextAt(at, limit), NextLimit(at, limit))
             = Stacked(bins, of, at, limit)
<1>0. at \in Nat /\ limit \in Nat /\ n \in Nat /\ at # n /\ at \in 0 .. top - 1 /\ n <= top
  BY DEF Limits
<1>a. PICK at2 : at2 = NextAt(at, limit)
  OBVIOUS
<1>l. PICK limit2 : limit2 = NextLimit(at, limit)
  OBVIOUS
<1> SUFFICES ASSUME NEW c \in Chunks
             PROVE  Only(new[Bindex(c, at2, limit2)], Mine(of, c))
                      = Only(bins[Bindex(c, at, limit)], Mine(of, c))
  BY <1>a, <1>l DEF Stacked
<1>x. PICK x : x = Bindex(c, at, limit)
  OBVIOUS
<1>y. PICK y : y = Bindex(c, at2, limit2)
  OBVIOUS
<1>m. PICK M : M = Mine(of, c)
  OBVIOUS
<1>1. x \in 0 .. n - 1 /\ x \in 0 .. top - 1
  <2>1. x \in 0 .. limit + at - 1
    BY <1>x, BindexRange
  <2> QED BY <2>1, <1>0
<1>2. (x # at => y = x) /\ (x = at => y \in {at, n})
  BY <1>a, <1>l, <1>x, <1>y, Readdressed
<1>3. CASE x # at
  <2>1. y = x /\ x # n
    BY <1>0, <1>1, <1>2, <1>3
  <2>2. new[y] = bins[x]
    BY <2>1, <1>1, <1>3
  <2> QED BY <2>2, <1>x, <1>y
<1>4. CASE x = at
  <2>k. PICK K : K = {b \in Buckets : Bindex(of[b], at2, limit2) # n}
    OBVIOUS
  <2>v. PICK V : V = {b \in Buckets : Bindex(of[b], at2, limit2) = n}
    OBVIOUS
  <2>1. new[at] = Only(bins[at], K) /\ new[n] = Only(bins[at], V)
    BY <1>a, <1>l, <2>k, <2>v
  <2>2. \A b \in M : b \in Buckets /\ Bindex(of[b], at2, limit2) = y
    BY <1>m, <1>y DEF Mine
  <2>3. PICK B : new[y] = Only(bins[at], B) /\ \A b \in M : b \in B
    <3>1. CASE y = n
      <4>1. \A b \in M : b \in V
        BY <3>1, <2>2, <2>v
      <4> QED BY <3>1, <4>1, <2>1
    <3>2. CASE y # n
      <4>1. \A b \in M : b \in K
        BY <3>2, <2>2, <2>k
      <4>2. y = at
        BY <3>2, <1>2, <1>4
      <4> QED BY <4>1, <4>2, <2>1
    <3> QED BY <3>1, <3>2
  <2>4. bins[at] \in Seq(Buckets)
    BY <1>0 DEF Bins
  <2>5. Only(Only(bins[at], B), M) = Only(bins[at], B \cap M)
    BY <2>4, OnlyTwice
  <2>6. B \cap M = M
    BY <2>3
  <2>7. Only(new[y], M) = Only(bins[at], M)
    BY <2>3, <2>5, <2>6
  <2>8. Only(new[y], M) = Only(bins[x], M)
    BY <2>7, <1>4
  <2> QED BY <2>8, <1>m, <1>x, <1>y
<1> QED BY <1>3, <1>4

LEMMA MergeStacked ==
    ASSUME NEW top \in Nat, NEW bins \in Bins(top), NEW of \in Chunked,
           NEW at, NEW limit, NEW n, n = limit + at, n < top, NEW m, m = n + 1,
           Limits(at, limit), Limits(NextAt(at, limit), NextLimit(at, limit)),
           Filed(bins, of, NextAt(at, limit), NextLimit(at, limit), m),
           NEW new \in Bins(top), new[at] = Joined(bins[at], bins[n]),
           \A i \in 0 .. top - 1 : i # at /\ i # n => new[i] = bins[i]
    PROVE  Stacked(new, of, at, limit)
             = Stacked(bins, of, NextAt(at, limit), NextLimit(at, limit))
<1>0. /\ at \in Nat /\ limit \in Nat /\ n \in Nat /\ at # n
      /\ at \in 0 .. top - 1 /\ n \in 0 .. top - 1 /\ m \in Nat /\ m <= top
  BY DEF Limits
<1>a. PICK at2 : at2 = NextAt(at, limit)
  OBVIOUS
<1>l. PICK limit2 : limit2 = NextLimit(at, limit)
  OBVIOUS
<1> SUFFICES ASSUME NEW c \in Chunks
             PROVE  Only(new[Bindex(c, at, limit)], Mine(of, c))
                      = Only(bins[Bindex(c, at2, limit2)], Mine(of, c))
  BY <1>a, <1>l DEF Stacked
<1>x. PICK x : x = Bindex(c, at, limit)
  OBVIOUS
<1>y. PICK y : y = Bindex(c, at2, limit2)
  OBVIOUS
<1>m. PICK M : M = Mine(of, c)
  OBVIOUS
<1>1. x \in 0 .. n - 1 /\ x \in 0 .. top - 1
  <2>1. x \in 0 .. limit + at - 1
    BY <1>x, BindexRange
  <2> QED BY <2>1, <1>0
<1>2. (x # at => y = x) /\ (x = at => y \in {at, n})
  BY <1>a, <1>l, <1>x, <1>y, Readdressed
<1>3. CASE x # at
  <2>1. y = x /\ x # n
    BY <1>0, <1>1, <1>2, <1>3
  <2>2. new[x] = bins[y]
    BY <2>1, <1>1, <1>3
  <2> QED BY <2>2, <1>x, <1>y
<1>4. CASE x = at
  <2>s. PICK s : s = bins[at]
    OBVIOUS
  <2>t. PICK t : t = bins[n]
    OBVIOUS
  <2>1. s \in Seq(Buckets) /\ t \in Seq(Buckets) /\ new[at] = Joined(s, t)
    BY <1>0, <2>s, <2>t DEF Bins
  <2>2. \A k \in 0 .. top - 1 : \A e : In(bins[k], e) => Bindex(of[e], at2, limit2) = k
    BY <1>0, <1>a, <1>l, FiledIn
  <2>3. \A k \in 0 .. top - 1 : \A e \in M : In(bins[k], e) => k = y
    BY <2>2, <1>m, <1>y DEF Mine
  <2>4. CASE y = at
    <3>1. \A e \in M : ~In(t, e)
      BY <2>3, <2>4, <2>t, <1>0
    <3>2. Only(Joined(s, t), M) = Only(s, M)
      BY <2>1, <3>1, OnlyLeft
    <3>3. Only(new[x], M) = Only(bins[y], M)
      BY <3>2, <2>1, <2>4, <2>s, <1>4
    <3> QED BY <3>3, <1>m, <1>x, <1>y
  <2>5. CASE y = n
    <3>1. \A e \in M : ~In(s, e)
      BY <2>3, <2>5, <2>s, <1>0
    <3>2. Only(Joined(s, t), M) = Only(t, M)
      BY <2>1, <3>1, OnlyRight
    <3>3. Only(new[x], M) = Only(bins[y], M)
      BY <3>2, <2>1, <2>5, <2>t, <1>4
    <3> QED BY <3>3, <1>m, <1>x, <1>y
  <2> QED BY <2>4, <2>5, <1>2, <1>4
<1> QED BY <1>3, <1>4

LEMMA AddStacked ==
    ASSUME NEW top \in Nat, NEW bins \in Bins(top), NEW of \in Chunked,
           NEW at, NEW limit, NEW n, n = limit + at, n <= top,
           Limits(at, limit), Filed(bins, of, at, limit, n),
           NEW b \in Buckets, of[b] = NULL, NEW c \in Chunks,
           NEW i, i = Bindex(c, at, limit),
           NEW new \in Bins(top), new[i] = Joined(<<b>>, bins[i]),
           \A k \in 0 .. top - 1 : k # i => new[k] = bins[k],
           NEW of2, of2 = Given(of, b, c)
    PROVE  Stacked(new, of2, at, limit) = Pushed(Stacked(bins, of, at, limit), c, b)
<1>0. at \in Nat /\ limit \in Nat /\ n \in Nat
  BY DEF Limits
<1>1. \A d \in Chunks : Bindex(d, at, limit) \in 0 .. top - 1
  <2> SUFFICES ASSUME NEW d \in Chunks PROVE Bindex(d, at, limit) \in 0 .. top - 1
    OBVIOUS
  <2>1. Bindex(d, at, limit) \in 0 .. limit + at - 1
    BY BindexRange
  <2> QED BY <2>1, <1>0
<1>2. of2[b] = c /\ \A e \in Buckets : e # b => of2[e] = of[e]
  BY DEF Chunked, Given
<1>3. NULL \notin Chunks
  BY Constants
<1>s. PICK s : s = bins[i]
  OBVIOUS
<1>4. s \in Seq(Buckets)
  BY <1>1, <1>s DEF Bins
<1>5. ~In(s, b)
  <2>1. i \in 0 .. top - 1
    BY <1>1
  <2>2. In(bins[i], b) => of[b] # NULL
    BY <2>1, <1>0, FiledIn
  <2> QED BY <2>2, <1>s
<1>6. ASSUME NEW d \in Chunks, d # c
      PROVE  Only(new[Bindex(d, at, limit)], Mine(of2, d))
               = Only(bins[Bindex(d, at, limit)], Mine(of, d))
  <2>x. PICK x : x = Bindex(d, at, limit)
    OBVIOUS
  <2>m. PICK M : M = Mine(of, d)
    OBVIOUS
  <2>1. Mine(of2, d) = M /\ b \notin M
    <3>1. of2[b] # d /\ of[b] # d
      BY <1>2, <1>3, <1>6
    <3> QED BY <3>1, <1>2, <2>m DEF Mine
  <2>2. Only(new[x], M) = Only(bins[x], M)
    <3>1. CASE x = i
      <4>o. PICK one : one = <<b>>
        OBVIOUS
      <4>1. one \in Seq(Buckets) /\ \A e : In(one, e) <=> e = b
        BY <4>o, OneIn
      <4>2. \A e \in M : ~In(one, e)
        BY <4>1, <2>1
      <4>3. Only(Joined(one, s), M) = Only(s, M)
        BY <4>1, <4>2, <1>4, OnlyRight
      <4>4. new[x] = Joined(one, s) /\ bins[x] = s
        BY <3>1, <4>o, <1>s
      <4> QED BY <4>3, <4>4
    <3>2. CASE x # i
      <4>1. new[x] = bins[x]
        BY <3>2, <2>x, <1>1
      <4> QED BY <4>1
    <3> QED BY <3>1, <3>2
  <2> QED BY <2>1, <2>2, <2>m, <2>x
<1>7. Only(new[i], Mine(of2, c)) = InFront(b, Only(bins[i], Mine(of, c)))
  <2>m. PICK M : M = Mine(of, c)
    OBVIOUS
  <2>w. PICK W : W = Mine(of2, c)
    OBVIOUS
  <2>1. b \in W /\ \A e \in Buckets : e # b => (e \in W <=> e \in M)
    BY <1>2, <2>m, <2>w DEF Mine
  <2>2. Only(Joined(<<b>>, s), W) = Joined(<<b>>, Only(s, W))
    BY <2>1, <1>4, OnlyInFront
  <2>3. Only(s, W) = Only(s, M)
    <3>1. \A j \in DOMAIN s : s[j] \in Buckets /\ s[j] # b
      BY <1>4, <1>5 DEF In
    <3>2. \A j \in DOMAIN s : s[j] \in W <=> s[j] \in M
      BY <3>1, <2>1
    <3> QED BY <3>2, OnlySame
  <2>4. Only(new[i], W) = Joined(<<b>>, Only(bins[i], M))
    BY <2>2, <2>3, <1>s
  <2> QED BY <2>4, <2>m, <2>w DEF InFront, Joined
<1>h. PICK held : held = Stacked(bins, of, at, limit)
  OBVIOUS
<1>8. held = [d \in Chunks |-> held[d]]
      /\ \A d \in Chunks : held[d] = Only(bins[Bindex(d, at, limit)], Mine(of, d))
  BY <1>h DEF Stacked
<1>9. \A d \in Chunks : Only(new[Bindex(d, at, limit)], Mine(of2, d))
                          = IF d = c THEN InFront(b, held[d]) ELSE held[d]
  BY <1>6, <1>7, <1>8
<1>10. Pushed(held, c, b) = [d \in Chunks |-> IF d = c THEN InFront(b, held[d]) ELSE held[d]]
  BY <1>8 DEF Pushed
<1> QED BY <1>9, <1>10, <1>h DEF Stacked

LEMMA ReorderStacked ==
    ASSUME NEW top \in Nat, NEW bins, NEW of, NEW at, NEW limit, Limits(at, limit),
           limit + at <= top, NEW new,
           NEW i, \A d \in Chunks : Only(new[i], Mine(of, d)) = Only(bins[i], Mine(of, d)),
           \A k \in 0 .. top - 1 : k # i => new[k] = bins[k]
    PROVE  Stacked(new, of, at, limit) = Stacked(bins, of, at, limit)
<1> SUFFICES ASSUME NEW d \in Chunks
             PROVE  Only(new[Bindex(d, at, limit)], Mine(of, d))
                      = Only(bins[Bindex(d, at, limit)], Mine(of, d))
  BY DEF Stacked
<1>x. PICK x : x = Bindex(d, at, limit)
  OBVIOUS
<1>1. x \in 0 .. limit + at - 1 /\ limit \in Nat /\ at \in Nat
  BY <1>x, BindexRange DEF Limits
<1>2. x \in 0 .. top - 1
  BY <1>1
<1>3. x = i \/ new[x] = bins[x]
  BY <1>2
<1> QED BY <1>3, <1>x

LEMMA ReleaseStacked ==
    ASSUME NEW top \in Nat, NEW bins \in Bins(top), NEW of \in Chunked,
           NEW at, NEW limit, Limits(at, limit), NEW n, n = limit + at, n <= top, NEW i, NEW gone,
           NEW new, new[i] = Only(bins[i], Buckets \ gone),
           \A k \in 0 .. top - 1 : k # i => new[k] = bins[k],
           NEW of2, of2 = Freed(of, gone)
    PROVE  Stacked(new, of2, at, limit) = Without(Stacked(bins, of, at, limit), gone)
<1>h. PICK held : held = Stacked(bins, of, at, limit)
  OBVIOUS
<1>1. \A d \in Chunks : held[d] = Only(bins[Bindex(d, at, limit)], Mine(of, d))
  BY <1>h DEF Stacked
<1> SUFFICES ASSUME NEW d \in Chunks
             PROVE  Only(new[Bindex(d, at, limit)], Mine(of2, d))
                      = Only(held[d], Buckets \ gone)
  BY <1>h DEF Stacked, Without
<1>x. PICK x : x = Bindex(d, at, limit)
  OBVIOUS
<1>0. limit \in Nat /\ at \in Nat /\ limit + at \in Nat
  BY DEF Limits
<1>2. x \in 0 .. top - 1
  <2>1. x \in 0 .. limit + at - 1
    BY <1>x, BindexRange
  <2> QED BY <2>1, <1>0
<1>s. PICK s : s = bins[x]
  OBVIOUS
<1>3. s \in Seq(Buckets)
  BY <1>2, <1>s DEF Bins
<1>m. PICK M : M = Mine(of, d)
  OBVIOUS
<1>w. PICK W : W = Mine(of2, d)
  OBVIOUS
<1>g. PICK G : G = Buckets \ gone
  OBVIOUS
<1>4. W = M \cap G /\ G \cap W = M \cap G
  <2>1. d # NULL
    BY Constants
  <2>2. \A b \in Buckets : of2[b] = IF b \in gone THEN NULL ELSE of[b]
    BY DEF Freed
  <2> QED BY <2>1, <2>2, <1>g, <1>m, <1>w DEF Mine
<1>5. Only(Only(s, M), G) = Only(s, M \cap G) /\ Only(Only(s, G), W) = Only(s, G \cap W)
  BY <1>3, OnlyTwice
<1>6. Only(new[x], W) = Only(s, M \cap G)
  <2>1. CASE x = i
    <3>1. new[x] = Only(s, G)
      BY <2>1, <1>g, <1>s
    <3> QED BY <3>1, <1>4, <1>5
  <2>2. CASE x # i
    <3>1. new[x] = s
      BY <2>2, <1>2, <1>s
    <3> QED BY <3>1, <1>4
  <2> QED BY <2>1, <2>2
<1>7. held[d] = Only(s, M)
  BY <1>1, <1>m, <1>s, <1>x
<1> QED BY <1>5, <1>6, <1>7, <1>g, <1>w, <1>x

\* The bins that are in use decide what the stacks are.
LEMMA SameStacked ==
    ASSUME NEW bins, NEW of, NEW at, NEW limit, Limits(at, limit),
           NEW n, n = limit + at, NEW bins2, \A k \in 0 .. n - 1 : bins2[k] = bins[k]
    PROVE  Stacked(bins2, of, at, limit) = Stacked(bins, of, at, limit)
<1> SUFFICES ASSUME NEW d \in Chunks
             PROVE  bins2[Bindex(d, at, limit)] = bins[Bindex(d, at, limit)]
  BY DEF Stacked
<1>i. PICK i : i = Bindex(d, at, limit)
  OBVIOUS
<1>1. i \in 0 .. limit + at - 1 /\ at \in Nat /\ limit \in Nat
  BY <1>i, BindexRange DEF Limits
<1>2. i \in 0 .. n - 1
  BY <1>1
<1> QED BY <1>2, <1>i

(***************************************************************************)
(* Segments and the directory                                              *)
(***************************************************************************)
\* The first cur entries of the directory are different segments of the pool.
Linked(segs, dir, cur) ==
    /\ segs \in Seq(Segment) /\ cur \in Nat
    /\ \E d \in Nat : cur <= d /\ dir \in [0 .. d - 1 -> {NULL} \cup DOMAIN segs]
    /\ \A i \in DOMAIN dir : dir[i] # NULL <=> i < cur
    /\ \A i, j \in 0 .. cur - 1 : dir[i] = dir[j] => i = j

Contents(segs, dir, cur) ==
    [i \in 0 .. SegLength * cur - 1 |-> segs[dir[i \div SegLength]][i % SegLength]]

\* The segments that went back to the pool are empty.
Spare(segs, dir) ==
    \A s \in DOMAIN segs : (\A i \in DOMAIN dir : dir[i] # s) => segs[s] = Empty

LEMMA LinkedSegments ==
    ASSUME NEW segs, NEW dir, NEW cur, Linked(segs, dir, cur)
    PROVE  /\ cur \in Nat /\ segs \in Seq(Segment)
           /\ \A q \in 0 .. cur - 1 :
                 /\ q \in DOMAIN dir /\ dir[q] \in DOMAIN segs
                 /\ segs[dir[q]] \in [0 .. SegLength - 1 -> Seq(Buckets)]
           /\ \A q \in DOMAIN dir : dir[q] = NULL \/ q \in 0 .. cur - 1
<1>1. cur \in Nat /\ segs \in Seq(Segment)
  BY DEF Linked
<1>2. PICK d \in Nat : cur <= d /\ dir \in [0 .. d - 1 -> {NULL} \cup DOMAIN segs]
  BY DEF Linked
<1>3. ASSUME NEW q \in 0 .. cur - 1 PROVE q \in DOMAIN dir /\ dir[q] \in DOMAIN segs
  <2>1. q \in 0 .. d - 1
    BY <1>1, <1>2
  <2>2. dir[q] # NULL
    BY <1>1, <1>2, <2>1 DEF Linked
  <2> QED BY <1>2, <2>1, <2>2
<1>4. \A s \in DOMAIN segs : segs[s] \in Segment
  BY <1>1
<1>5. ASSUME NEW q \in DOMAIN dir, dir[q] # NULL PROVE q \in 0 .. cur - 1
  <2>1. q \in 0 .. d - 1 /\ q < cur
    BY <1>2, <1>5 DEF Linked
  <2> QED BY <1>1, <2>1
<1> QED BY <1>1, <1>3, <1>4, <1>5 DEF Segment

LEMMA ContentsType ==
    ASSUME NEW segs, NEW dir, NEW cur, Linked(segs, dir, cur)
    PROVE  /\ SegLength * cur \in Nat
           /\ Contents(segs, dir, cur) \in Bins(SegLength * cur)
<1>1. cur \in Nat /\ SegLength \in Nat \ {0}
  BY LinkedSegments, Constants
<1>2. SegLength * cur \in Nat
  BY <1>1, Product
<1>3. ASSUME NEW i \in 0 .. SegLength * cur - 1
      PROVE  segs[dir[i \div SegLength]][i % SegLength] \in Seq(Buckets)
  <2>1. i \div SegLength \in 0 .. cur - 1 /\ i % SegLength \in 0 .. SegLength - 1
    BY <1>1, QuotientBelow
  <2>q. PICK q \in 0 .. cur - 1 : q = i \div SegLength
    BY <2>1
  <2>r. PICK r \in 0 .. SegLength - 1 : r = i % SegLength
    BY <2>1
  <2>2. segs[dir[q]] \in [0 .. SegLength - 1 -> Seq(Buckets)]
    BY LinkedSegments
  <2>3. segs[dir[q]][r] \in Seq(Buckets)
    BY <2>2
  <2> QED BY <2>3, <2>q, <2>r
<1> QED BY <1>2, <1>3 DEF Contents, Bins

\* Writing one bin
LEMMA PutContents ==
    ASSUME NEW segs, NEW dir, NEW cur, Linked(segs, dir, cur),
           NEW i \in 0 .. SegLength * cur - 1, NEW v \in Seq(Buckets),
           NEW new, new = Put(segs, dir, i, v)
    PROVE  /\ Linked(new, dir, cur) /\ DOMAIN new = DOMAIN segs /\ Len(new) = Len(segs)
           /\ Contents(new, dir, cur)[i] = v
           /\ \A k \in 0 .. SegLength * cur - 1 :
                 k # i => Contents(new, dir, cur)[k] = Contents(segs, dir, cur)[k]
           /\ Spare(segs, dir) => Spare(new, dir)
<1>1. cur \in Nat /\ SegLength \in Nat \ {0} /\ segs \in Seq(Segment)
  BY LinkedSegments, Constants
<1>2. i \div SegLength \in 0 .. cur - 1 /\ i % SegLength \in 0 .. SegLength - 1
      /\ i = SegLength * (i \div SegLength) + (i % SegLength)
  BY <1>1, QuotientBelow
<1>q. PICK q \in 0 .. cur - 1 : q = i \div SegLength
  BY <1>2
<1>r. PICK r \in 0 .. SegLength - 1 : r = i % SegLength
  BY <1>2
<1>s. PICK s : s = dir[q]
  OBVIOUS
<1>3. s \in DOMAIN segs /\ q \in DOMAIN dir
      /\ segs[s] \in [0 .. SegLength - 1 -> Seq(Buckets)]
  BY <1>s, LinkedSegments
<1>4. new = [segs EXCEPT ![s] = [segs[s] EXCEPT ![r] = v]]
  BY <1>q, <1>r, <1>s DEF Put
<1>g. PICK g : g = [segs[s] EXCEPT ![r] = v]
  OBVIOUS
<1>5. g \in Segment /\ g[r] = v /\ \A k \in 0 .. SegLength - 1 : k # r => g[k] = segs[s][k]
  BY <1>3, <1>g DEF Segment
<1>6. new = [segs EXCEPT ![s] = g]
  BY <1>4, <1>g
<1>7. /\ new \in Seq(Segment) /\ DOMAIN new = DOMAIN segs /\ Len(new) = Len(segs)
      /\ new[s] = g /\ \A k \in DOMAIN segs : k # s => new[k] = segs[k]
  BY <1>1, <1>3, <1>5, <1>6
<1>8. Linked(new, dir, cur)
  BY <1>7 DEF Linked
<1>9. \A k \in 0 .. SegLength * cur - 1 :
         /\ Contents(new, dir, cur)[k] = new[dir[k \div SegLength]][k % SegLength]
         /\ Contents(segs, dir, cur)[k] = segs[dir[k \div SegLength]][k % SegLength]
  BY DEF Contents
<1>10. Contents(new, dir, cur)[i] = v
  BY <1>5, <1>7, <1>9, <1>q, <1>r, <1>s
<1>11. ASSUME NEW k \in 0 .. SegLength * cur - 1, k # i
       PROVE  Contents(new, dir, cur)[k] = Contents(segs, dir, cur)[k]
  <2>1. k \div SegLength \in 0 .. cur - 1 /\ k % SegLength \in 0 .. SegLength - 1
        /\ k = SegLength * (k \div SegLength) + (k % SegLength)
    BY <1>1, QuotientBelow
  <2>q. PICK x \in 0 .. cur - 1 : x = k \div SegLength
    BY <2>1
  <2>r. PICK y \in 0 .. SegLength - 1 : y = k % SegLength
    BY <2>1
  <2>2. x # q \/ y # r
    <3>1. k = SegLength * x + y /\ i = SegLength * q + r
      BY <1>2, <1>q, <1>r, <2>1, <2>q, <2>r, Zenon
    <3> QED BY <3>1, <1>11
  <2>3. dir[x] \in DOMAIN segs /\ (dir[x] = s => x = q)
    <3>1. dir[x] \in DOMAIN segs
      BY LinkedSegments
    <3> QED BY <3>1, <1>s DEF Linked
  <2>4. new[dir[x]][y] = segs[dir[x]][y]
    <3>1. CASE dir[x] = s
      BY <3>1, <2>2, <2>3, <1>5, <1>7
    <3>2. CASE dir[x] # s
      BY <3>2, <2>3, <1>7
    <3> QED BY <3>1, <3>2
  <2> QED BY <2>4, <2>q, <2>r, <1>9
<1>12. ASSUME Spare(segs, dir) PROVE Spare(new, dir)
  <2> SUFFICES ASSUME NEW e \in DOMAIN segs, \A k \in DOMAIN dir : dir[k] # e
               PROVE  new[e] = Empty
    BY <1>7 DEF Spare
  <2>1. e # s
    BY <1>3, <1>s
  <2> QED BY <2>1, <1>7, <1>12 DEF Spare
<1> QED BY <1>7, <1>8, <1>10, <1>11, <1>12

\* Two directories have the same segments up to entry m, and so the same bins.
SameUpTo(segs, dir, segs2, dir2, m) ==
    \A q \in 0 .. m - 1 : segs2[dir2[q]] = segs[dir[q]]
Agree(bins, bins2, m) == \A k \in 0 .. SegLength * m - 1 : bins2[k] = bins[k]

LEMMA SameSegments ==
    ASSUME NEW segs, NEW dir, NEW cur, Linked(segs, dir, cur),
           NEW segs2, NEW dir2, NEW cur2, Linked(segs2, dir2, cur2),
           NEW m \in Nat, m <= cur, m <= cur2,
           SameUpTo(segs, dir, segs2, dir2, m)
    PROVE  Agree(Contents(segs, dir, cur), Contents(segs2, dir2, cur2), m)
<1>1. cur \in Nat /\ cur2 \in Nat /\ SegLength \in Nat \ {0}
  BY LinkedSegments, Constants
<1>2. SegLength * m <= SegLength * cur /\ SegLength * m <= SegLength * cur2
      /\ SegLength * m \in Nat /\ SegLength * cur \in Nat /\ SegLength * cur2 \in Nat
  <2>1. \A x \in Nat : m <= x => SegLength * m <= SegLength * x /\ SegLength * x \in Nat
    <3> SUFFICES ASSUME NEW x \in Nat, m <= x
                 PROVE  SegLength * m <= SegLength * x /\ SegLength * x \in Nat
      OBVIOUS
    <3>1. m = x \/ m < x
      OBVIOUS
    <3> QED BY <3>1, <1>1, ProductOrder
  <2>2. SegLength * m \in Nat
    BY <1>1, Product
  <2> QED BY <2>1, <2>2, <1>1
<1> SUFFICES ASSUME NEW k \in 0 .. SegLength * m - 1
             PROVE  Contents(segs2, dir2, cur2)[k] = Contents(segs, dir, cur)[k]
  BY DEF Agree
<1>3. k \in 0 .. SegLength * cur - 1 /\ k \in 0 .. SegLength * cur2 - 1
  BY <1>2
<1>4. k \div SegLength \in 0 .. m - 1
  BY <1>1, QuotientBelow
<1>5. /\ Contents(segs2, dir2, cur2)[k] = segs2[dir2[k \div SegLength]][k % SegLength]
      /\ Contents(segs, dir, cur)[k] = segs[dir[k \div SegLength]][k % SegLength]
  BY <1>3 DEF Contents
<1> QED BY <1>4, <1>5 DEF SameUpTo

\* A new segment of the pool, which the directory does not have yet
Extended(segs) == Append(segs, Empty)

LEMMA AppendedSegment ==
    ASSUME NEW segs, NEW dir, NEW cur, Linked(segs, dir, cur), Spare(segs, dir)
    PROVE  LET new == Extended(segs)
               s   == Len(segs) + 1
           IN  /\ Linked(new, dir, cur) /\ Spare(new, dir)
               /\ s \in DOMAIN new /\ new[s] = Empty /\ \A q \in DOMAIN dir : dir[q] # s
               /\ \A q \in 0 .. cur - 1 : new[dir[q]] = segs[dir[q]]
<1>1. cur \in Nat /\ SegLength \in Nat \ {0} /\ segs \in Seq(Segment)
  BY LinkedSegments, Constants
<1>2. Empty \in Segment
  BY DEF Empty, Segment
<1>e. PICK e \in Segment : e = Empty
  BY <1>2
<1>n. PICK new : new = Append(segs, e)
  OBVIOUS
<1>s. PICK s : s = Len(segs) + 1
  OBVIOUS
<1>3. /\ new \in Seq(Segment) /\ DOMAIN segs = 1 .. Len(segs) /\ DOMAIN new = 1 .. s /\ s \in Nat
      /\ new[s] = e /\ \A k \in DOMAIN segs : new[k] = segs[k] /\ k < s
      /\ Len(segs) \in Nat
  BY <1>1, <1>n, <1>s
<1>4. DOMAIN segs \subseteq DOMAIN new /\ s \in DOMAIN new /\ s \notin DOMAIN segs
      /\ \A k \in DOMAIN new : k = s \/ k \in DOMAIN segs
  BY <1>3, <1>s
<1>5. \A q \in 0 .. cur - 1 : dir[q] \in DOMAIN segs /\ new[dir[q]] = segs[dir[q]]
  BY <1>3, LinkedSegments
<1>6. \A q \in DOMAIN dir : dir[q] # s
  <2>1. \A q \in DOMAIN dir : dir[q] = NULL \/ dir[q] \in DOMAIN segs
    BY LinkedSegments
  <2>2. s # NULL
    BY <1>3, <1>4 DEF NULL
  <2> QED BY <2>1, <2>2, <1>4
<1>7. Linked(new, dir, cur)
  <2>1. PICK d \in Nat : cur <= d /\ dir \in [0 .. d - 1 -> {NULL} \cup DOMAIN segs]
    BY DEF Linked
  <2>2. dir \in [0 .. d - 1 -> {NULL} \cup DOMAIN new]
    BY <2>1, <1>4
  <2> QED BY <1>3, <2>1, <2>2 DEF Linked
<1>8. Spare(new, dir)
  BY <1>3, <1>4, <1>e DEF Spare
<1> QED BY <1>3, <1>4, <1>5, <1>6, <1>7, <1>8, <1>e, <1>n, <1>s DEF Extended

\* The directory has room for s, a segment that no bin in use lies in.
Available(segs, dir, cur, s) ==
    /\ cur \in DOMAIN dir /\ s \in DOMAIN segs /\ segs[s] = Empty
    /\ \A q \in DOMAIN dir : dir[q] # s
\* the bins of segment q hold nothing
Unused(bins, q) == \A k \in SegLength * q .. SegLength * (q + 1) - 1 : bins[k] = <<>>

\* metadata_expand_table enters an empty segment into the directory.
LEMMA EnteredSegment ==
    ASSUME NEW segs, NEW dir, NEW cur, Linked(segs, dir, cur), Spare(segs, dir),
           NEW s, Available(segs, dir, cur, s),
           NEW new, new = [dir EXCEPT ![cur] = s]
    PROVE  /\ Linked(segs, new, cur + 1) /\ Spare(segs, new)
           /\ Agree(Contents(segs, dir, cur), Contents(segs, new, cur + 1), cur)
           /\ Unused(Contents(segs, new, cur + 1), cur)
<1>0. /\ cur \in DOMAIN dir /\ s \in DOMAIN segs /\ segs[s] = Empty
      /\ \A q \in DOMAIN dir : dir[q] # s
  BY DEF Available
<1>1. cur \in Nat /\ SegLength \in Nat \ {0} /\ segs \in Seq(Segment) /\ s # NULL
  BY <1>0, LinkedSegments, Constants DEF NULL
<1>d. PICK d \in Nat : cur <= d /\ dir \in [0 .. d - 1 -> {NULL} \cup DOMAIN segs]
  BY DEF Linked
<1>2. /\ new \in [0 .. d - 1 -> {NULL} \cup DOMAIN segs] /\ new[cur] = s
      /\ \A q \in 0 .. d - 1 : q # cur => new[q] = dir[q]
      /\ cur \in 0 .. d - 1 /\ DOMAIN dir = 0 .. d - 1 /\ DOMAIN new = 0 .. d - 1
  BY <1>0, <1>d
<1>3. \A q \in 0 .. d - 1 : new[q] # NULL <=> q < cur + 1
  <2>1. \A q \in 0 .. d - 1 : dir[q] # NULL <=> q < cur
    BY <1>2 DEF Linked
  <2>2. \A q \in 0 .. d - 1 : q < cur + 1 <=> q < cur \/ q = cur
    BY <1>1
  <2> QED BY <1>1, <1>2, <2>1, <2>2
<1>4. \A q \in 0 .. (cur + 1) - 1 : q \in 0 .. d - 1 /\ (q = cur \/ q \in 0 .. cur - 1)
  BY <1>1, <1>2
<1>5. \A i, j \in 0 .. (cur + 1) - 1 : new[i] = new[j] => i = j
  <2> SUFFICES ASSUME NEW i \in 0 .. (cur + 1) - 1, NEW j \in 0 .. (cur + 1) - 1, new[i] = new[j]
               PROVE  i = j
    OBVIOUS
  <2>1. CASE i # cur /\ j # cur
    BY <2>1, <1>2, <1>4 DEF Linked
  <2>2. CASE i = cur \/ j = cur
    BY <2>2, <1>0, <1>2, <1>4
  <2> QED BY <2>1, <2>2
<1>6. Linked(segs, new, cur + 1)
  <2>1. cur + 1 \in Nat /\ cur + 1 <= d
    BY <1>1, <1>2
  <2> QED BY <1>1, <1>2, <1>3, <1>5, <2>1 DEF Linked
<1>7. Spare(segs, new)
  <2> SUFFICES ASSUME NEW e \in DOMAIN segs, \A q \in DOMAIN new : new[q] # e
               PROVE  segs[e] = Empty
    BY DEF Spare
  <2>1. dir[cur] = NULL
    BY <1>1, <1>2 DEF Linked
  <2>3. e # NULL /\ e # s
    BY <1>1, <1>2 DEF NULL
  <2>2. \A q \in DOMAIN dir : dir[q] # e
    BY <1>2, <2>1, <2>3
  <2> QED BY <2>2 DEF Spare
<1>8. Agree(Contents(segs, dir, cur), Contents(segs, new, cur + 1), cur)
  <2>1. SameUpTo(segs, dir, segs, new, cur)
    <3> SUFFICES ASSUME NEW q \in 0 .. cur - 1 PROVE segs[new[q]] = segs[dir[q]]
      BY DEF SameUpTo
    <3>1. q \in 0 .. d - 1 /\ q # cur
      BY <1>1, <1>2
    <3>2. new[q] = dir[q]
      BY <1>2, <3>1
    <3> QED BY <3>2
  <2>2. cur <= cur + 1 /\ cur <= cur
    BY <1>1
  <2>n. PICK up : up = cur + 1
    OBVIOUS
  <2>3. Linked(segs, new, up) /\ cur <= up
    BY <2>n, <2>2, <1>6
  <2>4. Agree(Contents(segs, dir, cur), Contents(segs, new, up), cur)
    BY <1>1, <2>1, <2>2, <2>3, SameSegments
  <2> QED BY <2>4, <2>n
<1>9. ASSUME NEW k \in SegLength * cur .. SegLength * (cur + 1) - 1
      PROVE  Contents(segs, new, cur + 1)[k] = <<>>
  <2>1. SegLength * cur \in Nat /\ SegLength * (cur + 1) = SegLength * cur + SegLength
    BY <1>1, ProductOrder
  <2>r. PICK r \in 0 .. SegLength - 1 : k = SegLength * cur + r
    <3>1. k - SegLength * cur \in 0 .. SegLength - 1
      BY <2>1, <1>1
    <3>2. k = SegLength * cur + (k - SegLength * cur)
      BY <2>1
    <3> QED BY <3>1, <3>2
  <2>2. k \div SegLength = cur /\ k % SegLength = r
    BY <1>1, <2>r, Factors
  <2>3. k \in 0 .. SegLength * (cur + 1) - 1
    BY <2>1
  <2>4. Contents(segs, new, cur + 1)[k] = segs[new[cur]][r]
    BY <2>2, <2>3 DEF Contents
  <2> QED BY <2>4, <1>0, <1>2 DEF Empty
<1> QED BY <1>6, <1>7, <1>8, <1>9 DEF Unused

\* The last segment goes back to the pool with its bins empty.
LEMMA LeftSegment ==
    ASSUME NEW segs, NEW dir, NEW cur, Linked(segs, dir, cur), Spare(segs, dir),
           NEW last \in Nat, cur = last + 1,
           \A k \in SegLength * last .. SegLength * cur - 1 :
               Contents(segs, dir, cur)[k] = <<>>,
           NEW new, new = [dir EXCEPT ![last] = NULL]
    PROVE  /\ Linked(segs, new, last) /\ Spare(segs, new)
           /\ Agree(Contents(segs, dir, cur), Contents(segs, new, last), last)
<1>1. cur \in Nat /\ SegLength \in Nat \ {0} /\ segs \in Seq(Segment)
  BY LinkedSegments, Constants
<1>d. PICK d \in Nat : cur <= d /\ dir \in [0 .. d - 1 -> {NULL} \cup DOMAIN segs]
  BY DEF Linked
<1>2. /\ new \in [0 .. d - 1 -> {NULL} \cup DOMAIN segs] /\ new[last] = NULL
      /\ \A q \in 0 .. d - 1 : q # last => new[q] = dir[q]
      /\ last \in 0 .. d - 1 /\ DOMAIN dir = 0 .. d - 1 /\ DOMAIN new = 0 .. d - 1
  BY <1>d, <1>1
<1>3. \A q \in 0 .. d - 1 : new[q] # NULL <=> q < last
  <2> SUFFICES ASSUME NEW q \in 0 .. d - 1 PROVE new[q] # NULL <=> q < last
    OBVIOUS
  <2>1. dir[q] # NULL <=> q < cur
    BY <1>2 DEF Linked
  <2>2. CASE q = last
    BY <2>2, <1>2
  <2>3. CASE q # last
    BY <2>1, <2>3, <1>2
  <2> QED BY <2>2, <2>3
<1>5. \A i, j \in 0 .. last - 1 : new[i] = new[j] => i = j
  <2> SUFFICES ASSUME NEW i \in 0 .. last - 1, NEW j \in 0 .. last - 1, new[i] = new[j]
               PROVE  i = j
    OBVIOUS
  <2>1. i \in 0 .. cur - 1 /\ j \in 0 .. cur - 1 /\ i \in 0 .. d - 1 /\ j \in 0 .. d - 1
        /\ i # last /\ j # last
    BY <1>1, <1>d
  <2>2. dir[i] = dir[j]
    BY <2>1, <1>2
  <2> QED BY <2>1, <2>2 DEF Linked
<1>6. Linked(segs, new, last)
  <2>1. last <= d
    BY <1>d
  <2> QED BY <1>1, <1>2, <1>3, <1>5, <2>1 DEF Linked
<1>s. PICK s : s = dir[last]
  OBVIOUS
<1>4. s \in DOMAIN segs /\ segs[s] \in [0 .. SegLength - 1 -> Seq(Buckets)]
  <2>1. last \in 0 .. cur - 1
    BY <1>1
  <2> QED BY <2>1, <1>s, LinkedSegments
<1>7. segs[s] = Empty
  <2> SUFFICES ASSUME NEW r \in 0 .. SegLength - 1 PROVE segs[s][r] = <<>>
    BY <1>4 DEF Empty
  <2>k. PICK k : k = SegLength * last + r
    OBVIOUS
  <2>1. k \in Nat /\ k \div SegLength = last /\ k % SegLength = r
    BY <1>1, <2>k, Factors
  <2>2. SegLength * last \in Nat /\ SegLength * cur = SegLength * last + SegLength
    BY <1>1, ProductOrder
  <2>3. k \in SegLength * last .. SegLength * cur - 1 /\ k \in 0 .. SegLength * cur - 1
    BY <1>1, <2>k, <2>1, <2>2
  <2>4. Contents(segs, dir, cur)[k] = segs[dir[k \div SegLength]][k % SegLength]
    BY <2>3 DEF Contents
  <2> QED BY <2>1, <2>3, <2>4, <1>s
<1>8. Spare(segs, new)
  <2> SUFFICES ASSUME NEW e \in DOMAIN segs, \A q \in DOMAIN new : new[q] # e
               PROVE  segs[e] = Empty
    BY DEF Spare
  <2>1. CASE e = s
    BY <2>1, <1>7
  <2>2. CASE e # s
    <3>1. \A q \in DOMAIN dir : dir[q] # e
      BY <2>2, <1>2, <1>s
    <3> QED BY <3>1 DEF Spare
  <2> QED BY <2>1, <2>2
<1>9. SameUpTo(segs, dir, segs, new, last)
  <2> SUFFICES ASSUME NEW q \in 0 .. last - 1 PROVE segs[new[q]] = segs[dir[q]]
    BY DEF SameUpTo
  <2>1. q \in 0 .. d - 1 /\ q # last
    BY <1>1, <1>d
  <2> QED BY <2>1, <1>2
<1>10. last <= last /\ last <= cur
  BY <1>1
<1> QED BY <1>6, <1>8, <1>9, <1>10, SameSegments

LEMMA DirectoryLength ==
    ASSUME NEW segs, NEW dir, NEW cur, Linked(segs, dir, cur)
    PROVE  /\ Cardinality(DOMAIN dir) \in Nat /\ cur <= Cardinality(DOMAIN dir)
           /\ DOMAIN dir = 0 .. Cardinality(DOMAIN dir) - 1
           /\ dir \in [0 .. Cardinality(DOMAIN dir) - 1 -> {NULL} \cup DOMAIN segs]
<1>d. PICK d \in Nat : cur <= d /\ dir \in [0 .. d - 1 -> {NULL} \cup DOMAIN segs]
  BY DEF Linked
<1>1. DOMAIN dir = 0 .. d - 1
  BY <1>d
<1>2. Cardinality(0 .. d - 1) = IF 0 > d - 1 THEN 0 ELSE (d - 1) - 0 + 1
  BY <1>d, FS_Interval
<1>3. Cardinality(DOMAIN dir) = d
  BY <1>1, <1>2
<1> QED BY <1>d, <1>1, <1>3

Resized(dir, d) == [i \in 0 .. d - 1 |-> IF i \in DOMAIN dir THEN dir[i] ELSE NULL]

\* metadata_expand_directory and metadata_contract_directory: only entries that point
\* nowhere come or go.
LEMMA ResizedDirectory ==
    ASSUME NEW segs, NEW dir, NEW cur, Linked(segs, dir, cur), Spare(segs, dir),
           NEW d \in Nat, cur <= d,
           NEW new, new = Resized(dir, d)
    PROVE  /\ Linked(segs, new, cur) /\ Spare(segs, new)
           /\ Agree(Contents(segs, dir, cur), Contents(segs, new, cur), cur)
<1>1. cur \in Nat /\ segs \in Seq(Segment)
  BY LinkedSegments
<1>e. PICK e \in Nat : cur <= e /\ dir \in [0 .. e - 1 -> {NULL} \cup DOMAIN segs]
  BY DEF Linked
<1>r. new = [i \in 0 .. d - 1 |-> IF i \in DOMAIN dir THEN dir[i] ELSE NULL]
  BY DEF Resized
<1>2. DOMAIN dir = 0 .. e - 1 /\ DOMAIN new = 0 .. d - 1
  BY <1>e, <1>r
<1>3. \A i \in 0 .. d - 1 : /\ i \in 0 .. e - 1 => new[i] = dir[i]
                            /\ i \notin 0 .. e - 1 => new[i] = NULL
  BY <1>2, <1>r
<1>4. new \in [0 .. d - 1 -> {NULL} \cup DOMAIN segs]
  BY <1>e, <1>r, <1>2
<1>5. \A i \in 0 .. d - 1 : new[i] # NULL <=> i < cur
  <2> SUFFICES ASSUME NEW i \in 0 .. d - 1 PROVE new[i] # NULL <=> i < cur
    OBVIOUS
  <2>1. CASE i \in 0 .. e - 1
    BY <2>1, <1>2, <1>3 DEF Linked
  <2>2. CASE i \notin 0 .. e - 1
    BY <2>2, <1>1, <1>3, <1>e
  <2> QED BY <2>1, <2>2
<1>6. \A i \in 0 .. cur - 1 : i \in 0 .. d - 1 /\ i \in 0 .. e - 1 /\ new[i] = dir[i]
  BY <1>1, <1>3, <1>e
<1>7. \A i, j \in 0 .. cur - 1 : new[i] = new[j] => i = j
  BY <1>6 DEF Linked
<1>8. Linked(segs, new, cur)
  BY <1>1, <1>2, <1>4, <1>5, <1>7 DEF Linked
<1>9. Spare(segs, new)
  <2> SUFFICES ASSUME NEW s \in DOMAIN segs, \A i \in DOMAIN new : new[i] # s
               PROVE  segs[s] = Empty
    BY DEF Spare
  <2>1. s # NULL
    BY <1>1 DEF NULL
  <2>2. \A i \in DOMAIN dir : dir[i] # s
    <3> SUFFICES ASSUME NEW i \in DOMAIN dir, dir[i] = s PROVE FALSE
      OBVIOUS
    <3>1. i \in 0 .. cur - 1
      BY <2>1, LinkedSegments
    <3> QED BY <3>1, <1>6, <1>2
  <2> QED BY <2>2 DEF Spare
<1>10. SameUpTo(segs, dir, segs, new, cur)
  BY <1>6 DEF SameUpTo
<1>11. cur <= cur
  BY <1>1
<1> QED BY <1>1, <1>8, <1>9, <1>10, <1>11, SameSegments

(***************************************************************************)
(* The table: its segments, and the buckets in its bins                    *)
(***************************************************************************)
Table(segs, dir, cur, of, at, limit, n, held) ==
    /\ Linked(segs, dir, cur) /\ Spare(segs, dir)
    /\ of \in Chunked /\ Limits(at, limit)
    /\ n = limit + at /\ n <= SegLength * cur
    /\ Filed(Contents(segs, dir, cur), of, at, limit, n)
    /\ held = Stacked(Contents(segs, dir, cur), of, at, limit)

\* No segment is there without need.
Snug(cur, n) == SegLength * cur < n + SegLength

BinAt(segs, dir, i) == segs[dir[i \div SegLength]][i % SegLength]

\* The bins, in use or not, of a table
View(segs, dir, cur, top, bins) ==
    /\ Linked(segs, dir, cur) /\ Spare(segs, dir)
    /\ top = SegLength * cur /\ bins = Contents(segs, dir, cur)

LEMMA TableType ==
    ASSUME NEW segs, NEW dir, NEW cur, NEW of, NEW at, NEW limit, NEW n, NEW held,
           Table(segs, dir, cur, of, at, limit, n, held),
           NEW top, top = SegLength * cur, NEW bins, bins = Contents(segs, dir, cur)
    PROVE  /\ View(segs, dir, cur, top, bins) /\ Limits(at, limit)
           /\ cur \in Nat /\ top \in Nat /\ n \in Nat /\ at \in Nat /\ limit \in Nat
           /\ at < limit /\ n = limit + at /\ n <= top /\ of \in Chunked
           /\ bins \in Bins(top) /\ Filed(bins, of, at, limit, n)
           /\ held = Stacked(bins, of, at, limit)
           /\ \A i \in 0 .. top - 1 :
                 bins[i] = BinAt(segs, dir, i) /\ bins[i] \in Seq(Buckets)
<1>1. top \in Nat /\ bins \in Bins(top) /\ cur \in Nat
  BY ContentsType, LinkedSegments DEF Table
<1>2. \A i \in 0 .. top - 1 : bins[i] = BinAt(segs, dir, i)
  BY DEF Contents, BinAt
<1>3. at \in Nat /\ limit \in Nat /\ at < limit /\ n = limit + at /\ n <= top
      /\ of \in Chunked
  BY DEF Table, Limits
<1>4. \A i \in 0 .. top - 1 : bins[i] \in Seq(Buckets)
  BY <1>1 DEF Bins
<1>5. View(segs, dir, cur, top, bins) /\ Limits(at, limit)
      /\ Filed(bins, of, at, limit, n) /\ held = Stacked(bins, of, at, limit)
  BY DEF Table, View
<1> QED BY <1>1, <1>2, <1>3, <1>4, <1>5

\* Bin i has become v.
Written(bins2, bins, top, i, v) ==
    /\ bins2 \in Bins(top) /\ bins2[i] = v
    /\ \A k \in 0 .. top - 1 : k # i => bins2[k] = bins[k]

LEMMA PutBins ==
    ASSUME NEW segs, NEW dir, NEW cur, NEW top, NEW bins, View(segs, dir, cur, top, bins),
           NEW i \in 0 .. top - 1, NEW v \in Seq(Buckets),
           NEW new, new = Put(segs, dir, i, v)
    PROVE  /\ View(new, dir, cur, top, Contents(new, dir, cur))
           /\ Written(Contents(new, dir, cur), bins, top, i, v)
<1>1. Linked(segs, dir, cur) /\ Spare(segs, dir) /\ top = SegLength * cur
      /\ bins = Contents(segs, dir, cur)
  BY DEF View
<1>2. Linked(new, dir, cur) /\ Spare(new, dir) /\ Contents(new, dir, cur)[i] = v
      /\ \A k \in 0 .. top - 1 : k # i => Contents(new, dir, cur)[k] = bins[k]
  BY <1>1, PutContents
<1>3. Contents(new, dir, cur) \in Bins(top)
  BY <1>1, <1>2, ContentsType
<1> QED BY <1>1, <1>2, <1>3 DEF View, Written

\* metadata_insert_chunk
LEMMA AddTable ==
    ASSUME NEW segs, NEW dir, NEW cur, NEW of, NEW at, NEW limit, NEW n, NEW held,
           Table(segs, dir, cur, of, at, limit, n, held),
           NEW b \in Buckets, of[b] = NULL, NEW c \in Chunks,
           NEW i, i = Bindex(c, at, limit),
           NEW new, new = Put(segs, dir, i, InFront(b, BinAt(segs, dir, i))),
           NEW of2, of2 = Given(of, b, c)
    PROVE  /\ Table(new, dir, cur, of2, at, limit, n, Pushed(held, c, b))
           /\ i \in 0 .. n - 1
<1>t. PICK top : top = SegLength * cur
  OBVIOUS
<1>x. PICK bins : bins = Contents(segs, dir, cur)
  OBVIOUS
<1>1. /\ View(segs, dir, cur, top, bins) /\ Limits(at, limit)
      /\ top \in Nat /\ n \in Nat /\ limit \in Nat /\ at \in Nat
      /\ n = limit + at /\ n <= top /\ of \in Chunked
      /\ bins \in Bins(top) /\ Filed(bins, of, at, limit, n)
      /\ held = Stacked(bins, of, at, limit)
  BY <1>t, <1>x, TableType
<1>2. i \in 0 .. limit + at - 1
  BY <1>1, BindexRange
<1>3. i \in 0 .. n - 1 /\ i \in 0 .. top - 1
  BY <1>1, <1>2
<1>4. bins[i] = BinAt(segs, dir, i) /\ bins[i] \in Seq(Buckets)
  BY <1>t, <1>x, <1>3, TableType
<1>v. PICK v : v = Joined(<<b>>, bins[i])
  OBVIOUS
<1>o. PICK one : one = <<b>>
  OBVIOUS
<1>5. v \in Seq(Buckets)
  <2>1. one \in Seq(Buckets)
    BY <1>o, OneIn
  <2>2. Joined(one, bins[i]) \in Seq(Buckets)
    BY <2>1, <1>4, JoinedIn
  <2> QED BY <2>2, <1>v, <1>o
<1>w. new = Put(segs, dir, i, v)
  BY <1>4, <1>v DEF InFront, Joined
<1>y. PICK bins2 : bins2 = Contents(new, dir, cur)
  OBVIOUS
<1>6. View(new, dir, cur, top, bins2) /\ Written(bins2, bins, top, i, v)
  BY <1>1, <1>3, <1>5, <1>w, <1>y, PutBins
<1>8. /\ bins2 \in Bins(top) /\ bins2[i] = Joined(<<b>>, bins[i])
      /\ \A k \in 0 .. top - 1 : k # i => bins2[k] = bins[k]
  BY <1>6, <1>v DEF Written
<1>7. of2 \in Chunked /\ Filed(bins2, of2, at, limit, n)
  BY <1>1, <1>8, AddFiled
<1>9. Stacked(bins2, of2, at, limit) = Pushed(held, c, b)
  BY <1>1, <1>8, AddStacked
<1> QED BY <1>1, <1>3, <1>6, <1>7, <1>9, <1>t, <1>y DEF Table, View

\* metadata_lookup
LEMMA ReorderTable ==
    ASSUME NEW segs, NEW dir, NEW cur, NEW of, NEW at, NEW limit, NEW n, NEW held,
           Table(segs, dir, cur, of, at, limit, n, held),
           NEW i \in 0 .. n - 1,
           NEW v \in Seq(Buckets), Once(v), \A e : In(v, e) <=> In(BinAt(segs, dir, i), e),
           \A d \in Chunks : Only(v, Mine(of, d)) = Only(BinAt(segs, dir, i), Mine(of, d)),
           NEW new, new = Put(segs, dir, i, v)
    PROVE  Table(new, dir, cur, of, at, limit, n, held)
<1>t. PICK top : top = SegLength * cur
  OBVIOUS
<1>x. PICK bins : bins = Contents(segs, dir, cur)
  OBVIOUS
<1>1. /\ View(segs, dir, cur, top, bins) /\ Limits(at, limit)
      /\ top \in Nat /\ n \in Nat /\ limit \in Nat /\ at \in Nat
      /\ n = limit + at /\ n <= top /\ of \in Chunked
      /\ bins \in Bins(top) /\ Filed(bins, of, at, limit, n)
      /\ held = Stacked(bins, of, at, limit)
  BY <1>t, <1>x, TableType
<1>3. i \in 0 .. top - 1
  BY <1>1
<1>4. bins[i] = BinAt(segs, dir, i)
  BY <1>t, <1>x, <1>3, TableType
<1>y. PICK bins2 : bins2 = Contents(new, dir, cur)
  OBVIOUS
<1>6. View(new, dir, cur, top, bins2) /\ Written(bins2, bins, top, i, v)
  BY <1>1, <1>3, <1>y, PutBins
<1>7. /\ bins2 \in Bins(top) /\ Once(bins2[i]) /\ \A e : In(bins2[i], e) <=> In(bins[i], e)
      /\ \A k \in 0 .. top - 1 : k # i => bins2[k] = bins[k]
  BY <1>4, <1>6 DEF Written
<1>8. Filed(bins2, of, at, limit, n)
  BY <1>1, <1>7, ReorderFiled
<1>9. Stacked(bins2, of, at, limit) = held
  <2>1. \A d \in Chunks : Only(bins2[i], Mine(of, d)) = Only(bins[i], Mine(of, d))
    BY <1>4, <1>6 DEF Written
  <2> QED BY <2>1, <1>1, <1>7, ReorderStacked
<1> QED BY <1>1, <1>6, <1>8, <1>9, <1>t, <1>y DEF Table, View

\* metadata_delete and metadata_delete_all
LEMMA ReleaseTable ==
    ASSUME NEW segs, NEW dir, NEW cur, NEW of, NEW at, NEW limit, NEW n, NEW held,
           Table(segs, dir, cur, of, at, limit, n, held),
           NEW i \in 0 .. n - 1, NEW gone, \A b \in gone : In(BinAt(segs, dir, i), b),
           NEW new, new = Put(segs, dir, i, Only(BinAt(segs, dir, i), Buckets \ gone)),
           NEW of2, of2 = Freed(of, gone)
    PROVE  /\ Table(new, dir, cur, of2, at, limit, n, Without(held, gone))
           /\ gone \subseteq Buckets
<1>t. PICK top : top = SegLength * cur
  OBVIOUS
<1>x. PICK bins : bins = Contents(segs, dir, cur)
  OBVIOUS
<1>1. /\ View(segs, dir, cur, top, bins) /\ Limits(at, limit)
      /\ top \in Nat /\ n \in Nat /\ limit \in Nat /\ at \in Nat
      /\ n = limit + at /\ n <= top /\ of \in Chunked
      /\ bins \in Bins(top) /\ Filed(bins, of, at, limit, n)
      /\ held = Stacked(bins, of, at, limit)
  BY <1>t, <1>x, TableType
<1>3. i \in 0 .. top - 1
  BY <1>1
<1>4. bins[i] = BinAt(segs, dir, i) /\ bins[i] \in Seq(Buckets)
  BY <1>t, <1>x, <1>3, TableType
<1>v. PICK v : v = Only(bins[i], Buckets \ gone)
  OBVIOUS
<1>5. v \in Seq(Buckets)
  BY <1>4, <1>v, OnlyIn
<1>w. new = Put(segs, dir, i, v) /\ \A b \in gone : In(bins[i], b)
  BY <1>4, <1>v
<1>y. PICK bins2 : bins2 = Contents(new, dir, cur)
  OBVIOUS
<1>6. View(new, dir, cur, top, bins2) /\ Written(bins2, bins, top, i, v)
  BY <1>1, <1>3, <1>5, <1>w, <1>y, PutBins
<1>8. /\ bins2 \in Bins(top) /\ bins2[i] = Only(bins[i], Buckets \ gone)
      /\ \A b \in gone : In(bins[i], b)
      /\ \A k \in 0 .. top - 1 : k # i => bins2[k] = bins[k]
  BY <1>6, <1>v, <1>w DEF Written
<1>7. of2 \in Chunked /\ gone \subseteq Buckets /\ Filed(bins2, of2, at, limit, n)
  BY <1>1, <1>8, ReleaseFiled, SMTT(60)
<1>9. Stacked(bins2, of2, at, limit) = Without(held, gone)
  BY <1>1, <1>8, ReleaseStacked, SMTT(60)
<1> QED BY <1>1, <1>6, <1>7, <1>9, <1>t, <1>y DEF Table, View

\* The bins that are in use decide whether the buckets are filed.
LEMMA SameFiled ==
    ASSUME NEW top \in Nat, NEW bins \in Bins(top), NEW of \in Chunked,
           NEW at, NEW limit, NEW n, NEW held, n = limit + at, n <= top,
           Limits(at, limit), Filed(bins, of, at, limit, n),
           NEW top2 \in Nat, NEW bins2 \in Bins(top2), n <= top2,
           \A k \in 0 .. n - 1 : bins2[k] = bins[k],
           \A k \in n .. top2 - 1 : bins2[k] = Nothing
    PROVE  Filed(bins2, of, at, limit, n)
<1>0. at \in Nat /\ limit \in Nat /\ n \in Nat
  BY DEF Limits
<1>1. \A e \in Buckets : of[e] # NULL => Bindex(of[e], at, limit) \in 0 .. n - 1
  <2> SUFFICES ASSUME NEW e \in Buckets, of[e] # NULL
               PROVE  Bindex(of[e], at, limit) \in 0 .. n - 1
    OBVIOUS
  <2>1. of[e] \in Chunks
    BY DEF Chunked
  <2> QED BY <2>1, <1>0, BindexRange
<1>2. \A e \in Buckets : of[e] # NULL => In(bins[Bindex(of[e], at, limit)], e)
  BY DEF Filed
<1>3. \A e \in Buckets : of[e] # NULL => In(bins2[Bindex(of[e], at, limit)], e)
  BY <1>1, <1>2
<1>4. \A k \in 0 .. n - 1 : Once(bins2[k])
  BY DEF Filed
<1>5. \A k \in 0 .. top - 1 : \A e : In(bins[k], e) =>
          e \in Buckets /\ of[e] # NULL /\ Bindex(of[e], at, limit) = k /\ k < n
  BY <1>0, FiledIn
<1>6. ASSUME NEW k \in 0 .. n - 1, NEW e \in Buckets, In(bins2[k], e)
      PROVE  of[e] # NULL /\ Bindex(of[e], at, limit) = k
  <2>1. k \in 0 .. top - 1
    BY <1>0
  <2> QED BY <2>1, <1>5, <1>6
<1>7. \A k \in n .. top2 - 1 : bins2[k] = <<>>
  BY DEF Nothing
<1> QED BY <1>0, <1>3, <1>4, <1>6, <1>7, FiledFrom

\* split_bin: the bin at is split into itself and the first bin that is not in use.
LEMMA SplitTable ==
    ASSUME NEW segs, NEW dir, NEW cur, NEW of, NEW at, NEW limit, NEW n, NEW held,
           Table(segs, dir, cur, of, at, limit, n, held), n < SegLength * cur,
           NEW at2, NEW limit2, at2 = NextAt(at, limit), limit2 = NextLimit(at, limit),
           Limits(at2, limit2),
           NEW kept, NEW moved,
           kept = Only(BinAt(segs, dir, at), {b \in Buckets : Bindex(of[b], at2, limit2) # n}),
           moved = Only(BinAt(segs, dir, at), {b \in Buckets : Bindex(of[b], at2, limit2) = n}),
           NEW half, half = Put(segs, dir, at, kept),
           NEW new, new = IF moved = Nothing THEN half ELSE Put(half, dir, n, moved)
    PROVE  Table(new, dir, cur, of, at2, limit2, n + 1, held)
<1>t. PICK top : top = SegLength * cur
  OBVIOUS
<1>x. PICK bins : bins = Contents(segs, dir, cur)
  OBVIOUS
<1>1. /\ View(segs, dir, cur, top, bins) /\ Limits(at, limit)
      /\ top \in Nat /\ n \in Nat /\ limit \in Nat /\ at \in Nat /\ at < limit
      /\ n = limit + at /\ n <= top /\ of \in Chunked
      /\ bins \in Bins(top) /\ Filed(bins, of, at, limit, n)
      /\ held = Stacked(bins, of, at, limit)
  BY <1>t, <1>x, TableType
<1>2. at \in 0 .. top - 1 /\ n \in 0 .. top - 1 /\ at # n /\ n < top
  BY <1>1, <1>t
<1>3. bins[at] = BinAt(segs, dir, at) /\ bins[at] \in Seq(Buckets)
  BY <1>t, <1>x, <1>2, TableType
<1>4. kept \in Seq(Buckets) /\ moved \in Seq(Buckets)
  BY <1>3, OnlyIn
<1>h. PICK binsh : binsh = Contents(half, dir, cur)
  OBVIOUS
<1>5. View(half, dir, cur, top, binsh) /\ Written(binsh, bins, top, at, kept)
  BY <1>1, <1>2, <1>4, <1>h, PutBins
<1>y. PICK bins2 : bins2 = Contents(new, dir, cur)
  OBVIOUS
<1>6. View(new, dir, cur, top, bins2) /\ Written(bins2, binsh, top, n, moved)
  <2>1. CASE moved = Nothing
    <3>1. new = half /\ bins2 = binsh
      BY <2>1, <1>h, <1>y
    <3>2. bins[n] = Nothing
      <4>1. n \in DOMAIN bins /\ n >= n
        BY <1>1, <1>2 DEF Bins
      <4> QED BY <4>1, <1>1 DEF Filed, Nothing
    <3> QED BY <3>1, <3>2, <2>1, <1>2, <1>5 DEF Written
  <2>2. CASE moved # Nothing
    <3>1. new = Put(half, dir, n, moved)
      BY <2>2
    <3> QED BY <3>1, <1>2, <1>4, <1>5, <1>y, PutBins
  <2> QED BY <2>1, <2>2
<1>7. /\ bins2 \in Bins(top)
      /\ bins2[at] = Only(bins[at], {b \in Buckets : Bindex(of[b], at2, limit2) # n})
      /\ bins2[n] = Only(bins[at], {b \in Buckets : Bindex(of[b], at2, limit2) = n})
      /\ \A k \in 0 .. top - 1 : k # at /\ k # n => bins2[k] = bins[k]
  BY <1>2, <1>3, <1>5, <1>6 DEF Written
<1>8. Filed(bins2, of, at2, limit2, n + 1)
  BY <1>1, <1>2, <1>7, SplitFiled
<1>11. Stacked(bins2, of, at2, limit2) = held
  BY <1>1, <1>2, <1>7, SplitStacked
<1>9. n + 1 = limit2 + at2
  BY <1>1 DEF NextAt, NextLimit
<1>10. n + 1 <= SegLength * cur
  BY <1>1, <1>2, <1>t
<1> QED BY <1>1, <1>6, <1>8, <1>9, <1>10, <1>11, <1>y DEF Table, View

\* move_buckets: the last bin in use goes back to the one it was split from.
LEMMA MergeTable ==
    ASSUME NEW segs, NEW dir, NEW cur, NEW of, NEW at, NEW limit, NEW n, NEW m, m = n + 1,
           NEW held,
           NEW at2, NEW limit2, at2 = NextAt(at, limit), limit2 = NextLimit(at, limit),
           Table(segs, dir, cur, of, at2, limit2, m, held),
           Limits(at, limit), n = limit + at,
           NEW both, both = Joined(BinAt(segs, dir, at), BinAt(segs, dir, n)),
           NEW half, half = Put(segs, dir, at, both),
           NEW new, new = Put(half, dir, n, Nothing)
    PROVE  Table(new, dir, cur, of, at, limit, n, held) /\ n < SegLength * cur
<1>t. PICK top : top = SegLength * cur
  OBVIOUS
<1>x. PICK bins : bins = Contents(segs, dir, cur)
  OBVIOUS
<1>0. n \in Nat /\ limit \in Nat /\ at \in Nat /\ at < limit
  BY DEF Limits
<1>1. /\ View(segs, dir, cur, top, bins) /\ Limits(at2, limit2)
      /\ top \in Nat /\ m <= top /\ of \in Chunked
      /\ bins \in Bins(top) /\ Filed(bins, of, at2, limit2, m)
      /\ held = Stacked(bins, of, at2, limit2)
  BY <1>t, <1>x, TableType
<1>2. at \in 0 .. top - 1 /\ n \in 0 .. top - 1 /\ at # n /\ n < top
  BY <1>0, <1>1, <1>t
<1>3. /\ bins[at] = BinAt(segs, dir, at) /\ bins[at] \in Seq(Buckets)
      /\ bins[n] = BinAt(segs, dir, n) /\ bins[n] \in Seq(Buckets)
  BY <1>t, <1>x, <1>2, TableType
<1>4. both \in Seq(Buckets) /\ Nothing \in Seq(Buckets)
  <2>1. both \in Seq(Buckets)
    BY <1>3, JoinedIn
  <2>2. Nothing \in Seq(Buckets)
    BY DEF Nothing
  <2> QED BY <2>1, <2>2
<1>h. PICK binsh : binsh = Contents(half, dir, cur)
  OBVIOUS
<1>5. View(half, dir, cur, top, binsh) /\ Written(binsh, bins, top, at, both)
  BY <1>1, <1>2, <1>4, <1>h, PutBins
<1>y. PICK bins2 : bins2 = Contents(new, dir, cur)
  OBVIOUS
<1>6. View(new, dir, cur, top, bins2) /\ Written(bins2, binsh, top, n, Nothing)
  BY <1>2, <1>4, <1>5, <1>y, PutBins
<1>7. /\ bins2 \in Bins(top)
      /\ bins2[at] = Joined(bins[at], bins[n]) /\ bins2[n] = Nothing
      /\ \A k \in 0 .. top - 1 : k # at /\ k # n => bins2[k] = bins[k]
  BY <1>2, <1>3, <1>5, <1>6 DEF Written
<1>8. Filed(bins2, of, at, limit, n)
  BY <1>0, <1>1, <1>2, <1>7, MergeFiled
<1>9. Stacked(bins2, of, at, limit) = held
  BY <1>0, <1>1, <1>2, <1>7, MergeStacked
<1> QED BY <1>0, <1>1, <1>2, <1>6, <1>8, <1>9, <1>t, <1>y DEF Table, View

\* A directory of another length
LEMMA ResizedTable ==
    ASSUME NEW segs, NEW dir, NEW cur, NEW of, NEW at, NEW limit, NEW n, NEW held,
           Table(segs, dir, cur, of, at, limit, n, held), NEW d \in Nat, cur <= d,
           NEW new, new = Resized(dir, d)
    PROVE  Table(segs, new, cur, of, at, limit, n, held)
<1>t. PICK top : top = SegLength * cur
  OBVIOUS
<1>x. PICK bins : bins = Contents(segs, dir, cur)
  OBVIOUS
<1>1. /\ View(segs, dir, cur, top, bins) /\ Limits(at, limit)
      /\ top \in Nat /\ n \in Nat /\ n = limit + at /\ n <= top /\ of \in Chunked
      /\ bins \in Bins(top) /\ Filed(bins, of, at, limit, n)
      /\ held = Stacked(bins, of, at, limit)
  BY <1>t, <1>x, TableType
<1>y. PICK bins2 : bins2 = Contents(segs, new, cur)
  OBVIOUS
<1>2. Linked(segs, new, cur) /\ Spare(segs, new) /\ Agree(bins, bins2, cur)
  BY <1>1, <1>x, <1>y, ResizedDirectory DEF View
<1>3. bins2 \in Bins(top)
  BY <1>2, <1>t, <1>y, ContentsType
<1>4. \A k \in 0 .. top - 1 : bins2[k] = bins[k]
  BY <1>2, <1>t DEF Agree
<1>5. bins2 = bins
  BY <1>1, <1>3, <1>4 DEF Bins
<1> QED BY <1>1, <1>2, <1>5, <1>t, <1>y DEF Table

\* One more segment in the directory, none of its bins in use
LEMMA EnteredTable ==
    ASSUME NEW segs, NEW dir, NEW cur, NEW of, NEW at, NEW limit, NEW n, NEW held,
           Table(segs, dir, cur, of, at, limit, n, held),
           NEW s, Available(segs, dir, cur, s),
           NEW new, new = [dir EXCEPT ![cur] = s], NEW up, up = cur + 1
    PROVE  Table(segs, new, up, of, at, limit, n, held)
<1>t. PICK top : top = SegLength * cur
  OBVIOUS
<1>x. PICK bins : bins = Contents(segs, dir, cur)
  OBVIOUS
<1>1. /\ View(segs, dir, cur, top, bins) /\ Limits(at, limit) /\ cur \in Nat
      /\ top \in Nat /\ n \in Nat /\ n = limit + at /\ n <= top /\ of \in Chunked
      /\ bins \in Bins(top) /\ Filed(bins, of, at, limit, n)
      /\ held = Stacked(bins, of, at, limit)
  BY <1>t, <1>x, TableType
<1>y. PICK bins2 : bins2 = Contents(segs, new, up)
  OBVIOUS
<1>u. PICK top2 : top2 = SegLength * up
  OBVIOUS
<1>2. /\ Linked(segs, new, up) /\ Spare(segs, new)
      /\ \A k \in 0 .. top - 1 : bins2[k] = bins[k]
      /\ \A k \in top .. top2 - 1 : bins2[k] = <<>>
  <2>1. Linked(segs, dir, cur) /\ Spare(segs, dir)
    BY <1>1 DEF View
  <2>2. /\ Linked(segs, new, cur + 1) /\ Spare(segs, new)
        /\ Agree(Contents(segs, dir, cur), Contents(segs, new, cur + 1), cur)
        /\ Unused(Contents(segs, new, cur + 1), cur)
    BY <2>1, EnteredSegment
  <2> QED BY <2>2, <1>t, <1>u, <1>x, <1>y DEF Agree, Unused
<1>3. bins2 \in Bins(top2) /\ top2 \in Nat
  BY <1>2, <1>u, <1>y, ContentsType
<1>4. top <= top2
  <2>1. SegLength * up = SegLength * cur + SegLength /\ SegLength \in Nat
    BY <1>1, Constants, ProductOrder
  <2> QED BY <2>1, <1>1, <1>t, <1>u
<1>5. \A k \in 0 .. n - 1 : bins2[k] = bins[k]
  BY <1>1, <1>2
<1>6. \A k \in n .. top2 - 1 : bins2[k] = Nothing
  <2> SUFFICES ASSUME NEW k \in n .. top2 - 1 PROVE bins2[k] = Nothing
    OBVIOUS
  <2>1. CASE k \in top .. top2 - 1
    BY <2>1, <1>2 DEF Nothing
  <2>2. CASE k \in 0 .. top - 1
    <3>1. k \in DOMAIN bins /\ k >= n /\ bins2[k] = bins[k]
      BY <2>2, <1>1, <1>2 DEF Bins
    <3> QED BY <3>1, <1>1 DEF Filed, Nothing
  <2> QED BY <2>1, <2>2, <1>1, <1>3
<1>7. n <= top2
  BY <1>1, <1>3, <1>4
<1>8. Filed(bins2, of, at, limit, n)
  BY <1>1, <1>3, <1>5, <1>6, <1>7, SameFiled
<1>9. Stacked(bins2, of, at, limit) = held
  BY <1>1, <1>5, SameStacked
<1> QED BY <1>1, <1>2, <1>7, <1>8, <1>9, <1>u, <1>y DEF Table

LEMMA EqualBins ==
    ASSUME NEW top, NEW bins \in Bins(top), NEW bins2 \in Bins(top),
           \A k \in 0 .. top - 1 : bins2[k] = bins[k]
    PROVE  bins2 = bins
<1>d. PICK D : D = 0 .. top - 1
  OBVIOUS
<1>s. PICK S : S = Seq(Buckets)
  OBVIOUS
<1>1. bins \in [D -> S] /\ bins2 \in [D -> S] /\ \A k \in D : bins2[k] = bins[k]
  BY <1>d, <1>s DEF Bins
<1> QED BY <1>1

\* One more segment in the pool
LEMMA AppendedTable ==
    ASSUME NEW segs, NEW dir, NEW cur, NEW of, NEW at, NEW limit, NEW n, NEW held,
           Table(segs, dir, cur, of, at, limit, n, held), cur \in DOMAIN dir,
           NEW new, new = Extended(segs), NEW s, s = Len(segs) + 1
    PROVE  Table(new, dir, cur, of, at, limit, n, held) /\ Available(new, dir, cur, s)
<1>1. /\ Linked(segs, dir, cur) /\ Spare(segs, dir) /\ of \in Chunked /\ Limits(at, limit)
      /\ n = limit + at /\ n <= SegLength * cur
      /\ Filed(Contents(segs, dir, cur), of, at, limit, n)
      /\ held = Stacked(Contents(segs, dir, cur), of, at, limit)
  BY DEF Table
<1>2. /\ Linked(new, dir, cur) /\ Spare(new, dir)
      /\ s \in DOMAIN new /\ new[s] = Empty /\ \A q \in DOMAIN dir : dir[q] # s
      /\ \A q \in 0 .. cur - 1 : new[dir[q]] = segs[dir[q]]
  BY <1>1, AppendedSegment
<1>3. cur \in Nat /\ cur <= cur
  BY <1>1, LinkedSegments
<1>4. Agree(Contents(segs, dir, cur), Contents(new, dir, cur), cur)
  <2>1. SameUpTo(segs, dir, new, dir, cur)
    BY <1>2 DEF SameUpTo
  <2> QED BY <1>1, <1>2, <1>3, <2>1, SameSegments
<1>t. PICK top : top = SegLength * cur
  OBVIOUS
<1>x. PICK bins : bins = Contents(segs, dir, cur)
  OBVIOUS
<1>y. PICK bins2 : bins2 = Contents(new, dir, cur)
  OBVIOUS
<1>5. bins \in Bins(top) /\ bins2 \in Bins(top)
  BY <1>1, <1>2, <1>t, <1>x, <1>y, ContentsType
<1>6. \A k \in 0 .. top - 1 : bins2[k] = bins[k]
  BY <1>4, <1>t, <1>x, <1>y DEF Agree
<1>7. bins2 = bins
  BY <1>5, <1>6, EqualBins
<1>8. Table(new, dir, cur, of, at, limit, n, held)
  <2>1. /\ Filed(Contents(new, dir, cur), of, at, limit, n)
        /\ held = Stacked(Contents(new, dir, cur), of, at, limit)
    BY <1>1, <1>7, <1>x, <1>y
  <2>2. Linked(new, dir, cur) /\ Spare(new, dir)
    BY <1>2
  <2> QED BY <1>1, <2>1, <2>2 DEF Table
<1>9. Available(new, dir, cur, s)
  BY <1>2 DEF Available
<1> QED BY <1>8, <1>9

\* The last segment leaves the directory when none of its bins is in use.
LEMMA LeftTable ==
    ASSUME NEW segs, NEW dir, NEW cur, NEW of, NEW at, NEW limit, NEW n, NEW held,
           Table(segs, dir, cur, of, at, limit, n, held),
           NEW last \in Nat, cur = last + 1, n = SegLength * last,
           NEW new, new = [dir EXCEPT ![last] = NULL]
    PROVE  Table(segs, new, last, of, at, limit, n, held)
<1>t. PICK top : top = SegLength * cur
  OBVIOUS
<1>x. PICK bins : bins = Contents(segs, dir, cur)
  OBVIOUS
<1>1. /\ View(segs, dir, cur, top, bins) /\ Limits(at, limit) /\ cur \in Nat
      /\ top \in Nat /\ n \in Nat /\ n = limit + at /\ n <= top /\ of \in Chunked
      /\ bins \in Bins(top) /\ Filed(bins, of, at, limit, n)
      /\ held = Stacked(bins, of, at, limit)
  BY <1>t, <1>x, TableType
<1>y. PICK bins2 : bins2 = Contents(segs, new, last)
  OBVIOUS
<1>4. \A k \in n .. top - 1 : bins[k] = <<>>
  <2>1. \A k \in n .. top - 1 : k \in DOMAIN bins /\ k >= n
    BY <1>1 DEF Bins
  <2> QED BY <2>1, <1>1 DEF Filed
<1>2. Linked(segs, new, last) /\ Spare(segs, new) /\ Agree(bins, bins2, last)
  <2>1. Linked(segs, dir, cur) /\ Spare(segs, dir)
    BY <1>1 DEF View
  <2>2. \A k \in SegLength * last .. SegLength * cur - 1 : Contents(segs, dir, cur)[k] = <<>>
    BY <1>4, <1>t, <1>x
  <2>3. /\ Linked(segs, new, last) /\ Spare(segs, new)
        /\ Agree(Contents(segs, dir, cur), Contents(segs, new, last), last)
    BY <2>1, <2>2, LeftSegment
  <2> QED BY <2>3, <1>x, <1>y
<1>3. bins2 \in Bins(n)
  BY <1>2, <1>y, ContentsType
<1>5. \A k \in 0 .. n - 1 : bins2[k] = bins[k]
  BY <1>2 DEF Agree
<1>6. (\A k \in n .. n - 1 : bins2[k] = Nothing) /\ n <= n
  BY <1>1
<1>8. Filed(bins2, of, at, limit, n)
  BY <1>1, <1>3, <1>5, <1>6, SameFiled
<1>9. Stacked(bins2, of, at, limit) = held
  BY <1>1, <1>5, SameStacked
<1> QED BY <1>1, <1>2, <1>6, <1>8, <1>9, <1>y DEF Table

(***************************************************************************)
(* The invariant                                                           *)
(***************************************************************************)
InUse(of) == {b \in Buckets : of[b] # NULL}

\* the stacks of the abstract map
Stacks == [c \in Chunks |-> Stack(c)]

Inv(held) ==
    /\ Table(segments, directory, directory_current, chunk, p, maxp, bincount, held)
    /\ Snug(directory_current, bincount)
    /\ L \in Nat /\ maxp = SegLength * PowerOfTwo[L]
    /\ count = Cardinality(InUse(chunk))
    /\ answer \in {NULL} \cup Buckets
    /\ status \in {"ok", "failed", "crash"}

TableInv == Inv(Stacks)

\* The stacks as the bins in the segments hold them
Shown(segs, dir, of, at, limit) ==
    [c \in Chunks |-> Only(BinAt(segs, dir, Bindex(c, at, limit)), Mine(of, c))]

LEMMA StackedIsShown ==
    ASSUME NEW segs, NEW dir, NEW cur, NEW of, NEW at, NEW limit, Limits(at, limit),
           SegLength * cur \in Nat, limit + at <= SegLength * cur
    PROVE  Stacked(Contents(segs, dir, cur), of, at, limit) = Shown(segs, dir, of, at, limit)
<1>x. PICK bins : bins = Contents(segs, dir, cur)
  OBVIOUS
<1>t. PICK top : top = SegLength * cur
  OBVIOUS
<1> SUFFICES ASSUME NEW d \in Chunks
             PROVE  bins[Bindex(d, at, limit)] = BinAt(segs, dir, Bindex(d, at, limit))
  BY <1>x DEF Stacked, Shown
<1>i. PICK i : i = Bindex(d, at, limit)
  OBVIOUS
<1>1. i \in 0 .. limit + at - 1 /\ limit \in Nat /\ at \in Nat
  BY <1>i, BindexRange DEF Limits
<1>2. i \in 0 .. top - 1
  BY <1>1, <1>t
<1>3. bins[i] = BinAt(segs, dir, i)
  BY <1>2, <1>t, <1>x DEF Contents, BinAt
<1> QED BY <1>3, <1>i

LEMMA HeldIsShown ==
    ASSUME NEW segs, NEW dir, NEW cur, NEW of, NEW at, NEW limit, NEW n, NEW held,
           Table(segs, dir, cur, of, at, limit, n, held)
    PROVE  held = Shown(segs, dir, of, at, limit)
<1>1. /\ held = Stacked(Contents(segs, dir, cur), of, at, limit) /\ Limits(at, limit)
      /\ SegLength * cur \in Nat /\ limit + at <= SegLength * cur
  BY TableType
<1> QED BY <1>1, StackedIsShown

LEMMA StacksHeld == ASSUME NEW held, Inv(held) PROVE held = Stacks /\ TableInv
<1>1. held = Shown(segments, directory, chunk, p, maxp)
  BY HeldIsShown DEF Inv
<1>2. Stacks = Shown(segments, directory, chunk, p, maxp)
  BY DEF Stacks, Stack, Shown, Bin, BinAt, Mine
<1> QED BY <1>1, <1>2 DEF TableInv

LEMMA StacksHeldNext == ASSUME NEW held, Inv(held)' PROVE Stacks' = held /\ TableInv'
<1>1. held = Shown(segments', directory', chunk', p', maxp')
  BY HeldIsShown DEF Inv
<1>2. Stacks' = Shown(segments', directory', chunk', p', maxp')
  BY DEF Stacks, Stack, Shown, Bin, BinAt, Mine
<1> QED BY <1>1, <1>2 DEF TableInv

LEMMA FiniteBuckets ==
    /\ IsFiniteSet(Buckets)
    /\ \A of : IsFiniteSet(InUse(of)) /\ Cardinality(InUse(of)) \in Nat
<1>1. IsFiniteSet(Buckets)
  BY Constants, FS_Interval DEF Buckets
<1>2. ASSUME NEW of PROVE IsFiniteSet(InUse(of)) /\ Cardinality(InUse(of)) \in Nat
  <2>1. InUse(of) \subseteq Buckets
    BY DEF InUse
  <2>2. IsFiniteSet(InUse(of))
    BY <1>1, <2>1, FS_Subset
  <2> QED BY <2>2, FS_CardinalityType
<1> QED BY <1>1, <1>2

LEMMA InitTable == Init => TableInv
<1> SUFFICES ASSUME Init PROVE TableInv
  OBVIOUS
<1>c. /\ SegLength \in Nat \ {0} /\ InitialDirectoryLength \in Nat \ {0}
      /\ BincountMax \in Nat /\ SegLength < BincountMax
  BY Constants
<1>e. PICK e : e = Empty
  OBVIOUS
<1>1. e \in Segment /\ segments = <<e>>
  BY <1>e DEF Init, Empty, Segment
<1>d. PICK d : d = InitialDirectoryLength
  OBVIOUS
<1>2. /\ d \in Nat /\ 1 <= d /\ directory_current = 1
      /\ directory = [i \in 0 .. d - 1 |-> IF i = 0 THEN 1 ELSE NULL]
  BY <1>c, <1>d DEF Init
<1>s. segments \in Seq(Segment) /\ DOMAIN segments = {1} /\ segments[1] = e
  BY <1>1
<1>3. Linked(segments, directory, directory_current)
  <2>1. directory \in [0 .. d - 1 -> {NULL} \cup DOMAIN segments]
    BY <1>2, <1>s
  <2>2. \A i \in DOMAIN directory : directory[i] # NULL <=> i < 1
    BY <1>2 DEF NULL
  <2>3. \A i, j \in 0 .. 1 - 1 : directory[i] = directory[j] => i = j
    OBVIOUS
  <2> QED BY <1>2, <1>s, <2>1, <2>2, <2>3 DEF Linked
<1>4. Spare(segments, directory)
  <2>1. 0 \in DOMAIN directory /\ directory[0] = 1
    BY <1>2
  <2> QED BY <2>1, <1>s DEF Spare
<1>5. chunk \in Chunked /\ InUse(chunk) = {} /\ \A b \in Buckets : chunk[b] = NULL
  BY DEF Init, Chunked, InUse
<1>n. PICK n : n = SegLength
  OBVIOUS
<1>6. p = 0 /\ maxp = n /\ bincount = n /\ n \in Nat /\ Limits(p, maxp)
  BY <1>c, <1>n DEF Init, N, Limits
<1>7. SegLength * directory_current = n
  BY <1>2, <1>c, <1>n
<1>x. PICK bins : bins = Contents(segments, directory, directory_current)
  OBVIOUS
<1>8. bins \in Bins(n)
  BY <1>3, <1>7, <1>x, ContentsType
<1>9. \A k \in 0 .. n - 1 : bins[k] = Nothing
  <2> SUFFICES ASSUME NEW k \in 0 .. n - 1 PROVE bins[k] = Nothing
    OBVIOUS
  <2>1. directory_current \in Nat /\ k \in 0 .. SegLength * directory_current - 1
    BY <1>2, <1>7
  <2>2. k \div SegLength \in 0 .. directory_current - 1 /\ k % SegLength \in 0 .. SegLength - 1
    BY <1>c, <2>1, QuotientBelow
  <2>3. bins[k] = segments[directory[k \div SegLength]][k % SegLength]
    BY <1>7, <1>x DEF Contents
  <2>4. k \div SegLength = 0 /\ directory[0] = 1
    BY <1>2, <2>2
  <2>r. PICK r \in 0 .. SegLength - 1 : r = k % SegLength
    BY <2>2
  <2>5. e[r] = <<>>
    BY <1>e DEF Empty
  <2> QED BY <2>3, <2>4, <2>r, <2>5, <1>s DEF Nothing
<1>10. Filed(bins, chunk, p, maxp, n)
  <2>1. \A k \in 0 .. n - 1 : Once(bins[k]) /\ \A b : ~In(bins[k], b)
    BY <1>9 DEF Once, In, Nothing
  <2>2. \A b \in Buckets : chunk[b] # NULL => In(bins[Bindex(chunk[b], p, maxp)], b)
    BY <1>5
  <2>3. \A k \in n .. n - 1 : bins[k] = <<>>
    BY <1>6
  <2>4. n <= n /\ n \in Nat
    BY <1>6
  <2>5. \A k \in 0 .. n - 1, b \in Buckets :
            In(bins[k], b) => chunk[b] # NULL /\ Bindex(chunk[b], p, maxp) = k
    BY <2>1
  <2>6. \A k \in 0 .. n - 1 : Once(bins[k])
    BY <2>1
  <2> QED BY <1>5, <1>8, <2>2, <2>3, <2>4, <2>5, <2>6, FiledFrom
<1>h. PICK held : held = Stacked(bins, chunk, p, maxp)
  OBVIOUS
<1>11. Table(segments, directory, directory_current, chunk, p, maxp, bincount, held)
  BY <1>3, <1>4, <1>5, <1>6, <1>7, <1>10, <1>h, <1>x DEF Table
<1>12. Snug(directory_current, bincount)
  BY <1>6, <1>7, <1>c, <1>n DEF Snug
<1>13. L \in Nat /\ maxp = SegLength * PowerOfTwo[L]
  <2>1. L = 0
    BY DEF Init
  <2>2. PowerOfTwo[L] = 1
    BY <2>1, Powers
  <2> QED BY <2>1, <2>2, <1>6, <1>n, <1>c
<1>14. count = Cardinality(InUse(chunk))
  BY <1>5, FS_EmptySet DEF Init
<1>15. Inv(held)
  BY <1>11, <1>12, <1>13, <1>14 DEF Inv, Init
<1> QED BY <1>15, StacksHeld

\* What the last bin says about the last segment
LEMMA LastSegment ==
    ASSUME NEW cur \in Nat, NEW n \in Nat, n <= SegLength * cur, Snug(cur, n)
    PROVE  /\ SegLength * cur \in Nat
           /\ n = SegLength * cur => n \div SegLength = cur /\ n % SegLength = 0
           /\ n # SegLength * cur => n \div SegLength = cur - 1 /\ cur - 1 \in Nat
<1>1. SegLength \in Nat \ {0}
  BY Constants
<1>t. PICK top : top = SegLength * cur
  OBVIOUS
<1>2. top \in Nat
  BY <1>1, <1>t, Product
<1>3. ASSUME n = top PROVE n \div SegLength = cur /\ n % SegLength = 0
  <2>1. n = SegLength * cur + 0 /\ 0 \in 0 .. SegLength - 1
    BY <1>1, <1>2, <1>3, <1>t
  <2> QED BY <1>1, <2>1, Factors
<1>4. ASSUME n # top PROVE n \div SegLength = cur - 1 /\ cur - 1 \in Nat
  <2>1. SegLength * cur < n + SegLength /\ n < SegLength * cur
    BY <1>2, <1>4, <1>t DEF Snug
  <2> QED BY <1>1, <2>1, Window
<1> QED BY <1>2, <1>3, <1>4, <1>t

\* The directory that metadata_expand_table works on
Roomy == IF directory_length = directory_current THEN Doubled ELSE directory

LEMMA RoomyTable ==
    ASSUME NEW segs, NEW of, NEW at, NEW limit, NEW n, NEW held,
           Table(segs, directory, directory_current, of, at, limit, n, held),
           directory_current > 0
    PROVE  /\ Table(segs, Roomy, directory_current, of, at, limit, n, held)
           /\ directory_current \in DOMAIN Roomy /\ Roomy[directory_current] = NULL
<1>1. Linked(segs, directory, directory_current) /\ directory_current \in Nat
  BY TableType DEF Table
<1>l. PICK l : l = directory_length
  OBVIOUS
<1>2. /\ l \in Nat /\ directory_current <= l /\ DOMAIN directory = 0 .. l - 1
      /\ directory \in [0 .. l - 1 -> {NULL} \cup DOMAIN segs]
  BY <1>1, <1>l, DirectoryLength DEF directory_length
<1>3. CASE l = directory_current
  <2>d. PICK d : d = 2 * l
    OBVIOUS
  <2>1. Roomy = Resized(directory, d)
    <3>1. Roomy = [i \in 0 .. d - 1 |-> IF i < l THEN directory[i] ELSE NULL]
      BY <1>3, <1>l, <2>d DEF Roomy, Doubled
    <3>2. \A i \in 0 .. d - 1 : i < l <=> i \in DOMAIN directory
      BY <1>2
    <3> QED BY <3>1, <3>2 DEF Resized
  <2>2. d \in Nat /\ directory_current <= d
    BY <1>1, <1>2, <2>d
  <2>3. Table(segs, Roomy, directory_current, of, at, limit, n, held)
    BY <2>1, <2>2, ResizedTable
  <2>4. directory_current \in 0 .. d - 1 /\ directory_current \notin DOMAIN directory
    BY <1>1, <1>2, <1>3, <2>d
  <2> QED BY <2>1, <2>3, <2>4 DEF Resized
<1>4. CASE l # directory_current
  <2>1. Roomy = directory
    BY <1>4, <1>l DEF Roomy
  <2>2. directory_current \in DOMAIN directory
    BY <1>1, <1>2, <1>4
  <2>3. directory[directory_current] = NULL
    <3>1. ~(directory_current < directory_current)
      BY <1>1
    <3> QED BY <1>1, <2>2, <3>1 DEF Linked
  <2> QED BY <2>1, <2>2, <2>3
<1> QED BY <1>3, <1>4

\* The split of a table that has the bin to split into
LEMMA SplitStep ==
    ASSUME NEW segs, NEW dir, NEW cur, NEW of, NEW held,
           Table(segs, dir, cur, of, p, maxp, bincount, held),
           bincount < SegLength * cur, SegLength * cur <= bincount + SegLength,
           bincount < BincountMax, L \in Nat, maxp = SegLength * PowerOfTwo[L],
           Split(segs, dir, of, maxp + p)
    PROVE  /\ Table(segments', dir, cur, of, p', maxp', bincount', held)
           /\ Snug(cur, bincount')
           /\ L' \in Nat /\ maxp' = SegLength * PowerOfTwo[L']
<1>c. SegLength \in Nat \ {0} /\ BincountMax \in Nat /\ BincountMax % 2 = 1
  BY Constants, LimitAssumption
<1>a. PICK at : at = p
  OBVIOUS
<1>m. PICK limit : limit = maxp
  OBVIOUS
<1>n. PICK n : n = bincount
  OBVIOUS
<1>1. /\ n \in Nat /\ at \in Nat /\ limit \in Nat /\ at < limit /\ n = limit + at
      /\ Limits(at, limit) /\ cur \in Nat /\ SegLength * cur \in Nat
  BY <1>a, <1>m, <1>n, TableType
<1>at. PICK at2 : at2 = NextAt(at, limit)
  OBVIOUS
<1>lt. PICK limit2 : limit2 = NextLimit(at, limit)
  OBVIOUS
<1>2. Limits(at2, limit2)
  <2>1. CASE at + 1 = limit
    <3>1. at2 = 0 /\ limit2 = 2 * limit
      BY <2>1, <1>at, <1>lt DEF NextAt, NextLimit
    <3>2. 2 * limit <= BincountMax
      BY <1>1, <1>c, <1>n, <2>1
    <3>3. 2 * limit # BincountMax
      BY <1>1, <1>c
    <3> QED BY <3>1, <3>2, <3>3, <1>1, <1>c, <2>1 DEF Limits
  <2>2. CASE at + 1 # limit
    <3>1. at2 = at + 1 /\ limit2 = limit
      BY <2>2, <1>at, <1>lt DEF NextAt, NextLimit
    <3> QED BY <3>1, <2>2, <1>1 DEF Limits
  <2> QED BY <2>1, <2>2
<1>k. PICK kept :
        kept = Only(BinAt(segs, dir, at), {b \in Buckets : Bindex(of[b], at2, limit2) # n})
  OBVIOUS
<1>v. PICK moved :
        moved = Only(BinAt(segs, dir, at), {b \in Buckets : Bindex(of[b], at2, limit2) = n})
  OBVIOUS
<1>h. PICK half : half = Put(segs, dir, at, kept)
  OBVIOUS
<1>w. PICK new : new = IF moved = Nothing THEN half ELSE Put(half, dir, n, moved)
  OBVIOUS
<1>3. maxp + p = n
  BY <1>1, <1>a, <1>m
<1>4. /\ segments' = new
      /\ p' = at2 /\ maxp' = limit2 /\ bincount' = n + 1
      /\ L' = IF at + 1 = limit THEN L + 1 ELSE L
  BY <1>3, <1>a, <1>m, <1>n, <1>at, <1>lt, <1>k, <1>v, <1>h, <1>w
     DEF Split, NextAt, NextLimit, BinAt, Nothing
<1>5. Table(new, dir, cur, of, at2, limit2, n + 1, held)
  <2>1. Table(segs, dir, cur, of, at, limit, n, held) /\ n < SegLength * cur
    BY <1>a, <1>m, <1>n
  <2> QED BY <2>1, <1>2, <1>at, <1>lt, <1>k, <1>v, <1>h, <1>w, SplitTable
<1>6. Snug(cur, n + 1)
  <2>1. SegLength * cur < (n + 1) + SegLength
    BY <1>1, <1>c, <1>n
  <2> QED BY <2>1 DEF Snug
<1>7. L' \in Nat /\ maxp' = SegLength * PowerOfTwo[L']
  <2>1. CASE at + 1 = limit
    <3>1. L' = L + 1 /\ maxp' = 2 * maxp
      BY <2>1, <1>4, <1>lt, <1>m DEF NextLimit
    <3>w. PICK w \in Nat : w = PowerOfTwo[L]
      BY Powers
    <3>2. PowerOfTwo[L'] = 2 * w
      BY <3>1, <3>w, Powers
    <3>3. maxp = SegLength * w
      BY <3>w
    <3>4. 2 * (SegLength * w) = SegLength * (2 * w)
      BY <1>c
    <3> QED BY <3>1, <3>2, <3>3, <3>4
  <2>2. CASE at + 1 # limit
    BY <2>2, <1>4, <1>lt, <1>m DEF NextLimit
  <2> QED BY <2>1, <2>2
<1> QED BY <1>4, <1>5, <1>6, <1>7

\* metadata_expand_table
LEMMA GrowStep ==
    ASSUME NEW segs, NEW of, NEW held, DOMAIN segs = DOMAIN segments,
           Table(segs, directory, directory_current, of, p, maxp, bincount, held),
           Snug(directory_current, bincount),
           bincount < BincountMax, L \in Nat, maxp = SegLength * PowerOfTwo[L],
           Grow(segs, of)
    PROVE  /\ Table(segments', directory', directory_current', of, p', maxp', bincount', held)
           /\ Snug(directory_current', bincount')
           /\ L' \in Nat /\ maxp' = SegLength * PowerOfTwo[L']
           /\ status' \in {"ok", "failed", "crash"}
<1>c. SegLength \in Nat \ {0}
  BY Constants
<1>d. PICK cur : cur = directory_current
  OBVIOUS
<1>n. PICK n : n = bincount
  OBVIOUS
<1>1. /\ cur \in Nat /\ n \in Nat /\ p \in Nat /\ maxp \in Nat /\ p < maxp /\ n = maxp + p
      /\ n <= SegLength * cur /\ SegLength * cur \in Nat
  BY <1>d, <1>n, TableType
<1>2. /\ n = SegLength * cur => n \div SegLength = cur /\ n % SegLength = 0
      /\ n # SegLength * cur => n \div SegLength = cur - 1 /\ cur - 1 \in Nat
      /\ SegLength * cur < n + SegLength
  BY <1>1, <1>d, <1>n, LastSegment DEF Snug
<1>3. cur > 0
  <2>1. cur = 0 => SegLength * cur = 0
    BY <1>c
  <2> QED BY <1>1, <2>1
<1>r. PICK dir : dir = Roomy
  OBVIOUS
<1>4. /\ Table(segs, dir, cur, of, p, maxp, bincount, held)
      /\ cur \in DOMAIN dir /\ dir[cur] = NULL
  BY <1>3, <1>d, <1>r, RoomyTable
<1>i. PICK i : i = n \div SegLength
  OBVIOUS
<1>k. PICK need : need = (n % SegLength = 0 /\ dir[i] = NULL)
  OBVIOUS
<1>5. need <=> n = SegLength * cur
  <2>1. CASE n = SegLength * cur
    BY <2>1, <1>2, <1>4, <1>i, <1>k
  <2>2. CASE n # SegLength * cur
    <3>1. i = cur - 1 /\ i \in 0 .. cur - 1
      BY <2>2, <1>1, <1>2, <1>i
    <3>2. dir[i] # NULL
      <4>1. Linked(segs, dir, cur)
        BY <1>4 DEF Table
      <4>2. i \in DOMAIN dir /\ i < cur
        BY <1>1, <3>1, <4>1, LinkedSegments
      <4> QED BY <4>1, <4>2 DEF Linked
    <3> QED BY <3>2, <2>2, <1>k
  <2> QED BY <2>1, <2>2
<1>6. n = SegLength * cur => i = cur
  BY <1>2, <1>i
<1>f. PICK free : free = FreeSegments(dir)
  OBVIOUS
<1>7. \A s \in free : Available(segs, dir, cur, s)
  <2>1. Spare(segs, dir)
    BY <1>4 DEF Table
  <2> SUFFICES ASSUME NEW s \in free PROVE Available(segs, dir, cur, s)
    OBVIOUS
  <2>2. s \in DOMAIN segs /\ \A q \in DOMAIN dir : dir[q] # s
    BY <1>f DEF FreeSegments
  <2> QED BY <2>1, <2>2, <1>4 DEF Spare, Available
<1>8. \/ segments' = segs /\ status' = "failed" /\ UNCHANGED geometry
      \/ /\ ~need /\ directory' = dir /\ status' = "ok"
         /\ Split(segs, dir, of, maxp + p) /\ UNCHANGED directory_current
      \/ /\ need /\ free # {} /\ directory' = [dir EXCEPT ![i] = Min(free)]
         /\ directory_current' = directory_current + 1 /\ status' = "ok"
         /\ Split(segs, directory', of, maxp + p)
      \/ /\ need /\ free = {} /\ directory' = [dir EXCEPT ![i] = Len(segs) + 1]
         /\ directory_current' = directory_current + 1 /\ status' = "ok"
         /\ Split(Append(segs, Empty), directory', of, maxp + p)
      \/ /\ directory' = dir /\ segments' = segs /\ status' = "failed"
         /\ UNCHANGED <<directory_current, p, maxp, L, bincount>>
  BY <1>1, <1>f, <1>i, <1>k, <1>n, <1>r DEF Grow, Roomy
<1>s. SegLength * (cur + 1) = SegLength * cur + SegLength
  BY <1>1, <1>c, ProductOrder
<1>t. ASSUME NEW segs2, NEW s, Table(segs2, dir, cur, of, p, maxp, bincount, held),
             Available(segs2, dir, cur, s), need,
             directory' = [dir EXCEPT ![i] = s], directory_current' = directory_current + 1,
             Split(segs2, directory', of, maxp + p)
      PROVE  /\ Table(segments', directory', directory_current', of, p', maxp', bincount', held)
             /\ Snug(directory_current', bincount')
             /\ L' \in Nat /\ maxp' = SegLength * PowerOfTwo[L']
  <2>d. PICK dir2 : dir2 = [dir EXCEPT ![cur] = s]
    OBVIOUS
  <2>u. PICK up : up = cur + 1
    OBVIOUS
  <2>1. Table(segs2, dir2, up, of, p, maxp, bincount, held)
    BY <1>t, <2>d, <2>u, EnteredTable
  <2>2. directory' = dir2 /\ directory_current' = up
    BY <1>t, <1>5, <1>6, <1>d, <2>d, <2>u
  <2>3. bincount < SegLength * up /\ SegLength * up <= bincount + SegLength
    BY <1>t, <1>1, <1>5, <1>c, <1>n, <1>s, <2>u
  <2>4. Split(segs2, dir2, of, maxp + p)
    BY <1>t, <2>2
  <2>5. /\ Table(segments', dir2, up, of, p', maxp', bincount', held)
        /\ Snug(up, bincount')
        /\ L' \in Nat /\ maxp' = SegLength * PowerOfTwo[L']
    BY <2>1, <2>3, <2>4, SplitStep
  <2> QED BY <2>2, <2>5
<1>9. CASE segments' = segs /\ status' = "failed" /\ UNCHANGED geometry
  BY <1>9 DEF geometry
<1>10. CASE /\ ~need /\ directory' = dir /\ status' = "ok"
            /\ Split(segs, dir, of, maxp + p) /\ UNCHANGED directory_current
  <2>1. bincount < SegLength * cur /\ SegLength * cur <= bincount + SegLength
    BY <1>10, <1>1, <1>2, <1>5, <1>c, <1>n
  <2>2. /\ Table(segments', dir, cur, of, p', maxp', bincount', held)
        /\ Snug(cur, bincount')
        /\ L' \in Nat /\ maxp' = SegLength * PowerOfTwo[L']
    BY <1>4, <1>10, <2>1, SplitStep
  <2> QED BY <1>10, <1>d, <2>2
<1>11. CASE /\ need /\ free # {} /\ directory' = [dir EXCEPT ![i] = Min(free)]
            /\ directory_current' = directory_current + 1 /\ status' = "ok"
            /\ Split(segs, directory', of, maxp + p)
  <2>1. Min(free) \in free
    <3>1. DOMAIN segs \subseteq Nat
      <4>1. segs \in Seq(Segment)
        BY <1>4, LinkedSegments DEF Table
      <4> QED BY <4>1
    <3>2. free \in SUBSET Nat
      BY <3>1, <1>f DEF FreeSegments
    <3> QED BY <3>2, <1>11, LeastNumber
  <2>s. PICK s : s = Min(free)
    OBVIOUS
  <2>2. Available(segs, dir, cur, s)
    BY <2>1, <2>s, <1>7
  <2>3. directory' = [dir EXCEPT ![i] = s]
    BY <1>11, <2>s
  <2> QED BY <1>4, <1>11, <2>2, <2>3, <1>t
<1>12. CASE /\ need /\ free = {} /\ directory' = [dir EXCEPT ![i] = Len(segs) + 1]
            /\ directory_current' = directory_current + 1 /\ status' = "ok"
            /\ Split(Append(segs, Empty), directory', of, maxp + p)
  <2>g. PICK segs2 : segs2 = Append(segs, Empty)
    OBVIOUS
  <2>s. PICK s : s = Len(segs) + 1
    OBVIOUS
  <2>1. Table(segs2, dir, cur, of, p, maxp, bincount, held) /\ Available(segs2, dir, cur, s)
    BY <1>4, <2>g, <2>s, AppendedTable DEF Extended
  <2>2. directory' = [dir EXCEPT ![i] = s] /\ Split(segs2, directory', of, maxp + p)
    BY <1>12, <2>g, <2>s
  <2> QED BY <1>12, <2>1, <2>2, <1>t
<1>13. CASE /\ directory' = dir /\ segments' = segs /\ status' = "failed"
            /\ UNCHANGED <<directory_current, p, maxp, L, bincount>>
  BY <1>13, <1>4, <1>d
<1> QED BY <1>8, <1>9, <1>10, <1>11, <1>12, <1>13

\* The directory that metadata_contract_table leaves
Fitted == IF Oversized THEN Halved ELSE directory

LEMMA FittedTable ==
    ASSUME NEW segs, NEW of, NEW at, NEW limit, NEW n, NEW held,
           Table(segs, directory, directory_current, of, at, limit, n, held)
    PROVE  Table(segs, Fitted, directory_current, of, at, limit, n, held)
<1>1. Linked(segs, directory, directory_current) /\ directory_current \in Nat
  BY TableType DEF Table
<1>l. PICK l : l = directory_length
  OBVIOUS
<1>2. /\ l \in Nat /\ directory_current <= l /\ DOMAIN directory = 0 .. l - 1
  BY <1>1, <1>l, DirectoryLength DEF directory_length
<1>3. CASE Oversized
  <2>d. PICK d : d = l \div 2
    OBVIOUS
  <2>1. d \in Nat /\ directory_current <= d /\ d <= l
    BY <1>1, <1>2, <1>3, <1>l, <2>d DEF Oversized
  <2>2. Fitted = [i \in 0 .. d - 1 |-> directory[i]]
    BY <1>3, <1>l, <2>d DEF Fitted, Halved
  <2>3. \A i \in 0 .. d - 1 : i \in DOMAIN directory
    BY <1>2, <2>1
  <2>4. Fitted = Resized(directory, d)
    BY <2>2, <2>3 DEF Resized
  <2> QED BY <2>1, <2>4, ResizedTable
<1>4. CASE ~Oversized
  BY <1>4 DEF Fitted
<1> QED BY <1>3, <1>4

\* metadata_contract_table
LEMMA ShrinkStep ==
    ASSUME NEW segs, NEW of, NEW held,
           Table(segs, directory, directory_current, of, p, maxp, bincount, held),
           Snug(directory_current, bincount),
           L \in Nat, L > 0, maxp = SegLength * PowerOfTwo[L],
           Shrink(segs)
    PROVE  /\ Table(segments', directory', directory_current', of, p', maxp', bincount', held)
           /\ Snug(directory_current', bincount')
           /\ L' \in Nat /\ maxp' = SegLength * PowerOfTwo[L']
<1>c. SegLength \in Nat \ {0} /\ BincountMax \in Nat
  BY Constants
<1>d. PICK cur : cur = directory_current
  OBVIOUS
<1>b. PICK m : m = bincount
  OBVIOUS
<1>a. PICK at2 : at2 = p
  OBVIOUS
<1>x. PICK limit2 : limit2 = maxp
  OBVIOUS
<1>1. /\ cur \in Nat /\ m \in Nat /\ at2 \in Nat /\ limit2 \in Nat /\ at2 < limit2
      /\ m = limit2 + at2 /\ m <= SegLength * cur /\ SegLength * cur \in Nat
      /\ limit2 < BincountMax
  BY <1>a, <1>b, <1>d, <1>x, TableType DEF Limits
<1>h. PICK h : h = SegLength * PowerOfTwo[L - 1]
  OBVIOUS
<1>2. h \in Nat \ {0} /\ limit2 = 2 * h /\ L - 1 \in Nat
  <2>1. L - 1 \in Nat /\ L = (L - 1) + 1
    OBVIOUS
  <2>w. PICK w \in Nat \ {0} : w = PowerOfTwo[L - 1]
    BY <2>1, Powers
  <2>2. PowerOfTwo[L] = 2 * w
    BY <2>1, <2>w, Powers
  <2>3. limit2 = SegLength * (2 * w) /\ h = SegLength * w
    BY <1>h, <1>x, <2>2, <2>w
  <2>4. SegLength * (2 * w) = 2 * (SegLength * w) /\ SegLength * w \in Nat \ {0}
    BY <1>c
  <2> QED BY <2>1, <2>3, <2>4
<1>t. PICK at : at = IF at2 = 0 THEN h - 1 ELSE at2 - 1
  OBVIOUS
<1>y. PICK limit : limit = IF at2 = 0 THEN h ELSE limit2
  OBVIOUS
<1>n. PICK n : n = m - 1
  OBVIOUS
<1>3. /\ at \in Nat /\ limit \in Nat /\ n \in Nat /\ Limits(at, limit) /\ n = limit + at
      /\ m = n + 1
  BY <1>1, <1>2, <1>c, <1>t, <1>y, <1>n DEF Limits
<1>4. at2 = NextAt(at, limit) /\ limit2 = NextLimit(at, limit)
  BY <1>1, <1>2, <1>t, <1>y DEF NextAt, NextLimit
<1>5. limit2 \div 2 = h
  BY <1>2
<1>o. PICK both : both = Joined(BinAt(segs, directory, at), BinAt(segs, directory, n))
  OBVIOUS
<1>f. PICK half : half = Put(segs, directory, at, both)
  OBVIOUS
<1>w. PICK new : new = Put(half, directory, n, Nothing)
  OBVIOUS
<1>z. PICK dir : dir = Fitted
  OBVIOUS
<1>6. /\ segments' = new
      /\ IF n % SegLength = 0
         THEN /\ directory' = [dir EXCEPT ![n \div SegLength] = NULL]
              /\ directory_current' = cur - 1
         ELSE directory' = dir /\ directory_current' = cur
      /\ p' = at /\ maxp' = limit /\ bincount' = n
      /\ L' = IF at2 = 0 THEN L - 1 ELSE L
  <2>1. (IF p = 0 THEN maxp \div 2 - 1 ELSE p - 1) = at
    BY <1>5, <1>a, <1>t, <1>x
  <2>2. (IF p = 0 THEN maxp \div 2 ELSE maxp) = limit
    BY <1>5, <1>a, <1>x, <1>y
  <2>3. bincount - 1 = n
    BY <1>b, <1>n
  <2> QED BY <1>5, <1>a, <1>b, <1>d, <1>f, <1>n, <1>o, <1>t, <1>w, <1>x, <1>y, <1>z
          DEF Shrink, Merge, BinAt, Joined, Nothing, Fitted
<1>7. Table(new, directory, cur, of, at, limit, n, held) /\ n < SegLength * cur
  <2>1. Table(segs, directory, cur, of, at2, limit2, m, held)
    BY <1>a, <1>b, <1>d, <1>x
  <2>2. Limits(at, limit) /\ n = limit + at /\ m = n + 1
    BY <1>3
  <2>3. Table(new, directory, cur, of, at, limit, n, held)
    BY <2>1, <2>2, <1>4, <1>f, <1>o, <1>w, MergeTable
  <2> QED BY <2>3, <1>1, <1>3
<1>8. Table(new, dir, cur, of, at, limit, n, held)
  BY <1>7, <1>d, <1>z, FittedTable
<1>9. SegLength * cur <= n + SegLength
  BY <1>1, <1>3, <1>b, <1>c, <1>d DEF Snug
<1>l. PICK last : last = cur - 1
  OBVIOUS
<1>10. last \in Nat /\ cur = last + 1 /\ SegLength * cur = SegLength * last + SegLength
       /\ SegLength * last \in Nat
  <2>1. cur # 0
    <3>1. cur = 0 => SegLength * cur = 0
      BY <1>c
    <3> QED BY <3>1, <1>3, <1>7
  <2>2. last \in Nat /\ cur = last + 1
    BY <1>1, <1>l, <2>1
  <2> QED BY <2>2, <1>c, ProductOrder
<1>r. PICK r : r = n - SegLength * last
  OBVIOUS
<1>11. r \in 0 .. SegLength - 1 /\ n = SegLength * last + r
  BY <1>3, <1>7, <1>9, <1>10, <1>c, <1>r
<1>12. n \div SegLength = last /\ n % SegLength = r
  BY <1>10, <1>11, <1>c, Factors
<1>13. /\ Table(segments', directory', directory_current', of, p', maxp', bincount', held)
       /\ Snug(directory_current', bincount')
  <2>1. CASE r = 0
    <3>e. PICK dir2 : dir2 = [dir EXCEPT ![last] = NULL]
      OBVIOUS
    <3>1. n = SegLength * last
      BY <2>1, <1>10, <1>11
    <3>2. Table(new, dir2, last, of, at, limit, n, held)
      BY <3>1, <3>e, <1>8, <1>10, LeftTable
    <3>3. Snug(last, n)
      BY <3>1, <1>3, <1>c DEF Snug
    <3>4. directory' = dir2 /\ directory_current' = last
      BY <2>1, <3>e, <1>6, <1>12, <1>l
    <3> QED BY <3>2, <3>3, <3>4, <1>6
  <2>2. CASE r # 0
    <3>1. Snug(cur, n)
      BY <2>2, <1>3, <1>10, <1>11, <1>c DEF Snug
    <3>2. directory' = dir /\ directory_current' = cur
      BY <2>2, <1>6, <1>12
    <3> QED BY <3>1, <3>2, <1>6, <1>8
  <2> QED BY <2>1, <2>2
<1>14. L' \in Nat /\ maxp' = SegLength * PowerOfTwo[L']
  <2>1. CASE at2 = 0
    BY <2>1, <1>2, <1>6, <1>h, <1>y
  <2>2. CASE at2 # 0
    BY <2>2, <1>6, <1>x, <1>y
  <2> QED BY <2>1, <2>2
<1> QED BY <1>13, <1>14

(***************************************************************************)
(* The operations                                                          *)
(***************************************************************************)
\* A sequence that holds nothing twice has as many elements as places.
LEMMA CountPlaces ==
    ASSUME NEW s \in Seq(Buckets), Once(s), NEW out, out \subseteq DOMAIN s,
           NEW gone, gone = {s[j] : j \in out}
    PROVE  /\ IsFiniteSet(gone) /\ Cardinality(gone) = Cardinality(out)
           /\ Cardinality(out) \in Nat
<1>1. DOMAIN s = 1 .. Len(s) /\ Len(s) \in Nat
  OBVIOUS
<1>2. IsFiniteSet(out)
  <2>1. IsFiniteSet(1 .. Len(s))
    BY <1>1, FS_Interval
  <2> QED BY <1>1, <2>1, FS_Subset
<1>g. PICK g : g = [j \in out |-> s[j]]
  OBVIOUS
<1>3. g \in Bijection(out, gone)
  <2>1. g \in [out -> gone]
    BY <1>g
  <2>2. \A j, k \in out : g[j] = g[k] => j = k
    BY <1>g DEF Once
  <2>3. \A b \in gone : \E j \in out : g[j] = b
    BY <1>g
  <2> QED BY <2>1, <2>2, <2>3 DEF Bijection, Injection, Surjection, IsInjective
<1>4. ExistsBijection(out, gone)
  BY <1>3 DEF ExistsBijection
<1> QED BY <1>2, <1>4, FS_Bijection, FS_CardinalityType

\* The bins of the table, as the operations see them
LEMMA InvBins ==
    ASSUME TableInv, NEW i \in 0 .. bincount - 1
    PROVE  /\ Bin(i) = BinAt(segments, directory, i) /\ Bin(i) \in Seq(Buckets) /\ Once(Bin(i))
           /\ \A j \in DOMAIN Bin(i) :
                 /\ Bin(i)[j] \in Buckets /\ chunk[Bin(i)[j]] # NULL
                 /\ Bindex(chunk[Bin(i)[j]], p, maxp) = i
<1>h. PICK held : held = Stacks
  OBVIOUS
<1>0. Table(segments, directory, directory_current, chunk, p, maxp, bincount, held)
  BY <1>h DEF TableInv, Inv
<1>t. PICK top : top = SegLength * directory_current
  OBVIOUS
<1>x. PICK bins : bins = Contents(segments, directory, directory_current)
  OBVIOUS
<1>1. top \in Nat /\ bincount \in Nat /\ bincount <= top /\ Filed(bins, chunk, p, maxp, bincount)
  BY <1>0, <1>t, <1>x, TableType
<1>2. i \in 0 .. top - 1
  BY <1>1
<1>3. bins[i] = BinAt(segments, directory, i) /\ bins[i] \in Seq(Buckets)
  BY <1>0, <1>2, <1>t, <1>x, TableType
<1>4. Bin(i) = bins[i]
  BY <1>3 DEF Bin, BinAt
<1>5. /\ Once(bins[i])
      /\ \A j \in DOMAIN bins[i] :
            chunk[bins[i][j]] # NULL /\ Bindex(chunk[bins[i][j]], p, maxp) = i
  BY <1>1 DEF Filed
<1>6. \A j \in DOMAIN bins[i] : bins[i][j] \in Buckets
  BY <1>3
<1> QED BY <1>3, <1>4, <1>5, <1>6

LEMMA BinOfChunk ==
    ASSUME TableInv, NEW c \in Chunks
    PROVE  Bindex(c, p, maxp) \in 0 .. bincount - 1
<1>1. Limits(p, maxp) /\ bincount = maxp + p /\ p \in Nat /\ maxp \in Nat
  BY DEF TableInv, Inv, Table, Limits
<1>2. Bindex(c, p, maxp) \in 0 .. maxp + p - 1
  BY <1>1, BindexRange
<1> QED BY <1>1, <1>2

\* metadata_delete and metadata_delete_all, from the bin on
LEMMA ReleaseStep ==
    ASSUME TableInv, NEW i \in 0 .. bincount - 1, NEW out, out \subseteq DOMAIN Bin(i),
           NEW gone, gone = {Bin(i)[j] : j \in out},
           Release(i, out), answer' \in {NULL} \cup Buckets
    PROVE  TableInv' /\ Stacks' = Without(Stacks, gone)
<1>h. PICK held : held = Stacks
  OBVIOUS
<1>e. PICK held2 : held2 = Without(held, gone)
  OBVIOUS
<1>0. /\ Table(segments, directory, directory_current, chunk, p, maxp, bincount, held)
      /\ Snug(directory_current, bincount)
      /\ L \in Nat /\ maxp = SegLength * PowerOfTwo[L]
      /\ count = Cardinality(InUse(chunk))
  BY <1>h DEF TableInv, Inv
<1>s. PICK s : s = Bin(i)
  OBVIOUS
<1>1. /\ s = BinAt(segments, directory, i) /\ s \in Seq(Buckets) /\ Once(s)
      /\ \A j \in DOMAIN s : s[j] \in Buckets /\ chunk[s[j]] # NULL
  BY <1>s, InvBins
<1>g. gone = {s[j] : j \in out}
  BY <1>s
<1>2. (\A b \in gone : In(BinAt(segments, directory, i), b)) /\ gone \subseteq InUse(chunk)
  BY <1>1, <1>g, <1>s DEF In, InUse
<1>n. PICK segs : segs = Put(segments, directory, i, Only(BinAt(segments, directory, i), Buckets \ gone))
  OBVIOUS
<1>o. PICK of : of = Freed(chunk, gone)
  OBVIOUS
<1>3. Table(segs, directory, directory_current, of, p, maxp, bincount, held2)
  BY <1>0, <1>2, <1>e, <1>n, <1>o, ReleaseTable
<1>m. PICK m : m = count - Cardinality(out)
  OBVIOUS
<1>4. /\ chunk' = of /\ count' = m
      /\ \/ segments' = segs /\ status' = "ok" /\ UNCHANGED geometry
         \/ Underloaded(m) /\ Shrink(segs) /\ status' = "ok"
         \/ segments' = segs /\ status' = "crash" /\ UNCHANGED geometry
  BY <1>1, <1>g, <1>m, <1>n, <1>o, <1>s DEF Release, Freed
<1>5. m = Cardinality(InUse(of))
  <2>1. InUse(of) = InUse(chunk) \ gone
    BY <1>o DEF InUse, Freed
  <2>2. InUse(chunk) \cap gone = gone
    BY <1>2
  <2>3. Cardinality(InUse(of)) = Cardinality(InUse(chunk)) - Cardinality(gone)
    BY <2>1, <2>2, FiniteBuckets, FS_Difference
  <2>4. Cardinality(gone) = Cardinality(out)
    BY <1>1, <1>g, <1>s, CountPlaces
  <2> QED BY <2>3, <2>4, <1>0, <1>m
<1>6. ASSUME segments' = segs, UNCHANGED geometry, status' \in {"ok", "crash"}
      PROVE  Inv(held2)'
  BY <1>6, <1>0, <1>3, <1>4, <1>5 DEF Inv, geometry
<1>7. ASSUME Underloaded(m), Shrink(segs), status' = "ok" PROVE Inv(held2)'
  <2>1. L > 0
    BY <1>7 DEF Underloaded
  <2>2. /\ Table(segments', directory', directory_current', of, p', maxp', bincount', held2)
        /\ Snug(directory_current', bincount')
        /\ L' \in Nat /\ maxp' = SegLength * PowerOfTwo[L']
    BY <1>7, <1>0, <1>3, <2>1, ShrinkStep
  <2> QED BY <1>7, <1>4, <1>5, <2>2 DEF Inv
<1>8. Inv(held2)'
  BY <1>4, <1>6, <1>7
<1>9. Stacks' = held2 /\ TableInv'
  BY <1>8, StacksHeldNext
<1> QED BY <1>9, <1>e, <1>h

\* metadata_add
LEMMA AddStep ==
    ASSUME TableInv, NEW c \in Chunks, Add(c)
    PROVE  /\ TableInv' /\ answer' = answer
           /\ \E b \in Buckets : chunk[b] = NULL /\ Stacks' = Pushed(Stacks, c, b)
<1>h. PICK held : held = Stacks
  OBVIOUS
<1>0. /\ Table(segments, directory, directory_current, chunk, p, maxp, bincount, held)
      /\ Snug(directory_current, bincount)
      /\ L \in Nat /\ maxp = SegLength * PowerOfTwo[L]
      /\ count = Cardinality(InUse(chunk))
      /\ answer \in {NULL} \cup Buckets
  BY <1>h DEF TableInv, Inv
<1>b. PICK b : b = Min(FreeBuckets)
  OBVIOUS
<1>e. PICK held2 : held2 = Pushed(held, c, b)
  OBVIOUS
<1>1. b \in Buckets /\ chunk[b] = NULL
  <2>1. FreeBuckets \in SUBSET Nat /\ FreeBuckets # {}
    BY DEF FreeBuckets, Buckets, Add
  <2>2. Min(FreeBuckets) \in FreeBuckets
    BY <2>1, LeastNumber
  <2> QED BY <2>2, <1>b DEF FreeBuckets
<1>i. PICK i : i = Bindex(c, p, maxp)
  OBVIOUS
<1>n. PICK segs : segs = Put(segments, directory, i, InFront(b, BinAt(segments, directory, i)))
  OBVIOUS
<1>o. PICK of : of = Given(chunk, b, c)
  OBVIOUS
<1>2. Table(segs, directory, directory_current, of, p, maxp, bincount, held2)
  BY <1>0, <1>1, <1>e, <1>i, <1>n, <1>o, AddTable
<1>3. /\ chunk' = of /\ count' = count + 1 /\ answer' = answer
      /\ \/ Overloaded(count + 1) /\ Grow(segs, of)
         \/ segments' = segs /\ status' = "ok" /\ UNCHANGED geometry
  BY <1>b, <1>i, <1>n, <1>o DEF Add, Given, InFront, BinAt, Bin
<1>4. count + 1 = Cardinality(InUse(of))
  <2>1. c # NULL /\ chunk \in Chunked
    BY <1>0, Constants DEF Table
  <2>2. InUse(of) = InUse(chunk) \cup {b} /\ b \notin InUse(chunk)
    BY <1>1, <1>o, <2>1 DEF InUse, Given, Chunked
  <2> QED BY <1>0, <2>2, FiniteBuckets, FS_AddElement
<1>5. ASSUME Overloaded(count + 1), Grow(segs, of) PROVE Inv(held2)'
  <2>1. bincount < BincountMax
    BY <1>5 DEF Overloaded
  <2>2. DOMAIN segs = DOMAIN segments
    BY <1>n DEF Put
  <2>3. /\ Table(segments', directory', directory_current', of, p', maxp', bincount', held2)
        /\ Snug(directory_current', bincount')
        /\ L' \in Nat /\ maxp' = SegLength * PowerOfTwo[L']
        /\ status' \in {"ok", "failed", "crash"}
    BY <1>0, <1>2, <1>5, <2>1, <2>2, GrowStep
  <2> QED BY <1>0, <1>3, <1>4, <2>3 DEF Inv
<1>6. ASSUME segments' = segs, status' = "ok", UNCHANGED geometry PROVE Inv(held2)'
  BY <1>6, <1>0, <1>2, <1>3, <1>4 DEF Inv, geometry
<1>7. Inv(held2)'
  BY <1>3, <1>5, <1>6
<1>8. Stacks' = held2 /\ TableInv'
  BY <1>7, StacksHeldNext
<1> QED BY <1>1, <1>3, <1>8, <1>e, <1>h

ToFront(s, j) == <<s[j]>> \o RemoveAt(s, j)

Part(s, m, n) == SubSeq(s, m, n)

LEMMA PartOf ==
    ASSUME NEW s \in Seq(Buckets), NEW m \in Nat, NEW n \in Nat, 1 <= m, n <= Len(s), m <= n + 1
    PROVE  /\ Part(s, m, n) \in Seq(Buckets) /\ Len(Part(s, m, n)) = (n - m) + 1
           /\ \A i \in 1 .. (n - m) + 1 : Part(s, m, n)[i] = s[(m + i) - 1]
<1>1. \A i \in m .. n : s[i] \in Buckets
  <2>1. \A i \in m .. n : i \in 1 .. Len(s)
    OBVIOUS
  <2> QED BY <2>1
<1>2. /\ SubSeq(s, m, n) \in Seq(Buckets)
      /\ Len(SubSeq(s, m, n)) = IF m <= n THEN n - m + 1 ELSE 0
      /\ \A i \in 1 .. n - m + 1 : SubSeq(s, m, n)[i] = s[m + i - 1]
  BY <1>1, SubSeqProperties
<1>q. PICK q : q = SubSeq(s, m, n)
  OBVIOUS
<1>3. q \in Seq(Buckets) /\ Len(q) = (n - m) + 1
      /\ \A i \in 1 .. (n - m) + 1 : q[i] = s[(m + i) - 1]
  BY <1>2, <1>q
<1> QED BY <1>3, <1>q DEF Part

LEMMA FrontPlaces ==
    ASSUME NEW s \in Seq(Buckets), NEW j \in 1 .. Len(s),
           NEW v, v = ToFront(s, j)
    PROVE  /\ v \in Seq(Buckets) /\ Len(v) = Len(s) /\ v[1] = s[j]
           /\ \A k \in 2 .. Len(s) : v[k] = IF k <= j THEN s[k - 1] ELSE s[k]
<1>n. PICK n : n = Len(s)
  OBVIOUS
<1>1. n \in Nat /\ DOMAIN s = 1 .. n /\ s \in [1 .. n -> Buckets] /\ j \in 1 .. n
  BY <1>n
<1>h. PICK h : h = Part(s, 1, j - 1)
  OBVIOUS
<1>l. PICK l : l = Part(s, j + 1, n)
  OBVIOUS
<1>2. h \in Seq(Buckets) /\ Len(h) = j - 1 /\ \A k \in 1 .. j - 1 : h[k] = s[k]
  <2>1. j - 1 \in Nat /\ 1 \in Nat /\ 1 <= 1 /\ j - 1 <= Len(s) /\ 1 <= (j - 1) + 1
    BY <1>1, <1>n
  <2>2. /\ h \in Seq(Buckets) /\ Len(h) = ((j - 1) - 1) + 1
        /\ \A k \in 1 .. ((j - 1) - 1) + 1 : h[k] = s[(1 + k) - 1]
    BY <2>1, <1>h, PartOf
  <2> QED BY <2>2, <1>1
<1>3. l \in Seq(Buckets) /\ Len(l) = n - j /\ \A k \in 1 .. n - j : l[k] = s[j + k]
  <2>1. j + 1 \in Nat /\ n \in Nat /\ 1 <= j + 1 /\ n <= Len(s) /\ j + 1 <= n + 1
    BY <1>1, <1>n
  <2>2. /\ l \in Seq(Buckets) /\ Len(l) = (n - (j + 1)) + 1
        /\ \A k \in 1 .. (n - (j + 1)) + 1 : l[k] = s[((j + 1) + k) - 1]
    BY <2>1, <1>l, PartOf
  <2> QED BY <2>2, <1>1
<1>r. PICK r : r = Joined(h, l)
  OBVIOUS
<1>4. /\ r \in Seq(Buckets) /\ Len(r) = (j - 1) + (n - j)
      /\ \A k \in 1 .. j - 1 : r[k] = s[k]
      /\ \A k \in 1 .. n - j : r[(j - 1) + k] = s[j + k]
  <2>1. /\ r \in Seq(Buckets) /\ Len(r) = Len(h) + Len(l)
        /\ \A k \in 1 .. Len(h) : r[k] = h[k]
        /\ \A k \in 1 .. Len(l) : r[Len(h) + k] = l[k]
    BY <1>2, <1>3, <1>r, JoinedAt
  <2> QED BY <2>1, <1>2, <1>3
<1>b. PICK b : b = s[j]
  OBVIOUS
<1>o. PICK o : o = <<b>>
  OBVIOUS
<1>5. o \in Seq(Buckets) /\ Len(o) = 1 /\ o[1] = b
  BY <1>1, <1>b, <1>o
<1>6. v = Joined(o, r)
  BY <1>b, <1>h, <1>l, <1>n, <1>o, <1>r DEF RemoveAt, ToFront, Joined, Part
<1>7. /\ v \in Seq(Buckets) /\ Len(v) = n /\ DOMAIN v = 1 .. n /\ v[1] = s[j]
      /\ \A k \in 1 .. n - 1 : v[1 + k] = r[k]
  <2>1. /\ v \in Seq(Buckets) /\ Len(v) = Len(o) + Len(r)
        /\ \A k \in 1 .. Len(o) : v[k] = o[k]
        /\ \A k \in 1 .. Len(r) : v[Len(o) + k] = r[k]
    <3>1. o \in Seq(Buckets) /\ r \in Seq(Buckets)
      BY <1>4, <1>5
    <3>u. PICK u : u = Joined(o, r)
      OBVIOUS
    <3>2. /\ u \in Seq(Buckets) /\ Len(u) = Len(o) + Len(r)
          /\ \A k \in 1 .. Len(o) : u[k] = o[k]
          /\ \A k \in 1 .. Len(r) : u[Len(o) + k] = r[k]
      BY <3>1, <3>u, JoinedAt
    <3>3. u = v
      BY <3>u, <1>6
    <3> QED BY <3>2, <3>3, Zenon
  <2>2. Len(v) = n /\ Len(o) = 1 /\ Len(r) = n - 1
    <3>1. (j - 1) + (n - j) = n - 1 /\ 1 + (n - 1) = n
      BY <1>1
    <3> QED BY <2>1, <3>1, <1>4, <1>5
  <2>3. v[1] = o[1]
    BY <2>1, <2>2
  <2>4. \A k \in 1 .. n - 1 : v[1 + k] = r[k]
    BY <2>1, <2>2
  <2>5. DOMAIN v = 1 .. Len(v)
    BY <2>1
  <2> QED BY <2>1, <2>2, <2>3, <2>4, <2>5, <1>5, <1>b
<1>12. \A k \in 2 .. n : v[k] = IF k <= j THEN s[k - 1] ELSE s[k]
  <2> SUFFICES ASSUME NEW k \in 2 .. n PROVE v[k] = IF k <= j THEN s[k - 1] ELSE s[k]
    OBVIOUS
  <2>1. k - 1 \in 1 .. n - 1 /\ 1 + (k - 1) = k
    BY <1>1
  <2>2. v[k] = r[k - 1]
    BY <2>1, <1>7
  <2>3. CASE k <= j
    <3>1. k - 1 \in 1 .. j - 1
      BY <2>3, <1>1
    <3> QED BY <2>2, <2>3, <3>1, <1>4
  <2>4. CASE ~(k <= j)
    <3>1. k - j \in 1 .. n - j /\ (j - 1) + (k - j) = k - 1 /\ j + (k - j) = k
      BY <2>4, <1>1
    <3> QED BY <2>2, <2>4, <3>1, <1>4
  <2> QED BY <2>3, <2>4
<1> QED BY <1>7, <1>12, <1>n

LEMMA MovedToFront ==
    ASSUME NEW s \in Seq(Buckets), NEW j \in 1 .. Len(s), Once(s),
           NEW v, v = ToFront(s, j)
    PROVE  v \in Seq(Buckets) /\ Once(v) /\ \A e : In(v, e) <=> In(s, e)
<1>n. PICK n : n = Len(s)
  OBVIOUS
<1>1. n \in Nat /\ DOMAIN s = 1 .. n /\ s \in [1 .. n -> Buckets] /\ j \in 1 .. n
  BY <1>n
<1>7. /\ v \in Seq(Buckets) /\ Len(v) = n /\ v[1] = s[j]
      /\ \A k \in 2 .. n : v[k] = IF k <= j THEN s[k - 1] ELSE s[k]
  <2>1. /\ v \in Seq(Buckets) /\ Len(v) = Len(s) /\ v[1] = s[j]
        /\ \A k \in 2 .. Len(s) : v[k] = IF k <= j THEN s[k - 1] ELSE s[k]
    BY FrontPlaces
  <2> QED BY <2>1, <1>n, Zenon
<1>12. DOMAIN v = 1 .. n
  BY <1>7
\* the place in s that a place in v comes from
<1>f. PICK f : f = [k \in 1 .. n |-> IF k = 1 THEN j ELSE IF k <= j THEN k - 1 ELSE k]
  OBVIOUS
<1>8. /\ f \in [1 .. n -> 1 .. n] /\ \A k, x \in 1 .. n : f[k] = f[x] => k = x
      /\ \A x \in 1 .. n : \E k \in 1 .. n : f[k] = x
  <2>1. f \in [1 .. n -> 1 .. n] /\ \A k, x \in 1 .. n : f[k] = f[x] => k = x
    BY <1>1, <1>f
  <2>2. ASSUME NEW x \in 1 .. n PROVE \E k \in 1 .. n : f[k] = x
    <3>1. CASE x = j
      <4>1. 1 \in 1 .. n /\ f[1] = x
        BY <3>1, <1>1, <1>f
      <4> QED BY <4>1
    <3>2. CASE x < j
      <4>1. x + 1 \in 1 .. n /\ f[x + 1] = x
        BY <3>2, <1>1, <1>f
      <4> QED BY <4>1
    <3>3. CASE x > j
      <4>1. f[x] = x
        BY <3>3, <1>1, <1>f
      <4> QED BY <4>1
    <3> QED BY <3>1, <3>2, <3>3, <1>1
  <2> QED BY <2>1, <2>2
<1>9. \A k \in 1 .. n : v[k] = s[f[k]]
  <2> SUFFICES ASSUME NEW k \in 1 .. n PROVE v[k] = s[f[k]]
    OBVIOUS
  <2>1. CASE k = 1
    BY <2>1, <1>7, <1>f
  <2>2. CASE k # 1
    <3>1. k \in 2 .. n
      BY <2>2, <1>1
    <3> QED BY <2>2, <3>1, <1>7, <1>f
  <2> QED BY <2>1, <2>2
<1>10. Once(v)
  <2> SUFFICES ASSUME NEW k \in 1 .. n, NEW x \in 1 .. n, v[k] = v[x] PROVE k = x
    BY <1>12 DEF Once
  <2>1. s[f[k]] = s[f[x]] /\ f[k] \in 1 .. n /\ f[x] \in 1 .. n
    BY <1>8, <1>9
  <2>2. f[k] = f[x]
    BY <2>1, <1>1 DEF Once
  <2> QED BY <2>2, <1>8
<1>11. \A e : In(v, e) <=> In(s, e)
  <2> SUFFICES ASSUME NEW e PROVE In(v, e) <=> In(s, e)
    OBVIOUS
  <2>1. ASSUME NEW k \in 1 .. n, v[k] = e PROVE In(s, e)
    BY <2>1, <1>1, <1>8, <1>9 DEF In
  <2>2. ASSUME NEW x \in 1 .. n, s[x] = e PROVE In(v, e)
    <3>1. PICK k \in 1 .. n : f[k] = x
      BY <1>8
    <3> QED BY <2>2, <3>1, <1>12, <1>9 DEF In
  <2>3. \A x \in DOMAIN s : x \in 1 .. n
    BY <1>1
  <2>4. \A x \in DOMAIN v : x \in 1 .. n
    BY <1>12
  <2> QED BY <2>1, <2>2, <2>3, <2>4 DEF In
<1> QED BY <1>7, <1>10, <1>11

\* What is selected stays in its order if its first element moves to the front, or another.
LEMMA OnlyToFront ==
    ASSUME NEW s \in Seq(Buckets), NEW j \in 1 .. Len(s), NEW B,
           s[j] \in B => \A k \in Places(s, B) : j <= k
    PROVE  Only(ToFront(s, j), B) = Only(s, B)
<1>v. PICK v : v = ToFront(s, j)
  OBVIOUS
<1>n. PICK n : n = Len(s)
  OBVIOUS
<1>1. n \in Nat /\ DOMAIN s = 1 .. n /\ j \in 1 .. n
  BY <1>n
<1>2. /\ v \in Seq(Buckets) /\ DOMAIN v = 1 .. n /\ v[1] = s[j]
      /\ \A k \in 2 .. n : v[k] = IF k <= j THEN s[k - 1] ELSE s[k]
  <2>1. /\ v \in Seq(Buckets) /\ Len(v) = Len(s) /\ v[1] = s[j]
        /\ \A k \in 2 .. Len(s) : v[k] = IF k <= j THEN s[k - 1] ELSE s[k]
    BY <1>v, FrontPlaces
  <2>2. /\ v \in Seq(Buckets) /\ Len(v) = n /\ v[1] = s[j]
        /\ \A k \in 2 .. n : v[k] = IF k <= j THEN s[k - 1] ELSE s[k]
    BY <2>1, <1>n, Zenon
  <2> QED BY <2>2
<1>f. PICK f : f = [k \in 1 .. n |-> IF k = j THEN 1 ELSE IF k < j THEN k + 1 ELSE k]
  OBVIOUS
<1>3. \A k \in 1 .. n : /\ f[k] \in 1 .. n /\ v[f[k]] = s[k]
                        /\ f[k] = IF k = j THEN 1 ELSE IF k < j THEN k + 1 ELSE k
  <2> SUFFICES ASSUME NEW k \in 1 .. n
               PROVE  /\ f[k] \in 1 .. n /\ v[f[k]] = s[k]
                      /\ f[k] = IF k = j THEN 1 ELSE IF k < j THEN k + 1 ELSE k
    OBVIOUS
  <2>0. f[k] = IF k = j THEN 1 ELSE IF k < j THEN k + 1 ELSE k
    BY <1>f
  <2>1. CASE k = j
    BY <2>0, <2>1, <1>1, <1>2
  <2>2. CASE k < j
    <3>1. f[k] = k + 1 /\ k + 1 \in 2 .. n /\ k + 1 <= j /\ (k + 1) - 1 = k
      BY <2>0, <2>2, <1>1
    <3> QED BY <2>0, <3>1, <1>1, <1>2
  <2>3. CASE k > j
    <3>1. f[k] = k /\ k \in 2 .. n /\ ~(k <= j)
      BY <2>0, <2>3, <1>1
    <3> QED BY <2>0, <3>1, <1>1, <1>2
  <2> QED BY <2>1, <2>2, <2>3, <1>1
<1>4. \A x \in 1 .. n : \E k \in 1 .. n : f[k] = x
  <2> SUFFICES ASSUME NEW x \in 1 .. n PROVE \E k \in 1 .. n : f[k] = x
    OBVIOUS
  <2>1. CASE x = 1
    BY <2>1, <1>1, <1>3
  <2>2. CASE x # 1 /\ x <= j
    <3>1. x - 1 \in 1 .. n /\ x - 1 # j /\ x - 1 < j /\ (x - 1) + 1 = x
      BY <2>2, <1>1
    <3> QED BY <3>1, <1>3
  <2>3. CASE x > j
    <3>1. x # j /\ ~(x < j)
      BY <2>3, <1>1
    <3> QED BY <3>1, <1>3
  <2> QED BY <2>1, <2>2, <2>3, <1>1
<1>5. ASSUME NEW k \in Places(s, B), NEW x \in Places(s, B), k < x PROVE f[k] < f[x]
  <2>1. k \in 1 .. n /\ x \in 1 .. n /\ s[k] \in B /\ s[x] \in B
    BY <1>1 DEF Places
  <2>2. x # j
    <3>1. x = j => j <= k
      BY <2>1
    <3> QED BY <3>1, <2>1, <1>1, <1>5
  <2>3. /\ f[k] = IF k = j THEN 1 ELSE IF k < j THEN k + 1 ELSE k
        /\ f[x] = IF x < j THEN x + 1 ELSE x
    BY <2>1, <2>2, <1>3
  <2> QED BY <2>1, <2>2, <2>3, <1>1, <1>5
<1>6. PICK m, g : /\ Lists(g, m, Places(s, B)) /\ m \in Nat
                  /\ Only(s, B) = [i \in 1 .. m |-> s[g[i]]]
                  /\ Only(s, B) \in Seq(Buckets) /\ Len(Only(s, B)) = m
                  /\ \A i \in 1 .. m : g[i] \in DOMAIN s /\ s[g[i]] \in B
  BY OnlyListed
<1>h. PICK h : h = [i \in 1 .. m |-> f[g[i]]]
  OBVIOUS
<1>7. \A i \in 1 .. m : /\ g[i] \in 1 .. n /\ g[i] \in Places(s, B) /\ h[i] = f[g[i]]
                        /\ h[i] \in Places(v, B) /\ v[h[i]] = s[g[i]]
  <2> SUFFICES ASSUME NEW i \in 1 .. m
               PROVE  /\ g[i] \in 1 .. n /\ g[i] \in Places(s, B) /\ h[i] = f[g[i]]
                      /\ h[i] \in Places(v, B) /\ v[h[i]] = s[g[i]]
    OBVIOUS
  <2>1. g[i] \in 1 .. n /\ s[g[i]] \in B /\ h[i] = f[g[i]]
    BY <1>1, <1>6, <1>h
  <2>2. f[g[i]] \in 1 .. n /\ v[f[g[i]]] = s[g[i]]
    BY <2>1, <1>3
  <2> QED BY <2>1, <2>2, <1>1, <1>2 DEF Places
<1>8. Lists(h, m, Places(v, B))
  <2>1. h \in [1 .. m -> Places(v, B)]
    BY <1>7, <1>h
  <2>2. ASSUME NEW i \in 1 .. m, NEW k \in 1 .. m, i < k PROVE h[i] < h[k]
    <3>1. g[i] < g[k]
      BY <2>2, <1>6 DEF Lists
    <3> QED BY <3>1, <1>5, <1>7
  <2>3. ASSUME NEW x \in Places(v, B) PROVE \E i \in 1 .. m : h[i] = x
    <3>1. x \in 1 .. n /\ v[x] \in B
      BY <1>2 DEF Places
    <3>2. PICK k \in 1 .. n : f[k] = x
      BY <3>1, <1>4
    <3>3. k \in Places(s, B)
      BY <3>1, <3>2, <1>1, <1>3 DEF Places
    <3>4. PICK i \in 1 .. m : g[i] = k
      BY <3>3, <1>6 DEF Lists
    <3> QED BY <3>2, <3>4, <1>7
  <2> QED BY <2>1, <2>2, <2>3, <1>6 DEF Lists
<1>9. Only(v, B) = [i \in 1 .. m |-> v[h[i]]]
  <2>1. v \in Seq(Buckets)
    BY <1>2
  <2> QED BY <2>1, <1>8, OnlyIs
<1> QED BY <1>6, <1>7, <1>9, <1>v

\* What the first of the places found holds
LEMMA FirstHit ==
    ASSUME TableInv, NEW c \in Chunks, NEW i \in 0 .. bincount - 1
    PROVE  /\ Hits(c, i) \subseteq DOMAIN Bin(i)
           /\ Hits(c, i) # {} =>
                 Min(Hits(c, i)) \in Hits(c, i) /\ \A k \in Hits(c, i) : Min(Hits(c, i)) <= k
           /\ Found(c, i) \in {NULL} \cup Buckets
<1>1. Bin(i) \in Seq(Buckets) /\ \A j \in DOMAIN Bin(i) : Bin(i)[j] \in Buckets
  BY InvBins
<1>2. Hits(c, i) \subseteq DOMAIN Bin(i)
  BY DEF Hits
<1>3. ASSUME Hits(c, i) # {}
      PROVE  Min(Hits(c, i)) \in Hits(c, i) /\ \A k \in Hits(c, i) : Min(Hits(c, i)) <= k
  <2>1. DOMAIN Bin(i) \subseteq Nat
    BY <1>1
  <2>2. Hits(c, i) \in SUBSET Nat
    BY <1>2, <2>1
  <2> QED BY <1>3, <2>2, LeastNumber
<1>4. Found(c, i) \in {NULL} \cup Buckets
  BY <1>1, <1>2, <1>3 DEF Found
<1> QED BY <1>2, <1>3, <1>4

\* metadata_lookup
LEMMA LookupStep ==
    ASSUME TableInv, NEW c \in Chunks, Lookup(c)
    PROVE  TableInv' /\ Stacks' = Stacks
<1>h. PICK held : held = Stacks
  OBVIOUS
<1>0. Inv(held) /\ Table(segments, directory, directory_current, chunk, p, maxp, bincount, held)
  BY <1>h DEF TableInv, Inv
<1>i. PICK i : i = Bindex(c, p, maxp)
  OBVIOUS
<1>1. i \in 0 .. bincount - 1
  BY <1>i, BinOfChunk
<1>k. PICK hits : hits = Hits(c, i)
  OBVIOUS
<1>2. /\ answer' = Found(c, i) /\ status' = "ok" /\ UNCHANGED <<chunk, geometry, count>>
      /\ segments' = IF hits = {} \/ Min(hits) <= 2 THEN segments
                     ELSE Put(segments, directory, i, <<answer'>> \o RemoveAt(Bin(i), Min(hits)))
  BY <1>k, <1>i DEF Lookup
<1>3. Found(c, i) \in {NULL} \cup Buckets /\ hits \subseteq DOMAIN Bin(i)
      /\ (hits # {} => Min(hits) \in hits /\ \A k \in hits : Min(hits) <= k)
  BY <1>1, <1>k, FirstHit
<1>4. Table(segments', directory, directory_current, chunk, p, maxp, bincount, held)
  <2>1. CASE hits = {} \/ Min(hits) <= 2
    BY <2>1, <1>0, <1>2
  <2>2. CASE ~(hits = {} \/ Min(hits) <= 2)
    <3>j. PICK j : j = Min(hits)
      OBVIOUS
    <3>s. PICK s : s = Bin(i)
      OBVIOUS
    <3>1. s = BinAt(segments, directory, i) /\ s \in Seq(Buckets) /\ Once(s) /\ j \in DOMAIN s
      BY <2>2, <3>j, <3>s, <1>1, <1>3, InvBins
    <3>2. answer' = s[j]
      BY <2>2, <3>j, <3>s, <1>2, <1>k DEF Found
    <3>v. PICK v : v = ToFront(s, j)
      OBVIOUS
    <3>3. j \in 1 .. Len(s)
      BY <3>1
    <3>4. v \in Seq(Buckets) /\ Once(v) /\ \A e : In(v, e) <=> In(s, e)
      BY <3>1, <3>3, <3>v, MovedToFront
    <3>5. segments' = Put(segments, directory, i, v)
      BY <2>2, <3>2, <3>j, <3>s, <3>v, <1>2 DEF ToFront
    <3>6. \A e : In(v, e) <=> In(BinAt(segments, directory, i), e)
      BY <3>1, <3>4
    <3>7. \A d \in Chunks :
              Only(v, Mine(chunk, d)) = Only(BinAt(segments, directory, i), Mine(chunk, d))
      <4> SUFFICES ASSUME NEW d \in Chunks PROVE Only(v, Mine(chunk, d)) = Only(s, Mine(chunk, d))
        BY <3>1
      <4>m. PICK M : M = Mine(chunk, d)
        OBVIOUS
      <4>1. s[j] \in M => \A k \in Places(s, M) : j <= k
        <5> SUFFICES ASSUME s[j] \in M, NEW k \in Places(s, M) PROVE j <= k
          OBVIOUS
        <5>1. chunk[s[j]] = d /\ chunk[s[k]] = d /\ k \in DOMAIN s
          BY <4>m DEF Mine, Places
        <5>2. d = c
          BY <2>2, <5>1, <3>j, <3>s, <1>3, <1>k DEF Hits
        <5>3. k \in hits
          BY <5>1, <5>2, <3>s, <1>k DEF Hits
        <5> QED BY <5>3, <3>j, <1>3
      <4>2. Only(ToFront(s, j), M) = Only(s, M)
        BY <3>1, <3>3, <4>1, OnlyToFront
      <4> QED BY <4>2, <4>m, <3>v
    <3> QED BY <1>0, <1>1, <3>4, <3>5, <3>6, <3>7, ReorderTable
  <2> QED BY <2>1, <2>2
<1>5. Inv(held)'
  BY <1>0, <1>2, <1>3, <1>4 DEF Inv, geometry
<1>6. Stacks' = held /\ TableInv'
  BY <1>5, StacksHeldNext
<1> QED BY <1>6, <1>h

\* What a lookup finds is the first of the stack.
LEMMA FoundIsFirst ==
    ASSUME TableInv, NEW c \in Chunks, NEW i, i = Bindex(c, p, maxp),
           NEW s, s = Bin(i), NEW M, M = Mine(chunk, c), NEW t, t = Stacks[c]
    PROVE  /\ i \in 0 .. bincount - 1 /\ s \in Seq(Buckets) /\ Once(s)
           /\ t = Only(s, M) /\ t \in Seq(Buckets) /\ Once(t)
           /\ \A e : In(t, e) <=> In(s, e) /\ e \in M
           /\ Hits(c, i) = Places(s, M)
           /\ Hits(c, i) = {} <=> t = Nothing
           /\ Hits(c, i) # {} => Found(c, i) = Head(t) /\ s[Min(Hits(c, i))] \in M
           /\ Found(c, i) = IF t = Nothing THEN NULL ELSE Head(t)
<1>1. i \in 0 .. bincount - 1
  BY BinOfChunk
<1>2. s \in Seq(Buckets) /\ Once(s) /\ \A j \in DOMAIN s : s[j] \in Buckets
  BY <1>1, InvBins
<1>3. t = Only(s, M)
  BY DEF Stacks, Stack, Mine
<1>4. t \in Seq(Buckets) /\ Once(t) /\ \A e : In(t, e) <=> In(s, e) /\ e \in M
  <2>1. /\ Only(s, M) \in Seq(Buckets) /\ Once(Only(s, M))
        /\ \A e : In(Only(s, M), e) <=> In(s, e) /\ e \in M
    BY <1>2, OnlyIn
  <2> QED BY <2>1, <1>3
<1>j. PICK J : J = Places(s, M)
  OBVIOUS
<1>5. Hits(c, i) = J
  BY <1>2, <1>j DEF Hits, Places, Mine
<1>6. CASE J = {}
  <2>1. \A e : ~In(t, e)
    BY <1>4, <1>6, <1>j DEF In, Places
  <2>2. t = Nothing
    BY <2>1, <1>4, OnlyNone
  <2>3. Found(c, i) = NULL
    BY <1>5, <1>6 DEF Found
  <2> QED BY <2>2, <2>3, <1>1, <1>2, <1>3, <1>4, <1>5, <1>6, <1>j
<1>7. CASE J # {}
  <2>1. t # Nothing /\ Min(J) \in J /\ Head(t) = s[Min(J)]
    <3>1. Only(s, M) # Nothing /\ Min(J) \in J /\ Head(Only(s, M)) = s[Min(J)]
      BY <1>2, <1>7, <1>j, OnlyFirst
    <3> QED BY <3>1, <1>3
  <2>2. Found(c, i) = s[Min(J)] /\ s[Min(J)] \in M
    BY <2>1, <1>5, <1>7, <1>j DEF Found, Places
  <2> QED BY <2>1, <2>2, <1>1, <1>2, <1>3, <1>4, <1>5, <1>7, <1>j
<1> QED BY <1>6, <1>7

\* The buckets of a chunk do not miss those of another.
LEMMA KeptStack ==
    ASSUME TableInv, NEW d \in Chunks, NEW gone, \A b \in gone : b \notin Mine(chunk, d)
    PROVE  Only(Stacks[d], Buckets \ gone) = Stacks[d]
<1>i. PICK i : i = Bindex(d, p, maxp)
  OBVIOUS
<1>s. PICK s : s = Bin(i)
  OBVIOUS
<1>m. PICK M : M = Mine(chunk, d)
  OBVIOUS
<1>g. PICK G : G = Buckets \ gone
  OBVIOUS
<1>1. Stacks[d] = Only(s, M) /\ s \in Seq(Buckets)
  BY <1>i, <1>m, <1>s, FoundIsFirst
<1>2. Only(Only(s, M), G) = Only(s, M \cap G)
  BY <1>1, OnlyTwice
<1>3. M \cap G = M
  BY <1>g, <1>m DEF Mine
<1> QED BY <1>1, <1>2, <1>3, <1>g

\* metadata_delete
LEMMA DeleteStep ==
    ASSUME TableInv, NEW c \in Chunks, Delete(c)
    PROVE  /\ TableInv' /\ answer' = IF Stacks[c] = Nothing THEN NULL ELSE Head(Stacks[c])
           /\ \A d \in Chunks :
                 Stacks'[d] = IF d = c /\ Stacks[c] # Nothing THEN Tail(Stacks[c]) ELSE Stacks[d]
<1>i. PICK i : i = Bindex(c, p, maxp)
  OBVIOUS
<1>s. PICK s : s = Bin(i)
  OBVIOUS
<1>m. PICK M : M = Mine(chunk, c)
  OBVIOUS
<1>t. PICK t : t = Stacks[c]
  OBVIOUS
<1>j. PICK J : J = Hits(c, i)
  OBVIOUS
<1>1. /\ i \in 0 .. bincount - 1 /\ t \in Seq(Buckets) /\ Once(t)
      /\ J = {} <=> t = Nothing
      /\ J # {} => Found(c, i) = Head(t) /\ s[Min(J)] \in M
      /\ Found(c, i) = IF t = Nothing THEN NULL ELSE Head(t)
  BY <1>i, <1>j, <1>m, <1>s, <1>t, FoundIsFirst
<1>o. PICK out : out = IF J = {} THEN {} ELSE {Min(J)}
  OBVIOUS
<1>g. PICK gone : gone = {s[j] : j \in out}
  OBVIOUS
<1>2. out \subseteq DOMAIN Bin(i) /\ Found(c, i) \in {NULL} \cup Buckets
  BY <1>1, <1>j, <1>o, FirstHit
<1>3. Release(i, out) /\ answer' = Found(c, i)
  BY <1>i, <1>j, <1>o DEF Delete
<1>4. TableInv' /\ Stacks' = Without(Stacks, gone)
  <2>1. gone = {Bin(i)[j] : j \in out}
    BY <1>g, <1>s
  <2>2. answer' \in {NULL} \cup Buckets
    BY <1>2, <1>3
  <2> QED BY <2>1, <2>2, <1>1, <1>2, <1>3, ReleaseStep
<1>5. \A d \in Chunks : Stacks'[d] = Only(Stacks[d], Buckets \ gone)
  BY <1>4 DEF Without
<1>6. CASE t = Nothing
  <2>1. gone = {}
    BY <1>1, <1>6, <1>g, <1>o
  <2>2. \A d \in Chunks : Only(Stacks[d], Buckets \ gone) = Stacks[d]
    BY <2>1, KeptStack
  <2> QED BY <2>2, <1>1, <1>3, <1>4, <1>5, <1>6, <1>t
<1>7. CASE t # Nothing
  <2>h. PICK h : h = Head(t)
    OBVIOUS
  <2>1. gone = {h} /\ h \in M
    <3>1. out = {Min(J)} /\ Found(c, i) = Head(t) /\ s[Min(J)] \in M /\ J # {}
      BY <1>1, <1>7, <1>o
    <3>2. Found(c, i) = s[Min(J)]
      BY <3>1, <1>j, <1>s DEF Found
    <3> QED BY <3>1, <3>2, <2>h, <1>g
  <2>2. Only(t, Buckets \ gone) = Tail(t)
    <3>1. Only(t, Buckets \ {Head(t)}) = Tail(t)
      BY <1>1, <1>7, OnlyRest
    <3> QED BY <3>1, <2>1, <2>h
  <2>3. ASSUME NEW d \in Chunks, d # c PROVE Only(Stacks[d], Buckets \ gone) = Stacks[d]
    <3>1. \A b \in gone : b \notin Mine(chunk, d)
      BY <2>1, <2>3, <1>m DEF Mine
    <3> QED BY <3>1, KeptStack
  <2>4. \A d \in Chunks : Stacks'[d] = IF d = c THEN Tail(t) ELSE Stacks[d]
    BY <2>2, <2>3, <1>5, <1>t
  <2> QED BY <2>4, <1>1, <1>3, <1>4, <1>7, <1>t
<1> QED BY <1>6, <1>7

\* metadata_delete_all
LEMMA DeleteAllStep ==
    ASSUME TableInv, NEW c \in Chunks, DeleteAll(c)
    PROVE  /\ TableInv' /\ answer' = answer
           /\ \A d \in Chunks : Stacks'[d] = IF d = c THEN Nothing ELSE Stacks[d]
<1>i. PICK i : i = Bindex(c, p, maxp)
  OBVIOUS
<1>s. PICK s : s = Bin(i)
  OBVIOUS
<1>m. PICK M : M = Mine(chunk, c)
  OBVIOUS
<1>t. PICK t : t = Stacks[c]
  OBVIOUS
<1>j. PICK J : J = Hits(c, i)
  OBVIOUS
<1>1. /\ i \in 0 .. bincount - 1 /\ t \in Seq(Buckets)
      /\ (\A e : In(t, e) <=> In(s, e) /\ e \in M) /\ J = Places(s, M)
  BY <1>i, <1>j, <1>m, <1>s, <1>t, FoundIsFirst
<1>g. PICK gone : gone = {s[j] : j \in J}
  OBVIOUS
<1>2. J \subseteq DOMAIN Bin(i)
  BY <1>1, <1>j, FirstHit
<1>3. Release(i, J) /\ answer' = answer
  BY <1>i, <1>j DEF DeleteAll
<1>4. TableInv' /\ Stacks' = Without(Stacks, gone)
  <2>1. gone = {Bin(i)[j] : j \in J}
    BY <1>g, <1>s
  <2>2. answer' \in {NULL} \cup Buckets
    BY <1>3 DEF TableInv, Inv
  <2> QED BY <2>1, <2>2, <1>1, <1>2, <1>3, ReleaseStep
<1>5. \A d \in Chunks : Stacks'[d] = Only(Stacks[d], Buckets \ gone)
  BY <1>4 DEF Without
<1>6. Only(t, Buckets \ gone) = Nothing
  <2>u. PICK u : u = Only(t, Buckets \ gone)
    OBVIOUS
  <2>1. u \in Seq(Buckets) /\ \A e : In(u, e) <=> In(t, e) /\ e \in Buckets \ gone
    BY <2>u, <1>1, OnlyIn
  <2>2. \A e : In(t, e) => e \in gone
    BY <1>1, <1>g DEF In, Places
  <2>3. \A e : ~In(u, e)
    BY <2>1, <2>2
  <2> QED BY <2>1, <2>3, <2>u, OnlyNone
<1>7. ASSUME NEW d \in Chunks, d # c PROVE Only(Stacks[d], Buckets \ gone) = Stacks[d]
  <2>1. \A b \in gone : b \in M
    BY <1>1, <1>g DEF Places
  <2>2. \A b \in gone : b \notin Mine(chunk, d)
    BY <2>1, <1>7, <1>m DEF Mine
  <2> QED BY <2>2, KeptStack
<1> QED BY <1>3, <1>4, <1>5, <1>6, <1>7, <1>t

\* the steps that leave the bins alone
LEMMA IdleStep ==
    ASSUME TableInv, AddNoBucket \/ UNCHANGED vars
    PROVE  TableInv' /\ Stacks' = Stacks /\ answer' = answer
<1>h. PICK held : held = Stacks
  OBVIOUS
<1>1. Inv(held)
  BY <1>h DEF TableInv
<1>2. /\ UNCHANGED <<chunk, segments, directory, directory_current, p, maxp, L, bincount>>
      /\ UNCHANGED <<count, answer>> /\ (status' = status \/ status' = "failed")
  BY DEF AddNoBucket, vars, geometry
<1>3. Inv(held)'
  BY <1>1, <1>2 DEF Inv
<1>4. Stacks' = held /\ TableInv'
  BY <1>3, StacksHeldNext
<1> QED BY <1>2, <1>4, <1>h

LEMMA NextStep == TableInv /\ [Next]_vars => TableInv'
BY AddStep, LookupStep, DeleteStep, DeleteAllStep, IdleStep DEF Next

\* What TableInv says in the words of Placed
LEMMA InvPlaced == TableInv => Placed
<1> SUFFICES ASSUME TableInv PROVE Placed
  OBVIOUS
<1>h. PICK held : held = Stacks
  OBVIOUS
<1>0. /\ Table(segments, directory, directory_current, chunk, p, maxp, bincount, held)
      /\ Snug(directory_current, bincount)
      /\ L \in Nat /\ maxp = SegLength * PowerOfTwo[L]
      /\ count = Cardinality(InUse(chunk))
      /\ answer \in {NULL} \cup Buckets
      /\ status \in {"ok", "failed", "crash"}
  BY <1>h DEF TableInv, Inv
<1>c. SegLength \in Nat \ {0}
  BY Constants
<1>t. PICK top : top = SegLength * directory_current
  OBVIOUS
<1>x. PICK bins : bins = Contents(segments, directory, directory_current)
  OBVIOUS
<1>1. /\ View(segments, directory, directory_current, top, bins)
      /\ directory_current \in Nat /\ top \in Nat /\ bincount \in Nat /\ p \in Nat /\ maxp \in Nat
      /\ p < maxp /\ bincount = maxp + p /\ bincount <= top /\ chunk \in Chunked
      /\ bins \in Bins(top) /\ Filed(bins, chunk, p, maxp, bincount)
      /\ \A i \in 0 .. top - 1 : bins[i] = BinAt(segments, directory, i)
  BY <1>0, <1>t, <1>x, TableType
<1>2. \A i \in 0 .. top - 1 : Bin(i) = bins[i]
  BY <1>1 DEF Bin, BinAt
<1>3. Linked(segments, directory, directory_current) /\ Spare(segments, directory)
  BY <1>1 DEF View
<1>4. /\ directory_length \in Nat /\ directory_current <= directory_length
      /\ directory \in [0 .. directory_length - 1 -> {NULL} \cup DOMAIN segments]
  BY <1>3, DirectoryLength DEF directory_length
<1>5. /\ segments \in Seq(Segment)
      /\ \A i \in DOMAIN directory : directory[i] # NULL <=> i < directory_current
      /\ \A i, j \in 0 .. directory_current - 1 : directory[i] = directory[j] => i = j
  BY <1>3 DEF Linked
<1>6. directory_current * SegLength = top
  BY <1>1, <1>c, <1>t
<1>7. directory_current * SegLength < bincount + SegLength
  BY <1>0, <1>6, <1>t DEF Snug
<1>8. TypeOK
  <2>1. chunk \in [Buckets -> Chunks \cup {NULL}]
    BY <1>1 DEF Chunked
  <2>2. {directory_current, p, maxp, L, count, bincount} \subseteq Nat
    BY <1>0, <1>1, FiniteBuckets
  <2>3. maxp = N * PowerOfTwo[L]
    BY <1>0 DEF N
  <2> QED BY <1>0, <1>1, <1>4, <1>5, <1>6, <1>7, <2>1, <2>2, <2>3 DEF TypeOK
<1>9. ASSUME NEW b \in Buckets, chunk[b] # NULL
      PROVE  b \in ToSet(Bin(Bindex(chunk[b], p, maxp)))
  <2>c. PICK c \in Chunks : c = chunk[b]
    BY <1>1, <1>9 DEF Chunked
  <2>i. PICK i : i = Bindex(c, p, maxp)
    OBVIOUS
  <2>1. i \in 0 .. bincount - 1
    BY <2>i, BinOfChunk
  <2>2. In(bins[i], b)
    BY <1>1, <1>9, <2>c, <2>i DEF Filed
  <2>3. Bin(i) = bins[i]
    BY <2>1, <1>1, <1>2
  <2>4. b \in ToSet(Bin(i))
    BY <2>2, <2>3 DEF In, ToSet
  <2> QED BY <2>4, <2>c, <2>i
<1>10. ASSUME NEW i \in 0 .. bincount - 1, NEW j \in DOMAIN Bin(i)
       PROVE  /\ chunk[Bin(i)[j]] # NULL
              /\ Bindex(chunk[Bin(i)[j]], p, maxp) = i
              /\ \A k \in DOMAIN Bin(i) : Bin(i)[j] = Bin(i)[k] => j = k
  BY InvBins DEF Once
<1>11. \A i \in bincount .. directory_current * SegLength - 1 : Bin(i) = <<>>
  <2>1. \A i \in bincount .. top - 1 : i \in DOMAIN bins /\ i >= bincount /\ i \in 0 .. top - 1
    BY <1>1 DEF Bins
  <2>2. \A i \in bincount .. top - 1 : bins[i] = <<>>
    BY <2>1, <1>1 DEF Filed
  <2> QED BY <2>1, <2>2, <1>2, <1>6
<1>12. \A s \in FreeSegments(directory) : segments[s] = Empty
  BY <1>3 DEF FreeSegments, Spare
<1>13. count = Cardinality({b \in Buckets : chunk[b] # NULL})
  BY <1>0 DEF InUse
<1> QED BY <1>8, <1>9, <1>10, <1>11, <1>12, <1>13 DEF Placed

LEMMA TableInvHolds == Spec => []TableInv
BY InitTable, NextStep, PTL DEF Spec

\* However the bins are split and merged, and whichever memory is refused, a bucket in use
\* stays in the bin that metadata_bindex computes for its chunk, and nowhere else; and the
\* bins that are out of use are empty (metadata.c 622).
THEOREM PlacedAlways == Spec => []Placed
BY TableInvHolds, InvPlaced, PTL

(***************************************************************************)
(* The table implements the map                                            *)
(***************************************************************************)
LEMMA InitIsMaps == Init => Map!Init
<1> SUFFICES ASSUME Init PROVE Map!Init
  OBVIOUS
<1>1. TableInv
  BY InitTable
<1>2. Stacks = [c \in Chunks |-> Nothing]
  <2>1. ASSUME NEW c \in Chunks PROVE Stacks[c] = Nothing
    <3>1. \A b \in Buckets : chunk[b] = NULL
      BY DEF Init
    <3>2. c # NULL
      BY Constants
    <3>3. Mine(chunk, c) = {}
      BY <3>1, <3>2 DEF Mine
    <3>i. PICK i : i = Bindex(c, p, maxp)
      OBVIOUS
    <3>s. PICK s : s = Bin(i)
      OBVIOUS
    <3>t. PICK t : t = Stacks[c]
      OBVIOUS
    <3>4. t \in Seq(Buckets) /\ \A e : In(t, e) <=> In(s, e) /\ e \in Mine(chunk, c)
      BY <1>1, <3>i, <3>s, <3>t, FoundIsFirst
    <3>5. \A e : ~In(t, e)
      BY <3>3, <3>4
    <3> QED BY <3>4, <3>5, <3>t, OnlyNone
  <2> QED BY <2>1 DEF Stacks
<1> QED BY <1>2 DEF Map!Init, Stacks, Nothing, Init

LEMMA StepIsMaps == TableInv /\ [Next]_vars => [Map!Next]_<<Stacks, answer>>
<1> SUFFICES ASSUME TableInv, [Next]_vars PROVE Map!Next \/ UNCHANGED <<Stacks, answer>>
  OBVIOUS
<1>1. CASE AddNoBucket \/ UNCHANGED vars
  BY <1>1, IdleStep
<1>2. ASSUME NEW c \in Chunks, Add(c) PROVE \E b \in Buckets : Map!Add(c, b)
  <2>1. PICK b \in Buckets : chunk[b] = NULL /\ Stacks' = Pushed(Stacks, c, b)
    BY <1>2, AddStep
  <2>2. answer' = answer
    BY <1>2, AddStep
  <2>3. \A d \in Chunks : \A k \in DOMAIN Stacks[d] : Stacks[d][k] # b
    <3> SUFFICES ASSUME NEW d \in Chunks, NEW k \in DOMAIN Stacks[d], Stacks[d][k] = b
                 PROVE  FALSE
      OBVIOUS
    <3>i. PICK i : i = Bindex(d, p, maxp)
      OBVIOUS
    <3>s. PICK s : s = Bin(i)
      OBVIOUS
    <3>1. \A e : In(Stacks[d], e) <=> In(s, e) /\ e \in Mine(chunk, d)
      BY <3>i, <3>s, FoundIsFirst
    <3>2. In(Stacks[d], b)
      BY DEF In
    <3>3. chunk[b] = d
      BY <3>1, <3>2 DEF Mine
    <3> QED BY <3>3, <2>1, Constants
  <2> QED BY <2>1, <2>2, <2>3 DEF Map!Add, Stacks, Pushed, InFront
<1>3. ASSUME NEW c \in Chunks, Lookup(c) PROVE Map!Lookup(c)
  <2>i. PICK i : i = Bindex(c, p, maxp)
    OBVIOUS
  <2>1. Stacks' = Stacks
    BY <1>3, LookupStep
  <2>2. answer' = Found(c, i)
    BY <1>3, <2>i DEF Lookup
  <2>3. Found(c, i) = IF Stacks[c] = Nothing THEN NULL ELSE Head(Stacks[c])
    BY <2>i, FoundIsFirst
  <2> QED BY <2>1, <2>2, <2>3 DEF Map!Lookup, Map!First, Stacks, Nothing
<1>4. ASSUME NEW c \in Chunks, Delete(c) PROVE Map!Delete(c)
  <2>1. /\ answer' = IF Stacks[c] = Nothing THEN NULL ELSE Head(Stacks[c])
        /\ \A d \in Chunks :
              Stacks'[d] = IF d = c /\ Stacks[c] # Nothing THEN Tail(Stacks[c]) ELSE Stacks[d]
    BY <1>4, DeleteStep
  <2>2. Stacks' = [Stacks EXCEPT ![c] = IF @ = Nothing THEN @ ELSE Tail(@)]
    BY <2>1 DEF Stacks
  <2> QED BY <2>1, <2>2 DEF Map!Delete, Map!First, Stacks, Nothing
<1>5. ASSUME NEW c \in Chunks, DeleteAll(c) PROVE Map!DeleteAll(c)
  <2>1. /\ answer' = answer
        /\ \A d \in Chunks : Stacks'[d] = IF d = c THEN Nothing ELSE Stacks[d]
    BY <1>5, DeleteAllStep
  <2>2. Stacks' = [Stacks EXCEPT ![c] = Nothing]
    BY <2>1 DEF Stacks
  <2> QED BY <2>1, <2>2 DEF Map!DeleteAll, Stacks, Nothing
<1> QED BY <1>1, <1>2, <1>3, <1>4, <1>5 DEF Next, Map!Next

\* The arena gets from the table what it would from a map: the bucket added last for a
\* chunk is the one a lookup or a deletion finds, through any split, merge, move to the
\* front and refused expansion.
THEOREM ImplementsMap == Spec => IsMap
<1>1. Init => Map!Init
  BY InitIsMaps
<1>2. TableInv /\ [Next]_vars => [Map!Next]_<<Stacks, answer>>
  BY StepIsMaps
<1> QED BY <1>1, <1>2, TableInvHolds, PTL DEF Spec, IsMap, Map!Spec, Stacks
=============================================================================
