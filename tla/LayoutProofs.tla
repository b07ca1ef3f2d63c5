------------------------------ MODULE LayoutProofs ------------------------------
(***************************************************************************)
(* What the operators of ChunkHeap on metadata records and on bins do to   *)
(* the layout of a heap: the chunks tile the memory, md_next and md_prev   *)
(* link them in order, and prev_inuse and prev_size of every chunk agree   *)
(* with the bins.                                                          *)
(*                                                                         *)
(* The predicates take the records m, the top chunk t, the last fenceposts *)
(* sm, the memory own and the sets of chunks that are binned, in fastbins  *)
(* and in use, so that every lemma can be cited for any intermediate value *)
(* of the records within one step of the program.                          *)
(***************************************************************************)
EXTENDS ChunkHeap, FiniteSetTheorems, SequenceTheorems, WellFoundedInduction, TLAPS

(***************************************************************************)
(* The layout                                                              *)
(***************************************************************************)
ChunksOf(m) == DOMAIN m \ {InitialTop}

\* sizes, the top chunk and the fenceposts
Shape(m, t, sm) ==
    /\ m \in [DOMAIN m -> Chunk]
    /\ ChunksOf(m) \subseteq Nat
    /\ InitialTop \in DOMAIN m /\ m[InitialTop].size = 0
    /\ \A p \in ChunksOf(m) : m[p].size >= 1
    /\ t \in DOMAIN m
    /\ t = InitialTop => ChunksOf(m) = {}
    /\ sm \subseteq ChunksOf(m) \ {t}
    /\ \A p \in sm : m[p].size = 1

\* md_next and md_prev
Links(m, t, sm) ==
    /\ m[t].md_next = NULL
    /\ \A p \in ChunksOf(m) \ {t} :
          /\ m[p].md_next \in ChunksOf(m) \ {p}
          /\ m[m[p].md_next].md_prev = p
          /\ p \notin sm => m[p].md_next = p + m[p].size
    /\ \A p \in ChunksOf(m) :
          m[p].md_prev # NULL
             => m[p].md_prev \in ChunksOf(m) /\ m[m[p].md_prev].md_next = p

\* no two chunks overlap
Apart(m) ==
    \A p, q \in ChunksOf(m) : p # q => p + m[p].size <= q \/ q + m[q].size <= p

\* the chunks are the memory
Covers(m, own) ==
    /\ own \subseteq Nat
    /\ \A x \in Nat : x \in own <=> \E p \in ChunksOf(m) : p <= x /\ x < p + m[p].size

Geo(m, t, sm, own) == Shape(m, t, sm) /\ Links(m, t, sm) /\ Apart(m) /\ Covers(m, own)

\* prev_inuse and prev_size of p tell of the chunk before p
Right(m, B, p) ==
    /\ m[p].prev_inuse <=> m[p].md_prev \notin B
    /\ m[p].md_prev \in B => m[p].prev_size = m[m[p].md_prev].size

\* The tags are right, but perhaps at the chunks of X; no binned chunk borders another
\* one, nor the top.
TagsBut(m, t, B, X) ==
    /\ B \subseteq ChunksOf(m) \ {t}
    /\ \A p \in ChunksOf(m) \ X : Right(m, B, p)
    /\ \A p \in B : m[p].md_prev \notin B /\ m[p].md_next # t

Tagged(m, t, sm, own, B, X) == Geo(m, t, sm, own) /\ TagsBut(m, t, B, X)

\* Every chunk is in a bin, in a fastbin or in use, or it is the top chunk, or it is too
\* small for anything else.
Places(m, t, B, F, L) ==
    /\ B \cap F = {} /\ (B \cup F) \cap L = {} /\ t \notin B \cup F \cup L
    /\ B \cup F \cup L \subseteq ChunksOf(m)
    /\ t # InitialTop => m[t].size >= MINSIZE
    /\ \A p \in ChunksOf(m) \ {t} :
          IF p \in B \cup F \cup L THEN m[p].size >= MINSIZE ELSE m[p].size = 1

HeapBut(m, t, sm, own, B, F, L, X) == Tagged(m, t, sm, own, B, X) /\ Places(m, t, B, F, L)
Heap(m, t, sm, own, B, F, L) == HeapBut(m, t, sm, own, B, F, L, {})

\* the sizes of all chunks but those of S are the same in z as in m
SameSizes(m, z, S) == \A x \in DOMAIN m \ S : x \in DOMAIN z /\ z[x].size = m[x].size

(***************************************************************************)
(* What lies where in the records after each operator                      *)
(***************************************************************************)
LEMMA Distinct ==
    /\ NULL = -1 /\ InitialTop = -2 /\ MINSIZE = 2 /\ NULL \notin Nat /\ InitialTop \notin Nat
    /\ NULL # InitialTop
BY DEF NULL, InitialTop, MINSIZE

\* A chunk other than the top is followed by another one.
LEMMA NextChunk ==
    ASSUME NEW m, NEW t, NEW sm, NEW own, Geo(m, t, sm, own),
           NEW p \in ChunksOf(m), p # t
    PROVE  /\ m[p].md_next \in ChunksOf(m) /\ m[p].md_next \in DOMAIN m
           /\ m[p].md_next # p /\ m[p].md_next \in Nat /\ m[p].md_next # NULL
           /\ m[m[p].md_next].md_prev = p
<1>1. m[p].md_next \in ChunksOf(m) /\ m[m[p].md_next].md_prev = p
  BY DEF Geo, Links
<1>2. ChunksOf(m) \subseteq Nat /\ ChunksOf(m) \subseteq DOMAIN m
  BY DEF Geo, Shape, ChunksOf
<1>3. m[p].md_next # p
  BY DEF Geo, Links
<1> QED BY <1>1, <1>2, <1>3, Distinct

\* Two records that agree on what the links are made of, and on the tags.
SameGeo(c, d)  == c.size = d.size /\ c.md_next = d.md_next /\ c.md_prev = d.md_prev
SameTags(c, d) == c.prev_inuse = d.prev_inuse /\ c.prev_size = d.prev_size

\* One field of one record changes.
LEMMA PutSize ==
    ASSUME NEW c \in Chunk, NEW v \in Nat, NEW d, d = [c EXCEPT !.size = v]
    PROVE  d \in Chunk /\ SameTags(d, c) /\ d.size = v
           /\ d.md_next = c.md_next /\ d.md_prev = c.md_prev
BY DEF Chunk, SameTags

LEMMA PutNext ==
    ASSUME NEW c \in Chunk, NEW v \in Int, NEW d, d = [c EXCEPT !.md_next = v]
    PROVE  d \in Chunk /\ SameTags(d, c) /\ d.md_next = v
           /\ d.size = c.size /\ d.md_prev = c.md_prev
BY DEF Chunk, SameTags

LEMMA PutPrev ==
    ASSUME NEW c \in Chunk, NEW v \in Int, NEW d, d = [c EXCEPT !.md_prev = v]
    PROVE  d \in Chunk /\ SameTags(d, c) /\ d.md_prev = v
           /\ d.size = c.size /\ d.md_next = c.md_next
BY DEF Chunk, SameTags

LEMMA PutInuse ==
    ASSUME NEW c \in Chunk, NEW v \in BOOLEAN, NEW d, d = [c EXCEPT !.prev_inuse = v]
    PROVE  d \in Chunk /\ SameGeo(d, c) /\ d.prev_inuse = v /\ d.prev_size = c.prev_size
BY DEF Chunk, SameGeo

LEMMA PutPrevSize ==
    ASSUME NEW c \in Chunk, NEW v \in Nat, NEW d, d = [c EXCEPT !.prev_size = v]
    PROVE  d \in Chunk /\ SameGeo(d, c) /\ d.prev_size = v /\ d.prev_inuse = c.prev_inuse
BY DEF Chunk, SameGeo

LEMMA PutAt ==
    ASSUME NEW D, NEW m \in [D -> Chunk], NEW p \in D, NEW c \in Chunk, NEW e,
           e = [m EXCEPT ![p] = c]
    PROVE  /\ e \in [D -> Chunk] /\ DOMAIN e = D
           /\ e[p] = c /\ \A x \in D \ {p} : e[x] = m[x]
OBVIOUS

\* The records z after m when p has been cut off at the address r
Carved(m, p, r, z) ==
    /\ r \notin DOMAIN m /\ r \in Nat
    /\ DOMAIN z = DOMAIN m \cup {r} /\ z \in [DOMAIN z -> Chunk]
    /\ z[p].size = r - p /\ z[p].md_next = r /\ z[p].md_prev = m[p].md_prev
    /\ SameTags(z[p], m[p])
    /\ z[r].size = p + m[p].size - r /\ z[r].md_next = m[p].md_next /\ z[r].md_prev = p
    /\ z[r].prev_inuse = TRUE /\ z[r].prev_size = 0
    /\ \A x \in DOMAIN m \ {p} :
          /\ z[x].size = m[x].size /\ z[x].md_next = m[x].md_next
          /\ z[x].md_prev = (IF x = m[p].md_next THEN r ELSE m[x].md_prev)
          /\ SameTags(z[x], m[x])

\* The records z after m when n, the chunk behind p, has been taken out of the list;
\* the size of p is still to be set.
Absorbed(m, p, n, z) ==
    /\ DOMAIN z = DOMAIN m \ {n} /\ z \in [DOMAIN z -> Chunk]
    /\ z[p].size = m[p].size /\ z[p].md_next = m[n].md_next /\ z[p].md_prev = m[p].md_prev
    /\ SameTags(z[p], m[p])
    /\ \A x \in DOMAIN m \ {n, p} :
          /\ z[x].size = m[x].size /\ z[x].md_next = m[x].md_next
          /\ z[x].md_prev = (IF x = m[n].md_next THEN p ELSE m[x].md_prev)
          /\ SameTags(z[x], m[x])

\* The same, with the size of p set: it now has the memory of n too.
Merged(m, p, n, z) ==
    /\ DOMAIN z = DOMAIN m \ {n} /\ z \in [DOMAIN z -> Chunk]
    /\ z[p].size = m[p].size + m[n].size
    /\ z[p].md_next = m[n].md_next /\ z[p].md_prev = m[p].md_prev
    /\ \A x \in DOMAIN m \ {n, p} :
          /\ z[x].size = m[x].size /\ z[x].md_next = m[x].md_next
          /\ z[x].md_prev = (IF x = m[n].md_next THEN p ELSE m[x].md_prev)

\* The records z after m when the top chunk t has been given the size size
Resized(m, t, size, z) ==
    /\ DOMAIN z = DOMAIN m /\ z \in [DOMAIN z -> Chunk]
    /\ z[t].size = size /\ z[t].md_next = m[t].md_next /\ z[t].md_prev = m[t].md_prev
    /\ \A x \in DOMAIN m \ {t} : SameGeo(z[x], m[x])

\* The records z after m when the chunk base has been made the top chunk, behind t
\* unless that was the initial one
Topped(m, t, base, size, z) ==
    /\ DOMAIN z = DOMAIN m \cup {base} /\ z \in [DOMAIN z -> Chunk]
    /\ z[base].size = size /\ z[base].md_next = NULL
    /\ z[base].md_prev = (IF t = InitialTop THEN NULL ELSE t)
    /\ \A x \in DOMAIN m :
          /\ z[x].size = m[x].size /\ z[x].md_prev = m[x].md_prev
          /\ z[x].md_next = (IF x = t /\ t # InitialTop THEN base ELSE m[x].md_next)

\* Carve: p keeps nb units, the chunk p + nb has the rest.
LEMMA CarveIs ==
    ASSUME NEW m, NEW t, NEW sm, NEW own, Geo(m, t, sm, own),
           NEW p \in ChunksOf(m), NEW nb \in Nat, 0 < nb, nb < m[p].size,
           NEW z, z = Carve(m, p, nb), NEW r, r = p + nb
    PROVE  Carved(m, p, r, z)
<1>n. PICK n : n = m[p].md_next
  OBVIOUS
<1>c. PICK c : c = [size |-> m[p].size - nb, prev_inuse |-> TRUE, prev_size |-> 0,
                  md_next |-> n, md_prev |-> p]
  OBVIOUS
<1>1. /\ m \in [DOMAIN m -> Chunk] /\ p \in Nat /\ p \in DOMAIN m /\ m[p] \in Chunk
      /\ ChunksOf(m) \subseteq Nat
  BY DEF Geo, Shape, ChunksOf
<1>2. m[p].size \in Nat /\ n \in Int
  BY <1>1, <1>n DEF Chunk
<1>3. r \in Nat /\ r \in Int /\ r # p /\ p < r /\ r < p + m[p].size
  BY <1>1, <1>2
<1>4. r \notin DOMAIN m
  <2> SUFFICES ASSUME r \in DOMAIN m PROVE FALSE
    OBVIOUS
  <2>1. r \in ChunksOf(m)
    BY <1>3, Distinct DEF ChunksOf
  <2>2. p + m[p].size <= r \/ r + m[r].size <= p
    BY <2>1, <1>3 DEF Geo, Apart
  <2>3. m[r].size \in Nat
    BY <1>1 DEF Chunk
  <2> QED BY <2>2, <2>3, <1>1, <1>2, <1>3
<1>5. n = NULL \/ (n \in DOMAIN m /\ n # p /\ n # r /\ n # NULL)
  <2>1. CASE p = t
    BY <2>1, <1>n DEF Geo, Links
  <2>2. CASE p # t
    BY <2>2, <1>4, <1>n, NextChunk
  <2> QED BY <2>1, <2>2
<1>6. /\ c \in Chunk
      /\ c.size = m[p].size - nb /\ c.md_next = n /\ c.md_prev = p
      /\ c.prev_inuse = TRUE /\ c.prev_size = 0
  BY <1>1, <1>2, <1>c DEF Chunk
<1>d. PICK c1 : c1 = [m[p] EXCEPT !.size = nb]
  OBVIOUS
<1>e. PICK c2 : c2 = [c1 EXCEPT !.md_next = r]
  OBVIOUS
<1>f. PICK e : e = [m EXCEPT ![p].size = nb, ![p].md_next = r]
  OBVIOUS
<1>s. PICK s : s = Register(e, r, c)
  OBVIOUS
<1>7. c1 \in Chunk /\ SameTags(c1, m[p]) /\ c1.size = nb
      /\ c1.md_next = m[p].md_next /\ c1.md_prev = m[p].md_prev
  BY <1>1, <1>d, PutSize
<1>8. c2 \in Chunk /\ SameTags(c2, m[p]) /\ c2.size = nb
      /\ c2.md_next = r /\ c2.md_prev = m[p].md_prev
  <2>1. c2 \in Chunk /\ SameTags(c2, c1) /\ c2.size = c1.size
        /\ c2.md_next = r /\ c2.md_prev = c1.md_prev
    BY <1>7, <1>3, <1>e, PutNext
  <2> QED BY <2>1, <1>7 DEF SameTags
<1>9. e \in [DOMAIN m -> Chunk] /\ e[p] = c2 /\ \A x \in DOMAIN m \ {p} : e[x] = m[x]
  <2>1. e = [m EXCEPT ![p] = c2]
    BY <1>1, <1>d, <1>e, <1>f
  <2> QED BY <2>1, <1>8, <1>1, PutAt
<1>10. /\ s \in [DOMAIN m \cup {r} -> Chunk] /\ s[p] = c2 /\ s[r] = c
       /\ \A x \in DOMAIN m \ {p} : s[x] = m[x]
  <2>1. e \in [DOMAIN m -> Chunk] /\ c \in Chunk
    BY <1>9, <1>6
  <2>2. /\ s \in [DOMAIN m \cup {r} -> Chunk] /\ s[r] = c
        /\ \A x \in DOMAIN m \ {r} : s[x] = e[x]
    BY <2>1, <1>s DEF Register
  <2> QED BY <2>2, <1>9, <1>4, <1>3, <1>1
<1>11. z = IF n = NULL THEN s ELSE [s EXCEPT ![n].md_prev = r]
  BY <1>n, <1>c, <1>f, <1>s DEF Carve
<1>12. CASE n = NULL
  <2>1. z = s /\ NULL \notin DOMAIN m
    BY <1>11, <1>12, <1>1, Distinct DEF ChunksOf
  <2>2. ASSUME NEW x \in DOMAIN m \ {p}
        PROVE  /\ z[x].size = m[x].size /\ z[x].md_next = m[x].md_next
               /\ z[x].md_prev = (IF x = m[p].md_next THEN r ELSE m[x].md_prev)
               /\ SameTags(z[x], m[x])
    <3>1. x # n /\ z[x] = m[x]
      BY <2>1, <1>10, <1>12
    <3> QED BY <3>1, <1>n DEF SameTags
  <2>3. DOMAIN z = DOMAIN m \cup {r} /\ z \in [DOMAIN z -> Chunk] /\ z[p] = c2 /\ z[r] = c
    BY <2>1, <1>10
  <2>4. m[p].size - nb = p + m[p].size - r /\ nb = r - p
    BY <1>1, <1>2
  <2> QED BY <2>2, <2>3, <2>4, <1>8, <1>6, <1>4, <1>3, <1>n DEF Carved
<1>13. CASE n # NULL
  <2>d. PICK d : d = [m[n] EXCEPT !.md_prev = r]
    OBVIOUS
  <2>1. n \in DOMAIN m /\ n # p /\ n # r /\ s[n] = m[n] /\ m[n] \in Chunk
    BY <1>10, <1>5, <1>13, <1>1
  <2>2. d \in Chunk /\ SameTags(d, m[n]) /\ d.md_prev = r
        /\ d.size = m[n].size /\ d.md_next = m[n].md_next
    BY <2>1, <1>3, <2>d, PutPrev
  <2>3. z = [s EXCEPT ![n] = d]
    BY <1>11, <1>13, <2>1, <1>10, <2>d
  <2>4. /\ DOMAIN s = DOMAIN m \cup {r} /\ z \in [DOMAIN s -> Chunk] /\ z[n] = d
        /\ \A x \in DOMAIN s \ {n} : z[x] = s[x]
    <3>1. DOMAIN s = DOMAIN m \cup {r} /\ s \in [DOMAIN s -> Chunk] /\ n \in DOMAIN s
      BY <2>1, <1>10
    <3> QED BY <3>1, <2>3, <2>2, PutAt
  <2>5. ASSUME NEW x \in DOMAIN m \ {p}
        PROVE  /\ z[x].size = m[x].size /\ z[x].md_next = m[x].md_next
               /\ z[x].md_prev = (IF x = m[p].md_next THEN r ELSE m[x].md_prev)
               /\ SameTags(z[x], m[x])
    <3>1. CASE x = n
      BY <3>1, <2>4, <2>2, <1>n
    <3>2. CASE x # n
      <4>1. z[x] = m[x]
        BY <3>2, <2>4, <1>10
      <4> QED BY <4>1, <3>2, <1>n DEF SameTags
    <3> QED BY <3>1, <3>2
  <2>6. DOMAIN z = DOMAIN m \cup {r} /\ z \in [DOMAIN z -> Chunk] /\ z[p] = c2 /\ z[r] = c
    BY <2>4, <2>1, <1>10, <1>1
  <2>7. m[p].size - nb = p + m[p].size - r /\ nb = r - p
    BY <1>1, <1>2
  <2> QED BY <2>5, <2>6, <2>7, <1>8, <1>6, <1>4, <1>3, <1>n DEF Carved
<1> QED BY <1>12, <1>13

\* Absorb: n disappears, p is followed by what followed n.
LEMMA AbsorbIs ==
    ASSUME NEW D, NEW m \in [D -> Chunk], NEW p \in D, NEW n \in D, p # n, NULL \notin D,
           D \subseteq Int, NEW nn, nn = m[n].md_next, nn # p, nn # n,
           nn = NULL \/ nn \in D, NEW z, z = Absorb(m, p, n)
    PROVE  Absorbed(m, p, n, z)
<1>c. PICK c : c = [m[p] EXCEPT !.md_next = nn]
  OBVIOUS
<1>s. PICK s : s = [m EXCEPT ![p].md_next = nn]
  OBVIOUS
<1>1. m[p] \in Chunk /\ nn \in Int /\ p \in Int
  <2>1. m[p] \in Chunk
    OBVIOUS
  <2>2. NULL \in Int
    BY DEF NULL
  <2>3. D \subseteq Int => nn \in Int /\ p \in Int
    BY <2>2
  <2> QED BY <2>1, <2>3
<1>2. c \in Chunk /\ SameTags(c, m[p]) /\ c.md_next = nn
      /\ c.size = m[p].size /\ c.md_prev = m[p].md_prev
  BY <1>1, <1>c, PutNext
<1>3. s \in [D -> Chunk] /\ s[p] = c /\ \A x \in D \ {p} : s[x] = m[x]
  <2>1. s = [m EXCEPT ![p] = c]
    BY <1>s, <1>c
  <2> QED BY <2>1, <1>2
<1>4. z = Unregister(IF nn = NULL THEN s ELSE [s EXCEPT ![nn].md_prev = p], n)
  BY <1>s DEF Absorb
<1>5. CASE nn = NULL
  <2>1. z = Unregister(s, n)
    BY <1>4, <1>5
  <2>2. z \in [D \ {n} -> Chunk] /\ \A x \in D \ {n} : z[x] = s[x]
    BY <2>1, <1>3 DEF Unregister
  <2>3. ASSUME NEW x \in D \ {n, p}
        PROVE  /\ z[x].size = m[x].size /\ z[x].md_next = m[x].md_next
               /\ z[x].md_prev = (IF x = nn THEN p ELSE m[x].md_prev)
               /\ SameTags(z[x], m[x])
    <3>1. x # nn /\ z[x] = m[x]
      BY <2>2, <1>3, <1>5
    <3> QED BY <3>1 DEF SameTags
  <2>4. z[p] = c
    BY <2>2, <1>3
  <2> QED BY <2>2, <2>3, <2>4, <1>2 DEF Absorbed
<1>6. CASE nn # NULL
  <2>d. PICK d : d = [m[nn] EXCEPT !.md_prev = p]
    OBVIOUS
  <2>e. PICK e : e = [s EXCEPT ![nn] = d]
    OBVIOUS
  <2>1. nn \in D /\ s[nn] = m[nn] /\ m[nn] \in Chunk
    BY <1>6, <1>3
  <2>2. d \in Chunk /\ SameTags(d, m[nn]) /\ d.md_prev = p
        /\ d.size = m[nn].size /\ d.md_next = m[nn].md_next
    BY <2>1, <1>1, <2>d, PutPrev
  <2>3. z = Unregister(e, n)
    <3>1. [s EXCEPT ![nn].md_prev = p] = e
      BY <2>1, <2>d, <2>e
    <3> QED BY <3>1, <1>4, <1>6
  <2>4. e \in [D -> Chunk] /\ e[nn] = d /\ \A x \in D \ {nn} : e[x] = s[x]
    BY <2>e, <2>2, <2>1, <1>3
  <2>5. z \in [D \ {n} -> Chunk] /\ \A x \in D \ {n} : z[x] = e[x]
    BY <2>3, <2>4 DEF Unregister
  <2>6. ASSUME NEW x \in D \ {n, p}
        PROVE  /\ z[x].size = m[x].size /\ z[x].md_next = m[x].md_next
               /\ z[x].md_prev = (IF x = nn THEN p ELSE m[x].md_prev)
               /\ SameTags(z[x], m[x])
    <3>1. CASE x = nn
      BY <3>1, <2>5, <2>4, <2>2
    <3>2. CASE x # nn
      <4>1. z[x] = m[x]
        BY <3>2, <2>5, <2>4, <1>3
      <4> QED BY <4>1, <3>2 DEF SameTags
    <3> QED BY <3>1, <3>2
  <2>7. z[p] = c
    BY <2>5, <2>4, <1>3
  <2> QED BY <2>5, <2>6, <2>7, <1>2 DEF Absorbed
<1> QED BY <1>5, <1>6

(***************************************************************************)
(* The geometry after each operator                                        *)
(***************************************************************************)
\* What the geometry says of one chunk.
LEMMA OneChunk ==
    ASSUME NEW m, NEW t, NEW sm, NEW own, Geo(m, t, sm, own), NEW p \in ChunksOf(m)
    PROVE  /\ p \in DOMAIN m /\ p \in Nat /\ p # NULL /\ p # InitialTop
           /\ m[p] \in Chunk /\ m[p].size \in Nat /\ m[p].size >= 1
           /\ t # InitialTop /\ t \in ChunksOf(m)
<1>1. p \in DOMAIN m /\ p \in Nat /\ p # InitialTop /\ p # NULL
  BY Distinct DEF Geo, Shape, ChunksOf
<1>2. m[p] \in Chunk
  BY <1>1 DEF Geo, Shape
<1>3. m[p].size \in Nat /\ m[p].size >= 1
  BY <1>2 DEF Geo, Shape, Chunk
<1>4. t # InitialTop /\ t \in DOMAIN m
  BY DEF Geo, Shape
<1> QED BY <1>1, <1>2, <1>3, <1>4 DEF ChunksOf

\* The geometry depends on sizes and links only.
LEMMA GeoSame ==
    ASSUME NEW m, NEW t, NEW sm, NEW own, Geo(m, t, sm, own),
           NEW z \in [DOMAIN m -> Chunk], \A x \in DOMAIN m : SameGeo(z[x], m[x])
    PROVE  Geo(z, t, sm, own)
<1>1. DOMAIN z = DOMAIN m /\ ChunksOf(z) = ChunksOf(m) /\ ChunksOf(m) \subseteq DOMAIN m
  BY DEF ChunksOf
<1>2. \A x \in DOMAIN m : z[x].size = m[x].size /\ z[x].md_next = m[x].md_next
                          /\ z[x].md_prev = m[x].md_prev
  BY DEF SameGeo
<1>3. Shape(z, t, sm)
  BY <1>1, <1>2 DEF Geo, Shape
<1>4. Links(z, t, sm)
  <2>1. t \in DOMAIN m
    BY DEF Geo, Shape
  <2> QED BY <1>1, <1>2, <2>1 DEF Geo, Links
<1>5. Apart(z)
  BY <1>1, <1>2 DEF Geo, Apart
<1>6. Covers(z, own)
  BY <1>1, <1>2 DEF Geo, Covers
<1> QED BY <1>3, <1>4, <1>5, <1>6 DEF Geo

\* A chunk that is no fencepost is split.
LEMMA GeoCarve ==
    ASSUME NEW m, NEW t, NEW sm, NEW own, Geo(m, t, sm, own),
           NEW p \in ChunksOf(m) \ sm, NEW nb \in Nat, 0 < nb, nb < m[p].size,
           NEW z, z = Carve(m, p, nb), NEW r, r = p + nb
    PROVE  Geo(z, IF p = t THEN r ELSE t, sm, own)
<1>t. PICK t2 : t2 = IF p = t THEN r ELSE t
  OBVIOUS
<1>n. PICK n : n = m[p].md_next
  OBVIOUS
<1>c. PICK C : C = ChunksOf(m)
  OBVIOUS
<1>0. p \in ChunksOf(m)
  OBVIOUS
<1>1. /\ p \in DOMAIN m /\ p \in Nat /\ p # NULL /\ p # InitialTop
      /\ m[p].size \in Nat /\ m[p].size >= 1 /\ t # InitialTop /\ t \in C
  BY OneChunk, <1>c
<1>k. Carved(m, p, r, z)
  BY <1>0, CarveIs
<1>2. /\ r \notin DOMAIN m /\ r \in Nat
      /\ DOMAIN z = DOMAIN m \cup {r} /\ z \in [DOMAIN z -> Chunk]
      /\ z[p].size = nb /\ z[p].md_next = r /\ z[p].md_prev = m[p].md_prev
      /\ z[r].size = m[p].size - nb /\ z[r].md_next = n /\ z[r].md_prev = p
  BY <1>k, <1>n, <1>1 DEF Carved
<1>3. \A x \in DOMAIN m \ {p} :
         /\ z[x].size = m[x].size /\ z[x].md_next = m[x].md_next
         /\ z[x].md_prev = (IF x = n THEN r ELSE m[x].md_prev)
  BY <1>k, <1>n DEF Carved
<1>4. /\ C \subseteq Nat /\ C \subseteq DOMAIN m /\ \A x \in C : m[x].size \in Nat
      /\ ChunksOf(z) = C \cup {r} /\ r \notin C /\ r # p /\ p \in C
  <2>1. \A x \in ChunksOf(m) : x \in Nat /\ x \in DOMAIN m /\ m[x].size \in Nat
    BY OneChunk
  <2>2. r # InitialTop
    BY <1>2, Distinct
  <2>3. ChunksOf(z) = C \cup {r}
    BY <1>2, <1>c, <2>2 DEF ChunksOf
  <2> QED BY <2>1, <2>3, <1>2, <1>1, <1>c
<1>5. Shape(z, t2, sm)
  <2>1. InitialTop \in DOMAIN z /\ z[InitialTop].size = 0
    BY <1>1, <1>2, <1>3 DEF Geo, Shape
  <2>2. \A x \in ChunksOf(z) : z[x].size >= 1
    <3>1. \A x \in C \ {p} : z[x].size >= 1
      BY <1>3, <1>4, <1>c DEF Geo, Shape
    <3>2. z[p].size >= 1 /\ z[r].size >= 1
      BY <1>1, <1>2
    <3> QED BY <3>1, <3>2, <1>4
  <2>3. t2 \in DOMAIN z /\ t2 # InitialTop
    BY <1>t, <1>1, <1>2, <1>4, Distinct
  <2>4. sm \subseteq ChunksOf(z) \ {t2}
    BY <1>t, <1>4, <1>c DEF Geo, Shape
  <2>5. \A x \in sm : z[x].size = 1
    <3>1. \A x \in sm : x \in C \ {p} /\ m[x].size = 1
      BY <1>c DEF Geo, Shape
    <3> QED BY <3>1, <1>3, <1>4
  <2>6. ChunksOf(z) \subseteq Nat
    BY <1>4, <1>2
  <2> QED BY <2>1, <2>2, <2>3, <2>4, <2>5, <2>6, <1>2 DEF Shape
<1>6. Links(z, t2, sm)
  <2>1. /\ m[t].md_next = NULL
        /\ \A x \in C \ {t} : m[x].md_next \in C \ {x} /\ m[m[x].md_next].md_prev = x
        /\ \A x \in (C \ {t}) \ sm : m[x].md_next = x + m[x].size
        /\ \A x \in C : m[x].md_prev # NULL
                        => m[x].md_prev \in C /\ m[m[x].md_prev].md_next = x
    BY <1>c DEF Geo, Links
  <2>2. z[t2].md_next = NULL
    BY <2>1, <1>1, <1>2, <1>3, <1>t, <1>n, <1>4
  <2>3. ASSUME NEW x \in ChunksOf(z) \ {t2}
        PROVE  /\ z[x].md_next \in ChunksOf(z) \ {x}
               /\ z[z[x].md_next].md_prev = x
               /\ x \notin sm => z[x].md_next = x + z[x].size
    <3>1. CASE x = p
      BY <3>1, <1>2, <1>4
    <3>2. CASE x = r
      <4>1. p # t
        BY <3>2, <1>t
      <4>2. n \in C /\ n # p /\ m[n].md_prev = p /\ n = p + m[p].size /\ n # r
        BY <4>1, <2>1, <1>4, <1>n
      <4>3. z[n].md_prev = r
        BY <4>2, <1>3, <1>4
      <4> QED BY <4>2, <4>3, <3>2, <1>2, <1>4, <1>1
    <3>3. CASE x # p /\ x # r
      <4>1. x \in C /\ x # t /\ x # p
        BY <3>3, <1>4, <1>t
      <4>2. m[x].md_next \in C \ {x} /\ m[m[x].md_next].md_prev = x
            /\ (x \notin sm => m[x].md_next = x + m[x].size)
        BY <4>1, <2>1
      <4>3. z[x].md_next = m[x].md_next /\ z[x].size = m[x].size
        BY <4>1, <1>3, <1>4
      <4>4. m[x].md_next # n
        <5> SUFFICES ASSUME m[x].md_next = n PROVE FALSE
          OBVIOUS
        <5>1. p # t
          BY <4>2, <2>1, <1>4, <1>n, Distinct
        <5>2. m[n].md_prev = p
          BY <5>1, <2>1, <1>4, <1>n
        <5> QED BY <5>2, <4>2, <4>1
      <4>5. z[m[x].md_next].md_prev = m[m[x].md_next].md_prev
        BY <4>2, <4>4, <1>2, <1>3, <1>4
      <4> QED BY <4>1, <4>2, <4>3, <4>5, <1>4
    <3> QED BY <3>1, <3>2, <3>3
  <2>4. ASSUME NEW x \in ChunksOf(z), z[x].md_prev # NULL
        PROVE  z[x].md_prev \in ChunksOf(z) /\ z[z[x].md_prev].md_next = x
    <3>1. CASE x = r
      BY <3>1, <1>2, <1>4
    <3>2. CASE x = n /\ x # p /\ x # r
      <4>1. z[x].md_prev = r
        BY <3>2, <1>3, <1>4
      <4> QED BY <4>1, <3>2, <1>2, <1>4
    <3>3. CASE (x # n \/ x = p) /\ x # r
      <4>1. x \in C /\ z[x].md_prev = m[x].md_prev
        BY <3>3, <1>2, <1>3, <1>4
      <4>2. m[x].md_prev \in C /\ m[m[x].md_prev].md_next = x
        BY <4>1, <2>1, <2>4
      <4>3. m[x].md_prev # p
        <5> SUFFICES ASSUME m[x].md_prev = p PROVE FALSE
          OBVIOUS
        <5>1. x = n
          BY <4>2, <1>n
        <5>2. x = p
          BY <5>1, <3>3
        <5>3. p = t
          BY <5>1, <5>2, <2>1, <1>4, <1>n
        <5>4. n = NULL
          BY <5>3, <2>1, <1>n
        <5> QED BY <5>1, <5>2, <5>4, <1>1
      <4>4. z[m[x].md_prev].md_next = x
        BY <4>2, <4>3, <1>3, <1>4
      <4> QED BY <4>1, <4>2, <4>4, <1>4
    <3> QED BY <3>1, <3>2, <3>3
  <2> QED BY <2>2, <2>3, <2>4 DEF Links
<1>7. \A x, y \in C : x # y => x + m[x].size <= y \/ y + m[y].size <= x
  BY <1>c DEF Geo, Apart
<1>8. Apart(z)
  <2> SUFFICES ASSUME NEW x \in C \cup {r}, NEW y \in C \cup {r}, x # y
               PROVE  x + z[x].size <= y \/ y + z[y].size <= x
    BY <1>4 DEF Apart
  <2>1. \A a \in C \ {p} : /\ z[a].size = m[a].size /\ m[a].size \in Nat /\ a \in Nat
                           /\ (a + m[a].size <= p \/ p + m[p].size <= a)
    BY <1>3, <1>4, <1>7
  <2>2. CASE x \in C \ {p} /\ y \in C \ {p}
    BY <2>2, <2>1, <1>7
  <2>3. CASE x \notin C \ {p} /\ y \in C \ {p}
    <3>1. x = p \/ x = r
      BY <2>3
    <3> QED BY <3>1, <2>1, <2>3, <1>1, <1>2
  <2>4. CASE x \in C \ {p} /\ y \notin C \ {p}
    <3>1. y = p \/ y = r
      BY <2>4
    <3> QED BY <3>1, <2>1, <2>4, <1>1, <1>2
  <2>5. CASE x \notin C \ {p} /\ y \notin C \ {p}
    <3>1. {x, y} = {p, r}
      BY <2>5
    <3>2. p + z[p].size <= r
      BY <1>1, <1>2
    <3> QED BY <3>1, <3>2
  <2> QED BY <2>2, <2>3, <2>4, <2>5
<1>9. Covers(z, own)
  <2>1. own \subseteq Nat
    BY DEF Geo, Covers
  <2>2. ASSUME NEW x \in Nat
        PROVE  x \in own <=> \E a \in C \cup {r} : a <= x /\ x < a + z[a].size
    <3>1. x \in own <=> \E a \in C : a <= x /\ x < a + m[a].size
      BY <1>c DEF Geo, Covers
    <3>2. \A a \in C \ {p} : z[a].size = m[a].size
      BY <1>3, <1>4
    <3>3. (p <= x /\ x < p + m[p].size)
             <=> (p <= x /\ x < p + z[p].size) \/ (r <= x /\ x < r + z[r].size)
      BY <1>1, <1>2
    <3> QED BY <3>1, <3>2, <3>3, <1>4
  <2> QED BY <2>1, <2>2, <1>4 DEF Covers
<1> QED BY <1>5, <1>6, <1>8, <1>9, <1>t DEF Geo

\* The chunk behind p, and what is known of the links around the two.
LEMMA Neighbours ==
    ASSUME NEW m, NEW t, NEW sm, NEW own, Geo(m, t, sm, own),
           NEW p \in ChunksOf(m), p \notin sm, p # t,
           NEW n, n = m[p].md_next, n \notin sm, NEW nn, nn = m[n].md_next
    PROVE  /\ n \in ChunksOf(m) /\ n # p /\ m[n].md_prev = p /\ n = p + m[p].size
           /\ n = t => nn = NULL
           /\ n # t => nn \in ChunksOf(m) \ {n, p} /\ m[nn].md_prev = n
                       /\ nn = n + m[n].size
<1>1. n \in ChunksOf(m) /\ n # p /\ m[n].md_prev = p /\ n = p + m[p].size
  BY DEF Geo, Links
<1>2. n = t => nn = NULL
  BY DEF Geo, Links
<1>3. ASSUME n # t PROVE nn \in ChunksOf(m) \ {n, p} /\ m[nn].md_prev = n /\ nn = n + m[n].size
  <2>1. nn \in ChunksOf(m) \ {n} /\ m[nn].md_prev = n /\ nn = n + m[n].size
    BY <1>1, <1>3 DEF Geo, Links
  <2>2. /\ p \in Nat /\ m[p].size \in Nat /\ m[p].size >= 1
        /\ n \in Nat /\ m[n].size \in Nat /\ m[n].size >= 1
    BY <1>1, OneChunk
  <2>3. nn # p
    BY <1>1, <2>1, <2>2
  <2> QED BY <2>1, <2>3
<1> QED BY <1>1, <1>2, <1>3

\* A chunk that is no fencepost takes in the one behind it; the top chunk too, and
\* then it becomes the top chunk.
LEMMA GeoMerge ==
    ASSUME NEW m, NEW t, NEW sm, NEW own, Geo(m, t, sm, own),
           NEW p \in ChunksOf(m), p \notin sm, p # t,
           NEW n, n = m[p].md_next, n \notin sm, NEW z, Merged(m, p, n, z)
    PROVE  Geo(z, IF n = t THEN p ELSE t, sm, own)
<1>t. PICK t2 : t2 = IF n = t THEN p ELSE t
  OBVIOUS
<1>n. PICK nn : nn = m[n].md_next
  OBVIOUS
<1>c. PICK C : C = ChunksOf(m)
  OBVIOUS
<1>1. /\ n \in C /\ n # p /\ m[n].md_prev = p /\ n = p + m[p].size
      /\ n = t => nn = NULL
      /\ n # t => nn \in C \ {n, p} /\ m[nn].md_prev = n /\ nn = n + m[n].size
  BY Neighbours, <1>n, <1>c
<1>2. /\ p \in DOMAIN m /\ p \in Nat /\ p # NULL /\ p # InitialTop
      /\ m[p].size \in Nat /\ m[p].size >= 1 /\ t # InitialTop /\ t \in C /\ p \in C
      /\ n \in DOMAIN m /\ n \in Nat /\ n # NULL /\ n # InitialTop
      /\ m[n].size \in Nat /\ m[n].size >= 1
  BY OneChunk, <1>1, <1>c
<1>3. /\ DOMAIN z = DOMAIN m \ {n} /\ z \in [DOMAIN z -> Chunk]
      /\ z[p].size = m[p].size + m[n].size
      /\ z[p].md_next = nn /\ z[p].md_prev = m[p].md_prev
  BY <1>n DEF Merged
<1>4. \A x \in DOMAIN m \ {n, p} :
         /\ z[x].size = m[x].size /\ z[x].md_next = m[x].md_next
         /\ z[x].md_prev = (IF x = nn THEN p ELSE m[x].md_prev)
  BY <1>n DEF Merged
<1>5. /\ C \subseteq Nat /\ C \subseteq DOMAIN m /\ \A x \in C : m[x].size \in Nat
      /\ ChunksOf(z) = C \ {n}
  <2>1. \A x \in ChunksOf(m) : x \in Nat /\ x \in DOMAIN m /\ m[x].size \in Nat
    BY OneChunk
  <2>2. ChunksOf(z) = C \ {n}
    BY <1>3, <1>c DEF ChunksOf
  <2> QED BY <2>1, <2>2, <1>c
<1>6. Shape(z, t2, sm)
  <2>1. InitialTop \in DOMAIN z /\ z[InitialTop].size = 0
    BY <1>2, <1>3, <1>4 DEF Geo, Shape
  <2>2. \A x \in ChunksOf(z) : z[x].size >= 1
    <3>1. \A x \in C \ {n, p} : z[x].size >= 1
      BY <1>4, <1>5, <1>c DEF Geo, Shape
    <3>2. z[p].size >= 1
      BY <1>2, <1>3
    <3> QED BY <3>1, <3>2, <1>5
  <2>3. t2 \in DOMAIN z /\ t2 # InitialTop
    BY <1>t, <1>1, <1>2, <1>3, <1>5
  <2>4. sm \subseteq ChunksOf(z) \ {t2}
    BY <1>t, <1>5, <1>c DEF Geo, Shape
  <2>5. \A x \in sm : z[x].size = 1
    <3>1. \A x \in sm : x \in C \ {n, p} /\ m[x].size = 1
      BY <1>c DEF Geo, Shape
    <3> QED BY <3>1, <1>4, <1>5
  <2>6. ChunksOf(z) \subseteq Nat
    BY <1>5
  <2> QED BY <2>1, <2>2, <2>3, <2>4, <2>5, <2>6, <1>3 DEF Shape
<1>7. Links(z, t2, sm)
  <2>1. /\ m[t].md_next = NULL
        /\ \A x \in C \ {t} : m[x].md_next \in C \ {x} /\ m[m[x].md_next].md_prev = x
        /\ \A x \in (C \ {t}) \ sm : m[x].md_next = x + m[x].size
        /\ \A x \in C : m[x].md_prev # NULL
                        => m[x].md_prev \in C /\ m[m[x].md_prev].md_next = x
    BY <1>c DEF Geo, Links
  <2>2. z[t2].md_next = NULL
    BY <2>1, <1>1, <1>2, <1>3, <1>4, <1>t, <1>5
  <2>3. ASSUME NEW x \in ChunksOf(z) \ {t2}
        PROVE  /\ z[x].md_next \in ChunksOf(z) \ {x}
               /\ z[z[x].md_next].md_prev = x
               /\ x \notin sm => z[x].md_next = x + z[x].size
    <3>1. CASE x = p
      <4>1. n # t
        BY <3>1, <1>t
      <4>2. z[nn].md_prev = p
        BY <4>1, <1>1, <1>4, <1>5
      <4>3. nn = p + (m[p].size + m[n].size)
        BY <4>1, <1>1, <1>2
      <4> QED BY <4>1, <4>2, <4>3, <3>1, <1>1, <1>3, <1>5
    <3>2. CASE x # p
      <4>1. x \in C /\ x # t /\ x # p /\ x # n
        BY <3>2, <1>5, <1>t, <1>1
      <4>2. m[x].md_next \in C \ {x} /\ m[m[x].md_next].md_prev = x
            /\ (x \notin sm => m[x].md_next = x + m[x].size)
        BY <4>1, <2>1
      <4>3. z[x].md_next = m[x].md_next /\ z[x].size = m[x].size
        BY <4>1, <1>4, <1>5
      <4>4. m[x].md_next # n /\ m[x].md_next # nn
        <5>1. m[x].md_next # n
          BY <4>1, <4>2, <1>1
        <5>2. m[x].md_next # nn
          <6>1. CASE n = t
            BY <6>1, <4>2, <1>1, <1>5, Distinct
          <6>2. CASE n # t
            BY <6>2, <4>1, <4>2, <1>1
          <6> QED BY <6>1, <6>2
        <5> QED BY <5>1, <5>2
      <4>5. z[m[x].md_next].md_prev = m[m[x].md_next].md_prev
        BY <4>2, <4>4, <1>3, <1>4, <1>5
      <4> QED BY <4>1, <4>2, <4>3, <4>4, <4>5, <1>5
    <3> QED BY <3>1, <3>2
  <2>4. ASSUME NEW x \in ChunksOf(z), z[x].md_prev # NULL
        PROVE  z[x].md_prev \in ChunksOf(z) /\ z[z[x].md_prev].md_next = x
    <3>0. x \in C /\ x # n
      BY <1>5
    <3>1. CASE x = nn /\ x # p
      <4>1. z[x].md_prev = p
        BY <3>0, <3>1, <1>4, <1>5
      <4> QED BY <4>1, <3>1, <1>2, <1>3, <1>5, <1>1
    <3>2. CASE x # nn \/ x = p
      <4>1. z[x].md_prev = m[x].md_prev
        BY <3>0, <3>2, <1>3, <1>4, <1>5
      <4>2. m[x].md_prev \in C /\ m[m[x].md_prev].md_next = x
        BY <3>0, <4>1, <2>1, <2>4
      <4>3. m[x].md_prev # p
        <5> SUFFICES ASSUME m[x].md_prev = p PROVE FALSE
          OBVIOUS
        <5> QED BY <4>2, <3>0
      <4>4. m[x].md_prev # n
        <5> SUFFICES ASSUME m[x].md_prev = n PROVE FALSE
          OBVIOUS
        <5>1. x = nn
          BY <4>2, <1>n
        <5>2. x = p
          BY <5>1, <3>2
        <5> QED BY <5>1, <5>2, <1>1, <1>2
      <4>5. z[m[x].md_prev].md_next = x
        BY <4>2, <4>3, <4>4, <1>4, <1>5
      <4> QED BY <4>1, <4>2, <4>4, <4>5, <1>5
    <3> QED BY <3>1, <3>2
  <2> QED BY <2>2, <2>3, <2>4 DEF Links
<1>8. \A x, y \in C : x # y => x + m[x].size <= y \/ y + m[y].size <= x
  BY <1>c DEF Geo, Apart
<1>9. Apart(z)
  <2> SUFFICES ASSUME NEW x \in C \ {n}, NEW y \in C \ {n}, x # y
               PROVE  x + z[x].size <= y \/ y + z[y].size <= x
    BY <1>5 DEF Apart
  <2>1. \A a \in C \ {n, p} : /\ z[a].size = m[a].size /\ m[a].size \in Nat /\ a \in Nat
                              /\ m[a].size >= 1
                              /\ (a + m[a].size <= p \/ p + m[p].size <= a)
                              /\ (a + m[a].size <= n \/ n + m[n].size <= a)
    <3>1. \A a \in C \ {n, p} : m[a].size >= 1
      BY <1>c DEF Geo, Shape
    <3> QED BY <3>1, <1>2, <1>1, <1>4, <1>5, <1>8
  <2>2. CASE x # p /\ y # p
    BY <2>2, <2>1, <1>8
  <2>3. CASE x = p
    <3>1. y \in C \ {n, p}
      BY <2>3
    <3> QED BY <3>1, <2>1, <2>3, <1>1, <1>2, <1>3
  <2>4. CASE y = p
    <3>1. x \in C \ {n, p}
      BY <2>4
    <3> QED BY <3>1, <2>1, <2>4, <1>1, <1>2, <1>3
  <2> QED BY <2>2, <2>3, <2>4
<1>10. Covers(z, own)
  <2>1. own \subseteq Nat
    BY DEF Geo, Covers
  <2>2. ASSUME NEW x \in Nat
        PROVE  x \in own <=> \E a \in C \ {n} : a <= x /\ x < a + z[a].size
    <3>1. x \in own <=> \E a \in C : a <= x /\ x < a + m[a].size
      BY <1>c DEF Geo, Covers
    <3>2. \A a \in C \ {n, p} : z[a].size = m[a].size
      BY <1>4, <1>5
    <3>3. (p <= x /\ x < p + z[p].size)
             <=> (p <= x /\ x < p + m[p].size) \/ (n <= x /\ x < n + m[n].size)
      BY <1>1, <1>2, <1>3
    <3> QED BY <3>1, <3>2, <3>3, <1>1, <1>2
  <2> QED BY <2>1, <2>2, <1>5 DEF Covers
<1> QED BY <1>6, <1>7, <1>9, <1>10, <1>t DEF Geo

\* The top chunk grows into, or gives back, memory behind it.
LEMMA GeoResize ==
    ASSUME NEW m, NEW t, NEW sm, NEW own, Geo(m, t, sm, own), t # InitialTop,
           NEW size \in Nat, size >= 1, NEW z, Resized(m, t, size, z),
           \A p \in ChunksOf(m) \ {t} : p + m[p].size <= t \/ t + size <= p,
           NEW own2 \in SUBSET Nat,
           \A x \in Nat : x \in own2 <=> \/ x \in own /\ (x < t \/ x >= t + m[t].size)
                                         \/ t <= x /\ x < t + size
    PROVE  Geo(z, t, sm, own2)
<1>c. PICK C : C = ChunksOf(m)
  OBVIOUS
<1>1. t \in DOMAIN m /\ t \in C
  BY <1>c DEF Geo, Shape, ChunksOf
<1>2. /\ t \in Nat /\ m[t].size \in Nat /\ m[t].size >= 1
  BY OneChunk, <1>1, <1>c
<1>3. /\ DOMAIN z = DOMAIN m /\ z \in [DOMAIN z -> Chunk]
      /\ z[t].size = size /\ z[t].md_next = m[t].md_next /\ z[t].md_prev = m[t].md_prev
  BY DEF Resized
<1>4. \A x \in DOMAIN m \ {t} :
         z[x].size = m[x].size /\ z[x].md_next = m[x].md_next /\ z[x].md_prev = m[x].md_prev
  BY DEF Resized, SameGeo
<1>5. /\ C \subseteq Nat /\ C \subseteq DOMAIN m
      /\ \A x \in C : m[x].size \in Nat /\ m[x].size >= 1
      /\ ChunksOf(z) = C
  <2>1. \A x \in ChunksOf(m) : x \in Nat /\ x \in DOMAIN m /\ m[x].size \in Nat
                               /\ m[x].size >= 1
    BY OneChunk
  <2>2. ChunksOf(z) = C
    BY <1>3, <1>c DEF ChunksOf
  <2> QED BY <2>1, <2>2, <1>c
<1>6. Shape(z, t, sm)
  <2>1. InitialTop \in DOMAIN z /\ z[InitialTop].size = 0
    BY <1>3, <1>4 DEF Geo, Shape
  <2>2. \A x \in ChunksOf(z) : z[x].size >= 1
    BY <1>3, <1>4, <1>5
  <2>3. sm \subseteq ChunksOf(z) \ {t} /\ \A x \in sm : m[x].size = 1
    BY <1>5, <1>c DEF Geo, Shape
  <2>4. \A x \in sm : z[x].size = 1
    BY <2>3, <1>4, <1>5
  <2> QED BY <2>1, <2>2, <2>3, <2>4, <1>1, <1>3, <1>5 DEF Shape
<1>7. Links(z, t, sm)
  <2>1. /\ m[t].md_next = NULL
        /\ \A x \in C \ {t} : m[x].md_next \in C \ {x} /\ m[m[x].md_next].md_prev = x
        /\ \A x \in (C \ {t}) \ sm : m[x].md_next = x + m[x].size
        /\ \A x \in C : m[x].md_prev # NULL
                        => m[x].md_prev \in C /\ m[m[x].md_prev].md_next = x
    BY <1>c DEF Geo, Links
  <2>2. \A x \in DOMAIN m : z[x].md_next = m[x].md_next /\ z[x].md_prev = m[x].md_prev
    BY <1>3, <1>4
  <2> QED BY <2>1, <2>2, <1>1, <1>4, <1>5 DEF Links
<1>8. \A x, y \in C : x # y => x + m[x].size <= y \/ y + m[y].size <= x
  BY <1>c DEF Geo, Apart
<1>9. Apart(z)
  <2> SUFFICES ASSUME NEW x \in C, NEW y \in C, x # y
               PROVE  x + z[x].size <= y \/ y + z[y].size <= x
    BY <1>5 DEF Apart
  <2>1. \A a \in C \ {t} : z[a].size = m[a].size /\ (a + m[a].size <= t \/ t + size <= a)
    BY <1>4, <1>5, <1>c
  <2>2. CASE x # t /\ y # t
    BY <2>2, <2>1, <1>8
  <2>3. CASE x = t
    BY <2>3, <2>1, <1>3
  <2>4. CASE y = t
    BY <2>4, <2>1, <1>3
  <2> QED BY <2>2, <2>3, <2>4
<1>10. Covers(z, own2)
  <2>1. ASSUME NEW x \in Nat
        PROVE  x \in own2 <=> \E a \in C : a <= x /\ x < a + z[a].size
    <3>1. x \in own <=> \E a \in C : a <= x /\ x < a + m[a].size
      BY <1>c DEF Geo, Covers
    <3>2. \A a \in C \ {t} : z[a].size = m[a].size
      BY <1>4, <1>5
    <3>3. \A a \in C \ {t} : a <= x /\ x < a + m[a].size => x < t \/ x >= t + m[t].size
      BY <1>1, <1>2, <1>5, <1>8
    <3>4. (\E a \in C \ {t} : a <= x /\ x < a + z[a].size)
             <=> x \in own /\ (x < t \/ x >= t + m[t].size)
      <4>1. (t <= x /\ x < t + m[t].size) <=> ~(x < t \/ x >= t + m[t].size)
        BY <1>2
      <4> QED BY <3>1, <3>2, <3>3, <1>1, <4>1
    <3> QED BY <3>4, <1>1, <1>3
  <2> QED BY <2>1, <1>5 DEF Covers
<1> QED BY <1>6, <1>7, <1>9, <1>10 DEF Geo

\* A new region becomes the top chunk, apart from all others; what the old one was
\* reduced to is the last fencepost of its region.
LEMMA GeoNewTop ==
    ASSUME NEW m, NEW t, NEW sm, NEW own, Geo(m, t, sm, own),
           t # InitialTop => m[t].size = 1,
           NEW base \in Nat, base \notin DOMAIN m, NEW size \in Nat, size >= 1,
           NEW z, Topped(m, t, base, size, z),
           \A p \in ChunksOf(m) : p + m[p].size <= base \/ base + size <= p
    PROVE  Geo(z, base, IF t = InitialTop THEN sm ELSE sm \cup {t},
               own \cup (base .. base + size - 1))
<1>c. PICK C : C = ChunksOf(m)
  OBVIOUS
<1>s. PICK sm2 : sm2 = IF t = InitialTop THEN sm ELSE sm \cup {t}
  OBVIOUS
<1>1. t \in DOMAIN m /\ (t # InitialTop => t \in C) /\ (t = InitialTop => C = {})
  BY <1>c DEF Geo, Shape, ChunksOf
<1>2. base # InitialTop /\ base # NULL /\ base # t /\ base \notin C
  BY <1>1, <1>c, Distinct DEF ChunksOf
<1>3. /\ DOMAIN z = DOMAIN m \cup {base} /\ z \in [DOMAIN z -> Chunk]
      /\ z[base].size = size /\ z[base].md_next = NULL
      /\ z[base].md_prev = (IF t = InitialTop THEN NULL ELSE t)
  BY DEF Topped
<1>4. \A x \in DOMAIN m :
          /\ z[x].size = m[x].size /\ z[x].md_prev = m[x].md_prev
          /\ z[x].md_next = (IF x = t /\ t # InitialTop THEN base ELSE m[x].md_next)
  BY DEF Topped
<1>5. /\ C \subseteq Nat /\ C \subseteq DOMAIN m
      /\ \A x \in C : m[x].size \in Nat /\ m[x].size >= 1
      /\ ChunksOf(z) = C \cup {base}
  <2>1. \A x \in ChunksOf(m) : x \in Nat /\ x \in DOMAIN m /\ m[x].size \in Nat
                               /\ m[x].size >= 1
    BY OneChunk
  <2>2. ChunksOf(z) = C \cup {base}
    BY <1>2, <1>3, <1>c DEF ChunksOf
  <2> QED BY <2>1, <2>2, <1>c
<1>6. Shape(z, base, sm2)
  <2>1. InitialTop \in DOMAIN z /\ z[InitialTop].size = 0
    BY <1>3, <1>4 DEF Geo, Shape
  <2>2. \A x \in ChunksOf(z) : z[x].size >= 1
    BY <1>3, <1>4, <1>5
  <2>3. sm \subseteq C \ {t} /\ \A x \in sm : m[x].size = 1
    BY <1>5, <1>c DEF Geo, Shape
  <2>4. sm2 \subseteq ChunksOf(z) \ {base}
    BY <2>3, <1>s, <1>1, <1>2, <1>5
  <2>5. \A x \in sm2 : z[x].size = 1
    BY <2>3, <1>s, <1>1, <1>4, <1>5
  <2> QED BY <2>1, <2>2, <2>4, <2>5, <1>2, <1>3, <1>5 DEF Shape
<1>7. Links(z, base, sm2)
  <2>1. /\ m[t].md_next = NULL
        /\ \A x \in C \ {t} : m[x].md_next \in C \ {x} /\ m[m[x].md_next].md_prev = x
        /\ \A x \in (C \ {t}) \ sm : m[x].md_next = x + m[x].size
        /\ \A x \in C : m[x].md_prev # NULL
                        => m[x].md_prev \in C /\ m[m[x].md_prev].md_next = x
    BY <1>c DEF Geo, Links
  <2>2. ASSUME NEW x \in ChunksOf(z) \ {base}
        PROVE  /\ z[x].md_next \in ChunksOf(z) \ {x}
               /\ z[z[x].md_next].md_prev = x
               /\ x \notin sm2 => z[x].md_next = x + z[x].size
    <3>0. x \in C /\ t # InitialTop /\ x # base
      BY <1>1, <1>5
    <3>1. CASE x = t
      <4>1. z[x].md_next = base /\ z[base].md_prev = t /\ x \in sm2
        BY <3>0, <3>1, <1>1, <1>3, <1>4, <1>s
      <4> QED BY <4>1, <3>0, <3>1, <1>5
    <3>2. CASE x # t
      <4>1. m[x].md_next \in C \ {x} /\ m[m[x].md_next].md_prev = x
            /\ (x \notin sm => m[x].md_next = x + m[x].size)
        BY <3>0, <3>2, <2>1
      <4>2. z[x].md_next = m[x].md_next /\ z[x].size = m[x].size
            /\ z[m[x].md_next].md_prev = x
        BY <4>1, <3>0, <3>2, <1>4, <1>5
      <4> QED BY <4>1, <4>2, <3>0, <1>5, <1>s
    <3> QED BY <3>1, <3>2
  <2>3. ASSUME NEW x \in ChunksOf(z), z[x].md_prev # NULL
        PROVE  z[x].md_prev \in ChunksOf(z) /\ z[z[x].md_prev].md_next = x
    <3>1. CASE x = base
      BY <3>1, <2>3, <1>1, <1>3, <1>4, <1>5
    <3>2. CASE x # base
      <4>1. x \in C /\ z[x].md_prev = m[x].md_prev
        BY <3>2, <1>4, <1>5
      <4>2. m[x].md_prev \in C /\ m[m[x].md_prev].md_next = x
        BY <4>1, <2>1, <2>3
      <4>3. x # NULL
        BY <4>1, <1>5, Distinct
      <4>4. z[m[x].md_prev].md_next = x
        BY <4>2, <4>3, <2>1, <1>4, <1>5
      <4> QED BY <4>1, <4>2, <4>4, <1>5
    <3> QED BY <3>1, <3>2
  <2> QED BY <2>2, <2>3, <1>3 DEF Links
<1>8. \A x, y \in C : x # y => x + m[x].size <= y \/ y + m[y].size <= x
  BY <1>c DEF Geo, Apart
<1>9. Apart(z)
  <2> SUFFICES ASSUME NEW x \in C \cup {base}, NEW y \in C \cup {base}, x # y
               PROVE  x + z[x].size <= y \/ y + z[y].size <= x
    BY <1>5 DEF Apart
  <2>1. \A a \in C : z[a].size = m[a].size /\ (a + m[a].size <= base \/ base + size <= a)
    BY <1>4, <1>5, <1>c
  <2>2. CASE x \in C /\ y \in C
    BY <2>2, <2>1, <1>8
  <2>3. CASE x = base
    BY <2>3, <2>1, <1>3
  <2>4. CASE y = base
    BY <2>4, <2>1, <1>3
  <2> QED BY <2>2, <2>3, <2>4
<1>10. Covers(z, own \cup (base .. base + size - 1))
  <2>1. own \subseteq Nat
    BY DEF Geo, Covers
  <2>2. own \cup (base .. base + size - 1) \subseteq Nat
    <3>1. \A x \in base .. base + size - 1 : x \in Nat
      OBVIOUS
    <3> QED BY <2>1, <3>1
  <2>3. ASSUME NEW x \in Nat
        PROVE  x \in own \cup (base .. base + size - 1)
                  <=> \E a \in C \cup {base} : a <= x /\ x < a + z[a].size
    <3>1. x \in own <=> \E a \in C : a <= x /\ x < a + m[a].size
      BY <1>c DEF Geo, Covers
    <3>2. \A a \in C : z[a].size = m[a].size
      BY <1>4, <1>5
    <3>3. x \in base .. base + size - 1 <=> base <= x /\ x < base + z[base].size
      BY <1>3
    <3> QED BY <3>1, <3>2, <3>3
  <2> QED BY <2>2, <2>3, <1>5 DEF Covers
<1> QED BY <1>6, <1>7, <1>9, <1>10, <1>s DEF Geo

(***************************************************************************)
(* The tags after each operator                                            *)
(***************************************************************************)
\* Records with the same tag and the same chunk before it.
LEMMA StillRight ==
    ASSUME NEW m, NEW z, NEW B, NEW p, Right(m, B, p), SameTags(z[p], m[p]),
           z[p].md_prev = m[p].md_prev, z[m[p].md_prev].size = m[m[p].md_prev].size
    PROVE  Right(z, B, p)
BY DEF Right, SameTags

\* Only tags change, and become right outside of X2.
LEMMA Retag ==
    ASSUME NEW m, NEW t, NEW sm, NEW own, NEW B, NEW X, Tagged(m, t, sm, own, B, X),
           NEW z \in [DOMAIN m -> Chunk], \A x \in DOMAIN m : SameGeo(z[x], m[x]),
           NEW X2,
           \A x \in ChunksOf(m) \ X2 :
               (x \notin X /\ SameTags(z[x], m[x])) \/ Right(z, B, x)
    PROVE  Tagged(z, t, sm, own, B, X2)
<1>1. Geo(z, t, sm, own)
  BY GeoSame DEF Tagged
<1>2. ChunksOf(z) = ChunksOf(m) /\ B \subseteq ChunksOf(m) \ {t} /\ ChunksOf(m) \subseteq DOMAIN m
  BY DEF Tagged, TagsBut, ChunksOf
<1>3. ASSUME NEW x \in ChunksOf(z) \ X2 PROVE Right(z, B, x)
  <2>1. CASE x \notin X /\ SameTags(z[x], m[x])
    <3>1. Right(m, B, x) /\ x \in DOMAIN m /\ z[x].md_prev = m[x].md_prev
      BY <2>1, <1>2 DEF Tagged, TagsBut, SameGeo
    <3>2. m[x].md_prev \in B => z[m[x].md_prev].size = m[m[x].md_prev].size
      BY <1>2 DEF SameGeo
    <3> QED BY <3>1, <3>2, <2>1 DEF Right, SameTags
  <2>2. CASE Right(z, B, x)
    BY <2>2
  <2> QED BY <2>1, <2>2, <1>2
<1>4. \A x \in B : z[x].md_prev \notin B /\ z[x].md_next # t
  BY <1>2 DEF Tagged, TagsBut, SameGeo
<1> QED BY <1>1, <1>2, <1>3, <1>4 DEF Tagged, TagsBut

\* A chunk is taken out of its bin: the tag behind it is not right any more.
LEMMA TagsUnlink ==
    ASSUME NEW m, NEW t, NEW sm, NEW own, NEW B, NEW X, Tagged(m, t, sm, own, B, X),
           NEW v \in B, NEW n, n = m[v].md_next
    PROVE  Tagged(m, t, sm, own, B \ {v}, X \cup {n})
<1>1. B \subseteq ChunksOf(m) \ {t}
  BY DEF Tagged, TagsBut
<1>2. ASSUME NEW x \in ChunksOf(m) \ (X \cup {n}) PROVE Right(m, B \ {v}, x)
  <2>1. Right(m, B, x)
    BY DEF Tagged, TagsBut
  <2>2. m[x].md_prev # v
    <3> SUFFICES ASSUME m[x].md_prev = v PROVE FALSE
      OBVIOUS
    <3>1. v \in ChunksOf(m) /\ v # NULL
      BY <1>1, OneChunk DEF Tagged
    <3>2. m[v].md_next = x
      BY <3>1 DEF Tagged, Geo, Links
    <3> QED BY <3>2
  <2> QED BY <2>1, <2>2 DEF Right
<1>3. \A x \in B \ {v} : m[x].md_prev \notin B \ {v} /\ m[x].md_next # t
  BY DEF Tagged, TagsBut
<1> QED BY <1>1, <1>2, <1>3 DEF Tagged, TagsBut

\* A chunk that is in no bin is split.
LEMMA TagsCarve ==
    ASSUME NEW m, NEW t, NEW sm, NEW own, NEW B, NEW X, Tagged(m, t, sm, own, B, X),
           NEW p \in ChunksOf(m) \ sm, p \notin B, NEW nb \in Nat, 0 < nb, nb < m[p].size,
           NEW z, z = Carve(m, p, nb), NEW r, r = p + nb
    PROVE  Carved(m, p, r, z) /\ Tagged(z, IF p = t THEN r ELSE t, sm, own, B, X)
<1>0. p \in ChunksOf(m) /\ Geo(m, t, sm, own)
  BY DEF Tagged
<1>1. Carved(m, p, r, z)
  BY <1>0, CarveIs
<1>2. Geo(z, IF p = t THEN r ELSE t, sm, own)
  BY <1>0, GeoCarve
<1>c. PICK C : C = ChunksOf(m)
  OBVIOUS
<1>t. PICK t2 : t2 = IF p = t THEN r ELSE t
  OBVIOUS
<1>3. /\ r \notin DOMAIN m /\ DOMAIN z = DOMAIN m \cup {r}
      /\ z[p].md_prev = m[p].md_prev /\ SameTags(z[p], m[p])
      /\ z[r].md_next = m[p].md_next /\ z[r].md_prev = p /\ z[r].prev_inuse = TRUE
  BY <1>1 DEF Carved
<1>4. \A x \in DOMAIN m \ {p} :
          /\ z[x].size = m[x].size /\ z[x].md_next = m[x].md_next
          /\ z[x].md_prev = (IF x = m[p].md_next THEN r ELSE m[x].md_prev)
          /\ SameTags(z[x], m[x])
  BY <1>1 DEF Carved
<1>5. ChunksOf(z) = C \cup {r} /\ C \subseteq DOMAIN m /\ r \notin C /\ p \in C
  <2>1. r # InitialTop
    BY <1>1, Distinct DEF Carved
  <2> QED BY <2>1, <1>3, <1>c DEF ChunksOf
<1>6. B \subseteq C \ {t} /\ (\A x \in C \ X : Right(m, B, x))
      /\ \A x \in B : m[x].md_prev \notin B /\ m[x].md_next # t
  BY <1>c DEF Tagged, TagsBut
<1>7. r \notin B /\ \A x \in B : x # p /\ x \in DOMAIN m
  BY <1>5, <1>6
<1>8. ASSUME NEW x \in (C \cup {r}) \ X PROVE Right(z, B, x)
  <2>1. CASE x = r
    BY <2>1, <1>3 DEF Right
  <2>2. CASE x = p
    <3>1. Right(m, B, p)
      BY <2>2, <1>5, <1>6
    <3>2. m[p].md_prev \in B => z[m[p].md_prev].size = m[m[p].md_prev].size
      BY <1>4, <1>7
    <3> QED BY <2>2, <3>1, <3>2, <1>3 DEF Right, SameTags
  <2>3. CASE x # r /\ x # p
    <3>1. Right(m, B, x) /\ x \in DOMAIN m \ {p} /\ x \in C
      BY <2>3, <1>5, <1>6
    <3>2. CASE x = m[p].md_next
      <4>1. m[x].md_prev = p
        <5>1. p # t
          BY <3>1, <3>2, <1>0, <1>c, OneChunk DEF Geo, Links
        <5> QED BY <5>1, <3>2, <1>0, NextChunk
      <4>2. z[x].md_prev = r /\ SameTags(z[x], m[x])
        BY <3>1, <3>2, <1>4
      <4> QED BY <4>1, <4>2, <3>1, <1>7 DEF Right, SameTags
    <3>3. CASE x # m[p].md_next
      <4>1. z[x].md_prev = m[x].md_prev /\ SameTags(z[x], m[x])
        BY <3>1, <3>3, <1>4
      <4>2. m[x].md_prev \in B => z[m[x].md_prev].size = m[m[x].md_prev].size
        BY <1>4, <1>7
      <4> QED BY <4>1, <4>2, <3>1 DEF Right, SameTags
    <3> QED BY <3>2, <3>3
  <2> QED BY <2>1, <2>2, <2>3
<1>9. ASSUME NEW x \in B PROVE z[x].md_prev \notin B /\ z[x].md_next # t2
  <2>1. x \in DOMAIN m \ {p} /\ m[x].md_prev \notin B /\ m[x].md_next # t /\ x \in C /\ x # t
    BY <1>5, <1>6, <1>7
  <2>2. z[x].md_prev \notin B /\ z[x].md_next = m[x].md_next
    BY <2>1, <1>4, <1>7
  <2>3. m[x].md_next # r
    <3>1. m[x].md_next \in DOMAIN m
      BY <2>1, <1>0, <1>c, NextChunk
    <3> QED BY <3>1, <1>3
  <2> QED BY <2>1, <2>2, <2>3, <1>t
<1>10. B \subseteq ChunksOf(z) \ {t2}
  BY <1>5, <1>6, <1>7, <1>t
<1> QED BY <1>1, <1>2, <1>5, <1>8, <1>9, <1>10, <1>t DEF Tagged, TagsBut

\* A chunk takes in the one behind it; neither is in a bin.
LEMMA TagsMerge ==
    ASSUME NEW m, NEW t, NEW sm, NEW own, NEW B, NEW X, Tagged(m, t, sm, own, B, X),
           NEW p \in ChunksOf(m), p \notin sm, p # t, p \notin B,
           NEW n, n = m[p].md_next, n \notin sm, n \notin B,
           n = t => m[p].md_prev \notin B,
           NEW z, Merged(m, p, n, z), \A x \in DOMAIN m \ {n} : SameTags(z[x], m[x])
    PROVE  Tagged(z, IF n = t THEN p ELSE t, sm, own, B, X \ {n})
<1>0. Geo(m, t, sm, own)
  BY DEF Tagged
<1>1. Geo(z, IF n = t THEN p ELSE t, sm, own)
  BY <1>0, GeoMerge
<1>n. PICK nn : nn = m[n].md_next
  OBVIOUS
<1>c. PICK C : C = ChunksOf(m)
  OBVIOUS
<1>t. PICK t2 : t2 = IF n = t THEN p ELSE t
  OBVIOUS
<1>2. /\ n \in C /\ n # p /\ m[n].md_prev = p
      /\ n = t => nn = NULL
      /\ n # t => nn \in C \ {n, p} /\ m[nn].md_prev = n
  BY Neighbours, <1>0, <1>n, <1>c
<1>3. /\ DOMAIN z = DOMAIN m \ {n}
      /\ z[p].md_next = nn /\ z[p].md_prev = m[p].md_prev
      /\ \A x \in DOMAIN m \ {n, p} :
            /\ z[x].size = m[x].size /\ z[x].md_next = m[x].md_next
            /\ z[x].md_prev = (IF x = nn THEN p ELSE m[x].md_prev)
  BY <1>n DEF Merged
<1>4. ChunksOf(z) = C \ {n} /\ C \subseteq DOMAIN m /\ p \in C
  BY <1>3, <1>c DEF ChunksOf
<1>5. B \subseteq C \ {t} /\ (\A x \in C \ X : Right(m, B, x))
      /\ \A x \in B : m[x].md_prev \notin B /\ m[x].md_next # t
  BY <1>c DEF Tagged, TagsBut
<1>6. \A x \in B : x \in DOMAIN m \ {n, p}
  BY <1>4, <1>5
<1>7. ASSUME NEW x \in (C \ {n}) \ X PROVE Right(z, B, x)
  <2>1. Right(m, B, x) /\ x \in DOMAIN m /\ x # n /\ SameTags(z[x], m[x])
    BY <1>4, <1>5
  <2>2. CASE x = nn /\ x # p
    <3>1. m[x].md_prev = n
      BY <2>2, <1>0, <1>2, <1>c, OneChunk
    <3>2. z[x].md_prev = p
      BY <2>1, <2>2, <1>3
    <3> QED BY <3>1, <3>2, <2>1 DEF Right, SameTags
  <2>3. CASE x # nn \/ x = p
    <3>1. z[x].md_prev = m[x].md_prev
      BY <2>1, <2>3, <1>3
    <3>2. m[x].md_prev \in B => z[m[x].md_prev].size = m[m[x].md_prev].size
      BY <1>3, <1>6
    <3> QED BY <3>1, <3>2, <2>1 DEF Right, SameTags
  <2> QED BY <2>2, <2>3
<1>8. ASSUME NEW x \in B PROVE z[x].md_prev \notin B /\ z[x].md_next # t2
  <2>1. x \in DOMAIN m \ {n, p} /\ m[x].md_prev \notin B /\ m[x].md_next # t /\ x \in C /\ x # t
    BY <1>5, <1>6
  <2>2. z[x].md_prev \notin B /\ z[x].md_next = m[x].md_next
    BY <2>1, <1>3
  <2>3. n = t => m[x].md_next # p
    <3> SUFFICES ASSUME n = t, m[x].md_next = p PROVE FALSE
      OBVIOUS
    <3>1. m[p].md_prev = x
      BY <2>1, <1>0, <1>c, NextChunk
    <3> QED BY <3>1
  <2> QED BY <2>1, <2>2, <2>3, <1>t
<1>9. B \subseteq ChunksOf(z) \ {t2}
  BY <1>4, <1>5, <1>6, <1>t
<1> QED BY <1>1, <1>4, <1>7, <1>8, <1>9, <1>t DEF Tagged, TagsBut

\* A chunk between chunks that are in no bin, not before the top, becomes a free one:
\* it leaves its size behind it.
LEMMA TagsFile ==
    ASSUME NEW m, NEW t, NEW sm, NEW own, NEW B, NEW X, Tagged(m, t, sm, own, B, X),
           NEW q \in ChunksOf(m), q # t, q \notin B, m[q].md_prev \notin B,
           NEW n, n = m[q].md_next, n # t, n \notin B, X \subseteq {q, n},
           NEW z \in [DOMAIN m -> Chunk], \A x \in DOMAIN m : SameGeo(z[x], m[x]),
           \A x \in ChunksOf(m) \ {q, n} : SameTags(z[x], m[x]),
           z[q].prev_inuse, ~z[n].prev_inuse, z[n].prev_size = m[q].size
    PROVE  Tagged(z, t, sm, own, B \cup {q}, {})
<1>0. Geo(m, t, sm, own) /\ Geo(z, t, sm, own)
  BY GeoSame DEF Tagged
<1>c. PICK C : C = ChunksOf(m)
  OBVIOUS
<1>1. B \subseteq C \ {t} /\ (\A x \in C \ {q, n} : Right(m, B, x))
      /\ \A x \in B : m[x].md_prev \notin B /\ m[x].md_next # t
  BY <1>c DEF Tagged, TagsBut
<1>2. n \in C /\ n # q /\ m[n].md_prev = q /\ q \in C /\ C \subseteq DOMAIN m
      /\ ChunksOf(z) = C
  <2>1. C \subseteq DOMAIN m /\ ChunksOf(z) = C
    BY <1>c DEF ChunksOf
  <2> QED BY <2>1, <1>0, <1>c, NextChunk
<1>3. \A x \in DOMAIN m : z[x].size = m[x].size /\ z[x].md_next = m[x].md_next
                          /\ z[x].md_prev = m[x].md_prev
  BY DEF SameGeo
<1>4. \A x \in C : m[x].md_prev = q => x = n
  <2> SUFFICES ASSUME NEW x \in C, m[x].md_prev = q PROVE x = n
    OBVIOUS
  <2>1. q # NULL
    BY <1>0, OneChunk
  <2>2. m[q].md_next = x
    BY <2>1, <1>0, <1>c DEF Geo, Links
  <2> QED BY <2>2
<1>5. ASSUME NEW x \in C PROVE Right(z, B \cup {q}, x)
  <2>1. CASE x = q
    <3>1. m[q].md_prev # q
      BY <1>2, <1>4
    <3>2. z[q].md_prev \notin B \cup {q}
      BY <3>1, <1>2, <1>3
    <3> QED BY <2>1, <3>2 DEF Right
  <2>2. CASE x = n
    <3>1. z[n].md_prev = q /\ z[q].size = m[q].size
      BY <1>2, <1>3
    <3> QED BY <2>2, <3>1 DEF Right
  <2>3. CASE x # q /\ x # n
    <3>1. Right(m, B, x) /\ SameTags(z[x], m[x]) /\ m[x].md_prev # q /\ x \in DOMAIN m
      BY <2>3, <1>1, <1>2, <1>4, <1>c
    <3>2. z[x].md_prev = m[x].md_prev
      BY <3>1, <1>3
    <3>3. m[x].md_prev \in B => z[m[x].md_prev].size = m[m[x].md_prev].size
      BY <1>1, <1>2, <1>3
    <3> QED BY <3>1, <3>2, <3>3 DEF Right, SameTags
  <2> QED BY <2>1, <2>2, <2>3
<1>6. ASSUME NEW x \in B \cup {q}
      PROVE  z[x].md_prev \notin B \cup {q} /\ z[x].md_next # t
  <2>1. x \in C /\ z[x].md_prev = m[x].md_prev /\ z[x].md_next = m[x].md_next
    BY <1>1, <1>2, <1>3
  <2>2. m[x].md_prev \notin B /\ m[x].md_next # t
    BY <1>1
  <2>3. m[x].md_prev # q
    BY <2>1, <1>2, <1>4
  <2> QED BY <2>1, <2>2, <2>3
<1> QED BY <1>0, <1>1, <1>2, <1>5, <1>6 DEF Tagged, TagsBut

\* The tag of the top chunk is right when it says that the chunk before is in use.
LEMMA TopTag ==
    ASSUME NEW m, NEW t, NEW sm, NEW own, NEW B, NEW X, Tagged(m, t, sm, own, B, X),
           t # InitialTop
    PROVE  m[t].md_prev \notin B
<1> SUFFICES ASSUME m[t].md_prev \in B PROVE FALSE
  OBVIOUS
<1>1. m[t].md_prev \in ChunksOf(m) /\ Geo(m, t, sm, own) /\ m[m[t].md_prev].md_next # t
  BY DEF Tagged, TagsBut
<1>2. m[t].md_prev # NULL /\ t \in ChunksOf(m)
  BY <1>1, OneChunk
<1> QED BY <1>1, <1>2 DEF Geo, Links

LEMMA TagsResize ==
    ASSUME NEW m, NEW t, NEW sm, NEW own, NEW B, Tagged(m, t, sm, own, B, {}),
           t # InitialTop, NEW size \in Nat, NEW z, Resized(m, t, size, z),
           z[t].prev_inuse, \A x \in DOMAIN m \ {t} : SameTags(z[x], m[x]),
           NEW own2, Geo(z, t, sm, own2)
    PROVE  Tagged(z, t, sm, own2, B, {})
<1>c. PICK C : C = ChunksOf(m)
  OBVIOUS
<1>1. B \subseteq C \ {t} /\ (\A x \in C : Right(m, B, x))
      /\ \A x \in B : m[x].md_prev \notin B /\ m[x].md_next # t
  BY <1>c DEF Tagged, TagsBut
<1>2. C \subseteq DOMAIN m /\ ChunksOf(z) = C
  BY <1>c DEF ChunksOf, Resized
<1>3. /\ z[t].md_prev = m[t].md_prev
      /\ \A x \in DOMAIN m \ {t} : z[x].size = m[x].size /\ z[x].md_next = m[x].md_next
                                   /\ z[x].md_prev = m[x].md_prev
  BY DEF SameGeo, Resized
<1>4. ASSUME NEW x \in C PROVE Right(z, B, x)
  <2>1. CASE x = t
    <3>1. z[t].md_prev \notin B
      BY <1>3, TopTag
    <3> QED BY <2>1, <3>1 DEF Right
  <2>2. CASE x # t
    <3>1. Right(m, B, x) /\ x \in DOMAIN m \ {t} /\ SameTags(z[x], m[x])
      BY <2>2, <1>1, <1>2
    <3>2. m[x].md_prev \in B => z[m[x].md_prev].size = m[m[x].md_prev].size
      BY <1>1, <1>2, <1>3
    <3> QED BY <3>1, <3>2, <1>3 DEF Right, SameTags
  <2> QED BY <2>1, <2>2
<1>5. \A x \in B : z[x].md_prev \notin B /\ z[x].md_next # t
  BY <1>1, <1>2, <1>3
<1> QED BY <1>1, <1>2, <1>4, <1>5 DEF Tagged, TagsBut

LEMMA TagsNewTop ==
    ASSUME NEW m, NEW t, NEW sm, NEW own, NEW B, Tagged(m, t, sm, own, B, {}),
           NEW base \in Nat, base \notin DOMAIN m,
           NEW size, NEW z, Topped(m, t, base, size, z),
           z[base].prev_inuse, \A x \in DOMAIN m : SameTags(z[x], m[x]),
           NEW sm2, NEW own2, Geo(z, base, sm2, own2)
    PROVE  Tagged(z, base, sm2, own2, B, {})
<1>c. PICK C : C = ChunksOf(m)
  OBVIOUS
<1>0. Geo(m, t, sm, own)
  BY DEF Tagged
<1>1. B \subseteq C \ {t} /\ (\A x \in C : Right(m, B, x))
      /\ \A x \in B : m[x].md_prev \notin B /\ m[x].md_next # t
  BY <1>c DEF Tagged, TagsBut
<1>2. C \subseteq DOMAIN m /\ ChunksOf(z) = C \cup {base} /\ base \notin C
  <2>1. base # InitialTop
    BY Distinct
  <2> QED BY <2>1, <1>c DEF ChunksOf, Topped
<1>3. /\ z[base].md_prev = (IF t = InitialTop THEN NULL ELSE t)
      /\ \A x \in DOMAIN m :
          /\ z[x].size = m[x].size /\ z[x].md_prev = m[x].md_prev
          /\ z[x].md_next = (IF x = t /\ t # InitialTop THEN base ELSE m[x].md_next)
  BY DEF Topped
<1>4. ASSUME NEW x \in C \cup {base} PROVE Right(z, B, x)
  <2>1. CASE x = base
    <3>1. NULL \notin B
      BY <1>0, <1>1, <1>c, OneChunk
    <3>2. z[base].md_prev \notin B
      BY <3>1, <1>1, <1>3
    <3> QED BY <2>1, <3>2 DEF Right
  <2>2. CASE x # base
    <3>1. Right(m, B, x) /\ x \in DOMAIN m /\ SameTags(z[x], m[x])
      BY <2>2, <1>1, <1>2
    <3>2. m[x].md_prev \in B => z[m[x].md_prev].size = m[m[x].md_prev].size
      BY <1>1, <1>2, <1>3
    <3> QED BY <3>1, <3>2, <1>3 DEF Right, SameTags
  <2> QED BY <2>1, <2>2
<1>5. ASSUME NEW x \in B PROVE z[x].md_prev \notin B /\ z[x].md_next # base
  <2>1. x \in DOMAIN m /\ x \in C /\ x # t /\ m[x].md_prev \notin B
    BY <1>1, <1>2
  <2>2. z[x].md_prev = m[x].md_prev /\ z[x].md_next = m[x].md_next
    BY <2>1, <1>3
  <2>3. m[x].md_next \in DOMAIN m
    BY <2>1, <1>0, <1>c, NextChunk
  <2> QED BY <2>1, <2>2, <2>3
<1>6. B \subseteq ChunksOf(z) \ {base}
  BY <1>1, <1>2
<1> QED BY <1>2, <1>4, <1>5, <1>6 DEF Tagged, TagsBut

(***************************************************************************)
(* The records after the operators on tags                                 *)
(***************************************************************************)
\* Only the tags at x may differ.
OnlyTags(m, x, z) ==
    /\ z \in [DOMAIN m -> Chunk]
    /\ SameGeo(z[x], m[x]) /\ \A y \in DOMAIN m \ {x} : z[y] = m[y]

LEMMA SetInuseIs ==
    ASSUME NEW m, m \in [DOMAIN m -> Chunk], NEW p, NEW n \in DOMAIN m, n = m[p].md_next,
           NEW z, z = SetInuse(m, p)
    PROVE  OnlyTags(m, n, z) /\ z[n].prev_inuse = TRUE
<1>c. PICK c : c = [m[n] EXCEPT !.prev_inuse = TRUE]
  OBVIOUS
<1>d. PICK d : d = [c EXCEPT !.prev_size = 0]
  OBVIOUS
<1>1. m[n] \in Chunk
  OBVIOUS
<1>2. c \in Chunk /\ SameGeo(c, m[n]) /\ c.prev_inuse = TRUE
  BY <1>1, <1>c DEF Chunk, SameGeo
<1>3. d \in Chunk /\ SameGeo(d, c) /\ d.prev_inuse = c.prev_inuse
  BY <1>2, <1>d, PutPrevSize
<1>4. z = [m EXCEPT ![n] = d]
  BY <1>c, <1>d DEF SetInuse
<1>5. z \in [DOMAIN m -> Chunk] /\ z[n] = d /\ \A y \in DOMAIN m \ {n} : z[y] = m[y]
  BY <1>4, <1>3
<1> QED BY <1>5, <1>3, <1>2 DEF OnlyTags, SameGeo

LEMMA ClearInuseIs ==
    ASSUME NEW m, m \in [DOMAIN m -> Chunk], NEW n \in DOMAIN m,
           NEW z, z = ClearInuse(m, n)
    PROVE  OnlyTags(m, n, z) /\ z[n].prev_inuse = FALSE
<1>c. PICK c : c = [m[n] EXCEPT !.prev_inuse = FALSE]
  OBVIOUS
<1>1. m[n] \in Chunk
  OBVIOUS
<1>2. c \in Chunk /\ SameGeo(c, m[n]) /\ c.prev_inuse = FALSE
  BY <1>1, <1>c DEF Chunk, SameGeo
<1>4. z = [m EXCEPT ![n] = c]
  BY <1>c DEF ClearInuse
<1>5. z \in [DOMAIN m -> Chunk] /\ z[n] = c /\ \A y \in DOMAIN m \ {n} : z[y] = m[y]
  BY <1>4, <1>2
<1> QED BY <1>5, <1>2 DEF OnlyTags

LEMMA SetFootIs ==
    ASSUME NEW m, m \in [DOMAIN m -> Chunk], NEW p \in DOMAIN m,
           NEW n \in DOMAIN m, n = m[p].md_next, NEW z, z = SetFoot(m, p)
    PROVE  OnlyTags(m, n, z) /\ z[n].prev_inuse = m[n].prev_inuse
           /\ z[n].prev_size = m[p].size
<1>c. PICK c : c = [m[n] EXCEPT !.prev_size = m[p].size]
  OBVIOUS
<1>1. m[n] \in Chunk /\ m[p].size \in Nat
  BY DEF Chunk
<1>2. c \in Chunk /\ SameGeo(c, m[n]) /\ c.prev_inuse = m[n].prev_inuse
      /\ c.prev_size = m[p].size
  BY <1>1, <1>c, PutPrevSize
<1>4. z = [m EXCEPT ![n] = c]
  BY <1>c DEF SetFoot
<1>5. z \in [DOMAIN m -> Chunk] /\ z[n] = c /\ \A y \in DOMAIN m \ {n} : z[y] = m[y]
  BY <1>4, <1>2
<1> QED BY <1>5, <1>2 DEF OnlyTags

\* The records z after m when p has got a new head
Headed(m, p, s, z) ==
    /\ z \in [DOMAIN m -> Chunk]
    /\ z[p].size = s /\ z[p].md_next = m[p].md_next /\ z[p].md_prev = m[p].md_prev
    /\ z[p].prev_inuse = TRUE /\ z[p].prev_size = 0
    /\ \A y \in DOMAIN m \ {p} : z[y] = m[y]

LEMMA SetHeadIs ==
    ASSUME NEW m, m \in [DOMAIN m -> Chunk], NEW p \in DOMAIN m, NEW s \in Nat
    PROVE  Headed(m, p, s, SetHead(m, p, s))
<1>z. PICK z : z = SetHead(m, p, s)
  OBVIOUS
<1>b. PICK b : b = [m[p] EXCEPT !.size = s]
  OBVIOUS
<1>c. PICK c : c = [b EXCEPT !.prev_inuse = TRUE]
  OBVIOUS
<1>d. PICK d : d = [c EXCEPT !.prev_size = 0]
  OBVIOUS
<1>1. m[p] \in Chunk
  OBVIOUS
<1>2. b \in Chunk /\ b.size = s /\ b.md_next = m[p].md_next /\ b.md_prev = m[p].md_prev
  BY <1>1, <1>b, PutSize
<1>3. c \in Chunk /\ SameGeo(c, b) /\ c.prev_inuse = TRUE
  BY <1>2, <1>c, PutInuse
<1>4. d \in Chunk /\ SameGeo(d, c) /\ d.prev_inuse = c.prev_inuse /\ d.prev_size = 0
  BY <1>3, <1>d, PutPrevSize
<1>5. z = [m EXCEPT ![p] = d]
  BY <1>z, <1>b, <1>c, <1>d DEF SetHead
<1>6. z \in [DOMAIN m -> Chunk] /\ z[p] = d /\ \A y \in DOMAIN m \ {p} : z[y] = m[y]
  BY <1>5, <1>4
<1>7. Headed(m, p, s, z)
  BY <1>6, <1>4, <1>3, <1>2 DEF SameGeo, Headed
<1> QED BY <1>z, <1>7

(***************************************************************************)
(* The whole heap after the steps of the program                           *)
(***************************************************************************)
\* The sizes when p has been cut to nb units, and the rest is the chunk p + nb
Cut(m, p, nb, z) ==
    /\ p + nb \notin DOMAIN m /\ p + nb \in Nat /\ DOMAIN z = DOMAIN m \cup {p + nb}
    /\ SameSizes(m, z, {p}) /\ z[p].size = nb /\ z[p + nb].size = m[p].size - nb

\* A chunk in a bin, in a fastbin or in use.
LEMMA Proper ==
    ASSUME NEW m, NEW t, NEW sm, NEW own, NEW B, NEW F, NEW L, NEW X,
           HeapBut(m, t, sm, own, B, F, L, X), NEW p \in B \cup F \cup L
    PROVE  /\ p \in ChunksOf(m) /\ p # t /\ p \notin sm /\ p \in DOMAIN m /\ p \in Nat
           /\ m[p] \in Chunk /\ m[p].size \in Nat /\ m[p].size >= MINSIZE
           /\ Geo(m, t, sm, own) /\ t \in ChunksOf(m) /\ t # InitialTop
           /\ m[t].size \in Nat /\ m[t].size >= MINSIZE
<1>1. Geo(m, t, sm, own) /\ Places(m, t, B, F, L)
  BY DEF HeapBut, Tagged
<1>2. p \in ChunksOf(m) /\ p # t /\ m[p].size >= MINSIZE
  BY <1>1 DEF Places
<1>3. p \in DOMAIN m /\ p \in Nat /\ m[p] \in Chunk /\ m[p].size \in Nat
      /\ t \in ChunksOf(m) /\ t # InitialTop
  BY <1>1, <1>2, OneChunk
<1>4. p \notin sm
  <2> SUFFICES ASSUME p \in sm PROVE FALSE
    OBVIOUS
  <2>1. m[p].size = 1
    BY <1>1 DEF Geo, Shape
  <2> QED BY <2>1, <1>2, Distinct
<1>5. m[t].size \in Nat
  BY <1>1, <1>3, OneChunk
<1>6. m[t].size >= MINSIZE
  BY <1>1, <1>3 DEF Places
<1> QED BY <1>1, <1>2, <1>3, <1>4, <1>5, <1>6

\* The places depend on the sizes.
LEMMA PlacesSame ==
    ASSUME NEW m, NEW t, NEW B, NEW F, NEW L, Places(m, t, B, F, L), t \in DOMAIN m,
           NEW z, DOMAIN z = DOMAIN m, \A x \in DOMAIN m : z[x].size = m[x].size
    PROVE  Places(z, t, B, F, L)
<1>1. ChunksOf(z) = ChunksOf(m) /\ ChunksOf(m) \subseteq DOMAIN m
  BY DEF ChunksOf
<1> QED BY <1>1 DEF Places

\* malloc: a chunk of a bin is taken whole.
LEMMA TakeWhole ==
    ASSUME NEW m, NEW t, NEW sm, NEW own, NEW B, NEW F, NEW L, Heap(m, t, sm, own, B, F, L),
           NEW v \in B, NEW z, z = SetInuse(m, v)
    PROVE  Heap(z, t, sm, own, B \ {v}, F, L \cup {v}) /\ DOMAIN z = DOMAIN m
           /\ SameSizes(m, z, {})
<1>0. HeapBut(m, t, sm, own, B, F, L, {}) /\ Tagged(m, t, sm, own, B, {}) /\ Places(m, t, B, F, L)
  BY DEF Heap, HeapBut
<1>n. PICK n : n = m[v].md_next
  OBVIOUS
<1>1. v \in ChunksOf(m) /\ v # t /\ Geo(m, t, sm, own) /\ t \in DOMAIN m
  BY <1>0, Proper DEF ChunksOf
<1>2. n \in ChunksOf(m) /\ n \in DOMAIN m /\ m[n].md_prev = v
  BY <1>1, <1>n, NextChunk
<1>3. m \in [DOMAIN m -> Chunk]
  BY <1>1 DEF Geo, Shape
<1>4. OnlyTags(m, n, z) /\ z[n].prev_inuse = TRUE
  BY <1>2, <1>3, <1>n, SetInuseIs
<1>5. Tagged(m, t, sm, own, B \ {v}, {n})
  <2>1. Tagged(m, t, sm, own, B \ {v}, {} \cup {n})
    BY <1>0, <1>n, TagsUnlink
  <2> QED BY <2>1
<1>6. z \in [DOMAIN m -> Chunk] /\ \A x \in DOMAIN m : SameGeo(z[x], m[x])
  BY <1>4 DEF OnlyTags, SameGeo
<1>7. Tagged(z, t, sm, own, B \ {v}, {})
  <2>1. z[n].md_prev = v
    BY <1>2, <1>6 DEF SameGeo
  <2>2. Right(z, B \ {v}, n)
    BY <2>1, <1>4 DEF Right
  <2>3. \A x \in ChunksOf(m) \ {n} : z[x] = m[x]
    BY <1>4 DEF OnlyTags, ChunksOf
  <2>4. \A x \in ChunksOf(m) \ {} :
           (x \notin {n} /\ SameTags(z[x], m[x])) \/ Right(z, B \ {v}, x)
    BY <2>2, <2>3 DEF SameTags
  <2> QED BY <1>5, <1>6, <2>4, Retag
<1>8. DOMAIN z = DOMAIN m /\ \A x \in DOMAIN m : z[x].size = m[x].size
  BY <1>6 DEF SameGeo
<1>9. Places(z, t, B \ {v}, F, L \cup {v})
  <2>1. Places(m, t, B \ {v}, F, L \cup {v})
    BY <1>0 DEF Places
  <2> QED BY <2>1, <1>8, <1>1, PlacesSame
<1> QED BY <1>7, <1>8, <1>9 DEF Heap, HeapBut, SameSizes

\* A chunk in use, or the top chunk, is split in two that are large enough: the first
\* one is in use, the other one is too, or is the top chunk.
LEMMA CarveHeap ==
    ASSUME NEW m, NEW t, NEW sm, NEW own, NEW B, NEW F, NEW L, NEW X,
           HeapBut(m, t, sm, own, B, F, L, X), NEW p \in L \cup {t}, t # InitialTop,
           NEW nb \in Nat, nb >= MINSIZE, m[p].size >= nb + MINSIZE,
           NEW z, z = Carve(m, p, nb), NEW r, r = p + nb,
           NEW t2, t2 = IF p = t THEN r ELSE t
    PROVE  HeapBut(z, t2, sm, own, B, F, (L \cup {p, r}) \ {t2}, X) /\ Carved(m, p, r, z)
<1>0. Tagged(m, t, sm, own, B, X) /\ Places(m, t, B, F, L) /\ Geo(m, t, sm, own)
  BY DEF HeapBut, Tagged
<1>c. PICK C : C = ChunksOf(m)
  OBVIOUS
<1>1. t \in C /\ t \notin sm /\ t \notin B \cup F \cup L
  BY <1>0, <1>c DEF Geo, Shape, ChunksOf, Places
<1>2. p \in C /\ p \notin sm /\ p \notin B /\ p \notin F
  <2>1. CASE p = t
    BY <2>1, <1>1
  <2>2. CASE p \in L
    BY <2>2, <1>0, <1>c, Proper DEF Places
  <2> QED BY <2>1, <2>2
<1>3. p \in Nat /\ m[p].size \in Nat /\ p \in DOMAIN m
  BY <1>0, <1>2, <1>c, OneChunk
<1>4. 0 < nb /\ nb < m[p].size /\ nb \in Nat
  BY <1>3, Distinct
<1>5. Carved(m, p, r, z) /\ Tagged(z, t2, sm, own, B, X)
  <2>1. p \in ChunksOf(m) \ sm
    BY <1>2, <1>c
  <2> QED BY <2>1, <1>0, <1>2, <1>4, TagsCarve
<1>6. /\ r \notin DOMAIN m /\ DOMAIN z = DOMAIN m \cup {r} /\ r \in Nat
      /\ z[p].size = r - p /\ z[r].size = p + m[p].size - r
      /\ \A x \in DOMAIN m \ {p} : z[x].size = m[x].size
  BY <1>5 DEF Carved
<1>7. ChunksOf(z) = C \cup {r} /\ C \subseteq DOMAIN m /\ r \notin C
  <2>1. r # InitialTop
    BY <1>6, Distinct
  <2> QED BY <2>1, <1>6, <1>c DEF ChunksOf
<1>8. z[p].size >= MINSIZE /\ z[r].size >= MINSIZE
  BY <1>3, <1>6, Distinct
<1>9. PICK L2 : L2 = (L \cup {p, r}) \ {t2}
  OBVIOUS
<1>10. /\ B \cap F = {} /\ (B \cup F) \cap L = {} /\ B \cup F \cup L \subseteq C
       /\ m[t].size >= MINSIZE
       /\ \A x \in C \ {t} :
             IF x \in B \cup F \cup L THEN m[x].size >= MINSIZE ELSE m[x].size = 1
  BY <1>0, <1>c DEF Places
<1>11. /\ B \cap F = {} /\ (B \cup F) \cap L2 = {} /\ t2 \notin B \cup F \cup L2
       /\ B \cup F \cup L2 \subseteq C \cup {r}
  BY <1>1, <1>2, <1>7, <1>9, <1>10
<1>12. z[t2].size >= MINSIZE
  <2>1. CASE p = t
    BY <2>1, <1>8
  <2>2. CASE p # t
    <3>1. z[t].size = m[t].size
      BY <2>2, <1>1, <1>6, <1>7
    <3> QED BY <2>2, <3>1, <1>10
  <2> QED BY <2>1, <2>2
<1>13. ASSUME NEW x \in (C \cup {r}) \ {t2}
       PROVE  IF x \in B \cup F \cup L2 THEN z[x].size >= MINSIZE ELSE z[x].size = 1
  <2>1. CASE x = p \/ x = r
    BY <2>1, <1>8, <1>9
  <2>2. CASE x # p /\ x # r
    <3>1. x \in C \ {t} /\ z[x].size = m[x].size
      BY <2>2, <1>6, <1>7
    <3>2. x \in B \cup F \cup L2 <=> x \in B \cup F \cup L
      BY <2>2, <1>9
    <3> QED BY <3>1, <3>2, <1>10
  <2> QED BY <2>1, <2>2
<1>14. Places(z, t2, B, F, L2)
  BY <1>7, <1>11, <1>12, <1>13 DEF Places
<1> QED BY <1>5, <1>9, <1>14 DEF HeapBut

\* A chunk in use gets its tag: the one behind it says that it is.
LEMMA MarkHeap ==
    ASSUME NEW m, NEW t, NEW sm, NEW own, NEW B, NEW F, NEW L, NEW X,
           HeapBut(m, t, sm, own, B, F, L, X), NEW p \in L, X \subseteq {m[p].md_next},
           NEW z, z = SetInuse(m, p)
    PROVE  Heap(z, t, sm, own, B, F, L) /\ DOMAIN z = DOMAIN m /\ SameSizes(m, z, {})
           /\ \A x \in DOMAIN m : SameGeo(z[x], m[x])
<1>0. Tagged(m, t, sm, own, B, X) /\ Places(m, t, B, F, L)
  BY DEF HeapBut
<1>n. PICK n : n = m[p].md_next
  OBVIOUS
<1>1. p \in ChunksOf(m) /\ p # t /\ Geo(m, t, sm, own) /\ t \in DOMAIN m
  BY Proper DEF ChunksOf
<1>2. n \in ChunksOf(m) /\ n \in DOMAIN m /\ m[n].md_prev = p
  BY <1>1, <1>n, NextChunk
<1>3. m \in [DOMAIN m -> Chunk]
  BY <1>1 DEF Geo, Shape
<1>4. OnlyTags(m, n, z) /\ z[n].prev_inuse = TRUE
  BY <1>2, <1>3, <1>n, SetInuseIs
<1>5. z \in [DOMAIN m -> Chunk] /\ \A x \in DOMAIN m : SameGeo(z[x], m[x])
  BY <1>4 DEF OnlyTags, SameGeo
<1>6. Tagged(z, t, sm, own, B, {})
  <2>1. z[n].md_prev = p /\ p \notin B
    BY <1>0, <1>2, <1>5 DEF SameGeo, Places
  <2>2. Right(z, B, n)
    BY <2>1, <1>4 DEF Right
  <2>3. \A x \in ChunksOf(m) \ {n} : z[x] = m[x]
    BY <1>4 DEF OnlyTags, ChunksOf
  <2>4. \A x \in ChunksOf(m) \ {} :
           (x \notin X /\ SameTags(z[x], m[x])) \/ Right(z, B, x)
    BY <2>2, <2>3, <1>n DEF SameTags
  <2> QED BY <1>0, <1>5, <2>4, Retag
<1>7. DOMAIN z = DOMAIN m /\ \A x \in DOMAIN m : z[x].size = m[x].size
  BY <1>5 DEF SameGeo
<1>8. Places(z, t, B, F, L)
  BY <1>0, <1>7, <1>1, PlacesSame
<1> QED BY <1>5, <1>6, <1>7, <1>8 DEF Heap, HeapBut, SameSizes

\* The chunk p keeps nb units, and the rest is in use too: GotMemalign, realloc.
LEMMA CarveMark ==
    ASSUME NEW m, NEW t, NEW sm, NEW own, NEW B, NEW F, NEW L, NEW X,
           HeapBut(m, t, sm, own, B, F, L, X), NEW p \in L, X \subseteq {m[p].md_next},
           NEW nb \in Nat, nb >= MINSIZE, m[p].size >= nb + MINSIZE,
           NEW r, r = p + nb, NEW z, z = SetInuse(Carve(m, p, nb), r)
    PROVE  Heap(z, t, sm, own, B, F, L \cup {r}) /\ Cut(m, p, nb, z)
<1>s. PICK s : s = Carve(m, p, nb)
  OBVIOUS
<1>1. p # t /\ t # InitialTop /\ p \in Nat /\ p \in DOMAIN m /\ m[p].size \in Nat
      /\ t \in DOMAIN m
  BY Proper DEF ChunksOf
<1>2. HeapBut(s, t, sm, own, B, F, (L \cup {p, r}) \ {t}, X) /\ Carved(m, p, r, s)
  <2>1. t = IF p = t THEN r ELSE t
    BY <1>1
  <2>2. p \in L \cup {t}
    OBVIOUS
  <2> QED BY <2>1, <2>2, <1>1, <1>s, CarveHeap
<1>3. /\ r \notin DOMAIN m /\ s[r].md_next = m[p].md_next /\ DOMAIN s = DOMAIN m \cup {r}
      /\ s[p].size = r - p /\ s[r].size = p + m[p].size - r
      /\ \A x \in DOMAIN m \ {p} : s[x].size = m[x].size
  BY <1>2 DEF Carved
<1>4. (L \cup {p, r}) \ {t} = L \cup {r}
  <2>1. t \notin L /\ r # t
    BY <1>1, <1>3 DEF HeapBut, Places
  <2> QED BY <2>1
<1>5. HeapBut(s, t, sm, own, B, F, L \cup {r}, X) /\ z = SetInuse(s, r) /\ r \in L \cup {r}
      /\ X \subseteq {s[r].md_next}
  BY <1>2, <1>3, <1>4, <1>s
<1>6. Heap(z, t, sm, own, B, F, L \cup {r}) /\ DOMAIN z = DOMAIN s /\ SameSizes(s, z, {})
  BY <1>5, MarkHeap
<1>7. \A x \in DOMAIN s : z[x].size = s[x].size
  BY <1>6 DEF SameSizes
<1>8. z[p].size = nb /\ z[r].size = m[p].size - nb
  BY <1>1, <1>3, <1>7
<1>9. r \in Nat
  BY <1>1
<1> QED BY <1>1, <1>3, <1>6, <1>7, <1>8, <1>9 DEF SameSizes, Cut

\* set_head of a chunk whose neighbour before it is in no bin.
LEMMA HeadHeap ==
    ASSUME NEW m, NEW t, NEW sm, NEW own, NEW B, NEW F, NEW L, NEW X,
           HeapBut(m, t, sm, own, B, F, L, X), NEW p \in ChunksOf(m), m[p].md_prev \notin B,
           NEW z, z = SetHead(m, p, m[p].size)
    PROVE  HeapBut(z, t, sm, own, B, F, L, X) /\ Headed(m, p, m[p].size, z)
<1>0. Tagged(m, t, sm, own, B, X) /\ Places(m, t, B, F, L) /\ Geo(m, t, sm, own)
  BY DEF HeapBut, Tagged
<1>1. p \in DOMAIN m /\ m[p].size \in Nat /\ t \in DOMAIN m /\ ChunksOf(m) \subseteq DOMAIN m
  BY <1>0, OneChunk DEF ChunksOf
<1>2. m \in [DOMAIN m -> Chunk]
  BY <1>0 DEF Geo, Shape
<1>s. PICK s : s = m[p].size
  OBVIOUS
<1>3. /\ z \in [DOMAIN m -> Chunk]
      /\ z[p].size = s /\ z[p].md_next = m[p].md_next /\ z[p].md_prev = m[p].md_prev
      /\ z[p].prev_inuse = TRUE /\ z[p].prev_size = 0
      /\ \A y \in DOMAIN m \ {p} : z[y] = m[y]
  <2>1. s \in Nat /\ z = SetHead(m, p, s) /\ p \in DOMAIN m
    BY <1>1, <1>s
  <2>2. Headed(m, p, s, z)
    BY <2>1, <1>2, SetHeadIs
  <2> QED BY <2>2 DEF Headed
<1>4. \A x \in DOMAIN m : SameGeo(z[x], m[x])
  BY <1>3, <1>s DEF SameGeo
<1>5. Tagged(z, t, sm, own, B, X)
  <2>1. Right(z, B, p)
    BY <1>3 DEF Right
  <2>2. \A x \in ChunksOf(m) \ X :
           (x \notin X /\ SameTags(z[x], m[x])) \/ Right(z, B, x)
    BY <2>1, <1>1, <1>3 DEF SameTags
  <2>3. z \in [DOMAIN m -> Chunk]
    BY <1>3
  <2> QED BY <1>0, <1>4, <2>2, <2>3, Retag
<1>6. DOMAIN z = DOMAIN m /\ \A x \in DOMAIN m : z[x].size = m[x].size
  BY <1>3, <1>4 DEF SameGeo
<1>7. Places(z, t, B, F, L)
  BY <1>0, <1>1, <1>6, PlacesSame
<1> QED BY <1>3, <1>5, <1>7, <1>s DEF HeapBut, Headed

\* What the tags say around a chunk of a bin.
Around(m, t, B, v, n) ==
    /\ n \in ChunksOf(m) /\ n # t /\ n # v /\ n \notin B /\ m[n].md_prev = v
    /\ m[n].prev_inuse = FALSE /\ m[n].prev_size = m[v].size
    /\ m[v].md_prev \notin B /\ m[v].prev_inuse = TRUE
    /\ n = v + m[v].size

LEMMA AroundBinned ==
    ASSUME NEW m, NEW t, NEW sm, NEW own, NEW B, NEW F, NEW L,
           Heap(m, t, sm, own, B, F, L), NEW v \in B, NEW n, n = m[v].md_next
    PROVE  Around(m, t, B, v, n)
<1>0. HeapBut(m, t, sm, own, B, F, L, {}) /\ Tagged(m, t, sm, own, B, {})
  BY DEF Heap, HeapBut
<1>1. v \in ChunksOf(m) /\ v # t /\ Geo(m, t, sm, own) /\ v \notin sm
  BY <1>0, Proper
<1>2. n \in ChunksOf(m) /\ n # v /\ m[n].md_prev = v /\ n \in DOMAIN m
  BY <1>1, NextChunk
<1>3. Right(m, B, n) /\ Right(m, B, v)
  BY <1>0, <1>1, <1>2 DEF Tagged, TagsBut
<1>4. m[v].md_prev \notin B /\ n # t
  BY <1>0 DEF Tagged, TagsBut
<1>5. n \notin B
  BY <1>0, <1>2 DEF Tagged, TagsBut
<1>6. m[n].prev_inuse \in BOOLEAN /\ m[v].prev_inuse \in BOOLEAN
  <2>1. m[n] \in Chunk /\ m[v] \in Chunk
    BY <1>1, <1>2, OneChunk
  <2> QED BY <2>1 DEF Chunk
<1>7. m[n].prev_inuse = FALSE
  BY <1>2, <1>3, <1>6 DEF Right
<1>8. m[n].prev_size = m[v].size
  BY <1>2, <1>3 DEF Right
<1>9. m[v].prev_inuse = TRUE
  BY <1>3, <1>4, <1>6 DEF Right
<1>10. n = v + m[v].size
  BY <1>1 DEF Geo, Links
<1> QED BY <1>2, <1>4, <1>5, <1>7, <1>8, <1>9, <1>10 DEF Around

\* malloc: a chunk of a bin is split, and the rest is a free chunk.
LEMMA TakeSplit ==
    ASSUME NEW m, NEW t, NEW sm, NEW own, NEW B, NEW F, NEW L, Heap(m, t, sm, own, B, F, L),
           NEW v \in B, NEW nb \in Nat, nb >= MINSIZE, m[v].size >= nb + MINSIZE,
           NEW r, r = v + nb,
           NEW z, z = SetFoot(Carve(SetHead(m, v, m[v].size), v, nb), r)
    PROVE  Heap(z, t, sm, own, (B \ {v}) \cup {r}, F, L \cup {v}) /\ Cut(m, v, nb, z)
<1>0. HeapBut(m, t, sm, own, B, F, L, {}) /\ Tagged(m, t, sm, own, B, {}) /\ Places(m, t, B, F, L)
  BY DEF Heap, HeapBut
<1>n. PICK n : n = m[v].md_next
  OBVIOUS
<1>1. /\ v \in ChunksOf(m) /\ v # t /\ v \in DOMAIN m /\ v \in Nat /\ m[v].size \in Nat
      /\ t # InitialTop /\ t \in DOMAIN m
  <2>1. v \in B \cup F \cup L
    OBVIOUS
  <2>2. /\ v \in ChunksOf(m) /\ v # t /\ v \in DOMAIN m /\ v \in Nat /\ m[v].size \in Nat
        /\ t # InitialTop /\ t \in ChunksOf(m)
    BY <1>0, <2>1, Proper
  <2> QED BY <2>2 DEF ChunksOf
<1>2. /\ n \in ChunksOf(m) /\ n # t /\ n # v /\ n \notin B /\ m[n].prev_inuse = FALSE
      /\ m[v].md_prev \notin B
  <2>1. Around(m, t, B, v, n)
    BY <1>n, AroundBinned
  <2> QED BY <2>1 DEF Around
<1>B. PICK B1 : B1 = B \ {v}
  OBVIOUS
<1>L. PICK L1 : L1 = L \cup {v}
  OBVIOUS
<1>3. HeapBut(m, t, sm, own, B1, F, L1, {n})
  <2>1. Tagged(m, t, sm, own, B \ {v}, {} \cup {n})
    BY <1>0, <1>n, TagsUnlink
  <2>2. Places(m, t, B1, F, L1)
    BY <1>0, <1>B, <1>L DEF Places
  <2> QED BY <2>1, <2>2, <1>B DEF HeapBut
<1>a. PICK a : a = SetHead(m, v, m[v].size)
  OBVIOUS
<1>4. /\ HeapBut(a, t, sm, own, B1, F, L1, {n}) /\ DOMAIN a = DOMAIN m
      /\ a[v].size = m[v].size /\ a[v].md_next = n
      /\ \A x \in DOMAIN m \ {v} : a[x] = m[x]
  <2>1. m[v].md_prev \notin B1 /\ v \in ChunksOf(m)
    BY <1>1, <1>2, <1>B
  <2>2. HeapBut(a, t, sm, own, B1, F, L1, {n}) /\ Headed(m, v, m[v].size, a)
    BY <2>1, <1>3, <1>a, HeadHeap
  <2> QED BY <2>2, <1>n DEF Headed
<1>c. PICK c : c = Carve(a, v, nb)
  OBVIOUS
<1>5. HeapBut(c, t, sm, own, B1, F, (L1 \cup {v, r}) \ {t}, {n}) /\ Carved(a, v, r, c)
  <2>1. t = IF v = t THEN r ELSE t
    BY <1>1
  <2>2. v \in L1 \cup {t} /\ a[v].size >= nb + MINSIZE
    BY <1>L, <1>4
  <2> QED BY <2>1, <2>2, <1>1, <1>4, <1>c, CarveHeap
<1>6. /\ r \notin DOMAIN m /\ r \in Nat /\ DOMAIN c = DOMAIN m \cup {r} /\ c \in [DOMAIN c -> Chunk]
      /\ c[v].size = r - v
      /\ c[r].size = v + m[v].size - r /\ c[r].md_next = n /\ c[r].md_prev = v
      /\ c[r].prev_inuse = TRUE
      /\ \A x \in DOMAIN m \ {v} : c[x].size = m[x].size /\ SameTags(c[x], m[x])
  BY <1>4, <1>5 DEF Carved
<1>7. n \in DOMAIN m /\ r # n /\ r # v /\ r # t /\ r \notin B /\ r # InitialTop
  <2>1. n \in DOMAIN m /\ B \subseteq DOMAIN m /\ InitialTop \in DOMAIN m
    BY <1>0, <1>2 DEF ChunksOf, Places, Tagged, Geo, Shape
  <2> QED BY <2>1, <1>1, <1>6
<1>8. /\ OnlyTags(c, n, z) /\ z[n].prev_inuse = c[n].prev_inuse /\ z[n].prev_size = c[r].size
  <2>1. n \in DOMAIN c /\ r \in DOMAIN c /\ z = SetFoot(c, r) /\ n = c[r].md_next
    BY <1>6, <1>7, <1>a, <1>c
  <2> QED BY <2>1, <1>6, SetFootIs
<1>9. c[n].prev_inuse = FALSE
  BY <1>2, <1>6, <1>7 DEF SameTags
<1>10. z \in [DOMAIN c -> Chunk] /\ (\A x \in DOMAIN c : SameGeo(z[x], c[x]))
       /\ \A x \in DOMAIN c \ {n} : z[x] = c[x]
  BY <1>8 DEF OnlyTags, SameGeo
<1>11. Tagged(z, t, sm, own, B1 \cup {r}, {})
  <2>1. Tagged(c, t, sm, own, B1, {n}) /\ {n} \subseteq {r, n}
    BY <1>5 DEF HeapBut
  <2>2. r \in ChunksOf(c) /\ r # t /\ r \notin B1 /\ c[r].md_prev \notin B1
    BY <1>6, <1>7, <1>B DEF ChunksOf
  <2>3. n = c[r].md_next /\ n # t /\ n \notin B1
    BY <1>2, <1>6, <1>B
  <2>4. \A x \in ChunksOf(c) \ {r, n} : SameTags(z[x], c[x])
    BY <1>10 DEF ChunksOf, SameTags
  <2>5. z[r].prev_inuse /\ ~z[n].prev_inuse /\ z[n].prev_size = c[r].size
    BY <1>6, <1>7, <1>8, <1>9, <1>10
  <2>6. z \in [DOMAIN c -> Chunk] /\ (\A x \in DOMAIN c : SameGeo(z[x], c[x]))
    BY <1>10
  <2> QED BY <2>1, <2>2, <2>3, <2>4, <2>5, <2>6, TagsFile
<1>12. DOMAIN z = DOMAIN c /\ \A x \in DOMAIN c : z[x].size = c[x].size
  BY <1>10 DEF SameGeo
<1>13. Places(z, t, B1 \cup {r}, F, L1)
  <2>1. Places(c, t, B1, F, (L1 \cup {v, r}) \ {t}) /\ Places(m, t, B1, F, L1)
    BY <1>3, <1>5 DEF HeapBut
  <2>2. (L1 \cup {v, r}) \ {t} = L1 \cup {r}
    BY <2>1, <1>1, <1>7, <1>L DEF Places
  <2>3. r \notin B1 \cup F \cup L1
    BY <2>1, <1>6 DEF Places, ChunksOf
  <2>4. Places(c, t, B1 \cup {r}, F, L1)
    BY <2>1, <2>2, <2>3 DEF Places
  <2>5. t \in DOMAIN c
    BY <1>1, <1>6
  <2> QED BY <2>4, <2>5, <1>12, PlacesSame
<1>14. z[v].size = nb /\ z[r].size = m[v].size - nb
  BY <1>1, <1>6, <1>12
<1>15. DOMAIN z = DOMAIN m \cup {r} /\ SameSizes(m, z, {v})
  BY <1>6, <1>12 DEF SameSizes
<1> QED BY <1>6, <1>11, <1>13, <1>14, <1>15, <1>B, <1>L DEF Heap, HeapBut, Cut

LEMMA CarvedCut ==
    ASSUME NEW m, NEW p \in DOMAIN m, p \in Nat, m[p].size \in Nat, NEW nb \in Nat, NEW r,
           r = p + nb, NEW z, Carved(m, p, r, z)
    PROVE  Cut(m, p, nb, z)
<1>1. /\ r \notin DOMAIN m /\ r \in Nat /\ DOMAIN z = DOMAIN m \cup {r}
      /\ z[p].size = r - p /\ z[r].size = p + m[p].size - r
      /\ \A x \in DOMAIN m \ {p} : z[x].size = m[x].size
  BY DEF Carved
<1>2. z[p].size = nb /\ z[r].size = m[p].size - nb
  BY <1>1
<1> QED BY <1>1, <1>2 DEF Cut, SameSizes

\* split_chunk: the top chunk gives its first nb units.
LEMMA SplitTopHeap ==
    ASSUME NEW m, NEW t, NEW sm, NEW own, NEW B, NEW F, NEW L, Heap(m, t, sm, own, B, F, L),
           t # InitialTop, NEW nb \in Nat, nb >= MINSIZE, m[t].size >= nb + MINSIZE,
           NEW z, z = Carve(SetHead(m, t, m[t].size), t, nb)
    PROVE  Heap(z, t + nb, sm, own, B, F, L \cup {t}) /\ Cut(m, t, nb, z)
<1>0. HeapBut(m, t, sm, own, B, F, L, {}) /\ Tagged(m, t, sm, own, B, {})
      /\ Geo(m, t, sm, own)
  BY DEF Heap, HeapBut, Tagged
<1>1. t \in ChunksOf(m) /\ t \in DOMAIN m
  BY <1>0 DEF Geo, Shape, ChunksOf
<1>2. t \in Nat /\ m[t].size \in Nat
  BY <1>0, <1>1, OneChunk
<1>3. m[t].md_prev \notin B
  BY <1>0, TopTag
<1>a. PICK a : a = SetHead(m, t, m[t].size)
  OBVIOUS
<1>4. HeapBut(a, t, sm, own, B, F, L, {}) /\ Headed(m, t, m[t].size, a)
  BY <1>0, <1>1, <1>3, <1>a, HeadHeap
<1>r. PICK r : r = t + nb
  OBVIOUS
<1>5. HeapBut(z, r, sm, own, B, F, (L \cup {t, r}) \ {r}, {}) /\ Carved(a, t, r, z)
  <2>1. z = Carve(a, t, nb) /\ a[t].size >= nb + MINSIZE /\ r = IF t = t THEN r ELSE t
    BY <1>a, <1>4 DEF Headed
  <2>2. t \in L \cup {t}
    OBVIOUS
  <2> QED BY <2>1, <2>2, <1>4, <1>r, CarveHeap
<1>6. DOMAIN a = DOMAIN m /\ \A x \in DOMAIN m : a[x].size = m[x].size
  BY <1>4 DEF Headed
<1>7. Cut(a, t, nb, z)
  <2>1. t \in DOMAIN a /\ a[t].size \in Nat
    BY <1>1, <1>2, <1>6
  <2> QED BY <2>1, <1>2, <1>5, <1>r, CarvedCut
<1>8. Cut(m, t, nb, z)
  BY <1>1, <1>6, <1>7 DEF Cut, SameSizes
<1>9. (L \cup {t, r}) \ {r} = L \cup {t}
  <2>1. r \notin DOMAIN m
    BY <1>8, <1>r DEF Cut
  <2>2. L \subseteq DOMAIN m
    BY <1>0 DEF HeapBut, Places, ChunksOf
  <2> QED BY <2>1, <2>2, <1>1
<1> QED BY <1>5, <1>8, <1>9, <1>r DEF Heap

\* memalign: the spare room of a chunk in use becomes a chunk of its own.
LEMMA CarveLive ==
    ASSUME NEW m, NEW t, NEW sm, NEW own, NEW B, NEW F, NEW L, Heap(m, t, sm, own, B, F, L),
           NEW p \in L, NEW nb \in Nat, nb >= MINSIZE, m[p].size >= nb + MINSIZE,
           NEW z, z = Carve(m, p, nb)
    PROVE  Heap(z, t, sm, own, B, F, L \cup {p + nb}) /\ Cut(m, p, nb, z)
<1>0. HeapBut(m, t, sm, own, B, F, L, {})
  BY DEF Heap
<1>1. p # t /\ t # InitialTop /\ p \in DOMAIN m /\ p \in Nat /\ m[p].size \in Nat
      /\ t \in ChunksOf(m) /\ t \in DOMAIN m
  <2>1. p \in B \cup F \cup L
    OBVIOUS
  <2>2. p # t /\ t # InitialTop /\ p \in DOMAIN m /\ p \in Nat /\ m[p].size \in Nat
        /\ t \in ChunksOf(m)
    BY <1>0, <2>1, Proper
  <2> QED BY <2>2 DEF ChunksOf
<1>r. PICK r : r = p + nb
  OBVIOUS
<1>2. HeapBut(z, t, sm, own, B, F, (L \cup {p, r}) \ {t}, {}) /\ Carved(m, p, r, z)
  <2>1. t = IF p = t THEN r ELSE t
    BY <1>1
  <2>2. p \in L \cup {t}
    OBVIOUS
  <2> QED BY <2>1, <2>2, <1>0, <1>1, <1>r, CarveHeap
<1>3. Cut(m, p, nb, z)
  BY <1>1, <1>2, <1>r, CarvedCut
<1>4. (L \cup {p, r}) \ {t} = L \cup {r}
  <2>1. r # t
    BY <1>1, <1>3, <1>r DEF Cut
  <2>2. t \notin L
    BY <1>0 DEF HeapBut, Places
  <2> QED BY <2>1, <2>2
<1> QED BY <1>2, <1>3, <1>4, <1>r DEF Heap

(***************************************************************************)
(* Merging                                                                 *)
(***************************************************************************)
\* The records s are m with another size of q.
Aside(m, q, s) ==
    /\ s \in [DOMAIN m -> Chunk]
    /\ s[q].md_next = m[q].md_next /\ s[q].md_prev = m[q].md_prev /\ SameTags(s[q], m[q])
    /\ \A x \in DOMAIN m \ {q} : s[x] = m[x]

\* The tags of z are those of m, for every chunk that z still has.
KeptTags(m, z) == \A x \in DOMAIN z : SameTags(z[x], m[x])

LEMMA AbsorbGeo ==
    ASSUME NEW m, NEW t, NEW sm, NEW own, Geo(m, t, sm, own),
           NEW p \in ChunksOf(m), p \notin sm, p # t, NEW n, n = m[p].md_next, n \notin sm
    PROVE  Absorbed(m, p, n, Absorb(m, p, n))
<1>n. PICK nn : nn = m[n].md_next
  OBVIOUS
<1>d. PICK D : D = DOMAIN m
  OBVIOUS
<1>1. /\ n \in ChunksOf(m) /\ n # p
      /\ n = t => nn = NULL
      /\ n # t => nn \in ChunksOf(m) \ {n, p}
  BY <1>n, Neighbours
<1>2. m \in [D -> Chunk] /\ D \subseteq Int /\ NULL \notin D
  <2>1. m \in [DOMAIN m -> Chunk] /\ ChunksOf(m) \subseteq Nat
    BY DEF Geo, Shape
  <2>2. \A x \in D : x \in Nat \/ x = InitialTop
    BY <2>1, <1>d DEF ChunksOf
  <2> QED BY <2>1, <2>2, <1>d, Distinct
<1>3. p \in D /\ n \in D /\ (nn = NULL \/ nn \in D)
  BY <1>1, <1>d DEF ChunksOf
<1>4. p # NULL /\ n # NULL
  BY <1>2, <1>3
<1>5. nn # p /\ nn # n /\ p # n
  BY <1>1, <1>4
<1> QED BY <1>2, <1>3, <1>5, <1>n, AbsorbIs

\* The chunk p takes in the chunk n behind it, and gets the size of both.
Grown(m, p, n) == [Absorb(m, p, n) EXCEPT ![p].size = m[p].size + m[n].size]

LEMMA GrownIs ==
    ASSUME NEW m, NEW t, NEW sm, NEW own, Geo(m, t, sm, own),
           NEW p \in ChunksOf(m), p \notin sm, p # t, NEW n, n = m[p].md_next, n \notin sm,
           NEW z, z = Grown(m, p, n)
    PROVE  Merged(m, p, n, z) /\ KeptTags(m, z) /\ Aside(z, p, Absorb(m, p, n))
<1>s. PICK s : s = Absorb(m, p, n)
  OBVIOUS
<1>1. Absorbed(m, p, n, s)
  BY <1>s, AbsorbGeo
<1>2. n \in ChunksOf(m) /\ n # p
  BY DEF Geo, Links
<1>3. m[p].size \in Nat /\ m[n].size \in Nat /\ p \in DOMAIN m
  BY <1>2, OneChunk
<1>v. PICK v : v = m[p].size + m[n].size
  OBVIOUS
<1>4. v \in Nat
  BY <1>3, <1>v
<1>c. PICK c : c = [s[p] EXCEPT !.size = v]
  OBVIOUS
<1>5. /\ DOMAIN s = DOMAIN m \ {n} /\ s \in [DOMAIN s -> Chunk] /\ p \in DOMAIN s
      /\ s[p].md_next = m[n].md_next /\ s[p].md_prev = m[p].md_prev /\ SameTags(s[p], m[p])
      /\ \A x \in DOMAIN m \ {n, p} :
          /\ s[x].size = m[x].size /\ s[x].md_next = m[x].md_next
          /\ s[x].md_prev = (IF x = m[n].md_next THEN p ELSE m[x].md_prev)
          /\ SameTags(s[x], m[x])
  BY <1>1, <1>2, <1>3 DEF Absorbed
<1>6. c \in Chunk /\ SameTags(c, s[p]) /\ c.size = v
      /\ c.md_next = s[p].md_next /\ c.md_prev = s[p].md_prev
  BY <1>4, <1>5, <1>c, PutSize
<1>7. z = [s EXCEPT ![p] = c]
  <2>1. z = [s EXCEPT ![p].size = v]
    BY <1>s, <1>v DEF Grown
  <2> QED BY <2>1, <1>c
<1>8. z \in [DOMAIN s -> Chunk] /\ z[p] = c /\ \A x \in DOMAIN s \ {p} : z[x] = s[x]
  <2>D. PICK D : D = DOMAIN s
    OBVIOUS
  <2>1. s \in [D -> Chunk] /\ p \in D /\ c \in Chunk
    BY <1>5, <1>6, <2>D
  <2>2. z \in [D -> Chunk] /\ z[p] = c /\ \A x \in D \ {p} : z[x] = s[x]
    BY <2>1, <1>7, PutAt
  <2> QED BY <2>2, <2>D
<1>9. Merged(m, p, n, z)
  BY <1>5, <1>6, <1>8, <1>v DEF Merged
<1>10. KeptTags(m, z)
  BY <1>5, <1>6, <1>8 DEF KeptTags, SameTags
<1>11. Aside(z, p, s)
  BY <1>5, <1>6, <1>8 DEF Aside, SameTags
<1> QED BY <1>9, <1>10, <1>11, <1>s

\* The places when a chunk in use takes in another chunk, that is not the top.
LEMMA PlacesMerge ==
    ASSUME NEW m, NEW t, NEW B, NEW F, NEW L, Places(m, t, B, F, L), t \in DOMAIN m,
           ChunksOf(m) \subseteq Nat, \A x \in ChunksOf(m) : m[x].size \in Nat,
           NEW p \in L, NEW n \in B \cup L, n # p, NEW z, Merged(m, p, n, z)
    PROVE  Places(z, t, B \ {n}, F, L \ {n})
<1>1. /\ DOMAIN z = DOMAIN m \ {n} /\ z[p].size = m[p].size + m[n].size
      /\ \A x \in DOMAIN m \ {n, p} : z[x].size = m[x].size
  BY DEF Merged
<1>2. /\ B \cap F = {} /\ (B \cup F) \cap L = {} /\ t \notin B \cup F \cup L
      /\ B \cup F \cup L \subseteq ChunksOf(m)
      /\ t # InitialTop => m[t].size >= MINSIZE
      /\ \A x \in ChunksOf(m) \ {t} :
             IF x \in B \cup F \cup L THEN m[x].size >= MINSIZE ELSE m[x].size = 1
  BY DEF Places
<1>3. ChunksOf(z) = ChunksOf(m) \ {n} /\ ChunksOf(m) \subseteq DOMAIN m
  BY <1>1 DEF ChunksOf
<1>4. z[p].size >= MINSIZE
  <2>1. p \in ChunksOf(m) /\ n \in ChunksOf(m) /\ p # t
    BY <1>2
  <2>2. m[p].size \in Nat /\ m[n].size \in Nat /\ m[p].size >= MINSIZE
    BY <1>2, <2>1
  <2> QED BY <2>2, <1>1, Distinct
<1>5. t # InitialTop => z[t].size >= MINSIZE
  <2>1. t # n /\ t # p
    BY <1>2
  <2> QED BY <2>1, <1>1, <1>2
<1>6. ASSUME NEW x \in ChunksOf(z) \ {t}
      PROVE  IF x \in (B \ {n}) \cup F \cup (L \ {n}) THEN z[x].size >= MINSIZE
                                                      ELSE z[x].size = 1
  <2>1. CASE x = p
    BY <2>1, <1>4
  <2>2. CASE x # p
    <3>1. x \in ChunksOf(m) \ {t} /\ x # n /\ x \in DOMAIN m
      BY <1>3
    <3>2. z[x].size = m[x].size
      BY <3>1, <2>2, <1>1
    <3>3. x \in (B \ {n}) \cup F \cup (L \ {n}) <=> x \in B \cup F \cup L
      BY <3>1
    <3> QED BY <3>1, <3>2, <3>3, <1>2
  <2> QED BY <2>1, <2>2
<1>7. B \cup F \cup L \subseteq ChunksOf(m) /\ n \notin F
  BY <1>2
<1> QED BY <1>2, <1>3, <1>5, <1>6, <1>7 DEF Places

\* free: what PREV_INUSE of a chunk in use says of the chunk before it.
LEMMA BackIsFree ==
    ASSUME NEW m, NEW t, NEW sm, NEW own, NEW B, NEW F, NEW L, Heap(m, t, sm, own, B, F, L),
           NEW p \in L
    PROVE  /\ m[p].prev_inuse \in BOOLEAN
           /\ m[p].prev_inuse <=> m[p].md_prev \notin B
           /\ m[p].md_prev \in B
                 => m[p].prev_size = m[m[p].md_prev].size /\ m[m[p].md_prev].md_next = p
<1>0. HeapBut(m, t, sm, own, B, F, L, {}) /\ Tagged(m, t, sm, own, B, {})
  BY DEF Heap, HeapBut
<1>1. p \in ChunksOf(m) /\ m[p] \in Chunk /\ Geo(m, t, sm, own)
  <2>1. p \in B \cup F \cup L
    OBVIOUS
  <2> QED BY <1>0, <2>1, Proper
<1>2. Right(m, B, p)
  BY <1>0, <1>1 DEF Tagged, TagsBut
<1>3. ASSUME m[p].md_prev \in B PROVE m[m[p].md_prev].md_next = p
  <2>1. m[p].md_prev \in ChunksOf(m)
    BY <1>0, <1>3 DEF Tagged, TagsBut
  <2>2. m[p].md_prev # NULL
    BY <1>1, <2>1, OneChunk
  <2> QED BY <1>1, <2>2 DEF Geo, Links
<1>4. m[p].prev_inuse \in BOOLEAN
  BY <1>1 DEF Chunk
<1> QED BY <1>2, <1>3, <1>4 DEF Right

\* free: a chunk in use joins the free one before it, which is out of its bin then.
LEMMA JoinBack ==
    ASSUME NEW m, NEW t, NEW sm, NEW own, NEW B, NEW F, NEW L, Heap(m, t, sm, own, B, F, L),
           NEW p \in L, NEW q \in B, q = m[p].md_prev, NEW z, z = Grown(m, q, p)
    PROVE  /\ Heap(z, t, sm, own, B \ {q}, F, (L \ {p}) \cup {q}) /\ Merged(m, q, p, z)
           /\ Aside(z, q, Absorb(m, q, p)) /\ z[q].prev_inuse = TRUE
<1>0. /\ HeapBut(m, t, sm, own, B, F, L, {}) /\ Tagged(m, t, sm, own, B, {})
      /\ Places(m, t, B, F, L)
  BY DEF Heap, HeapBut
<1>1. p \in ChunksOf(m) /\ p # t /\ p \notin sm /\ Geo(m, t, sm, own)
  <2>1. p \in B \cup F \cup L
    OBVIOUS
  <2> QED BY <1>0, <2>1, Proper
<1>2. q \in ChunksOf(m) /\ q # t /\ q \notin sm
  <2>1. q \in B \cup F \cup L
    OBVIOUS
  <2> QED BY <1>0, <2>1, Proper
<1>3. m[q].md_next = p
  BY BackIsFree
<1>4. Around(m, t, B, q, p)
  BY <1>3, AroundBinned
<1>5. Merged(m, q, p, z) /\ KeptTags(m, z) /\ Aside(z, q, Absorb(m, q, p))
  BY <1>1, <1>2, <1>3, GrownIs
<1>B. PICK B1 : B1 = B \ {q}
  OBVIOUS
<1>6. Tagged(m, t, sm, own, B1, {p})
  <2>1. Tagged(m, t, sm, own, B \ {q}, {} \cup {p})
    BY <1>0, <1>3, TagsUnlink
  <2> QED BY <2>1, <1>B
<1>7. Tagged(z, t, sm, own, B1, {})
  <2>1. q \notin B1 /\ p \notin B1 /\ (p = t => m[q].md_prev \notin B1)
    BY <1>0, <1>1, <1>B DEF Places
  <2>2. \A x \in DOMAIN m \ {p} : SameTags(z[x], m[x])
    BY <1>5 DEF KeptTags, Merged
  <2>3. Tagged(z, IF p = t THEN q ELSE t, sm, own, B1, {p} \ {p})
    BY <1>1, <1>2, <1>3, <1>5, <1>6, <2>1, <2>2, TagsMerge
  <2>4. {p} \ {p} = {} /\ (IF p = t THEN q ELSE t) = t
    BY <1>1
  <2> QED BY <2>3, <2>4
<1>8. Places(z, t, B1, F, (L \ {p}) \cup {q})
  <2>1. Places(m, t, B1, F, L \cup {q}) /\ p \in L \cup {q} /\ p \in B1 \cup (L \cup {q})
    BY <1>0, <1>B DEF Places
  <2>2. t \in DOMAIN m /\ ChunksOf(m) \subseteq Nat
    BY <1>1 DEF Geo, Shape
  <2>3. \A x \in ChunksOf(m) : m[x].size \in Nat
    BY <1>1, OneChunk
  <2>4. p # q
    BY <1>0 DEF Places
  <2>5. Places(z, t, B1 \ {p}, F, (L \cup {q}) \ {p})
    BY <1>5, <2>1, <2>2, <2>3, <2>4, PlacesMerge
  <2>6. B1 \ {p} = B1 /\ (L \cup {q}) \ {p} = (L \ {p}) \cup {q}
    BY <1>0, <1>B, <2>4 DEF Places
  <2> QED BY <2>5, <2>6
<1>9. z[q].prev_inuse = TRUE
  <2>1. m[q].prev_inuse = TRUE
    BY <1>4 DEF Around
  <2>2. q \in DOMAIN m /\ q # p
    BY <1>0, <1>2 DEF Places, ChunksOf
  <2>3. q \in DOMAIN z
    BY <2>2, <1>5 DEF Merged
  <2>4. z[q].prev_inuse = m[q].prev_inuse
    BY <2>3, <1>5 DEF KeptTags, SameTags
  <2> QED BY <2>1, <2>4
<1> QED BY <1>5, <1>7, <1>8, <1>9, <1>B DEF Heap, HeapBut

\* The chunk q, whose size has been set aside, joins the top chunk behind it.
Topmost(s, q, size, t) == Unregister([SetHead(s, q, size) EXCEPT ![q].md_next = NULL], t)

LEMMA JoinTop ==
    ASSUME NEW m, NEW t, NEW sm, NEW own, NEW B, NEW F, NEW L, Heap(m, t, sm, own, B, F, L),
           NEW q \in L, m[q].prev_inuse = TRUE, m[q].md_next = t,
           NEW s, Aside(m, q, s), NEW size, size = m[q].size + m[t].size,
           NEW z, z = Topmost(s, q, size, t)
    PROVE  Heap(z, q, sm, own, B, F, L \ {q}) /\ Merged(m, q, t, z)
<1>0. /\ HeapBut(m, t, sm, own, B, F, L, {}) /\ Tagged(m, t, sm, own, B, {})
      /\ Places(m, t, B, F, L)
  BY DEF Heap, HeapBut
<1>1. /\ q \in ChunksOf(m) /\ q # t /\ q \notin sm /\ q \in DOMAIN m /\ q \in Nat
      /\ m[q].size \in Nat /\ m[q].size >= MINSIZE
      /\ Geo(m, t, sm, own) /\ t \in ChunksOf(m) /\ t # InitialTop
      /\ m[t].size \in Nat /\ m[t].size >= MINSIZE
  <2>1. q \in B \cup F \cup L
    OBVIOUS
  <2> QED BY <1>0, <2>1, Proper
<1>2. t \in DOMAIN m /\ t \notin sm /\ m[t].md_next = NULL /\ NULL \notin DOMAIN m
  <2>1. NULL \notin ChunksOf(m)
    BY <1>1, OneChunk
  <2> QED BY <1>1, <2>1, Distinct DEF Geo, Shape, Links, ChunksOf
<1>3. m[q].md_prev \notin B
  BY BackIsFree
<1>a. PICK a : a = SetHead(m, q, m[q].size)
  OBVIOUS
<1>4. HeapBut(a, t, sm, own, B, F, L, {}) /\ Headed(m, q, m[q].size, a)
  BY <1>0, <1>1, <1>3, <1>a, HeadHeap
<1>b. PICK b : b = SetHead(s, q, size)
  OBVIOUS
<1>5. Headed(s, q, size, b)
  <2>1. s \in [DOMAIN m -> Chunk] /\ size \in Nat
    BY <1>1 DEF Aside
  <2>2. s \in [DOMAIN s -> Chunk] /\ q \in DOMAIN s
    BY <2>1, <1>1
  <2> QED BY <2>1, <2>2, <1>b, SetHeadIs
<1>6. /\ b \in [DOMAIN m -> Chunk] /\ b[q].size = size /\ b[q].md_prev = m[q].md_prev
      /\ b[q].prev_inuse = TRUE /\ b[q].prev_size = 0
      /\ \A x \in DOMAIN m \ {q} : b[x] = m[x]
  BY <1>5 DEF Headed, Aside
<1>c. PICK c : c = [b[q] EXCEPT !.md_next = NULL]
  OBVIOUS
<1>e. PICK e : e = [b EXCEPT ![q] = c]
  OBVIOUS
<1>7. c \in Chunk /\ SameTags(c, b[q]) /\ c.md_next = NULL
      /\ c.size = b[q].size /\ c.md_prev = b[q].md_prev
  <2>1. NULL \in Int /\ b[q] \in Chunk
    BY <1>1, <1>6 DEF NULL
  <2> QED BY <2>1, <1>c, PutNext
<1>8. e \in [DOMAIN m -> Chunk] /\ e[q] = c /\ \A x \in DOMAIN m \ {q} : e[x] = b[x]
  BY <1>1, <1>6, <1>7, <1>e, PutAt
<1>9. z \in [DOMAIN m \ {t} -> Chunk] /\ \A x \in DOMAIN m \ {t} : z[x] = e[x]
  <2>1. z = Unregister(e, t)
    BY <1>b, <1>c, <1>e DEF Topmost
  <2> QED BY <2>1, <1>8 DEF Unregister
<1>10. /\ z[q].size = m[q].size + m[t].size /\ z[q].md_next = NULL
       /\ z[q].md_prev = m[q].md_prev /\ z[q].prev_inuse = TRUE /\ z[q].prev_size = 0
  BY <1>1, <1>6, <1>7, <1>8, <1>9 DEF SameTags
<1>11. \A x \in DOMAIN m \ {t, q} : z[x] = m[x] /\ x # NULL
  BY <1>2, <1>6, <1>8, <1>9
<1>12. DOMAIN z = DOMAIN m \ {t} /\ z \in [DOMAIN z -> Chunk]
  BY <1>9
<1>13. Merged(m, q, t, z)
  BY <1>2, <1>10, <1>11, <1>12 DEF Merged
<1>14. /\ DOMAIN a = DOMAIN m /\ a[q].size = m[q].size /\ a[q].md_next = t
       /\ a[q].md_prev = m[q].md_prev /\ a[q].prev_inuse = TRUE /\ a[q].prev_size = 0
       /\ \A x \in DOMAIN m \ {q} : a[x] = m[x]
  BY <1>4 DEF Headed
<1>15. Merged(a, q, t, z)
  BY <1>1, <1>2, <1>10, <1>11, <1>12, <1>14 DEF Merged
<1>16. \A x \in DOMAIN a \ {t} : SameTags(z[x], a[x])
  <2>1. SameTags(z[q], a[q])
    BY <1>10, <1>14 DEF SameTags
  <2>2. \A x \in DOMAIN a \ {t, q} : SameTags(z[x], a[x])
    BY <1>11, <1>14 DEF SameTags
  <2> QED BY <2>1, <2>2
<1>17. Tagged(z, q, sm, own, B, {})
  <2>1. Tagged(a, t, sm, own, B, {}) /\ q \in ChunksOf(a)
    BY <1>1, <1>4, <1>14 DEF HeapBut, ChunksOf
  <2>2. q \notin B /\ t \notin B /\ a[q].md_prev \notin B
    BY <1>0, <1>3, <1>14 DEF Places
  <2>3. t = a[q].md_next /\ q \notin sm /\ t \notin sm /\ q # t
    BY <1>1, <1>2, <1>14
  <2>X. PICK X : X = {}
    OBVIOUS
  <2>4. Tagged(a, t, sm, own, B, X)
    BY <2>1, <2>X
  <2>5. q \in ChunksOf(a) /\ Merged(a, q, t, z) /\ \A x \in DOMAIN a \ {t} : SameTags(z[x], a[x])
    BY <1>15, <1>16, <2>1
  <2>6. Tagged(z, IF t = t THEN q ELSE t, sm, own, B, X \ {t})
    BY ONLY <2>2, <2>3, <2>4, <2>5, TagsMerge
  <2> QED BY <2>6, <2>X
<1>18. Places(z, q, B, F, L \ {q})
  <2>1. ChunksOf(z) = ChunksOf(m) \ {t} /\ ChunksOf(m) \subseteq DOMAIN m
    BY <1>12 DEF ChunksOf
  <2>2. \A x \in ChunksOf(m) \ {t, q} : z[x].size = m[x].size
    BY <2>1, <1>11
  <2>3. z[q].size >= MINSIZE
    BY <1>1, <1>10, Distinct
  <2> QED BY <1>0, <2>1, <2>2, <2>3 DEF Places
<1> QED BY <1>13, <1>17, <1>18 DEF Heap, HeapBut

\* The records s are m with another size of q, and the chunk n says that the one
\* before it is free; neither n nor the chunk before q is.
Asides(m, t, B, q, n, s) ==
    /\ n = m[q].md_next /\ n # t /\ n \notin B /\ m[q].md_prev \notin B
    /\ s \in [DOMAIN m -> Chunk]
    /\ s[q].md_next = m[q].md_next /\ s[q].md_prev = m[q].md_prev
    /\ SameGeo(s[n], m[n]) /\ s[n].prev_inuse = FALSE
    /\ \A x \in DOMAIN m \ {q, n} : SameGeo(s[x], m[x]) /\ SameTags(s[x], m[x])

\* The heap z after m, when no chunk has got another size
Resettled(m, z, t, sm, own, B, F, L) ==
    Heap(z, t, sm, own, B, F, L) /\ DOMAIN z = DOMAIN m /\ SameSizes(m, z, {})

\* A chunk in use between two that are not free is filed as a free one.
Filed(s, q, size) == SetFoot(SetHead(s, q, size), q)

LEMMA FileHeap ==
    ASSUME NEW m, NEW t, NEW sm, NEW own, NEW B, NEW F, NEW L, NEW n,
           HeapBut(m, t, sm, own, B, F, L, {n}), NEW q \in L,
           NEW s, Asides(m, t, B, q, n, s), NEW z, z = Filed(s, q, m[q].size)
    PROVE  Resettled(m, z, t, sm, own, B \cup {q}, F, L \ {q})
<1>0. Tagged(m, t, sm, own, B, {n}) /\ Places(m, t, B, F, L)
  BY DEF HeapBut
<1>1. /\ q \in ChunksOf(m) /\ q # t /\ q \notin sm /\ q \in DOMAIN m /\ q \in Nat
      /\ m[q].size \in Nat /\ Geo(m, t, sm, own)
  <2>1. q \in B \cup F \cup L
    OBVIOUS
  <2> QED BY <2>1, Proper
<1>n. n = m[q].md_next /\ n # t /\ n \notin B /\ m[q].md_prev \notin B
  BY DEF Asides
<1>2. n \in ChunksOf(m) /\ n \in DOMAIN m /\ n # q
  <2>1. m[q].md_next \in ChunksOf(m) /\ m[q].md_next \in DOMAIN m /\ m[q].md_next # q
    BY <1>1, NextChunk
  <2> QED BY <2>1, <1>n
<1>v. PICK v : v = m[q].size
  OBVIOUS
<1>3. /\ s \in [DOMAIN m -> Chunk]
      /\ s[q].md_next = n /\ s[q].md_prev = m[q].md_prev
      /\ SameGeo(s[n], m[n]) /\ s[n].prev_inuse = FALSE
      /\ \A x \in DOMAIN m \ {q, n} : SameGeo(s[x], m[x]) /\ SameTags(s[x], m[x])
  BY DEF Asides
<1>b. PICK b : b = SetHead(s, q, v)
  OBVIOUS
<1>4. Headed(s, q, v, b)
  <2>1. s \in [DOMAIN s -> Chunk] /\ q \in DOMAIN s /\ v \in Nat
    BY <1>1, <1>3, <1>v
  <2> QED BY <2>1, <1>b, SetHeadIs
<1>5. /\ b \in [DOMAIN m -> Chunk] /\ b[q].size = v /\ b[q].md_next = n
      /\ b[q].md_prev = m[q].md_prev /\ b[q].prev_inuse = TRUE
      /\ \A x \in DOMAIN m \ {q} : b[x] = s[x]
  BY <1>3, <1>4 DEF Headed
<1>6. OnlyTags(b, n, z) /\ z[n].prev_inuse = b[n].prev_inuse /\ z[n].prev_size = b[q].size
  <2>1. z = SetFoot(b, q)
    BY <1>b, <1>v DEF Filed
  <2>2. b \in [DOMAIN b -> Chunk] /\ q \in DOMAIN b /\ n \in DOMAIN b /\ n = b[q].md_next
    BY <1>1, <1>2, <1>5
  <2> QED BY <2>1, <2>2, SetFootIs
<1>7. z \in [DOMAIN m -> Chunk] /\ SameGeo(z[n], b[n]) /\ \A x \in DOMAIN m \ {n} : z[x] = b[x]
  BY <1>5, <1>6 DEF OnlyTags
<1>8. z[q].prev_inuse = TRUE /\ SameGeo(z[q], m[q])
  <2>1. z[q] = b[q]
    BY <1>1, <1>2, <1>7
  <2> QED BY <2>1, <1>3, <1>5, <1>n, <1>v DEF SameGeo
<1>9. SameGeo(z[n], m[n]) /\ z[n].prev_inuse = FALSE /\ z[n].prev_size = v
  <2>1. b[n] = s[n]
    BY <1>2, <1>5
  <2> QED BY <2>1, <1>3, <1>5, <1>6, <1>7 DEF SameGeo
<1>10. \A x \in DOMAIN m \ {q, n} : SameGeo(z[x], m[x]) /\ SameTags(z[x], m[x])
  <2>1. \A x \in DOMAIN m \ {q, n} : z[x] = s[x]
    BY <1>5, <1>7
  <2> QED BY <2>1, <1>3
<1>11. \A x \in DOMAIN m : SameGeo(z[x], m[x])
  BY <1>8, <1>9, <1>10
<1>12. Tagged(z, t, sm, own, B \cup {q}, {})
  <2>1. \A x \in ChunksOf(m) \ {q, n} : SameTags(z[x], m[x])
    BY <1>10 DEF ChunksOf
  <2>2. q \notin B /\ {n} \subseteq {q, n}
    BY <1>0 DEF Places
  <2>3. z[q].prev_inuse /\ ~z[n].prev_inuse /\ z[n].prev_size = m[q].size
    BY <1>8, <1>9, <1>v
  <2>4. z \in [DOMAIN m -> Chunk]
    BY <1>7
  <2> QED BY <1>0, <1>1, <1>n, <1>11, <2>1, <2>2, <2>3, <2>4, TagsFile
<1>13. DOMAIN z = DOMAIN m /\ \A x \in DOMAIN m : z[x].size = m[x].size
  BY <1>7, <1>11 DEF SameGeo
<1>14. Places(z, t, B \cup {q}, F, L \ {q})
  <2>1. Places(m, t, B \cup {q}, F, L \ {q})
    BY <1>0 DEF Places
  <2>2. t \in DOMAIN m
    BY <1>1 DEF Geo, Shape
  <2> QED BY <2>1, <2>2, <1>13, PlacesSame
<1> QED BY <1>12, <1>13, <1>14 DEF Resettled, Heap, HeapBut, SameSizes

\* The chunk q, whose size has been set aside, becomes free: the one behind it is not.
LEMMA JoinNone ==
    ASSUME NEW m, NEW t, NEW sm, NEW own, NEW B, NEW F, NEW L, Heap(m, t, sm, own, B, F, L),
           NEW q \in L, m[q].prev_inuse = TRUE,
           NEW n, n = m[q].md_next, n # t, n \notin B,
           NEW s, Aside(m, q, s), NEW z, z = Filed(ClearInuse(s, n), q, m[q].size)
    PROVE  Resettled(m, z, t, sm, own, B \cup {q}, F, L \ {q})
<1>0. HeapBut(m, t, sm, own, B, F, L, {})
  BY DEF Heap
<1>1. q \in ChunksOf(m) /\ q # t /\ Geo(m, t, sm, own) /\ q \in DOMAIN m
  <2>1. q \in B \cup F \cup L
    OBVIOUS
  <2> QED BY <1>0, <2>1, Proper
<1>2. n \in DOMAIN m /\ n # q
  BY <1>1, NextChunk
<1>3. m[q].md_prev \notin B
  BY BackIsFree
<1>4. /\ s \in [DOMAIN m -> Chunk]
      /\ s[q].md_next = m[q].md_next /\ s[q].md_prev = m[q].md_prev
      /\ \A x \in DOMAIN m \ {q} : s[x] = m[x]
  BY DEF Aside
<1>c. PICK c : c = ClearInuse(s, n)
  OBVIOUS
<1>5. OnlyTags(s, n, c) /\ c[n].prev_inuse = FALSE
  <2>1. s \in [DOMAIN s -> Chunk] /\ n \in DOMAIN s
    BY <1>2, <1>4
  <2> QED BY <2>1, <1>c, ClearInuseIs
<1>6. Asides(m, t, B, q, n, c)
  BY <1>1, <1>2, <1>3, <1>4, <1>5 DEF OnlyTags, Asides, SameGeo, SameTags
<1>7. HeapBut(m, t, sm, own, B, F, L, {n})
  BY <1>0 DEF HeapBut, Tagged, TagsBut
<1>8. z = Filed(c, q, m[q].size)
  BY <1>c
<1> QED BY <1>6, <1>7, <1>8, FileHeap

\* The chunk q, whose size has been set aside, joins the free one behind it, which is
\* out of its bin then.
\* The heap z after m, when q has taken in the free chunk n and is filed
FiledAhead(m, z, t, sm, own, B, F, L, q, n) ==
    /\ Heap(z, t, sm, own, (B \ {n}) \cup {q}, F, L)
    /\ DOMAIN z = DOMAIN m \ {n} /\ SameSizes(m, z, {n, q})

LEMMA JoinAhead ==
    ASSUME NEW m, NEW t, NEW sm, NEW own, NEW B, NEW F, NEW L, Heap(m, t, sm, own, B, F, L),
           NEW q \in L, m[q].prev_inuse = TRUE, NEW n \in B, n = m[q].md_next,
           NEW s, Aside(m, q, s), NEW size, size = m[q].size + m[n].size,
           NEW z, z = Filed(Absorb(s, q, n), q, size)
    PROVE  FiledAhead(m, z, t, sm, own, B, F, L \ {q}, q, n)
<1>0. /\ HeapBut(m, t, sm, own, B, F, L, {}) /\ Tagged(m, t, sm, own, B, {})
      /\ Places(m, t, B, F, L)
  BY DEF Heap, HeapBut
<1>n. PICK nn : nn = m[n].md_next
  OBVIOUS
<1>1. q \in ChunksOf(m) /\ q # t /\ Geo(m, t, sm, own) /\ q \in DOMAIN m /\ q \notin sm
  <2>1. q \in B \cup F \cup L
    OBVIOUS
  <2> QED BY <1>0, <2>1, Proper
<1>2. n \in ChunksOf(m) /\ n # t /\ n \in DOMAIN m /\ n \notin sm
  <2>1. n \in B \cup F \cup L
    OBVIOUS
  <2> QED BY <1>0, <2>1, Proper
<1>3. nn \in ChunksOf(m) \ {n, q} /\ nn \in DOMAIN m /\ nn # t /\ nn \notin B
      /\ m[nn].prev_inuse = FALSE
  <2>1. Around(m, t, B, n, nn)
    BY <1>n, AroundBinned
  <2>2. nn \in ChunksOf(m) \ {n, q}
    BY <1>1, <1>2, <1>n, Neighbours
  <2> QED BY <2>1, <2>2 DEF Around, ChunksOf
<1>g. PICK g : g = Grown(m, q, n)
  OBVIOUS
<1>4. Merged(m, q, n, g) /\ KeptTags(m, g) /\ Aside(g, q, Absorb(m, q, n))
  BY <1>1, <1>2, <1>g, GrownIs
<1>B. PICK B1 : B1 = B \ {n}
  OBVIOUS
<1>5. q \notin B /\ m[q].md_prev \notin B /\ n # q
  <2>1. m[q].md_prev \notin B
    BY BackIsFree
  <2> QED BY <2>1, <1>0 DEF Places
<1>6. HeapBut(g, t, sm, own, B1, F, L, {nn})
  <2>1. Tagged(m, t, sm, own, B \ {n}, {} \cup {nn})
    BY <1>0, <1>n, TagsUnlink
  <2>2. Tagged(m, t, sm, own, B1, {nn})
    BY <2>1, <1>B
  <2>3. q \notin B1 /\ n \notin B1 /\ (n = t => m[q].md_prev \notin B1)
    BY <1>2, <1>5, <1>B
  <2>4. \A x \in DOMAIN m \ {n} : SameTags(g[x], m[x])
    BY <1>4 DEF KeptTags, Merged
  <2>5. Tagged(g, IF n = t THEN q ELSE t, sm, own, B1, {nn} \ {n})
    BY <1>1, <1>2, <1>4, <2>2, <2>3, <2>4, TagsMerge
  <2>6. {nn} \ {n} = {nn} /\ (IF n = t THEN q ELSE t) = t
    BY <1>2, <1>3
  <2>7. t \in DOMAIN m /\ ChunksOf(m) \subseteq Nat
    BY <1>1 DEF Geo, Shape
  <2>8. \A x \in ChunksOf(m) : m[x].size \in Nat
    BY <1>1, OneChunk
  <2>9. n \in B \cup L
    OBVIOUS
  <2>10. Places(g, t, B \ {n}, F, L \ {n})
    BY <1>0, <1>4, <1>5, <2>7, <2>8, <2>9, PlacesMerge
  <2>11. L \ {n} = L
    BY <1>0 DEF Places
  <2> QED BY <2>5, <2>6, <2>10, <2>11, <1>B DEF HeapBut
<1>7. /\ DOMAIN g = DOMAIN m \ {n} /\ g \in [DOMAIN g -> Chunk]
      /\ g[q].size = size /\ g[q].md_next = nn /\ g[q].md_prev = m[q].md_prev
      /\ \A x \in DOMAIN m \ {n, q} :
            /\ g[x].size = m[x].size /\ g[x].md_next = m[x].md_next
            /\ g[x].md_prev = (IF x = nn THEN q ELSE m[x].md_prev)
  BY <1>4, <1>n DEF Merged
<1>c. PICK c : c = Absorb(s, q, n)
  OBVIOUS
<1>8. Absorbed(s, q, n, c)
  <2>1. s \in [DOMAIN m -> Chunk] /\ s[n] = m[n]
    BY <1>2, <1>5 DEF Aside
  <2>2. DOMAIN m \subseteq Int /\ NULL \notin DOMAIN m
    <3>1. ChunksOf(m) \subseteq Nat
      BY <1>1 DEF Geo, Shape
    <3>2. \A x \in DOMAIN m : x \in Nat \/ x = InitialTop
      BY <3>1 DEF ChunksOf
    <3> QED BY <3>2, Distinct
  <2>3. q # n /\ nn = s[n].md_next /\ nn # q /\ nn # n /\ nn \in DOMAIN m
    BY <2>1, <1>3, <1>5, <1>n
  <2> QED BY <2>1, <2>2, <2>3, <1>1, <1>2, <1>c, AbsorbIs
<1>9. /\ DOMAIN c = DOMAIN m \ {n} /\ c \in [DOMAIN c -> Chunk]
      /\ c[q].md_next = nn /\ c[q].md_prev = m[q].md_prev
      /\ \A x \in DOMAIN m \ {n, q} :
            /\ c[x].size = m[x].size /\ c[x].md_next = m[x].md_next
            /\ c[x].md_prev = (IF x = nn THEN q ELSE m[x].md_prev)
            /\ SameTags(c[x], m[x])
  <2>1. DOMAIN s = DOMAIN m /\ s[n] = m[n] /\ s[q].md_prev = m[q].md_prev
        /\ \A x \in DOMAIN m \ {q} : s[x] = m[x]
    BY <1>2, <1>5 DEF Aside
  <2> QED BY <2>1, <1>8, <1>n DEF Absorbed
<1>10. Asides(g, t, B1, q, nn, c)
  <2>1. c \in [DOMAIN g -> Chunk]
    BY <1>7, <1>9
  <2>2. \A x \in DOMAIN m \ {n, q} : SameGeo(c[x], g[x])
    BY <1>7, <1>9 DEF SameGeo
  <2>3. \A x \in DOMAIN m \ {n, q} : SameTags(c[x], g[x])
    <3>1. \A x \in DOMAIN m \ {n, q} : SameTags(c[x], m[x]) /\ SameTags(g[x], m[x])
      BY <1>4, <1>7, <1>9 DEF KeptTags
    <3> QED BY <3>1 DEF SameTags
  <2>4. c[nn].prev_inuse = FALSE
    BY <1>3, <1>9 DEF SameTags
  <2>5. g[q].md_prev \notin B1 /\ nn = g[q].md_next /\ nn \notin B1 /\ nn # t
    BY <1>3, <1>5, <1>7, <1>B
  <2> QED BY <2>1, <2>2, <2>3, <2>4, <2>5, <1>3, <1>7, <1>9 DEF Asides
<1>11. Heap(z, t, sm, own, B1 \cup {q}, F, L \ {q}) /\ DOMAIN z = DOMAIN g /\ SameSizes(g, z, {})
  <2>1. z = Filed(c, q, g[q].size)
    BY <1>7, <1>c
  <2>2. Resettled(g, z, t, sm, own, B1 \cup {q}, F, L \ {q})
    BY <1>6, <1>10, <2>1, FileHeap
  <2> QED BY <2>2 DEF Resettled
<1>12. SameSizes(m, z, {n, q})
  BY <1>1, <1>5, <1>7, <1>11 DEF SameSizes
<1> QED BY <1>7, <1>11, <1>12, <1>B DEF FiledAhead

(***************************************************************************)
(* Growing and moving                                                      *)
(***************************************************************************)
\* realloc: a chunk in use takes in the one behind it, a free one or one in use.  Its
\* tag, in the chunk behind both, is still to be set.
LEMMA GrowHeap ==
    ASSUME NEW m, NEW t, NEW sm, NEW own, NEW B, NEW F, NEW L, Heap(m, t, sm, own, B, F, L),
           NEW p \in L, NEW n \in B \cup L, n = m[p].md_next, NEW z, z = Grown(m, p, n)
    PROVE  /\ HeapBut(z, t, sm, own, B \ {n}, F, L \ {n}, {z[p].md_next})
           /\ Merged(m, p, n, z)
<1>0. /\ HeapBut(m, t, sm, own, B, F, L, {}) /\ Tagged(m, t, sm, own, B, {})
      /\ Places(m, t, B, F, L)
  BY DEF Heap, HeapBut
<1>n. PICK nn : nn = m[n].md_next
  OBVIOUS
<1>1. p \in ChunksOf(m) /\ p # t /\ Geo(m, t, sm, own) /\ p \in DOMAIN m /\ p \notin sm
  <2>1. p \in B \cup F \cup L
    OBVIOUS
  <2> QED BY <1>0, <2>1, Proper
<1>2. n \in ChunksOf(m) /\ n # t /\ n \in DOMAIN m /\ n \notin sm
  <2>1. n \in B \cup F \cup L
    OBVIOUS
  <2> QED BY <1>0, <2>1, Proper
<1>3. nn \in ChunksOf(m) \ {n, p} /\ n # p
  BY <1>1, <1>2, <1>n, Neighbours
<1>4. Merged(m, p, n, z) /\ KeptTags(m, z)
  BY <1>1, <1>2, GrownIs
<1>5. z[p].md_next = nn
  BY <1>4, <1>n DEF Merged
<1>B. PICK B1 : B1 = B \ {n}
  OBVIOUS
<1>6. Tagged(m, t, sm, own, B1, {nn})
  <2>1. CASE n \in B
    <3>1. Tagged(m, t, sm, own, B \ {n}, {} \cup {nn})
      BY <2>1, <1>0, <1>n, TagsUnlink
    <3> QED BY <3>1, <1>B
  <2>2. CASE n \notin B
    <3>1. B1 = B
      BY <2>2, <1>B
    <3> QED BY <3>1, <1>0 DEF Tagged, TagsBut
  <2> QED BY <2>1, <2>2
<1>7. Tagged(z, t, sm, own, B1, {nn})
  <2>1. p \notin B1 /\ n \notin B1 /\ (n = t => m[p].md_prev \notin B1)
    BY <1>0, <1>2, <1>B DEF Places
  <2>2. \A x \in DOMAIN m \ {n} : SameTags(z[x], m[x])
    BY <1>4 DEF KeptTags, Merged
  <2>3. Tagged(z, IF n = t THEN p ELSE t, sm, own, B1, {nn} \ {n})
    BY <1>1, <1>2, <1>4, <1>6, <2>1, <2>2, TagsMerge
  <2>4. {nn} \ {n} = {nn} /\ (IF n = t THEN p ELSE t) = t
    BY <1>2, <1>3
  <2> QED BY <2>3, <2>4
<1>8. Places(z, t, B1, F, L \ {n})
  <2>1. t \in DOMAIN m /\ ChunksOf(m) \subseteq Nat
    BY <1>1 DEF Geo, Shape
  <2>2. \A x \in ChunksOf(m) : m[x].size \in Nat
    BY <1>1, OneChunk
  <2>3. Places(z, t, B \ {n}, F, L \ {n})
    BY <1>0, <1>3, <1>4, <2>1, <2>2, PlacesMerge
  <2> QED BY <2>3, <1>B
<1> QED BY <1>4, <1>5, <1>7, <1>8, <1>B DEF HeapBut

\* realloc: a chunk in use takes the first units of the top chunk behind it, up to nb
\* units in all, and the rest is the top chunk.  What becomes of the records:
ToppedUpIs(m, p, t, r, z) ==
    /\ DOMAIN z = (DOMAIN m \ {t}) \cup {r} /\ z \in [DOMAIN z -> Chunk]
    /\ z[p].size = r - p /\ z[p].md_next = r /\ z[p].md_prev = m[p].md_prev
    /\ SameTags(z[p], m[p])
    /\ z[r].size = p + m[p].size + m[t].size - r /\ z[r].md_next = NULL /\ z[r].md_prev = p
    /\ z[r].prev_inuse = TRUE /\ z[r].prev_size = 0
    /\ \A x \in DOMAIN m \ {t, p} : z[x] = m[x]

LEMMA ToppedUpRecords ==
    ASSUME NEW m, m \in [DOMAIN m -> Chunk], NEW p \in DOMAIN m, NEW t \in DOMAIN m, p # t,
           p \in Nat, NEW nb \in Nat, nb <= m[p].size + m[t].size,
           NEW r, r = p + nb, r \notin DOMAIN m
    PROVE  ToppedUpIs(m, p, t, r, ToppedUp(m, p, t, nb))
<1>z. PICK z : z = ToppedUp(m, p, t, nb)
  OBVIOUS
<1>v. PICK v : v = m[p].size + m[t].size - nb
  OBVIOUS
<1>1. m[p] \in Chunk /\ m[t] \in Chunk
  OBVIOUS
<1>2. m[p].size \in Nat /\ m[t].size \in Nat /\ r \in Int
  BY <1>1 DEF Chunk
<1>3. v \in Nat /\ v = p + m[p].size + m[t].size - r /\ nb = r - p
  BY <1>2, <1>v
<1>u. PICK u : u = Unregister(m, t)
  OBVIOUS
<1>4. u \in [DOMAIN m \ {t} -> Chunk] /\ \A x \in DOMAIN m \ {t} : u[x] = m[x]
  BY <1>u DEF Unregister
<1>a. PICK a : a = [u[p] EXCEPT !.size = nb]
  OBVIOUS
<1>b. PICK b : b = [a EXCEPT !.md_next = r]
  OBVIOUS
<1>5. u[p] = m[p] /\ u[p] \in Chunk
  BY <1>1, <1>4
<1>6. a \in Chunk /\ SameTags(a, u[p]) /\ a.size = nb
      /\ a.md_next = u[p].md_next /\ a.md_prev = u[p].md_prev
  BY <1>5, <1>a, PutSize
<1>7. b \in Chunk /\ SameTags(b, a) /\ b.md_next = r
      /\ b.size = a.size /\ b.md_prev = a.md_prev
  BY <1>2, <1>6, <1>b, PutNext
<1>8. b \in Chunk /\ SameTags(b, m[p]) /\ b.size = nb /\ b.md_next = r
      /\ b.md_prev = m[p].md_prev
  BY <1>5, <1>6, <1>7 DEF SameTags
<1>e. PICK e : e = [u EXCEPT ![p] = b]
  OBVIOUS
<1>9. e \in [DOMAIN m \ {t} -> Chunk] /\ e[p] = b /\ \A x \in DOMAIN m \ {t, p} : e[x] = m[x]
  <2>1. /\ e \in [DOMAIN m \ {t} -> Chunk] /\ e[p] = b
        /\ \A x \in (DOMAIN m \ {t}) \ {p} : e[x] = u[x]
    BY <1>4, <1>8, <1>e
  <2> QED BY <2>1, <1>4
<1>c. PICK c : c = [FreshTop(v) EXCEPT !.md_prev = p]
  OBVIOUS
<1>10. c \in Chunk /\ c.size = v /\ c.md_next = NULL /\ c.md_prev = p
       /\ c.prev_inuse = TRUE /\ c.prev_size = 0
  <2>1. c = [size |-> v, prev_inuse |-> TRUE, prev_size |-> 0, md_next |-> NULL, md_prev |-> p]
    BY <1>c DEF FreshTop
  <2>2. NULL \in Int
    BY DEF NULL
  <2> QED BY <2>1, <2>2, <1>3 DEF Chunk
<1>11. z = Register(e, r, c)
  <2>1. [u EXCEPT ![p].size = nb, ![p].md_next = r] = e
    BY <1>4, <1>a, <1>b, <1>e
  <2> QED BY <2>1, <1>z, <1>u, <1>v, <1>c DEF ToppedUp
<1>12. /\ z \in [(DOMAIN m \ {t}) \cup {r} -> Chunk] /\ z[r] = c
       /\ \A x \in DOMAIN m \ {t} : z[x] = e[x]
  <2>1. \A x \in DOMAIN m \ {t} : x # r
    OBVIOUS
  <2> QED BY <2>1, <1>9, <1>10, <1>11 DEF Register
<1>13. z[p] = b /\ \A x \in DOMAIN m \ {t, p} : z[x] = m[x]
  BY <1>9, <1>12
<1>14. DOMAIN z = (DOMAIN m \ {t}) \cup {r} /\ z \in [DOMAIN z -> Chunk]
  BY <1>12
<1>15. ToppedUpIs(m, p, t, r, z)
  BY <1>3, <1>8, <1>10, <1>12, <1>13, <1>14 DEF ToppedUpIs
<1> QED BY <1>15, <1>z

\* The sizes when p has been extended to nb units at the expense of the top chunk t
Extends(m, p, t, nb, z) ==
    /\ p + nb \in Nat /\ p + nb \notin DOMAIN m
    /\ DOMAIN z = (DOMAIN m \ {t}) \cup {p + nb} /\ z[p].size = nb
    /\ z[p + nb].size = m[p].size + m[t].size - nb
    /\ \A x \in DOMAIN m \ {t, p} : z[x].size = m[x].size

LEMMA ToppedUpHeap ==
    ASSUME NEW m, NEW t, NEW sm, NEW own, NEW B, NEW F, NEW L, Heap(m, t, sm, own, B, F, L),
           NEW p \in L, m[p].md_next = t, NEW nb \in Nat, nb > m[p].size,
           m[p].size + m[t].size >= nb + MINSIZE, NEW z, z = ToppedUp(m, p, t, nb)
    PROVE  Heap(z, p + nb, sm, own, B, F, L) /\ Extends(m, p, t, nb, z)
<1>0. /\ HeapBut(m, t, sm, own, B, F, L, {}) /\ Tagged(m, t, sm, own, B, {})
      /\ Places(m, t, B, F, L)
  BY DEF Heap, HeapBut
<1>1. /\ p \in ChunksOf(m) /\ p # t /\ p \notin sm /\ p \in DOMAIN m /\ p \in Nat
      /\ m[p].size \in Nat /\ m[p].size >= MINSIZE
      /\ Geo(m, t, sm, own) /\ t \in ChunksOf(m) /\ t # InitialTop
      /\ m[t].size \in Nat /\ m[t].size >= MINSIZE
  <2>1. p \in B \cup F \cup L
    OBVIOUS
  <2> QED BY <1>0, <2>1, Proper
<1>2. t \in DOMAIN m /\ t \notin sm /\ m[t].md_next = NULL /\ NULL \notin DOMAIN m
      /\ t \in Nat /\ m \in [DOMAIN m -> Chunk]
  <2>1. NULL \notin ChunksOf(m) /\ t \in Nat
    BY <1>1, OneChunk
  <2> QED BY <1>1, <2>1, Distinct DEF Geo, Shape, Links, ChunksOf
<1>3. t = p + m[p].size
  BY <1>1 DEF Geo, Links
<1>r. PICK r : r = p + nb
  OBVIOUS
<1>k. PICK k : k = nb - m[p].size
  OBVIOUS
<1>4. k \in Nat /\ 0 < k /\ k < m[t].size /\ r = t + k /\ r \in Nat
  BY <1>1, <1>3, <1>r, <1>k, Distinct
<1>c. PICK c : c = Carve(m, t, k)
  OBVIOUS
<1>5. Carved(m, t, r, c) /\ Tagged(c, r, sm, own, B, {})
  <2>1. t \in ChunksOf(m) \ sm /\ t \notin B
    BY <1>0, <1>1, <1>2 DEF Places
  <2>2. Carved(m, t, r, c) /\ Tagged(c, IF t = t THEN r ELSE t, sm, own, B, {})
    BY <1>0, <1>4, <1>c, <2>1, TagsCarve
  <2> QED BY <2>2
<1>6. /\ r \notin DOMAIN m /\ DOMAIN c = DOMAIN m \cup {r}
      /\ c[t].size = r - t /\ c[t].md_next = r /\ c[t].md_prev = m[t].md_prev
      /\ c[r].size = t + m[t].size - r /\ c[r].md_next = NULL /\ c[r].md_prev = t
      /\ c[r].prev_inuse = TRUE /\ c[r].prev_size = 0
      /\ \A x \in DOMAIN m \ {t} :
          /\ c[x].size = m[x].size /\ c[x].md_next = m[x].md_next
          /\ c[x].md_prev = m[x].md_prev /\ SameTags(c[x], m[x])
  BY <1>2, <1>5 DEF Carved
<1>7. ToppedUpIs(m, p, t, r, z)
  <2>1. nb <= m[p].size + m[t].size /\ r = p + nb
    BY <1>1, <1>r, Distinct
  <2> QED BY <2>1, <1>1, <1>2, <1>6, ToppedUpRecords
<1>8. /\ DOMAIN z = (DOMAIN m \ {t}) \cup {r} /\ z \in [DOMAIN z -> Chunk]
      /\ z[p].size = r - p /\ z[p].md_next = r /\ z[p].md_prev = m[p].md_prev
      /\ SameTags(z[p], m[p])
      /\ z[r].size = p + m[p].size + m[t].size - r /\ z[r].md_next = NULL /\ z[r].md_prev = p
      /\ z[r].prev_inuse = TRUE /\ z[r].prev_size = 0
      /\ \A x \in DOMAIN m \ {t, p} : z[x] = m[x]
  BY <1>7 DEF ToppedUpIs
<1>9. r # t /\ r # p
  BY <1>1, <1>2, <1>6
<1>10. Merged(c, p, t, z)
  <2>1. c[p].size = m[p].size /\ c[p].md_prev = m[p].md_prev
    BY <1>1, <1>6
  <2>2. r - p = c[p].size + c[t].size
    BY <2>1, <1>1, <1>2, <1>3, <1>4, <1>6
  <2>3. z[r].size = c[r].size
    BY <1>1, <1>2, <1>3, <1>4, <1>6, <1>8
  <2>4. DOMAIN z = DOMAIN c \ {t}
    BY <1>6, <1>8, <1>9
  <2>5. ASSUME NEW x \in DOMAIN c \ {t, p}
        PROVE  /\ z[x].size = c[x].size /\ z[x].md_next = c[x].md_next
               /\ z[x].md_prev = (IF x = c[t].md_next THEN p ELSE c[x].md_prev)
    <3>1. CASE x = r
      BY <3>1, <2>3, <1>6, <1>8
    <3>2. CASE x # r
      BY <3>2, <1>6, <1>8
    <3> QED BY <3>1, <3>2
  <2> QED BY <2>1, <2>2, <2>4, <2>5, <1>6, <1>8 DEF Merged
<1>11. \A x \in DOMAIN c \ {t} : SameTags(z[x], c[x])
  <2>1. SameTags(z[r], c[r])
    BY <1>6, <1>8 DEF SameTags
  <2>2. SameTags(z[p], c[p])
    BY <1>1, <1>6, <1>8 DEF SameTags
  <2>3. \A x \in DOMAIN m \ {t, p} : SameTags(z[x], c[x])
    BY <1>6, <1>8 DEF SameTags
  <2> QED BY <2>1, <2>2, <2>3, <1>6
<1>12. Tagged(z, r, sm, own, B, {})
  <2>1. p \in ChunksOf(c) /\ t = c[p].md_next
    BY <1>1, <1>6 DEF ChunksOf
  <2>2. p \notin B /\ t \notin B /\ p # r /\ t # r
    BY <1>0, <1>9 DEF Places
  <2>3. Tagged(z, IF t = r THEN p ELSE r, sm, own, B, {} \ {t})
    BY <1>1, <1>2, <1>5, <1>10, <1>11, <2>1, <2>2, TagsMerge
  <2>4. {} \ {t} = {} /\ (IF t = r THEN p ELSE r) = r
    BY <2>2
  <2> QED BY <2>3, <2>4
<1>13. \A x \in DOMAIN m \ {t, p} : z[x].size = m[x].size
  BY <1>8
<1>14. z[p].size = nb /\ z[r].size >= MINSIZE
  BY <1>1, <1>8, <1>r, <1>3, Distinct
<1>15. Places(z, r, B, F, L)
  <2>1. ChunksOf(z) = (ChunksOf(m) \ {t}) \cup {r} /\ ChunksOf(m) \subseteq DOMAIN m
        /\ r # InitialTop
    BY <1>1, <1>4, <1>8, Distinct DEF ChunksOf
  <2>2. z[p].size >= MINSIZE
    BY <1>1, <1>14, Distinct
  <2>3. r \notin B \cup F \cup L
    BY <1>0, <1>6, <2>1 DEF Places
  <2>4. /\ B \cap F = {} /\ (B \cup F) \cap L = {} /\ t \notin B \cup F \cup L
        /\ B \cup F \cup L \subseteq ChunksOf(m)
        /\ \A x \in ChunksOf(m) \ {t} :
               IF x \in B \cup F \cup L THEN m[x].size >= MINSIZE ELSE m[x].size = 1
    BY <1>0 DEF Places
  <2>5. \A x \in ChunksOf(m) \ {t} :
               IF x \in B \cup F \cup L THEN z[x].size >= MINSIZE ELSE z[x].size = 1
    BY <2>1, <2>2, <2>4, <1>13
  <2> QED BY <2>1, <2>3, <2>4, <2>5, <1>14 DEF Places
<1>16. Extends(m, p, t, nb, z)
  <2>1. z[r].size = m[p].size + m[t].size - nb
    BY <1>1, <1>2, <1>8, <1>r
  <2> QED BY <2>1, <1>4, <1>6, <1>8, <1>13, <1>14, <1>r DEF Extends
<1> QED BY <1>12, <1>15, <1>16, <1>r DEF Heap, HeapBut

\* The top chunk gets another size.
ResizedTop(m, t, size) == [m EXCEPT ![t].size = size, ![t].prev_inuse = TRUE]

SizedTop(m, t, size, z) ==
    DOMAIN z = DOMAIN m /\ z[t].size = size /\ SameSizes(m, z, {t})

LEMMA ResizeHeap ==
    ASSUME NEW m, NEW t, NEW sm, NEW own, NEW B, NEW F, NEW L, Heap(m, t, sm, own, B, F, L),
           t # InitialTop, NEW size \in Nat, size >= MINSIZE,
           \A x \in own : x < t + m[t].size \/ x >= t + size,
           NEW own2 \in SUBSET Nat,
           \A x \in Nat : x \in own2 <=> \/ x \in own /\ (x < t \/ x >= t + m[t].size)
                                         \/ t <= x /\ x < t + size,
           NEW z, z = ResizedTop(m, t, size)
    PROVE  Heap(z, t, sm, own2, B, F, L) /\ SizedTop(m, t, size, z)
<1>0. /\ HeapBut(m, t, sm, own, B, F, L, {}) /\ Tagged(m, t, sm, own, B, {})
      /\ Places(m, t, B, F, L) /\ Geo(m, t, sm, own)
  BY DEF Heap, HeapBut, Tagged
<1>1. t \in ChunksOf(m) /\ t \in DOMAIN m /\ m \in [DOMAIN m -> Chunk]
  BY <1>0 DEF Geo, Shape, ChunksOf
<1>2. t \in Nat /\ m[t].size \in Nat /\ m[t] \in Chunk
  BY <1>0, <1>1, OneChunk
<1>a. PICK a : a = [m[t] EXCEPT !.size = size]
  OBVIOUS
<1>b. PICK b : b = [a EXCEPT !.prev_inuse = TRUE]
  OBVIOUS
<1>3. a \in Chunk /\ a.size = size /\ a.md_next = m[t].md_next /\ a.md_prev = m[t].md_prev
  BY <1>2, <1>a, PutSize
<1>4. b \in Chunk /\ SameGeo(b, a) /\ b.prev_inuse = TRUE
  BY <1>3, <1>b, PutInuse
<1>5. z = [m EXCEPT ![t] = b]
  BY <1>1, <1>a, <1>b DEF ResizedTop
<1>6. z \in [DOMAIN m -> Chunk] /\ z[t] = b /\ \A x \in DOMAIN m \ {t} : z[x] = m[x]
  BY <1>1, <1>4, <1>5, PutAt
<1>7. Resized(m, t, size, z)
  BY <1>3, <1>4, <1>6 DEF Resized, SameGeo
<1>8. ASSUME NEW p \in ChunksOf(m) \ {t} PROVE p + m[p].size <= t \/ t + size <= p
  <2>1. p + m[p].size <= t \/ t + m[t].size <= p
    BY <1>0, <1>1 DEF Geo, Apart
  <2>2. p \in Nat /\ m[p].size \in Nat /\ m[p].size >= 1
    BY <1>0, OneChunk
  <2>3. p \in own
    <3>1. p <= p /\ p < p + m[p].size
      BY <2>2
    <3> QED BY <3>1, <2>2, <1>0 DEF Geo, Covers
  <2> QED BY <2>1, <2>2, <2>3, <1>2
<1>9. Geo(z, t, sm, own2)
  <2>1. size >= 1
    BY Distinct
  <2> QED BY <1>0, <1>7, <1>8, <2>1, GeoResize
<1>10. Tagged(z, t, sm, own2, B, {})
  <2>1. z[t].prev_inuse
    BY <1>4, <1>6
  <2>2. \A x \in DOMAIN m \ {t} : SameTags(z[x], m[x])
    BY <1>6 DEF SameTags
  <2> QED BY <1>0, <1>7, <1>9, <2>1, <2>2, TagsResize
<1>11. z[t].size = size /\ \A x \in DOMAIN m \ {t} : z[x].size = m[x].size
  BY <1>3, <1>4, <1>6 DEF SameGeo
<1>12. Places(z, t, B, F, L)
  <2>1. ChunksOf(z) = ChunksOf(m) /\ ChunksOf(m) \subseteq DOMAIN m
    BY <1>6 DEF ChunksOf
  <2> QED BY <1>0, <1>11, <2>1 DEF Places
<1>13. SizedTop(m, t, size, z)
  BY <1>6, <1>11 DEF SizedTop, SameSizes
<1> QED BY <1>10, <1>12, <1>13 DEF Heap, HeapBut

\* Memory that the heap does not have lies before or behind every chunk.
LEMMA BesideOwned ==
    ASSUME NEW m, NEW t, NEW sm, NEW own, Geo(m, t, sm, own),
           NEW lo \in Nat, NEW hi \in Nat, lo < hi, \A x \in own : x < lo \/ x >= hi,
           NEW p \in ChunksOf(m)
    PROVE  p + m[p].size <= lo \/ hi <= p
<1>1. p \in Nat /\ m[p].size \in Nat /\ m[p].size >= 1
  BY OneChunk
<1>2. \A x \in Nat : p <= x /\ x < p + m[p].size => x \in own
  BY DEF Geo, Covers
<1>3. p \in own
  BY <1>1, <1>2
<1>4. CASE p < lo /\ p + m[p].size > lo
  <2>1. lo \in own
    BY <1>1, <1>2, <1>4
  <2> QED BY <2>1
<1> QED BY <1>1, <1>3, <1>4

(***************************************************************************)
(* A new region                                                            *)
(***************************************************************************)
\* The first region: there was no top chunk.
FirstRecord(m, base, size, z) == z = Register(m, base, FreshTop(size))

FirstTopAt(m, base, size, sm, own, B, F, L, z) ==
    /\ Heap(z, base, sm, own, B, F, L)
    /\ base \notin DOMAIN m /\ DOMAIN z = DOMAIN m \cup {base} /\ SameSizes(m, z, {})

LEMMA FirstTopHeap ==
    ASSUME NEW m, NEW t, t = InitialTop, NEW sm, NEW own, NEW B, NEW F, NEW L,
           Heap(m, t, sm, own, B, F, L),
           NEW base \in Nat, NEW size \in Nat, size >= MINSIZE,
           NEW own2, own2 = own \cup (base .. base + size - 1),
           NEW z, FirstRecord(m, base, size, z)
    PROVE  FirstTopAt(m, base, size, sm, own2, B, F, L, z)
<1>0. /\ HeapBut(m, t, sm, own, B, F, L, {}) /\ Tagged(m, t, sm, own, B, {})
      /\ Places(m, t, B, F, L) /\ Geo(m, t, sm, own)
  BY DEF Heap, HeapBut, Tagged
<1>1. ChunksOf(m) = {} /\ t \in DOMAIN m /\ m \in [DOMAIN m -> Chunk]
  BY <1>0 DEF Geo, Shape
<1>2. base \notin DOMAIN m /\ base # t
  BY <1>1, Distinct DEF ChunksOf
<1>c. PICK c : c = FreshTop(size)
  OBVIOUS
<1>3. c \in Chunk /\ c.size = size /\ c.md_next = NULL /\ c.md_prev = NULL
      /\ c.prev_inuse = TRUE
  BY <1>c DEF FreshTop, Chunk, NULL
<1>4. /\ z \in [DOMAIN m \cup {base} -> Chunk] /\ z[base] = c
      /\ \A x \in DOMAIN m : z[x] = m[x]
  <2>1. z = Register(m, base, c)
    BY <1>c DEF FirstRecord
  <2> QED BY <2>1, <1>1, <1>2, <1>3 DEF Register
<1>5. Topped(m, t, base, size, z)
  BY <1>3, <1>4 DEF Topped
<1>6. Geo(z, base, sm, own2)
  <2>1. \A p \in ChunksOf(m) : p + m[p].size <= base \/ base + size <= p
    BY <1>1
  <2>2. t # InitialTop => m[t].size = 1
    OBVIOUS
  <2>3. size >= 1
    BY Distinct
  <2>4. Geo(m, t, sm, own)
    BY <1>0
  <2>5. Geo(z, base, IF t = InitialTop THEN sm ELSE sm \cup {t},
            own \cup (base .. base + size - 1))
    BY <1>2, <1>5, <2>1, <2>2, <2>3, <2>4, GeoNewTop
  <2> QED BY <2>5
<1>7. Tagged(z, base, sm, own2, B, {})
  <2>1. z[base].prev_inuse /\ \A x \in DOMAIN m : SameTags(z[x], m[x])
    BY <1>3, <1>4 DEF SameTags
  <2> QED BY <1>0, <1>2, <1>5, <1>6, <2>1, TagsNewTop
<1>8. Places(z, base, B, F, L)
  <2>1. ChunksOf(z) = {base}
    BY <1>1, <1>2, <1>4, Distinct DEF ChunksOf
  <2>2. B = {} /\ F = {} /\ L = {}
    BY <1>0, <1>1 DEF Places
  <2> QED BY <2>1, <2>2, <1>3, <1>4 DEF Places
<1>9. DOMAIN z = DOMAIN m \cup {base} /\ SameSizes(m, z, {})
  BY <1>4 DEF SameSizes
<1> QED BY <1>2, <1>7, <1>8, <1>9 DEF Heap, HeapBut, FirstTopAt

\* The old top chunk t is cut in three: its first keep units, and two units of one
\* fencepost each.
Fences(m, t, keep) ==
    Carve(IF keep = 0 THEN SetHead(m, t, m[t].size)
                      ELSE Carve(SetHead(m, t, m[t].size), t, keep), t + keep, 1)

Before(m, t, keep) == IF keep = 0 THEN m[t].md_prev ELSE t

IsFence(c, next, before) ==
    /\ c.size = 1 /\ c.md_next = next /\ c.md_prev = before
    /\ c.prev_inuse = TRUE /\ c.prev_size = 0

\* what becomes of the records
FencesAre(m, t, keep, f0, f1, end, z) ==
    /\ f0 \in Nat /\ f1 \in Nat /\ f1 \notin DOMAIN m /\ f0 # f1
    /\ keep = 0 => f0 = t
    /\ keep # 0 => f0 \notin DOMAIN m
    /\ IsFence(z[f0], f1, Before(m, t, keep)) /\ IsFence(z[f1], end, f0)
    /\ keep # 0 => /\ z[t].size = keep /\ z[t].md_next = f0 /\ z[t].md_prev = m[t].md_prev
                   /\ z[t].prev_inuse = TRUE /\ z[t].prev_size = 0
    /\ \A x \in DOMAIN m \ {t} : SameGeo(z[x], m[x]) /\ SameTags(z[x], m[x])

\* The first cut.
FirstCutIs(m, t, keep, f0, z) ==
    /\ f0 \in Nat /\ DOMAIN z = DOMAIN m \cup {f0} /\ z \in [DOMAIN z -> Chunk]
    /\ z[f0].size = 2 /\ z[f0].md_prev = Before(m, t, keep)
    /\ z[f0].prev_inuse = TRUE /\ z[f0].prev_size = 0
    /\ keep = 0 => f0 = t
    /\ keep # 0 => /\ f0 \notin DOMAIN m
                   /\ z[t].size = keep /\ z[t].md_next = f0 /\ z[t].md_prev = m[t].md_prev
                   /\ z[t].prev_inuse = TRUE /\ z[t].prev_size = 0
    /\ \A x \in DOMAIN m \ {t} : SameGeo(z[x], m[x]) /\ SameTags(z[x], m[x])

LEMMA FirstCut ==
    ASSUME NEW m, NEW t, NEW sm, NEW own, NEW B, NEW F, NEW L, Heap(m, t, sm, own, B, F, L),
           t # InitialTop, m[t].md_prev \notin B, NEW keep \in Nat, m[t].size = keep + 2,
           NEW h, h = SetHead(m, t, m[t].size),
           NEW z, z = IF keep = 0 THEN h ELSE Carve(h, t, keep), NEW f0, f0 = t + keep
    PROVE  Tagged(z, f0, sm, own, B, {}) /\ FirstCutIs(m, t, keep, f0, z)
<1>0. HeapBut(m, t, sm, own, B, F, L, {}) /\ Geo(m, t, sm, own)
  BY DEF Heap, HeapBut, Tagged
<1>1. t \in ChunksOf(m) /\ t \in DOMAIN m /\ t \in Nat /\ t \notin sm /\ t \notin B
      /\ m \in [DOMAIN m -> Chunk] /\ NULL \notin DOMAIN m
  <2>1. t \in ChunksOf(m) /\ t \notin sm /\ m \in [DOMAIN m -> Chunk] /\ ChunksOf(m) \subseteq Nat
    BY <1>0 DEF Geo, Shape, ChunksOf
  <2>2. t \notin B
    BY <1>0 DEF HeapBut, Places
  <2> QED BY <2>1, <2>2, Distinct DEF ChunksOf
<1>2. HeapBut(h, t, sm, own, B, F, L, {}) /\ Headed(m, t, m[t].size, h)
  BY <1>0, <1>1, HeadHeap
<1>3. Tagged(h, t, sm, own, B, {}) /\ Geo(h, t, sm, own)
  BY <1>2 DEF HeapBut, Tagged
<1>4. /\ h \in [DOMAIN m -> Chunk]
      /\ h[t].size = m[t].size /\ h[t].md_next = m[t].md_next /\ h[t].md_prev = m[t].md_prev
      /\ h[t].prev_inuse = TRUE /\ h[t].prev_size = 0
      /\ \A y \in DOMAIN m \ {t} : h[y] = m[y]
  BY <1>2 DEF Headed
<1>5. CASE keep = 0
  <2>1. z = h /\ f0 = t /\ m[t].size = 2
    BY <1>1, <1>5
  <2>2. \A x \in DOMAIN m \ {t} : SameGeo(z[x], m[x]) /\ SameTags(z[x], m[x])
    BY <2>1, <1>4 DEF SameGeo, SameTags
  <2> QED BY <2>1, <2>2, <1>1, <1>3, <1>4, <1>5 DEF Before, FirstCutIs
<1>6. CASE keep # 0
  <2>0. z = Carve(h, t, keep)
    BY <1>6
  <2>1. 0 < keep /\ keep < h[t].size /\ t \in ChunksOf(h) \ sm
    BY <1>1, <1>4, <1>6 DEF ChunksOf
  <2>2. Carved(h, t, f0, z) /\ Tagged(z, IF t = t THEN f0 ELSE t, sm, own, B, {})
    BY <2>0, <2>1, <1>1, <1>3, TagsCarve
  <2>3. Tagged(z, f0, sm, own, B, {})
    BY <2>2
  <2>4. h[t].md_next = NULL
    BY <1>3 DEF Geo, Links
  <2>5. /\ f0 \notin DOMAIN m /\ f0 \in Nat
        /\ DOMAIN z = DOMAIN m \cup {f0} /\ z \in [DOMAIN z -> Chunk]
        /\ z[t].size = f0 - t /\ z[t].md_next = f0 /\ z[t].md_prev = h[t].md_prev
        /\ SameTags(z[t], h[t])
        /\ z[f0].size = t + h[t].size - f0 /\ z[f0].md_next = h[t].md_next /\ z[f0].md_prev = t
        /\ z[f0].prev_inuse = TRUE /\ z[f0].prev_size = 0
        /\ \A x \in DOMAIN m \ {t} :
              /\ z[x].size = h[x].size /\ z[x].md_next = h[x].md_next
              /\ z[x].md_prev = (IF x = h[t].md_next THEN f0 ELSE h[x].md_prev)
              /\ SameTags(z[x], h[x])
    BY <2>2, <1>4 DEF Carved
  <2>6. \A x \in DOMAIN m \ {t} : SameGeo(z[x], m[x]) /\ SameTags(z[x], m[x])
    BY <2>5, <2>4, <1>4, <1>1 DEF SameGeo
  <2>7. z[t].size = keep /\ z[f0].size = 2
    <3>1. z[t].size = f0 - t /\ z[f0].size = t + (keep + 2) - f0
      BY <2>5, <1>4
    <3> QED BY <3>1, <1>1
  <2>8. z[t].prev_inuse = TRUE /\ z[t].prev_size = 0 /\ z[t].md_prev = m[t].md_prev
    BY <2>5, <1>4 DEF SameTags
  <2>9. z[f0].md_prev = Before(m, t, keep)
    BY <2>5, <1>6 DEF Before
  <2> QED BY <2>3, <2>5, <2>6, <2>7, <2>8, <2>9, <1>6 DEF FirstCutIs
<1> QED BY <1>5, <1>6

\* Both cuts.
LEMMA FencesHeap ==
    ASSUME NEW m, NEW t, NEW sm, NEW own, NEW B, NEW F, NEW L, Heap(m, t, sm, own, B, F, L),
           t # InitialTop, m[t].md_prev \notin B, NEW keep \in Nat, m[t].size = keep + 2,
           NEW z, z = Fences(m, t, keep), NEW f0, f0 = t + keep, NEW f1, f1 = f0 + 1
    PROVE  /\ Tagged(z, f1, sm, own, B, {}) /\ FencesAre(m, t, keep, f0, f1, NULL, z)
           /\ DOMAIN z = DOMAIN m \cup {f0, f1} /\ z \in [DOMAIN z -> Chunk]
<1>0. Geo(m, t, sm, own)
  BY DEF Heap, HeapBut, Tagged
<1>1. t \in ChunksOf(m) /\ t \in DOMAIN m /\ t \in Nat /\ t \notin sm /\ t \notin B
      /\ m \in [DOMAIN m -> Chunk] /\ NULL \notin DOMAIN m
  <2>1. t \in ChunksOf(m) /\ t \notin sm /\ m \in [DOMAIN m -> Chunk] /\ ChunksOf(m) \subseteq Nat
    BY <1>0 DEF Geo, Shape, ChunksOf
  <2>2. t \notin B
    BY DEF Heap, HeapBut, Places
  <2> QED BY <2>1, <2>2, Distinct DEF ChunksOf
<1>h. PICK h : h = SetHead(m, t, m[t].size)
  OBVIOUS
<1>k. PICK k : k = IF keep = 0 THEN h ELSE Carve(h, t, keep)
  OBVIOUS
<1>z. z = Carve(k, f0, 1)
  BY <1>h, <1>k DEF Fences
<1>2. Tagged(k, f0, sm, own, B, {}) /\ FirstCutIs(m, t, keep, f0, k)
  BY <1>h, <1>k, FirstCut
<1>3. /\ f0 \in Nat /\ DOMAIN k = DOMAIN m \cup {f0} /\ k \in [DOMAIN k -> Chunk]
      /\ k[f0].size = 2 /\ k[f0].md_prev = Before(m, t, keep)
      /\ k[f0].prev_inuse = TRUE /\ k[f0].prev_size = 0
      /\ keep = 0 => f0 = t
      /\ keep # 0 => /\ f0 \notin DOMAIN m
                     /\ k[t].size = keep /\ k[t].md_next = f0 /\ k[t].md_prev = m[t].md_prev
                     /\ k[t].prev_inuse = TRUE /\ k[t].prev_size = 0
      /\ \A x \in DOMAIN m \ {t} : SameGeo(k[x], m[x]) /\ SameTags(k[x], m[x])
  BY <1>2 DEF FirstCutIs
<1>4. f0 \notin sm /\ f0 \in ChunksOf(k) /\ f0 \notin B /\ k[f0].md_next = NULL
  <2>1. Geo(k, f0, sm, own) /\ B \subseteq ChunksOf(k) \ {f0}
    BY <1>2 DEF Tagged, TagsBut
  <2> QED BY <2>1, <1>3, Distinct DEF Geo, Shape, Links, ChunksOf
<1>5. Carved(k, f0, f1, z) /\ Tagged(z, IF f0 = f0 THEN f1 ELSE f0, sm, own, B, {})
  <2>1. 0 < 1 /\ 1 < k[f0].size /\ f0 \in ChunksOf(k) \ sm /\ 1 \in Nat
    BY <1>3, <1>4
  <2> QED BY <2>1, <1>2, <1>4, <1>z, TagsCarve
<1>6. /\ f1 \notin DOMAIN k /\ f1 \in Nat
      /\ DOMAIN z = DOMAIN k \cup {f1} /\ z \in [DOMAIN z -> Chunk]
      /\ z[f0].size = f1 - f0 /\ z[f0].md_next = f1 /\ z[f0].md_prev = k[f0].md_prev
      /\ SameTags(z[f0], k[f0])
      /\ z[f1].size = f0 + k[f0].size - f1 /\ z[f1].md_next = NULL /\ z[f1].md_prev = f0
      /\ z[f1].prev_inuse = TRUE /\ z[f1].prev_size = 0
      /\ \A x \in DOMAIN k \ {f0} :
            /\ z[x].size = k[x].size /\ z[x].md_next = k[x].md_next
            /\ z[x].md_prev = (IF x = NULL THEN f1 ELSE k[x].md_prev)
            /\ SameTags(z[x], k[x])
  BY <1>4, <1>5 DEF Carved
<1>7. z[f0].size = 1 /\ z[f1].size = 1 /\ f0 # f1
  <2>1. z[f0].size = f1 - f0 /\ z[f1].size = f0 + 2 - f1
    BY <1>3, <1>6
  <2> QED BY <2>1, <1>3
<1>8. IsFence(z[f0], f1, Before(m, t, keep)) /\ IsFence(z[f1], NULL, f0)
  BY <1>3, <1>6, <1>7 DEF IsFence, SameTags
<1>9. ASSUME NEW x \in DOMAIN m \ {f0} PROVE SameGeo(z[x], k[x]) /\ SameTags(z[x], k[x])
  BY <1>1, <1>3, <1>6 DEF SameGeo
<1>10. \A x \in DOMAIN m \ {t} : SameGeo(z[x], m[x]) /\ SameTags(z[x], m[x])
  <2> SUFFICES ASSUME NEW x \in DOMAIN m \ {t} PROVE SameGeo(z[x], m[x]) /\ SameTags(z[x], m[x])
    OBVIOUS
  <2>1. x # f0
    BY <1>3
  <2> QED BY <2>1, <1>9, <1>3 DEF SameGeo, SameTags
<1>11. keep # 0 => /\ z[t].size = keep /\ z[t].md_next = f0 /\ z[t].md_prev = m[t].md_prev
                   /\ z[t].prev_inuse = TRUE /\ z[t].prev_size = 0
  <2> SUFFICES ASSUME keep # 0
               PROVE  /\ z[t].size = keep /\ z[t].md_next = f0 /\ z[t].md_prev = m[t].md_prev
                      /\ z[t].prev_inuse = TRUE /\ z[t].prev_size = 0
    OBVIOUS
  <2>1. t # f0
    BY <1>1, <1>3
  <2> QED BY <2>1, <1>1, <1>9, <1>3 DEF SameGeo, SameTags
<1>12. FencesAre(m, t, keep, f0, f1, NULL, z)
  BY <1>3, <1>6, <1>7, <1>8, <1>10, <1>11 DEF FencesAre
<1>13. DOMAIN z = DOMAIN m \cup {f0, f1}
  BY <1>3, <1>6
<1> QED BY <1>5, <1>6, <1>12, <1>13

\* The records of NewTop, when there was a top chunk.
FenceAt(next, before) == [size |-> 1, prev_inuse |-> TRUE, prev_size |-> 0,
                          md_next |-> next, md_prev |-> before]
Shrunk(s, t, keep) == IF keep = 0 THEN Unregister(s, t) ELSE SetHead(s, t, keep)
Fenced(s, f0, f1, prev, base) ==
    Register(Register(s, f0, FenceAt(f1, prev)), f1, FenceAt(base, f0))
Beyond(s, prev, f0, f1, base) == [s EXCEPT ![prev].md_next = f0, ![base].md_prev = f1]

NewBase(base, size, f1, z) ==
    z[base].size = size /\ z[base].md_next = NULL /\ z[base].md_prev = f1
    /\ z[base].prev_inuse = TRUE

\* the old top is shrunk, or its record given back
ShrunkTo(m, t, keep, base, b, s) ==
    /\ DOMAIN s = (DOMAIN m \ (IF keep = 0 THEN {t} ELSE {})) \cup {base}
    /\ s \in [DOMAIN s -> Chunk] /\ s[base] = b
    /\ keep # 0 => /\ s[t].size = keep /\ s[t].md_next = m[t].md_next
                   /\ s[t].md_prev = m[t].md_prev
                   /\ s[t].prev_inuse = TRUE /\ s[t].prev_size = 0
    /\ \A x \in DOMAIN m \ {t} : s[x] = m[x]

LEMMA ShrunkIs ==
    ASSUME NEW m, m \in [DOMAIN m -> Chunk], NEW t \in DOMAIN m, NEW keep \in Nat,
           NEW base, base \notin DOMAIN m, NEW b \in Chunk,
           NEW s, s = Shrunk(Register(m, base, b), t, keep)
    PROVE  ShrunkTo(m, t, keep, base, b, s)
<1>e. PICK e : e = Register(m, base, b)
  OBVIOUS
<1>1. /\ e \in [DOMAIN m \cup {base} -> Chunk] /\ e[base] = b
      /\ \A x \in DOMAIN m : e[x] = m[x]
  BY <1>e DEF Register
<1>2. CASE keep = 0
  BY <1>e, <1>1, <1>2 DEF Shrunk, Unregister, ShrunkTo
<1>3. CASE keep # 0
  <2>1. s = SetHead(e, t, keep) /\ e \in [DOMAIN e -> Chunk] /\ t \in DOMAIN e
        /\ DOMAIN e = DOMAIN m \cup {base} /\ t # base
    BY <1>e, <1>1, <1>3 DEF Shrunk
  <2>2. Headed(e, t, keep, s)
    BY <2>1, SetHeadIs
  <2>3. s \in [DOMAIN m \cup {base} -> Chunk]
    BY <2>1, <2>2 DEF Headed
  <2>4. s[base] = b /\ \A x \in DOMAIN m \ {t} : s[x] = m[x]
    BY <2>1, <2>2, <1>1 DEF Headed
  <2>5. s[t].size = keep /\ s[t].md_next = m[t].md_next /\ s[t].md_prev = m[t].md_prev
        /\ s[t].prev_inuse = TRUE /\ s[t].prev_size = 0
    BY <2>2, <1>1 DEF Headed
  <2>6. DOMAIN s = (DOMAIN m \ (IF keep = 0 THEN {t} ELSE {})) \cup {base}
    BY <2>3, <1>3
  <2> QED BY <2>3, <2>4, <2>5, <2>6 DEF ShrunkTo
<1> QED BY <1>2, <1>3

\* two fenceposts are registered
FencedIs(s, f0, f1, prev, base, z) ==
    /\ DOMAIN z = DOMAIN s \cup {f0, f1} /\ z \in [DOMAIN z -> Chunk]
    /\ IsFence(z[f0], f1, prev) /\ IsFence(z[f1], base, f0)
    /\ \A x \in DOMAIN s \ {f0, f1} : z[x] = s[x]

LEMMA FencedRecords ==
    ASSUME NEW s, s \in [DOMAIN s -> Chunk], NEW f0 \in Int, NEW f1 \in Int, f0 # f1,
           NEW prev \in Int, NEW base \in Int, NEW z, z = Fenced(s, f0, f1, prev, base)
    PROVE  FencedIs(s, f0, f1, prev, base, z)
<1>c. PICK c : c = FenceAt(f1, prev)
  OBVIOUS
<1>d. PICK d : d = FenceAt(base, f0)
  OBVIOUS
<1>1. c \in Chunk /\ IsFence(c, f1, prev) /\ d \in Chunk /\ IsFence(d, base, f0)
  BY <1>c, <1>d DEF FenceAt, IsFence, Chunk
<1>e. PICK e : e = Register(s, f0, c)
  OBVIOUS
<1>2. /\ e \in [DOMAIN s \cup {f0} -> Chunk] /\ e[f0] = c
      /\ \A x \in DOMAIN s \ {f0} : e[x] = s[x]
  BY <1>e, <1>1 DEF Register
<1>3. z = Register(e, f1, d)
  BY <1>c, <1>d, <1>e DEF Fenced
<1>4. /\ z \in [DOMAIN s \cup {f0, f1} -> Chunk] /\ z[f1] = d /\ z[f0] = c
      /\ \A x \in DOMAIN s \ {f0, f1} : z[x] = s[x]
  <2>1. DOMAIN e = DOMAIN s \cup {f0}
    BY <1>2
  <2>2. z \in [DOMAIN e \cup {f1} -> Chunk] /\ z[f1] = d
        /\ \A x \in DOMAIN e \ {f1} : z[x] = e[x]
    BY <1>1, <1>2, <1>3, <2>1 DEF Register
  <2>3. f0 \in DOMAIN e \ {f1}
    BY <2>1
  <2>4. \A x \in DOMAIN s \ {f0, f1} : z[x] = s[x]
    BY <2>1, <2>2, <1>2
  <2>5. z \in [DOMAIN s \cup {f0, f1} -> Chunk]
    BY <2>1, <2>2
  <2> QED BY <2>2, <2>3, <2>4, <2>5, <1>2
<1> QED BY <1>1, <1>4 DEF FencedIs

\* the neighbours are linked to them
BeyondIs(s, prev, f0, f1, base, z) ==
    /\ DOMAIN z = DOMAIN s /\ z \in [DOMAIN z -> Chunk]
    /\ SameTags(z[base], s[base]) /\ z[base].size = s[base].size
    /\ z[base].md_next = s[base].md_next /\ z[base].md_prev = f1
    /\ prev \in DOMAIN s =>
          SameTags(z[prev], s[prev]) /\ z[prev].size = s[prev].size
          /\ z[prev].md_next = f0 /\ z[prev].md_prev = s[prev].md_prev
    /\ \A x \in DOMAIN s \ {prev, base} : z[x] = s[x]

LEMMA BeyondRecords ==
    ASSUME NEW s, s \in [DOMAIN s -> Chunk], NEW prev, NEW f0 \in Int, NEW f1 \in Int,
           NEW base \in DOMAIN s, prev # base, NEW z, z = Beyond(s, prev, f0, f1, base)
    PROVE  BeyondIs(s, prev, f0, f1, base, z)
<1>d. PICK d : d = [s[base] EXCEPT !.md_prev = f1]
  OBVIOUS
<1>1. d \in Chunk /\ SameTags(d, s[base]) /\ d.md_prev = f1
      /\ d.size = s[base].size /\ d.md_next = s[base].md_next
  BY <1>d, PutPrev
<1>2. CASE prev \in DOMAIN s
  <2>c. PICK c : c = [s[prev] EXCEPT !.md_next = f0]
    OBVIOUS
  <2>1. c \in Chunk /\ SameTags(c, s[prev]) /\ c.md_next = f0
        /\ c.size = s[prev].size /\ c.md_prev = s[prev].md_prev
    BY <1>2, <2>c, PutNext
  <2>e. PICK e : e = [s EXCEPT ![prev] = c]
    OBVIOUS
  <2>2. e \in [DOMAIN s -> Chunk] /\ DOMAIN e = DOMAIN s /\ e[prev] = c
        /\ \A x \in DOMAIN s \ {prev} : e[x] = s[x]
    BY <1>2, <2>1, <2>e, PutAt
  <2>3. e[base] = s[base]
    BY <2>2
  <2>4. z = [e EXCEPT ![base] = d]
    <3>1. z = [[s EXCEPT ![prev].md_next = f0] EXCEPT ![base].md_prev = f1]
      BY DEF Beyond
    <3>2. [s EXCEPT ![prev].md_next = f0] = e
      BY <1>2, <2>c, <2>e
    <3> QED BY <3>1, <3>2, <2>3, <1>d
  <2>5. z \in [DOMAIN s -> Chunk] /\ z[base] = d /\ \A x \in DOMAIN s \ {base} : z[x] = e[x]
    BY <2>2, <2>4, <1>1, PutAt
  <2>6. z[prev] = c /\ \A x \in DOMAIN s \ {prev, base} : z[x] = s[x]
    BY <2>2, <2>5, <1>2
  <2> QED BY <2>1, <2>5, <2>6, <1>1 DEF BeyondIs
<1>3. CASE prev \notin DOMAIN s
  <2>1. z = [[s EXCEPT ![prev].md_next = f0] EXCEPT ![base].md_prev = f1]
    BY DEF Beyond
  <2>2. [s EXCEPT ![prev].md_next = f0] = s
    BY <1>3
  <2>3. z = [s EXCEPT ![base] = d]
    BY <2>1, <2>2, <1>d
  <2>4. z \in [DOMAIN s -> Chunk] /\ z[base] = d /\ \A x \in DOMAIN s \ {base} : z[x] = s[x]
    BY <2>3, <1>1, PutAt
  <2> QED BY <2>4, <1>1, <1>3 DEF BeyondIs
<1> QED BY <1>2, <1>3

\* All records after NewTop.
Replaced(m, t, keep, f0, f1, base, size) ==
    Beyond(Fenced(Shrunk(Register(m, base, FreshTop(size)), t, keep),
                  f0, f1, Before(m, t, keep), base),
           Before(m, t, keep), f0, f1, base)

ReplacedIs(m, t, keep, f0, f1, base, size, z) ==
    /\ FencesAre(m, t, keep, f0, f1, base, z) /\ NewBase(base, size, f1, z)
    /\ DOMAIN z = DOMAIN m \cup {base, f0, f1} /\ z \in [DOMAIN z -> Chunk]

LEMMA ReplacedRecords ==
    ASSUME NEW m, NEW t, NEW sm, NEW own, Geo(m, t, sm, own), t # InitialTop,
           NEW keep \in Nat, NEW f0 \in Nat, NEW f1 \in Nat, f0 # f1, f1 \notin DOMAIN m,
           keep = 0 => f0 = t, keep # 0 => f0 \notin DOMAIN m,
           NEW base \in Nat, base \notin DOMAIN m, base # f0, base # f1, NEW size \in Nat,
           NEW z, z = Replaced(m, t, keep, f0, f1, base, size)
    PROVE  ReplacedIs(m, t, keep, f0, f1, base, size, z)
<1>1. /\ t \in DOMAIN m /\ t \in Nat /\ m \in [DOMAIN m -> Chunk] /\ NULL \notin DOMAIN m
      /\ m[t] \in Chunk /\ m[t].md_next = NULL
  BY Distinct DEF Geo, Shape, Links, ChunksOf
<1>p. PICK prev : prev = Before(m, t, keep)
  OBVIOUS
<1>2. /\ prev \in Int /\ prev # base /\ prev # f1 /\ prev \in DOMAIN m \cup {NULL}
      /\ keep = 0 => prev # f0
      /\ keep = 0 /\ prev \in DOMAIN m => m[prev].md_next = f0
      /\ keep # 0 => prev = t /\ prev # f0
  <2>1. CASE keep = 0
    <3>1. prev = m[t].md_prev /\ f0 = t
      BY <1>p, <2>1 DEF Before
    <3>2. prev \in Int
      BY <3>1, <1>1 DEF Chunk
    <3>3. t \in ChunksOf(m)
      BY <1>1 DEF ChunksOf
    <3>4. prev # NULL => prev \in ChunksOf(m) /\ m[prev].md_next = t
      BY <3>1, <3>3 DEF Geo, Links
    <3>5. prev # NULL => prev # t /\ prev \in DOMAIN m
      BY <3>4, <1>1 DEF ChunksOf, Geo, Links
    <3>6. NULL # base /\ NULL # f1 /\ NULL # f0
      BY Distinct
    <3> QED BY <3>1, <3>2, <3>4, <3>5, <3>6, <1>1, <2>1
  <2>2. CASE keep # 0
    <3>1. prev = t
      BY <1>p, <2>2 DEF Before
    <3> QED BY <3>1, <1>1, <2>2
  <2> QED BY <2>1, <2>2
<1>b. PICK b : b = FreshTop(size)
  OBVIOUS
<1>3. b \in Chunk /\ b.size = size /\ b.md_next = NULL /\ b.prev_inuse = TRUE
  BY <1>b DEF FreshTop, Chunk, NULL
<1>s. PICK s : s = Shrunk(Register(m, base, b), t, keep)
  OBVIOUS
<1>4. ShrunkTo(m, t, keep, base, b, s)
  BY <1>1, <1>3, <1>s, ShrunkIs
<1>5. /\ DOMAIN s = (DOMAIN m \ (IF keep = 0 THEN {t} ELSE {})) \cup {base}
      /\ s \in [DOMAIN s -> Chunk] /\ s[base] = b
      /\ keep # 0 => /\ s[t].size = keep /\ s[t].md_next = m[t].md_next
                     /\ s[t].md_prev = m[t].md_prev
                     /\ s[t].prev_inuse = TRUE /\ s[t].prev_size = 0
      /\ \A x \in DOMAIN m \ {t} : s[x] = m[x]
  BY <1>4 DEF ShrunkTo
<1>f. PICK f : f = Fenced(s, f0, f1, prev, base)
  OBVIOUS
<1>6. FencedIs(s, f0, f1, prev, base, f)
  BY <1>2, <1>5, <1>f, FencedRecords
<1>7. /\ DOMAIN f = DOMAIN s \cup {f0, f1} /\ f \in [DOMAIN f -> Chunk]
      /\ IsFence(f[f0], f1, prev) /\ IsFence(f[f1], base, f0)
      /\ \A x \in DOMAIN s \ {f0, f1} : f[x] = s[x]
  BY <1>6 DEF FencedIs
<1>8. z = Beyond(f, prev, f0, f1, base)
  BY <1>p, <1>b, <1>s, <1>f DEF Replaced
<1>9. BeyondIs(f, prev, f0, f1, base, z)
  BY <1>2, <1>5, <1>7, <1>8, BeyondRecords
<1>10. /\ DOMAIN z = DOMAIN f /\ z \in [DOMAIN z -> Chunk]
       /\ SameTags(z[base], f[base]) /\ z[base].size = f[base].size
       /\ z[base].md_next = f[base].md_next /\ z[base].md_prev = f1
       /\ prev \in DOMAIN f =>
             SameTags(z[prev], f[prev]) /\ z[prev].size = f[prev].size
             /\ z[prev].md_next = f0 /\ z[prev].md_prev = f[prev].md_prev
       /\ \A x \in DOMAIN f \ {prev, base} : z[x] = f[x]
  BY <1>9 DEF BeyondIs
<1>11. DOMAIN z = DOMAIN m \cup {base, f0, f1} /\ DOMAIN f = DOMAIN m \cup {base, f0, f1}
  BY <1>1, <1>5, <1>7, <1>10
<1>12. NewBase(base, size, f1, z)
  <2>1. f[base] = b
    BY <1>5, <1>7
  <2> QED BY <2>1, <1>3, <1>10 DEF NewBase, SameTags
<1>13. IsFence(z[f0], f1, prev) /\ IsFence(z[f1], base, f0)
  <2>1. f0 \in DOMAIN f \ {prev, base} /\ f1 \in DOMAIN f \ {prev, base}
    BY <1>2, <1>11
  <2> QED BY <2>1, <1>7, <1>10
<1>14. ASSUME NEW x \in DOMAIN m \ {t} PROVE SameGeo(z[x], m[x]) /\ SameTags(z[x], m[x])
  <2>1. x # f0 /\ x # f1 /\ x # base
    OBVIOUS
  <2>2. f[x] = m[x]
    BY <2>1, <1>5, <1>7
  <2>3. CASE x = prev
    <3>1. keep = 0 /\ m[x].md_next = f0
      BY <2>3, <1>2
    <3> QED BY <2>2, <2>3, <3>1, <1>10, <1>11 DEF SameGeo
  <2>4. CASE x # prev
    <3>1. z[x] = m[x]
      BY <2>1, <2>2, <2>4, <1>10, <1>11
    <3> QED BY <3>1 DEF SameGeo, SameTags
  <2> QED BY <2>3, <2>4
<1>15. keep # 0 => /\ z[t].size = keep /\ z[t].md_next = f0 /\ z[t].md_prev = m[t].md_prev
                   /\ z[t].prev_inuse = TRUE /\ z[t].prev_size = 0
  <2> SUFFICES ASSUME keep # 0
               PROVE  /\ z[t].size = keep /\ z[t].md_next = f0 /\ z[t].md_prev = m[t].md_prev
                      /\ z[t].prev_inuse = TRUE /\ z[t].prev_size = 0
    OBVIOUS
  <2>1. t = prev /\ t \in DOMAIN s \ {f0, f1}
    BY <1>1, <1>2, <1>5
  <2>2. f[t] = s[t] /\ t \in DOMAIN f
    BY <2>1, <1>7
  <2> QED BY <2>1, <2>2, <1>5, <1>10 DEF SameTags
<1> QED BY <1>10, <1>11, <1>12, <1>13, <1>14, <1>15, <1>p DEF FencesAre, ReplacedIs

\* The fences and the new base make a new top chunk behind the second fencepost.
ToppedAt(k, t, base, size, z) ==
    /\ Topped(k, t, base, size, z) /\ z[base].prev_inuse
    /\ \A x \in DOMAIN k : SameTags(z[x], k[x])

LEMMA FencesTopped ==
    ASSUME NEW m, NEW t, NEW keep, NEW f0, NEW f1, NEW base, NEW size, NEW k, NEW z,
           FencesAre(m, t, keep, f0, f1, NULL, k), DOMAIN k = DOMAIN m \cup {f0, f1},
           ReplacedIs(m, t, keep, f0, f1, base, size, z)
    PROVE  ToppedAt(k, f1, base, size, z)
<1> USE DEF ReplacedIs
<1>0. f1 # InitialTop
  BY Distinct DEF FencesAre
<1>1. ASSUME NEW x \in DOMAIN k
      PROVE  /\ z[x].size = k[x].size /\ z[x].md_prev = k[x].md_prev
             /\ z[x].md_next = (IF x = f1 THEN base ELSE k[x].md_next)
             /\ SameTags(z[x], k[x])
  <2>1. CASE x = f0
    BY <2>1 DEF FencesAre, IsFence, SameTags
  <2>2. CASE x = f1
    BY <2>2 DEF FencesAre, IsFence, SameTags
  <2>3. CASE x = t /\ x # f0
    <3>1. x # f1 \/ x = f1
      OBVIOUS
    <3> QED BY <2>2, <2>3, <3>1 DEF FencesAre, SameTags
  <2>4. CASE x # f0 /\ x # f1 /\ x # t
    <3>1. x \in DOMAIN m \ {t}
      BY <2>4
    <3>2. SameGeo(z[x], m[x]) /\ SameTags(z[x], m[x]) /\ SameGeo(k[x], m[x]) /\ SameTags(k[x], m[x])
      BY <3>1 DEF FencesAre
    <3> QED BY <3>2, <2>4 DEF SameGeo, SameTags
  <2> QED BY <2>1, <2>2, <2>3, <2>4
<1>2. DOMAIN z = DOMAIN k \cup {base}
  OBVIOUS
<1> QED BY <1>0, <1>1, <1>2 DEF Topped, NewBase, ToppedAt

\* A chunk does not start where the heap has no memory.
LEMMA NotOwned ==
    ASSUME NEW m, NEW t, NEW sm, NEW own, Geo(m, t, sm, own), NEW x \in Nat, x \notin own
    PROVE  x \notin DOMAIN m /\ \A p \in ChunksOf(m) : x < p \/ x >= p + m[p].size
<1>1. \A p \in ChunksOf(m) : x < p \/ x >= p + m[p].size
  <2> SUFFICES ASSUME NEW p \in ChunksOf(m), ~(x < p \/ x >= p + m[p].size) PROVE FALSE
    OBVIOUS
  <2>1. p \in Nat /\ m[p].size \in Nat
    BY OneChunk
  <2> QED BY <2>1 DEF Geo, Covers
<1>2. x \notin DOMAIN m
  <2> SUFFICES ASSUME x \in DOMAIN m PROVE FALSE
    OBVIOUS
  <2>1. x \in ChunksOf(m)
    BY Distinct DEF ChunksOf
  <2>2. m[x].size \in Nat /\ m[x].size >= 1
    BY <2>1, OneChunk
  <2> QED BY <2>1, <2>2, <1>1
<1> QED BY <1>1, <1>2

\* The sizes after NewTop, when there was a top chunk
NewSizes(m, t, keep, f0, f1, base, size, z) ==
    /\ base \notin DOMAIN m /\ DOMAIN z = DOMAIN m \cup {base, f0, f1}
    /\ f0 \in Nat /\ f1 \in Nat /\ f1 \notin DOMAIN m /\ base # f0 /\ base # f1 /\ f0 # f1
    /\ keep = 0 => f0 = t
    /\ keep # 0 => f0 \notin DOMAIN m /\ z[t].size = keep
    /\ z[base].size = size /\ z[f0].size = 1 /\ z[f1].size = 1
    /\ \A x \in DOMAIN m \ {t} : z[x].size = m[x].size

\* what is kept of the old top chunk is in use if it is large enough for a chunk
Kept(L, t, keep, L2) == L2 = IF keep < MINSIZE THEN L ELSE L \cup {t}

LEMMA KeptIs ==
    ASSUME NEW L, NEW t, NEW keep \in Nat, NEW L2, Kept(L, t, keep, L2)
    PROVE  /\ L2 \subseteq L \cup {t} /\ \A x : x # t => (x \in L2 <=> x \in L)
           /\ t \notin L => (t \in L2 <=> keep >= MINSIZE)
<1>1. CASE keep < MINSIZE
  <2>1. L2 = L
    BY <1>1 DEF Kept
  <2>2. ~(keep >= MINSIZE)
    BY <1>1, Distinct
  <2> QED BY <2>1, <2>2
<1>2. CASE ~(keep < MINSIZE)
  <2>1. L2 = L \cup {t}
    BY <1>2 DEF Kept
  <2>2. keep >= MINSIZE
    BY <1>2, Distinct
  <2> QED BY <2>1, <2>2
<1> QED BY <1>1, <1>2

LEMMA NewTopPlaces ==
    ASSUME NEW m, NEW t \in DOMAIN m, t # InitialTop, NEW B, NEW F, NEW L, Places(m, t, B, F, L),
           NEW keep \in Nat, NEW f0, NEW f1, NEW base \in Nat, NEW size \in Nat, size >= MINSIZE,
           NEW z, NewSizes(m, t, keep, f0, f1, base, size, z),
           NEW L2, Kept(L, t, keep, L2)
    PROVE  Places(z, base, B, F, L2)
<1>k. /\ L2 \subseteq L \cup {t} /\ \A x : x # t => (x \in L2 <=> x \in L)
      /\ t \notin L => (t \in L2 <=> keep >= MINSIZE)
  BY KeptIs
<1>c. PICK C : C = ChunksOf(m)
  OBVIOUS
<1>1. /\ z[base].size = size /\ z[f0].size = 1 /\ z[f1].size = 1
      /\ keep = 0 => f0 = t
      /\ keep # 0 => f0 \notin DOMAIN m /\ z[t].size = keep
      /\ \A x \in DOMAIN m \ {t} : z[x].size = m[x].size
  BY DEF NewSizes
<1>2. ChunksOf(z) = C \cup {base, f0, f1} /\ C \subseteq DOMAIN m /\ t \in C
      /\ base \notin C /\ f1 \notin C /\ (f0 \in C => f0 = t /\ keep = 0)
  <2>1. base # InitialTop /\ f0 # InitialTop /\ f1 # InitialTop
    BY Distinct DEF NewSizes
  <2>2. DOMAIN z = DOMAIN m \cup {base, f0, f1}
    BY DEF NewSizes
  <2>3. ChunksOf(z) = C \cup {base, f0, f1}
    BY <2>1, <2>2, <1>c DEF ChunksOf
  <2>4. C \subseteq DOMAIN m /\ t \in C
    BY <1>c DEF ChunksOf
  <2>5. base \notin C /\ f1 \notin C
    BY <2>4 DEF NewSizes
  <2>6. f0 \in C => f0 = t /\ keep = 0
    BY <2>4 DEF NewSizes
  <2> QED BY <2>3, <2>4, <2>5, <2>6
<1>3. /\ B \cap F = {} /\ (B \cup F) \cap L = {} /\ t \notin B \cup F \cup L
      /\ B \cup F \cup L \subseteq C
      /\ \A x \in C \ {t} :
            IF x \in B \cup F \cup L THEN m[x].size >= MINSIZE ELSE m[x].size = 1
  BY <1>c DEF Places
<1>4. /\ (B \cup F) \cap L2 = {} /\ base \notin B \cup F \cup L2
      /\ B \cup F \cup L2 \subseteq C
  BY <1>k, <1>2, <1>3
<1>5. ASSUME NEW x \in (C \cup {base, f0, f1}) \ {base}
      PROVE  IF x \in B \cup F \cup L2 THEN z[x].size >= MINSIZE ELSE z[x].size = 1
  <2>1. CASE x = f1
    <3>1. x \notin B \cup F \cup L2
      BY <2>1, <1>2, <1>4
    <3> QED BY <2>1, <3>1, <1>1
  <2>2. CASE x = f0
    <3>1. x \notin B \cup F \cup L
      BY <2>2, <1>2, <1>3
    <3>2. x = t => keep = 0
      BY <2>2, <1>2
    <3>3. x # t => x \notin L2
      BY <3>1, <1>k
    <3>4. x = t => x \notin L2
      BY <3>1, <3>2, <1>k, Distinct
    <3> QED BY <2>2, <3>1, <3>3, <3>4, <1>1
  <2>3. CASE x = t /\ keep # 0
    <3>1. z[x].size = keep /\ x \notin B \cup F \cup L
      BY <2>3, <1>1, <1>3
    <3>2. x \in L2 <=> keep >= MINSIZE
      BY <3>1, <2>3, <1>k
    <3>3. ~(keep >= MINSIZE) => keep = 1
      BY <2>3, Distinct
    <3> QED BY <3>1, <3>2, <3>3
  <2>4. CASE x # f0 /\ x # f1 /\ x # t
    <3>1. x \in C \ {t} /\ z[x].size = m[x].size /\ (x \in L2 <=> x \in L)
      BY <2>4, <1>1, <1>2, <1>k
    <3> QED BY <3>1, <1>3
  <2>5. x = t /\ keep = 0 => x = f0
    BY <1>1
  <2> QED BY <2>1, <2>2, <2>3, <2>4, <2>5
<1>6. base # InitialTop => z[base].size >= MINSIZE
  BY <1>1
<1> QED BY <1>2, <1>3, <1>4, <1>5, <1>6 DEF Places

\* The memory of the new region is free.
Outside(own, base, size) == \A x \in own : x < base \/ x >= base + size

LEMMA OutsideGeo ==
    ASSUME NEW m, NEW t, NEW sm, NEW own, Geo(m, t, sm, own),
           NEW base \in Nat, NEW size \in Nat, size >= 1, Outside(own, base, size)
    PROVE  /\ base \notin own /\ base \notin DOMAIN m
           /\ \A p \in ChunksOf(m) : p + m[p].size <= base \/ base + size <= p
<1>1. base \notin own
  BY DEF Outside
<1>2. base \notin DOMAIN m
  BY <1>1, NotOwned
<1>3. base + size \in Nat /\ base < base + size
  OBVIOUS
<1>4. \A x \in own : x < base \/ x >= base + size
  BY DEF Outside
<1>5. \A p \in ChunksOf(m) : p + m[p].size <= base \/ base + size <= p
  BY <1>3, <1>4, BesideOwned
<1> QED BY <1>1, <1>2, <1>5

\* sysmalloc: a new top chunk, and two fenceposts at the end of the old one.
FenceAddresses(m, t, keep, f0, f1) ==
    m[t].size = keep + 2 /\ f0 = t + keep /\ f1 = f0 + 1

LEMMA NewTopHeap ==
    ASSUME NEW m, NEW t, NEW sm, NEW own, NEW B, NEW F, NEW L, Heap(m, t, sm, own, B, F, L),
           t # InitialTop, NEW keep \in Nat, NEW f0, NEW f1, FenceAddresses(m, t, keep, f0, f1),
           NEW base \in Nat, NEW size \in Nat, size >= MINSIZE, Outside(own, base, size),
           NEW L2, Kept(L, t, keep, L2),
           NEW z, z = Replaced(m, t, keep, f0, f1, base, size)
    PROVE  /\ Heap(z, base, sm \cup {f1}, own \cup (base .. base + size - 1), B, F, L2)
           /\ NewSizes(m, t, keep, f0, f1, base, size, z)
<1>0. /\ HeapBut(m, t, sm, own, B, F, L, {}) /\ Tagged(m, t, sm, own, B, {})
      /\ Places(m, t, B, F, L) /\ Geo(m, t, sm, own)
  BY DEF Heap, HeapBut, Tagged
<1>1. t \in DOMAIN m /\ t \in ChunksOf(m) /\ t \in Nat
  BY <1>0 DEF Geo, Shape, ChunksOf
<1>2. m[t].md_prev \notin B
  BY <1>0, TopTag
<1>k. PICK k : k = Fences(m, t, keep)
  OBVIOUS
<1>3. /\ Tagged(k, f1, sm, own, B, {}) /\ FencesAre(m, t, keep, f0, f1, NULL, k)
      /\ DOMAIN k = DOMAIN m \cup {f0, f1} /\ k \in [DOMAIN k -> Chunk]
  <2>1. m[t].size = keep + 2 /\ f0 = t + keep /\ f1 = f0 + 1
    BY DEF FenceAddresses
  <2> QED BY <2>1, <1>2, <1>k, FencesHeap
<1>4. /\ f0 \in Nat /\ f1 \in Nat /\ f1 \notin DOMAIN m /\ f0 # f1
      /\ keep = 0 => f0 = t
      /\ keep # 0 => f0 \notin DOMAIN m
  BY <1>3 DEF FencesAre
<1>5. base \notin own /\ base \notin DOMAIN m
  <2>1. size >= 1
    BY Distinct
  <2> QED BY <2>1, <1>0, OutsideGeo
<1>6. base # f0 /\ base # f1
  <2>1. m[t].size = keep + 2 /\ f0 = t + keep /\ f1 = f0 + 1
    BY DEF FenceAddresses
  <2>2. \A x \in Nat : t <= x /\ x < t + m[t].size => x \in own
    BY <1>0, <1>1 DEF Geo, Covers
  <2>3. t <= f0 /\ f0 < t + m[t].size /\ t <= f1 /\ f1 < t + m[t].size
    BY <1>1, <2>1
  <2>4. f0 \in own /\ f1 \in own
    BY <2>2, <2>3, <1>4
  <2> QED BY <2>4, <1>5
<1>7. ReplacedIs(m, t, keep, f0, f1, base, size, z)
  BY <1>0, <1>4, <1>5, <1>6, ReplacedRecords
<1>8. ToppedAt(k, f1, base, size, z)
  BY <1>3, <1>7, FencesTopped
<1>9. base \notin DOMAIN k /\ f1 # InitialTop
  BY <1>3, <1>4, <1>5, <1>6, Distinct
<1>10. Geo(z, base, sm \cup {f1}, own \cup (base .. base + size - 1))
  <2>1. Geo(k, f1, sm, own)
    BY <1>3 DEF Tagged
  <2>2. k[f1].size = 1
    BY <1>3 DEF FencesAre, IsFence
  <2>3. size >= 1
    BY Distinct
  <2>4. \A p \in ChunksOf(k) : p + k[p].size <= base \/ base + size <= p
    BY <2>1, <2>3, OutsideGeo
  <2>5. Geo(z, base, IF f1 = InitialTop THEN sm ELSE sm \cup {f1},
            own \cup (base .. base + size - 1))
    BY <2>1, <2>2, <2>3, <2>4, <1>8, <1>9, GeoNewTop DEF ToppedAt
  <2> QED BY <2>5, <1>9
<1>11. Tagged(z, base, sm \cup {f1}, own \cup (base .. base + size - 1), B, {})
  <2>1. /\ Topped(k, f1, base, size, z) /\ z[base].prev_inuse
        /\ \A x \in DOMAIN k : SameTags(z[x], k[x])
    BY <1>8 DEF ToppedAt
  <2> QED BY <2>1, <1>3, <1>9, <1>10, TagsNewTop
<1>12. NewSizes(m, t, keep, f0, f1, base, size, z)
  BY <1>4, <1>5, <1>6, <1>7 DEF NewSizes, ReplacedIs, FencesAre, IsFence, NewBase, SameGeo
<1>13. Places(z, base, B, F, L2)
  BY <1>0, <1>1, <1>12, NewTopPlaces
<1> QED BY <1>11, <1>12, <1>13 DEF Heap, HeapBut

(***************************************************************************)
(* Lists of chunks                                                         *)
(***************************************************************************)
\* disjoint lists without repetitions
Lists(b, I) ==
    /\ b \in [I -> Seq(Int)]
    /\ \A i, j \in I : \A k \in DOMAIN b[i], l \in DOMAIN b[j] :
          b[i][k] = b[j][l] => i = j /\ k = l

Members(b, I) == UNION {ToSet(b[i]) : i \in I}

\* the list without its element k
Removed(s, k, r) ==
    /\ r \in Seq(Int) /\ Len(r) = Len(s) - 1
    /\ \A j \in DOMAIN r : r[j] = s[IF j < k THEN j ELSE j + 1]

\* the list with v as its element k
Inserted(s, k, v, r) ==
    /\ r \in Seq(Int) /\ Len(r) = Len(s) + 1 /\ k \in 1 .. Len(s) + 1
    /\ \A j \in DOMAIN r : r[j] = IF j = k THEN v ELSE s[IF j < k THEN j ELSE j - 1]

Dropped(b, I, i, k, c) ==
    /\ i \in I /\ k \in DOMAIN b[i] /\ c \in [I -> Seq(Int)]
    /\ Removed(b[i], k, c[i]) /\ \A j \in I \ {i} : c[j] = b[j]

Added(b, I, i, k, v, c) ==
    /\ i \in I /\ c \in [I -> Seq(Int)]
    /\ Inserted(b[i], k, v, c[i]) /\ \A j \in I \ {i} : c[j] = b[j]

LEMMA IsMember ==
    ASSUME NEW b, NEW I, NEW v
    PROVE  v \in Members(b, I) <=> \E i \in I : \E k \in DOMAIN b[i] : b[i][k] = v
BY DEF Members, ToSet

Slice(s, i, j, r) ==
    r \in Seq(Int) /\ Len(r) = j - i + 1 /\ \A x \in 1 .. j - i + 1 : r[x] = s[i + x - 1]

LEMMA SliceIs ==
    ASSUME NEW s \in Seq(Int), NEW i \in Int, NEW j \in Int, 1 <= i, j <= Len(s), i <= j + 1,
           NEW r, r = SubSeq(s, i, j)
    PROVE  Slice(s, i, j, r)
<1>1. \A x \in i .. j : s[x] \in Int
  <2> SUFFICES ASSUME NEW x \in i .. j PROVE s[x] \in Int
    OBVIOUS
  <2>1. x \in 1 .. Len(s)
    OBVIOUS
  <2> QED BY <2>1, ElementOfSeq
<1>2. /\ r \in Seq(Int) /\ Len(r) = IF i <= j THEN j - i + 1 ELSE 0
      /\ \A x \in 1 .. j - i + 1 : r[x] = s[i + x - 1]
  BY <1>1, SubSeqProperties
<1>l. PICK n : n = Len(r)
  OBVIOUS
<1>3. n = IF i <= j THEN j - i + 1 ELSE 0
  BY <1>2, <1>l
<1>4. n = j - i + 1
  BY <1>3
<1> QED BY <1>2, <1>4, <1>l DEF Slice

Joined(a, b, r) ==
    /\ r \in Seq(Int) /\ Len(r) = Len(a) + Len(b)
    /\ \A x \in 1 .. Len(a) : r[x] = a[x]
    /\ \A x \in 1 .. Len(b) : r[Len(a) + x] = b[x]

LEMMA JoinedIs ==
    ASSUME NEW a \in Seq(Int), NEW b \in Seq(Int), NEW r, r = a \o b
    PROVE  Joined(a, b, r)
<1>0. Len(a) \in Nat /\ Len(b) \in Nat
  OBVIOUS
<1>1. /\ r \in Seq(Int) /\ Len(r) = Len(a) + Len(b)
      /\ \A i \in 1 .. Len(a) + Len(b) : r[i] = IF i <= Len(a) THEN a[i] ELSE b[i - Len(a)]
  BY ConcatProperties
<1>2. ASSUME NEW x \in 1 .. Len(b) PROVE r[Len(a) + x] = b[x]
  <2>1. Len(a) + x \in 1 .. Len(a) + Len(b) /\ ~(Len(a) + x <= Len(a)) /\ Len(a) + x - Len(a) = x
    BY <1>0
  <2> QED BY <2>1, <1>1
<1>3. ASSUME NEW x \in 1 .. Len(a) PROVE r[x] = a[x]
  <2>1. x \in 1 .. Len(a) + Len(b) /\ x <= Len(a)
    BY <1>0
  <2> QED BY <2>1, <1>1
<1> QED BY <1>1, <1>2, <1>3 DEF Joined

LEMMA Shifted ==
    ASSUME NEW n \in Nat, NEW k \in Nat, NEW j \in Nat, k <= j, j <= n - 1
    PROVE  j + 1 - k \in 1 .. n - k /\ (k - 1) + (j + 1 - k) = j /\ k + (j + 1 - k) = j + 1
OBVIOUS

LEMMA RemoveAtIs ==
    ASSUME NEW s \in Seq(Int), NEW k \in DOMAIN s
    PROVE  Removed(s, k, RemoveAt(s, k))
<1>a. PICK a : a = SubSeq(s, 1, k - 1)
  OBVIOUS
<1>b. PICK b : b = SubSeq(s, k + 1, Len(s))
  OBVIOUS
<1>r. PICK r : r = a \o b
  OBVIOUS
<1>1. Len(s) \in Nat /\ k \in Nat /\ k >= 1 /\ k <= Len(s)
  OBVIOUS
<1>2. a \in Seq(Int) /\ Len(a) = k - 1 /\ \A j \in 1 .. k - 1 : a[j] = s[j]
  <2>1. k - 1 \in Int /\ k - 1 <= Len(s) /\ 1 <= (k - 1) + 1
    BY <1>1
  <2>e. PICK e : e = k - 1
    OBVIOUS
  <2>t. e \in Int /\ e <= Len(s) /\ 1 <= e + 1 /\ a = SubSeq(s, 1, e) /\ 1 \in Int /\ 1 <= 1
    BY <2>1, <2>e, <1>a
  <2>u. Slice(s, 1, e, a)
    BY <2>t, SliceIs
  <2>s. Slice(s, 1, k - 1, a)
    BY <2>u, <2>e
  <2>2. a \in Seq(Int) /\ Len(a) = (k - 1) - 1 + 1
        /\ \A x \in 1 .. (k - 1) - 1 + 1 : a[x] = s[1 + x - 1]
    BY <2>s DEF Slice
  <2>3. (k - 1) - 1 + 1 = k - 1 /\ \A x \in 1 .. k - 1 : 1 + x - 1 = x
    BY <1>1
  <2> QED BY <2>2, <2>3
<1>3. b \in Seq(Int) /\ Len(b) = Len(s) - k /\ \A j \in 1 .. Len(s) - k : b[j] = s[k + j]
  <2>1. k + 1 \in Int /\ Len(s) \in Int /\ 1 <= k + 1 /\ k + 1 <= Len(s) + 1
        /\ Len(s) <= Len(s)
    BY <1>1
  <2>s. Slice(s, k + 1, Len(s), b)
    BY <1>b, <2>1, SliceIs
  <2>2. b \in Seq(Int) /\ Len(b) = Len(s) - (k + 1) + 1
        /\ \A x \in 1 .. Len(s) - (k + 1) + 1 : b[x] = s[(k + 1) + x - 1]
    BY <2>s DEF Slice
  <2>3. Len(s) - (k + 1) + 1 = Len(s) - k /\ \A x \in Int : (k + 1) + x - 1 = k + x
    BY <1>1
  <2>4. ASSUME NEW j \in 1 .. Len(s) - k PROVE b[j] = s[k + j]
    <3>1. b[j] = s[(k + 1) + j - 1]
      BY <2>2, <2>3
    <3>2. (k + 1) + j - 1 = k + j
      BY <2>3
    <3> QED BY <3>1, <3>2
  <2> QED BY <2>2, <2>3, <2>4
<1>4. /\ r \in Seq(Int) /\ Len(r) = Len(a) + Len(b)
      /\ \A x \in 1 .. Len(a) : r[x] = a[x]
      /\ \A x \in 1 .. Len(b) : r[Len(a) + x] = b[x]
  <2>1. a \in Seq(Int) /\ b \in Seq(Int)
    BY <1>2, <1>3
  <2>2. Joined(a, b, r)
    BY <1>r, <2>1, JoinedIs
  <2> QED BY <2>2 DEF Joined
<1>l. Len(r) = Len(s) - 1
  BY <1>4, <1>1, <1>2, <1>3
<1>5. ASSUME NEW j \in DOMAIN r PROVE r[j] = s[IF j < k THEN j ELSE j + 1]
  <2>1. j \in 1 .. Len(s) - 1 /\ j \in Int
    BY <1>4, <1>l, <1>1
  <2>2. CASE j < k
    <3>0. j \in 1 .. k - 1
      BY <2>1, <2>2, <1>1
    <3>1. r[j] = a[j] /\ a[j] = s[j]
      BY <3>0, <1>4, <1>2
    <3> QED BY <3>1, <2>2
  <2>3. CASE ~(j < k)
    <3>x. PICK x : x = j + 1 - k
      OBVIOUS
    <3>n. PICK n : n = Len(s)
      OBVIOUS
    <3>0. n \in Nat /\ k \in Nat /\ j \in Nat /\ j <= n - 1 /\ k <= j
      BY <3>n, <1>1, <2>1, <2>3
    <3>1. x \in 1 .. Len(s) - k /\ (k - 1) + x = j /\ k + x = j + 1
      <4>1. x \in 1 .. n - k /\ (k - 1) + x = j /\ k + x = j + 1
        BY <3>x, <3>0, Shifted
      <4> QED BY <4>1, <3>n
    <3>2. b[x] = s[k + x]
      BY <3>1, <1>3
    <3>3. x \in 1 .. Len(b) /\ Len(a) = k - 1
      BY <3>1, <1>2, <1>3
    <3>4. r[(k - 1) + x] = b[x]
      BY <3>3, <1>4
    <3> QED BY <3>1, <3>2, <3>4, <2>3
  <2> QED BY <2>2, <2>3
<1>6. Removed(s, k, r)
  BY <1>4, <1>l, <1>5 DEF Removed
<1> QED BY <1>a, <1>b, <1>r, <1>6 DEF RemoveAt

LEMMA InsertAtIs ==
    ASSUME NEW s \in Seq(Int), NEW k \in 1 .. Len(s) + 1, NEW v \in Int
    PROVE  Inserted(s, k, v, InsertAt(s, k, v))
<1>a. PICK a : a = SubSeq(s, 1, k - 1)
  OBVIOUS
<1>b. PICK b : b = SubSeq(s, k, Len(s))
  OBVIOUS
<1>c. PICK c : c = a \o <<v>>
  OBVIOUS
<1>r. PICK r : r = c \o b
  OBVIOUS
<1>1. Len(s) \in Nat /\ k \in Nat /\ k >= 1 /\ k <= Len(s) + 1
  OBVIOUS
<1>2. a \in Seq(Int) /\ Len(a) = k - 1 /\ \A j \in 1 .. k - 1 : a[j] = s[j]
  <2>1. k - 1 \in Int /\ k - 1 <= Len(s) /\ 1 <= (k - 1) + 1
    BY <1>1
  <2>e. PICK e : e = k - 1
    OBVIOUS
  <2>t. e \in Int /\ e <= Len(s) /\ 1 <= e + 1 /\ a = SubSeq(s, 1, e) /\ 1 \in Int /\ 1 <= 1
    BY <2>1, <2>e, <1>a
  <2>u. Slice(s, 1, e, a)
    BY <2>t, SliceIs
  <2>s. Slice(s, 1, k - 1, a)
    BY <2>u, <2>e
  <2>2. a \in Seq(Int) /\ Len(a) = (k - 1) - 1 + 1
        /\ \A x \in 1 .. (k - 1) - 1 + 1 : a[x] = s[1 + x - 1]
    BY <2>s DEF Slice
  <2>3. (k - 1) - 1 + 1 = k - 1 /\ \A x \in 1 .. k - 1 : 1 + x - 1 = x
    BY <1>1
  <2> QED BY <2>2, <2>3
<1>3. b \in Seq(Int) /\ Len(b) = Len(s) - k + 1
      /\ \A j \in 1 .. Len(s) - k + 1 : b[j] = s[k + j - 1]
  <2>1. k \in Int /\ Len(s) \in Int /\ 1 <= k /\ k <= Len(s) + 1 /\ Len(s) <= Len(s)
    BY <1>1
  <2>2. Slice(s, k, Len(s), b)
    BY <1>b, <2>1, SliceIs
  <2> QED BY <2>2 DEF Slice
<1>w. PICK w : w = <<v>>
  OBVIOUS
<1>u. w \in Seq(Int) /\ Len(w) = 1 /\ w[1] = v
  BY <1>w
<1>4. c \in Seq(Int) /\ Len(c) = k /\ c[k] = v /\ \A j \in 1 .. k - 1 : c[j] = s[j]
  <2>1. /\ c \in Seq(Int) /\ Len(c) = Len(a) + Len(w)
        /\ \A x \in 1 .. Len(a) : c[x] = a[x]
        /\ \A x \in 1 .. Len(w) : c[Len(a) + x] = w[x]
    <3>1. a \in Seq(Int) /\ w \in Seq(Int) /\ c = a \o w
      BY <1>c, <1>w, <1>u, <1>2
    <3>2. Joined(a, w, c)
      BY <3>1, JoinedIs
    <3> QED BY <3>2 DEF Joined
  <2>2. Len(c) = k /\ Len(a) + 1 = k /\ 1 \in 1 .. Len(w)
    BY <2>1, <1>1, <1>2, <1>u
  <2> QED BY <2>1, <2>2, <1>2, <1>u
<1>5. /\ r \in Seq(Int) /\ Len(r) = Len(c) + Len(b)
      /\ \A x \in 1 .. Len(c) : r[x] = c[x]
      /\ \A x \in 1 .. Len(b) : r[Len(c) + x] = b[x]
  <2>1. c \in Seq(Int) /\ b \in Seq(Int)
    BY <1>3, <1>4
  <2>2. Joined(c, b, r)
    BY <1>r, <2>1, JoinedIs
  <2> QED BY <2>2 DEF Joined
<1>l. Len(r) = Len(s) + 1
  BY <1>1, <1>3, <1>4, <1>5
<1>6. ASSUME NEW j \in DOMAIN r
      PROVE  r[j] = IF j = k THEN v ELSE s[IF j < k THEN j ELSE j - 1]
  <2>1. j \in 1 .. Len(s) + 1 /\ j \in Int
    BY <1>5, <1>l, <1>1
  <2>2. CASE j = k
    <3>1. k \in 1 .. Len(c) /\ Len(c) = k
      BY <1>1, <1>4
    <3> QED BY <3>1, <2>2, <1>4, <1>5
  <2>3. CASE j < k
    <3>0. j \in 1 .. k - 1 /\ j \in 1 .. Len(c) /\ j # k
      BY <2>1, <2>3, <1>1, <1>4
    <3>1. r[j] = c[j] /\ c[j] = s[j]
      BY <3>0, <1>4, <1>5
    <3> QED BY <3>0, <3>1, <2>3
  <2>4. CASE ~(j = k) /\ ~(j < k)
    <3>x. PICK x : x = j - k
      OBVIOUS
    <3>1. x \in 1 .. Len(s) - k + 1 /\ k + x = j /\ k + x - 1 = j - 1
      BY <3>x, <1>1, <2>1, <2>4
    <3>2. r[k + x] = b[x] /\ b[x] = s[k + x - 1]
      BY <3>1, <1>3, <1>4, <1>5
    <3> QED BY <3>1, <3>2, <2>4
  <2> QED BY <2>2, <2>3, <2>4
<1>7. Inserted(s, k, v, r)
  BY <1>1, <1>5, <1>l, <1>6 DEF Inserted
<1> QED BY <1>a, <1>b, <1>c, <1>r, <1>7 DEF InsertAt

LEMMA ConsIs ==
    ASSUME NEW s \in Seq(Int), NEW v \in Int
    PROVE  Inserted(s, 1, v, Cons(v, s))
BY DEF Inserted, Cons

LEMMA FrontIs ==
    ASSUME NEW s \in Seq(Int), s # <<>>
    PROVE  Removed(s, Len(s), Front(s)) /\ Len(s) \in DOMAIN s
<1>1. Len(s) \in Nat /\ Len(s) >= 1
  OBVIOUS
<1>r. PICK r : r = SubSeq(s, 1, Len(s) - 1)
  OBVIOUS
<1>2. r \in Seq(Int) /\ Len(r) = Len(s) - 1 /\ \A j \in 1 .. Len(s) - 1 : r[j] = s[j]
  <2>1. Len(s) - 1 \in Int /\ Len(s) - 1 <= Len(s) /\ 1 <= (Len(s) - 1) + 1
    BY <1>1
  <2>e. PICK e : e = Len(s) - 1
    OBVIOUS
  <2>t. e \in Int /\ e <= Len(s) /\ 1 <= e + 1 /\ r = SubSeq(s, 1, e) /\ 1 \in Int /\ 1 <= 1
    BY <2>1, <2>e, <1>r
  <2>u. Slice(s, 1, e, r)
    BY <2>t, SliceIs
  <2>s. Slice(s, 1, Len(s) - 1, r)
    BY <2>u, <2>e
  <2>2. r \in Seq(Int) /\ Len(r) = (Len(s) - 1) - 1 + 1
        /\ \A x \in 1 .. (Len(s) - 1) - 1 + 1 : r[x] = s[1 + x - 1]
    BY <2>s DEF Slice
  <2>3. (Len(s) - 1) - 1 + 1 = Len(s) - 1 /\ \A x \in 1 .. Len(s) - 1 : 1 + x - 1 = x
    BY <1>1
  <2> QED BY <2>2, <2>3
<1>3. ASSUME NEW j \in DOMAIN r PROVE r[j] = s[IF j < Len(s) THEN j ELSE j + 1]
  <2>1. DOMAIN r = 1 .. Len(s) - 1
    BY <1>1, <1>2
  <2>2. j \in 1 .. Len(s) - 1 /\ j < Len(s)
    BY <2>1, <1>1
  <2> QED BY <2>2, <1>2
<1> QED BY <1>1, <1>2, <1>3, <1>r DEF Removed, Front

LEMMA TailIs ==
    ASSUME NEW s \in Seq(Int), s # <<>>
    PROVE  Removed(s, 1, Tail(s)) /\ 1 \in DOMAIN s
BY DEF Removed

LEMMA Skipping ==
    ASSUME NEW n \in Nat, NEW k \in 1 .. n
    PROVE  /\ \A j \in 1 .. n - 1 : (IF j < k THEN j ELSE j + 1) \in (1 .. n) \ {k}
           /\ \A x \in (1 .. n) \ {k} :
                 IF x < k THEN x \in 1 .. n - 1
                          ELSE x - 1 \in 1 .. n - 1 /\ ~(x - 1 < k) /\ x = (x - 1) + 1
OBVIOUS

\* Every element of a list with one removed was an element of the list.
Matches(s, k, r) ==
    /\ \A j \in DOMAIN r : LET x == IF j < k THEN j ELSE j + 1
                           IN  x \in DOMAIN s /\ x # k /\ r[j] = s[x]
    /\ \A x \in DOMAIN s \ {k} : \E j \in DOMAIN r : x = IF j < k THEN j ELSE j + 1

LEMMA RemovedFrom ==
    ASSUME NEW s \in Seq(Int), NEW k \in DOMAIN s, NEW r, Removed(s, k, r)
    PROVE  Matches(s, k, r)
<1>1. r \in Seq(Int) /\ Len(r) = Len(s) - 1 /\ Len(s) \in Nat
  BY DEF Removed
<1>2. DOMAIN r = 1 .. Len(s) - 1 /\ DOMAIN s = 1 .. Len(s)
  BY <1>1
<1>3. ASSUME NEW j \in DOMAIN r, NEW x, x = IF j < k THEN j ELSE j + 1
      PROVE  x \in DOMAIN s /\ x # k /\ r[j] = s[x]
  <2>1. r[j] = s[x]
    BY <1>3 DEF Removed
  <2>2. x \in DOMAIN s /\ x # k
    BY <1>1, <1>2, <1>3, Skipping
  <2> QED BY <2>1, <2>2
<1>4. ASSUME NEW x \in DOMAIN s \ {k}
      PROVE  \E j \in DOMAIN r : x = IF j < k THEN j ELSE j + 1
  <2>1. CASE x < k
    <3>1. x \in DOMAIN r
      BY <1>1, <1>2, <2>1, Skipping
    <3> QED BY <3>1, <2>1
  <2>2. CASE ~(x < k)
    <3>j. PICK j : j = x - 1
      OBVIOUS
    <3>0. Len(s) \in Nat /\ k \in 1 .. Len(s) /\ x \in (1 .. Len(s)) \ {k}
      BY <1>1, <1>2
    <3>1. x - 1 \in 1 .. Len(s) - 1 /\ ~(x - 1 < k) /\ x = (x - 1) + 1
      BY <3>0, <2>2, Skipping
    <3>2. j \in DOMAIN r /\ ~(j < k) /\ x = j + 1
      BY <3>1, <3>j, <1>2
    <3> QED BY <3>2
  <2> QED BY <2>1, <2>2
<1> QED BY <1>3, <1>4 DEF Matches

\* A chunk is taken off its list.
LEMMA DropLists ==
    ASSUME NEW b, NEW I, Lists(b, I), NEW i, NEW k, NEW c, Dropped(b, I, i, k, c)
    PROVE  Lists(c, I) /\ Members(c, I) = Members(b, I) \ {b[i][k]}
<1>1. /\ i \in I /\ k \in DOMAIN b[i] /\ c \in [I -> Seq(Int)] /\ b[i] \in Seq(Int)
      /\ Removed(b[i], k, c[i]) /\ \A j \in I \ {i} : c[j] = b[j]
  BY DEF Dropped, Lists
<1>2. \A f, g \in I : \A x \in DOMAIN b[f], y \in DOMAIN b[g] :
          b[f][x] = b[g][y] => f = g /\ x = y
  BY DEF Lists
<1>m. Matches(b[i], k, c[i])
  BY <1>1, RemovedFrom
<1> DEFINE At2(f, x) == IF f = i /\ ~(x < k) THEN x + 1 ELSE x
<1>3. ASSUME NEW f \in I, NEW x \in DOMAIN c[f]
      PROVE  At2(f, x) \in DOMAIN b[f] /\ c[f][x] = b[f][At2(f, x)]
             /\ (f = i => At2(f, x) # k)
  <2>1. CASE f = i
    <3>0. \A j \in DOMAIN c[i] : LET y == IF j < k THEN j ELSE j + 1
                                 IN  y \in DOMAIN b[i] /\ y # k /\ c[i][j] = b[i][y]
      BY <1>m DEF Matches
    <3>1. LET y == IF x < k THEN x ELSE x + 1 IN y \in DOMAIN b[i] /\ y # k /\ c[i][x] = b[i][y]
      BY <2>1, <3>0
    <3> QED BY <3>1, <2>1
  <2>2. CASE f # i
    BY <2>2, <1>1
  <2> QED BY <2>1, <2>2
<1>4. ASSUME NEW f \in I, NEW x \in DOMAIN c[f], NEW y \in DOMAIN c[f], At2(f, x) = At2(f, y)
      PROVE  x = y
  <2>1. x \in Nat /\ y \in Nat
    <3>1. c[f] \in Seq(Int)
      BY <1>1
    <3> QED BY <3>1
  <2>2. k \in Nat
    BY <1>1
  <2> QED BY <2>1, <2>2, <1>4
<1>5. ASSUME NEW f \in I, NEW g \in I, NEW x \in DOMAIN c[f], NEW y \in DOMAIN c[g],
             c[f][x] = c[g][y]
      PROVE  f = g /\ x = y
  <2> HIDE DEF At2
  <2>1. b[f][At2(f, x)] = b[g][At2(g, y)]
    BY <1>3, <1>5
  <2>2. f = g /\ At2(f, x) = At2(g, y)
    BY <2>1, <1>2, <1>3
  <2> QED BY <2>2, <1>4
<1>6. Lists(c, I)
  BY <1>1, <1>5 DEF Lists
<1>7. ASSUME NEW v PROVE v \in Members(c, I) <=> v \in Members(b, I) /\ v # b[i][k]
  <2>1. ASSUME v \in Members(c, I) PROVE v \in Members(b, I) /\ v # b[i][k]
    <3>1. PICK f \in I : \E x \in DOMAIN c[f] : c[f][x] = v
      BY <2>1, IsMember
    <3>x. PICK x \in DOMAIN c[f] : c[f][x] = v
      BY <3>1
    <3> HIDE DEF At2
    <3>2. At2(f, x) \in DOMAIN b[f] /\ b[f][At2(f, x)] = v /\ (f = i => At2(f, x) # k)
      BY <3>x, <1>3
    <3>3. v \in Members(b, I)
      BY <3>2, IsMember
    <3>4. v # b[i][k]
      BY <3>2, <1>1, <1>2
    <3> QED BY <3>3, <3>4
  <2>2. ASSUME v \in Members(b, I), v # b[i][k] PROVE v \in Members(c, I)
    <3>1. PICK f \in I : \E x \in DOMAIN b[f] : b[f][x] = v
      BY <2>2, IsMember
    <3>x. PICK x \in DOMAIN b[f] : b[f][x] = v
      BY <3>1
    <3>2. CASE f = i
      <4>1. x \in DOMAIN b[i] \ {k}
        BY <3>x, <3>2, <2>2
      <4>0. \A y \in DOMAIN b[i] \ {k} : \E j \in DOMAIN c[i] : y = IF j < k THEN j ELSE j + 1
        BY <1>m DEF Matches
      <4>2. PICK j \in DOMAIN c[i] : x = IF j < k THEN j ELSE j + 1
        BY <4>0, <4>1
      <4>3. c[i][j] = b[i][x]
        BY <4>2, <1>3, <1>1
      <4> QED BY <4>3, <3>x, <3>2, <1>1, IsMember
    <3>3. CASE f # i
      <4>1. x \in DOMAIN c[f] /\ c[f][x] = v
        BY <3>x, <3>3, <1>1
      <4> QED BY <4>1, IsMember
    <3> QED BY <3>2, <3>3
  <2> QED BY <2>1, <2>2
<1> QED BY <1>6, <1>7

LEMMA Spreading ==
    ASSUME NEW n \in Nat, NEW k \in 1 .. n + 1
    PROVE  /\ \A j \in (1 .. n + 1) \ {k} : (IF j < k THEN j ELSE j - 1) \in 1 .. n
           /\ \A x \in 1 .. n :
                 IF x < k THEN x \in (1 .. n + 1) \ {k}
                 ELSE x + 1 \in (1 .. n + 1) \ {k} /\ ~(x + 1 < k) /\ x = (x + 1) - 1
OBVIOUS

\* Every element of a list with one inserted but that one was an element of the list.
Spreads(s, k, v, r) ==
    /\ k \in DOMAIN r /\ r[k] = v
    /\ \A j \in DOMAIN r \ {k} : LET x == IF j < k THEN j ELSE j - 1
                                 IN  x \in DOMAIN s /\ r[j] = s[x]
    /\ \A x \in DOMAIN s : \E j \in DOMAIN r \ {k} : x = IF j < k THEN j ELSE j - 1

LEMMA InsertedFrom ==
    ASSUME NEW s \in Seq(Int), NEW k, NEW v, NEW r, Inserted(s, k, v, r)
    PROVE  Spreads(s, k, v, r)
<1>1. r \in Seq(Int) /\ Len(r) = Len(s) + 1 /\ Len(s) \in Nat /\ k \in 1 .. Len(s) + 1
  BY DEF Inserted
<1>2. DOMAIN r = 1 .. Len(s) + 1 /\ DOMAIN s = 1 .. Len(s)
  BY <1>1
<1>3. ASSUME NEW j \in DOMAIN r \ {k}, NEW x, x = IF j < k THEN j ELSE j - 1
      PROVE  x \in DOMAIN s /\ r[j] = s[x]
  <2>1. r[j] = s[x]
    BY <1>3 DEF Inserted
  <2>2. x \in DOMAIN s
    BY <1>1, <1>2, <1>3, Spreading
  <2> QED BY <2>1, <2>2
<1>4. ASSUME NEW x \in DOMAIN s
      PROVE  \E j \in DOMAIN r \ {k} : x = IF j < k THEN j ELSE j - 1
  <2>1. CASE x < k
    <3>1. x \in DOMAIN r \ {k}
      BY <1>1, <1>2, <2>1, Spreading
    <3> QED BY <3>1, <2>1
  <2>2. CASE ~(x < k)
    <3>j. PICK j : j = x + 1
      OBVIOUS
    <3>1. x + 1 \in (1 .. Len(s) + 1) \ {k} /\ ~(x + 1 < k) /\ x = (x + 1) - 1
      BY <1>1, <1>2, <2>2, Spreading
    <3>2. j \in DOMAIN r \ {k} /\ ~(j < k) /\ x = j - 1
      BY <3>1, <3>j, <1>2
    <3> QED BY <3>2
  <2> QED BY <2>1, <2>2
<1>5. k \in DOMAIN r /\ r[k] = v
  BY <1>1, <1>2 DEF Inserted
<1> QED BY <1>3, <1>4, <1>5 DEF Spreads

\* A chunk is put on a list.
LEMMA AddLists ==
    ASSUME NEW b, NEW I, Lists(b, I), NEW i, NEW k, NEW v, v \notin Members(b, I),
           NEW c, Added(b, I, i, k, v, c)
    PROVE  Lists(c, I) /\ Members(c, I) = Members(b, I) \cup {v}
<1>1. /\ i \in I /\ c \in [I -> Seq(Int)] /\ b[i] \in Seq(Int)
      /\ Inserted(b[i], k, v, c[i]) /\ \A j \in I \ {i} : c[j] = b[j]
  BY DEF Added, Lists
<1>2. \A f, g \in I : \A x \in DOMAIN b[f], y \in DOMAIN b[g] :
          b[f][x] = b[g][y] => f = g /\ x = y
  BY DEF Lists
<1>m. Spreads(b[i], k, v, c[i])
  BY <1>1, InsertedFrom
<1>s. /\ k \in DOMAIN c[i] /\ c[i][k] = v
      /\ \A j \in DOMAIN c[i] \ {k} : LET x == IF j < k THEN j ELSE j - 1
                                      IN  x \in DOMAIN b[i] /\ c[i][j] = b[i][x]
      /\ \A x \in DOMAIN b[i] : \E j \in DOMAIN c[i] \ {k} : x = IF j < k THEN j ELSE j - 1
  BY <1>m DEF Spreads
<1> DEFINE At2(f, x) == IF f = i /\ ~(x < k) THEN x - 1 ELSE x
<1> DEFINE New(f, x) == f = i /\ x = k
<1>3. ASSUME NEW f \in I, NEW x \in DOMAIN c[f], ~New(f, x)
      PROVE  At2(f, x) \in DOMAIN b[f] /\ c[f][x] = b[f][At2(f, x)]
  <2>1. CASE f = i
    <3>1. x \in DOMAIN c[i] \ {k}
      BY <2>1, <1>3
    <3>2. LET y == IF x < k THEN x ELSE x - 1 IN y \in DOMAIN b[i] /\ c[i][x] = b[i][y]
      BY <3>1, <1>s
    <3> QED BY <3>2, <2>1
  <2>2. CASE f # i
    BY <2>2, <1>1
  <2> QED BY <2>1, <2>2
<1>4. ASSUME NEW f \in I, NEW x \in DOMAIN c[f], NEW y \in DOMAIN c[f], At2(f, x) = At2(f, y),
             ~New(f, x), ~New(f, y)
      PROVE  x = y
  <2>1. x \in Nat /\ y \in Nat
    <3>1. c[f] \in Seq(Int)
      BY <1>1
    <3> QED BY <3>1
  <2>2. k \in Nat
    BY <1>1 DEF Inserted
  <2> QED BY <2>1, <2>2, <1>4
<1>5. ASSUME NEW f \in I, NEW x \in DOMAIN c[f] PROVE c[f][x] = v <=> New(f, x)
  <2>1. CASE New(f, x)
    BY <2>1, <1>s
  <2>2. CASE ~New(f, x)
    <3> HIDE DEF At2, New
    <3>1. At2(f, x) \in DOMAIN b[f] /\ c[f][x] = b[f][At2(f, x)]
      BY <2>2, <1>3
    <3>2. c[f][x] \in Members(b, I)
      BY <3>1, IsMember
    <3> QED BY <3>2, <2>2
  <2> QED BY <2>1, <2>2
<1>6. ASSUME NEW f \in I, NEW g \in I, NEW x \in DOMAIN c[f], NEW y \in DOMAIN c[g],
             c[f][x] = c[g][y]
      PROVE  f = g /\ x = y
  <2>1. CASE New(f, x)
    <3>1. New(g, y)
      <4> HIDE DEF New
      <4> QED BY <2>1, <1>5, <1>6
    <3> QED BY <3>1, <2>1
  <2>2. CASE ~New(f, x)
    <3> HIDE DEF At2, New
    <3>1. ~New(g, y)
      BY <2>2, <1>5, <1>6
    <3>2. b[f][At2(f, x)] = b[g][At2(g, y)]
      BY <2>2, <3>1, <1>3, <1>6
    <3>3. f = g /\ At2(f, x) = At2(g, y)
      BY <2>2, <3>1, <3>2, <1>2, <1>3
    <3> QED BY <2>2, <3>1, <3>3, <1>4
  <2> QED BY <2>1, <2>2
<1>7. Lists(c, I)
  BY <1>1, <1>6 DEF Lists
<1>8. ASSUME NEW u PROVE u \in Members(c, I) <=> u \in Members(b, I) \/ u = v
  <2>1. ASSUME u \in Members(c, I), u # v PROVE u \in Members(b, I)
    <3>1. PICK f \in I : \E x \in DOMAIN c[f] : c[f][x] = u
      BY <2>1, IsMember
    <3>x. PICK x \in DOMAIN c[f] : c[f][x] = u
      BY <3>1
    <3> HIDE DEF At2, New
    <3>2. ~New(f, x)
      BY <3>x, <2>1, <1>5
    <3>3. At2(f, x) \in DOMAIN b[f] /\ b[f][At2(f, x)] = u
      BY <3>x, <3>2, <1>3
    <3> QED BY <3>3, IsMember
  <2>2. ASSUME u \in Members(b, I) PROVE u \in Members(c, I)
    <3>1. PICK f \in I : \E x \in DOMAIN b[f] : b[f][x] = u
      BY <2>2, IsMember
    <3>x. PICK x \in DOMAIN b[f] : b[f][x] = u
      BY <3>1
    <3>2. CASE f = i
      <4>1. x \in DOMAIN b[i]
        BY <3>x, <3>2
      <4>2. PICK j \in DOMAIN c[i] \ {k} : x = IF j < k THEN j ELSE j - 1
        BY <4>1, <1>s
      <4>3. c[i][j] = b[i][x]
        BY <4>2, <1>s
      <4> QED BY <4>3, <3>x, <3>2, <1>1, IsMember
    <3>3. CASE f # i
      <4>1. x \in DOMAIN c[f] /\ c[f][x] = u
        BY <3>x, <3>3, <1>1
      <4> QED BY <4>1, IsMember
    <3> QED BY <3>2, <3>3
  <2>3. v \in Members(c, I)
    BY <1>1, <1>s, IsMember
  <2> QED BY <2>1, <2>2, <2>3
<1> QED BY <1>7, <1>8

\* The only element of a list that is p is removed.
LEMMA RemoveOnly ==
    ASSUME NEW s \in Seq(Int), NEW p, NEW k \in DOMAIN s, s[k] = p,
           \A j \in DOMAIN s : s[j] = p => j = k
    PROVE  RemoveFirst(s, p) = RemoveAt(s, k)
<1>1. DOMAIN s = 1 .. Len(s) /\ k \in Int
  BY LenProperties
<1>2. {i \in 1 .. Len(s) : s[i] = p} = {k}
  BY <1>1
<1>3. Min({k}) = k
  BY <1>1 DEF Min
<1>4. SelectInSeq(s, LAMBDA v : v = p) = k
  BY <1>2, <1>3 DEF SelectInSeq
<1>5. \E i \in 1 .. Len(s) : s[i] = p
  BY <1>1
<1> QED BY <1>4, <1>5 DEF RemoveFirst

LEMMA RemoveNone ==
    ASSUME NEW s \in Seq(Int), NEW p, \A j \in DOMAIN s : s[j] # p
    PROVE  RemoveFirst(s, p) = s
<1>1. DOMAIN s = 1 .. Len(s)
  BY LenProperties
<1> QED BY <1>1 DEF RemoveFirst

\* bin_unlink
LEMMA UnlinkIs ==
    ASSUME NEW b, Lists(b, BinIdx), NEW i \in BinIdx, NEW k \in DOMAIN b[i],
           NEW c, c = Unlink(b, b[i][k])
    PROVE  Dropped(b, BinIdx, i, k, c)
<1>p. PICK p : p = b[i][k]
  OBVIOUS
<1>1. b \in [BinIdx -> Seq(Int)] /\ \A j \in BinIdx : b[j] \in Seq(Int)
  BY DEF Lists
<1>2. \A j \in BinIdx : \A l \in DOMAIN b[j] : b[j][l] = p => j = i /\ l = k
  BY <1>p DEF Lists
<1>3. c = [j \in BinIdx |-> RemoveFirst(b[j], p)]
  BY <1>p DEF Unlink
<1>4. RemoveFirst(b[i], p) = RemoveAt(b[i], k)
  BY <1>1, <1>2, <1>p, RemoveOnly
<1>5. ASSUME NEW j \in BinIdx \ {i} PROVE RemoveFirst(b[j], p) = b[j]
  <2>1. \A l \in DOMAIN b[j] : b[j][l] # p
    BY <1>2
  <2> QED BY <2>1, <1>1, RemoveNone
<1>6. Removed(b[i], k, RemoveAt(b[i], k))
  BY <1>1, RemoveAtIs
<1>7. RemoveAt(b[i], k) \in Seq(Int)
  BY <1>6 DEF Removed
<1>8. c[i] = RemoveAt(b[i], k) /\ \A j \in BinIdx \ {i} : c[j] = b[j]
  BY <1>3, <1>4, <1>5
<1>9. c \in [BinIdx -> Seq(Int)]
  BY <1>1, <1>3, <1>7, <1>8
<1> QED BY <1>6, <1>8, <1>9 DEF Dropped

\* The lists after the operators on bins and fastbins: PushUnsorted, the last unsorted
\* chunk, a chunk filed, and the fastbin stacks.
LEMMA PushIs ==
    ASSUME NEW b, b \in [BinIdx -> Seq(Int)], NEW v \in Int, NEW c, c = PushUnsorted(b, v),
           UNSORTED \in BinIdx
    PROVE  Added(b, BinIdx, UNSORTED, 1, v, c)
<1>s. PICK s : s = Cons(v, b[UNSORTED])
  OBVIOUS
<1>1. Inserted(b[UNSORTED], 1, v, s)
  BY <1>s, ConsIs
<1>2. c = [b EXCEPT ![UNSORTED] = s]
  BY <1>s DEF PushUnsorted
<1>3. s \in Seq(Int)
  BY <1>1 DEF Inserted
<1> QED BY <1>1, <1>2, <1>3 DEF Added

LEMMA PopUnsorted ==
    ASSUME NEW b, b \in [BinIdx -> Seq(Int)], UNSORTED \in BinIdx, b[UNSORTED] # <<>>,
           NEW c, c = [b EXCEPT ![UNSORTED] = Front(@)]
    PROVE  Dropped(b, BinIdx, UNSORTED, Len(b[UNSORTED]), c)
<1>s. PICK s : s = Front(b[UNSORTED])
  OBVIOUS
<1>1. Removed(b[UNSORTED], Len(b[UNSORTED]), s) /\ Len(b[UNSORTED]) \in DOMAIN b[UNSORTED]
  BY <1>s, FrontIs
<1>2. c = [b EXCEPT ![UNSORTED] = s]
  BY <1>s
<1>3. s \in Seq(Int)
  BY <1>1 DEF Removed
<1> QED BY <1>1, <1>2, <1>3 DEF Dropped

LEMMA FileIs ==
    ASSUME NEW b, b \in [BinIdx -> Seq(Int)], NEW i \in BinIdx, NEW k \in 1 .. Len(b[i]) + 1,
           NEW v \in Int, NEW c, c = [b EXCEPT ![i] = InsertAt(@, k, v)]
    PROVE  Added(b, BinIdx, i, k, v, c)
<1>s. PICK s : s = InsertAt(b[i], k, v)
  OBVIOUS
<1>1. Inserted(b[i], k, v, s)
  BY <1>s, InsertAtIs
<1>2. c = [b EXCEPT ![i] = s]
  BY <1>s
<1>3. s \in Seq(Int)
  BY <1>1 DEF Inserted
<1> QED BY <1>1, <1>2, <1>3 DEF Added

LEMMA PopFast ==
    ASSUME NEW b, b \in [Smalls -> Seq(Int)], NEW i \in Smalls, b[i] # <<>>,
           NEW c, c = [b EXCEPT ![i] = Tail(@)]
    PROVE  Dropped(b, Smalls, i, 1, c)
<1>s. PICK s : s = Tail(b[i])
  OBVIOUS
<1>1. Removed(b[i], 1, s) /\ 1 \in DOMAIN b[i]
  BY <1>s, TailIs
<1>2. c = [b EXCEPT ![i] = s]
  BY <1>s
<1>3. s \in Seq(Int)
  BY <1>1 DEF Removed
<1> QED BY <1>1, <1>2, <1>3 DEF Dropped

LEMMA PushFast ==
    ASSUME NEW b, b \in [Smalls -> Seq(Int)], NEW i \in Smalls, NEW v \in Int,
           NEW c, c = [b EXCEPT ![i] = Cons(v, @)]
    PROVE  Added(b, Smalls, i, 1, v, c)
<1>s. PICK s : s = Cons(v, b[i])
  OBVIOUS
<1>1. Inserted(b[i], 1, v, s)
  BY <1>s, ConsIs
<1>2. c = [b EXCEPT ![i] = s]
  BY <1>s
<1>3. s \in Seq(Int)
  BY <1>1 DEF Inserted
<1> QED BY <1>1, <1>2, <1>3 DEF Added

\* A chunk moves between a fastbin and the hands of a routine.
LEMMA UseFast ==
    ASSUME NEW m, NEW t, NEW sm, NEW own, NEW B, NEW F, NEW L, Heap(m, t, sm, own, B, F, L),
           NEW v \in F
    PROVE  Heap(m, t, sm, own, B, F \ {v}, L \cup {v})
<1>1. Places(m, t, B, F, L)
  BY DEF Heap, HeapBut
<1>2. Places(m, t, B, F \ {v}, L \cup {v})
  <2>1. (F \ {v}) \cup (L \cup {v}) = F \cup L
    OBVIOUS
  <2>2. B \cup (F \ {v}) \cup (L \cup {v}) = B \cup F \cup L
    BY <2>1
  <2> QED BY <1>1, <2>2 DEF Places
<1> QED BY <1>2 DEF Heap, HeapBut

LEMMA KeepFast ==
    ASSUME NEW m, NEW t, NEW sm, NEW own, NEW B, NEW F, NEW L, Heap(m, t, sm, own, B, F, L),
           NEW v \in L
    PROVE  Heap(m, t, sm, own, B, F \cup {v}, L \ {v})
<1>1. Places(m, t, B, F, L)
  BY DEF Heap, HeapBut
<1>2. Places(m, t, B, F \cup {v}, L \ {v})
  <2>2. B \cup (F \cup {v}) \cup (L \ {v}) = B \cup F \cup L
    OBVIOUS
  <2> QED BY <1>1, <2>2 DEF Places
<1> QED BY <1>2 DEF Heap, HeapBut

LEMMA LeastOf ==
    ASSUME NEW S \in SUBSET Nat, S # {}
    PROVE  Min(S) \in S /\ \A y \in S : Min(S) <= y
<1> DEFINE R == {ss \in Nat \X Nat : ss[1] < ss[2]}
<1>1. IsWellFoundedOn(R, Nat)
  BY NatLessThanWellFounded DEF OpToRel
<1>2. PICK x \in S : \A y \in S : ~(<<y, x>> \in R)
  <2> HIDE DEF R
  <2> QED BY <1>1, WFMin
<1>3. ASSUME NEW y \in S PROVE x <= y
  <2>1. ~(<<y, x>> \in R)
    BY <1>2
  <2>2. <<y, x>> \in Nat \X Nat
    OBVIOUS
  <2>3. ~(y < x)
    BY <2>1, <2>2
  <2> QED BY <2>3
<1> QED BY <1>3 DEF Min

(***************************************************************************)
(* How much memory there is                                                *)
(***************************************************************************)
LEMMA UnitsCounted ==
    ASSUME NEW a \in Int, NEW s \in Nat
    PROVE  IsFiniteSet(a .. a + s - 1) /\ Cardinality(a .. a + s - 1) = s
<1>1. a + s - 1 \in Int
  OBVIOUS
<1>2. /\ IsFiniteSet(a .. a + s - 1)
      /\ Cardinality(a .. a + s - 1) = IF a > a + s - 1 THEN 0 ELSE (a + s - 1) - a + 1
  BY <1>1, FS_Interval
<1> QED BY <1>2

LEMMA UnitsOwned ==
    ASSUME NEW m, NEW t, NEW sm, NEW own, Geo(m, t, sm, own), NEW p \in ChunksOf(m)
    PROVE  p .. p + m[p].size - 1 \subseteq own /\ p \in Nat /\ m[p].size \in Nat
<1>1. p \in Nat /\ m[p].size \in Nat
  BY OneChunk
<1>2. ASSUME NEW x \in p .. p + m[p].size - 1 PROVE x \in own
  <2>1. x \in Nat /\ p <= x /\ x < p + m[p].size
    BY <1>1, <1>2
  <2> QED BY <2>1 DEF Geo, Covers
<1> QED BY <1>1, <1>2

\* A chunk is no larger than the memory; two are no larger together.
LEMMA OneFits ==
    ASSUME NEW m, NEW t, NEW sm, NEW own, Geo(m, t, sm, own), IsFiniteSet(own),
           NEW p \in ChunksOf(m)
    PROVE  m[p].size <= Cardinality(own) /\ Cardinality(own) \in Nat
<1>s. PICK s : s = m[p].size
  OBVIOUS
<1>P. PICK P : P = p .. p + s - 1
  OBVIOUS
<1>1. P \subseteq own /\ p \in Int /\ s \in Nat
  BY <1>P, <1>s, UnitsOwned
<1>2. Cardinality(P) = m[p].size
  BY <1>1, <1>P, <1>s, UnitsCounted
<1>3. Cardinality(P) <= Cardinality(own) /\ Cardinality(own) \in Nat
  BY <1>1, FS_Subset, FS_CardinalityType
<1> QED BY <1>2, <1>3

LEMMA TwoFit ==
    ASSUME NEW m, NEW t, NEW sm, NEW own, Geo(m, t, sm, own), IsFiniteSet(own),
           NEW p \in ChunksOf(m), NEW q \in ChunksOf(m), p # q
    PROVE  m[p].size + m[q].size <= Cardinality(own) /\ Cardinality(own) \in Nat
<1>c. PICK c : c = m[p].size
  OBVIOUS
<1>d. PICK d : d = m[q].size
  OBVIOUS
<1>P. PICK P : P = p .. p + c - 1
  OBVIOUS
<1>Q. PICK Q : Q = q .. q + d - 1
  OBVIOUS
<1>1. /\ P \subseteq own /\ p \in Nat /\ p \in Int /\ c \in Nat
      /\ Q \subseteq own /\ q \in Nat /\ q \in Int /\ d \in Nat
  BY <1>P, <1>Q, <1>c, <1>d, UnitsOwned
<1>2. IsFiniteSet(P) /\ Cardinality(P) = c
  BY <1>1, <1>P, UnitsCounted
<1>7. IsFiniteSet(Q) /\ Cardinality(Q) = d
  BY <1>1, <1>Q, UnitsCounted
<1>3. P \cap Q = {}
  <2>1. p + c <= q \/ q + d <= p
    BY <1>c, <1>d DEF Geo, Apart
  <2>2. ASSUME NEW x \in P \cap Q PROVE FALSE
    <3>1. x \in Int /\ p <= x /\ x < p + c /\ q <= x /\ x < q + d
      BY <1>1, <1>P, <1>Q
    <3> QED BY <3>1, <2>1, <1>1
  <2> QED BY <2>2
<1>4. Cardinality(P \cup Q) = Cardinality(P) + Cardinality(Q) - Cardinality(P \cap Q)
  BY <1>2, <1>7, FS_Union
<1>5. Cardinality(P \cap Q) = 0
  BY <1>3, FS_EmptySet
<1>6. Cardinality(P \cup Q) <= Cardinality(own) /\ Cardinality(own) \in Nat
  <2>1. P \cup Q \subseteq own
    BY <1>1
  <2> QED BY <2>1, FS_Subset, FS_CardinalityType
<1> QED BY <1>1, <1>2, <1>7, <1>4, <1>5, <1>6, <1>c, <1>d

\* The memory own has no more than k units.
Within(own, k) == IsFiniteSet(own) /\ Cardinality(own) <= k /\ k \in Nat

LEMMA MoreMemory ==
    ASSUME NEW own, NEW k, Within(own, k), NEW base \in Nat, NEW size \in Nat,
           NEW k2 \in Nat, k2 >= k + size
    PROVE  Within(own \cup (base .. base + size - 1), k2)
<1>N. PICK N : N = base .. base + size - 1
  OBVIOUS
<1>1. IsFiniteSet(N) /\ Cardinality(N) = size
  BY <1>N, UnitsCounted
<1>2. /\ IsFiniteSet(own \cup N)
      /\ Cardinality(own \cup N) = Cardinality(own) + Cardinality(N) - Cardinality(own \cap N)
  BY <1>1, FS_Union DEF Within
<1>3. own \cap N \subseteq N
  OBVIOUS
<1>4. IsFiniteSet(own \cap N)
  BY <1>1, <1>3, FS_Subset
<1>5. Cardinality(own \cap N) \in Nat /\ Cardinality(own) \in Nat
  BY <1>4, FS_CardinalityType DEF Within
<1> QED BY <1>1, <1>2, <1>5, <1>N DEF Within

\* systrim, where extra may be negative
Trimmed(own, end, extra) ==
    (own \cup (end .. (end - extra) - 1)) \ ((end - extra) .. end - 1)

LEMMA LessMemory ==
    ASSUME NEW own, NEW k, Within(own, k), NEW end \in Int, NEW extra \in Int,
           (end - extra) .. end - 1 \subseteq own, NEW k2, k2 = k - extra
    PROVE  Within(Trimmed(own, end, extra), k2)
<1>A. PICK A : A = end .. (end - extra) - 1
  OBVIOUS
<1>R. PICK R : R = (end - extra) .. end - 1
  OBVIOUS
<1>1. CASE extra >= 0
  <2>1. A = {}
    BY <1>1, <1>A
  <2>2. IsFiniteSet(R) /\ Cardinality(R) = extra
    <3>1. (end - extra) + extra - 1 = end - 1 /\ end - extra \in Int /\ extra \in Nat
      BY <1>1
    <3> QED BY <3>1, <1>R, UnitsCounted
  <2>3. Trimmed(own, end, extra) = own \ R
    BY <2>1, <1>A, <1>R DEF Trimmed
  <2>4. own \cap R = R
    BY <1>R
  <2>5. IsFiniteSet(own \ R) /\ Cardinality(own \ R) = Cardinality(own) - Cardinality(R)
    BY <2>4, FS_Difference DEF Within
  <2>6. Cardinality(own \ R) \in Nat /\ Cardinality(own) \in Nat
    BY <2>5, FS_CardinalityType DEF Within
  <2> QED BY <2>2, <2>3, <2>5, <2>6, <1>1 DEF Within
<1>2. CASE extra < 0
  <2>1. R = {}
    BY <1>2, <1>R
  <2>2. Trimmed(own, end, extra) = own \cup A
    BY <2>1, <1>A, <1>R DEF Trimmed
  <2>3. IsFiniteSet(A) /\ Cardinality(A) = -extra
    <3>1. end + (-extra) - 1 = (end - extra) - 1 /\ -extra \in Nat
      BY <1>2
    <3> QED BY <3>1, <1>A, UnitsCounted
  <2>4. /\ IsFiniteSet(own \cup A)
        /\ Cardinality(own \cup A) = Cardinality(own) + Cardinality(A) - Cardinality(own \cap A)
    BY <2>3, FS_Union DEF Within
  <2>5. own \cap A \subseteq A
    OBVIOUS
  <2>6. IsFiniteSet(own \cap A)
    BY <2>3, <2>5, FS_Subset
  <2>7. Cardinality(own \cap A) \in Nat /\ Cardinality(own) \in Nat
    BY <2>6, FS_CardinalityType DEF Within
  <2> QED BY <2>2, <2>3, <2>4, <2>7, <1>2 DEF Within
<1> QED BY <1>1, <1>2

\* Rounding
LEMMA DivisionIs ==
    ASSUME NEW n \in Int, NEW a \in Nat \ {0}
    PROVE  n % a \in 0 .. a - 1 /\ \E q \in Int : n % a = n - a * q
OBVIOUS

LEMMA AlignUpIs ==
    ASSUME NEW n \in Int, NEW a \in Nat \ {0}
    PROVE  /\ AlignUp(n, a) \in Int /\ AlignUp(n, a) >= n /\ AlignUp(n, a) < n + a
           /\ n > 0 => AlignUp(n, a) >= a
<1>1. -n % a \in 0 .. a - 1
  OBVIOUS
<1>2. AlignUp(n, a) \in Int /\ AlignUp(n, a) >= n /\ AlignUp(n, a) < n + a
  BY <1>1 DEF AlignUp
<1>3. PICK q \in Int : AlignUp(n, a) = a * q
  <2>k. PICK k \in Int : k = -n
    OBVIOUS
  <2>1. PICK d \in Int : k % a = k - a * d
    BY DivisionIs
  <2>2. AlignUp(n, a) = -(a * d)
    BY <2>k, <2>1 DEF AlignUp
  <2>3. -(a * d) = a * (-d) /\ -d \in Int
    OBVIOUS
  <2> QED BY <2>2, <2>3
<1>4. ASSUME n > 0 PROVE AlignUp(n, a) >= a
  <2>1. a * q > 0
    BY <1>2, <1>3, <1>4
  <2>2. q >= 1
    BY <2>1
  <2>3. a * q >= a
    BY <2>2
  <2> QED BY <2>3, <1>3
<1> QED BY <1>2, <1>4

LEMMA AlignDownIs ==
    ASSUME NEW n \in Int, NEW a \in Nat \ {0}
    PROVE  AlignDown(n, a) \in Int /\ AlignDown(n, a) <= n /\ AlignDown(n, a) > n - a
<1>1. n % a \in 0 .. a - 1
  OBVIOUS
<1> QED BY <1>1 DEF AlignDown
================================================================
