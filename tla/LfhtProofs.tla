---------------------------- MODULE LfhtProofs ----------------------------
(***************************************************************************)
(* Proofs about Lfht, for any number of threads, keys and calls, any hash, *)
(* length of the first table and rate of the tax.                          *)
(***************************************************************************)
EXTENDS Lfht, FiniteSetTheorems, TLAPS

(***************************************************************************)
(* Places in a table                                                       *)
(***************************************************************************)
\* The distance of place i from place h, going round a table of m places.
LEMMA Around ==
    ASSUME NEW m \in Nat \ {0}, NEW h \in 0 .. m - 1, NEW i \in 0 .. m - 1
    PROVE  (i - h) % m = IF i >= h THEN i - h ELSE i - h + m
OBVIOUS

\* The place behind i.
LEMMA Behind ==
    ASSUME NEW m \in Nat \ {0}, NEW i \in 0 .. m - 1
    PROVE  (i + 1) % m = IF i = m - 1 THEN 0 ELSE i + 1
OBVIOUS

LEMMA Remainder ==
    ASSUME NEW m \in Nat \ {0}, NEW n \in Nat
    PROVE  n % m \in 0 .. m - 1
OBVIOUS

LEMMA Homes ==
    ASSUME NEW n, tables[n].max \in Nat \ {0}, NEW k \in Keys
    PROVE  Home(n, k) \in 0 .. tables[n].max - 1
BY Remainder, LfhtAssumption DEF Home

\* A probe meets the places of a table in the order of their distances from a key's home.
LEMMA Distances ==
    ASSUME NEW n, tables[n].max \in Nat \ {0}, NEW k \in Keys, NEW i \in 0 .. tables[n].max - 1
    PROVE  /\ Distance(n, k, i) \in 0 .. tables[n].max - 1
           /\ Distance(n, k, i) = 0 <=> i = Home(n, k)
           /\ \A j \in 0 .. tables[n].max - 1 : Distance(n, k, i) = Distance(n, k, j) => i = j
           /\ After(n, i) \in 0 .. tables[n].max - 1
           /\ After(n, i) # Home(n, k) => Distance(n, k, After(n, i)) = Distance(n, k, i) + 1
           /\ After(n, i) = Home(n, k) => Distance(n, k, i) = tables[n].max - 1
<1>m. PICK m : m = tables[n].max
  OBVIOUS
<1>h. PICK h : h = Home(n, k)
  OBVIOUS
<1>1. h \in 0 .. m - 1
  BY <1>m, <1>h, Homes
<1>2. \A j \in 0 .. m - 1 : Distance(n, k, j) = IF j >= h THEN j - h ELSE j - h + m
  BY <1>m, <1>h, <1>1, Around DEF Distance
<1>3. After(n, i) = IF i = m - 1 THEN 0 ELSE i + 1
  BY <1>m, Behind DEF After
<1>a. PICK a : a = After(n, i)
  OBVIOUS
<1>4. m \in Nat \ {0} /\ i \in 0 .. m - 1
  BY <1>m
<1>5. a \in 0 .. m - 1
  BY <1>3, <1>4, <1>a
<1>6. Distance(n, k, i) \in 0 .. m - 1 /\ (Distance(n, k, i) = 0 <=> i = h)
  BY <1>1, <1>2, <1>4
<1>7. \A j \in 0 .. m - 1 : Distance(n, k, i) = Distance(n, k, j) => i = j
  BY <1>1, <1>2, <1>4
<1>8. a # h => Distance(n, k, a) = Distance(n, k, i) + 1
  BY <1>1, <1>2, <1>3, <1>4, <1>5, <1>a
<1>9. a = h => Distance(n, k, i) = m - 1
  BY <1>1, <1>2, <1>3, <1>4, <1>a
<1> QED
  BY <1>m, <1>h, <1>a, <1>5, <1>6, <1>7, <1>8, <1>9

(***************************************************************************)
(* Types                                                                   *)
(***************************************************************************)
Tables == UNION {[max : {m}, assimilated : BOOLEAN, count : Int,
                  slot : [0 .. m - 1 -> SlotType]] : m \in Nat \ {0}}

Places(n) == 0 .. tables[n].max - 1

TablesType ==
    /\ tables \in Seq(Tables)
    /\ Last \in 1 .. MaxTables
    /\ \A n \in 1 .. Last :
          tables[n].max = IF n = 1 THEN InitialMax ELSE 2 * tables[n - 1].max

\* What is known of a table in the chain.
LEMMA TableKnown ==
    ASSUME TablesType, NEW n \in 1 .. Last
    PROVE  /\ tables[n] \in Tables
           /\ tables[n].max \in Nat \ {0}
           /\ tables[n].assimilated \in BOOLEAN
           /\ tables[n].count \in Int
           /\ tables[n].slot \in [Places(n) -> SlotType]
           /\ Places(n) \subseteq Nat
           /\ \A i \in Places(n) : Slot(n, i) \in SlotType
<1>1. tables[n] \in Tables
  BY DEF TablesType, Last
<1>2. PICK m \in Nat \ {0} : tables[n] \in [max : {m}, assimilated : BOOLEAN, count : Int,
                                            slot : [0 .. m - 1 -> SlotType]]
  BY <1>1 DEF Tables
<1>3. tables[n].max = m
  BY <1>2
<1> QED
  BY <1>1, <1>2, <1>3 DEF Places, Slot

\* A table after a change of one of its parts.
LEMMA Changed ==
    ASSUME TablesType, NEW n \in 1 .. Last, NEW T \in Tables, T.max = tables[n].max,
           tables' = [tables EXCEPT ![n] = T]
    PROVE  /\ TablesType' /\ Last' = Last
           /\ \A q \in 1 .. Last : tables'[q] = IF q = n THEN T ELSE tables[q]
           /\ \A q \in 1 .. Last : tables'[q].max = tables[q].max
<1>0. tables \in Seq(Tables) /\ DOMAIN tables = 1 .. Last /\ Last \in Nat
  BY DEF TablesType, Last
<1>1. tables' \in Seq(Tables) /\ Len(tables') = Len(tables)
  BY <1>0 DEF Last
<1>2. Last' = Last
  BY <1>1 DEF Last
<1>3. \A q \in 1 .. Last : tables'[q] = IF q = n THEN T ELSE tables[q]
  BY <1>0
<1>4. \A q \in 1 .. Last : tables'[q].max = tables[q].max
  BY <1>3
<1>5. \A q \in 1 .. Last : q # 1 => q - 1 \in 1 .. Last
  BY <1>0
<1>6. TablesType'
  BY <1>1, <1>2, <1>4, <1>5 DEF TablesType
<1> QED
  BY <1>2, <1>3, <1>4, <1>6

LEMMA Written ==
    ASSUME TablesType, NEW n \in 1 .. Last, NEW i \in Places(n), NEW s \in SlotType,
           Write(n, i, s)
    PROVE  /\ TablesType' /\ Last' = Last
           /\ \A q \in 1 .. Last : /\ tables'[q].max = tables[q].max
                                   /\ tables'[q].assimilated = tables[q].assimilated
                                   /\ tables'[q].count = tables[q].count
           /\ \A q \in 1 .. Last : \A j \in Places(q) :
                 Slot(q, j)' = IF q = n /\ j = i THEN s ELSE Slot(q, j)
<1>1. PICK m \in Nat \ {0} : tables[n] \in [max : {m}, assimilated : BOOLEAN, count : Int,
                                            slot : [0 .. m - 1 -> SlotType]]
  BY TableKnown DEF Tables
<1>2. PICK T : T = [tables[n] EXCEPT !.slot[i] = s]
  OBVIOUS
<1>3. /\ T \in [max : {m}, assimilated : BOOLEAN, count : Int, slot : [0 .. m - 1 -> SlotType]]
      /\ T.max = tables[n].max /\ T.assimilated = tables[n].assimilated
      /\ T.count = tables[n].count
      /\ \A j \in Places(n) : T.slot[j] = IF j = i THEN s ELSE tables[n].slot[j]
  BY <1>1, <1>2 DEF Places
<1>4. T \in Tables
  BY <1>3 DEF Tables
<1>5. tables' = [tables EXCEPT ![n] = T]
  BY <1>2 DEF Write
<1>6. /\ TablesType' /\ Last' = Last
      /\ \A q \in 1 .. Last : tables'[q] = IF q = n THEN T ELSE tables[q]
  BY <1>3, <1>4, <1>5, Changed
<1> QED
  BY <1>3, <1>6 DEF Slot

LEMMA Assimilated ==
    ASSUME TablesType, NEW n \in 1 .. Last,
           tables' = [tables EXCEPT ![n].assimilated = TRUE]
    PROVE  /\ TablesType' /\ Last' = Last
           /\ \A q \in 1 .. Last : /\ tables'[q].max = tables[q].max
                                   /\ q = n => tables'[q].assimilated = TRUE
                                   /\ q # n => tables'[q].assimilated = tables[q].assimilated
                                   /\ tables'[q].count = tables[q].count
           /\ \A q \in 1 .. Last : \A j \in Places(q) : Slot(q, j)' = Slot(q, j)
<1>1. PICK m \in Nat \ {0} : tables[n] \in [max : {m}, assimilated : BOOLEAN, count : Int,
                                            slot : [0 .. m - 1 -> SlotType]]
  BY TableKnown DEF Tables
<1>2. PICK T : T = [tables[n] EXCEPT !.assimilated = TRUE]
  OBVIOUS
<1>3. /\ T \in [max : {m}, assimilated : BOOLEAN, count : Int, slot : [0 .. m - 1 -> SlotType]]
      /\ T.max = tables[n].max /\ T.assimilated = TRUE
      /\ T.count = tables[n].count /\ T.slot = tables[n].slot
  BY <1>1, <1>2
<1>4. T \in Tables
  BY <1>3 DEF Tables
<1>5. tables' = [tables EXCEPT ![n] = T]
  BY <1>2
<1>6. /\ TablesType' /\ Last' = Last
      /\ \A q \in 1 .. Last : tables'[q] = IF q = n THEN T ELSE tables[q]
  BY <1>3, <1>4, <1>5, Changed
<1>7. \A q \in 1 .. Last : /\ q = n => tables'[q].assimilated = TRUE
                           /\ q # n => tables'[q].assimilated = tables[q].assimilated
  BY <1>3, <1>6
<1>8. \A q \in 1 .. Last : tables'[q].max = tables[q].max /\ tables'[q].count = tables[q].count
  BY <1>3, <1>6
<1>9. \A q \in 1 .. Last : \A j \in Places(q) : Slot(q, j)' = Slot(q, j)
  BY <1>3, <1>6 DEF Slot
<1> QED
  BY <1>6, <1>7, <1>8, <1>9

LEMMA Counted ==
    ASSUME TablesType, NEW n \in 1 .. Last, NEW c \in Int,
           tables' = [tables EXCEPT ![n].count = c]
    PROVE  /\ TablesType' /\ Last' = Last
           /\ \A q \in 1 .. Last : /\ tables'[q].max = tables[q].max
                                   /\ tables'[q].assimilated = tables[q].assimilated
                                   /\ tables'[q].count = IF q = n THEN c ELSE tables[q].count
           /\ \A q \in 1 .. Last : \A j \in Places(q) : Slot(q, j)' = Slot(q, j)
<1>1. PICK m \in Nat \ {0} : tables[n] \in [max : {m}, assimilated : BOOLEAN, count : Int,
                                            slot : [0 .. m - 1 -> SlotType]]
  BY TableKnown DEF Tables
<1>2. PICK T : T = [tables[n] EXCEPT !.count = c]
  OBVIOUS
<1>3. /\ T \in [max : {m}, assimilated : BOOLEAN, count : Int, slot : [0 .. m - 1 -> SlotType]]
      /\ T.max = tables[n].max /\ T.assimilated = tables[n].assimilated
      /\ T.count = c /\ T.slot = tables[n].slot
  BY <1>1, <1>2
<1>4. T \in Tables
  BY <1>3 DEF Tables
<1>5. tables' = [tables EXCEPT ![n] = T]
  BY <1>2
<1>6. /\ TablesType' /\ Last' = Last
      /\ \A q \in 1 .. Last : tables'[q] = IF q = n THEN T ELSE tables[q]
  BY <1>3, <1>4, <1>5, Changed
<1> QED
  BY <1>3, <1>6 DEF Slot

LEMMA NewTableKnown ==
    ASSUME NEW m \in Nat \ {0}
    PROVE  /\ NewTable(m) \in Tables
           /\ NewTable(m).max = m /\ NewTable(m).assimilated = FALSE /\ NewTable(m).count = 0
           /\ \A i \in 0 .. m - 1 : NewTable(m).slot[i] = EmptySlot
<1>1. EmptySlot \in SlotType
  BY DEF EmptySlot, SlotType
<1>2. NewTable(m) \in [max : {m}, assimilated : BOOLEAN, count : Int, slot : [0 .. m - 1 -> SlotType]]
  BY <1>1 DEF NewTable
<1> QED
  BY <1>2 DEF Tables, NewTable

LEMMA Appended ==
    ASSUME TablesType, Last < MaxTables,
           tables' = Append(tables, NewTable(2 * tables[Last].max))
    PROVE  /\ TablesType' /\ Last' = Last + 1
           /\ \A q \in 1 .. Last : tables'[q] = tables[q]
           /\ tables'[Last + 1].max = 2 * tables[Last].max
           /\ tables'[Last + 1].assimilated = FALSE
           /\ tables'[Last + 1].count = 0
           /\ \A i \in 0 .. 2 * tables[Last].max - 1 : tables'[Last + 1].slot[i] = EmptySlot
<1>0. tables \in Seq(Tables) /\ DOMAIN tables = 1 .. Last /\ Last \in Nat /\ Last >= 1
  BY LfhtAssumption DEF TablesType, Last
<1>l. PICK l : l = Last
  OBVIOUS
<1>m. PICK m : m = 2 * tables[l].max
  OBVIOUS
<1>1. m \in Nat \ {0}
  BY <1>0, <1>l, <1>m, TableKnown
<1>T. PICK T : T = NewTable(m)
  OBVIOUS
<1>2. /\ T \in Tables /\ T.max = m /\ T.assimilated = FALSE /\ T.count = 0
      /\ \A i \in 0 .. m - 1 : T.slot[i] = EmptySlot
  BY <1>1, <1>T, NewTableKnown
<1>3. tables' = Append(tables, T)
  BY <1>l, <1>m, <1>T
<1>4. /\ tables' \in Seq(Tables) /\ Len(tables') = l + 1
      /\ \A q \in 1 .. l : tables'[q] = tables[q]
      /\ tables'[l + 1] = T
  BY <1>0, <1>2, <1>3, <1>l DEF Last
<1>5. Last' = l + 1
  BY <1>4 DEF Last
<1>6. MaxTables \in Nat /\ l \in Nat /\ l >= 1
  BY LfhtAssumption, <1>0, <1>l
<1>7. ASSUME NEW q \in 1 .. l + 1
      PROVE  tables'[q].max = IF q = 1 THEN InitialMax ELSE 2 * tables'[q - 1].max
  <2>1. CASE q = l + 1
    BY <2>1, <1>2, <1>4, <1>6, <1>m
  <2>2. CASE q # l + 1
    <3>1. q \in 1 .. l /\ (q # 1 => q - 1 \in 1 .. l)
      BY <2>2, <1>6
    <3> QED BY <3>1, <1>4, <1>l DEF TablesType
  <2> QED BY <2>1, <2>2
<1>8. TablesType'
  BY <1>4, <1>5, <1>6, <1>7, <1>l DEF TablesType
<1>9. \A i \in 0 .. m - 1 : tables'[l + 1].slot[i] = EmptySlot
  BY <1>2, <1>4
<1>10. tables'[l + 1].max = m /\ tables'[l + 1].assimilated = FALSE /\ tables'[l + 1].count = 0
  BY <1>2, <1>4
<1> QED
  BY <1>4, <1>5, <1>8, <1>9, <1>10, <1>l, <1>m

(***************************************************************************)
(* What each thread knows, at its point, of the tables                     *)
(***************************************************************************)
ThType == th \in [Threads -> Locals]

Taxed  == {"tax", "from", "scan", "mark", "finish", "recheck", "expanded"}
Assimilating == {"scan", "mark", "finish", "recheck", "expanded"}
InTable == {"probe", "update", "store", "count", "grow", "published", "expanding", "check", "exit"}

CallOK(t) ==
    /\ At(t, "idle") => th[t].external
    /\ ~At(t, "idle") => th[t].key \in Keys /\ th[t].op \in {"add", "remove", "find"}

\* a thread that assimilates, and one that adds a key that it moves
TaxOK(t) ==
    /\ th[t].at \in Taxed => th[t].external
    /\ At(t, "from") => Last >= 2
    /\ th[t].at \in Assimilating \/ ~th[t].external => th[t].from \in 1 .. Last - 1
    /\ At(t, "scan") \/ At(t, "mark") \/ ~th[t].external => th[t].mi \in Places(th[t].from)
    /\ At(t, "mark") \/ ~th[t].external =>
          /\ th[t].mkey \in Keys
          /\ Slot(th[t].from, th[t].mi).key = th[t].mkey
    /\ ~th[t].external => th[t].mval # TOMBSTONE /\ Slot(th[t].from, th[t].mi).moved

\* The places a probe has passed are used, and not by the key.
Passed(t, j) ==
    Distance(th[t].hdr, TheKey(t), j) < Distance(th[t].hdr, TheKey(t), th[t].i) =>
        /\ j \in Used(th[t].hdr)
        /\ ~Matches(Slot(th[t].hdr, j), TheKey(t))

ProbeOK(t) ==
    /\ th[t].at \in InTable => th[t].hdr \in 1 .. Last
    /\ At(t, "probe") \/ At(t, "update") \/ At(t, "store") => th[t].i \in Places(th[t].hdr)
    /\ At(t, "published") \/ At(t, "expanding") \/ At(t, "check") => th[t].hdr \in 1 .. Last - 1
    /\ At(t, "update") \/ At(t, "store") => Here(t).key = TheKey(t)
    /\ At(t, "probe") => \A j \in Places(th[t].hdr) : Passed(t, j)

ThInv(t) == CallOK(t) /\ TaxOK(t) /\ ProbeOK(t)

\* What may become of the tables: keys and marks stay where they are.
Onward ==
    /\ Last' \in Nat /\ Last <= Last'
    /\ \A q \in 1 .. Last : tables'[q].max = tables[q].max
    /\ \A q \in 1 .. Last : tables[q].assimilated => tables'[q].assimilated
    /\ \A q \in 1 .. Last : \A j \in Places(q) :
          /\ Slot(q, j).key # NoKey => Slot(q, j)'.key = Slot(q, j).key
          /\ Slot(q, j).moved => Slot(q, j)'.moved

Moves(t) ==
    /\ ThType'
    /\ \A u \in Threads \ {t} : th'[u] = th[u]

LEMMA SetTh ==
    ASSUME ThType, NEW t \in Threads, NEW c \in Locals, th' = [th EXCEPT ![t] = c]
    PROVE  Moves(t) /\ th'[t] = c
BY DEF ThType, Moves

LEMMA Typed ==
    ASSUME ThType, NEW t \in Threads
    PROVE  th[t] \in Locals
BY DEF ThType

LEMMA GoToTh ==
    ASSUME ThType, NEW t \in Threads, NEW point \in Points, GoTo(t, point)
    PROVE  /\ Moves(t) /\ th'[t] \in Locals
           /\ th'[t].at = point /\ th'[t].op = th[t].op /\ th'[t].key = th[t].key
           /\ th'[t].val = th[t].val /\ th'[t].hdr = th[t].hdr /\ th'[t].i = th[t].i
           /\ th'[t].ret = th[t].ret /\ th'[t].valp = th[t].valp /\ th'[t].from = th[t].from
           /\ th'[t].mi = th[t].mi /\ th'[t].moved = th[t].moved
           /\ th'[t].success = th[t].success /\ th'[t].mkey = th[t].mkey
           /\ th'[t].mval = th[t].mval /\ th'[t].external = th[t].external
<1>c. PICK c : c = [th[t] EXCEPT !.at = point]
  OBVIOUS
<1>0. th[t] \in Locals
  BY Typed
<1>1. /\ c \in Locals /\ c.at = point /\ c.op = th[t].op /\ c.key = th[t].key
      /\ c.val = th[t].val /\ c.hdr = th[t].hdr /\ c.i = th[t].i
      /\ c.ret = th[t].ret /\ c.valp = th[t].valp /\ c.from = th[t].from
      /\ c.mi = th[t].mi /\ c.moved = th[t].moved
      /\ c.success = th[t].success /\ c.mkey = th[t].mkey
      /\ c.mval = th[t].mval /\ c.external = th[t].external
  BY <1>0, <1>c DEF Locals
<1>2. th' = [th EXCEPT ![t] = c]
  BY <1>c DEF GoTo
<1>3. Moves(t) /\ th'[t] = c
  BY <1>1, <1>2, SetTh
<1> QED
  BY <1>1, <1>3

\* assimilate and the add that it calls forget their locals.
Forgot(t, point, c) ==
    /\ c \in Locals
    /\ c.at = point /\ c.op = th[t].op /\ c.key = th[t].key /\ c.val = th[t].val
    /\ c.hdr = 0 /\ c.i = 0 /\ c.ret = th[t].ret /\ c.valp = th[t].valp
    /\ point # "start" => c.from = th[t].from
    /\ c.mi = 0 /\ c.moved = 0 /\ c.success = FALSE /\ c.mkey = NoKey
    /\ c.mval = TOMBSTONE /\ c.external = TRUE

LEMMA GoesFields ==
    ASSUME ThType, NEW t \in Threads, NEW point \in Points
    PROVE  Forgot(t, point, Goes(t, point))
<1>0. th[t] \in Locals
  BY Typed
<1>c. PICK c : c = Goes(t, point)
  OBVIOUS
<1>d. PICK d : d = [th[t] EXCEPT !.at = point, !.mi = 0, !.moved = 0, !.success = FALSE,
                                 !.external = TRUE]
  OBVIOUS
<1>e. PICK e : e = [d EXCEPT !.mkey = NoKey, !.mval = TOMBSTONE, !.hdr = 0, !.i = 0]
  OBVIOUS
<1>f. PICK f \in Nat : f = (IF point = "start" THEN 0 ELSE th[t].from)
  BY <1>0 DEF Locals
<1>1. /\ d \in Locals
      /\ d.at = point /\ d.op = th[t].op /\ d.key = th[t].key /\ d.val = th[t].val
      /\ d.ret = th[t].ret /\ d.valp = th[t].valp /\ d.from = th[t].from
      /\ d.mi = 0 /\ d.moved = 0 /\ d.success = FALSE /\ d.external = TRUE
  BY <1>0, <1>d DEF Locals
<1>2. /\ e \in Locals
      /\ e.at = point /\ e.op = th[t].op /\ e.key = th[t].key /\ e.val = th[t].val
      /\ e.hdr = 0 /\ e.i = 0 /\ e.ret = th[t].ret /\ e.valp = th[t].valp
      /\ e.from = th[t].from
      /\ e.mi = 0 /\ e.moved = 0 /\ e.success = FALSE /\ e.mkey = NoKey
      /\ e.mval = TOMBSTONE /\ e.external = TRUE
  BY <1>1, <1>e DEF Locals
<1>3. c = [e EXCEPT !.from = f]
  BY <1>c, <1>d, <1>e, <1>f DEF Goes
<1>4. /\ c \in Locals
      /\ c.at = point /\ c.op = th[t].op /\ c.key = th[t].key /\ c.val = th[t].val
      /\ c.hdr = 0 /\ c.i = 0 /\ c.ret = th[t].ret /\ c.valp = th[t].valp
      /\ c.from = f
      /\ c.mi = 0 /\ c.moved = 0 /\ c.success = FALSE /\ c.mkey = NoKey
      /\ c.mval = TOMBSTONE /\ c.external = TRUE
  BY <1>2, <1>3 DEF Locals
<1>5. Forgot(t, point, c)
  BY <1>4, <1>f DEF Forgot
<1> QED BY <1>5, <1>c

LEMMA GoesTh ==
    ASSUME ThType, NEW t \in Threads, NEW point \in Points, th' = [th EXCEPT ![t] = Goes(t, point)]
    PROVE  /\ Moves(t) /\ th'[t] \in Locals
           /\ Forgot(t, point, th'[t])
<1>c. PICK c : c = Goes(t, point)
  OBVIOUS
<1>1. Forgot(t, point, c)
  BY <1>c, GoesFields
<1>2. th' = [th EXCEPT ![t] = c] /\ c \in Locals
  BY <1>1, <1>c DEF Forgot
<1>3. Moves(t) /\ th'[t] = c
  BY <1>2, SetTh
<1> QED
  BY <1>1, <1>2, <1>3

\* assimilate goes on to the next slot, or has been round the whole table.
Scanned(t, n, sure, c) ==
    /\ c \in Locals
    /\ c.op = th[t].op /\ c.key = th[t].key /\ c.val = th[t].val
    /\ c.hdr = 0 /\ c.i = 0 /\ c.ret = th[t].ret /\ c.valp = th[t].valp
    /\ c.external = TRUE
    /\ c.at \in {"scan", "finish", "start"}
    /\ After(th[t].from, th[t].mi) # Home(th[t].from, th[t].key) =>
          /\ c.at = "scan" /\ c.from = th[t].from /\ c.mi = After(th[t].from, th[t].mi)
          /\ c.moved = n /\ c.success = sure
    /\ After(th[t].from, th[t].mi) = Home(th[t].from, th[t].key) =>
          /\ n < MIGRATIONS_PER_ACCESS => c.at = "finish" /\ c.from = th[t].from
          /\ ~(n < MIGRATIONS_PER_ACCESS) => c.at = "start"

LEMMA NextSlotFields ==
    ASSUME ThType, NEW t \in Threads, NEW n \in Nat, NEW sure \in BOOLEAN,
           After(th[t].from, th[t].mi) \in Nat
    PROVE  Scanned(t, n, sure, NextSlot(t, n, sure))
<1>c. PICK c : c = NextSlot(t, n, sure)
  OBVIOUS
<1>a. PICK a \in Nat : a = After(th[t].from, th[t].mi)
  OBVIOUS
<1>h. PICK h : h = Home(th[t].from, th[t].key)
  OBVIOUS
<1>1. {"scan", "finish", "start"} \subseteq Points
  BY DEF Points
<1>2. CASE a # h
  <2>d. PICK d : d = Goes(t, "scan")
    OBVIOUS
  <2>1. c = [d EXCEPT !.mi = a, !.moved = n, !.success = sure]
    BY <1>2, <1>a, <1>h, <1>c, <2>d DEF NextSlot
  <2>2. Forgot(t, "scan", d)
    BY <2>d, <1>1, GoesFields
  <2>3. /\ d \in Locals
        /\ d.at = "scan" /\ d.op = th[t].op /\ d.key = th[t].key /\ d.val = th[t].val
        /\ d.hdr = 0 /\ d.i = 0 /\ d.ret = th[t].ret /\ d.valp = th[t].valp
        /\ d.from = th[t].from /\ d.external = TRUE
    BY <2>2 DEF Forgot
  <2>4. /\ c \in Locals
        /\ c.at = d.at /\ c.op = d.op /\ c.key = d.key /\ c.val = d.val
        /\ c.hdr = d.hdr /\ c.i = d.i /\ c.ret = d.ret /\ c.valp = d.valp
        /\ c.from = d.from /\ c.external = d.external
        /\ c.mi = a /\ c.moved = n /\ c.success = sure
    <3> HIDE <2>2, <1>c
    <3> QED BY <2>1, <2>3 DEF Locals
  <2>5. Scanned(t, n, sure, c)
    BY <2>3, <2>4, <1>2, <1>a, <1>h DEF Scanned
  <2> QED BY <2>5, <1>c
<1>3. CASE a = h
  <2>p. PICK p : p = IF n < MIGRATIONS_PER_ACCESS THEN "finish" ELSE "start"
    OBVIOUS
  <2>1. c = Goes(t, p)
    BY <1>3, <1>a, <1>h, <1>c, <2>p DEF NextSlot
  <2>2. p \in Points
    BY <2>p, <1>1
  <2>3. Forgot(t, p, c)
    BY <2>1, <2>2, GoesFields
  <2>4. Scanned(t, n, sure, c)
    BY <2>3, <2>p, <1>3, <1>a, <1>h DEF Scanned, Forgot
  <2> QED BY <2>4, <1>c
<1> QED BY <1>2, <1>3

LEMMA NextSlotTh ==
    ASSUME ThType, NEW t \in Threads, NEW n \in Nat, NEW sure \in BOOLEAN,
           th' = [th EXCEPT ![t] = NextSlot(t, n, sure)], After(th[t].from, th[t].mi) \in Nat
    PROVE  /\ Moves(t) /\ th'[t] \in Locals
           /\ Scanned(t, n, sure, th'[t])
<1>c. PICK c : c = NextSlot(t, n, sure)
  OBVIOUS
<1>1. Scanned(t, n, sure, c)
  BY <1>c, NextSlotFields
<1>2. th' = [th EXCEPT ![t] = c] /\ c \in Locals
  BY <1>1, <1>c DEF Scanned
<1>3. Moves(t) /\ th'[t] = c
  BY <1>2, SetTh
<1> QED
  BY <1>1, <1>2, <1>3

(***************************************************************************)
(* What a thread knows stays true while others go on                       *)
(***************************************************************************)
LEMMA OnwardPlaces ==
    ASSUME TablesType, Onward, NEW n \in 1 .. Last
    PROVE  /\ n \in 1 .. Last'
           /\ Places(n)' = Places(n)
           /\ \A k : Home(n, k)' = Home(n, k)
           /\ \A k, i : Distance(n, k, i)' = Distance(n, k, i)
           /\ \A i : After(n, i)' = After(n, i)
           /\ \A i \in Used(n) : i \in Used(n)'
<1>1. tables'[n].max = tables[n].max /\ Last \in Nat /\ Last' \in Nat /\ Last <= Last'
  BY LfhtAssumption DEF Onward, TablesType
<1>2. n \in 1 .. Last' /\ Places(n)' = Places(n)
  BY <1>1 DEF Places
<1>3. \A k : Home(n, k)' = Home(n, k)
  BY <1>1 DEF Home
<1>4. \A k, i : Distance(n, k, i)' = Distance(n, k, i)
  BY <1>1, <1>3 DEF Distance
<1>5. \A i : After(n, i)' = After(n, i)
  BY <1>1 DEF After
<1>6. \A i \in Used(n) : i \in Used(n)'
  BY <1>1 DEF Used, Onward, Places
<1> QED
  BY <1>2, <1>3, <1>4, <1>5, <1>6

LEMMA OthersKeep ==
    ASSUME TablesType, ThType, Onward, NEW u \in Threads, th'[u] = th[u], ThInv(u)
    PROVE  ThInv(u)'
<1>0. Last \in Nat /\ Last' \in Nat /\ Last <= Last'
  BY LfhtAssumption DEF Onward, TablesType
<1>k. TheKey(u)' = TheKey(u)
  BY DEF TheKey
<1>a. \A point : At(u, point)' <=> At(u, point)
  BY DEF At
<1>1. CallOK(u)'
  BY <1>a DEF ThInv, CallOK
<1>2. TaxOK(u)'
  <2>f. PICK f : f = th[u].from
    OBVIOUS
  <2>i. PICK i : i = th[u].mi
    OBVIOUS
  <2>1. /\ th[u].at \in Taxed => th[u].external
        /\ At(u, "from") => Last' >= 2
        /\ th[u].at \in Assimilating \/ ~th[u].external => f \in 1 .. Last' - 1
    BY <1>0, <2>f DEF ThInv, TaxOK
  <2>2. ASSUME At(u, "scan") \/ At(u, "mark") \/ ~th[u].external
        PROVE  i \in Places(f)' /\ f \in 1 .. Last /\ i \in Places(f)
    <3>1. f \in 1 .. Last - 1 /\ i \in Places(f)
      BY <2>2, <2>f, <2>i DEF ThInv, TaxOK, At, Assimilating
    <3> QED BY <3>1, <1>0, OnwardPlaces
  <2>3. ASSUME At(u, "mark") \/ ~th[u].external
        PROVE  th[u].mkey \in Keys /\ Slot(f, i)'.key = th[u].mkey
    <3>1. th[u].mkey \in Keys /\ Slot(f, i).key = th[u].mkey
      BY <2>3, <2>f, <2>i DEF ThInv, TaxOK
    <3>2. th[u].mkey # NoKey
      BY <3>1, LfhtAssumption
    <3> QED BY <3>1, <3>2, <2>2, <2>3 DEF Onward
  <2>4. ASSUME ~th[u].external
        PROVE  th[u].mval # TOMBSTONE /\ Slot(f, i)'.moved
    <3>1. th[u].mval # TOMBSTONE /\ Slot(f, i).moved
      BY <2>4, <2>f, <2>i DEF ThInv, TaxOK
    <3> QED BY <3>1, <2>2, <2>4 DEF Onward
  <2>5. Slot(th[u].from, th[u].mi)' = Slot(f, i)'
    BY <2>f, <2>i DEF Slot
  <2>6. Places(th[u].from)' = Places(f)'
    BY <2>f DEF Places
  <2> QED BY <2>1, <2>2, <2>3, <2>4, <2>5, <2>6, <1>a, <2>f, <2>i DEF TaxOK
<1>3. ProbeOK(u)'
  <2>h. PICK h : h = th[u].hdr
    OBVIOUS
  <2>i. PICK i : i = th[u].i
    OBVIOUS
  <2>k. PICK k : k = TheKey(u)
    OBVIOUS
  <2>1. th[u].at \in InTable => h \in 1 .. Last /\ h \in 1 .. Last'
    BY <1>0, <2>h DEF ThInv, ProbeOK
  <2>2. ASSUME At(u, "probe") \/ At(u, "update") \/ At(u, "store")
        PROVE  h \in 1 .. Last /\ i \in Places(h) /\ i \in Places(h)'
    <3>1. h \in 1 .. Last
      BY <2>1, <2>2 DEF InTable, At
    <3>2. i \in Places(h)
      BY <2>2, <2>h, <2>i DEF ThInv, ProbeOK
    <3> QED BY <3>1, <3>2, OnwardPlaces
  <2>3. At(u, "published") \/ At(u, "expanding") \/ At(u, "check") => h \in 1 .. Last' - 1
    BY <1>0, <2>h DEF ThInv, ProbeOK
  <2>4. k \in Keys \/ At(u, "idle")
    BY <2>k DEF ThInv, CallOK, TaxOK, TheKey
  <2>5. ASSUME At(u, "update") \/ At(u, "store")
        PROVE  Slot(h, i)'.key = k
    <3>1. Slot(h, i).key = k
      BY <2>5, <2>h, <2>i, <2>k DEF ThInv, ProbeOK, Here
    <3>2. k # NoKey
      BY <2>4, <2>5, LfhtAssumption DEF At
    <3> QED BY <3>1, <3>2, <2>2, <2>5 DEF Onward
  <2>6. ASSUME At(u, "probe"), NEW j \in Places(h), Distance(h, k, j) < Distance(h, k, i)
        PROVE  j \in Used(h)' /\ ~Matches(Slot(h, j)', k)
    <3>1. j \in Used(h) /\ ~Matches(Slot(h, j), k)
      BY <2>6, <2>h, <2>i, <2>k DEF ThInv, ProbeOK, Passed
    <3>2. Slot(h, j).key # NoKey
      BY <3>1 DEF Used
    <3>3. /\ Slot(h, j)'.key = Slot(h, j).key
          /\ Slot(h, j).moved => Slot(h, j)'.moved
      BY <3>2, <2>2, <2>6 DEF Onward
    <3> QED BY <3>1, <3>3, <2>2, <2>6, OnwardPlaces DEF Matches
  <2>7. Here(u)' = Slot(h, i)' /\ Places(th[u].hdr)' = Places(h)'
    BY <2>h, <2>i DEF Here, Slot, Places
  <2>8. ASSUME At(u, "probe"), NEW j \in Places(h)'
        PROVE  Passed(u, j)'
    <3>1. Places(h)' = Places(h) /\ \A m : Distance(h, k, m)' = Distance(h, k, m)
      BY <2>2, <2>8, OnwardPlaces
    <3>2. Distance(h, k, j)' < Distance(h, k, i)' => j \in Used(h)' /\ ~Matches(Slot(h, j)', k)
      BY <2>6, <2>8, <3>1
    <3> QED BY <3>2, <2>h, <2>i, <2>k, <1>k DEF Passed, Distance, Home, Used, Slot
  <2> QED BY <2>1, <2>2, <2>3, <2>5, <2>7, <2>8, <1>a, <1>k, <2>h, <2>i, <2>k DEF ProbeOK
<1> QED BY <1>1, <1>2, <1>3 DEF ThInv

(***************************************************************************)
(* The invariant of all executions                                         *)
(***************************************************************************)
StateOK ==
    /\ state \in {"initial", "expanding", "expanded"}
    /\ state = "expanding" => Last >= 2

\* The current table is not one that was left.
Current ==
    /\ ~tables[Last].assimilated
    /\ \A i \in Places(Last) : ~Slot(Last, i).moved

Vacant == \A n \in 1 .. Last : \A i \in Places(n) :
    Slot(n, i).key = NoKey => Slot(n, i) = EmptySlot

Probed == \A n \in 1 .. Last : \A i \in Used(n) : \A j \in Places(n) :
    Distance(n, Slot(n, i).key, j) < Distance(n, Slot(n, i).key, i) =>
        /\ j \in Used(n)
        /\ ~(Matches(Slot(n, j), Slot(n, i).key) /\ Matches(Slot(n, i), Slot(n, i).key))

Adding(n) == {t \in Threads : th[t].hdr = n /\ (At(t, "store") \/ At(t, "count"))}

CountOK == \A n \in 1 .. Last :
    tables[n].count = Cardinality(Used(n)) - Cardinality(Adding(n))

Inv ==
    /\ TablesType /\ ThType /\ StateOK
    /\ Current /\ Vacant /\ Probed /\ CountOK
    /\ \A t \in Threads : ThInv(t)

\* A step that only changes the locals of one thread.
LEMMA Quiet ==
    ASSUME Inv, NEW t \in Threads, UNCHANGED tables, Moves(t), ThInv(t)', StateOK',
           ~At(t, "store"), ~At(t, "count"), ~At(t, "store")', ~At(t, "count")'
    PROVE  Inv'
<1>1. TablesType' /\ Last' = Last
  BY DEF Inv, TablesType, Last
<1>2. Onward
  BY LfhtAssumption DEF Inv, TablesType, Last, Onward, Slot
<1>3. \A u \in Threads : ThInv(u)'
  BY <1>2, OthersKeep DEF Inv, Moves
<1>4. Current' /\ Vacant' /\ Probed'
  BY <1>1 DEF Inv, Current, Vacant, Probed, Places, Slot, Used, Distance, Home
<1>5. ASSUME NEW n \in 1 .. Last
      PROVE  Adding(n)' = Adding(n)
  BY DEF Adding, Moves, At
<1>6. CountOK'
  BY <1>1, <1>5 DEF Inv, CountOK, Used, Slot
<1> QED BY <1>1, <1>3, <1>4, <1>6 DEF Inv, Moves

LEMMA PointsKnown ==
    /\ {"idle", "tax", "from", "scan", "mark", "finish", "recheck", "expanded", "start",
        "probe", "update", "store", "count", "grow", "published", "expanding", "check",
        "exit"} = Points
    /\ Idle \in Locals /\ Idle.at = "idle" /\ Idle.external = TRUE
BY DEF Points, Locals, Idle

AddCall(k, v) == [Idle EXCEPT !.at = "tax", !.op = "add", !.key = k, !.val = v]
OtherCall(op, k) == [Idle EXCEPT !.at = "tax", !.op = op, !.key = k]

\* A thread with the arguments of a call.
Asks(c) ==
    /\ c \in Locals /\ c.at = "tax" /\ c.op \in {"add", "remove", "find"} /\ c.key \in Keys
    /\ c.val \in Values \cup {TOMBSTONE} /\ c.hdr = 0 /\ c.external = TRUE
    /\ c.ret = FALSE /\ c.valp = TOMBSTONE /\ c.moved = 0 /\ c.success = FALSE

LEMMA CallTh ==
    ASSUME ThType, NEW t \in Threads, Call(t)
    PROVE  Moves(t) /\ Asks(th'[t])
<1>0. "tax" \in Points
  BY DEF Points
<1>1. ASSUME NEW k \in Keys, NEW v \in Values PROVE Asks(AddCall(k, v))
  BY <1>0 DEF AddCall, Idle, Locals, Asks
<1>2. ASSUME NEW k \in Keys, NEW op \in {"remove", "find"} PROVE Asks(OtherCall(op, k))
  BY <1>0 DEF OtherCall, Idle, Locals, Asks
<1>3. PICK k \in Keys : \/ \E v \in Values : th' = [th EXCEPT ![t] = AddCall(k, v)]
                       \/ \E op \in {"remove", "find"} : th' = [th EXCEPT ![t] = OtherCall(op, k)]
  BY Zenon DEF Call, AddCall, OtherCall
<1>4. PICK c : Asks(c) /\ th' = [th EXCEPT ![t] = c]
  BY <1>1, <1>2, <1>3, Zenon
<1>5. Moves(t) /\ th'[t] = c
  BY <1>4, SetTh DEF Asks
<1> QED BY <1>4, <1>5

LEMMA CallInv ==
    ASSUME Inv, NEW t \in Threads, Call(t)
    PROVE  Inv'
<1>1. /\ Moves(t) /\ th'[t].at = "tax" /\ th'[t].op \in {"add", "remove", "find"}
      /\ th'[t].key \in Keys /\ th'[t].hdr = 0 /\ th'[t].external = TRUE
  BY CallTh DEF Inv, Asks
<1>2. ThInv(t)'
  BY <1>1 DEF ThInv, CallOK, TaxOK, ProbeOK, At, Taxed, Assimilating, InTable
<1>3. UNCHANGED <<tables, state>> /\ At(t, "idle")
  BY Zenon DEF Call
<1>4. StateOK'
  BY <1>3 DEF Inv, StateOK, Last
<1> QED BY <1>1, <1>2, <1>3, <1>4, Quiet DEF At

LEMMA TaxInv ==
    ASSUME Inv, NEW t \in Threads, Tax(t)
    PROVE  Inv'
<1>p. PICK p : p = IF state = "expanding" THEN "from" ELSE "start"
  OBVIOUS
<1>1. p \in Points /\ GoTo(t, p) /\ At(t, "tax") /\ UNCHANGED <<tables, state>>
  BY <1>p, PointsKnown DEF Tax
<1>2. /\ Moves(t) /\ th'[t].at = p /\ th'[t].key = th[t].key /\ th'[t].op = th[t].op
      /\ th'[t].external = th[t].external
  BY <1>1, GoToTh DEF Inv
<1>3. StateOK' /\ (p = "from" => Last' >= 2)
  BY <1>1, <1>p DEF Inv, StateOK, Last
<1>4. th[t].external /\ CallOK(t)
  BY <1>1 DEF Inv, ThInv, TaxOK, At, Taxed
<1>5. ThInv(t)'
  BY <1>1, <1>2, <1>3, <1>4, <1>p
     DEF ThInv, CallOK, TaxOK, ProbeOK, At, Taxed, Assimilating, InTable
<1> QED BY <1>1, <1>2, <1>3, <1>5, <1>p, Quiet DEF At

LEMMA FromInv ==
    ASSUME Inv, NEW t \in Threads, From(t)
    PROVE  Inv'
<1>f. PICK f : f = Last - 1
  OBVIOUS
<1>0. /\ At(t, "from") /\ UNCHANGED <<tables, state>>
      /\ Last \in Nat /\ Last >= 2 /\ th[t].external /\ th[t].key \in Keys /\ th[t].op # "none"
      /\ th[t].op \in {"add", "remove", "find"}
  BY LfhtAssumption DEF From, Inv, TablesType, ThInv, TaxOK, CallOK, At, Taxed
<1>1. f \in 1 .. Last - 1 /\ f \in 1 .. Last /\ f \in Nat
  BY <1>0, <1>f
<1>2. tables[f].max \in Nat \ {0}
  BY <1>1, TableKnown DEF Inv
<1>h. PICK h \in Places(f) : h = Home(f, th[t].key)
  BY <1>0, <1>2, Homes DEF Places
<1>g. PICK g : g = Goes(t, "finish")
  OBVIOUS
<1>c. PICK c : c = IF tables[f].assimilated THEN [g EXCEPT !.from = f]
                   ELSE [th[t] EXCEPT !.from = f, !.mi = h, !.at = "scan"]
  OBVIOUS
<1>3. th' = [th EXCEPT ![t] = c]
  BY <1>f, <1>h, <1>c, <1>g DEF From
<1>4. h \in Nat /\ th[t] \in Locals
  BY <1>2, Typed DEF Places, Inv
<1>5. Forgot(t, "finish", g)
  BY <1>g, GoesFields, PointsKnown DEF Inv
<1>6. /\ c \in Locals /\ c.at \in {"scan", "finish"} /\ c.from = f
      /\ c.at = "scan" => c.mi = h /\ ~tables[f].assimilated
      /\ c.at = "finish" => tables[f].assimilated
      /\ c.external = TRUE /\ c.key = th[t].key /\ c.op = th[t].op
  <2>1. CASE tables[f].assimilated
    <3>1. c = [g EXCEPT !.from = f]
      BY <2>1, <1>c
    <3> QED BY <3>1, <2>1, <1>1, <1>5 DEF Forgot, Locals
  <2>2. CASE ~tables[f].assimilated
    <3>1. c = [th[t] EXCEPT !.from = f, !.mi = h, !.at = "scan"]
      BY <2>2, <1>c
    <3>2. "scan" \in Points /\ th[t].external = TRUE
      BY <1>0, <1>4 DEF Points, Locals
    <3> QED BY <3>1, <3>2, <2>2, <1>0, <1>1, <1>4 DEF Locals
  <2> QED BY <2>1, <2>2
<1>7. Moves(t) /\ th'[t] = c
  BY <1>3, <1>6, SetTh DEF Inv
<1>8. Last' = Last /\ Places(f)' = Places(f)
  BY <1>0 DEF Last, Places
<1>9. Places(th[t].from)' = Places(f)
  BY <1>6, <1>7, <1>8 DEF Places
<1>10. ThInv(t)'
  BY <1>0, <1>1, <1>6, <1>7, <1>8, <1>9
     DEF ThInv, CallOK, TaxOK, ProbeOK, At, Taxed, Assimilating, InTable
<1>11. StateOK'
  BY <1>0 DEF Inv, StateOK, Last
<1> QED BY <1>0, <1>6, <1>7, <1>10, <1>11, Quiet DEF At

\* A thread in assimilate is at a slot of a table that was left.
LEMMA AtSlot ==
    ASSUME Inv, NEW t \in Threads, At(t, "scan") \/ At(t, "mark") \/ ~th[t].external
    PROVE  /\ th[t].from \in 1 .. Last - 1 /\ th[t].from \in 1 .. Last /\ Last \in Nat
           /\ tables[th[t].from].max \in Nat \ {0}
           /\ th[t].mi \in Places(th[t].from)
           /\ Slot(th[t].from, th[t].mi) \in SlotType
           /\ After(th[t].from, th[t].mi) \in Places(th[t].from)
           /\ After(th[t].from, th[t].mi) \in Nat
           /\ th[t] \in Locals
           /\ th[t].key \in Keys /\ th[t].op \in {"add", "remove", "find"} /\ ~At(t, "idle")
<1>f. PICK f : f = th[t].from
  OBVIOUS
<1>i. PICK i : i = th[t].mi
  OBVIOUS
<1>0. Last \in Nat
  BY LfhtAssumption DEF Inv, TablesType
<1>1. ~At(t, "idle")
  BY DEF Inv, ThInv, CallOK, At
<1>2. th[t].key \in Keys /\ th[t].op \in {"add", "remove", "find"}
  BY <1>1 DEF Inv, ThInv, CallOK
<1>3. f \in 1 .. Last - 1 /\ i \in Places(f)
  BY <1>f, <1>i DEF Inv, ThInv, TaxOK, At, Assimilating
<1>4. f \in 1 .. Last
  BY <1>0, <1>3
<1>5. /\ tables[f].max \in Nat \ {0} /\ Places(f) \subseteq Nat
      /\ Slot(f, i) \in SlotType
  BY <1>3, <1>4, TableKnown DEF Inv
<1>6. After(f, i) \in Places(f)
  BY <1>2, <1>3, <1>5, Distances DEF Places
<1> QED
  BY <1>0, <1>1, <1>2, <1>3, <1>4, <1>5, <1>6, <1>f, <1>i, Typed DEF Inv

LEMMA ScannedInv ==
    ASSUME Inv, NEW t \in Threads, At(t, "scan") \/ At(t, "mark") \/ ~th[t].external,
           NEW n, NEW sure, Scanned(t, n, sure, th'[t]),
           Last' = Last, \A q \in 1 .. Last : tables'[q].max = tables[q].max
    PROVE  ThInv(t)'
<1>f. PICK f : f = th[t].from
  OBVIOUS
<1>1. /\ f \in 1 .. Last - 1 /\ f \in 1 .. Last /\ After(f, th[t].mi) \in Places(f)
      /\ th[t].key \in Keys /\ th[t].op \in {"add", "remove", "find"}
  BY <1>f, AtSlot
<1>2. Places(f)' = Places(f)
  BY <1>1 DEF Places
<1>3. /\ th'[t].external = TRUE /\ th'[t].key = th[t].key /\ th'[t].op = th[t].op
      /\ th'[t].at \in {"scan", "finish", "start"}
      /\ th'[t].at # "start" => th'[t].from = f
      /\ th'[t].at = "scan" => th'[t].mi = After(f, th[t].mi)
  BY <1>f DEF Scanned
<1>4. th'[t].at = "scan" => th'[t].mi \in Places(th[t].from)'
  <2>1. Places(th[t].from)' = 0 .. tables'[th'[t].from].max - 1
    BY DEF Places
  <2> QED BY <1>1, <1>2, <1>3, <2>1 DEF Places
<1> QED
  BY <1>1, <1>3, <1>4 DEF ThInv, CallOK, TaxOK, ProbeOK, At, Taxed, Assimilating, InTable, Places

LEMMA ScanInv ==
    ASSUME Inv, NEW t \in Threads, Scan(t)
    PROVE  Inv'
<1>e. PICK e : e = Slot(th[t].from, th[t].mi)
  OBVIOUS
<1>s. PICK sure : sure = (th[t].success \/ e.key \in {NoKey, th[t].key})
  OBVIOUS
<1>0. At(t, "scan") /\ UNCHANGED <<tables, state>>
  BY DEF Scan
<1>1. e \in SlotType /\ th[t] \in Locals /\ sure \in BOOLEAN
  BY <1>0, <1>e, <1>s, AtSlot
<1>2. Last' = Last /\ StateOK'
  BY <1>0 DEF Inv, StateOK, Last
<1>3. \/ /\ e.key # NoKey /\ ~e.moved
         /\ th' = [th EXCEPT ![t] = [th[t] EXCEPT !.success = sure, !.at = "mark",
                                                  !.mkey = e.key, !.mval = e.val]]
      \/ th' = [th EXCEPT ![t] = Goes(t, "start")]
      \/ th' = [th EXCEPT ![t] = NextSlot(t, th[t].moved, sure)]
  BY <1>e, <1>s, Zenon DEF Scan
<1>4. CASE /\ e.key # NoKey /\ ~e.moved
           /\ th' = [th EXCEPT ![t] = [th[t] EXCEPT !.success = sure, !.at = "mark",
                                                    !.mkey = e.key, !.mval = e.val]]
  <2>c. PICK c : c = [th[t] EXCEPT !.success = sure, !.at = "mark",
                                   !.mkey = e.key, !.mval = e.val]
    OBVIOUS
  <2>1. "mark" \in Points
    BY DEF Points
  <2>2. e.key \in Keys /\ e.val \in Values \cup {TOMBSTONE}
    BY <1>1, <1>4 DEF SlotType
  <2>3. /\ c \in Locals /\ c.at = "mark" /\ c.mkey = e.key /\ c.key = th[t].key /\ c.op = th[t].op
        /\ c.from = th[t].from /\ c.mi = th[t].mi /\ c.external = th[t].external
    BY <2>c, <2>1, <2>2, <1>1 DEF Locals
  <2>4. Moves(t) /\ th'[t] = c
    BY <1>4, <2>c, <2>3, SetTh DEF Inv
  <2>6. Slot(th[t].from, th[t].mi)' = e
    BY <1>0, <1>e, <2>3, <2>4 DEF Slot
  <2>7. th[t].external
    BY <1>0 DEF Inv, ThInv, TaxOK, At, Taxed
  <2>8. th'[t].mi \in Places(th[t].from)' /\ th'[t].from \in 1 .. Last' - 1
    BY <1>0, <1>2, <2>3, <2>4, AtSlot DEF Places
  <2>9. th[t].key \in Keys /\ th[t].op \in {"add", "remove", "find"}
    BY <1>0, AtSlot
  <2>10. ThInv(t)'
    BY <2>2, <2>3, <2>4, <2>6, <2>7, <2>8, <2>9
       DEF ThInv, CallOK, TaxOK, ProbeOK, At, Taxed, Assimilating, InTable
  <2> QED BY <1>0, <1>2, <2>3, <2>4, <2>10, Quiet DEF At
<1>5. CASE th' = [th EXCEPT ![t] = Goes(t, "start")]
  <2>1. Moves(t) /\ Forgot(t, "start", th'[t])
    BY <1>5, GoesTh, PointsKnown DEF Inv
  <2>2. th[t].key \in Keys /\ th[t].op \in {"add", "remove", "find"}
    BY <1>0, AtSlot
  <2>3. ThInv(t)'
    BY <2>1, <2>2 DEF Forgot, ThInv, CallOK, TaxOK, ProbeOK, At, Taxed, Assimilating, InTable
  <2> QED BY <1>0, <1>2, <2>1, <2>3, Quiet DEF At, Forgot
<1>6. CASE th' = [th EXCEPT ![t] = NextSlot(t, th[t].moved, sure)]
  <2>1. th[t].moved \in Nat
    BY <1>1 DEF Locals
  <2>2. Moves(t) /\ Scanned(t, th[t].moved, sure, th'[t])
    BY <1>0, <1>1, <1>6, <2>1, NextSlotTh, AtSlot DEF Inv
  <2>3. ThInv(t)'
    BY <1>0, <1>2, <2>2, ScannedInv
  <2> QED BY <1>0, <1>2, <2>2, <2>3, Quiet DEF At, Scanned
<1> QED BY <1>3, <1>4, <1>5, <1>6

LEMMA BusyKnown ==
    ASSUME Inv, NEW t \in Threads, ~At(t, "idle")
    PROVE  /\ th[t].key \in Keys /\ th[t].op \in {"add", "remove", "find"}
           /\ TheKey(t) \in Keys /\ TheOp(t) \in {"add", "remove", "find"}
           /\ th[t] \in Locals /\ TheVal(t) \in Values \cup {TOMBSTONE}
<1>1. th[t] \in Locals
  BY Typed DEF Inv
<1>2. /\ th[t].key \in Keys /\ th[t].op \in {"add", "remove", "find"}
      /\ ~th[t].external => th[t].mkey \in Keys
  BY DEF Inv, ThInv, CallOK, TaxOK
<1> QED
  BY <1>1, <1>2 DEF TheKey, TheOp, TheVal, Locals

LEMMA RecheckInv ==
    ASSUME Inv, NEW t \in Threads, Recheck(t)
    PROVE  Inv'
<1>p. PICK p : p = IF Last = th[t].from + 1 THEN "expanded" ELSE "start"
  OBVIOUS
<1>0. At(t, "recheck") /\ UNCHANGED <<tables, state>> /\ th' = [th EXCEPT ![t] = Goes(t, p)]
  BY <1>p, Zenon DEF Recheck
<1>1. Last' = Last /\ StateOK'
  BY <1>0 DEF Inv, StateOK, Last
<1>2. Moves(t) /\ Forgot(t, p, th'[t])
  BY <1>0, <1>p, GoesTh, PointsKnown DEF Inv
<1>3. th[t].key \in Keys /\ th[t].op \in {"add", "remove", "find"}
  BY <1>0, BusyKnown DEF At
<1>4. th[t].from \in 1 .. Last - 1
  BY <1>0 DEF Inv, ThInv, TaxOK, At, Assimilating
<1>5. ThInv(t)'
  BY <1>1, <1>2, <1>3, <1>4, <1>p
     DEF Forgot, ThInv, CallOK, TaxOK, ProbeOK, At, Taxed, Assimilating, InTable
<1> QED BY <1>0, <1>1, <1>2, <1>5, <1>p, Quiet DEF At, Forgot

LEMMA ExpandedInv ==
    ASSUME Inv, NEW t \in Threads, Expanded(t)
    PROVE  Inv'
<1>0. /\ At(t, "expanded") /\ UNCHANGED tables /\ th' = [th EXCEPT ![t] = Goes(t, "start")]
      /\ state' = "expanded"
  BY Zenon DEF Expanded
<1>1. Last' = Last /\ StateOK'
  BY <1>0 DEF Inv, StateOK, Last
<1>2. Moves(t) /\ Forgot(t, "start", th'[t])
  BY <1>0, GoesTh, PointsKnown DEF Inv
<1>3. th[t].key \in Keys /\ th[t].op \in {"add", "remove", "find"}
  BY <1>0, BusyKnown DEF At
<1>5. ThInv(t)'
  BY <1>1, <1>2, <1>3
     DEF Forgot, ThInv, CallOK, TaxOK, ProbeOK, At, Taxed, Assimilating, InTable
<1> QED BY <1>0, <1>1, <1>2, <1>5, Quiet DEF At, Forgot

\* An add of a moved key keeps what assimilate knows.
LEMMA TaxKept ==
    ASSUME Inv, NEW t \in Threads, ~At(t, "idle"), Onward,
           th'[t].external = th[t].external, th'[t].from = th[t].from, th'[t].mi = th[t].mi,
           th'[t].mkey = th[t].mkey, th'[t].mval = th[t].mval, th'[t].key = th[t].key,
           th'[t].op = th[t].op, th'[t].at \notin Taxed, th'[t].at # "idle"
    PROVE  CallOK(t)' /\ TaxOK(t)'
<1>f. PICK f : f = th[t].from
  OBVIOUS
<1>i. PICK i : i = th[t].mi
  OBVIOUS
<1>0. th[t].key \in Keys /\ th[t].op \in {"add", "remove", "find"}
  BY BusyKnown
<1>1. CallOK(t)'
  BY <1>0 DEF CallOK, At
<1>2. ASSUME th[t].external PROVE TaxOK(t)'
  BY <1>2 DEF TaxOK, At, Taxed, Assimilating
<1>3. ASSUME ~th[t].external PROVE TaxOK(t)'
  <2>1. f \in 1 .. Last - 1 /\ f \in 1 .. Last /\ i \in Places(f) /\ Last \in Nat
    BY <1>3, <1>f, <1>i, AtSlot
  <2>2. /\ th[t].mkey \in Keys /\ Slot(f, i).key = th[t].mkey
        /\ th[t].mval # TOMBSTONE /\ Slot(f, i).moved
    BY <1>3, <1>f, <1>i DEF Inv, ThInv, TaxOK
  <2>3. Places(f)' = Places(f)
    BY <2>1, OnwardPlaces DEF Inv
  <2>n. Slot(f, i).key # NoKey /\ Slot(f, i).moved
    BY <2>2, LfhtAssumption
  <2>4. Slot(f, i)'.key = th[t].mkey /\ Slot(f, i)'.moved
    BY <2>1, <2>2, <2>n DEF Onward
  <2>l. Last' \in Nat /\ Last <= Last'
    BY DEF Onward
  <2>5. f \in 1 .. Last' - 1
    BY <2>1, <2>l
  <2>6. Places(th[t].from)' = Places(f)' /\ Slot(th[t].from, th[t].mi)' = Slot(f, i)'
    BY <1>f, <1>i DEF Places, Slot
  <2>7. th'[t].at \notin Assimilating /\ ~At(t, "from")' /\ ~At(t, "scan")' /\ ~At(t, "mark")'
    BY DEF Taxed, Assimilating, At
  <2>8. /\ th'[t].from \in 1 .. Last' - 1 /\ th'[t].mi \in Places(th[t].from)'
        /\ th'[t].mkey \in Keys /\ th'[t].mval # TOMBSTONE
        /\ Slot(th[t].from, th[t].mi)'.key = th'[t].mkey /\ Slot(th[t].from, th[t].mi)'.moved
    BY <1>f, <1>i, <2>1, <2>2, <2>3, <2>4, <2>5, <2>6
  <2> QED BY <2>7, <2>8 DEF TaxOK
<1> QED BY <1>1, <1>2, <1>3

LEMMA Still ==
    ASSUME Inv, UNCHANGED tables
    PROVE  Onward /\ Last' = Last /\ \A n : Places(n)' = Places(n)
BY LfhtAssumption DEF Inv, TablesType, Last, Onward, Slot, Places

LEMMA StartInv ==
    ASSUME Inv, NEW t \in Threads, Start(t)
    PROVE  Inv'
<1>l. PICK l : l = Last
  OBVIOUS
<1>k. PICK k \in Keys : k = TheKey(t)
  BY BusyKnown DEF Start, At
<1>0. /\ At(t, "start") /\ UNCHANGED <<tables, state>> /\ ~At(t, "idle")
      /\ l \in 1 .. Last /\ l \in Nat
  BY <1>l, LfhtAssumption DEF Start, Inv, TablesType, At
<1>1. tables[l].max \in Nat \ {0} /\ Places(l) \subseteq Nat
  BY <1>0, TableKnown DEF Inv
<1>h. PICK h \in Places(l) : h = Home(l, k)
  BY <1>1, Homes DEF Places
<1>c. PICK c : c = [th[t] EXCEPT !.at = "probe", !.hdr = l, !.i = h]
  OBVIOUS
<1>2. th[t] \in Locals /\ "probe" \in Points /\ h \in Nat
  BY <1>1, Typed, PointsKnown DEF Inv
<1>3. /\ c \in Locals /\ c.at = "probe" /\ c.hdr = l /\ c.i = h
      /\ c.external = th[t].external /\ c.from = th[t].from /\ c.mi = th[t].mi
      /\ c.mkey = th[t].mkey /\ c.mval = th[t].mval /\ c.key = th[t].key /\ c.op = th[t].op
  BY <1>0, <1>2, <1>c DEF Locals
<1>4. th' = [th EXCEPT ![t] = c]
  BY <1>c, <1>l, <1>k, <1>h DEF Start
<1>5. Moves(t) /\ th'[t] = c
  BY <1>3, <1>4, SetTh DEF Inv
<1>6. Onward /\ Last' = Last /\ Places(l)' = Places(l)
  BY <1>0, Still
<1>7. CallOK(t)' /\ TaxOK(t)'
  BY <1>0, <1>3, <1>5, <1>6, TaxKept DEF Taxed
<1>8. TheKey(t)' = k
  BY <1>3, <1>5, <1>k DEF TheKey
<1>9. ASSUME NEW j \in Places(l)
      PROVE  Passed(t, j)'
  <2>1. Distance(l, k, j) \in Nat /\ Distance(l, k, h) = 0
    BY <1>1, <1>h, Distances DEF Places
  <2>2. Distance(th[t].hdr, TheKey(t), j)' = Distance(l, k, j)
    BY <1>0, <1>3, <1>5, <1>8 DEF Distance, Home
  <2>3. Distance(th[t].hdr, TheKey(t), th[t].i)' = Distance(l, k, h)
    BY <1>0, <1>3, <1>5, <1>8 DEF Distance, Home
  <2> QED BY <2>1, <2>2, <2>3 DEF Passed
<1>10. Places(th[t].hdr)' = Places(l)
  BY <1>3, <1>5, <1>6 DEF Places
<1>11. ProbeOK(t)'
  BY <1>0, <1>3, <1>5, <1>6, <1>9, <1>10, <1>h DEF ProbeOK, At, InTable
<1>12. StateOK'
  BY <1>0, <1>6 DEF Inv, StateOK
<1> QED BY <1>0, <1>3, <1>5, <1>7, <1>11, <1>12, Quiet DEF At, ThInv

\* A thread that only goes on to another point of the add, remove or find.
LEMMA GoOn ==
    ASSUME Inv, NEW t \in Threads, th[t].at \in InTable \ {"store", "count"},
           NEW p \in {"update", "exit", "expanding", "check"}, GoTo(t, p),
           UNCHANGED tables, StateOK',
           p = "update" => At(t, "probe") /\ Here(t).key = TheKey(t),
           p \in {"expanding", "check"} => th[t].hdr \in 1 .. Last - 1
    PROVE  Inv'
<1>h. PICK h : h = th[t].hdr
  OBVIOUS
<1>1. p \in Points /\ p \notin Taxed /\ p # "idle" /\ p \in InTable /\ p # "store" /\ p # "count"
  BY PointsKnown DEF Taxed, InTable
<1>2. ~At(t, "idle") /\ ~At(t, "store") /\ ~At(t, "count")
  BY DEF At, InTable
<1>3. /\ Moves(t) /\ th'[t].at = p /\ th'[t].op = th[t].op /\ th'[t].key = th[t].key
      /\ th'[t].hdr = h /\ th'[t].i = th[t].i
      /\ th'[t].from = th[t].from /\ th'[t].mi = th[t].mi /\ th'[t].mkey = th[t].mkey
      /\ th'[t].mval = th[t].mval /\ th'[t].external = th[t].external
  BY <1>1, <1>h, GoToTh DEF Inv
<1>4. Onward /\ Last' = Last /\ Places(h)' = Places(h)
  BY Still
<1>5. CallOK(t)' /\ TaxOK(t)'
  BY <1>1, <1>2, <1>3, <1>4, TaxKept
<1>6. h \in 1 .. Last /\ (At(t, "probe") => th[t].i \in Places(h))
  BY <1>h DEF Inv, ThInv, ProbeOK
<1>7. /\ TheKey(t)' = TheKey(t) /\ Here(t)' = Here(t) /\ Places(th[t].hdr)' = Places(h)
  BY <1>3, <1>4, <1>h DEF TheKey, Here, Slot, Places
<1>8. ProbeOK(t)'
  BY <1>1, <1>3, <1>4, <1>6, <1>7, <1>h DEF ProbeOK, At
<1>9. ~At(t, "store")' /\ ~At(t, "count")'
  BY <1>1, <1>3 DEF At
<1> QED BY <1>2, <1>3, <1>5, <1>8, <1>9, Quiet DEF ThInv

LEMMA ProbeNextInv ==
    ASSUME Inv, NEW t \in Threads, ProbeNext(t)
    PROVE  Inv'
<1>h. PICK h : h = th[t].hdr
  OBVIOUS
<1>i. PICK i : i = th[t].i
  OBVIOUS
<1>n. PICK next : next = After(h, i)
  OBVIOUS
<1>0. /\ At(t, "probe") /\ ~At(t, "idle") /\ UNCHANGED <<tables, state>>
      /\ Slot(h, i).key # NoKey
  BY <1>h, <1>i DEF ProbeNext, Here, At
<1>k. PICK k \in Keys : k = TheKey(t)
  BY <1>0, BusyKnown
<1>1. ~Matches(Slot(h, i), k)
  BY <1>h, <1>i, <1>k DEF ProbeNext, Here
<1>2. h \in 1 .. Last /\ i \in Places(h) /\ \A j \in Places(h) : Passed(t, j)
  BY <1>0, <1>h, <1>i DEF Inv, ThInv, ProbeOK, At, InTable
<1>3. tables[h].max \in Nat \ {0} /\ Places(h) \subseteq Nat
  BY <1>2, TableKnown DEF Inv
<1>4. next \in Places(h) /\ next \in Nat
  BY <1>2, <1>3, <1>k, <1>n, Distances DEF Places
<1>p. PICK p : p = IF next = Home(h, k) THEN "exit" ELSE "probe"
  OBVIOUS
<1>c. PICK c : c = [th[t] EXCEPT !.i = next, !.at = p]
  OBVIOUS
<1>5. th[t] \in Locals /\ p \in Points /\ th[t].at = "probe"
  BY <1>0, <1>p, Typed, PointsKnown DEF Inv, At
<1>6. /\ c \in Locals /\ c.at = p /\ c.hdr = h /\ c.i = next
      /\ c.external = th[t].external /\ c.from = th[t].from /\ c.mi = th[t].mi
      /\ c.mkey = th[t].mkey /\ c.mval = th[t].mval /\ c.key = th[t].key /\ c.op = th[t].op
  BY <1>4, <1>5, <1>c, <1>h DEF Locals
<1>7. th' = [th EXCEPT ![t] = c]
  BY <1>5, <1>c, <1>p, <1>n, <1>h, <1>i, <1>k DEF ProbeNext
<1>8. Moves(t) /\ th'[t] = c
  BY <1>6, <1>7, SetTh DEF Inv
<1>9. Onward /\ Last' = Last /\ Places(h)' = Places(h)
  BY <1>0, Still
<1>10. CallOK(t)' /\ TaxOK(t)'
  BY <1>0, <1>6, <1>8, <1>9, <1>p, TaxKept DEF Taxed
<1>11. TheKey(t)' = k
  BY <1>6, <1>8, <1>k DEF TheKey
<1>12. ASSUME p = "probe", NEW j \in Places(h)
       PROVE  Passed(t, j)'
  <2>1. /\ Distance(h, k, j) \in Nat /\ Distance(h, k, i) \in Nat
        /\ Distance(h, k, next) = Distance(h, k, i) + 1
        /\ Distance(h, k, i) = Distance(h, k, j) => i = j
    BY <1>2, <1>3, <1>12, <1>p, <1>n, Distances DEF Places
  <2>2. Distance(h, k, j) < Distance(h, k, next) =>
           j \in Used(h) /\ ~Matches(Slot(h, j), k)
    <3>1. Distance(h, k, j) < Distance(h, k, i) => j \in Used(h) /\ ~Matches(Slot(h, j), k)
      BY <1>2, <1>h, <1>i, <1>k DEF Passed
    <3>2. i \in Used(h)
      BY <1>0, <1>2 DEF Used, Places
    <3> QED BY <2>1, <3>1, <3>2, <1>1
  <2>3. /\ Distance(th[t].hdr, TheKey(t), j)' = Distance(h, k, j)
        /\ Distance(th[t].hdr, TheKey(t), th[t].i)' = Distance(h, k, next)
    BY <1>0, <1>6, <1>8, <1>11 DEF Distance, Home
  <2>4. Used(th[t].hdr)' = Used(h) /\ Slot(th[t].hdr, j)' = Slot(h, j)
    BY <1>0, <1>6, <1>8 DEF Used, Slot
  <2> QED BY <2>2, <2>3, <2>4, <1>11 DEF Passed
<1>13. Places(th[t].hdr)' = Places(h)
  BY <1>6, <1>8, <1>9 DEF Places
<1>14. ProbeOK(t)'
  BY <1>2, <1>4, <1>6, <1>8, <1>9, <1>12, <1>13, <1>p DEF ProbeOK, At, InTable
<1>15. StateOK'
  BY <1>0, <1>9 DEF Inv, StateOK
<1> QED BY <1>0, <1>6, <1>8, <1>10, <1>14, <1>15, <1>p, Quiet DEF At, ThInv

LEMMA AbsentInv ==
    ASSUME Inv, NEW t \in Threads, Absent(t)
    PROVE  Inv'
<1>1. /\ GoTo(t, "exit") /\ UNCHANGED <<tables, state>>
      /\ th[t].at \in InTable \ {"store", "count"}
  BY DEF Absent, At, InTable
<1>2. StateOK'
  BY <1>1 DEF Inv, StateOK, Last
<1> QED BY <1>1, <1>2, GoOn

LEMMA PresentInv ==
    ASSUME Inv, NEW t \in Threads, Present(t)
    PROVE  Inv'
<1>1. /\ GoTo(t, "update") /\ UNCHANGED <<tables, state>> /\ At(t, "probe")
      /\ th[t].at \in InTable \ {"store", "count"}
      /\ Here(t).key = TheKey(t)
  BY DEF Present, At, InTable, Matches
<1>2. StateOK'
  BY <1>1 DEF Inv, StateOK, Last
<1> QED BY <1>1, <1>2, GoOn

LEMMA GrowFailsInv ==
    ASSUME Inv, NEW t \in Threads, GrowFails(t)
    PROVE  Inv'
<1>1. /\ GoTo(t, "exit") /\ UNCHANGED <<tables, state>>
      /\ th[t].at \in InTable \ {"store", "count"}
  BY DEF GrowFails, At, InTable
<1>2. StateOK'
  BY <1>1 DEF Inv, StateOK, Last
<1> QED BY <1>1, <1>2, GoOn

LEMMA PublishedInv ==
    ASSUME Inv, NEW t \in Threads, Published(t)
    PROVE  Inv'
<1>1. /\ GoTo(t, "expanding") /\ UNCHANGED <<tables, state>>
      /\ th[t].at \in InTable \ {"store", "count"} /\ At(t, "published")
  BY DEF Published, At, InTable
<1>2. StateOK'
  BY <1>1 DEF Inv, StateOK, Last
<1>3. th[t].hdr \in 1 .. Last - 1
  BY <1>1 DEF Inv, ThInv, ProbeOK
<1> QED BY <1>1, <1>2, <1>3, GoOn

LEMMA ExpandingInv ==
    ASSUME Inv, NEW t \in Threads, Expanding(t)
    PROVE  Inv'
<1>1. /\ GoTo(t, "check") /\ UNCHANGED tables /\ state' = "expanding"
      /\ th[t].at \in InTable \ {"store", "count"} /\ At(t, "expanding")
  BY DEF Expanding, At, InTable
<1>2. th[t].hdr \in 1 .. Last - 1 /\ Last \in Nat
  BY <1>1, LfhtAssumption DEF Inv, ThInv, ProbeOK, TablesType
<1>3. StateOK'
  BY <1>1, <1>2 DEF StateOK, Last
<1> QED BY <1>1, <1>2, <1>3, GoOn

LEMMA CheckInv ==
    ASSUME Inv, NEW t \in Threads, Check(t)
    PROVE  Inv'
<1>1. /\ GoTo(t, "exit") /\ UNCHANGED <<tables, state>>
      /\ th[t].at \in InTable \ {"store", "count"}
  BY DEF Check, At, InTable
<1>2. StateOK'
  BY <1>1 DEF Inv, StateOK, Last
<1> QED BY <1>1, <1>2, GoOn

LEMMA ExitInv ==
    ASSUME Inv, NEW t \in Threads, Exit(t)
    PROVE  Inv'
<1>0. At(t, "exit") /\ ~At(t, "idle") /\ UNCHANGED <<tables, state>>
  BY DEF Exit, At
<1>1. Last' = Last /\ StateOK'
  BY <1>0 DEF Inv, StateOK, Last
<1>2. th[t] \in Locals /\ th[t].key \in Keys /\ th[t].op \in {"add", "remove", "find"}
  BY <1>0, BusyKnown
<1>3. \/ /\ ~th[t].external
         /\ th' = [th EXCEPT ![t] = NextSlot(t, th[t].moved + 1, th[t].success)]
      \/ th' = [th EXCEPT ![t] = Goes(t, "start")]
      \/ th' = [th EXCEPT ![t] = Idle]
  BY Zenon DEF Exit
<1>4. CASE /\ ~th[t].external
           /\ th' = [th EXCEPT ![t] = NextSlot(t, th[t].moved + 1, th[t].success)]
  <2>1. th[t].moved + 1 \in Nat /\ th[t].success \in BOOLEAN
    BY <1>2 DEF Locals
  <2>2. Moves(t) /\ Scanned(t, th[t].moved + 1, th[t].success, th'[t])
    BY <1>4, <2>1, NextSlotTh, AtSlot DEF Inv
  <2>3. ThInv(t)'
    BY <1>0, <1>1, <1>4, <2>2, ScannedInv
  <2> QED BY <1>0, <1>1, <2>2, <2>3, Quiet DEF At, Scanned
<1>5. CASE th' = [th EXCEPT ![t] = Goes(t, "start")]
  <2>1. Moves(t) /\ Forgot(t, "start", th'[t])
    BY <1>5, GoesTh, PointsKnown DEF Inv
  <2>3. ThInv(t)'
    BY <1>2, <2>1 DEF Forgot, ThInv, CallOK, TaxOK, ProbeOK, At, Taxed, Assimilating, InTable
  <2> QED BY <1>0, <1>1, <2>1, <2>3, Quiet DEF At, Forgot
<1>6. CASE th' = [th EXCEPT ![t] = Idle]
  <2>1. Moves(t) /\ th'[t] = Idle
    BY <1>6, SetTh, PointsKnown DEF Inv
  <2>2. th'[t].at = "idle" /\ th'[t].external
    BY <2>1, PointsKnown
  <2>3. ThInv(t)'
    BY <2>2 DEF ThInv, CallOK, TaxOK, ProbeOK, At, Taxed, Assimilating, InTable
  <2> QED BY <1>0, <1>1, <2>1, <2>2, <2>3, Quiet DEF At
<1> QED BY <1>3, <1>4, <1>5, <1>6

(***************************************************************************)
(* The steps that change a slot                                            *)
(***************************************************************************)
\* A slot keeps its key, or is marked in a table that was left.
Kept(n, i, s) ==
    /\ s \in SlotType /\ s.key = Slot(n, i).key /\ s.key # NoKey
    /\ Slot(n, i).moved => s.moved
    /\ s.moved => Slot(n, i).moved \/ n < Last

LEMMA KeptOnward ==
    ASSUME Inv, NEW n \in 1 .. Last, NEW i \in Places(n), NEW s, Kept(n, i, s), Write(n, i, s)
    PROVE  /\ TablesType' /\ Onward /\ Last' = Last
           /\ \A q \in 1 .. Last : Places(q)' = Places(q) /\ Used(q)' = Used(q)
           /\ \A q \in 1 .. Last : \A j \in Places(q) :
                 Slot(q, j)' = IF q = n /\ j = i THEN s ELSE Slot(q, j)
<1>0. Last \in Nat
  BY LfhtAssumption DEF Inv, TablesType
<1>1. /\ TablesType' /\ Last' = Last
      /\ \A q \in 1 .. Last : /\ tables'[q].max = tables[q].max
                              /\ tables'[q].assimilated = tables[q].assimilated
                              /\ tables'[q].count = tables[q].count
      /\ \A q \in 1 .. Last : \A j \in Places(q) :
            Slot(q, j)' = IF q = n /\ j = i THEN s ELSE Slot(q, j)
  BY Written DEF Inv, Kept
<1>2. \A q \in 1 .. Last : Places(q)' = Places(q)
  BY <1>1 DEF Places
<1>3. Slot(n, i)' = s /\ s.key = Slot(n, i).key /\ (Slot(n, i).moved => s.moved)
  BY <1>1 DEF Kept
<1>4. \A q \in 1 .. Last : \A j \in Places(q) :
          /\ Slot(q, j)'.key = Slot(q, j).key
          /\ Slot(q, j).moved => Slot(q, j)'.moved
  BY <1>1, <1>3
<1>5. \A q \in 1 .. Last : Used(q)' = Used(q)
  BY <1>1, <1>2, <1>4 DEF Used, Places
<1>6. Onward
  BY <1>0, <1>1, <1>4 DEF Onward
<1> QED
  BY <1>1, <1>2, <1>5, <1>6

LEMMA KeptInv ==
    ASSUME Inv, NEW t \in Threads, NEW n \in 1 .. Last, NEW i \in Places(n), NEW s,
           Kept(n, i, s), Write(n, i, s), Moves(t), ThInv(t)', StateOK',
           \A q : Adding(q)' = Adding(q)
    PROVE  Inv'
<1>0. Last \in Nat /\ Last >= 1 /\ Last \in 1 .. Last
  BY LfhtAssumption DEF Inv, TablesType
<1>1. /\ TablesType' /\ Onward /\ Last' = Last
      /\ \A q \in 1 .. Last : Places(q)' = Places(q) /\ Used(q)' = Used(q)
      /\ \A q \in 1 .. Last : \A j \in Places(q) :
            Slot(q, j)' = IF q = n /\ j = i THEN s ELSE Slot(q, j)
  BY KeptOnward
<1>2. \A q \in 1 .. Last : /\ tables'[q].max = tables[q].max
                           /\ tables'[q].assimilated = tables[q].assimilated
                           /\ tables'[q].count = tables[q].count
  BY Written DEF Inv, Kept
<1>3. \A q \in 1 .. Last : \A j \in Places(q) :
          /\ Slot(q, j)'.key = Slot(q, j).key
          /\ Slot(q, j).moved => Slot(q, j)'.moved
  BY <1>1 DEF Onward, Kept
<1>4. \A u \in Threads : ThInv(u)'
  BY <1>1, OthersKeep DEF Inv, Moves
<1>5. Current'
  <2>1. tables'[Last].assimilated = FALSE
    BY <1>0, <1>2 DEF Inv, Current, TablesType, Tables
  <2>2. ASSUME NEW j \in Places(Last) PROVE ~Slot(Last, j)'.moved
    <3>1. ~Slot(Last, j).moved
      BY DEF Inv, Current
    <3>2. CASE n = Last /\ j = i
      <4>1. Slot(Last, j)' = s /\ ~s.moved
        BY <1>0, <1>1, <3>1, <3>2 DEF Kept
      <4> QED BY <4>1
    <3>3. CASE ~(n = Last /\ j = i)
      BY <1>0, <1>1, <3>1, <3>3
    <3> QED BY <3>2, <3>3
  <2> QED BY <1>0, <1>1, <2>1, <2>2 DEF Current, Slot
<1>6. Vacant'
  BY <1>1 DEF Inv, Vacant, Kept
<1>7. Probed'
  <2>1. SUFFICES ASSUME NEW q \in 1 .. Last, NEW a \in Used(q), NEW j \in Places(q),
                        Distance(q, Slot(q, a).key, j)' < Distance(q, Slot(q, a).key, a)'
                 PROVE  j \in Used(q) /\ ~(/\ Matches(Slot(q, j)', Slot(q, a)'.key)
                                           /\ Matches(Slot(q, a)', Slot(q, a)'.key))
    BY <1>1, Zenon DEF Probed
  <2>2. a \in Places(q) /\ Slot(q, a)'.key = Slot(q, a).key
    BY <1>3 DEF Used, Places
  <2>3. PICK k : k = Slot(q, a).key
    OBVIOUS
  <2>4. Distance(q, k, j) < Distance(q, k, a)
    <3>1. /\ Distance(q, k, j)' = Distance(q, k, j)
          /\ Distance(q, k, a)' = Distance(q, k, a)
      BY <1>1, OnwardPlaces DEF Inv
    <3> QED BY <2>1, <2>2, <2>3, <3>1 DEF Distance, Home
  <2>5. j \in Used(q) /\ ~(Matches(Slot(q, j), k) /\ Matches(Slot(q, a), k))
    BY <2>3, <2>4 DEF Inv, Probed
  <2> QED BY <1>3, <2>2, <2>3, <2>5 DEF Matches
<1>8. CountOK'
  BY <1>1, <1>2 DEF Inv, CountOK
<1> QED BY <1>1, <1>4, <1>5, <1>6, <1>7, <1>8 DEF Inv, Moves

LEMMA MarkInv ==
    ASSUME Inv, NEW t \in Threads, Mark(t)
    PROVE  Inv'
<1>f. PICK f : f = th[t].from
  OBVIOUS
<1>i. PICK i : i = th[t].mi
  OBVIOUS
<1>e. PICK e : e = Slot(f, i)
  OBVIOUS
<1>s. PICK s : s = [e EXCEPT !.moved = TRUE]
  OBVIOUS
<1>0. At(t, "mark") /\ ~At(t, "idle") /\ UNCHANGED state
  BY DEF Mark, At
<1>1. /\ f \in 1 .. Last - 1 /\ f \in 1 .. Last /\ i \in Places(f) /\ e \in SlotType
      /\ After(f, i) \in Nat /\ th[t] \in Locals /\ Last \in Nat
      /\ th[t].key \in Keys /\ th[t].op \in {"add", "remove", "find"}
  BY <1>0, <1>f, <1>i, <1>e, AtSlot
<1>2. /\ th[t].mkey \in Keys /\ e.key = th[t].mkey /\ th[t].external
      /\ th[t].moved \in Nat /\ th[t].success \in BOOLEAN
  BY <1>0, <1>1, <1>f, <1>i, <1>e DEF Inv, ThInv, TaxOK, At, Taxed, Locals
<1>3. \/ /\ UNCHANGED tables
         /\ th' = [th EXCEPT ![t] = NextSlot(t, th[t].moved, th[t].success)]
      \/ /\ Write(f, i, s)
         /\ th' = [th EXCEPT ![t] = NextSlot(t, th[t].moved, th[t].success)]
      \/ /\ Write(f, i, s) /\ th[t].mval # TOMBSTONE
         /\ th' = [th EXCEPT ![t] = [th[t] EXCEPT !.at = "start", !.external = FALSE]]
  BY <1>f, <1>i, <1>e, <1>s DEF Mark
<1>4. Kept(f, i, s)
  <2>1. s \in SlotType /\ s.key = e.key /\ s.moved = TRUE
    BY <1>1, <1>s DEF SlotType
  <2>2. e.key # NoKey
    BY <1>2, LfhtAssumption
  <2>3. f < Last
    BY <1>1
  <2> QED BY <2>1, <2>2, <2>3, <1>e DEF Kept
<1>5. CASE /\ UNCHANGED tables
           /\ th' = [th EXCEPT ![t] = NextSlot(t, th[t].moved, th[t].success)]
  <2>1. Last' = Last /\ StateOK'
    BY <1>0, <1>5 DEF Inv, StateOK, Last
  <2>2. Moves(t) /\ Scanned(t, th[t].moved, th[t].success, th'[t])
    BY <1>1, <1>2, <1>5, <1>f, <1>i, NextSlotTh DEF Inv
  <2>3. ThInv(t)'
    BY <1>0, <1>5, <2>1, <2>2, ScannedInv
  <2> QED BY <1>0, <1>5, <2>1, <2>2, <2>3, Quiet DEF At, Scanned
<1>6. CASE /\ Write(f, i, s)
           /\ th' = [th EXCEPT ![t] = NextSlot(t, th[t].moved, th[t].success)]
  <2>1. Last' = Last /\ Onward /\ \A q \in 1 .. Last : tables'[q].max = tables[q].max
    BY <1>1, <1>4, <1>6, KeptOnward DEF Onward
  <2>2. Moves(t) /\ Scanned(t, th[t].moved, th[t].success, th'[t])
    BY <1>1, <1>2, <1>6, <1>f, <1>i, NextSlotTh DEF Inv
  <2>3. ThInv(t)'
    BY <1>0, <2>1, <2>2, ScannedInv
  <2>4. StateOK'
    BY <1>0, <2>1 DEF Inv, StateOK
  <2>5. \A q : Adding(q)' = Adding(q)
    BY <1>0, <2>2 DEF Adding, Moves, At, Scanned
  <2> QED BY <1>1, <1>4, <1>6, <2>2, <2>3, <2>4, <2>5, KeptInv
<1>7. CASE /\ Write(f, i, s) /\ th[t].mval # TOMBSTONE
           /\ th' = [th EXCEPT ![t] = [th[t] EXCEPT !.at = "start", !.external = FALSE]]
  <2>c. PICK c : c = [th[t] EXCEPT !.at = "start", !.external = FALSE]
    OBVIOUS
  <2>1. "start" \in Points
    BY DEF Points
  <2>2. /\ c \in Locals /\ c.at = "start" /\ c.key = th[t].key /\ c.op = th[t].op
        /\ c.from = f /\ c.mi = i /\ c.external = FALSE
        /\ c.mkey = th[t].mkey /\ c.mval = th[t].mval
    BY <1>1, <2>1, <2>c, <1>f, <1>i DEF Locals
  <2>3. Moves(t) /\ th'[t] = c
    BY <1>7, <2>c, <2>2, SetTh DEF Inv
  <2>4. /\ Last' = Last /\ Onward /\ Places(f)' = Places(f)
        /\ Slot(f, i)' = s
    BY <1>1, <1>4, <1>7, KeptOnward
  <2>5. s.key = th[t].mkey /\ s.moved
    BY <1>1, <1>2, <1>s DEF SlotType
  <2>6. Places(th[t].from)' = Places(f)' /\ Slot(th[t].from, th[t].mi)' = Slot(f, i)'
    BY <2>2, <2>3 DEF Places, Slot
  <2>7. ThInv(t)'
    BY <1>1, <1>2, <1>7, <2>2, <2>3, <2>4, <2>5, <2>6
       DEF ThInv, CallOK, TaxOK, ProbeOK, At, Taxed, Assimilating, InTable
  <2>8. StateOK'
    BY <1>0, <2>4 DEF Inv, StateOK
  <2>9. \A q : Adding(q)' = Adding(q)
    BY <1>0, <2>2, <2>3 DEF Adding, Moves, At
  <2> QED BY <1>1, <1>4, <1>7, <2>3, <2>7, <2>8, <2>9, KeptInv
<1> QED BY <1>3, <1>5, <1>6, <1>7

\* An add, remove or find that is done with its slot.
LEMMA Answered ==
    ASSUME ThType, NEW t \in Threads, NEW p \in Points, NEW v \in Values \cup {TOMBSTONE},
           Returns(t, p, v)
    PROVE  /\ Moves(t) /\ th'[t] \in Locals
           /\ th'[t].at = p /\ th'[t].op = th[t].op /\ th'[t].key = th[t].key
           /\ th'[t].val = th[t].val /\ th'[t].hdr = th[t].hdr /\ th'[t].i = th[t].i
           /\ th'[t].ret = (th[t].ret \/ th[t].external) /\ th'[t].valp = v
           /\ th'[t].from = th[t].from /\ th'[t].mi = th[t].mi /\ th'[t].moved = th[t].moved
           /\ th'[t].success = th[t].success /\ th'[t].mkey = th[t].mkey
           /\ th'[t].mval = th[t].mval /\ th'[t].external = th[t].external
<1>r. PICK r \in BOOLEAN : r = (th[t].ret \/ th[t].external)
  OBVIOUS
<1>c. PICK c : c = [th[t] EXCEPT !.at = p, !.ret = r, !.valp = v]
  OBVIOUS
<1>0. th[t] \in Locals
  BY Typed
<1>1. /\ c \in Locals /\ c.at = p /\ c.op = th[t].op /\ c.key = th[t].key
      /\ c.val = th[t].val /\ c.hdr = th[t].hdr /\ c.i = th[t].i
      /\ c.ret = r /\ c.valp = v /\ c.from = th[t].from
      /\ c.mi = th[t].mi /\ c.moved = th[t].moved
      /\ c.success = th[t].success /\ c.mkey = th[t].mkey
      /\ c.mval = th[t].mval /\ c.external = th[t].external
  BY <1>0, <1>c DEF Locals
<1>2. th' = [th EXCEPT ![t] = c]
  BY <1>c, <1>r DEF Returns
<1>3. Moves(t) /\ th'[t] = c
  BY <1>1, <1>2, SetTh
<1> QED
  BY <1>1, <1>3, <1>r

\* A thread in an add, remove or find is at a slot of a table in the chain.
LEMMA AtPlace ==
    ASSUME Inv, NEW t \in Threads, At(t, "probe") \/ At(t, "update") \/ At(t, "store")
    PROVE  /\ th[t].hdr \in 1 .. Last /\ th[t].i \in Places(th[t].hdr)
           /\ tables[th[t].hdr].max \in Nat \ {0}
           /\ Here(t) = Slot(th[t].hdr, th[t].i) /\ Here(t) \in SlotType
           /\ ~At(t, "idle") /\ th[t] \in Locals
           /\ TheKey(t) \in Keys /\ TheKey(t) # NoKey /\ TheOp(t) \in {"add", "remove", "find"}
           /\ TheVal(t) \in Values \cup {TOMBSTONE}
<1>0. ~At(t, "idle")
  BY DEF At
<1>1. th[t].hdr \in 1 .. Last /\ th[t].i \in Places(th[t].hdr)
  BY DEF Inv, ThInv, ProbeOK, At, InTable
<1>2. /\ tables[th[t].hdr].max \in Nat \ {0}
      /\ Slot(th[t].hdr, th[t].i) \in SlotType
  BY <1>1, TableKnown DEF Inv
<1>3. /\ TheKey(t) \in Keys /\ TheOp(t) \in {"add", "remove", "find"}
      /\ TheVal(t) \in Values \cup {TOMBSTONE} /\ th[t] \in Locals
  BY <1>0, BusyKnown
<1>4. Here(t) = Slot(th[t].hdr, th[t].i)
  BY DEF Here
<1>5. TheKey(t) # NoKey
  BY <1>3, LfhtAssumption
<1> QED BY <1>0, <1>1, <1>2, <1>3, <1>4, <1>5

LEMMA UpdateInv ==
    ASSUME Inv, NEW t \in Threads, Update(t)
    PROVE  Inv'
<1>h. PICK h : h = th[t].hdr
  OBVIOUS
<1>i. PICK i : i = th[t].i
  OBVIOUS
<1>e. PICK e : e = Slot(h, i)
  OBVIOUS
<1>w. PICK w : w = IF TheOp(t) = "remove" THEN TOMBSTONE ELSE TheVal(t)
  OBVIOUS
<1>s. PICK s : s = [e EXCEPT !.val = w]
  OBVIOUS
<1>v. PICK v : v = IF TheOp(t) = "find" THEN e.val ELSE TOMBSTONE
  OBVIOUS
<1>0. At(t, "update") /\ UNCHANGED state
  BY DEF Update
<1>1. /\ h \in 1 .. Last /\ i \in Places(h) /\ e \in SlotType /\ Here(t) = e
      /\ ~At(t, "idle") /\ TheKey(t) # NoKey /\ TheOp(t) \in {"add", "remove", "find"}
      /\ TheVal(t) \in Values \cup {TOMBSTONE}
  BY <1>0, <1>h, <1>i, <1>e, AtPlace
<1>2. e.key = TheKey(t)
  BY <1>0, <1>1 DEF Inv, ThInv, ProbeOK
<1>3. v \in Values \cup {TOMBSTONE} /\ w \in Values \cup {TOMBSTONE} /\ "exit" \in Points
  BY <1>1, <1>v, <1>w, PointsKnown DEF SlotType
<1>4. Returns(t, "exit", v)
  BY <1>1, <1>v DEF Update
<1>5. /\ Moves(t) /\ th'[t].at = "exit" /\ th'[t].op = th[t].op /\ th'[t].key = th[t].key
      /\ th'[t].hdr = h
      /\ th'[t].from = th[t].from /\ th'[t].mi = th[t].mi /\ th'[t].mkey = th[t].mkey
      /\ th'[t].mval = th[t].mval /\ th'[t].external = th[t].external
  BY <1>3, <1>4, <1>h, Answered DEF Inv
<1>6. /\ s \in SlotType /\ s.key = e.key /\ s.moved = e.moved
  BY <1>1, <1>3, <1>s DEF SlotType
<1>7. Kept(h, i, s)
  BY <1>1, <1>2, <1>6, <1>e DEF Kept
<1>8. UNCHANGED tables \/ Write(h, i, s)
  BY <1>1, <1>h, <1>i, <1>e, <1>w, <1>s DEF Update
<1>9. \A q : Adding(q)' = Adding(q)
  BY <1>0, <1>5 DEF Adding, Moves, At
<1>10. ~At(t, "store") /\ ~At(t, "count") /\ ~At(t, "store")' /\ ~At(t, "count")'
  BY <1>0, <1>5 DEF At
<1>11. Last' = Last /\ Onward
  <2>1. CASE UNCHANGED tables
    BY <2>1, Still
  <2>2. CASE Write(h, i, s)
    BY <2>2, <1>1, <1>7, KeptOnward
  <2> QED BY <1>8, <2>1, <2>2
<1>12. CallOK(t)' /\ TaxOK(t)'
  BY <1>1, <1>5, <1>11, TaxKept DEF Taxed
<1>13. ProbeOK(t)'
  BY <1>1, <1>5, <1>11 DEF ProbeOK, At
<1>14. StateOK'
  BY <1>0, <1>11 DEF Inv, StateOK
<1>15. CASE UNCHANGED tables
  BY <1>15, <1>5, <1>10, <1>12, <1>13, <1>14, Quiet DEF ThInv
<1>16. CASE Write(h, i, s)
  BY <1>16, <1>1, <1>5, <1>7, <1>9, <1>12, <1>13, <1>14, KeptInv DEF ThInv
<1> QED BY <1>8, <1>15, <1>16

LEMMA StoreInv ==
    ASSUME Inv, NEW t \in Threads, Store(t)
    PROVE  Inv'
<1>h. PICK h : h = th[t].hdr
  OBVIOUS
<1>i. PICK i : i = th[t].i
  OBVIOUS
<1>e. PICK e : e = Slot(h, i)
  OBVIOUS
<1>s. PICK s : s = [e EXCEPT !.val = TheVal(t)]
  OBVIOUS
<1>0. At(t, "store") /\ UNCHANGED state
  BY DEF Store
<1>1. /\ h \in 1 .. Last /\ i \in Places(h) /\ e \in SlotType /\ Here(t) = e
      /\ ~At(t, "idle") /\ TheKey(t) # NoKey
      /\ TheVal(t) \in Values \cup {TOMBSTONE}
  BY <1>0, <1>h, <1>i, <1>e, AtPlace
<1>2. e.key = TheKey(t)
  BY <1>0, <1>1 DEF Inv, ThInv, ProbeOK
<1>3. TOMBSTONE \in Values \cup {TOMBSTONE} /\ "count" \in Points
  BY PointsKnown
<1>4. Returns(t, "count", TOMBSTONE) /\ Write(h, i, s)
  BY <1>1, <1>h, <1>i, <1>e, <1>s DEF Store
<1>5. /\ Moves(t) /\ th'[t].at = "count" /\ th'[t].op = th[t].op /\ th'[t].key = th[t].key
      /\ th'[t].hdr = h
      /\ th'[t].from = th[t].from /\ th'[t].mi = th[t].mi /\ th'[t].mkey = th[t].mkey
      /\ th'[t].mval = th[t].mval /\ th'[t].external = th[t].external
  BY <1>3, <1>4, <1>h, Answered DEF Inv
<1>6. /\ s \in SlotType /\ s.key = e.key /\ s.moved = e.moved
  BY <1>1, <1>s DEF SlotType
<1>7. Kept(h, i, s)
  BY <1>1, <1>2, <1>6, <1>e DEF Kept
<1>9. \A q : Adding(q)' = Adding(q)
  BY <1>0, <1>5, <1>h DEF Adding, Moves, At
<1>11. Last' = Last /\ Onward
  BY <1>4, <1>1, <1>7, KeptOnward
<1>12. CallOK(t)' /\ TaxOK(t)'
  BY <1>1, <1>5, <1>11, TaxKept DEF Taxed
<1>13. ProbeOK(t)'
  BY <1>1, <1>5, <1>11 DEF ProbeOK, At
<1>14. StateOK'
  BY <1>0, <1>11 DEF Inv, StateOK
<1> QED
  BY <1>4, <1>1, <1>5, <1>7, <1>9, <1>12, <1>13, <1>14, KeptInv DEF ThInv

(***************************************************************************)
(* The steps that change a table, and those that add to one or to them     *)
(***************************************************************************)
\* Slots and their places are as they were.
LEMMA SlotsStay ==
    ASSUME Inv, TablesType', Last' = Last,
           \A q \in 1 .. Last : tables'[q].max = tables[q].max,
           \A q \in 1 .. Last : tables[q].assimilated => tables'[q].assimilated,
           ~tables'[Last].assimilated,
           \A q \in 1 .. Last : \A j \in Places(q) : Slot(q, j)' = Slot(q, j)
    PROVE  /\ Onward /\ Current' /\ Vacant' /\ Probed'
           /\ \A q \in 1 .. Last : Used(q)' = Used(q)
<1>0. Last \in Nat /\ Last \in 1 .. Last
  BY LfhtAssumption DEF Inv, TablesType
<1>1. \A q \in 1 .. Last : Places(q)' = Places(q)
  BY DEF Places
<1>2. \A q \in 1 .. Last : Used(q)' = Used(q)
  BY <1>1 DEF Used, Places
<1>3. Onward
  BY <1>0 DEF Onward
<1>4. Current'
  BY <1>0, <1>1 DEF Inv, Current
<1>5. Vacant'
  BY <1>1 DEF Inv, Vacant
<1>6. Probed'
  <2>1. \A q \in 1 .. Last : \A k, i : Distance(q, k, i)' = Distance(q, k, i)
    BY <1>3, OnwardPlaces DEF Inv
  <2>2. \A q \in 1 .. Last : Used(q) \subseteq Places(q)
    BY DEF Used, Places
  <2>3. SUFFICES ASSUME NEW q \in 1 .. Last, NEW a \in Used(q), NEW j \in Places(q),
                        Distance(q, Slot(q, a).key, j)' < Distance(q, Slot(q, a).key, a)'
                 PROVE  j \in Used(q) /\ ~(/\ Matches(Slot(q, j)', Slot(q, a)'.key)
                                           /\ Matches(Slot(q, a)', Slot(q, a)'.key))
    BY <1>1, <1>2, Zenon DEF Probed
  <2>4. Slot(q, a)' = Slot(q, a) /\ Slot(q, j)' = Slot(q, j)
    BY <2>2
  <2>5. PICK k : k = Slot(q, a).key
    OBVIOUS
  <2>6. Distance(q, k, j) < Distance(q, k, a)
    <3>1. /\ Distance(q, k, j)' = Distance(q, k, j)
          /\ Distance(q, k, a)' = Distance(q, k, a)
      BY <2>1
    <3> QED BY <2>3, <2>4, <2>5, <3>1 DEF Distance, Home
  <2> QED BY <2>4, <2>5, <2>6 DEF Inv, Probed
<1> QED BY <1>2, <1>3, <1>4, <1>5, <1>6

LEMMA FinishInv ==
    ASSUME Inv, NEW t \in Threads, Finish(t)
    PROVE  Inv'
<1>f. PICK f : f = th[t].from
  OBVIOUS
<1>0. /\ At(t, "finish") /\ UNCHANGED state /\ GoTo(t, "recheck")
      /\ tables' = [tables EXCEPT ![f].assimilated = TRUE]
  BY <1>f DEF Finish
<1>1. /\ f \in 1 .. Last - 1 /\ f \in 1 .. Last /\ f # Last /\ Last \in 1 .. Last
      /\ th[t].external /\ TablesType
  BY <1>0, <1>f, LfhtAssumption DEF Inv, ThInv, TaxOK, At, Assimilating, Taxed, TablesType
<1>2. /\ TablesType' /\ Last' = Last
      /\ \A q \in 1 .. Last : /\ tables'[q].max = tables[q].max
                              /\ q = f => tables'[q].assimilated = TRUE
                              /\ q # f => tables'[q].assimilated = tables[q].assimilated
                              /\ tables'[q].count = tables[q].count
      /\ \A q \in 1 .. Last : \A j \in Places(q) : Slot(q, j)' = Slot(q, j)
  BY <1>0, <1>1, Assimilated
<1>3. ~tables'[Last].assimilated
  BY <1>1, <1>2 DEF Inv, Current
<1>4. \A q \in 1 .. Last : tables[q].assimilated => tables'[q].assimilated
  BY <1>2
<1>5. /\ Onward /\ Current' /\ Vacant' /\ Probed'
      /\ \A q \in 1 .. Last : Used(q)' = Used(q)
  BY <1>2, <1>3, <1>4, SlotsStay
<1>6. /\ Moves(t) /\ th'[t].at = "recheck" /\ th'[t].op = th[t].op /\ th'[t].key = th[t].key
      /\ th'[t].from = f /\ th'[t].external = th[t].external
  BY <1>0, <1>f, GoToTh, PointsKnown DEF Inv
<1>7. th[t].key \in Keys /\ th[t].op \in {"add", "remove", "find"}
  BY <1>0, BusyKnown DEF At
<1>8. ThInv(t)'
  BY <1>1, <1>2, <1>6, <1>7
     DEF ThInv, CallOK, TaxOK, ProbeOK, At, Taxed, Assimilating, InTable
<1>9. \A u \in Threads : ThInv(u)'
  BY <1>5, <1>6, <1>8, OthersKeep DEF Inv, Moves
<1>10. \A q : Adding(q)' = Adding(q)
  BY <1>0, <1>6 DEF Adding, Moves, At
<1>11. CountOK'
  BY <1>2, <1>5, <1>10 DEF Inv, CountOK
<1>12. StateOK'
  BY <1>0, <1>2 DEF Inv, StateOK
<1> QED BY <1>2, <1>5, <1>6, <1>9, <1>11, <1>12 DEF Inv, Moves

LEMMA AddingFinite ==
    ASSUME NEW n
    PROVE  IsFiniteSet(Adding(n)) /\ Cardinality(Adding(n)) \in Nat
<1>1. Adding(n) \subseteq Threads
  BY DEF Adding
<1> QED BY <1>1, LfhtAssumption, FS_Subset, FS_CardinalityType

LEMMA UsedFinite ==
    ASSUME NEW n, tables[n].max \in Nat \ {0}
    PROVE  IsFiniteSet(Used(n)) /\ Cardinality(Used(n)) \in Nat
<1>1. Used(n) \subseteq 0 .. tables[n].max - 1
  BY DEF Used
<1>2. IsFiniteSet(0 .. tables[n].max - 1)
  BY FS_Interval
<1> QED BY <1>1, <1>2, FS_Subset, FS_CardinalityType

LEMMA CountInv ==
    ASSUME Inv, NEW t \in Threads, Count(t)
    PROVE  Inv'
<1>h. PICK h : h = th[t].hdr
  OBVIOUS
<1>n. PICK n : n = tables[h].count + 1
  OBVIOUS
<1>p. PICK p : p = IF n > Threshold(tables[h].max) THEN "grow" ELSE "exit"
  OBVIOUS
<1>0. /\ At(t, "count") /\ ~At(t, "idle") /\ UNCHANGED state /\ GoTo(t, p)
      /\ tables' = [tables EXCEPT ![h].count = n]
  BY <1>h, <1>n, <1>p DEF Count, At
<1>1. h \in 1 .. Last /\ TablesType /\ Last \in 1 .. Last
  BY <1>0, <1>h, LfhtAssumption DEF Inv, ThInv, ProbeOK, At, InTable, TablesType
<1>2. tables[h].count \in Int /\ n \in Int /\ tables[h].max \in Nat \ {0}
  BY <1>1, <1>n, TableKnown
<1>3. /\ TablesType' /\ Last' = Last
      /\ \A q \in 1 .. Last : /\ tables'[q].max = tables[q].max
                              /\ tables'[q].assimilated = tables[q].assimilated
                              /\ tables'[q].count = IF q = h THEN n ELSE tables[q].count
      /\ \A q \in 1 .. Last : \A j \in Places(q) : Slot(q, j)' = Slot(q, j)
  BY <1>0, <1>1, <1>2, Counted
<1>4. ~tables'[Last].assimilated
  BY <1>1, <1>3 DEF Inv, Current
<1>5. /\ Onward /\ Current' /\ Vacant' /\ Probed'
      /\ \A q \in 1 .. Last : Used(q)' = Used(q)
  BY <1>3, <1>4, SlotsStay
<1>6. p \in Points /\ p \notin Taxed /\ p # "idle" /\ p \in {"grow", "exit"}
  BY <1>p, PointsKnown DEF Taxed
<1>7. /\ Moves(t) /\ th'[t].at = p /\ th'[t].op = th[t].op /\ th'[t].key = th[t].key
      /\ th'[t].hdr = h
      /\ th'[t].from = th[t].from /\ th'[t].mi = th[t].mi /\ th'[t].mkey = th[t].mkey
      /\ th'[t].mval = th[t].mval /\ th'[t].external = th[t].external
  BY <1>0, <1>6, <1>h, GoToTh DEF Inv
<1>8. CallOK(t)' /\ TaxOK(t)'
  BY <1>0, <1>5, <1>6, <1>7, TaxKept
<1>9. ProbeOK(t)'
  BY <1>1, <1>3, <1>6, <1>7 DEF ProbeOK, At
<1>10. \A u \in Threads : ThInv(u)'
  BY <1>5, <1>7, <1>8, <1>9, OthersKeep DEF Inv, Moves, ThInv
<1>11. Adding(h)' = Adding(h) \ {t} /\ t \in Adding(h)
  BY <1>0, <1>6, <1>7, <1>h DEF Adding, Moves, At
<1>12. \A q : q # h => Adding(q)' = Adding(q)
  BY <1>0, <1>6, <1>7, <1>h DEF Adding, Moves, At
<1>13. Cardinality(Adding(h)') = Cardinality(Adding(h)) - 1 /\ Cardinality(Adding(h)) \in Nat
  BY <1>11, AddingFinite, FS_RemoveElement
<1>14. Cardinality(Used(h)) \in Nat
  BY <1>2, UsedFinite
<1>15. n = Cardinality(Used(h)) - Cardinality(Adding(h)')
  BY <1>1, <1>13, <1>14, <1>n DEF Inv, CountOK
<1>16. CountOK'
  <2>1. ASSUME NEW q \in 1 .. Last
        PROVE  tables'[q].count = Cardinality(Used(q)') - Cardinality(Adding(q)')
    <3>1. CASE q = h
      BY <3>1, <1>3, <1>5, <1>15
    <3>2. CASE q # h
      BY <3>2, <1>3, <1>5, <1>12 DEF Inv, CountOK
    <3> QED BY <3>1, <3>2
  <2> QED BY <2>1, <1>3 DEF CountOK
<1>17. StateOK'
  BY <1>0, <1>3 DEF Inv, StateOK
<1> QED BY <1>3, <1>5, <1>7, <1>10, <1>16, <1>17 DEF Inv, Moves

\* The table that is appended is empty.
LEMMA GrownTables ==
    ASSUME Inv, NEW t \in Threads, Grow(t), NEW l, l = Last
    PROVE  /\ TablesType' /\ Last' = l + 1 /\ l \in Nat /\ Onward
           /\ \A q \in 1 .. l : tables'[q] = tables[q]
           /\ \A q \in 1 .. l : /\ Places(q)' = Places(q) /\ Used(q)' = Used(q)
                                /\ \A j : Slot(q, j)' = Slot(q, j)
           /\ tables'[l + 1].max \in Nat \ {0}
           /\ tables'[l + 1].max = 2 * tables[l].max
           /\ tables'[l + 1].assimilated = FALSE /\ tables'[l + 1].count = 0
           /\ \A i \in Places(l + 1)' : Slot(l + 1, i)' = EmptySlot
           /\ Used(l + 1)' = {}
<1>0. l \in Nat /\ l \in 1 .. Last
  BY LfhtAssumption DEF Inv, TablesType
<1>1. /\ TablesType' /\ Last' = l + 1
      /\ \A q \in 1 .. l : tables'[q] = tables[q]
      /\ tables'[l + 1].max = 2 * tables[l].max
      /\ tables'[l + 1].assimilated = FALSE
      /\ tables'[l + 1].count = 0
      /\ \A i \in 0 .. 2 * tables[l].max - 1 : tables'[l + 1].slot[i] = EmptySlot
  BY Appended DEF Inv, Grow
<1>2. tables[l].max \in Nat \ {0}
  BY <1>0, TableKnown DEF Inv
<1>3. \A q \in 1 .. l : /\ Places(q)' = Places(q) /\ Used(q)' = Used(q)
                        /\ \A j : Slot(q, j)' = Slot(q, j)
  BY <1>1 DEF Places, Used, Slot
<1>4. Onward
  <2>1. Last' \in Nat /\ Last <= Last'
    BY <1>0, <1>1
  <2> QED BY <2>1, <1>1, <1>3 DEF Onward
<1>5. ASSUME NEW i \in Places(l + 1)'
      PROVE  Slot(l + 1, i)' = EmptySlot
  <2>1. i \in 0 .. 2 * tables[l].max - 1
    BY <1>1, <1>5 DEF Places
  <2> QED BY <1>1, <2>1 DEF Slot
<1>6. EmptySlot.key = NoKey
  BY DEF EmptySlot
<1>7. Used(l + 1)' = {}
  BY <1>5, <1>6 DEF Used, Places
<1>8. tables'[l + 1].max \in Nat \ {0}
  BY <1>1, <1>2
<1> QED BY <1>0, <1>1, <1>3, <1>4, <1>5, <1>7, <1>8

LEMMA GrowInv ==
    ASSUME Inv, NEW t \in Threads, Grow(t)
    PROVE  Inv'
<1>l. PICK l : l = Last
  OBVIOUS
<1>0. /\ At(t, "grow") /\ ~At(t, "idle") /\ UNCHANGED state /\ GoTo(t, "published")
      /\ th[t].hdr = l
  BY <1>l DEF Grow, At
<1>1. /\ TablesType' /\ Last' = l + 1 /\ l \in Nat /\ Onward
      /\ \A q \in 1 .. l : tables'[q] = tables[q]
      /\ \A q \in 1 .. l : /\ Places(q)' = Places(q) /\ Used(q)' = Used(q)
                           /\ \A j : Slot(q, j)' = Slot(q, j)
      /\ tables'[l + 1].assimilated = FALSE /\ tables'[l + 1].count = 0
      /\ \A i \in Places(l + 1)' : Slot(l + 1, i)' = EmptySlot
      /\ Used(l + 1)' = {}
  BY <1>l, GrownTables
<1>2. l >= 1 /\ l \in 1 .. Last /\ \A q \in 1 .. Last' : q # l + 1 => q \in 1 .. l
  BY <1>l, <1>1, LfhtAssumption DEF Inv, TablesType
<1>3. /\ Moves(t) /\ th'[t].at = "published" /\ th'[t].op = th[t].op /\ th'[t].key = th[t].key
      /\ th'[t].hdr = l
      /\ th'[t].from = th[t].from /\ th'[t].mi = th[t].mi /\ th'[t].mkey = th[t].mkey
      /\ th'[t].mval = th[t].mval /\ th'[t].external = th[t].external
  BY <1>0, GoToTh, PointsKnown DEF Inv
<1>4. CallOK(t)' /\ TaxOK(t)'
  BY <1>0, <1>1, <1>3, TaxKept DEF Taxed
<1>5. ProbeOK(t)'
  BY <1>1, <1>2, <1>3 DEF ProbeOK, At
<1>6. \A u \in Threads : ThInv(u)'
  BY <1>1, <1>3, <1>4, <1>5, OthersKeep DEF Inv, Moves, ThInv
<1>7. Current'
  <2>1. ~EmptySlot.moved
    BY DEF EmptySlot
  <2> QED BY <1>1, <2>1 DEF Current, Slot, Places
<1>8. Vacant'
  BY <1>1, <1>2, <1>l DEF Inv, Vacant
<1>9. Probed'
  <2>1. SUFFICES ASSUME NEW q \in 1 .. Last', NEW a \in Used(q)', NEW j \in Places(q)',
                        Distance(q, Slot(q, a).key, j)' < Distance(q, Slot(q, a).key, a)'
                 PROVE  j \in Used(q)' /\ ~(/\ Matches(Slot(q, j)', Slot(q, a)'.key)
                                            /\ Matches(Slot(q, a)', Slot(q, a)'.key))
    BY Zenon DEF Probed
  <2>2. q \in 1 .. l
    BY <1>1, <1>2, <2>1
  <2>3. a \in Used(q) /\ j \in Places(q)
    BY <1>1, <2>1, <2>2
  <2>4. Distance(q, Slot(q, a).key, j) < Distance(q, Slot(q, a).key, a)
    <3>1. tables'[q] = tables[q] /\ Slot(q, a)' = Slot(q, a)
      BY <1>1, <2>2
    <3> QED BY <2>1, <3>1 DEF Distance, Home
  <2>5. j \in Used(q) /\ ~(/\ Matches(Slot(q, j), Slot(q, a).key)
                           /\ Matches(Slot(q, a), Slot(q, a).key))
    BY <2>2, <2>3, <2>4, <1>l DEF Inv, Probed
  <2> QED BY <1>1, <2>2, <2>5
<1>10. \A q : Adding(q)' = Adding(q)
  BY <1>0, <1>3 DEF Adding, Moves, At
<1>11. Adding(l + 1) = {}
  <2>1. ASSUME NEW u \in Threads, At(u, "store") \/ At(u, "count") PROVE th[u].hdr \in 1 .. l
    BY <2>1, <1>l DEF Inv, ThInv, ProbeOK, At, InTable
  <2> QED BY <2>1, <1>1 DEF Adding
<1>12. CountOK'
  <2>1. ASSUME NEW q \in 1 .. Last'
        PROVE  tables'[q].count = Cardinality(Used(q)') - Cardinality(Adding(q)')
    <3>1. CASE q = l + 1
      BY <3>1, <1>1, <1>10, <1>11, FS_EmptySet
    <3>2. CASE q # l + 1
      <4>1. q \in 1 .. l
        BY <3>2, <2>1, <1>2
      <4>2. tables[q].count = Cardinality(Used(q)) - Cardinality(Adding(q))
        BY <4>1, <1>l DEF Inv, CountOK
      <4> QED BY <4>1, <4>2, <1>1, <1>10
    <3> QED BY <3>1, <3>2
  <2> QED BY <2>1 DEF CountOK
<1>13. StateOK'
  BY <1>0, <1>1, <1>2, <1>l DEF Inv, StateOK
<1> QED BY <1>1, <1>3, <1>6, <1>7, <1>8, <1>9, <1>12, <1>13 DEF Inv, Moves

\* A claim takes the first empty place that the probe meets.
Claimed(h, i, k, s) ==
    /\ h \in 1 .. Last /\ i \in Places(h) /\ k \in Keys /\ k # NoKey
    /\ Slot(h, i) = EmptySlot /\ s \in SlotType /\ s.key = k /\ ~s.moved /\ s.val = TOMBSTONE
    /\ TablesType' /\ Last' = Last /\ Last \in Nat /\ Onward
    /\ \A q \in 1 .. Last : /\ Places(q)' = Places(q)
                            /\ tables'[q].max = tables[q].max
                            /\ tables'[q].assimilated = tables[q].assimilated
                            /\ tables'[q].count = tables[q].count
                            /\ Used(q)' = IF q = h THEN Used(q) \cup {i} ELSE Used(q)
    /\ \A q \in 1 .. Last : \A j \in Places(q) :
          Slot(q, j)' = IF q = h /\ j = i THEN s ELSE Slot(q, j)
    /\ i \notin Used(h)

LEMMA ClaimedTables ==
    ASSUME Inv, NEW t \in Threads, Claim(t), NEW h, NEW i, NEW k, NEW s,
           h = th[t].hdr, i = th[t].i, k = TheKey(t), s = [EmptySlot EXCEPT !.key = k]
    PROVE  Claimed(h, i, k, s)
<1>0. At(t, "probe") /\ Here(t).key = NoKey /\ Last \in Nat
  BY LfhtAssumption DEF Claim, Inv, TablesType
<1>1. /\ h \in 1 .. Last /\ i \in Places(h) /\ Here(t) = Slot(h, i)
      /\ k \in Keys /\ k # NoKey
  BY <1>0, AtPlace
<1>2. Slot(h, i) = EmptySlot
  BY <1>0, <1>1 DEF Inv, Vacant
<1>3. Write(h, i, s)
  BY <1>1, <1>2 DEF Claim
<1>4. s \in SlotType /\ s.key = k /\ ~s.moved /\ s.val = TOMBSTONE
  BY <1>1 DEF EmptySlot, SlotType
<1>5. /\ TablesType' /\ Last' = Last
      /\ \A q \in 1 .. Last : /\ tables'[q].max = tables[q].max
                              /\ tables'[q].assimilated = tables[q].assimilated
                              /\ tables'[q].count = tables[q].count
      /\ \A q \in 1 .. Last : \A j \in Places(q) :
            Slot(q, j)' = IF q = h /\ j = i THEN s ELSE Slot(q, j)
  BY <1>1, <1>3, <1>4, Written DEF Inv
<1>6. \A q \in 1 .. Last : Places(q)' = Places(q)
  BY <1>5 DEF Places
<1>7. EmptySlot.key = NoKey /\ ~EmptySlot.moved
  BY DEF EmptySlot
<1>8. Onward
  <2>1. ASSUME NEW q \in 1 .. Last, NEW j \in Places(q)
        PROVE  /\ Slot(q, j).key # NoKey => Slot(q, j)'.key = Slot(q, j).key
               /\ Slot(q, j).moved => Slot(q, j)'.moved
    <3>1. CASE q = h /\ j = i
      BY <3>1, <1>2, <1>7
    <3>2. CASE ~(q = h /\ j = i)
      BY <3>2, <1>5
    <3> QED BY <3>1, <3>2
  <2> QED BY <2>1, <1>0, <1>5 DEF Onward
<1>9. ASSUME NEW q \in 1 .. Last
      PROVE  Used(q)' = IF q = h THEN Used(q) \cup {i} ELSE Used(q)
  <2>1. Used(q)' = {j \in Places(q) : Slot(q, j)'.key # NoKey}
    BY <1>6 DEF Used, Places
  <2>2. Used(q) = {j \in Places(q) : Slot(q, j).key # NoKey}
    BY DEF Used, Places
  <2>3. CASE q = h
    <3>1. \A j \in Places(q) : Slot(q, j)'.key # NoKey <=> j = i \/ Slot(q, j).key # NoKey
      BY <2>3, <1>1, <1>4, <1>5
    <3> QED BY <2>1, <2>2, <2>3, <3>1, <1>1
  <2>4. CASE q # h
    BY <2>1, <2>2, <2>4, <1>5
  <2> QED BY <2>3, <2>4
<1>10. i \notin Used(h)
  BY <1>2, <1>7 DEF Used
<1> QED BY <1>0, <1>1, <1>2, <1>4, <1>5, <1>6, <1>8, <1>9, <1>10 DEF Claimed

LEMMA ClaimInv ==
    ASSUME Inv, NEW t \in Threads, Claim(t)
    PROVE  Inv'
<1>h. PICK h : h = th[t].hdr
  OBVIOUS
<1>i. PICK i : i = th[t].i
  OBVIOUS
<1>k. PICK k : k = TheKey(t)
  OBVIOUS
<1>s. PICK s : s = [EmptySlot EXCEPT !.key = k]
  OBVIOUS
<1>0. At(t, "probe") /\ ~At(t, "idle") /\ UNCHANGED state /\ GoTo(t, "store")
  BY DEF Claim, At
<1>c. Claimed(h, i, k, s)
  BY <1>h, <1>i, <1>k, <1>s, ClaimedTables
<1>1. /\ h \in 1 .. Last /\ i \in Places(h) /\ k \in Keys /\ k # NoKey
      /\ Slot(h, i) = EmptySlot /\ s \in SlotType /\ s.key = k /\ ~s.moved
      /\ TablesType' /\ Last' = Last /\ Last \in Nat /\ Onward
      /\ \A q \in 1 .. Last : /\ Places(q)' = Places(q)
                              /\ tables'[q].max = tables[q].max
                              /\ tables'[q].assimilated = tables[q].assimilated
                              /\ tables'[q].count = tables[q].count
                              /\ Used(q)' = IF q = h THEN Used(q) \cup {i} ELSE Used(q)
      /\ \A q \in 1 .. Last : \A j \in Places(q) :
            Slot(q, j)' = IF q = h /\ j = i THEN s ELSE Slot(q, j)
      /\ i \notin Used(h)
  BY <1>c DEF Claimed
<1>2. Last >= 1 /\ Last \in 1 .. Last
  BY LfhtAssumption DEF Inv, TablesType
<1>3. /\ Moves(t) /\ th'[t].at = "store" /\ th'[t].op = th[t].op /\ th'[t].key = th[t].key
      /\ th'[t].hdr = h /\ th'[t].i = i
      /\ th'[t].from = th[t].from /\ th'[t].mi = th[t].mi /\ th'[t].mkey = th[t].mkey
      /\ th'[t].mval = th[t].mval /\ th'[t].external = th[t].external
  BY <1>0, <1>h, <1>i, GoToTh, PointsKnown DEF Inv
<1>4. CallOK(t)' /\ TaxOK(t)'
  BY <1>0, <1>1, <1>3, TaxKept DEF Taxed
<1>5. ProbeOK(t)'
  <2>1. TheKey(t)' = k
    BY <1>3, <1>k DEF TheKey
  <2>2. Slot(h, i)' = s
    BY <1>1
  <2>3. Here(t)' = s /\ Places(th[t].hdr)' = Places(h)
    BY <2>2, <1>1, <1>3 DEF Here, Slot, Places
  <2> QED BY <2>1, <2>3, <1>1, <1>3 DEF ProbeOK, At
<1>6. \A u \in Threads : ThInv(u)'
  BY <1>1, <1>3, <1>4, <1>5, OthersKeep DEF Inv, Moves, ThInv
<1>7. Current'
  <2>1. \A j \in Places(Last) : ~Slot(Last, j)'.moved
    BY <1>1, <1>2 DEF Inv, Current
  <2> QED BY <1>1, <1>2, <2>1 DEF Inv, Current, Slot
<1>8. Vacant'
  BY <1>1 DEF Inv, Vacant
<1>9. Probed'
  <2>1. SUFFICES ASSUME NEW q \in 1 .. Last, NEW a \in Used(q)', NEW j \in Places(q),
                        Distance(q, Slot(q, a).key, j)' < Distance(q, Slot(q, a).key, a)'
                 PROVE  j \in Used(q)' /\ ~(/\ Matches(Slot(q, j)', Slot(q, a)'.key)
                                            /\ Matches(Slot(q, a)', Slot(q, a)'.key))
    BY <1>1, Zenon DEF Probed
  <2>2. PICK c : c = Slot(q, a)'.key
    OBVIOUS
  <2>3. Distance(q, c, j) < Distance(q, c, a)
    <3>1. /\ Distance(q, c, j)' = Distance(q, c, j)
          /\ Distance(q, c, a)' = Distance(q, c, a)
      BY <1>1, OnwardPlaces DEF Inv
    <3> QED BY <2>1, <2>2, <3>1 DEF Distance, Home
  <2>4. a \in Places(q)
    BY <1>1 DEF Used, Places
  <2>5. CASE q = h /\ a = i
    <3>1. c = k /\ j # i
      <4>1. c = k
        BY <2>2, <2>5, <1>1
      <4>2. tables[q].max \in Nat \ {0}
        BY TableKnown DEF Inv
      <4>3. Distance(q, c, a) \in Nat
        BY <2>4, <4>1, <4>2, <1>1, Distances DEF Places
      <4> QED BY <4>1, <4>3, <2>3, <2>5
    <3>2. Passed(t, j)
      BY <1>0, <1>h, <2>5 DEF Inv, ThInv, ProbeOK
    <3>3. j \in Used(h) /\ ~Matches(Slot(h, j), k)
      BY <2>3, <2>5, <3>1, <3>2, <1>h, <1>i, <1>k DEF Passed
    <3> QED BY <1>1, <2>2, <2>5, <3>1, <3>3
  <2>6. CASE ~(q = h /\ a = i)
    <3>1. a \in Used(q) /\ c = Slot(q, a).key /\ Slot(q, a)' = Slot(q, a)
      BY <1>1, <2>2, <2>4, <2>6
    <3>2. j \in Used(q) /\ ~(Matches(Slot(q, j), c) /\ Matches(Slot(q, a), c))
      BY <2>3, <3>1 DEF Inv, Probed
    <3>3. ~(q = h /\ j = i)
      BY <3>2, <1>1
    <3>4. Slot(q, j)' = Slot(q, j) /\ j \in Used(q)'
      BY <3>2, <3>3, <1>1
    <3> QED BY <2>2, <3>1, <3>2, <3>4
  <2> QED BY <2>5, <2>6
<1>10. Adding(h)' = Adding(h) \cup {t} /\ t \notin Adding(h)
  BY <1>0, <1>3 DEF Adding, Moves, At
<1>11. \A q : q # h => Adding(q)' = Adding(q)
  BY <1>0, <1>3 DEF Adding, Moves, At
<1>12. Cardinality(Adding(h)') = Cardinality(Adding(h)) + 1 /\ Cardinality(Adding(h)) \in Nat
  BY <1>10, AddingFinite, FS_AddElement
<1>13. Cardinality(Used(h) \cup {i}) = Cardinality(Used(h)) + 1 /\ Cardinality(Used(h)) \in Nat
  <2>1. tables[h].max \in Nat \ {0}
    BY <1>1, TableKnown DEF Inv
  <2> QED BY <1>1, <2>1, UsedFinite, FS_AddElement
<1>14. CountOK'
  <2>1. ASSUME NEW q \in 1 .. Last
        PROVE  tables'[q].count = Cardinality(Used(q)') - Cardinality(Adding(q)')
    <3>0. tables[q].count = Cardinality(Used(q)) - Cardinality(Adding(q))
      BY DEF Inv, CountOK
    <3>1. CASE q = h
      <4>1. Cardinality(Used(q)') = Cardinality(Used(q)) + 1
        BY <3>1, <1>1, <1>13
      <4> QED BY <3>0, <3>1, <4>1, <1>1, <1>12, <1>13
    <3>2. CASE q # h
      BY <3>0, <3>2, <1>1, <1>11
    <3> QED BY <3>1, <3>2
  <2> QED BY <2>1, <1>1 DEF CountOK
<1>15. StateOK'
  BY <1>0, <1>1 DEF Inv, StateOK
<1> QED BY <1>1, <1>3, <1>6, <1>7, <1>8, <1>9, <1>14, <1>15 DEF Inv, Moves

(***************************************************************************)
(* The invariant holds always                                              *)
(***************************************************************************)
FlagsOK == calls \in 0 .. MaxCalls /\ aborted \in BOOLEAN /\ raced \in BOOLEAN

LEMMA InitInv ==
    ASSUME Init
    PROVE  Inv /\ FlagsOK
<1>t. PICK T : T = NewTable(InitialMax)
  OBVIOUS
<1>1. /\ T \in Tables /\ T.max = InitialMax /\ T.assimilated = FALSE /\ T.count = 0
      /\ \A i \in 0 .. InitialMax - 1 : T.slot[i] = EmptySlot
  BY <1>t, NewTableKnown, LfhtAssumption
<1>2. tables = <<T>>
  BY <1>t DEF Init
<1>3. Last = 1 /\ tables[1] = T /\ tables \in Seq(Tables)
  BY <1>1, <1>2 DEF Last
<1>4. TablesType
  BY <1>1, <1>3, LfhtAssumption DEF TablesType
<1>5. EmptySlot.key = NoKey /\ ~EmptySlot.moved
  BY DEF EmptySlot
<1>6. \A n \in 1 .. Last : n = 1
  BY <1>3
<1>7. \A n \in 1 .. Last : \A i \in Places(n) : Slot(n, i) = EmptySlot
  BY <1>1, <1>3, <1>6 DEF Places, Slot
<1>8. \A n \in 1 .. Last : Used(n) = {}
  BY <1>5, <1>7 DEF Used, Places
<1>9. ThType /\ \A t \in Threads : th[t] = Idle
  BY PointsKnown DEF Init, ThType
<1>10. Current
  BY <1>1, <1>3, <1>5, <1>7 DEF Current
<1>11. Vacant /\ Probed
  BY <1>7, <1>8 DEF Vacant, Probed
<1>12. \A n : Adding(n) = {}
  BY <1>9, PointsKnown DEF Adding, At
<1>13. CountOK
  <2>1. Cardinality({}) = 0
    BY FS_EmptySet
  <2>2. ASSUME NEW n \in 1 .. Last
        PROVE  tables[n].count = Cardinality(Used(n)) - Cardinality(Adding(n))
    <3>1. tables[n].count = 0 /\ Used(n) = {} /\ Adding(n) = {}
      BY <1>1, <1>3, <1>6, <1>8, <1>12
    <3> QED BY <2>1, <3>1
  <2> QED BY <2>2 DEF CountOK
<1>14. \A t \in Threads : ThInv(t)
  BY <1>9, PointsKnown DEF ThInv, CallOK, TaxOK, ProbeOK, At, Taxed, Assimilating, InTable
<1>15. StateOK
  BY DEF Init, StateOK
<1>16. calls = 0 /\ aborted = FALSE /\ raced = FALSE /\ 0 \in 0 .. MaxCalls
  BY LfhtAssumption DEF Init
<1>17. FlagsOK
  BY <1>16, Zenon DEF FlagsOK
<1> QED BY <1>4, <1>9, <1>10, <1>11, <1>13, <1>14, <1>15, <1>17 DEF Inv

LEMMA StepInv ==
    ASSUME Inv, NEW t \in Threads, Step(t)
    PROVE  Inv'
BY TaxInv, FromInv, ScanInv, MarkInv, FinishInv, RecheckInv, ExpandedInv, StartInv, ProbeNextInv,
   ClaimInv, AbsentInv, PresentInv, UpdateInv, StoreInv, CountInv, ExitInv, GrowFailsInv, GrowInv,
   PublishedInv, ExpandingInv, CheckInv, Zenon DEF Step

LEMMA StutterInv ==
    ASSUME Inv, UNCHANGED vars
    PROVE  Inv'
<1>1. UNCHANGED <<tables, state, th>>
  BY DEF vars
<1>2. TablesType' /\ Last' = Last /\ ThType' /\ StateOK'
  BY <1>1 DEF Inv, TablesType, Last, ThType, StateOK
<1>3. Current' /\ Vacant' /\ Probed'
  BY <1>1, <1>2 DEF Inv, Current, Vacant, Probed, Places, Slot, Used, Distance, Home
<1>4. CountOK'
  BY <1>1, <1>2 DEF Inv, CountOK, Used, Slot, Adding, At
<1>5. \A t \in Threads : ThInv(t)'
  BY <1>1, Still, OthersKeep DEF Inv
<1> QED BY <1>2, <1>3, <1>4, <1>5 DEF Inv

LEMMA FlagsKept ==
    ASSUME FlagsOK, Next
    PROVE  FlagsOK'
<1>1. PICK t \in Threads : (Call(t) \/ Steps(t)) /\ Running
  BY Zenon DEF Next
<1>2. (calls < MaxCalls /\ calls' = calls + 1) \/ calls' = calls
  BY <1>1, Zenon DEF Call, Steps
<1>3. calls' \in 0 .. MaxCalls
  BY <1>2, LfhtAssumption DEF FlagsOK
<1>5. aborted' = aborted \/ Published(t) \/ Check(t)
  BY <1>1, Zenon DEF Call, Steps, Step, Tax, From, Scan, Mark, Finish, Recheck, Expanded, Start,
     ProbeNext, Claim, Absent, Present, Update, Store, Count, Exit, GrowFails, Grow, Expanding
<1>6. aborted' \in BOOLEAN
  BY <1>5, Zenon DEF FlagsOK, Published, Check
<1>4. raced' \in BOOLEAN
  BY <1>1, Zenon DEF FlagsOK, Running, Overlap
<1> QED BY <1>3, <1>4, <1>6 DEF FlagsOK

\* The inductive invariant of every execution.
LEMMA InvAlways == Spec => [](Inv /\ FlagsOK)
<1>1. ASSUME Inv, FlagsOK, [Next]_vars PROVE Inv' /\ FlagsOK'
  <2>1. CASE Next
    <3>1. PICK t \in Threads : Call(t) \/ Step(t)
      BY <2>1, Zenon DEF Next, Steps
    <3>2. Inv'
      BY <1>1, <3>1, CallInv, StepInv
    <3> QED BY <1>1, <2>1, <3>2, FlagsKept
  <2>2. CASE UNCHANGED vars
    <3>1. FlagsOK'
      BY <1>1, <2>2 DEF FlagsOK, vars
    <3> QED BY <1>1, <2>2, <3>1, StutterInv
  <2> QED BY <1>1, <2>1, <2>2
<1>2. Init => Inv /\ FlagsOK
  BY InitInv
<1> QED BY <1>1, <1>2, PTL DEF Spec

\* Linear probing works in every table, whatever the threads do (_lfht_add, lfht_remove,
\* lfht_find, assimilate), and the variables have their types: the count of a table is the
\* number of its keys, but for those whose threads have still to count them.
THEOREM ProbingAlways == Spec => []Probing
<1>1. ASSUME Inv, FlagsOK PROVE Probing
  <2>1. TypeOK
    <3>1. \A n \in 1 .. Last :
            /\ tables[n].max = IF n = 1 THEN InitialMax ELSE 2 * tables[n - 1].max
            /\ tables[n].assimilated \in BOOLEAN
            /\ tables[n].slot \in [0 .. tables[n].max - 1 -> SlotType]
      BY <1>1, TableKnown DEF Inv, TablesType, Places
    <3>2. \A n \in 1 .. Last : tables[n].count = Cardinality(Used(n))
                - Cardinality({t \in Threads :
                      th[t].hdr = n /\ (At(t, "store") \/ At(t, "count"))})
      BY <1>1, Zenon DEF Inv, CountOK, Adding
    <3>3. /\ Last \in 1 .. MaxTables /\ state \in {"initial", "expanding", "expanded"}
          /\ th \in [Threads -> Locals]
          /\ calls \in 0 .. MaxCalls /\ aborted \in BOOLEAN /\ raced \in BOOLEAN
      BY <1>1 DEF Inv, TablesType, StateOK, ThType, FlagsOK
    <3> QED BY <3>1, <3>2, <3>3, Zenon DEF TypeOK
  <2>2. ASSUME NEW n \in 1 .. Last, NEW i \in Used(n), NEW j \in 0 .. tables[n].max - 1,
               Distance(n, Slot(n, i).key, j) < Distance(n, Slot(n, i).key, i)
        PROVE  j \in Used(n) /\ ~(/\ Matches(Slot(n, j), Slot(n, i).key)
                                  /\ Matches(Slot(n, i), Slot(n, i).key))
    BY <1>1, <2>2 DEF Inv, Probed, Places
  <2> QED BY <2>1, <2>2, Zenon DEF Probing
<1>2. Inv /\ FlagsOK => Probing
  BY <1>1
<1> QED BY <1>2, InvAlways, PTL

(***************************************************************************)
(* While operations do not overlap during a migration                      *)
(***************************************************************************)
\* _grow_table finds, or is about to find, that the previous migration is not over.
Stuck == aborted \/ (state = "expanding" /\ \E t \in Threads : At(t, "published"))

\* Tables that were left before the last one are assimilated, and keys of those are marked.
LeftOK ==
    /\ \A n \in 1 .. Last - 2 : tables[n].assimilated
    /\ \A n \in 1 .. Last - 1 : tables[n].assimilated => \A i \in Used(n) : Slot(n, i).moved

\* A key is in a table once.
OnceOK == \A n \in 1 .. Last : \A i, j \in Used(n) : Slot(n, i).key = Slot(n, j).key => i = j

\* A key that is still to move is not in the new table.
ApartOK == Migrating => \A i \in Used(Last - 1) : \A j \in Used(Last) :
    Slot(Last - 1, i).key = Slot(Last, j).key => Slot(Last - 1, i).moved

\* The keys that moved, and how many more keys there are in the new table.
Marked(n) == {i \in Used(n) : Slot(n, i).moved}
Moved == Cardinality(Marked(Last - 1))
Gain  == Cardinality(Used(Last)) - Moved

\* The tax: for each key that is added several move.
RateOK == Migrating => MIGRATIONS_PER_ACCESS * Gain <= Moved

\* The state says expanding while keys move.
GrowthOK ==
    /\ Migrating => \/ state = "expanding"
                    \/ \E t \in Threads : At(t, "published") \/ At(t, "expanding")
    /\ ~Migrating /\ state = "expanding" =>
          \E t \in Threads : At(t, "recheck") \/ At(t, "expanded")

\* A thread works on the current table or on the one before it.
PlaceOK(t) ==
    /\ th[t].at \in {"probe", "update", "store", "count", "grow"} => th[t].hdr = Last
    /\ th[t].at \in {"published", "expanding", "check"} =>
          th[t].hdr = Last - 1 /\ Migrating /\ th[t].external
    /\ At(t, "exit") => th[t].hdr = Last \/ (th[t].hdr = Last - 1 /\ Migrating /\ th[t].external)
    /\ th[t].at \in Assimilating \/ ~th[t].external => th[t].from = Last - 1
    /\ At(t, "scan") \/ At(t, "mark") \/ ~th[t].external => Migrating
    /\ At(t, "recheck") \/ At(t, "expanded") => ~Migrating
    /\ At(t, "tax") \/ At(t, "from") => th[t].moved = 0 /\ ~th[t].success

\* The client is told nothing before the table is changed or read.
AnswerOK(t) ==
    /\ ~th[t].external \/ th[t].at \in Taxed \cup {"start", "probe", "update", "store"} =>
          ~th[t].ret /\ th[t].valp = TOMBSTONE
    /\ th[t].external /\ th[t].at \in {"count", "grow", "published", "expanding", "check"} =>
          th[t].ret
    /\ At(t, "store") => TheOp(t) = "add"

\* Key k is not at a place unless it has moved from there, or no key is.
Rid(n, k, j) == Slot(n, j).key = k => Slot(n, j).moved
Clean(n, j)  == Slot(n, j).key # NoKey => Slot(n, j).moved

\* the places that assimilate is done with
Done(t, j) ==
    \/ Distance(Last - 1, th[t].key, j) < Distance(Last - 1, th[t].key, th[t].mi)
    \/ ~th[t].external /\ j = th[t].mi

ScanOK(t) == At(t, "scan") \/ At(t, "mark") \/ ~th[t].external =>
    \A j \in Places(Last - 1) :
        /\ Done(t, j) => /\ Rid(Last - 1, th[t].key, j)
                         /\ th[t].moved < MIGRATIONS_PER_ACCESS => Clean(Last - 1, j)
        /\ th[t].success => Rid(Last - 1, th[t].key, j) \/ (At(t, "mark") /\ j = th[t].mi)

\* A key and its value on their way from one table to the next.
MoveOK(t) ==
    /\ At(t, "mark") => /\ Slot(Last - 1, th[t].mi).val = th[t].mval
                        /\ ~Slot(Last - 1, th[t].mi).moved
    /\ ~th[t].external =>
          /\ th[t].at \in {"start", "probe", "store", "count", "grow", "exit"}
          /\ th[t].at \in {"start", "probe"} =>
                \A j \in Used(Last) : Slot(Last, j).key # th[t].mkey
          /\ th[t].at \in {"count", "grow", "exit"} =>
                \E j \in Used(Last) : Slot(Last, j).key = th[t].mkey /\ Slot(Last, j).val = th[t].mval

\* What the tax has brought about.
PaidOK(t) == th[t].external =>
    /\ At(t, "finish") => \A j \in Places(Last - 1) : Clean(Last - 1, j)
    /\ th[t].at \in {"start", "probe"} =>
          \A j \in Places(Last - 1) : Rid(Last - 1, th[t].key, j)

DebtOK(t) ==
    /\ At(t, "scan") \/ At(t, "mark") =>
          MIGRATIONS_PER_ACCESS * Gain <= Moved - th[t].moved
    /\ ~th[t].external /\ th[t].at \in {"start", "probe"} =>
          MIGRATIONS_PER_ACCESS * Gain + MIGRATIONS_PER_ACCESS <= Moved - 1 - th[t].moved
    /\ ~th[t].external /\ th[t].at \notin {"start", "probe"} =>
          MIGRATIONS_PER_ACCESS * Gain <= Moved - 1 - th[t].moved
    /\ th[t].external /\ th[t].at \in {"start", "probe"} =>
          MIGRATIONS_PER_ACCESS * Gain + MIGRATIONS_PER_ACCESS <= Moved

Works(t) == ScanOK(t) /\ MoveOK(t) /\ PaidOK(t) /\ DebtOK(t)

ThreadCalm(t) == PlaceOK(t) /\ AnswerOK(t) /\ (Migrating => Works(t))

Calm ==
    /\ LeftOK /\ OnceOK /\ ApartOK /\ RateOK /\ GrowthOK
    /\ \A t \in Threads : ThreadCalm(t)

\* Nobody is overlapped by a thread that has just grown the table.
Lone ==
    /\ Overlap => raced
    /\ ~raced => \A t \in Threads : At(t, "published") => ~tables[Last - 1].assimilated

CalmInv ==
    /\ Lone
    /\ ~raced /\ ~Stuck => Calm

(***************************************************************************)
(* What follows at once                                                    *)
(***************************************************************************)
LEMMA LastKnown ==
    ASSUME Inv
    PROVE  /\ Last \in Nat /\ Last >= 1 /\ Last \in 1 .. Last
           /\ Migrating => Last >= 2 /\ Last - 1 \in 1 .. Last /\ Last - 1 \in 1 .. Last - 1
BY LfhtAssumption DEF Inv, TablesType, Migrating

LEMMA MigratingKnown ==
    ASSUME Inv, LeftOK
    PROVE  Migrating <=> Last >= 2 /\ ~tables[Last - 1].assimilated
<1>l. PICK l : l = Last
  OBVIOUS
<1>1. l \in Nat /\ l >= 1 /\ \A n \in 1 .. l - 2 : tables[n].assimilated
  BY <1>l, LastKnown DEF LeftOK
<1>2. \A n \in 1 .. l - 1 : ~tables[n].assimilated => n = l - 1
  BY <1>1
<1> QED BY <1>1, <1>2, <1>l DEF Migrating

LEMMA AloneTh ==
    ASSUME Lone, ~raced, Migrating, NEW t \in Threads, ~At(t, "idle")
    PROVE  \A u \in Threads \ {t} : At(u, "idle")
BY DEF Lone, Overlap, Busy

\* The shape of the tables: everything but values and counts.
SameShape ==
    /\ Last' = Last
    /\ \A q \in 1 .. Last : /\ tables'[q].max = tables[q].max
                            /\ tables'[q].assimilated = tables[q].assimilated
    /\ \A q \in 1 .. Last : \A j \in Places(q) : /\ Slot(q, j)'.key = Slot(q, j).key
                                                 /\ Slot(q, j)'.moved = Slot(q, j).moved

LEMMA ShapeStill ==
    ASSUME UNCHANGED tables
    PROVE  SameShape
BY DEF SameShape, Last, Slot

LEMMA ShapeSets ==
    ASSUME SameShape, NEW q \in 1 .. Last
    PROVE  /\ Places(q)' = Places(q) /\ Used(q)' = Used(q) /\ Marked(q)' = Marked(q)
           /\ \A k, i : Distance(q, k, i)' = Distance(q, k, i)
           /\ \A k : Home(q, k)' = Home(q, k)
<1>1. tables'[q].max = tables[q].max
  BY DEF SameShape
<1>2. Places(q)' = Places(q) /\ \A k : Home(q, k)' = Home(q, k)
  BY <1>1 DEF Places, Home
<1>3. \A k, i : Distance(q, k, i)' = Distance(q, k, i)
  BY <1>1, <1>2 DEF Distance
<1>4. \A j \in Places(q) : Slot(q, j)'.key = Slot(q, j).key /\ Slot(q, j)'.moved = Slot(q, j).moved
  BY DEF SameShape
<1>5. Used(q)' = Used(q)
  BY <1>2, <1>4 DEF Used, Places
<1>6. Marked(q)' = {i \in Used(q) : Slot(q, i)'.moved}
  BY <1>5 DEF Marked
<1>7. Used(q) \subseteq Places(q)
  BY DEF Used, Places
<1>8. Marked(q)' = Marked(q)
  BY <1>4, <1>6, <1>7 DEF Marked
<1> QED BY <1>2, <1>3, <1>5, <1>8

LEMMA ShapeTables ==
    ASSUME Inv, LeftOK, OnceOK, ApartOK, RateOK, SameShape
    PROVE  /\ LeftOK' /\ OnceOK' /\ ApartOK' /\ RateOK'
           /\ Migrating' <=> Migrating
           /\ Migrating => Moved' = Moved /\ Gain' = Gain
<1>l. PICK l : l = Last
  OBVIOUS
<1>1. /\ l \in Nat /\ l >= 1 /\ Last' = l
      /\ \A q \in 1 .. l : tables'[q].assimilated = tables[q].assimilated
  BY <1>l, LastKnown DEF SameShape
<1>2. \A q \in 1 .. l : Used(q)' = Used(q) /\ Marked(q)' = Marked(q)
  BY <1>l, ShapeSets
<1>3. \A q \in 1 .. l : \A j \in Used(q) : /\ Slot(q, j)'.key = Slot(q, j).key
                                           /\ Slot(q, j)'.moved = Slot(q, j).moved
  BY <1>l DEF SameShape, Used, Places
<1>4. \A n \in 1 .. l - 1 : n \in 1 .. l
  BY <1>1
<1>5. Migrating' <=> Migrating
  BY <1>1, <1>4, <1>l DEF Migrating
<1>6. LeftOK'
  <2>1. \A n \in 1 .. l - 2 : n \in 1 .. l
    BY <1>1
  <2> QED BY <1>1, <1>2, <1>3, <1>4, <1>l, <2>1 DEF LeftOK
<1>7. OnceOK'
  BY <1>1, <1>2, <1>3, <1>l DEF OnceOK
<1>o. PICK o : o = l - 1
  OBVIOUS
<1>8. Migrating => o \in 1 .. l /\ l \in 1 .. l
  BY <1>l, <1>o, LastKnown
<1>9. ApartOK'
  <2>1. ASSUME Migrating, NEW i \in Used(o), NEW j \in Used(l), Slot(o, i)'.key = Slot(l, j)'.key
        PROVE  Slot(o, i)'.moved
    BY <2>1, <1>3, <1>8, <1>l, <1>o DEF ApartOK
  <2>2. ASSUME Migrating
        PROVE  \A i \in Used(o)' : \A j \in Used(l)' :
                  Slot(o, i)'.key = Slot(l, j)'.key => Slot(o, i)'.moved
    BY <2>1, <2>2, <1>2, <1>8
  <2> QED BY <2>2, <1>1, <1>5, <1>o DEF ApartOK, Used, Slot
<1>10. Migrating => Moved' = Moved /\ Gain' = Gain
  <2>1. Moved' = Cardinality(Marked(o)') /\ Gain' = Cardinality(Used(l)') - Moved'
    BY <1>1, <1>o DEF Moved, Gain, Marked, Used, Slot
  <2>2. Moved = Cardinality(Marked(o)) /\ Gain = Cardinality(Used(l)) - Moved
    BY <1>l, <1>o DEF Moved, Gain
  <2> QED BY <2>1, <2>2, <1>2, <1>8
<1>11. RateOK'
  BY <1>5, <1>10 DEF RateOK
<1> QED BY <1>5, <1>6, <1>7, <1>9, <1>10, <1>11

(***************************************************************************)
(* What a thread has to know in order to be calm after its step            *)
(***************************************************************************)
LEMMA IdleCalm ==
    ASSUME NEW u \in Threads, th'[u].at = "idle", th'[u].external = TRUE
    PROVE  ThreadCalm(u)'
<1>1. PlaceOK(u)'
  BY DEF PlaceOK, At, Assimilating
<1>2. AnswerOK(u)'
  BY DEF AnswerOK, At, Taxed
<1>3. ScanOK(u)' /\ MoveOK(u)'
  BY DEF ScanOK, MoveOK, At
<1>4. PaidOK(u)' /\ DebtOK(u)'
  BY DEF PaidOK, DebtOK, At
<1> QED BY <1>1, <1>2, <1>3, <1>4 DEF ThreadCalm, Works

LEMMA OthersCalm ==
    ASSUME Inv, NEW u \in Threads, ThreadCalm(u), th'[u] = th[u], Last' = Last,
           Migrating' <=> Migrating, Migrating => At(u, "idle")
    PROVE  ThreadCalm(u)'
<1>1. CASE At(u, "idle")
  <2>1. th[u].external = TRUE
    BY <1>1, Typed DEF Inv, ThInv, CallOK, Locals
  <2> QED BY <1>1, <2>1, IdleCalm DEF At
<1>2. CASE ~At(u, "idle")
  <2>1. PlaceOK(u)'
    BY DEF ThreadCalm, PlaceOK, At
  <2>2. AnswerOK(u)'
    BY DEF ThreadCalm, AnswerOK, At, TheOp
  <2> QED BY <1>2, <2>1, <2>2 DEF ThreadCalm
<1> QED BY <1>1, <1>2

\* A step that keeps the shape of the tables.
LEMMA ShapeCalm ==
    ASSUME Inv, Calm, SameShape, NEW t \in Threads, Moves(t),
           Migrating => \A u \in Threads \ {t} : At(u, "idle"),
           PlaceOK(t)', AnswerOK(t)', Migrating => Works(t)', GrowthOK'
    PROVE  Calm'
<1>1. LeftOK' /\ OnceOK' /\ ApartOK' /\ RateOK' /\ (Migrating' <=> Migrating)
  BY ShapeTables DEF Calm
<1>2. ThreadCalm(t)'
  BY <1>1 DEF ThreadCalm
<1>3. ASSUME NEW u \in Threads \ {t} PROVE ThreadCalm(u)'
  BY <1>1, OthersCalm DEF Calm, Moves, SameShape
<1> QED BY <1>1, <1>2, <1>3 DEF Calm

Switching == {"published", "expanding", "recheck", "expanded"}

LEMMA GrowthKept ==
    ASSUME GrowthOK, NEW t \in Threads, Moves(t), th[t].at \notin Switching,
           UNCHANGED state, Migrating' <=> Migrating
    PROVE  GrowthOK'
<1>1. \A u \in Threads : \A p \in Switching : At(u, p) => At(u, p)'
  BY DEF Moves, At, Switching
<1>2. (\E u \in Threads : At(u, "published") \/ At(u, "expanding")) =>
      (\E u \in Threads : At(u, "published") \/ At(u, "expanding"))'
  BY <1>1 DEF Switching
<1>3. (\E u \in Threads : At(u, "recheck") \/ At(u, "expanded")) =>
      (\E u \in Threads : At(u, "recheck") \/ At(u, "expanded"))'
  BY <1>1 DEF Switching
<1> QED BY <1>2, <1>3 DEF GrowthOK

\* The points of an operation at which nothing is known of a migration.
LEMMA AtOther ==
    ASSUME NEW t \in Threads, th'[t].external = TRUE,
           th'[t].at \notin {"scan", "mark", "finish", "start", "probe"}
    PROVE  Works(t)'
<1>1. ScanOK(t)' /\ MoveOK(t)'
  BY DEF ScanOK, MoveOK, At
<1>2. PaidOK(t)' /\ DebtOK(t)'
  BY DEF PaidOK, DebtOK, At
<1> QED BY <1>1, <1>2 DEF Works

LEMMA AtFinish ==
    ASSUME NEW t \in Threads, th'[t].external = TRUE, th'[t].at = "finish",
           NEW o, o = Last' - 1, \A j \in Places(o)' : Clean(o, j)'
    PROVE  Works(t)'
<1>1. ScanOK(t)' /\ MoveOK(t)'
  BY DEF ScanOK, MoveOK, At
<1>2. DebtOK(t)'
  BY DEF DebtOK, At
<1>3. PaidOK(t)'
  BY DEF PaidOK, At, Places, Clean, Slot
<1> QED BY <1>1, <1>2, <1>3 DEF Works

\* An operation that has paid its tax.
LEMMA AtStart ==
    ASSUME NEW t \in Threads, th'[t].external = TRUE, th'[t].at \in {"start", "probe"},
           NEW o, o = Last' - 1, NEW k, k = th'[t].key, \A j \in Places(o)' : Rid(o, k, j)',
           MIGRATIONS_PER_ACCESS * Gain' + MIGRATIONS_PER_ACCESS <= Moved'
    PROVE  Works(t)'
<1>1. ScanOK(t)' /\ MoveOK(t)'
  BY DEF ScanOK, MoveOK, At
<1>2. DebtOK(t)'
  BY DEF DebtOK, At
<1>3. PaidOK(t)'
  BY DEF PaidOK, At, Places, Rid, Slot
<1> QED BY <1>1, <1>2, <1>3 DEF Works

LEMMA AtScan ==
    ASSUME NEW t \in Threads, th'[t].external = TRUE, th'[t].at = "scan",
           NEW o, o = Last' - 1, NEW k, k = th'[t].key, NEW i, i = th'[t].mi,
           \A j \in Places(o)' : Distance(o, k, j)' < Distance(o, k, i)' =>
              Rid(o, k, j)' /\ (th'[t].moved < MIGRATIONS_PER_ACCESS => Clean(o, j)'),
           th'[t].success => \A j \in Places(o)' : Rid(o, k, j)',
           MIGRATIONS_PER_ACCESS * Gain' <= Moved' - th'[t].moved
    PROVE  Works(t)'
<1>1. MoveOK(t)' /\ PaidOK(t)'
  BY DEF MoveOK, PaidOK, At
<1>2. DebtOK(t)'
  BY DEF DebtOK, At
<1>3. ScanOK(t)'
  BY DEF ScanOK, At, Places, Rid, Clean, Slot, Done, Distance, Home
<1> QED BY <1>1, <1>2, <1>3 DEF Works

LEMMA CardKnown ==
    ASSUME Inv, Migrating
    PROVE  Moved \in Nat /\ Gain \in Int
<1>1. Last \in 1 .. Last /\ Last - 1 \in 1 .. Last
  BY LastKnown
<1>2. \A n \in 1 .. Last : tables[n].max \in Nat \ {0}
  BY TableKnown DEF Inv
<1>3. Cardinality(Used(Last)) \in Nat /\ IsFiniteSet(Used(Last - 1))
  BY <1>1, <1>2, UsedFinite
<1>4. Marked(Last - 1) \subseteq Used(Last - 1)
  BY DEF Marked
<1>5. Moved \in Nat
  BY <1>3, <1>4, FS_Subset, FS_CardinalityType DEF Moved
<1> QED BY <1>3, <1>5 DEF Gain

\* assimilate after a slot: the next one, or the end of the table.
LEMMA NextSlotWorks ==
    ASSUME Inv, NEW t \in Threads, Migrating, At(t, "scan") \/ At(t, "mark") \/ ~th[t].external,
           NEW n \in Nat, NEW sure \in BOOLEAN, Scanned(t, n, sure, th'[t]),
           NEW o, o = Last - 1, th[t].from = o, NEW k, k = th[t].key, NEW i, i = th[t].mi,
           Last' = Last, \A q \in 1 .. Last : tables'[q].max = tables[q].max,
           \A j \in Places(o) : Distance(o, k, j) < Distance(o, k, i) \/ j = i =>
              Rid(o, k, j)' /\ (n < MIGRATIONS_PER_ACCESS => Clean(o, j)'),
           sure => \A j \in Places(o) : Rid(o, k, j)',
           NEW m \in Int, m = Moved', NEW g \in Int, g = Gain',
           MIGRATIONS_PER_ACCESS * g <= m - n
    PROVE  Works(t)'
<1>1. /\ o \in 1 .. Last /\ tables[o].max \in Nat \ {0} /\ k \in Keys /\ i \in Places(o)
      /\ MIGRATIONS_PER_ACCESS \in Nat /\ MIGRATIONS_PER_ACCESS * g \in Int
  BY AtSlot, LfhtAssumption
<1>2. Places(o)' = Places(o) /\ \A c, j : Distance(o, c, j)' = Distance(o, c, j)
  BY <1>1 DEF Places, Distance, Home
<1>3. /\ th'[t].external = TRUE /\ th'[t].key = k /\ th'[t].at \in {"scan", "finish", "start"}
      /\ After(o, i) # Home(o, k) =>
            /\ th'[t].at = "scan" /\ th'[t].mi = After(o, i)
            /\ th'[t].moved = n /\ th'[t].success = sure
      /\ After(o, i) = Home(o, k) =>
            /\ n < MIGRATIONS_PER_ACCESS => th'[t].at = "finish"
            /\ ~(n < MIGRATIONS_PER_ACCESS) => th'[t].at = "start"
  BY DEF Scanned
<1>4. /\ After(o, i) \in Places(o) /\ Distance(o, k, i) \in Nat
      /\ \A j \in Places(o) : /\ Distance(o, k, j) \in 0 .. tables[o].max - 1
                              /\ Distance(o, k, i) = Distance(o, k, j) => i = j
      /\ After(o, i) # Home(o, k) => Distance(o, k, After(o, i)) = Distance(o, k, i) + 1
      /\ After(o, i) = Home(o, k) => Distance(o, k, i) = tables[o].max - 1
  BY <1>1, Distances DEF Places
<1>5. CASE After(o, i) # Home(o, k)
  <2>a. PICK a : a = After(o, i)
    OBVIOUS
  <2>1. \A j \in Places(o) : Distance(o, k, j) < Distance(o, k, a) =>
           Distance(o, k, j) < Distance(o, k, i) \/ j = i
    BY <1>4, <1>5, <2>a
  <2>2. \A j \in Places(o)' : Distance(o, k, j)' < Distance(o, k, a)' =>
           Rid(o, k, j)' /\ (th'[t].moved < MIGRATIONS_PER_ACCESS => Clean(o, j)')
    BY <1>2, <1>3, <1>5, <2>1
  <2>3. th'[t].success => \A j \in Places(o)' : Rid(o, k, j)'
    BY <1>2, <1>3, <1>5
  <2>4. MIGRATIONS_PER_ACCESS * Gain' <= Moved' - th'[t].moved
    BY <1>3, <1>5
  <2> QED BY <1>3, <1>5, <2>a, <2>2, <2>3, <2>4, AtScan
<1>6. CASE After(o, i) = Home(o, k)
  <2>1. \A j \in Places(o) : Distance(o, k, j) < Distance(o, k, i) \/ j = i
    BY <1>1, <1>4, <1>6
  <2>2. \A j \in Places(o)' : Rid(o, k, j)' /\ (n < MIGRATIONS_PER_ACCESS => Clean(o, j)')
    BY <1>2, <2>1
  <2>3. CASE n < MIGRATIONS_PER_ACCESS
    BY <1>3, <1>6, <2>2, <2>3, AtFinish
  <2>4. CASE ~(n < MIGRATIONS_PER_ACCESS)
    <3>1. MIGRATIONS_PER_ACCESS * Gain' + MIGRATIONS_PER_ACCESS <= Moved'
      BY <1>1, <2>4
    <3> QED BY <1>3, <1>6, <2>2, <2>4, <3>1, AtStart
  <2> QED BY <2>3, <2>4
<1> QED BY <1>5, <1>6

(***************************************************************************)
(* Steps that change no table                                              *)
(***************************************************************************)
Alone(t) == Migrating => \A u \in Threads \ {t} : At(u, "idle")

LEMMA CallCalm ==
    ASSUME Inv, Calm, NEW t \in Threads, Alone(t), Call(t)
    PROVE  Calm'
<1>1. /\ Moves(t) /\ th'[t].at = "tax" /\ th'[t].external = TRUE /\ th'[t].ret = FALSE
      /\ th'[t].valp = TOMBSTONE /\ th'[t].moved = 0 /\ th'[t].success = FALSE
  BY CallTh DEF Inv, Asks
<1>2. UNCHANGED <<tables, state>> /\ At(t, "idle")
  BY Zenon DEF Call
<1>3. SameShape
  BY <1>2, ShapeStill
<1>4. PlaceOK(t)' /\ AnswerOK(t)'
  BY <1>1 DEF PlaceOK, AnswerOK, At, Assimilating, Taxed
<1>5. Works(t)'
  BY <1>1, AtOther
<1>6. Migrating' <=> Migrating
  BY <1>3, ShapeTables DEF Calm
<1>7. GrowthOK'
  BY <1>1, <1>2, <1>6, GrowthKept DEF Calm, At, Switching
<1> QED BY <1>1, <1>3, <1>4, <1>5, <1>7, ShapeCalm DEF Alone

LEMMA TaxCalm ==
    ASSUME Inv, Calm, NEW t \in Threads, Alone(t), Tax(t)
    PROVE  Calm'
<1>p. PICK p : p = IF state = "expanding" THEN "from" ELSE "start"
  OBVIOUS
<1>1. p \in Points /\ GoTo(t, p) /\ At(t, "tax") /\ UNCHANGED <<tables, state>>
  BY <1>p, PointsKnown DEF Tax
<1>2. /\ Moves(t) /\ th'[t].at = p /\ th'[t].external = th[t].external
      /\ th'[t].ret = th[t].ret /\ th'[t].valp = th[t].valp
      /\ th'[t].moved = th[t].moved /\ th'[t].success = th[t].success
  BY <1>1, GoToTh DEF Inv
<1>3. /\ th[t].external = TRUE /\ ~th[t].ret /\ th[t].valp = TOMBSTONE
      /\ th[t].moved = 0 /\ ~th[t].success
  BY <1>1, Typed DEF Inv, ThInv, TaxOK, At, Taxed, Calm, ThreadCalm, PlaceOK, AnswerOK, Locals
<1>4. SameShape /\ (Migrating' <=> Migrating)
  BY <1>1, ShapeStill, ShapeTables DEF Calm
<1>5. PlaceOK(t)' /\ AnswerOK(t)'
  BY <1>2, <1>3, <1>p DEF PlaceOK, AnswerOK, At, Assimilating, Taxed
<1>6. Migrating => p = "from"
  BY <1>1, <1>p DEF Calm, GrowthOK, Alone, At
<1>7. Migrating => Works(t)'
  BY <1>2, <1>3, <1>6, AtOther
<1>8. GrowthOK'
  BY <1>1, <1>2, <1>4, GrowthKept DEF Calm, At, Switching
<1> QED BY <1>2, <1>4, <1>5, <1>7, <1>8, ShapeCalm DEF Alone

LEMMA FromCalm ==
    ASSUME Inv, Calm, NEW t \in Threads, Alone(t), From(t)
    PROVE  Calm'
<1>f. PICK f : f = Last - 1
  OBVIOUS
<1>0. /\ At(t, "from") /\ UNCHANGED <<tables, state>> /\ th[t] \in Locals
      /\ Last \in Nat /\ Last >= 2 /\ f \in 1 .. Last /\ th[t].external = TRUE /\ th[t].key \in Keys
  BY <1>f, LastKnown, Typed DEF From, Inv, ThInv, TaxOK, CallOK, At, Taxed, Locals
<1>1. /\ ~th[t].ret /\ th[t].valp = TOMBSTONE /\ th[t].moved = 0 /\ ~th[t].success
  BY <1>0 DEF Calm, ThreadCalm, PlaceOK, AnswerOK, At, Taxed
<1>2. tables[f].max \in Nat \ {0}
  BY <1>0, TableKnown DEF Inv
<1>h. PICK h \in Places(f) : h = Home(f, th[t].key)
  BY <1>0, <1>2, Homes DEF Places
<1>g. PICK g : g = Goes(t, "finish")
  OBVIOUS
<1>c. PICK c : c = IF tables[f].assimilated THEN [g EXCEPT !.from = f]
                   ELSE [th[t] EXCEPT !.from = f, !.mi = h, !.at = "scan"]
  OBVIOUS
<1>3. th' = [th EXCEPT ![t] = c]
  BY <1>f, <1>h, <1>c, <1>g DEF From
<1>4. SameShape /\ (Migrating' <=> Migrating) /\ (Migrating => Moved' = Moved /\ Gain' = Gain)
  BY <1>0, ShapeStill, ShapeTables DEF Calm
<1>5. Migrating <=> ~tables[f].assimilated
  BY <1>0, <1>f, MigratingKnown DEF Calm
<1>6. Last' = Last /\ Places(f)' = Places(f) /\ \A k, i : Distance(f, k, i)' = Distance(f, k, i)
  BY <1>0, <1>4, ShapeSets DEF SameShape
<1>7. CASE tables[f].assimilated
  <2>1. Forgot(t, "finish", g)
    BY <1>g, GoesFields, PointsKnown DEF Inv
  <2>2. c = [g EXCEPT !.from = f]
    BY <1>7, <1>c
  <2>3. /\ c \in Locals /\ c.at = "finish" /\ c.from = f /\ c.external = TRUE
        /\ c.ret = th[t].ret /\ c.valp = th[t].valp
    BY <2>1, <2>2, <1>0 DEF Forgot, Locals
  <2>4. Moves(t) /\ th'[t] = c
    BY <1>3, <2>3, SetTh DEF Inv
  <2>5. PlaceOK(t)' /\ AnswerOK(t)'
    BY <1>1, <1>6, <1>f, <2>3, <2>4 DEF PlaceOK, AnswerOK, At, Assimilating, Taxed
  <2>6. GrowthOK'
    BY <1>0, <1>4, <2>4, GrowthKept DEF Calm, At, Switching
  <2> QED BY <1>4, <1>5, <1>7, <2>4, <2>5, <2>6, ShapeCalm DEF Alone
<1>8. CASE ~tables[f].assimilated
  <2>1. c = [th[t] EXCEPT !.from = f, !.mi = h, !.at = "scan"]
    BY <1>8, <1>c
  <2>2. "scan" \in Points /\ h \in Nat /\ f \in Nat
    BY <1>0, <1>2 DEF Points, Places
  <2>3. /\ c \in Locals /\ c.at = "scan" /\ c.from = f /\ c.mi = h /\ c.external = TRUE
        /\ c.ret = th[t].ret /\ c.valp = th[t].valp /\ c.key = th[t].key
        /\ c.moved = th[t].moved /\ c.success = th[t].success
    BY <2>1, <2>2, <1>0 DEF Locals
  <2>4. Moves(t) /\ th'[t] = c
    BY <1>3, <2>3, SetTh DEF Inv
  <2>5. PlaceOK(t)' /\ AnswerOK(t)'
    BY <1>1, <1>4, <1>5, <1>6, <1>8, <1>f, <2>3, <2>4 DEF PlaceOK, AnswerOK, At, Assimilating, Taxed
  <2>6. GrowthOK'
    BY <1>0, <1>4, <2>4, GrowthKept DEF Calm, At, Switching
  <2>k. PICK k \in Keys : k = th[t].key
    BY <1>0
  <2>7. \A j \in Places(f) : Distance(f, k, j) \in Nat /\ Distance(f, k, h) = 0
    BY <1>2, <1>h, <2>k, Distances DEF Places
  <2>8. \A j \in Places(f)' : ~(Distance(f, k, j)' < Distance(f, k, h)')
    BY <1>6, <2>7
  <2>9. MIGRATIONS_PER_ACCESS * Gain' <= Moved' - th'[t].moved
    <3>1. MIGRATIONS_PER_ACCESS * Gain <= Moved /\ Moved \in Nat
      BY <1>5, <1>8, CardKnown DEF Calm, RateOK
    <3> QED BY <3>1, <1>1, <1>4, <1>5, <1>8, <2>3, <2>4
  <2>10. Works(t)'
    BY <1>1, <1>6, <1>f, <2>3, <2>4, <2>k, <2>8, <2>9, AtScan
  <2> QED BY <1>4, <2>4, <2>5, <2>6, <2>10, ShapeCalm DEF Alone
<1> QED BY <1>7, <1>8

\* A thread in assimilate, at place i of the old table o.
Scanning(t, o, k, i) ==
    /\ Migrating /\ th[t].from = o /\ o \in 1 .. Last /\ i \in Places(o)
    /\ Slot(o, i) \in SlotType /\ k \in Keys /\ k # NoKey
    /\ th[t].external = TRUE /\ ~th[t].ret /\ th[t].valp = TOMBSTONE
    /\ th[t].moved \in Nat /\ th[t].success \in BOOLEAN
    /\ \A j \in Places(o) : Distance(o, k, j) < Distance(o, k, i) =>
          Rid(o, k, j) /\ (th[t].moved < MIGRATIONS_PER_ACCESS => Clean(o, j))
    /\ th[t].success => \A j \in Places(o) : Rid(o, k, j) \/ j = i
    /\ MIGRATIONS_PER_ACCESS * Gain <= Moved - th[t].moved
    /\ Moved \in Nat /\ Gain \in Int

LEMMA ScanKnown ==
    ASSUME Inv, Calm, NEW t \in Threads, At(t, "scan") \/ At(t, "mark"),
           NEW o, o = Last - 1, NEW k, k = th[t].key, NEW i, i = th[t].mi
    PROVE  Scanning(t, o, k, i)
<1>1. th[t].external = TRUE
  BY Typed DEF Inv, ThInv, TaxOK, At, Taxed, Locals
<1>2. Migrating /\ th[t].from = o
  BY DEF Calm, ThreadCalm, PlaceOK, At, Assimilating
<1>3. Works(t)
  BY <1>2 DEF Calm, ThreadCalm
<1>4. ~th[t].ret /\ th[t].valp = TOMBSTONE
  BY DEF Calm, ThreadCalm, AnswerOK, At, Taxed
<1>5. /\ o \in 1 .. Last /\ i \in Places(o) /\ Slot(o, i) \in SlotType /\ th[t] \in Locals
      /\ k \in Keys
  BY <1>2, AtSlot
<1>6. k # NoKey /\ th[t].moved \in Nat /\ th[t].success \in BOOLEAN
  BY <1>5, LfhtAssumption DEF Locals
<1>7. \A j \in Places(o) : Distance(o, k, j) < Distance(o, k, i) =>
         Rid(o, k, j) /\ (th[t].moved < MIGRATIONS_PER_ACCESS => Clean(o, j))
  BY <1>3 DEF Works, ScanOK, Done
<1>8. th[t].success => \A j \in Places(o) : Rid(o, k, j) \/ j = i
  BY <1>3 DEF Works, ScanOK
<1>9. MIGRATIONS_PER_ACCESS * Gain <= Moved - th[t].moved
  BY <1>3 DEF Works, DebtOK
<1> QED BY <1>1, <1>2, <1>4, <1>5, <1>6, <1>7, <1>8, <1>9, CardKnown DEF Scanning

\* When assimilate is sure of the key of the operation, that key is nowhere else.
LEMMA SureRid ==
    ASSUME Inv, Calm, NEW t \in Threads, At(t, "scan"),
           NEW o, o = Last - 1, NEW k, k = th[t].key, NEW i, i = th[t].mi,
           th[t].success \/ Slot(o, i).key \in {NoKey, k}
    PROVE  \A j \in Places(o) : Rid(o, k, j) \/ j = i
<1>0. Scanning(t, o, k, i)
  BY ScanKnown
<1>1. /\ o \in 1 .. Last /\ i \in Places(o) /\ k \in Keys /\ k # NoKey
      /\ \A j \in Places(o) : Distance(o, k, j) < Distance(o, k, i) => Rid(o, k, j)
      /\ th[t].success => \A j \in Places(o) : Rid(o, k, j) \/ j = i
  BY <1>0 DEF Scanning
<1>2. tables[o].max \in Nat \ {0}
  BY <1>1, TableKnown DEF Inv
<1>3. ASSUME NEW j \in Places(o), Slot(o, j).key = k
      PROVE  Rid(o, k, j) \/ j = i
  <2>0. j \in Used(o)
    BY <1>1, <1>3 DEF Used, Places
  <2>1. CASE Slot(o, i).key = NoKey
    <3>1. i \notin Used(o)
      BY <2>1 DEF Used
    <3>2. ~(Distance(o, k, i) < Distance(o, k, j))
      BY <1>1, <1>3, <2>0, <3>1 DEF Inv, Probed
    <3>3. /\ Distance(o, k, i) \in Nat /\ Distance(o, k, j) \in Nat
          /\ Distance(o, k, i) = Distance(o, k, j) => i = j
      BY <1>1, <1>2, Distances DEF Places
    <3> QED BY <1>1, <3>2, <3>3
  <2>2. CASE Slot(o, i).key = k
    <3>1. i \in Used(o)
      BY <1>1, <2>2 DEF Used, Places
    <3> QED BY <1>1, <1>3, <2>0, <2>2, <3>1 DEF Calm, OnceOK
  <2>3. CASE th[t].success
    BY <1>1, <2>3
  <2> QED BY <2>1, <2>2, <2>3
<1>4. \A j \in Places(o) : Slot(o, j).key # k => Rid(o, k, j)
  BY DEF Rid
<1> QED BY <1>3, <1>4

LEMMA AtMark ==
    ASSUME NEW t \in Threads, th'[t].external = TRUE, th'[t].at = "mark",
           NEW o, o = Last' - 1, NEW k, k = th'[t].key, NEW i, i = th'[t].mi,
           \A j \in Places(o)' : Distance(o, k, j)' < Distance(o, k, i)' =>
              Rid(o, k, j)' /\ (th'[t].moved < MIGRATIONS_PER_ACCESS => Clean(o, j)'),
           th'[t].success => \A j \in Places(o)' : Rid(o, k, j)' \/ j = i,
           Slot(o, i)'.val = th'[t].mval, ~Slot(o, i)'.moved,
           MIGRATIONS_PER_ACCESS * Gain' <= Moved' - th'[t].moved
    PROVE  Works(t)'
<1>1. PaidOK(t)'
  BY DEF PaidOK, At
<1>2. DebtOK(t)'
  BY DEF DebtOK, At
<1>3. ScanOK(t)'
  BY DEF ScanOK, At, Places, Rid, Clean, Slot, Done, Distance, Home
<1>4. MoveOK(t)'
  BY DEF MoveOK, At, Slot
<1> QED BY <1>1, <1>2, <1>3, <1>4 DEF Works

LEMMA StillCalm ==
    ASSUME Inv, Calm, UNCHANGED tables
    PROVE  /\ SameShape /\ Last' = Last /\ (Migrating' <=> Migrating)
           /\ Migrating => Moved' = Moved /\ Gain' = Gain
           /\ \A q \in 1 .. Last : tables'[q].max = tables[q].max
<1>1. SameShape
  BY ShapeStill
<1>2. LeftOK /\ OnceOK /\ ApartOK /\ RateOK
  BY DEF Calm
<1>3. (Migrating' <=> Migrating) /\ (Migrating => Moved' = Moved /\ Gain' = Gain)
  BY <1>1, <1>2, ShapeTables
<1> QED BY <1>1, <1>3 DEF SameShape

LEMMA ScanCalm ==
    ASSUME Inv, Calm, NEW t \in Threads, Alone(t), Scan(t)
    PROVE  Calm'
<1>o. PICK o : o = Last - 1
  OBVIOUS
<1>k. PICK k : k = th[t].key
  OBVIOUS
<1>i. PICK i : i = th[t].mi
  OBVIOUS
<1>e. PICK e : e = Slot(o, i)
  OBVIOUS
<1>s. PICK sure : sure = (th[t].success \/ e.key \in {NoKey, k})
  OBVIOUS
<1>0. At(t, "scan") /\ UNCHANGED <<tables, state>>
  BY DEF Scan
<1>c. Scanning(t, o, k, i)
  BY <1>0, <1>o, <1>k, <1>i, ScanKnown
<1>1. /\ Migrating /\ th[t].from = o /\ o \in 1 .. Last /\ i \in Places(o) /\ e \in SlotType
      /\ k \in Keys /\ k # NoKey
      /\ th[t].external = TRUE /\ ~th[t].ret /\ th[t].valp = TOMBSTONE
      /\ th[t].moved \in Nat /\ sure \in BOOLEAN
      /\ MIGRATIONS_PER_ACCESS * Gain <= Moved - th[t].moved
      /\ Moved \in Nat /\ Gain \in Int
  BY <1>c, <1>e, <1>s DEF Scanning
<1>2. \A j \in Places(o) : Distance(o, k, j) < Distance(o, k, i) =>
         Rid(o, k, j) /\ (th[t].moved < MIGRATIONS_PER_ACCESS => Clean(o, j))
  BY <1>c DEF Scanning
<1>3. sure => \A j \in Places(o) : Rid(o, k, j) \/ j = i
  <2>1. ASSUME sure PROVE \A j \in Places(o) : Rid(o, k, j) \/ j = i
    <3>1. th[t].success \/ Slot(o, i).key \in {NoKey, k}
      BY <2>1, <1>e, <1>s, Zenon
    <3>2. At(t, "scan")
      BY <1>0
    <3> QED BY <3>1, <3>2, <1>o, <1>k, <1>i, SureRid
  <2> QED BY <2>1, <1>1
<1>4. SameShape /\ (Migrating' <=> Migrating) /\ Moved' = Moved /\ Gain' = Gain
  BY <1>0, <1>1, StillCalm
<1>5. /\ Last' = Last /\ Places(o)' = Places(o) /\ \A c, j : Distance(o, c, j)' = Distance(o, c, j)
      /\ \A q \in 1 .. Last : tables'[q].max = tables[q].max
  BY <1>1, <1>4, ShapeSets DEF SameShape
<1>6. \A j : Slot(o, j)' = Slot(o, j)
  BY <1>0 DEF Slot
<1>7. \A j : (Rid(o, k, j)' <=> Rid(o, k, j)) /\ (Clean(o, j)' <=> Clean(o, j))
  BY <1>6 DEF Rid, Clean
<1>8. th[t] \in Locals
  BY Typed DEF Inv
<1>9. \/ /\ e.key # NoKey /\ ~e.moved
         /\ th' = [th EXCEPT ![t] = [th[t] EXCEPT !.success = sure, !.at = "mark",
                                                  !.mkey = e.key, !.mval = e.val]]
      \/ /\ ~(e.key = k /\ ~e.moved) /\ ~(th[t].moved < MIGRATIONS_PER_ACCESS) /\ sure
         /\ th' = [th EXCEPT ![t] = Goes(t, "start")]
      \/ /\ ~(e.key = k /\ ~e.moved)
         /\ th[t].moved < MIGRATIONS_PER_ACCESS => ~(e.key # NoKey /\ ~e.moved)
         /\ th' = [th EXCEPT ![t] = NextSlot(t, th[t].moved, sure)]
  <2>1. th' = [th EXCEPT ![t] =
               IF ((e.key = k /\ ~e.moved) \/ th[t].moved < MIGRATIONS_PER_ACCESS) /\ e.key # NoKey /\ ~e.moved
               THEN [th[t] EXCEPT !.success = sure, !.at = "mark", !.mkey = e.key, !.mval = e.val]
               ELSE IF ~(th[t].moved < MIGRATIONS_PER_ACCESS) /\ sure THEN Goes(t, "start")
               ELSE NextSlot(t, th[t].moved, sure)]
    BY <1>1, <1>i, <1>e, <1>k, <1>s, Zenon DEF Scan
  <2>2. CASE ((e.key = k /\ ~e.moved) \/ th[t].moved < MIGRATIONS_PER_ACCESS) /\ e.key # NoKey /\ ~e.moved
    BY <2>1, <2>2, Zenon
  <2>3. CASE ~(((e.key = k /\ ~e.moved) \/ th[t].moved < MIGRATIONS_PER_ACCESS) /\ e.key # NoKey /\ ~e.moved)
    <3>1. ~(e.key = k /\ ~e.moved)
      BY <1>1, <2>3
    <3> QED BY <2>1, <2>3, <3>1, Zenon
  <2> QED BY <2>2, <2>3
<1>10. CASE /\ e.key # NoKey /\ ~e.moved
            /\ th' = [th EXCEPT ![t] = [th[t] EXCEPT !.success = sure, !.at = "mark",
                                                     !.mkey = e.key, !.mval = e.val]]
  <2>c. PICK c : c = [th[t] EXCEPT !.success = sure, !.at = "mark",
                                   !.mkey = e.key, !.mval = e.val]
    OBVIOUS
  <2>1. "mark" \in Points
    BY DEF Points
  <2>2. e.key \in Keys /\ e.val \in Values \cup {TOMBSTONE}
    BY <1>1, <1>10 DEF SlotType
  <2>3. /\ c \in Locals /\ c.at = "mark" /\ c.mkey = e.key /\ c.mval = e.val /\ c.key = k
        /\ c.from = o /\ c.mi = i /\ c.external = TRUE /\ c.ret = th[t].ret
        /\ c.valp = th[t].valp /\ c.moved = th[t].moved /\ c.success = sure
    BY <2>c, <2>1, <2>2, <1>1, <1>8, <1>k, <1>i DEF Locals
  <2>4. Moves(t) /\ th'[t] = c
    BY <1>10, <2>c, <2>3, SetTh DEF Inv
  <2>5. PlaceOK(t)' /\ AnswerOK(t)'
    BY <1>1, <1>4, <1>5, <1>o, <2>3, <2>4 DEF PlaceOK, AnswerOK, At, Assimilating, Taxed
  <2>6. GrowthOK'
    BY <1>0, <1>4, <2>4, GrowthKept DEF Calm, At, Switching
  <2>7. /\ \A j \in Places(o)' : Distance(o, k, j)' < Distance(o, k, i)' =>
              Rid(o, k, j)' /\ (th'[t].moved < MIGRATIONS_PER_ACCESS => Clean(o, j)')
        /\ th'[t].success => \A j \in Places(o)' : Rid(o, k, j)' \/ j = i
    BY <1>2, <1>3, <1>5, <1>7, <2>3, <2>4
  <2>8. Slot(o, i)'.val = th'[t].mval /\ ~Slot(o, i)'.moved
    BY <1>6, <1>10, <1>e, <2>3, <2>4
  <2>9. MIGRATIONS_PER_ACCESS * Gain' <= Moved' - th'[t].moved
    BY <1>1, <1>4, <2>3, <2>4
  <2>10. Works(t)'
    BY <1>5, <1>o, <2>3, <2>4, <2>7, <2>8, <2>9, AtMark
  <2> QED BY <1>4, <2>4, <2>5, <2>6, <2>10, ShapeCalm DEF Alone
<1>11. CASE /\ ~(e.key = k /\ ~e.moved) /\ ~(th[t].moved < MIGRATIONS_PER_ACCESS) /\ sure
            /\ th' = [th EXCEPT ![t] = Goes(t, "start")]
  <2>1. Moves(t) /\ Forgot(t, "start", th'[t])
    BY <1>11, GoesTh, PointsKnown DEF Inv
  <2>2. /\ th'[t].at = "start" /\ th'[t].external = TRUE /\ th'[t].key = k
        /\ th'[t].ret = th[t].ret /\ th'[t].valp = th[t].valp
    BY <2>1, <1>k DEF Forgot
  <2>3. PlaceOK(t)' /\ AnswerOK(t)'
    BY <1>1, <2>2 DEF PlaceOK, AnswerOK, At, Assimilating, Taxed
  <2>4. GrowthOK'
    BY <1>0, <1>4, <2>1, GrowthKept DEF Calm, At, Switching
  <2>5. \A j \in Places(o)' : Rid(o, k, j)'
    <3>1. Rid(o, k, i)
      BY <1>11, <1>e DEF Rid
    <3> QED BY <3>1, <1>3, <1>5, <1>7, <1>11
  <2>6. MIGRATIONS_PER_ACCESS * Gain' + MIGRATIONS_PER_ACCESS <= Moved'
    <3>1. MIGRATIONS_PER_ACCESS \in Nat /\ MIGRATIONS_PER_ACCESS * Gain \in Int
      BY <1>1, LfhtAssumption
    <3> QED BY <1>1, <1>4, <1>11, <3>1
  <2>7. Works(t)'
    BY <1>5, <1>o, <2>2, <2>5, <2>6, AtStart
  <2> QED BY <1>4, <2>1, <2>3, <2>4, <2>7, ShapeCalm DEF Alone
<1>12. CASE /\ ~(e.key = k /\ ~e.moved)
            /\ th[t].moved < MIGRATIONS_PER_ACCESS => ~(e.key # NoKey /\ ~e.moved)
            /\ th' = [th EXCEPT ![t] = NextSlot(t, th[t].moved, sure)]
  <2>1. Moves(t) /\ Scanned(t, th[t].moved, sure, th'[t])
    BY <1>0, <1>1, <1>12, NextSlotTh, AtSlot DEF Inv
  <2>2. PlaceOK(t)' /\ AnswerOK(t)'
    BY <1>1, <1>4, <1>5, <1>o, <2>1 DEF Scanned, PlaceOK, AnswerOK, At, Assimilating, Taxed
  <2>4. GrowthOK'
    BY <1>0, <1>4, <2>1, GrowthKept DEF Calm, At, Switching
  <2>5. Rid(o, k, i) /\ (th[t].moved < MIGRATIONS_PER_ACCESS => Clean(o, i))
    BY <1>12, <1>e DEF Rid, Clean
  <2>6. \A j \in Places(o) : Distance(o, k, j) < Distance(o, k, i) \/ j = i =>
           Rid(o, k, j)' /\ (th[t].moved < MIGRATIONS_PER_ACCESS => Clean(o, j)')
    BY <1>2, <1>7, <2>5
  <2>7. sure => \A j \in Places(o) : Rid(o, k, j)'
    BY <1>3, <1>7, <2>5
  <2>8. Works(t)'
    BY <1>0, <1>1, <1>4, <1>5, <1>o, <1>k, <1>i, <2>1, <2>6, <2>7, NextSlotWorks
  <2> QED BY <1>4, <2>1, <2>2, <2>4, <2>8, ShapeCalm DEF Alone
<1> QED BY <1>9, <1>10, <1>11, <1>12

\* A step of a thread that is alone while keys move.
LEMMA StepCalm ==
    ASSUME Inv, Calm, NEW t \in Threads, Moves(t), Alone(t), Last' = Last,
           Migrating' <=> Migrating, LeftOK', OnceOK', ApartOK', RateOK', GrowthOK',
           PlaceOK(t)', AnswerOK(t)', Migrating => Works(t)'
    PROVE  Calm'
<1>1. ThreadCalm(t)'
  BY DEF ThreadCalm
<1>2. ASSUME NEW u \in Threads \ {t} PROVE ThreadCalm(u)'
  BY OthersCalm DEF Calm, Moves, Alone
<1> QED BY <1>1, <1>2 DEF Calm

\* A key of the old table is marked.
LEMMA MarkedTables ==
    ASSUME Inv, Calm, Migrating, NEW o, o = Last - 1, NEW i \in Used(o), ~Slot(o, i).moved,
           NEW s, s = [Slot(o, i) EXCEPT !.moved = TRUE], Write(o, i, s)
    PROVE  /\ LeftOK' /\ OnceOK' /\ ApartOK' /\ RateOK'
           /\ Last' = Last /\ (Migrating' <=> Migrating)
           /\ Moved' = Moved + 1 /\ Gain' = Gain - 1 /\ Moved \in Nat /\ Gain \in Int
           /\ \A q \in 1 .. Last : tables'[q].max = tables[q].max
           /\ \A q \in 1 .. Last : Places(q)' = Places(q) /\ Used(q)' = Used(q)
           /\ \A q \in 1 .. Last : \A j \in Places(q) :
                 Slot(q, j)' = IF q = o /\ j = i THEN s ELSE Slot(q, j)
<1>l. PICK l : l = Last
  OBVIOUS
<1>0. /\ l \in Nat /\ l >= 2 /\ o \in 1 .. l /\ o \in 1 .. Last /\ l \in 1 .. l /\ o # l
      /\ o = l - 1 /\ o \in 1 .. l - 1
  BY <1>l, LastKnown
<1>1. i \in Places(o) /\ Slot(o, i) \in SlotType /\ Slot(o, i).key # NoKey
  BY <1>0, TableKnown DEF Inv, Used, Places
<1>2. s \in SlotType /\ s.key = Slot(o, i).key /\ s.moved = TRUE
  BY <1>1 DEF SlotType
<1>3. /\ Last' = l
      /\ \A q \in 1 .. l : /\ tables'[q].max = tables[q].max
                           /\ tables'[q].assimilated = tables[q].assimilated
      /\ \A q \in 1 .. l : \A j \in Places(q) :
            Slot(q, j)' = IF q = o /\ j = i THEN s ELSE Slot(q, j)
  BY <1>0, <1>1, <1>2, <1>l, Written DEF Inv
<1>4. \A q \in 1 .. l : Places(q)' = Places(q)
  BY <1>3 DEF Places
<1>5. \A q \in 1 .. l : \A j \in Places(q) :
         Slot(q, j)'.key = Slot(q, j).key /\ (Slot(q, j).moved => Slot(q, j)'.moved)
  BY <1>2, <1>3
<1>6. \A q \in 1 .. l : Used(q)' = Used(q) /\ Used(q) \subseteq Places(q)
  BY <1>4, <1>5 DEF Used, Places
<1>7. Migrating' <=> Migrating
  BY <1>0, <1>3, <1>l DEF Migrating
<1>8. LeftOK'
  <2>1. \A n \in 1 .. l - 1 : n \in 1 .. l
    BY <1>0
  <2>2. \A n \in 1 .. l - 2 : n \in 1 .. l
    BY <1>0
  <2>3. \A n \in 1 .. l - 1 : tables[n].assimilated => \A j \in Used(n) : Slot(n, j)'.moved
    BY <1>5, <1>6, <1>l, <2>1 DEF Calm, LeftOK
  <2> QED BY <1>3, <1>6, <1>l, <2>1, <2>2, <2>3 DEF Calm, LeftOK
<1>9. OnceOK'
  <2>1. ASSUME NEW q \in 1 .. l, NEW a \in Used(q), NEW b \in Used(q),
               Slot(q, a)'.key = Slot(q, b)'.key
        PROVE  a = b
    BY <2>1, <1>5, <1>6, <1>l DEF Calm, OnceOK
  <2> QED BY <2>1, <1>3, <1>6 DEF OnceOK
<1>10. ApartOK'
  <2>1. ASSUME NEW a \in Used(o), NEW b \in Used(l), Slot(o, a)'.key = Slot(l, b)'.key
        PROVE  Slot(o, a)'.moved
    BY <2>1, <1>0, <1>5, <1>6, <1>l DEF Calm, ApartOK
  <2>2. \A a \in Used(o)' : \A b \in Used(l)' :
                  Slot(o, a)'.key = Slot(l, b)'.key => Slot(o, a)'.moved
    BY <2>1, <1>0, <1>6
  <2> QED BY <2>2, <1>0, <1>3 DEF ApartOK, Used, Slot
<1>11. Marked(o)' = Marked(o) \cup {i} /\ i \notin Marked(o)
  <2>1. Marked(o)' = {j \in Used(o) : Slot(o, j)'.moved}
    BY <1>0, <1>6 DEF Marked
  <2>2. \A j \in Used(o) : Slot(o, j)'.moved <=> j = i \/ Slot(o, j).moved
    BY <1>0, <1>2, <1>3, <1>6
  <2> QED BY <2>1, <2>2 DEF Marked
<1>12. Moved \in Nat /\ Gain \in Int
  BY CardKnown
<1>13. IsFiniteSet(Marked(o))
  <2>1. IsFiniteSet(Used(o))
    BY <1>0, TableKnown, UsedFinite DEF Inv
  <2>2. Marked(o) \subseteq Used(o)
    BY DEF Marked
  <2> QED BY <2>1, <2>2, FS_Subset
<1>14. Moved' = Moved + 1
  <2>1. Moved' = Cardinality(Marked(o)') /\ Moved = Cardinality(Marked(o))
    BY <1>0, <1>3, <1>l DEF Moved, Marked, Used, Slot
  <2> QED BY <2>1, <1>11, <1>13, FS_AddElement
<1>15. Gain' = Gain - 1
  <2>1. Gain' = Cardinality(Used(l)') - Moved' /\ Gain = Cardinality(Used(l)) - Moved
    BY <1>3, <1>l DEF Gain, Used, Slot
  <2>2. Cardinality(Used(l)) \in Nat /\ Used(l)' = Used(l)
    BY <1>0, <1>6, <1>l, TableKnown, UsedFinite DEF Inv
  <2> QED BY <2>1, <2>2, <1>12, <1>14
<1>16. RateOK'
  <2>1. MIGRATIONS_PER_ACCESS \in Nat /\ MIGRATIONS_PER_ACCESS * Gain <= Moved
    BY LfhtAssumption DEF Calm, RateOK
  <2>2. MIGRATIONS_PER_ACCESS * (Gain - 1) = MIGRATIONS_PER_ACCESS * Gain - MIGRATIONS_PER_ACCESS
        /\ MIGRATIONS_PER_ACCESS * Gain \in Int
    BY <1>12, <2>1
  <2>3. MIGRATIONS_PER_ACCESS * (Gain - 1) <= Moved + 1
    BY <1>12, <2>1, <2>2
  <2> QED BY <2>3, <1>14, <1>15 DEF RateOK
<1> QED BY <1>3, <1>4, <1>6, <1>7, <1>8, <1>9, <1>10, <1>12, <1>14, <1>15, <1>16, <1>l

\* The add of a key that assimilate moves.
LEMMA AtInternal ==
    ASSUME NEW t \in Threads, ~th'[t].external, th'[t].at \in {"start", "probe"},
           NEW l, l = Last', NEW o, o = l - 1, NEW k, k = th'[t].key, NEW i, i = th'[t].mi,
           \A j \in Places(o)' : Distance(o, k, j)' < Distance(o, k, i)' \/ j = i =>
              Rid(o, k, j)' /\ (th'[t].moved < MIGRATIONS_PER_ACCESS => Clean(o, j)'),
           th'[t].success => \A j \in Places(o)' : Rid(o, k, j)',
           \A j \in Used(l)' : Slot(l, j)'.key # th'[t].mkey,
           MIGRATIONS_PER_ACCESS * Gain' + MIGRATIONS_PER_ACCESS <= Moved' - 1 - th'[t].moved
    PROVE  Works(t)'
<1>1. PaidOK(t)'
  BY DEF PaidOK
<1>2. DebtOK(t)'
  BY DEF DebtOK, At
<1>3. ScanOK(t)'
  BY DEF ScanOK, At, Places, Rid, Clean, Slot, Done, Distance, Home
<1>4. MoveOK(t)'
  BY DEF MoveOK, At, Slot, Used
<1> QED BY <1>1, <1>2, <1>3, <1>4 DEF Works

LEMMA MarkCalm ==
    ASSUME Inv, Calm, NEW t \in Threads, Alone(t), Mark(t)
    PROVE  Calm'
<1>o. PICK o : o = Last - 1
  OBVIOUS
<1>l. PICK l : l = Last
  OBVIOUS
<1>k. PICK k : k = th[t].key
  OBVIOUS
<1>i. PICK i : i = th[t].mi
  OBVIOUS
<1>e. PICK e : e = Slot(o, i)
  OBVIOUS
<1>s. PICK s : s = [e EXCEPT !.moved = TRUE]
  OBVIOUS
<1>0. At(t, "mark") /\ UNCHANGED state
  BY DEF Mark
<1>c. Scanning(t, o, k, i)
  BY <1>0, <1>o, <1>k, <1>i, ScanKnown
<1>1. /\ Migrating /\ th[t].from = o /\ o \in 1 .. Last /\ i \in Places(o) /\ e \in SlotType
      /\ k \in Keys /\ k # NoKey
      /\ th[t].external = TRUE /\ ~th[t].ret /\ th[t].valp = TOMBSTONE
      /\ th[t].moved \in Nat /\ th[t].success \in BOOLEAN
      /\ \A j \in Places(o) : Distance(o, k, j) < Distance(o, k, i) =>
            Rid(o, k, j) /\ (th[t].moved < MIGRATIONS_PER_ACCESS => Clean(o, j))
      /\ th[t].success => \A j \in Places(o) : Rid(o, k, j) \/ j = i
      /\ MIGRATIONS_PER_ACCESS * Gain <= Moved - th[t].moved
      /\ Moved \in Nat /\ Gain \in Int
  BY <1>c, <1>e DEF Scanning
<1>2. e.val = th[t].mval /\ ~e.moved
  <2>1. Works(t)
    BY <1>1 DEF Calm, ThreadCalm
  <2> QED BY <2>1, <1>0, <1>o, <1>i, <1>e DEF Works, MoveOK
<1>3. th[t].mkey \in Keys /\ e.key = th[t].mkey /\ e.key # NoKey
  BY <1>0, <1>1, <1>i, <1>e, LfhtAssumption DEF Inv, ThInv, TaxOK
<1>4. i \in Used(o)
  BY <1>1, <1>3, <1>e DEF Used, Places
<1>5. /\ Write(o, i, s)
      /\ th' = [th EXCEPT ![t] = IF th[t].mval = TOMBSTONE
                                 THEN NextSlot(t, th[t].moved, th[t].success)
                                 ELSE [th[t] EXCEPT !.at = "start", !.external = FALSE]]
  BY <1>1, <1>2, <1>i, <1>e, <1>s DEF Mark
<1>6. /\ LeftOK' /\ OnceOK' /\ ApartOK' /\ RateOK'
      /\ Last' = Last /\ (Migrating' <=> Migrating)
      /\ Moved' = Moved + 1 /\ Gain' = Gain - 1
      /\ \A q \in 1 .. Last : tables'[q].max = tables[q].max
      /\ \A q \in 1 .. Last : Places(q)' = Places(q) /\ Used(q)' = Used(q)
      /\ \A q \in 1 .. Last : \A j \in Places(q) :
            Slot(q, j)' = IF q = o /\ j = i THEN s ELSE Slot(q, j)
  BY <1>1, <1>2, <1>4, <1>5, <1>o, <1>e, <1>s, MarkedTables
<1>7. s.moved = TRUE /\ s.key = e.key
  BY <1>1, <1>s DEF SlotType
<1>8. \A j \in Places(o) : /\ Slot(o, j)'.key = Slot(o, j).key
                           /\ Slot(o, j)'.moved <=> Slot(o, j).moved \/ j = i
  BY <1>1, <1>6, <1>7, <1>e
<1>9. \A j \in Places(o) : /\ Rid(o, k, j) => Rid(o, k, j)'
                           /\ Clean(o, j) => Clean(o, j)'
                           /\ Rid(o, k, i)' /\ Clean(o, i)'
  BY <1>1, <1>8 DEF Rid, Clean
<1>10. \A j \in Places(o) : Distance(o, k, j) < Distance(o, k, i) \/ j = i =>
          Rid(o, k, j)' /\ (th[t].moved < MIGRATIONS_PER_ACCESS => Clean(o, j)')
  BY <1>1, <1>9
<1>11. th[t].success => \A j \in Places(o) : Rid(o, k, j)'
  BY <1>1, <1>9
<1>12. MIGRATIONS_PER_ACCESS \in Nat /\ MIGRATIONS_PER_ACCESS * Gain \in Int
       /\ MIGRATIONS_PER_ACCESS * (Gain - 1) = MIGRATIONS_PER_ACCESS * Gain - MIGRATIONS_PER_ACCESS
  BY <1>1, LfhtAssumption
<1>13. CASE th' = [th EXCEPT ![t] = NextSlot(t, th[t].moved, th[t].success)]
  <2>1. Moves(t) /\ Scanned(t, th[t].moved, th[t].success, th'[t])
    BY <1>0, <1>1, <1>13, NextSlotTh, AtSlot DEF Inv
  <2>2. PlaceOK(t)' /\ AnswerOK(t)'
    BY <1>1, <1>6, <1>o, <2>1 DEF Scanned, PlaceOK, AnswerOK, At, Assimilating, Taxed
  <2>3. GrowthOK'
    BY <1>0, <1>6, <2>1, GrowthKept DEF Calm, At, Switching
  <2>4. MIGRATIONS_PER_ACCESS * Gain' <= Moved' - th[t].moved
    BY <1>1, <1>6, <1>12
  <2>g. PICK g \in Int : g = Gain'
    BY <1>1, <1>6
  <2>m. PICK m \in Int : m = Moved'
    BY <1>1, <1>6
  <2>5. Works(t)'
    BY <1>0, <1>1, <1>6, <1>o, <1>k, <1>i, <1>10, <1>11, <2>1, <2>4, <2>g, <2>m, NextSlotWorks
  <2> QED BY <1>6, <2>1, <2>2, <2>3, <2>5, StepCalm
<1>14. CASE th' = [th EXCEPT ![t] = [th[t] EXCEPT !.at = "start", !.external = FALSE]]
  <2>c. PICK c : c = [th[t] EXCEPT !.at = "start", !.external = FALSE]
    OBVIOUS
  <2>1. "start" \in Points /\ th[t] \in Locals
    BY Typed DEF Points, Inv
  <2>2. /\ c \in Locals /\ c.at = "start" /\ c.key = k /\ c.from = o /\ c.mi = i
        /\ c.external = FALSE /\ c.ret = th[t].ret /\ c.valp = th[t].valp
        /\ c.moved = th[t].moved /\ c.success = th[t].success /\ c.mkey = th[t].mkey
    BY <1>1, <2>1, <2>c, <1>k, <1>i DEF Locals
  <2>3. Moves(t) /\ th'[t] = c
    BY <1>14, <2>c, <2>2, SetTh DEF Inv
  <2>4. PlaceOK(t)' /\ AnswerOK(t)'
    BY <1>1, <1>6, <1>o, <2>2, <2>3 DEF PlaceOK, AnswerOK, At, Assimilating, Taxed
  <2>5. GrowthOK'
    BY <1>0, <1>6, <2>3, GrowthKept DEF Calm, At, Switching
  <2>6. \A j \in Used(l)' : Slot(l, j)'.key # th'[t].mkey
    <3>1. l \in 1 .. Last /\ l # o /\ Used(l) \subseteq Places(l)
      BY <1>1, <1>o, <1>l, LastKnown DEF Used, Places
    <3>2. ASSUME NEW j \in Used(l) PROVE Slot(l, j).key # e.key
      BY <1>1, <1>2, <1>4, <1>e, <1>o, <1>l DEF Calm, ApartOK
    <3> QED BY <3>1, <3>2, <1>3, <1>6, <2>2, <2>3
  <2>7. MIGRATIONS_PER_ACCESS * Gain' + MIGRATIONS_PER_ACCESS <= Moved' - 1 - th'[t].moved
    BY <1>1, <1>6, <1>12, <2>2, <2>3
  <2>8. \A j \in Places(o)' : Distance(o, k, j)' < Distance(o, k, i)' \/ j = i =>
              Rid(o, k, j)' /\ (th'[t].moved < MIGRATIONS_PER_ACCESS => Clean(o, j)')
    <3>1. \A j : Distance(o, k, j)' = Distance(o, k, j)
      BY <1>1, <1>6 DEF Distance, Home
    <3> QED BY <1>1, <1>6, <1>10, <2>2, <2>3, <3>1
  <2>9. th'[t].success => \A j \in Places(o)' : Rid(o, k, j)'
    BY <1>1, <1>6, <1>11, <2>2, <2>3
  <2>10. Works(t)'
    BY <1>6, <1>o, <1>l, <2>2, <2>3, <2>6, <2>7, <2>8, <2>9, AtInternal
  <2> QED BY <1>6, <2>3, <2>4, <2>5, <2>10, StepCalm
<1> QED BY <1>5, <1>13, <1>14

LEMMA FinishCalm ==
    ASSUME Inv, Calm, NEW t \in Threads, Alone(t), Finish(t)
    PROVE  Calm'
<1>o. PICK o : o = Last - 1
  OBVIOUS
<1>l. PICK l : l = Last
  OBVIOUS
<1>0. /\ At(t, "finish") /\ UNCHANGED state /\ GoTo(t, "recheck")
      /\ tables' = [tables EXCEPT ![th[t].from].assimilated = TRUE]
  BY DEF Finish
<1>1. /\ th[t].from = o /\ th[t].external = TRUE /\ ~th[t].ret /\ th[t].valp = TOMBSTONE
      /\ o \in 1 .. l - 1
  BY <1>0, <1>o, <1>l, Typed
     DEF Calm, ThreadCalm, PlaceOK, AnswerOK, At, Assimilating, Taxed, Inv, ThInv, TaxOK, Locals
<1>2. /\ l \in Nat /\ l >= 2 /\ o \in 1 .. l /\ l \in 1 .. l /\ o # l /\ o = l - 1
      /\ \A q \in 1 .. l - 1 : q \in 1 .. l
  BY <1>1, <1>l, <1>o, LastKnown
<1>3. /\ Last' = l
      /\ \A q \in 1 .. l : /\ tables'[q].max = tables[q].max
                           /\ q = o => tables'[q].assimilated = TRUE
                           /\ q # o => tables'[q].assimilated = tables[q].assimilated
      /\ \A q \in 1 .. l : \A j \in Places(q) : Slot(q, j)' = Slot(q, j)
  BY <1>0, <1>1, <1>2, <1>l, Assimilated DEF Inv
<1>4. \A q \in 1 .. l : Places(q)' = Places(q)
  BY <1>3 DEF Places
<1>5. \A q \in 1 .. l : Used(q)' = Used(q) /\ Used(q) \subseteq Places(q)
  BY <1>3, <1>4 DEF Used, Places
<1>6. /\ Moves(t) /\ th'[t].at = "recheck" /\ th'[t].from = o
      /\ th'[t].external = TRUE /\ th'[t].ret = th[t].ret /\ th'[t].valp = th[t].valp
  BY <1>0, <1>1, GoToTh, PointsKnown DEF Inv
<1>7. \A q \in 1 .. l - 2 : q \in 1 .. l - 1 /\ q # o /\ tables[q].assimilated
  BY <1>2, <1>l DEF Calm, LeftOK
<1>8. \A q \in 1 .. l - 1 : q = o \/ q \in 1 .. l - 2
  BY <1>2
<1>9. \A q \in 1 .. l - 1 : tables'[q].assimilated
  BY <1>2, <1>3, <1>7, <1>8
<1>10. ~Migrating'
  BY <1>3, <1>9 DEF Migrating
<1>11. \A j \in Used(o) : Slot(o, j).moved
  <2>1. CASE Migrating
    <3>1. \A j \in Places(o) : Clean(o, j)
      BY <2>1, <1>0, <1>1, <1>o DEF Calm, ThreadCalm, Works, PaidOK
    <3> QED BY <3>1, <1>2, <1>5 DEF Clean, Used
  <2>2. CASE ~Migrating
    BY <2>2, <1>1, <1>l DEF Migrating, Calm, LeftOK
  <2> QED BY <2>1, <2>2
<1>12. LeftOK'
  <2>1. ASSUME NEW q \in 1 .. l - 1, NEW j \in Used(q) PROVE Slot(q, j)'.moved
    <3>1. Slot(q, j)' = Slot(q, j)
      BY <1>2, <1>3, <1>5
    <3>2. Slot(q, j).moved
      BY <1>7, <1>8, <1>11, <1>l DEF Calm, LeftOK
    <3> QED BY <3>1, <3>2
  <2> QED BY <2>1, <1>2, <1>3, <1>5, <1>7, <1>9 DEF LeftOK
<1>13. OnceOK'
  <2>1. ASSUME NEW q \in 1 .. l, NEW a \in Used(q), NEW b \in Used(q),
               Slot(q, a)'.key = Slot(q, b)'.key
        PROVE  a = b
    BY <2>1, <1>3, <1>5, <1>l DEF Calm, OnceOK
  <2> QED BY <2>1, <1>3, <1>5 DEF OnceOK
<1>14. ApartOK' /\ RateOK'
  BY <1>10 DEF ApartOK, RateOK
<1>15. GrowthOK'
  BY <1>6, <1>10 DEF GrowthOK, At
<1>16. ThreadCalm(t)'
  BY <1>1, <1>2, <1>3, <1>6, <1>10
     DEF ThreadCalm, PlaceOK, AnswerOK, At, Assimilating, Taxed
<1>17. ASSUME NEW u \in Threads \ {t} PROVE ThreadCalm(u)'
  <2>1. CASE Migrating
    <3>1. At(u, "idle")
      BY <2>1 DEF Alone
    <3>2. th'[u].at = "idle" /\ th'[u].external = TRUE
      BY <3>1, <1>6, Typed DEF Moves, Inv, ThInv, CallOK, At, Locals
    <3> QED BY <3>2, IdleCalm
  <2>2. CASE ~Migrating
    BY <2>2, <1>3, <1>6, <1>10, <1>l, OthersCalm DEF Calm, Moves
  <2> QED BY <2>1, <2>2
<1> QED BY <1>12, <1>13, <1>14, <1>15, <1>16, <1>17 DEF Calm

\* The last migration is over.
LEMMA RecheckCalm ==
    ASSUME Inv, Calm, NEW t \in Threads, Alone(t), Recheck(t)
    PROVE  Calm'
<1>0. /\ At(t, "recheck") /\ UNCHANGED <<tables, state>> /\ ~Migrating
      /\ th[t].from = Last - 1 /\ th[t].external = TRUE /\ ~th[t].ret /\ th[t].valp = TOMBSTONE
  BY Typed DEF Recheck, Calm, ThreadCalm, PlaceOK, AnswerOK, At, Assimilating, Taxed,
               Inv, ThInv, TaxOK, Locals
<1>1. Last = th[t].from + 1
  BY <1>0, LastKnown
<1>2. th' = [th EXCEPT ![t] = Goes(t, "expanded")]
  BY <1>1 DEF Recheck
<1>3. Moves(t) /\ Forgot(t, "expanded", th'[t])
  BY <1>2, GoesTh, PointsKnown DEF Inv
<1>4. /\ th'[t].at = "expanded" /\ th'[t].external = TRUE /\ th'[t].from = th[t].from
      /\ th'[t].ret = th[t].ret /\ th'[t].valp = th[t].valp
  BY <1>3 DEF Forgot
<1>5. SameShape /\ Last' = Last /\ (Migrating' <=> Migrating)
  BY <1>0, StillCalm
<1>6. PlaceOK(t)' /\ AnswerOK(t)'
  BY <1>0, <1>4, <1>5 DEF PlaceOK, AnswerOK, At, Assimilating, Taxed
<1>7. GrowthOK'
  BY <1>0, <1>4, <1>5 DEF GrowthOK, At
<1> QED BY <1>0, <1>3, <1>5, <1>6, <1>7, ShapeCalm

LEMMA ExpandedCalm ==
    ASSUME Inv, Calm, NEW t \in Threads, Alone(t), Expanded(t)
    PROVE  Calm'
<1>0. /\ At(t, "expanded") /\ UNCHANGED tables /\ state' = "expanded" /\ ~Migrating
      /\ th[t].external = TRUE /\ ~th[t].ret /\ th[t].valp = TOMBSTONE
      /\ th' = [th EXCEPT ![t] = Goes(t, "start")]
  BY Typed DEF Expanded, Calm, ThreadCalm, PlaceOK, AnswerOK, At, Assimilating, Taxed,
               Inv, ThInv, TaxOK, Locals
<1>3. Moves(t) /\ Forgot(t, "start", th'[t])
  BY <1>0, GoesTh, PointsKnown DEF Inv
<1>4. /\ th'[t].at = "start" /\ th'[t].external = TRUE
      /\ th'[t].ret = th[t].ret /\ th'[t].valp = th[t].valp
  BY <1>3 DEF Forgot
<1>5. SameShape /\ Last' = Last /\ (Migrating' <=> Migrating)
  BY <1>0, StillCalm
<1>6. PlaceOK(t)' /\ AnswerOK(t)'
  BY <1>0, <1>4, <1>5 DEF PlaceOK, AnswerOK, At, Assimilating, Taxed
<1>7. GrowthOK'
  BY <1>0, <1>5 DEF GrowthOK
<1> QED BY <1>0, <1>3, <1>5, <1>6, <1>7, ShapeCalm

(***************************************************************************)
(* Steps of an add, remove or find that keep the shape of the tables       *)
(***************************************************************************)
\* What the thread is doing, apart from where it is.
SameTask(t) ==
    /\ th'[t].external = th[t].external /\ th'[t].key = th[t].key /\ th'[t].op = th[t].op
    /\ th'[t].val = th[t].val /\ th'[t].from = th[t].from /\ th'[t].mi = th[t].mi
    /\ th'[t].moved = th[t].moved /\ th'[t].success = th[t].success
    /\ th'[t].mkey = th[t].mkey /\ th'[t].mval = th[t].mval

LEMMA TaskWorks ==
    ASSUME Inv, Calm, SameShape, NEW t \in Threads, Migrating, SameTask(t),
           th[t].at \in InTable \cup {"start"}, th'[t].at \in InTable,
           th'[t].at = "probe" => th[t].at \in {"start", "probe"},
           ~th[t].external => th'[t].at \in {"probe", "store", "count", "grow", "exit"},
           NEW l, l = Last,
           ~th[t].external /\ th'[t].at \in {"count", "grow", "exit"} =>
               \E j \in Used(l) : Slot(l, j)'.key = th[t].mkey /\ Slot(l, j)'.val = th[t].mval
    PROVE  Works(t)'
<1>o. PICK o : o = l - 1
  OBVIOUS
<1>k. PICK k : k = th[t].key
  OBVIOUS
<1>i. PICK i : i = th[t].mi
  OBVIOUS
<1>1. /\ o \in 1 .. Last /\ l \in 1 .. Last /\ Last' = l /\ th[t].external \in BOOLEAN
      /\ ScanOK(t) /\ MoveOK(t) /\ PaidOK(t) /\ DebtOK(t) /\ PlaceOK(t)
  BY <1>o, LastKnown, Typed DEF Calm, ThreadCalm, Works, SameShape, Inv, Locals
<1>2. /\ Places(o)' = Places(o) /\ Used(l)' = Used(l)
      /\ \A c, j : Distance(o, c, j)' = Distance(o, c, j)
  BY <1>1, ShapeSets
<1>3. \A j \in Places(o) : Slot(o, j)'.key = Slot(o, j).key /\ Slot(o, j)'.moved = Slot(o, j).moved
  BY <1>1 DEF SameShape
<1>4. \A j \in Places(o) : (Rid(o, k, j)' <=> Rid(o, k, j)) /\ (Clean(o, j)' <=> Clean(o, j))
  BY <1>3 DEF Rid, Clean
<1>5. /\ Moved' = Moved /\ Gain' = Gain /\ Moved \in Nat /\ Gain \in Int
      /\ MIGRATIONS_PER_ACCESS \in Nat /\ MIGRATIONS_PER_ACCESS * Gain \in Int
  BY ShapeTables, CardKnown, LfhtAssumption DEF Calm
<1>6. /\ th'[t].at \notin {"scan", "mark", "finish", "start"}
      /\ th[t].at \notin {"scan", "mark", "finish"}
  BY DEF InTable
<1>7. ScanOK(t)'
  <2>1. CASE th[t].external
    BY <2>1, <1>6 DEF ScanOK, At, SameTask
  <2>2. CASE ~th[t].external
    <3>1. \A j \in Places(o) :
             /\ Distance(o, k, j) < Distance(o, k, i) \/ j = i =>
                   /\ Rid(o, k, j)
                   /\ th[t].moved < MIGRATIONS_PER_ACCESS => Clean(o, j)
             /\ th[t].success => Rid(o, k, j)
      BY <2>2, <1>1, <1>6, <1>o, <1>k, <1>i DEF ScanOK, Done, At
    <3>2. \A j \in Places(o)' :
             /\ Distance(o, k, j)' < Distance(o, k, i)' \/ j = i =>
                   /\ Rid(o, k, j)'
                   /\ th[t].moved < MIGRATIONS_PER_ACCESS => Clean(o, j)'
             /\ th[t].success => Rid(o, k, j)'
      BY <3>1, <1>2, <1>4
    <3>3. th'[t].key = k /\ th'[t].mi = i /\ Last' - 1 = o
      BY <1>1, <1>o, <1>k, <1>i DEF SameTask
    <3> QED BY <3>2, <3>3 DEF SameTask, ScanOK, At, Places, Rid, Clean, Slot, Done, Distance, Home
  <2> QED BY <2>1, <2>2
<1>8. MoveOK(t)'
  <2>1. th[t].at \in {"start", "probe"} /\ ~th[t].external =>
           \A j \in Used(l)' : Slot(l, j)'.key # th[t].mkey
    <3>1. th[t].at \in {"start", "probe"} /\ ~th[t].external =>
             \A j \in Used(l) : Slot(l, j).key # th[t].mkey
      BY <1>1 DEF MoveOK
    <3>2. \A j \in Used(l) : Slot(l, j)'.key = Slot(l, j).key
      BY <1>1 DEF SameShape, Used, Places
    <3> QED BY <3>1, <3>2, <1>2
  <2>2. /\ ~At(t, "mark")' /\ th'[t].external = th[t].external /\ th'[t].mkey = th[t].mkey
        /\ th'[t].mval = th[t].mval
    BY <1>6 DEF At, SameTask
  <2>3. ~th'[t].external =>
          /\ th'[t].at \in {"start", "probe", "store", "count", "grow", "exit"}
          /\ th'[t].at \in {"start", "probe"} => \A j \in Used(l)' : Slot(l, j)'.key # th'[t].mkey
          /\ th'[t].at \in {"count", "grow", "exit"} =>
                \E j \in Used(l)' : Slot(l, j)'.key = th'[t].mkey /\ Slot(l, j)'.val = th'[t].mval
    BY <1>2, <1>6, <2>1, <2>2
  <2> QED BY <1>1, <2>2, <2>3 DEF MoveOK, Used, Slot
<1>9. PaidOK(t)'
  <2>1. th'[t].external /\ th'[t].at = "probe" => \A j \in Places(o)' : Rid(o, k, j)'
    BY <1>1, <1>2, <1>4, <1>o, <1>k DEF PaidOK, SameTask
  <2>2. th'[t].key = k /\ Last' - 1 = o
    BY <1>1, <1>o, <1>k DEF SameTask
  <2> QED BY <1>6, <2>1, <2>2 DEF PaidOK, At, Places, Rid, Slot
<1>10. DebtOK(t)'
  <2>g. PICK g : g = Gain
    OBVIOUS
  <2>m. PICK m : m = Moved
    OBVIOUS
  <2>n. PICK n : n = th[t].moved
    OBVIOUS
  <2>1. th'[t].external = th[t].external /\ th'[t].moved = n
    BY <2>n DEF SameTask
  <2>2. th'[t].at \in {"start", "probe"} => th[t].at \in {"start", "probe"}
    BY <1>6
  <2>3. ~th[t].external /\ th[t].at \in {"start", "probe"} =>
           MIGRATIONS_PER_ACCESS * g + MIGRATIONS_PER_ACCESS <= m - 1 - n
    BY <1>1, <2>g, <2>m, <2>n DEF DebtOK
  <2>4. n \in Nat /\ MIGRATIONS_PER_ACCESS * g \in Int /\ m \in Nat
    BY <1>5, <2>g, <2>m, <2>n, Typed DEF Inv, Locals
  <2>5. ~th[t].external => MIGRATIONS_PER_ACCESS * g <= m - 1 - n
    <3>1. ~th[t].external /\ th[t].at \notin {"start", "probe"} =>
             MIGRATIONS_PER_ACCESS * g <= m - 1 - n
      BY <1>1, <2>g, <2>m, <2>n DEF DebtOK
    <3> QED BY <1>5, <2>3, <2>4, <3>1
  <2>6. th[t].external /\ th[t].at \in {"start", "probe"} =>
           MIGRATIONS_PER_ACCESS * g + MIGRATIONS_PER_ACCESS <= m
    BY <1>1, <2>g, <2>m DEF DebtOK
  <2>7. ~At(t, "scan")' /\ ~At(t, "mark")' /\ Gain' = g /\ Moved' = m
    BY <1>5, <1>6, <2>g, <2>m DEF At
  <2> QED BY <2>1, <2>2, <2>3, <2>5, <2>6, <2>7 DEF DebtOK
<1> QED BY <1>7, <1>8, <1>9, <1>10 DEF Works

\* The thread of an add, remove or find goes on to another point.
LEMMA TaskCalm ==
    ASSUME Inv, Calm, NEW t \in Threads, Alone(t), UNCHANGED <<tables, state>>, Moves(t), SameTask(t),
           th[t].at \in (InTable \cup {"start"}) \ Switching, th'[t].at \in InTable \ Switching,
           th'[t].at = "probe" => th[t].at \in {"start", "probe"},
           ~th[t].external => th'[t].at \in {"probe", "store", "count", "grow", "exit"},
           NEW l, l = Last,
           Migrating /\ ~th[t].external /\ th'[t].at \in {"count", "grow", "exit"} =>
               th[t].at \in {"count", "grow", "exit"},
           PlaceOK(t)', AnswerOK(t)'
    PROVE  Calm'
<1>1. SameShape /\ (Migrating' <=> Migrating)
  BY StillCalm
<1>2. GrowthOK'
  BY <1>1, GrowthKept DEF Calm
<1>3. ASSUME Migrating PROVE Works(t)'
  <2>1. MoveOK(t)
    BY <1>3 DEF Calm, ThreadCalm, Works
  <2>2. \A j : Slot(l, j)' = Slot(l, j)
    BY DEF Slot
  <2>3. ~th[t].external /\ th'[t].at \in {"count", "grow", "exit"} =>
               \E j \in Used(l) : Slot(l, j)'.key = th[t].mkey /\ Slot(l, j)'.val = th[t].mval
    BY <1>3, <2>1, <2>2 DEF MoveOK
  <2> QED BY <1>1, <1>3, <2>3, TaskWorks
<1> QED BY <1>1, <1>2, <1>3, ShapeCalm DEF Alone

LEMMA StartCalm ==
    ASSUME Inv, Calm, NEW t \in Threads, Alone(t), Start(t)
    PROVE  Calm'
<1>l. PICK l : l = Last
  OBVIOUS
<1>k. PICK k \in Keys : k = TheKey(t)
  BY BusyKnown DEF Start, At
<1>0. /\ At(t, "start") /\ UNCHANGED <<tables, state>> /\ ~At(t, "idle")
      /\ l \in 1 .. Last /\ l \in Nat /\ th[t] \in Locals
  BY <1>l, LastKnown, Typed DEF Start, At, Inv
<1>1. tables[l].max \in Nat \ {0} /\ Places(l) \subseteq Nat
  BY <1>0, TableKnown DEF Inv
<1>h. PICK h \in Places(l) : h = Home(l, k)
  BY <1>0, <1>1, Homes DEF Places
<1>c. PICK c : c = [th[t] EXCEPT !.at = "probe", !.hdr = l, !.i = h]
  OBVIOUS
<1>2. "probe" \in Points /\ h \in Nat
  BY <1>1, PointsKnown
<1>3. /\ c \in Locals /\ c.at = "probe" /\ c.hdr = l
      /\ c.external = th[t].external /\ c.from = th[t].from /\ c.mi = th[t].mi
      /\ c.mkey = th[t].mkey /\ c.mval = th[t].mval /\ c.key = th[t].key /\ c.op = th[t].op
      /\ c.val = th[t].val /\ c.moved = th[t].moved /\ c.success = th[t].success
      /\ c.ret = th[t].ret /\ c.valp = th[t].valp
  BY <1>0, <1>2, <1>c DEF Locals
<1>4. th' = [th EXCEPT ![t] = c]
  BY <1>c, <1>l, <1>k, <1>h DEF Start
<1>5. Moves(t) /\ th'[t] = c
  BY <1>3, <1>4, SetTh DEF Inv
<1>6. SameTask(t)
  BY <1>3, <1>5 DEF SameTask
<1>7. Last' = Last /\ (Migrating' <=> Migrating)
  BY <1>0, StillCalm
<1>8. PlaceOK(t)' /\ AnswerOK(t)'
  <2>1. PlaceOK(t) /\ AnswerOK(t)
    BY DEF Calm, ThreadCalm
  <2> QED BY <1>0, <1>3, <1>5, <1>7, <1>l, <2>1 DEF PlaceOK, AnswerOK, At, Assimilating, Taxed
<1> QED BY <1>0, <1>3, <1>5, <1>6, <1>8, <1>l, TaskCalm DEF At, InTable, Switching

\* A probe that comes back to where it began has found a full table, without its key.
LEMMA WentRound ==
    ASSUME Inv, NEW t \in Threads, ProbeNext(t), NEW h, h = th[t].hdr, NEW k, k = TheKey(t),
           After(h, th[t].i) = Home(h, k)
    PROVE  /\ h \in 1 .. Last
           /\ \A j \in Places(h) : j \in Used(h) /\ ~Matches(Slot(h, j), k)
<1>i. PICK i : i = th[t].i
  OBVIOUS
<1>0. At(t, "probe") /\ Slot(h, i).key # NoKey /\ ~Matches(Slot(h, i), k)
  BY <1>i DEF ProbeNext, Here
<1>1. h \in 1 .. Last /\ i \in Places(h) /\ k \in Keys /\ tables[h].max \in Nat \ {0}
  BY <1>0, <1>i, AtPlace
<1>2. \A j \in Places(h) : Passed(t, j)
  BY <1>0 DEF Inv, ThInv, ProbeOK
<1>3. ASSUME NEW j \in Places(h) PROVE j \in Used(h) /\ ~Matches(Slot(h, j), k)
  <2>1. /\ Distance(h, k, j) \in 0 .. tables[h].max - 1
        /\ Distance(h, k, i) = tables[h].max - 1
        /\ Distance(h, k, i) = Distance(h, k, j) => i = j
    BY <1>1, <1>i, Distances DEF Places
  <2>2. CASE j = i
    BY <2>2, <1>0, <1>1 DEF Used, Places
  <2>3. CASE j # i
    <3>1. Distance(h, k, j) < Distance(h, k, i)
      BY <1>1, <2>1, <2>3
    <3> QED BY <3>1, <1>2, <1>i DEF Passed
  <2> QED BY <2>2, <2>3
<1> QED BY <1>1, <1>3

\* A table that the keys of another move to is never full.
LEMMA NeverFull ==
    ASSUME Inv, Migrating, NEW g \in Int, g = Gain, NEW m \in Nat, m = Moved,
           MIGRATIONS_PER_ACCESS * g < m, NEW l, l = Last
    PROVE  \E j \in Places(l) : j \notin Used(l)
<1>o. PICK o : o = l - 1
  OBVIOUS
<1>1. /\ o \in 1 .. Last /\ l \in 1 .. Last /\ l # 1
      /\ tables[o].max \in Nat \ {0} /\ tables[l].max \in Nat \ {0}
  BY <1>o, LastKnown, TableKnown DEF Inv
<1>2. tables[l].max = 2 * tables[o].max
  BY <1>1, <1>o DEF Inv, TablesType
<1>3. SUFFICES ASSUME \A j \in Places(l) : j \in Used(l) PROVE FALSE
  OBVIOUS
<1>4. Used(l) = 0 .. tables[l].max - 1
  BY <1>3 DEF Used, Places
<1>5. Cardinality(Used(l)) = tables[l].max
  <2>1. \A m1 \in Nat \ {0} : Cardinality(0 .. m1 - 1) = m1
    <3>1. ASSUME NEW m1 \in Nat \ {0} PROVE Cardinality(0 .. m1 - 1) = m1
      <4>1. m1 - 1 \in Int /\ 0 \in Int /\ ~(0 > m1 - 1) /\ (m1 - 1) - 0 + 1 = m1
        OBVIOUS
      <4> QED BY <4>1, FS_Interval
    <3> QED BY <3>1
  <2> QED BY <1>1, <1>4, <2>1
<1>6. m <= tables[o].max
  <2>1. Marked(o) \subseteq 0 .. tables[o].max - 1
    BY DEF Marked, Used
  <2>2. /\ IsFiniteSet(0 .. tables[o].max - 1)
        /\ Cardinality(0 .. tables[o].max - 1) = tables[o].max
    <3>1. PICK c \in Nat \ {0} : c = tables[o].max
      BY <1>1
    <3>2. c - 1 \in Int /\ 0 \in Int /\ ~(0 > c - 1) /\ (c - 1) - 0 + 1 = c
      BY <3>1
    <3>3. IsFiniteSet(0 .. c - 1) /\ Cardinality(0 .. c - 1) = c
      BY <3>2, FS_Interval
    <3> QED BY <3>1, <3>3
  <2>3. Cardinality(Marked(o)) <= tables[o].max
    BY <2>1, <2>2, FS_Subset
  <2> QED BY <2>3, <1>o DEF Moved
<1>7. g >= tables[o].max
  BY <1>1, <1>2, <1>5, <1>6 DEF Gain
<1>8. MIGRATIONS_PER_ACCESS * g >= g
  <2>1. MIGRATIONS_PER_ACCESS \in Nat \ {0} /\ g \in Nat
    BY <1>1, <1>7, LfhtAssumption
  <2>2. \A a \in Nat \ {0}, b \in Nat : a * b >= b
    <3>1. SUFFICES ASSUME NEW a \in Nat \ {0}, NEW b \in Nat PROVE a * b >= b
      OBVIOUS
    <3>2. (a - 1) * b >= 0 /\ (a - 1) * b = a * b - b /\ a * b \in Nat
      OBVIOUS
    <3> QED BY <3>2
  <2> QED BY <2>1, <2>2
<1>9. MIGRATIONS_PER_ACCESS * g \in Int
  BY LfhtAssumption
<1> QED BY <1>1, <1>6, <1>7, <1>8, <1>9

LEMMA ProbeNextCalm ==
    ASSUME Inv, Calm, NEW t \in Threads, Alone(t), ProbeNext(t)
    PROVE  Calm'
<1>h. PICK h : h = th[t].hdr
  OBVIOUS
<1>k. PICK k : k = TheKey(t)
  OBVIOUS
<1>l. PICK l : l = Last
  OBVIOUS
<1>n. PICK next : next = After(h, th[t].i)
  OBVIOUS
<1>0. /\ At(t, "probe") /\ UNCHANGED <<tables, state>> /\ th[t] \in Locals /\ k \in Keys
      /\ h \in 1 .. Last /\ th[t].i \in Places(h) /\ tables[h].max \in Nat \ {0}
  BY <1>h, <1>k, AtPlace DEF ProbeNext
<1>1. PlaceOK(t) /\ AnswerOK(t) /\ h = l
  BY <1>0, <1>h, <1>l DEF Calm, ThreadCalm, PlaceOK, At
<1>2. next \in Nat
  BY <1>0, <1>n, Distances DEF Places
<1>p. PICK p : p = IF next = Home(h, k) THEN "exit" ELSE "probe"
  OBVIOUS
<1>c. PICK c : c = [th[t] EXCEPT !.i = next, !.at = p]
  OBVIOUS
<1>3. p \in Points /\ p \in {"probe", "exit"} /\ th[t].at = "probe"
  BY <1>0, <1>p, PointsKnown DEF At
<1>4. /\ c \in Locals /\ c.at = p /\ c.hdr = h
      /\ c.external = th[t].external /\ c.from = th[t].from /\ c.mi = th[t].mi
      /\ c.mkey = th[t].mkey /\ c.mval = th[t].mval /\ c.key = th[t].key /\ c.op = th[t].op
      /\ c.val = th[t].val /\ c.moved = th[t].moved /\ c.success = th[t].success
      /\ c.ret = th[t].ret /\ c.valp = th[t].valp
  BY <1>0, <1>2, <1>3, <1>c, <1>h DEF Locals
<1>5. th' = [th EXCEPT ![t] = c]
  BY <1>3, <1>c, <1>p, <1>n, <1>h, <1>k DEF ProbeNext
<1>6. Moves(t) /\ th'[t] = c
  BY <1>4, <1>5, SetTh DEF Inv
<1>7. SameTask(t)
  BY <1>4, <1>6 DEF SameTask
<1>8. Last' = Last /\ (Migrating' <=> Migrating)
  BY <1>0, StillCalm
<1>9. Migrating /\ ~th[t].external => p = "probe"
  <2>1. SUFFICES ASSUME Migrating, ~th[t].external, p = "exit" PROVE FALSE
    BY <1>3
  <2>2. \A j \in Places(l) : j \in Used(l)
    BY <2>1, <1>1, <1>h, <1>k, <1>n, <1>p, WentRound
  <2>g. PICK g \in Int : g = Gain
    BY <2>1, CardKnown
  <2>m. PICK m \in Nat : m = Moved
    BY <2>1, CardKnown
  <2>3. MIGRATIONS_PER_ACCESS * g + MIGRATIONS_PER_ACCESS <= m - 1 - th[t].moved
    BY <2>1, <2>g, <2>m, <1>3 DEF Calm, ThreadCalm, Works, DebtOK
  <2>4. /\ MIGRATIONS_PER_ACCESS * g \in Int /\ MIGRATIONS_PER_ACCESS \in Nat
        /\ th[t].moved \in Nat
    BY <1>0, LfhtAssumption DEF Locals
  <2>5. MIGRATIONS_PER_ACCESS * g < m
    BY <2>3, <2>4
  <2> QED BY <2>1, <2>2, <2>5, <2>g, <2>m, <1>l, NeverFull
<1>10. PlaceOK(t)' /\ AnswerOK(t)'
  BY <1>1, <1>3, <1>4, <1>6, <1>8, <1>l DEF PlaceOK, AnswerOK, At, Assimilating, Taxed
<1>11. Migrating \/ th[t].external
  BY <1>1 DEF PlaceOK
<1>12. ~th[t].external => p = "probe"
  BY <1>9, <1>11
<1> QED BY <1>0, <1>3, <1>4, <1>6, <1>7, <1>10, <1>12, TaskCalm DEF InTable, Switching

\* A key that is moved was not in the new table.
LEMMA AbsentCalm ==
    ASSUME Inv, Calm, NEW t \in Threads, Alone(t), Absent(t)
    PROVE  Calm'
<1>0. /\ At(t, "probe") /\ UNCHANGED <<tables, state>> /\ GoTo(t, "exit") /\ th[t].external
  BY DEF Absent, TheOp
<1>1. PlaceOK(t) /\ AnswerOK(t)
  BY DEF Calm, ThreadCalm
<1>2. /\ Moves(t) /\ SameTask(t) /\ th'[t].at = "exit" /\ th'[t].hdr = th[t].hdr
      /\ th'[t].ret = th[t].ret /\ th'[t].valp = th[t].valp
  BY <1>0, GoToTh, PointsKnown DEF Inv, SameTask
<1>3. Last' = Last /\ (Migrating' <=> Migrating)
  BY <1>0, StillCalm
<1>4. PlaceOK(t)' /\ AnswerOK(t)'
  BY <1>0, <1>1, <1>2, <1>3 DEF SameTask, PlaceOK, AnswerOK, At, Assimilating, Taxed
<1> QED BY <1>0, <1>2, <1>4, TaskCalm DEF At, InTable, Switching

LEMMA PresentCalm ==
    ASSUME Inv, Calm, NEW t \in Threads, Alone(t), Present(t)
    PROVE  Calm'
<1>0. /\ At(t, "probe") /\ UNCHANGED <<tables, state>> /\ GoTo(t, "update")
      /\ Matches(Here(t), TheKey(t))
  BY DEF Present
<1>1. PlaceOK(t) /\ AnswerOK(t)
  BY DEF Calm, ThreadCalm
<1>e. th[t].external
  <2>1. SUFFICES ASSUME ~th[t].external PROVE FALSE
    OBVIOUS
  <2>2. Migrating
    BY <2>1, <1>1 DEF PlaceOK
  <2>3. \A j \in Used(Last) : Slot(Last, j).key # th[t].mkey
    BY <2>1, <2>2, <1>0 DEF Calm, ThreadCalm, Works, MoveOK, At
  <2>4. th[t].hdr = Last /\ th[t].i \in Places(Last) /\ th[t].mkey # NoKey
    BY <2>1, <1>0, <1>1, AtPlace DEF PlaceOK, At, TheKey
  <2>5. Slot(Last, th[t].i).key = th[t].mkey
    BY <2>1, <2>4, <1>0 DEF Matches, Here, TheKey
  <2> QED BY <2>3, <2>4, <2>5 DEF Used, Places
<1>2. /\ Moves(t) /\ SameTask(t) /\ th'[t].at = "update" /\ th'[t].hdr = th[t].hdr
      /\ th'[t].ret = th[t].ret /\ th'[t].valp = th[t].valp
  BY <1>0, GoToTh, PointsKnown DEF Inv, SameTask
<1>3. Last' = Last /\ (Migrating' <=> Migrating)
  BY <1>0, StillCalm
<1>4. PlaceOK(t)' /\ AnswerOK(t)'
  BY <1>0, <1>1, <1>2, <1>3, <1>e DEF SameTask, PlaceOK, AnswerOK, At, Assimilating, Taxed
<1> QED BY <1>0, <1>2, <1>4, <1>e, TaskCalm DEF At, InTable, Switching

LEMMA GrowFailsCalm ==
    ASSUME Inv, Calm, NEW t \in Threads, Alone(t), GrowFails(t)
    PROVE  Calm'
<1>0. At(t, "grow") /\ UNCHANGED <<tables, state>> /\ GoTo(t, "exit")
  BY DEF GrowFails
<1>1. PlaceOK(t) /\ AnswerOK(t)
  BY DEF Calm, ThreadCalm
<1>2. /\ Moves(t) /\ SameTask(t) /\ th'[t].at = "exit" /\ th'[t].hdr = th[t].hdr
      /\ th'[t].ret = th[t].ret /\ th'[t].valp = th[t].valp
  BY <1>0, GoToTh, PointsKnown DEF Inv, SameTask
<1>3. Last' = Last /\ (Migrating' <=> Migrating)
  BY <1>0, StillCalm
<1>4. PlaceOK(t)' /\ AnswerOK(t)'
  BY <1>0, <1>1, <1>2, <1>3 DEF SameTask, PlaceOK, AnswerOK, At, Assimilating, Taxed
<1> QED BY <1>0, <1>2, <1>4, TaskCalm DEF At, InTable, Switching

LEMMA PublishedCalm ==
    ASSUME Inv, Calm, NEW t \in Threads, Alone(t), Published(t)
    PROVE  Calm'
<1>0. At(t, "published") /\ UNCHANGED <<tables, state>> /\ GoTo(t, "expanding")
  BY DEF Published
<1>1. PlaceOK(t) /\ AnswerOK(t)
  BY DEF Calm, ThreadCalm
<1>2. /\ Moves(t) /\ SameTask(t) /\ th'[t].at = "expanding" /\ th'[t].hdr = th[t].hdr
      /\ th'[t].ret = th[t].ret /\ th'[t].valp = th[t].valp
  BY <1>0, GoToTh, PointsKnown DEF Inv, SameTask
<1>3. SameShape /\ Last' = Last /\ (Migrating' <=> Migrating)
  BY <1>0, StillCalm
<1>e. th[t].external = TRUE /\ Migrating
  BY <1>0, <1>1, Typed DEF PlaceOK, At, Inv, Locals
<1>4. PlaceOK(t)' /\ AnswerOK(t)'
  BY <1>0, <1>1, <1>2, <1>3, <1>e DEF SameTask, PlaceOK, AnswerOK, At, Assimilating, Taxed
<1>5. GrowthOK'
  BY <1>2, <1>3, <1>e DEF GrowthOK, At
<1>6. Works(t)'
  BY <1>2, <1>e, AtOther DEF SameTask
<1> QED BY <1>2, <1>3, <1>4, <1>5, <1>6, ShapeCalm DEF Alone

LEMMA ExpandingCalm ==
    ASSUME Inv, Calm, NEW t \in Threads, Alone(t), Expanding(t)
    PROVE  Calm'
<1>0. /\ At(t, "expanding") /\ UNCHANGED tables /\ state' = "expanding" /\ GoTo(t, "check")
  BY DEF Expanding
<1>1. PlaceOK(t) /\ AnswerOK(t)
  BY DEF Calm, ThreadCalm
<1>2. /\ Moves(t) /\ SameTask(t) /\ th'[t].at = "check" /\ th'[t].hdr = th[t].hdr
      /\ th'[t].ret = th[t].ret /\ th'[t].valp = th[t].valp
  BY <1>0, GoToTh, PointsKnown DEF Inv, SameTask
<1>3. SameShape /\ Last' = Last /\ (Migrating' <=> Migrating)
  BY <1>0, StillCalm
<1>e. th[t].external = TRUE /\ Migrating
  BY <1>0, <1>1, Typed DEF PlaceOK, At, Inv, Locals
<1>4. PlaceOK(t)' /\ AnswerOK(t)'
  BY <1>0, <1>1, <1>2, <1>3, <1>e DEF SameTask, PlaceOK, AnswerOK, At, Assimilating, Taxed
<1>5. GrowthOK'
  BY <1>0, <1>3, <1>e DEF GrowthOK
<1>6. Works(t)'
  BY <1>2, <1>e, AtOther DEF SameTask
<1> QED BY <1>2, <1>3, <1>4, <1>5, <1>6, ShapeCalm DEF Alone

LEMMA CheckCalm ==
    ASSUME Inv, Calm, NEW t \in Threads, Alone(t), Check(t)
    PROVE  Calm'
<1>0. At(t, "check") /\ UNCHANGED <<tables, state>> /\ GoTo(t, "exit")
  BY DEF Check
<1>1. PlaceOK(t) /\ AnswerOK(t)
  BY DEF Calm, ThreadCalm
<1>2. /\ Moves(t) /\ SameTask(t) /\ th'[t].at = "exit" /\ th'[t].hdr = th[t].hdr
      /\ th'[t].ret = th[t].ret /\ th'[t].valp = th[t].valp
  BY <1>0, GoToTh, PointsKnown DEF Inv, SameTask
<1>3. SameShape /\ Last' = Last /\ (Migrating' <=> Migrating)
  BY <1>0, StillCalm
<1>e. th[t].external = TRUE /\ Migrating
  BY <1>0, <1>1, Typed DEF PlaceOK, At, Inv, Locals
<1>4. PlaceOK(t)' /\ AnswerOK(t)'
  BY <1>0, <1>1, <1>2, <1>3, <1>e DEF SameTask, PlaceOK, AnswerOK, At, Assimilating, Taxed
<1>5. GrowthOK'
  BY <1>0, <1>2, <1>3, GrowthKept DEF Calm, At, Switching
<1>6. Works(t)'
  BY <1>2, <1>e, AtOther DEF SameTask
<1> QED BY <1>2, <1>3, <1>4, <1>5, <1>6, ShapeCalm DEF Alone

LEMMA ExitCalm ==
    ASSUME Inv, Calm, NEW t \in Threads, Alone(t), Exit(t)
    PROVE  Calm'
<1>o. PICK o : o = Last - 1
  OBVIOUS
<1>k. PICK k : k = th[t].key
  OBVIOUS
<1>i. PICK i : i = th[t].mi
  OBVIOUS
<1>0. At(t, "exit") /\ UNCHANGED <<tables, state>> /\ th[t] \in Locals
  BY Typed DEF Exit, Inv
<1>1. PlaceOK(t) /\ AnswerOK(t)
  BY DEF Calm, ThreadCalm
<1>2. SameShape /\ Last' = Last /\ (Migrating' <=> Migrating)
      /\ \A q \in 1 .. Last : tables'[q].max = tables[q].max
  BY <1>0, StillCalm
<1>3. CASE th[t].external
  <2>1. ~tables[th[t].hdr].assimilated
    <3>1. CASE th[t].hdr = Last
      BY <3>1 DEF Inv, Current
    <3>2. CASE th[t].hdr # Last
      BY <3>2, <1>0, <1>1, MigratingKnown DEF PlaceOK, At, Calm
    <3> QED BY <3>1, <3>2
  <2>2. th' = [th EXCEPT ![t] = Idle]
    BY <1>3, <2>1 DEF Exit
  <2>3. Moves(t) /\ th'[t] = Idle
    BY <2>2, SetTh, PointsKnown DEF Inv
  <2>4. th'[t].at = "idle" /\ th'[t].external = TRUE
    BY <2>3, PointsKnown
  <2>5. PlaceOK(t)' /\ AnswerOK(t)'
    BY <2>4 DEF PlaceOK, AnswerOK, At, Assimilating, Taxed
  <2>6. Works(t)'
    BY <2>4, AtOther
  <2>7. GrowthOK'
    BY <1>0, <1>2, <2>3, GrowthKept DEF Calm, At, Switching
  <2> QED BY <1>2, <2>3, <2>5, <2>6, <2>7, ShapeCalm DEF Alone
<1>4. CASE ~th[t].external
  <2>0. /\ Migrating /\ th[t].from = o /\ ~th[t].ret /\ th[t].valp = TOMBSTONE
        /\ ScanOK(t) /\ DebtOK(t)
    BY <1>1, <1>4, <1>o DEF PlaceOK, AnswerOK, Calm, ThreadCalm, Works
  <2>n. PICK n \in Nat : n = th[t].moved + 1
    BY <1>0 DEF Locals
  <2>1. n \in Nat /\ th[t].moved \in Nat /\ th[t].success \in BOOLEAN /\ o \in 1 .. Last
        /\ MIGRATIONS_PER_ACCESS \in Nat
    BY <1>0, <1>o, <2>0, LastKnown, LfhtAssumption DEF Locals
  <2>2. th' = [th EXCEPT ![t] = NextSlot(t, n, th[t].success)]
    BY <1>4, <2>n DEF Exit
  <2>3. Moves(t) /\ Scanned(t, n, th[t].success, th'[t])
    BY <1>4, <2>1, <2>2, NextSlotTh, AtSlot DEF Inv
  <2>4. PlaceOK(t)' /\ AnswerOK(t)'
    BY <1>2, <1>o, <2>0, <2>3 DEF Scanned, PlaceOK, AnswerOK, At, Assimilating, Taxed
  <2>5. GrowthOK'
    BY <1>0, <1>2, <2>3, GrowthKept DEF Calm, At, Switching
  <2>6. \A j \in Places(o) :
           /\ Distance(o, k, j) < Distance(o, k, i) \/ j = i =>
                 Rid(o, k, j) /\ (n < MIGRATIONS_PER_ACCESS => Clean(o, j))
           /\ th[t].success => Rid(o, k, j)
    <3>1. \A j \in Places(o) :
             /\ Distance(o, k, j) < Distance(o, k, i) \/ j = i =>
                   /\ Rid(o, k, j)
                   /\ th[t].moved < MIGRATIONS_PER_ACCESS => Clean(o, j)
             /\ th[t].success => Rid(o, k, j)
      BY <1>0, <1>4, <2>0, <1>o, <1>k, <1>i DEF ScanOK, Done, At
    <3>2. n < MIGRATIONS_PER_ACCESS => th[t].moved < MIGRATIONS_PER_ACCESS
      BY <2>1, <2>n
    <3> QED BY <3>1, <3>2
  <2>7. \A j : (Rid(o, k, j)' <=> Rid(o, k, j)) /\ (Clean(o, j)' <=> Clean(o, j))
    BY <1>0 DEF Rid, Clean, Slot
  <2>g. PICK g \in Int : g = Gain
    BY <2>0, CardKnown
  <2>m. PICK m \in Nat : m = Moved
    BY <2>0, CardKnown
  <2>8. g = Gain' /\ m = Moved'
    BY <1>0, <2>0, <2>g, <2>m, StillCalm
  <2>9. MIGRATIONS_PER_ACCESS * g <= m - n
    <3>1. MIGRATIONS_PER_ACCESS * g <= m - 1 - th[t].moved
      BY <1>0, <1>4, <2>0, <2>g, <2>m DEF DebtOK, At
    <3> QED BY <3>1, <2>1, <2>n
  <2>10. Works(t)'
    BY <1>2, <1>4, <1>o, <1>k, <1>i, <2>0, <2>1, <2>3, <2>6, <2>7, <2>8, <2>9, NextSlotWorks
  <2> QED BY <1>2, <2>3, <2>4, <2>5, <2>10, ShapeCalm DEF Alone
<1> QED BY <1>3, <1>4

(***************************************************************************)
(* Steps that change a value or a count                                    *)
(***************************************************************************)
\* A value is written to a place of a table.
Valued(h, i, w) ==
    /\ Last' = Last /\ SameShape
    /\ \A q \in 1 .. Last : \A j \in Places(q) :
          Slot(q, j)'.val = IF q = h /\ j = i THEN w ELSE Slot(q, j).val

LEMMA WriteValued ==
    ASSUME Inv, NEW h \in 1 .. Last, NEW i \in Places(h), NEW w \in Values \cup {TOMBSTONE},
           Write(h, i, [Slot(h, i) EXCEPT !.val = w])
    PROVE  Valued(h, i, w)
<1>e. PICK e : e = Slot(h, i)
  OBVIOUS
<1>s. PICK s : s = [e EXCEPT !.val = w]
  OBVIOUS
<1>1. e \in SlotType
  BY <1>e, TableKnown DEF Inv
<1>2. s \in SlotType /\ s.key = e.key /\ s.moved = e.moved /\ s.val = w
  BY <1>1, <1>s DEF SlotType
<1>3. Write(h, i, s)
  BY <1>e, <1>s
<1>4. /\ Last' = Last
      /\ \A q \in 1 .. Last : /\ tables'[q].max = tables[q].max
                              /\ tables'[q].assimilated = tables[q].assimilated
      /\ \A q \in 1 .. Last : \A j \in Places(q) :
            Slot(q, j)' = IF q = h /\ j = i THEN s ELSE Slot(q, j)
  BY <1>2, <1>3, Written DEF Inv
<1>5. \A q \in 1 .. Last : \A j \in Places(q) :
         /\ Slot(q, j)'.key = Slot(q, j).key /\ Slot(q, j)'.moved = Slot(q, j).moved
         /\ Slot(q, j)'.val = IF q = h /\ j = i THEN w ELSE Slot(q, j).val
  BY <1>2, <1>4, <1>e
<1> QED BY <1>4, <1>5 DEF Valued, SameShape

\* What an add, remove or find writes to the place where it has found its key.
NewVal(t) == IF TheOp(t) = "remove" THEN TOMBSTONE ELSE TheVal(t)

LEMMA UpdateKnown ==
    ASSUME Inv, NEW t \in Threads, Update(t), NEW h, h = th[t].hdr, NEW i, i = th[t].i
    PROVE  /\ At(t, "update") /\ UNCHANGED state /\ h \in 1 .. Last /\ i \in Places(h)
           /\ Slot(h, i) \in SlotType /\ Slot(h, i).key = TheKey(t)
           /\ Moves(t) /\ SameTask(t) /\ th'[t].at = "exit" /\ th'[t].hdr = h
           /\ th'[t].ret = (th[t].ret \/ th[t].external)
           /\ th'[t].valp = IF TheOp(t) = "find" THEN Slot(h, i).val ELSE TOMBSTONE
           /\ TheOp(t) = "find" => UNCHANGED tables
           /\ TheOp(t) # "find" => Valued(h, i, NewVal(t))
           /\ SameShape
<1>e. PICK e : e = Slot(h, i)
  OBVIOUS
<1>w. PICK w : w = NewVal(t)
  OBVIOUS
<1>v. PICK v : v = IF TheOp(t) = "find" THEN e.val ELSE TOMBSTONE
  OBVIOUS
<1>0. At(t, "update") /\ UNCHANGED state
  BY DEF Update
<1>1. /\ h \in 1 .. Last /\ i \in Places(h) /\ e \in SlotType /\ Here(t) = e
      /\ TheOp(t) \in {"add", "remove", "find"}
      /\ TheVal(t) \in Values \cup {TOMBSTONE}
  BY <1>0, <1>e, AtPlace
<1>2. e.key = TheKey(t)
  BY <1>0, <1>1 DEF Inv, ThInv, ProbeOK
<1>3. v \in Values \cup {TOMBSTONE} /\ w \in Values \cup {TOMBSTONE} /\ "exit" \in Points
  BY <1>1, <1>v, <1>w, PointsKnown DEF SlotType, NewVal
<1>4. Returns(t, "exit", v)
  BY <1>1, <1>v DEF Update
<1>5. /\ Moves(t) /\ SameTask(t) /\ th'[t].at = "exit" /\ th'[t].hdr = h
      /\ th'[t].ret = (th[t].ret \/ th[t].external) /\ th'[t].valp = v
  BY <1>3, <1>4, Answered DEF Inv, SameTask
<1>6. TheOp(t) = "find" => UNCHANGED tables
  BY DEF Update
<1>7. TheOp(t) # "find" => Valued(h, i, w)
  <2>1. TheOp(t) # "find" => Write(h, i, [Slot(h, i) EXCEPT !.val = w])
    BY <1>1, <1>e, <1>w DEF Update, NewVal
  <2> QED BY <2>1, <1>1, <1>3, WriteValued
<1>8. SameShape
  BY <1>6, <1>7, ShapeStill DEF Valued
<1> QED BY <1>0, <1>1, <1>2, <1>5, <1>6, <1>7, <1>8, <1>e, <1>w, <1>v

LEMMA UpdateCalm ==
    ASSUME Inv, Calm, NEW t \in Threads, Alone(t), Update(t)
    PROVE  Calm'
<1>h. PICK h : h = th[t].hdr
  OBVIOUS
<1>0. /\ At(t, "update") /\ UNCHANGED state /\ Moves(t) /\ SameTask(t)
      /\ th'[t].at = "exit" /\ th'[t].hdr = h /\ SameShape
  BY <1>h, UpdateKnown
<1>1. PlaceOK(t) /\ AnswerOK(t)
  BY DEF Calm, ThreadCalm
<1>2. Last' = Last /\ (Migrating' <=> Migrating)
  BY <1>0, ShapeTables DEF Calm, SameShape
<1>e. th[t].external = TRUE
  <2>1. ~th[t].external => Migrating
    BY <1>1 DEF PlaceOK
  <2>2. ~th[t].external => MoveOK(t)
    BY <2>1 DEF Calm, ThreadCalm, Works
  <2> QED BY <1>0, <2>2, Typed DEF MoveOK, At, Inv, Locals
<1>3. PlaceOK(t)' /\ AnswerOK(t)'
  BY <1>0, <1>1, <1>2, <1>h, <1>e DEF SameTask, PlaceOK, AnswerOK, At, Assimilating, Taxed
<1>4. GrowthOK'
  BY <1>0, <1>2, GrowthKept DEF Calm, At, Switching
<1>5. Works(t)'
  BY <1>0, <1>e, AtOther DEF SameTask
<1> QED BY <1>0, <1>3, <1>4, <1>5, ShapeCalm DEF Alone

LEMMA StoreKnown ==
    ASSUME Inv, NEW t \in Threads, Store(t), NEW h, h = th[t].hdr, NEW i, i = th[t].i
    PROVE  /\ At(t, "store") /\ UNCHANGED state /\ h \in 1 .. Last /\ i \in Places(h)
           /\ Slot(h, i) \in SlotType /\ Slot(h, i).key = TheKey(t) /\ TheKey(t) # NoKey
           /\ Moves(t) /\ SameTask(t) /\ th'[t].at = "count" /\ th'[t].hdr = h
           /\ th'[t].ret = (th[t].ret \/ th[t].external) /\ th'[t].valp = TOMBSTONE
           /\ Valued(h, i, TheVal(t))
<1>0. At(t, "store") /\ UNCHANGED state
  BY DEF Store
<1>1. /\ h \in 1 .. Last /\ i \in Places(h) /\ Slot(h, i) \in SlotType /\ Here(t) = Slot(h, i)
      /\ TheVal(t) \in Values \cup {TOMBSTONE} /\ TheKey(t) # NoKey
  BY <1>0, AtPlace
<1>2. Slot(h, i).key = TheKey(t)
  BY <1>0, <1>1 DEF Inv, ThInv, ProbeOK
<1>3. TOMBSTONE \in Values \cup {TOMBSTONE} /\ "count" \in Points
  BY PointsKnown
<1>4. Returns(t, "count", TOMBSTONE) /\ Write(h, i, [Slot(h, i) EXCEPT !.val = TheVal(t)])
  BY <1>1 DEF Store
<1>5. /\ Moves(t) /\ SameTask(t) /\ th'[t].at = "count" /\ th'[t].hdr = h
      /\ th'[t].ret = (th[t].ret \/ th[t].external) /\ th'[t].valp = TOMBSTONE
  BY <1>3, <1>4, Answered DEF Inv, SameTask
<1>6. Valued(h, i, TheVal(t))
  BY <1>1, <1>4, WriteValued
<1> QED BY <1>0, <1>1, <1>2, <1>5, <1>6

LEMMA StoreCalm ==
    ASSUME Inv, Calm, NEW t \in Threads, Alone(t), Store(t)
    PROVE  Calm'
<1>h. PICK h : h = th[t].hdr
  OBVIOUS
<1>i. PICK i : i = th[t].i
  OBVIOUS
<1>0. /\ At(t, "store") /\ UNCHANGED state /\ h \in 1 .. Last /\ i \in Places(h)
      /\ Slot(h, i).key = TheKey(t) /\ TheKey(t) # NoKey
      /\ Moves(t) /\ SameTask(t) /\ th'[t].at = "count" /\ th'[t].hdr = h
      /\ th'[t].ret = (th[t].ret \/ th[t].external) /\ th'[t].valp = TOMBSTONE
      /\ Valued(h, i, TheVal(t))
  BY <1>h, <1>i, StoreKnown
<1>1. PlaceOK(t) /\ AnswerOK(t) /\ h = Last
  BY <1>0, <1>h DEF Calm, ThreadCalm, PlaceOK, At
<1>s. SameShape /\ Slot(h, i)'.key = Slot(h, i).key /\ Slot(h, i)'.val = TheVal(t)
  BY <1>0 DEF Valued, SameShape
<1>2. Last' = Last /\ (Migrating' <=> Migrating)
  BY <1>s, ShapeTables DEF Calm, SameShape
<1>3. PlaceOK(t)' /\ AnswerOK(t)'
  BY <1>0, <1>1, <1>2, <1>h DEF SameTask, PlaceOK, AnswerOK, At, Assimilating, Taxed
<1>4. GrowthOK'
  BY <1>0, <1>2, GrowthKept DEF Calm, At, Switching
<1>5. ASSUME Migrating PROVE Works(t)'
  <2>1. i \in Used(h)
    BY <1>0 DEF Used, Places
  <2>2. ~th[t].external => TheKey(t) = th[t].mkey /\ TheVal(t) = th[t].mval
    BY DEF TheKey, TheVal
  <2>3. ~th[t].external =>
           \E j \in Used(h) : Slot(h, j)'.key = th[t].mkey /\ Slot(h, j)'.val = th[t].mval
    BY <1>0, <1>s, <2>1, <2>2
  <2> QED BY <1>0, <1>1, <1>5, <1>s, <2>3, TaskWorks DEF At, InTable
<1> QED BY <1>0, <1>s, <1>3, <1>4, <1>5, ShapeCalm DEF Alone

LEMMA CountKnown ==
    ASSUME Inv, NEW t \in Threads, Count(t), NEW h, h = th[t].hdr
    PROVE  /\ At(t, "count") /\ UNCHANGED state /\ h \in 1 .. Last
           /\ Moves(t) /\ SameTask(t) /\ th'[t].at \in {"grow", "exit"} /\ th'[t].hdr = h
           /\ th'[t].ret = th[t].ret /\ th'[t].valp = th[t].valp
           /\ SameShape /\ \A q \in 1 .. Last : \A j \in Places(q) : Slot(q, j)' = Slot(q, j)
<1>n. PICK n : n = tables[h].count + 1
  OBVIOUS
<1>p. PICK p : p = IF n > Threshold(tables[h].max) THEN "grow" ELSE "exit"
  OBVIOUS
<1>0. /\ At(t, "count") /\ UNCHANGED state /\ GoTo(t, p)
      /\ tables' = [tables EXCEPT ![h].count = n]
  BY <1>n, <1>p DEF Count, At
<1>1. h \in 1 .. Last /\ TablesType
  BY <1>0 DEF Inv, ThInv, ProbeOK, At, InTable
<1>2. n \in Int
  BY <1>1, <1>n, TableKnown
<1>3. /\ Last' = Last
      /\ \A q \in 1 .. Last : /\ tables'[q].max = tables[q].max
                              /\ tables'[q].assimilated = tables[q].assimilated
      /\ \A q \in 1 .. Last : \A j \in Places(q) : Slot(q, j)' = Slot(q, j)
  BY <1>0, <1>1, <1>2, Counted
<1>4. SameShape
  BY <1>3 DEF SameShape
<1>5. p \in Points /\ p \in {"grow", "exit"}
  BY <1>p, PointsKnown
<1>6. /\ Moves(t) /\ SameTask(t) /\ th'[t].at = p /\ th'[t].hdr = h
      /\ th'[t].ret = th[t].ret /\ th'[t].valp = th[t].valp
  BY <1>0, <1>5, GoToTh DEF Inv, SameTask
<1> QED BY <1>0, <1>1, <1>3, <1>4, <1>5, <1>6

LEMMA CountCalm ==
    ASSUME Inv, Calm, NEW t \in Threads, Alone(t), Count(t)
    PROVE  Calm'
<1>h. PICK h : h = th[t].hdr
  OBVIOUS
<1>0. /\ At(t, "count") /\ UNCHANGED state /\ h \in 1 .. Last
      /\ Moves(t) /\ SameTask(t) /\ th'[t].at \in {"grow", "exit"} /\ th'[t].hdr = h
      /\ th'[t].ret = th[t].ret /\ th'[t].valp = th[t].valp
      /\ SameShape /\ \A q \in 1 .. Last : \A j \in Places(q) : Slot(q, j)' = Slot(q, j)
  BY <1>h, CountKnown
<1>1. PlaceOK(t) /\ AnswerOK(t) /\ h = Last
  BY <1>0, <1>h DEF Calm, ThreadCalm, PlaceOK, At
<1>2. Last' = Last /\ (Migrating' <=> Migrating)
  BY <1>0, ShapeTables DEF Calm, SameShape
<1>3. PlaceOK(t)' /\ AnswerOK(t)'
  BY <1>0, <1>1, <1>2, <1>h DEF SameTask, PlaceOK, AnswerOK, At, Assimilating, Taxed
<1>4. GrowthOK'
  BY <1>0, <1>2, GrowthKept DEF Calm, At, Switching
<1>5. ASSUME Migrating PROVE Works(t)'
  <2>1. ~th[t].external =>
           \E j \in Used(h) : Slot(h, j).key = th[t].mkey /\ Slot(h, j).val = th[t].mval
    BY <1>0, <1>1, <1>5 DEF Calm, ThreadCalm, Works, MoveOK, At
  <2>2. \A j \in Used(h) : Slot(h, j)' = Slot(h, j)
    BY <1>0 DEF Used, Places
  <2>3. ~th[t].external =>
           \E j \in Used(h) : Slot(h, j)'.key = th[t].mkey /\ Slot(h, j)'.val = th[t].mval
    BY <2>1, <2>2
  <2> QED BY <1>0, <1>1, <1>5, <2>3, TaskWorks DEF At, InTable
<1> QED BY <1>0, <1>3, <1>4, <1>5, ShapeCalm DEF Alone

(***************************************************************************)
(* Steps that add a key to the last table, or a table                      *)
(***************************************************************************)
\* Where a probe finds an empty place, its key is nowhere in the table.
LEMMA NotThere ==
    ASSUME Inv, NEW t \in Threads, At(t, "probe"), Here(t).key = NoKey,
           NEW l, l = Last, th[t].hdr = l, NEW k, k = TheKey(t)
    PROVE  \A j \in Used(l) : Slot(l, j).key # k
<1>i. PICK i : i = th[t].i
  OBVIOUS
<1>1. /\ l \in 1 .. Last /\ i \in Places(l) /\ Slot(l, i).key = NoKey /\ k \in Keys
      /\ tables[l].max \in Nat \ {0}
  BY <1>i, AtPlace
<1>2. SUFFICES ASSUME NEW j \in Used(l), Slot(l, j).key = k PROVE FALSE
  OBVIOUS
<1>3. j \in Places(l) /\ i \notin Used(l)
  BY <1>1 DEF Used, Places
<1>4. ~(Distance(l, k, i) < Distance(l, k, j))
  BY <1>1, <1>2, <1>3 DEF Inv, Probed
<1>5. ~Slot(l, j).moved
  BY <1>3 DEF Inv, Current
<1>6. Passed(t, j)
  BY <1>3 DEF Inv, ThInv, ProbeOK
<1>7. ~(Distance(l, k, j) < Distance(l, k, i))
  BY <1>2, <1>5, <1>6, <1>i DEF Passed, Matches
<1>8. /\ Distance(l, k, i) \in Nat /\ Distance(l, k, j) \in Nat
      /\ Distance(l, k, i) = Distance(l, k, j) => i = j
  BY <1>1, <1>3, Distances DEF Places
<1> QED BY <1>3, <1>4, <1>7, <1>8

LEMMA ClaimCalm ==
    ASSUME Inv, Calm, NEW t \in Threads, Alone(t), Claim(t)
    PROVE  Calm'
<1>l. PICK l : l = Last
  OBVIOUS
<1>o. PICK o : o = l - 1
  OBVIOUS
<1>i. PICK i : i = th[t].i
  OBVIOUS
<1>k. PICK k : k = TheKey(t)
  OBVIOUS
<1>s. PICK s : s = [EmptySlot EXCEPT !.key = k]
  OBVIOUS
<1>0. /\ At(t, "probe") /\ UNCHANGED state /\ GoTo(t, "store") /\ Here(t).key = NoKey
      /\ TheOp(t) = "add"
  BY DEF Claim
<1>1. PlaceOK(t) /\ AnswerOK(t) /\ th[t].hdr = l
  BY <1>0, <1>l DEF Calm, ThreadCalm, PlaceOK, At
<1>c. Claimed(l, i, k, s)
  BY <1>1, <1>i, <1>k, <1>s, ClaimedTables
<1>2. /\ l \in 1 .. Last /\ i \in Places(l) /\ k \in Keys /\ k # NoKey
      /\ s \in SlotType /\ s.key = k /\ ~s.moved
      /\ Last' = l /\ l \in Nat
      /\ \A q \in 1 .. l : /\ Places(q)' = Places(q)
                           /\ tables'[q].max = tables[q].max
                           /\ tables'[q].assimilated = tables[q].assimilated
                           /\ Used(q)' = IF q = l THEN Used(q) \cup {i} ELSE Used(q)
      /\ \A q \in 1 .. l : \A j \in Places(q) :
            Slot(q, j)' = IF q = l /\ j = i THEN s ELSE Slot(q, j)
      /\ i \notin Used(l)
  BY <1>c, <1>l DEF Claimed
<1>3. \A q \in 1 .. l : Used(q) \subseteq Places(q)
  BY DEF Used, Places
<1>4. \A j \in Used(l) : Slot(l, j).key # k
  BY <1>0, <1>1, <1>l, <1>k, NotThere
<1>5. \A n \in 1 .. l - 1 : n \in 1 .. l /\ n # l
  BY <1>2
<1>6. Migrating' <=> Migrating
  BY <1>2, <1>5, <1>l DEF Migrating
<1>7. LeftOK'
  <2>1. \A n \in 1 .. l - 2 : n \in 1 .. l
    BY <1>2
  <2>2. \A n \in 1 .. l - 1 : tables[n].assimilated => \A j \in Used(n) : Slot(n, j)'.moved
    BY <1>2, <1>3, <1>5, <1>l DEF Calm, LeftOK
  <2> QED BY <1>2, <1>5, <1>l, <2>1, <2>2 DEF Calm, LeftOK
<1>8. OnceOK'
  <2>1. ASSUME NEW q \in 1 .. l, NEW a \in Used(q)', NEW b \in Used(q)',
               Slot(q, a)'.key = Slot(q, b)'.key
        PROVE  a = b
    <3>1. CASE q # l
      <4>1. a \in Used(q) /\ b \in Used(q) /\ Slot(q, a)' = Slot(q, a) /\ Slot(q, b)' = Slot(q, b)
        BY <3>1, <1>2, <1>3
      <4> QED BY <4>1, <2>1, <1>l DEF Calm, OnceOK
    <3>2. CASE q = l
      <4>1. \A c \in Used(l)' : /\ c = i => Slot(l, c)'.key = k
                                /\ c # i => c \in Used(l) /\ Slot(l, c)' = Slot(l, c)
        BY <1>2, <1>3
      <4>2. CASE a = i /\ b = i
        BY <4>2
      <4>3. CASE a # i /\ b # i
        BY <4>1, <4>3, <3>2, <2>1, <1>l DEF Calm, OnceOK
      <4>4. CASE ~(a = i <=> b = i)
        BY <4>1, <4>4, <3>2, <2>1, <1>4
      <4> QED BY <4>2, <4>3, <4>4
    <3> QED BY <3>1, <3>2
  <2> QED BY <2>1, <1>2 DEF OnceOK
<1>9. Migrating => /\ o \in 1 .. l /\ o # l /\ (th[t].external => PaidOK(t)) /\ DebtOK(t)
                   /\ ScanOK(t) /\ th[t].external \in BOOLEAN /\ th[t].moved \in Nat
                   /\ Moved \in Nat /\ Gain \in Int /\ MIGRATIONS_PER_ACCESS * Gain \in Int
                   /\ MIGRATIONS_PER_ACCESS \in Nat
  BY <1>l, <1>o, LastKnown, CardKnown, LfhtAssumption, Typed
     DEF Calm, ThreadCalm, Works, Inv, Locals
<1>10. ASSUME Migrating, NEW a \in Used(o), Slot(o, a).key = k
       PROVE  Slot(o, a).moved
  <2>1. a \in Places(o)
    BY <1>3, <1>9, <1>10
  <2>2. CASE th[t].external
    <3>1. Rid(o, k, a)
      BY <2>1, <2>2, <1>0, <1>9, <1>10, <1>o, <1>l, <1>k DEF PaidOK, At, TheKey
    <3> QED BY <3>1, <1>10 DEF Rid
  <2>3. CASE ~th[t].external
    <3>1. /\ th[t].from = o /\ k = th[t].mkey
      BY <2>3, <1>1, <1>k, <1>l, <1>o DEF PlaceOK, TheKey
    <3>2. /\ th[t].mi \in Places(o) /\ Slot(o, th[t].mi).key = k /\ Slot(o, th[t].mi).moved
      BY <2>3, <3>1 DEF Inv, ThInv, TaxOK
    <3>3. th[t].mi \in Used(o)
      BY <3>2, <1>2 DEF Used, Places
    <3>4. a = th[t].mi
      BY <3>2, <3>3, <1>9, <1>10, <1>l DEF Calm, OnceOK
    <3> QED BY <3>2, <3>4
  <2> QED BY <2>2, <2>3, <1>9, <1>10
<1>11. Migrating => /\ Used(o)' = Used(o) /\ Places(o)' = Places(o)
                    /\ \A j \in Places(o) : Slot(o, j)' = Slot(o, j)
                    /\ Used(o) \subseteq Places(o)
  BY <1>2, <1>3, <1>9
<1>12. ApartOK'
  <2>1. ASSUME Migrating, NEW a \in Used(o), NEW b \in Used(l)', Slot(o, a)'.key = Slot(l, b)'.key
        PROVE  Slot(o, a)'.moved
    <3>1. Slot(o, a)' = Slot(o, a)
      BY <1>11, <2>1
    <3>2. CASE b = i
      <4>1. Slot(l, b)'.key = k
        BY <3>2, <1>2
      <4> QED BY <4>1, <3>1, <1>10, <2>1
    <3>3. CASE b # i
      <4>1. b \in Used(l) /\ Slot(l, b)' = Slot(l, b)
        BY <3>3, <2>1, <1>2, <1>3
      <4> QED BY <4>1, <3>1, <2>1, <1>l, <1>o DEF Calm, ApartOK
    <3> QED BY <3>2, <3>3
  <2>2. ASSUME Migrating
        PROVE  \A a \in Used(o)' : \A b \in Used(l)' :
                  Slot(o, a)'.key = Slot(l, b)'.key => Slot(o, a)'.moved
    BY <2>1, <2>2, <1>11
  <2> QED BY <2>2, <1>2, <1>6, <1>o DEF ApartOK, Used, Slot
<1>13. ASSUME Migrating PROVE Moved' = Moved /\ Gain' = Gain + 1
  <2>1. Marked(o)' = Marked(o)
    <3>1. Marked(o)' = {j \in Used(o) : Slot(o, j)'.moved}
      BY <1>11, <1>13 DEF Marked
    <3> QED BY <3>1, <1>11, <1>13 DEF Marked
  <2>2. Moved' = Cardinality(Marked(o)') /\ Gain' = Cardinality(Used(l)') - Moved'
    BY <1>2, <1>o DEF Moved, Gain, Marked, Used, Slot
  <2>3. Moved = Cardinality(Marked(o)) /\ Gain = Cardinality(Used(l)) - Moved
    BY <1>l, <1>o DEF Moved, Gain
  <2>4. IsFiniteSet(Used(l)) /\ Cardinality(Used(l)) \in Nat
    BY <1>2, TableKnown, UsedFinite DEF Inv
  <2>5. Cardinality(Used(l) \cup {i}) = Cardinality(Used(l)) + 1
    BY <2>4, <1>2, FS_AddElement
  <2>6. Cardinality(Used(l)') = Cardinality(Used(l)) + 1
    <3>1. l \in 1 .. l
      BY <1>2, <1>l
    <3> QED BY <2>5, <3>1, <1>2
  <2>7. Moved' = Moved
    BY <2>1, <2>2, <2>3
  <2>8. Gain' = Cardinality(Used(l)) + 1 - Moved
    <3>1. Gain' = Cardinality(Used(l)') - Moved
      BY <2>2, <2>7
    <3> QED BY <3>1, <2>4, <2>6, <1>9, <1>13
  <2> QED BY <2>3, <2>4, <2>7, <2>8, <1>9, <1>13
<1>14. ASSUME Migrating
       PROVE  /\ MIGRATIONS_PER_ACCESS * Gain' = MIGRATIONS_PER_ACCESS * Gain + MIGRATIONS_PER_ACCESS
              /\ th[t].external => MIGRATIONS_PER_ACCESS * Gain' <= Moved'
              /\ ~th[t].external => MIGRATIONS_PER_ACCESS * Gain' <= Moved' - 1 - th[t].moved
  <2>1. MIGRATIONS_PER_ACCESS * (Gain + 1) = MIGRATIONS_PER_ACCESS * Gain + MIGRATIONS_PER_ACCESS
    <3>1. \A a \in Nat, b \in Int : a * (b + 1) = a * b + a
      OBVIOUS
    <3> QED BY <3>1, <1>9, <1>14
  <2>2. th[t].external => MIGRATIONS_PER_ACCESS * Gain + MIGRATIONS_PER_ACCESS <= Moved
    BY <1>0, <1>9, <1>14 DEF DebtOK, At
  <2>3. ~th[t].external =>
           MIGRATIONS_PER_ACCESS * Gain + MIGRATIONS_PER_ACCESS <= Moved - 1 - th[t].moved
    BY <1>0, <1>9, <1>14 DEF DebtOK, At
  <2> QED BY <2>1, <2>2, <2>3, <1>9, <1>13, <1>14
<1>15. RateOK'
  <2>1. ASSUME Migrating PROVE MIGRATIONS_PER_ACCESS * Gain' <= Moved'
    <3>1. /\ MIGRATIONS_PER_ACCESS * Gain' \in Int /\ Moved' \in Nat /\ th[t].moved \in Nat
      BY <1>9, <1>13, <1>14, <2>1
    <3> QED BY <3>1, <1>9, <1>14, <2>1
  <2> QED BY <2>1, <1>6 DEF RateOK
<1>16. /\ Moves(t) /\ SameTask(t) /\ th'[t].at = "store" /\ th'[t].hdr = l
       /\ th'[t].ret = th[t].ret /\ th'[t].valp = th[t].valp
  BY <1>0, <1>1, GoToTh, PointsKnown DEF Inv, SameTask
<1>17. GrowthOK'
  BY <1>0, <1>6, <1>16, GrowthKept DEF Calm, At, Switching
<1>18. PlaceOK(t)' /\ AnswerOK(t)'
  BY <1>0, <1>1, <1>2, <1>6, <1>16, <1>l DEF SameTask, PlaceOK, AnswerOK, TheOp, At, Assimilating, Taxed
<1>19. ASSUME Migrating PROVE Works(t)'
  <2>1. CASE th[t].external
    <3>1. th'[t].external = TRUE
      BY <2>1, <1>9, <1>16, <1>19 DEF SameTask
    <3> QED BY <3>1, <1>16, AtOther
  <2>2. CASE ~th[t].external
    <3>k. PICK d : d = th[t].key
      OBVIOUS
    <3>i. PICK m : m = th[t].mi
      OBVIOUS
    <3>0. /\ ~th'[t].external /\ th'[t].key = d /\ th'[t].mi = m /\ th'[t].at = "store"
          /\ th'[t].moved = th[t].moved /\ th'[t].success = th[t].success
      BY <2>2, <3>k, <3>i, <1>16 DEF SameTask
    <3>1. \A j \in Places(o) :
             /\ Distance(o, d, j) < Distance(o, d, m) \/ j = m =>
                   /\ Rid(o, d, j)
                   /\ th[t].moved < MIGRATIONS_PER_ACCESS => Clean(o, j)
             /\ th[t].success => Rid(o, d, j)
      BY <2>2, <3>k, <3>i, <1>0, <1>9, <1>19, <1>l, <1>o DEF ScanOK, Done, At
    <3>2. \A c, j : Distance(o, c, j)' = Distance(o, c, j)
      BY <1>2, <1>9, <1>19 DEF Distance, Home
    <3>3. \A j \in Places(o) : (Rid(o, d, j)' <=> Rid(o, d, j)) /\ (Clean(o, j)' <=> Clean(o, j))
      BY <1>11, <1>19 DEF Rid, Clean
    <3>4. \A j \in Places(o)' :
             /\ Distance(o, d, j)' < Distance(o, d, m)' \/ j = m =>
                   /\ Rid(o, d, j)'
                   /\ th[t].moved < MIGRATIONS_PER_ACCESS => Clean(o, j)'
             /\ th[t].success => Rid(o, d, j)'
      BY <3>1, <3>2, <3>3, <1>11, <1>19
    <3>5. Last' - 1 = o
      BY <1>2, <1>o
    <3>6. ScanOK(t)'
      BY <3>0, <3>4, <3>5 DEF ScanOK, At, Places, Rid, Clean, Slot, Done, Distance, Home
    <3>7. MoveOK(t)' /\ PaidOK(t)'
      BY <3>0 DEF MoveOK, PaidOK, At
    <3>8. DebtOK(t)'
      BY <2>2, <3>0, <1>14, <1>19 DEF DebtOK, At
    <3> QED BY <3>6, <3>7, <3>8 DEF Works
  <2> QED BY <2>1, <2>2, <1>9, <1>19
<1> QED BY <1>2, <1>6, <1>7, <1>8, <1>12, <1>15, <1>16, <1>17, <1>18, <1>19, <1>l, StepCalm

\* A table that is grown while the previous migration goes on: _grow_table will find it.
LEMMA GrowStuck ==
    ASSUME Inv, Calm, NEW t \in Threads, Alone(t), Grow(t), Migrating \/ state = "expanding"
    PROVE  Stuck'
<1>1. At(t, "grow") /\ UNCHANGED state /\ GoTo(t, "published")
  BY DEF Grow
<1>2. th'[t].at = "published"
  BY <1>1, GoToTh, PointsKnown DEF Inv
<1>3. state = "expanding"
  <2>1. CASE Migrating
    <3>1. \A u \in Threads : ~At(u, "published") /\ ~At(u, "expanding")
      BY <2>1, <1>1 DEF Alone, At
    <3> QED BY <2>1, <3>1 DEF Calm, GrowthOK
  <2> QED BY <2>1
<1> QED BY <1>1, <1>2, <1>3 DEF Stuck, At

LEMMA GrowCalm ==
    ASSUME Inv, Calm, NEW t \in Threads, ~Migrating, state # "expanding", Grow(t),
           \A u \in Threads \ {t} : At(u, "idle")'
    PROVE  Calm'
<1>l. PICK l : l = Last
  OBVIOUS
<1>1. /\ Last' = l + 1 /\ l \in Nat
      /\ \A q \in 1 .. l : tables'[q] = tables[q]
      /\ \A q \in 1 .. l : /\ Used(q)' = Used(q)
                           /\ \A j : Slot(q, j)' = Slot(q, j)
      /\ tables'[l + 1].assimilated = FALSE
      /\ Used(l + 1)' = {}
  BY <1>l, GrownTables
<1>2. /\ l >= 1 /\ l \in 1 .. Last /\ l \in 1 .. l /\ l \in 1 .. l + 1 - 1
      /\ \A q \in 1 .. l + 1 - 2 : q \in 1 .. l /\ q \in 1 .. l - 1
      /\ \A q \in 1 .. l + 1 - 1 : q \in 1 .. l
      /\ \A q \in 1 .. l : q = l \/ q \in 1 .. l - 1
  BY <1>l, <1>1, LastKnown
<1>3. ~tables[l].assimilated /\ \A i \in Used(l) : ~Slot(l, i).moved
  BY <1>l DEF Inv, Current, Used, Places
<1>4. \A q \in 1 .. l - 1 : tables[q].assimilated
  BY <1>l DEF Migrating
<1>5. Migrating'
  BY <1>1, <1>2, <1>3 DEF Migrating
<1>6. LeftOK'
  <2>1. ASSUME NEW q \in 1 .. l + 1 - 1, tables'[q].assimilated, NEW j \in Used(q)'
        PROVE  Slot(q, j)'.moved
    <3>1. q \in 1 .. l - 1 /\ tables[q].assimilated /\ j \in Used(q) /\ Slot(q, j)' = Slot(q, j)
      BY <2>1, <1>1, <1>2, <1>3
    <3> QED BY <3>1, <1>l DEF Calm, LeftOK
  <2>2. \A q \in 1 .. l + 1 - 2 : tables'[q].assimilated
    BY <1>1, <1>2, <1>4
  <2> QED BY <1>1, <2>1, <2>2 DEF LeftOK
<1>7. OnceOK'
  <2>1. ASSUME NEW q \in 1 .. l + 1, NEW a \in Used(q)', NEW b \in Used(q)',
               Slot(q, a)'.key = Slot(q, b)'.key
        PROVE  a = b
    <3>1. q \in 1 .. l
      BY <2>1, <1>1
    <3>2. a \in Used(q) /\ b \in Used(q) /\ Slot(q, a)' = Slot(q, a) /\ Slot(q, b)' = Slot(q, b)
      BY <3>1, <2>1, <1>1
    <3> QED BY <3>1, <3>2, <2>1, <1>l DEF Calm, OnceOK
  <2> QED BY <2>1, <1>1 DEF OnceOK
<1>8. ApartOK'
  <2>1. Used(Last)' = {}
    BY <1>1 DEF Used, Slot
  <2> QED BY <2>1 DEF ApartOK
<1>9. Moved' = 0 /\ Gain' = 0
  <2>1. Last' - 1 = l
    BY <1>1
  <2>2. Moved' = Cardinality(Marked(l)') /\ Gain' = Cardinality(Used(l + 1)') - Moved'
    BY <1>1, <2>1 DEF Moved, Gain, Marked, Used, Slot
  <2>3. Marked(l)' = {}
    <3>1. \A j \in Used(l)' : ~Slot(l, j)'.moved
      BY <1>1, <1>2, <1>3
    <3> QED BY <3>1 DEF Marked
  <2> QED BY <2>2, <2>3, <1>1, FS_EmptySet
<1>10. RateOK'
  BY <1>9, LfhtAssumption DEF RateOK
<1>11. /\ At(t, "grow") /\ UNCHANGED state /\ GoTo(t, "published") /\ th[t].hdr = l
  BY <1>l DEF Grow
<1>12. /\ Moves(t) /\ SameTask(t) /\ th'[t].at = "published" /\ th'[t].hdr = l
       /\ th'[t].ret = th[t].ret /\ th'[t].valp = th[t].valp
  BY <1>11, GoToTh, PointsKnown DEF Inv, SameTask
<1>13. GrowthOK'
  BY <1>5, <1>12 DEF GrowthOK, At
<1>14. th[t].external = TRUE /\ th[t].ret
  <2>1. PlaceOK(t) /\ AnswerOK(t)
    BY DEF Calm, ThreadCalm
  <2> QED BY <2>1, <1>11, Typed DEF PlaceOK, AnswerOK, At, Inv, Locals
<1>15. PlaceOK(t)' /\ AnswerOK(t)'
  BY <1>1, <1>5, <1>12, <1>14 DEF SameTask, PlaceOK, AnswerOK, At, Assimilating, Taxed
<1>16. Works(t)'
  BY <1>12, <1>14, AtOther DEF SameTask
<1>17. ThreadCalm(t)'
  BY <1>15, <1>16 DEF ThreadCalm
<1>18. ASSUME NEW u \in Threads \ {t} PROVE ThreadCalm(u)'
  <2>1. At(u, "idle")' /\ th'[u] = th[u]
    BY <1>12 DEF Moves
  <2>2. th'[u].at = "idle" /\ th'[u].external = TRUE
    BY <2>1, Typed DEF Inv, ThInv, CallOK, At, Locals
  <2> QED BY <2>2, IdleCalm
<1> QED BY <1>6, <1>7, <1>8, <1>10, <1>13, <1>17, <1>18 DEF Calm

(***************************************************************************)
(* Calm until operations overlap during a migration                        *)
(***************************************************************************)
LEMMA StepBusy ==
    ASSUME NEW t \in Threads, Step(t)
    PROVE  ~At(t, "idle") /\ (At(t, "published") => Published(t))
BY DEF Step, At, Tax, From, Scan, Mark, Finish, Recheck, Expanded, Start, ProbeNext, Claim, Absent,
   Present, Update, Store, Count, Exit, GrowFails, Grow, Published, Expanding, Check

\* A thread is about to grow the table after its own count only, and has just done so after
\* its own step only.
LEMMA PublishedBy ==
    ASSUME Inv, NEW t \in Threads, Step(t)
    PROVE  (At(t, "published")' => Grow(t)) /\ (At(t, "grow")' => Count(t))
<1>a. CASE Grow(t)
  <2>1. GoTo(t, "published")
    BY <1>a DEF Grow
  <2>2. th'[t].at = "published"
    BY <2>1, GoToTh, PointsKnown DEF Inv
  <2> QED BY <1>a, <2>2 DEF At
<1>b. CASE Count(t)
  <2>1. th'[t].at \in {"grow", "exit"}
    BY <1>b, CountKnown
  <2> QED BY <1>b, <2>1 DEF At
<1>1. SUFFICES ASSUME ~Grow(t), ~Count(t) PROVE th'[t].at \notin {"grow", "published"}
  BY <1>a, <1>b DEF At
<1>2. ASSUME NEW p \in Points, GoTo(t, p) PROVE th'[t].at = p
  BY <1>2, GoToTh DEF Inv
<1>3. ASSUME NEW p \in Points, th' = [th EXCEPT ![t] = Goes(t, p)] PROVE th'[t].at = p
  BY <1>3, GoesTh DEF Inv, Forgot
<1>4. CASE Tax(t)
  <2>1. GoTo(t, "from") \/ GoTo(t, "start")
    BY <1>4 DEF Tax
  <2> QED BY <2>1, <1>2, PointsKnown
<1>p. ASSUME NEW c, th' = [th EXCEPT ![t] = c], c.at \notin {"grow", "published"}
      PROVE  th'[t].at \notin {"grow", "published"}
  BY <1>p DEF Inv, ThType
<1>k. th[t] \in Locals
  BY Typed DEF Inv
<1>n. ASSUME NEW n \in Nat, At(t, "scan") \/ At(t, "mark") \/ ~th[t].external,
             th' = [th EXCEPT ![t] = NextSlot(t, n, th[t].success)]
             \/ th' = [th EXCEPT ![t] = NextSlot(t, n, TRUE)]
      PROVE  th'[t].at \notin {"grow", "published"}
  <2>1. th[t].success \in BOOLEAN /\ TRUE \in BOOLEAN /\ ThType
        /\ After(th[t].from, th[t].mi) \in Nat
    BY <1>n, <1>k, AtSlot DEF Locals, Inv
  <2>2. PICK sure \in BOOLEAN : th' = [th EXCEPT ![t] = NextSlot(t, n, sure)]
    BY <1>n, <2>1
  <2>3. Scanned(t, n, sure, th'[t])
    BY <2>1, <2>2, NextSlotTh
  <2> QED BY <2>3 DEF Scanned
<1>5. CASE From(t)
  <2>f. PICK f : f = Last - 1
    OBVIOUS
  <2>h. PICK h : h = Home(f, th[t].key)
    OBVIOUS
  <2>1. th' = [th EXCEPT ![t] = IF tables[f].assimilated THEN [Goes(t, "finish") EXCEPT !.from = f]
               ELSE [th[t] EXCEPT !.from = f, !.mi = h, !.at = "scan"]]
    BY <1>5, <2>f, <2>h DEF From
  <2>2. Forgot(t, "finish", Goes(t, "finish"))
    BY GoesFields, PointsKnown DEF Inv
  <2>3. CASE tables[f].assimilated
    <3>1. PICK c : c = [Goes(t, "finish") EXCEPT !.from = f]
      OBVIOUS
    <3>2. c.at = "finish"
      BY <3>1, <2>2 DEF Forgot, Locals
    <3> QED BY <2>1, <2>3, <3>1, <3>2, <1>p
  <2>4. CASE ~tables[f].assimilated
    <3>1. PICK c : c = [th[t] EXCEPT !.from = f, !.mi = h, !.at = "scan"]
      OBVIOUS
    <3>2. c.at = "scan"
      BY <3>1, <1>k DEF Locals
    <3> QED BY <2>1, <2>4, <3>1, <3>2, <1>p
  <2> QED BY <2>3, <2>4
<1>6. CASE Scan(t)
  <2>1. PICK e : e = Slot(th[t].from, th[t].mi)
    OBVIOUS
  <2>2. PICK sure : sure = (th[t].success \/ e.key \in {NoKey, th[t].key})
    OBVIOUS
  <2>3. \/ th' = [th EXCEPT ![t] = [th[t] EXCEPT !.success = sure, !.at = "mark",
                                                 !.mkey = e.key, !.mval = e.val]]
        \/ th' = [th EXCEPT ![t] = Goes(t, "start")]
        \/ th' = [th EXCEPT ![t] = NextSlot(t, th[t].moved, sure)]
    BY <1>6, <2>1, <2>2, Zenon DEF Scan
  <2>4. CASE th' = [th EXCEPT ![t] = [th[t] EXCEPT !.success = sure, !.at = "mark",
                                                   !.mkey = e.key, !.mval = e.val]]
    <3>1. PICK c : c = [th[t] EXCEPT !.success = sure, !.at = "mark", !.mkey = e.key, !.mval = e.val]
      OBVIOUS
    <3>2. c.at = "mark"
      BY <3>1, <1>k DEF Locals
    <3> QED BY <2>4, <3>1, <3>2, <1>p
  <2>5. At(t, "scan") /\ th[t].moved \in Nat /\ (sure = TRUE \/ sure = th[t].success)
    BY <1>6, <1>k, <2>2 DEF Scan, Locals
  <2>6. CASE th' = [th EXCEPT ![t] = NextSlot(t, th[t].moved, sure)]
    BY <2>5, <2>6, <1>n
  <2>7. CASE th' = [th EXCEPT ![t] = Goes(t, "start")]
    <3>1. th'[t].at = "start"
      BY <2>7, <1>3, PointsKnown
    <3> QED BY <3>1
  <2> QED BY <2>3, <2>4, <2>6, <2>7
<1>7. CASE Mark(t)
  <2>1. At(t, "mark") /\ th[t].moved \in Nat
        /\ (\/ th' = [th EXCEPT ![t] = NextSlot(t, th[t].moved, th[t].success)]
            \/ th' = [th EXCEPT ![t] = [th[t] EXCEPT !.at = "start", !.external = FALSE]])
    <3>1. At(t, "mark")
      BY <1>7 DEF Mark
    <3>2. \/ th' = [th EXCEPT ![t] = NextSlot(t, th[t].moved, th[t].success)]
          \/ th' = [th EXCEPT ![t] = [th[t] EXCEPT !.at = "start", !.external = FALSE]]
      BY <1>7, Zenon DEF Mark
    <3>3. th[t].moved \in Nat
      BY <1>k DEF Locals
    <3> QED BY <3>1, <3>2, <3>3
  <2>2. CASE th' = [th EXCEPT ![t] = NextSlot(t, th[t].moved, th[t].success)]
    BY <2>1, <2>2, <1>n
  <2>3. CASE th' = [th EXCEPT ![t] = [th[t] EXCEPT !.at = "start", !.external = FALSE]]
    <3>1. PICK c : c = [th[t] EXCEPT !.at = "start", !.external = FALSE]
      OBVIOUS
    <3>2. c.at = "start"
      BY <3>1, <1>k DEF Locals
    <3> QED BY <2>3, <3>1, <3>2, <1>p
  <2> QED BY <2>1, <2>2, <2>3
<1>8. CASE Recheck(t) \/ Expanded(t)
  <2>1. \/ th' = [th EXCEPT ![t] = Goes(t, "start")]
        \/ th' = [th EXCEPT ![t] = Goes(t, "expanded")]
    BY <1>8 DEF Recheck, Expanded
  <2> QED BY <2>1, <1>3, PointsKnown
<1>9. CASE Start(t)
  <2>h. PICK h : h = Last
    OBVIOUS
  <2>i. PICK i : i = Home(h, TheKey(t))
    OBVIOUS
  <2>1. th' = [th EXCEPT ![t].at = "probe", ![t].hdr = h, ![t].i = i]
    BY <1>9, <2>h, <2>i DEF Start
  <2> QED BY <2>1, <1>k DEF Inv, ThType, Locals
<1>14. CASE ProbeNext(t)
  <2>1. PICK x, i : /\ th' = [th EXCEPT ![t].i = i, ![t].at = IF x THEN "exit" ELSE @]
                    /\ th[t].at = "probe"
    BY <1>14 DEF ProbeNext, At
  <2> QED BY <2>1, <1>k DEF Inv, ThType, Locals
<1>10. CASE Update(t) \/ Store(t)
  <2>1. CASE Update(t)
    BY <2>1, UpdateKnown
  <2>2. CASE Store(t)
    BY <2>2, StoreKnown
  <2> QED BY <1>10, <2>1, <2>2
<1>12. CASE Exit(t)
  <2>1. \/ /\ ~th[t].external
           /\ th' = [th EXCEPT ![t] = NextSlot(t, th[t].moved + 1, th[t].success)]
        \/ th' = [th EXCEPT ![t] = Goes(t, "start")]
        \/ th' = [th EXCEPT ![t] = Idle]
    BY <1>12, Zenon DEF Exit
  <2>2. CASE /\ ~th[t].external
             /\ th' = [th EXCEPT ![t] = NextSlot(t, th[t].moved + 1, th[t].success)]
    <3>1. th[t].moved + 1 \in Nat
      BY <1>k DEF Locals
    <3> QED BY <3>1, <2>2, <1>n
  <2>3. CASE th' = [th EXCEPT ![t] = Goes(t, "start")]
    <3>1. th'[t].at = "start"
      BY <2>3, <1>3, PointsKnown
    <3> QED BY <3>1
  <2>4. CASE th' = [th EXCEPT ![t] = Idle]
    BY <2>4, <1>p, PointsKnown
  <2> QED BY <2>1, <2>2, <2>3, <2>4
<1>13. CASE Finish(t) \/ Claim(t) \/ Absent(t) \/ Present(t) \/ GrowFails(t) \/ Published(t)
            \/ Expanding(t) \/ Check(t)
  <2>1. \E p \in Points \ {"grow", "published"} : GoTo(t, p)
    BY <1>13, PointsKnown DEF Finish, Claim, Absent, Present, GrowFails, Published, Expanding, Check
  <2> QED BY <2>1, <1>2
<1> QED BY <1>1, <1>4, <1>5, <1>6, <1>7, <1>8, <1>9, <1>10, <1>12, <1>13, <1>14, Zenon DEF Step

\* A step of one thread leaves the others where they are.
LEMMA OthersStay ==
    ASSUME Inv, NEW t \in Threads, Call(t) \/ Step(t), NEW u \in Threads \ {t}
    PROVE  th'[u] = th[u]
<1>1. ASSUME NEW c, th' = [th EXCEPT ![t] = c] PROVE th'[u] = th[u]
  BY <1>1 DEF Inv, ThType
<1>2. CASE Call(t)
  BY <1>2, CallTh DEF Inv, Moves
<1>3. CASE Tax(t) \/ Finish(t) \/ Claim(t) \/ Absent(t) \/ Present(t) \/ Count(t) \/ GrowFails(t)
           \/ Grow(t) \/ Published(t) \/ Expanding(t) \/ Check(t)
  <2>1. PICK p : GoTo(t, p)
    BY <1>3, Zenon DEF Tax, Finish, Claim, Absent, Present, Count, GrowFails, Grow, Published,
                       Expanding, Check
  <2>2. PICK c : c = [th[t] EXCEPT !.at = p]
    OBVIOUS
  <2>3. th' = [th EXCEPT ![t] = c]
    BY <2>1, <2>2 DEF GoTo
  <2> QED BY <2>3, <1>1
<1>4. CASE From(t)
  BY <1>4, <1>1, Zenon DEF From
<1>5. CASE Scan(t)
  BY <1>5, <1>1, Zenon DEF Scan
<1>6. CASE Mark(t)
  <2>1. \/ th' = [th EXCEPT ![t] = NextSlot(t, th[t].moved, th[t].success)]
        \/ th' = [th EXCEPT ![t] = [th[t] EXCEPT !.at = "start", !.external = FALSE]]
    BY <1>6, Zenon DEF Mark
  <2> QED BY <2>1, <1>1, Zenon
<1>7. CASE Recheck(t) \/ Expanded(t)
  BY <1>7, <1>1, Zenon DEF Recheck, Expanded
<1>8. CASE Start(t)
  BY <1>8 DEF Start, Inv, ThType
<1>9. CASE ProbeNext(t)
  BY <1>9 DEF ProbeNext, Inv, ThType
<1>10. CASE Update(t)
  BY <1>10, UpdateKnown DEF Moves
<1>11. CASE Store(t)
  BY <1>11, StoreKnown DEF Moves
<1>12. CASE Exit(t)
  <2>1. \/ th' = [th EXCEPT ![t] = NextSlot(t, th[t].moved + 1, th[t].success)]
        \/ th' = [th EXCEPT ![t] = Goes(t, "start")]
        \/ th' = [th EXCEPT ![t] = Idle]
    BY <1>12, Zenon DEF Exit
  <2> QED BY <2>1, <1>1, Zenon
<1> QED BY <1>2, <1>3, <1>4, <1>5, <1>6, <1>7, <1>8, <1>9, <1>10, <1>11, <1>12, Zenon DEF Step

\* While a thread is between its two steps of growing the table the others start nothing.
LEMMA PublishedKept ==
    ASSUME Inv, FlagsOK, Lone, ~raced, NEW t \in Threads, Call(t) \/ Step(t), Running,
           NEW u \in Threads \ {t}, At(u, "published")
    PROVE  raced'
<1>1. Migrating
  <2>1. ~tables[Last - 1].assimilated /\ Last >= 2
    BY LastKnown DEF Lone, Inv, ThInv, ProbeOK
  <2> QED BY <2>1, LastKnown DEF Migrating
<1>2. Busy(u) /\ u # t
  BY DEF Busy, At
<1>3. CASE Step(t)
  <2>1. Busy(t)
    BY <1>3, StepBusy DEF Busy
  <2> QED BY <2>1, <1>1, <1>2 DEF Overlap, Lone
<1>4. CASE Call(t)
  <2>0. UNCHANGED tables
    BY <1>4, Zenon DEF Call
  <2>1. th'[t].at = "tax" /\ th'[u] = th[u]
    BY <1>4, CallTh DEF Inv, Asks, Moves
  <2>4. Migrating'
    BY <2>0, <1>1 DEF Migrating, Last
  <2>2. Busy(t)' /\ Busy(u)' /\ Migrating'
    BY <2>1, <2>4, <1>2 DEF Busy, At
  <2>3. Overlap'
    BY <2>2, <1>2 DEF Overlap
  <2> QED BY <2>3, Zenon DEF Running, FlagsOK
<1> QED BY <1>3, <1>4

LEMMA LoneKept ==
    ASSUME Inv, FlagsOK, Lone, NEW t \in Threads, Call(t) \/ Step(t), Running
    PROVE  Lone'
<1>1. (Overlap' => raced') /\ (raced => raced')
  BY Zenon DEF Running, FlagsOK
<1>2. ASSUME ~raced', NEW u \in Threads, At(u, "published")'
      PROVE  ~tables'[Last' - 1].assimilated
  <2>1. CASE u = t
    <3>1. ~Call(t)
      BY <1>2, <2>1, CallTh DEF Inv, Asks, At
    <3>2. Grow(t)
      BY <3>1, <1>2, <2>1, PublishedBy
    <3>l. PICK l : l = Last
      OBVIOUS
    <3>3. Last' = l + 1 /\ l \in 1 .. l /\ tables'[l] = tables[l]
      BY <3>l, <3>2, GrownTables, LastKnown
    <3>4. ~tables[l].assimilated
      BY <3>l DEF Inv, Current
    <3>5. Last' - 1 = l
      BY <3>3
    <3> QED BY <3>3, <3>4, <3>5
  <2>2. CASE u # t
    <3>1. At(u, "published") /\ ~raced
      BY <1>1, <1>2, <2>2, OthersStay DEF At
    <3> QED BY <3>1, <1>2, <2>2, PublishedKept
  <2> QED BY <2>1, <2>2
<1> QED BY <1>1, <1>2 DEF Lone

\* Only one thread works while keys move, and none that _grow_table will find is at work.
LEMMA AloneKnown ==
    ASSUME Inv, FlagsOK, Lone, NEW t \in Threads, Call(t) \/ Step(t), Running, ~raced'
    PROVE  Alone(t)
<1>1. ~raced /\ ~Overlap /\ ~Overlap'
  <2>1. (Overlap' => raced') /\ (raced => raced')
    BY Zenon DEF Running, FlagsOK
  <2> QED BY <2>1 DEF Lone
<1>2. ASSUME Migrating, NEW u \in Threads \ {t}, ~At(u, "idle") PROVE FALSE
  <2>1. CASE Step(t)
    <3>1. Busy(t) /\ Busy(u) /\ u # t
      BY <2>1, <1>2, StepBusy DEF Busy
    <3> QED BY <3>1, <1>1, <1>2 DEF Overlap
  <2>2. CASE Call(t)
    <3>1. UNCHANGED tables
      BY <2>2, Zenon DEF Call
    <3>2. Migrating'
      BY <3>1, <1>2 DEF Migrating, Last
    <3>3. th'[t].at = "tax" /\ th'[u] = th[u]
      BY <2>2, CallTh DEF Inv, Asks, Moves
    <3>4. Busy(t)' /\ Busy(u)' /\ u # t
      BY <3>3, <1>2 DEF Busy, At
    <3> QED BY <3>2, <3>4, <1>1 DEF Overlap
  <2> QED BY <2>1, <2>2
<1> QED BY <1>2 DEF Alone

LEMMA StuckKept ==
    ASSUME Inv, FlagsOK, Lone, NEW t \in Threads, Call(t) \/ Step(t), Running, ~raced', Stuck
    PROVE  Stuck'
<1>1. ~raced /\ ~aborted
  BY Zenon DEF Running, FlagsOK
<1>2. state = "expanding"
  BY <1>1 DEF Stuck
<1>3. PICK u \in Threads : At(u, "published")
  BY <1>1 DEF Stuck
<1>4. u = t
  BY <1>1, <1>3, PublishedKept
<1>5. ~Call(t)
  <2>1. th[t].at = "published"
    BY <1>3, <1>4 DEF At
  <2>2. ~(th[t].at = "idle")
    BY <2>1
  <2> QED BY <2>2, Zenon DEF Call, At
<1>6. Published(t)
  BY <1>3, <1>4, <1>5, StepBusy
<1>7. aborted' = TRUE
  BY <1>2, <1>6 DEF Published
<1> QED BY <1>7 DEF Stuck

LEMMA CalmKept ==
    ASSUME Inv, FlagsOK, CalmInv, NEW t \in Threads, Call(t) \/ Step(t), Running,
           ~raced', ~Stuck'
    PROVE  Calm'
<1>1. Lone /\ Alone(t) /\ ~Stuck
  BY AloneKnown, StuckKept DEF CalmInv
<1>2. ~raced
  BY Zenon DEF Running, FlagsOK
<1>3. Calm
  BY <1>1, <1>2 DEF CalmInv
<1>4. CASE Grow(t)
  <2>1. ~Migrating /\ state # "expanding"
    BY <1>1, <1>3, <1>4, GrowStuck
  <2>l. PICK l : l = Last
    OBVIOUS
  <2>2. Last' = l + 1 /\ l \in 1 .. l /\ tables'[l] = tables[l] /\ ~tables[l].assimilated
    <3>1. Last' = l + 1 /\ l \in 1 .. l /\ tables'[l] = tables[l]
      BY <2>l, <1>4, GrownTables, LastKnown
    <3> QED BY <3>1, <2>l DEF Inv, Current
  <2>3. Migrating'
    BY <2>2 DEF Migrating
  <2>4. Busy(t)'
    <3>1. GoTo(t, "published")
      BY <1>4 DEF Grow
    <3>2. th'[t].at = "published"
      BY <3>1, GoToTh, PointsKnown DEF Inv
    <3> QED BY <3>2 DEF Busy, At
  <2>5. ~Overlap'
    BY Zenon DEF Running, FlagsOK
  <2>6. \A u \in Threads \ {t} : At(u, "idle")'
    BY <2>3, <2>4, <2>5 DEF Overlap, Busy
  <2> QED BY <2>1, <2>6, <1>3, <1>4, GrowCalm
<1>5. CASE Call(t)
  BY <1>1, <1>3, <1>5, CallCalm
<1>6. CASE Step(t) /\ ~Grow(t)
  BY <1>1, <1>3, <1>6, TaxCalm, FromCalm, ScanCalm, MarkCalm, FinishCalm, RecheckCalm,
     ExpandedCalm, StartCalm, ProbeNextCalm, ClaimCalm, AbsentCalm, PresentCalm, UpdateCalm,
     StoreCalm, CountCalm, ExitCalm, GrowFailsCalm, PublishedCalm, ExpandingCalm, CheckCalm,
     Zenon DEF Step
<1> QED BY <1>4, <1>5, <1>6

LEMMA InitCalm ==
    ASSUME Init
    PROVE  CalmInv
<1>1. /\ Last = 1 /\ raced = FALSE /\ state = "initial" /\ aborted = FALSE
      /\ tables[1] = NewTable(InitialMax)
  BY DEF Init, Last
<1>2. \A t \in Threads : th[t].at = "idle" /\ th[t].external = TRUE
  BY PointsKnown DEF Init
<1>3. ~Migrating
  BY <1>1 DEF Migrating
<1>4. Used(1) = {}
  <2>0. EmptySlot.key = NoKey
    BY DEF EmptySlot
  <2>2. /\ NewTable(InitialMax).max = InitialMax
        /\ \A i \in 0 .. InitialMax - 1 : NewTable(InitialMax).slot[i] = EmptySlot
    BY NewTableKnown, LfhtAssumption
  <2>1. \A i \in 0 .. tables[1].max - 1 : Slot(1, i).key = NoKey
    BY <1>1, <2>0, <2>2 DEF Slot
  <2> QED BY <2>1 DEF Used
<1>5. LeftOK /\ OnceOK /\ ApartOK /\ RateOK /\ GrowthOK
  BY <1>1, <1>3, <1>4 DEF LeftOK, OnceOK, ApartOK, RateOK, GrowthOK
<1>6. \A t \in Threads : ThreadCalm(t)
  BY <1>2, <1>3 DEF ThreadCalm, PlaceOK, AnswerOK, At, Assimilating, Taxed
<1>7. Lone
  BY <1>2, <1>3 DEF Lone, Overlap, At
<1> QED BY <1>5, <1>6, <1>7 DEF CalmInv, Calm

LEMMA StutterCalm ==
    ASSUME CalmInv, UNCHANGED vars
    PROVE  CalmInv'
<1>1. UNCHANGED <<tables, state, th, calls, aborted, raced>>
  BY DEF vars
<1>2. Last' = Last /\ (Migrating' <=> Migrating) /\ Moved' = Moved /\ Gain' = Gain
  BY <1>1 DEF Last, Migrating, Moved, Gain, Marked, Used, Slot
<1>3. (Lone => Lone') /\ (Stuck => Stuck')
  BY <1>1, <1>2 DEF Lone, Stuck, Overlap, Busy, At
<1>4. (LeftOK /\ OnceOK /\ ApartOK /\ RateOK /\ GrowthOK) =>
      (LeftOK /\ OnceOK /\ ApartOK /\ RateOK /\ GrowthOK)'
  BY <1>1, <1>2 DEF LeftOK, OnceOK, ApartOK, RateOK, GrowthOK, Used, Slot, At
<1>5. ASSUME NEW t \in Threads, ThreadCalm(t) PROVE ThreadCalm(t)'
  BY <1>1, <1>2, <1>5 DEF ThreadCalm, PlaceOK, AnswerOK, At, TheOp, Works, ScanOK, MoveOK, PaidOK,
     DebtOK, Done, Rid, Clean, Slot, Used, Places, Distance, Home
<1> QED BY <1>1, <1>3, <1>4, <1>5 DEF CalmInv, Calm

LEMMA CalmAlways == Spec => []CalmInv
<1>1. Init => CalmInv
  BY InitCalm
<1>2. (Inv /\ FlagsOK) /\ CalmInv /\ [Next]_vars => CalmInv'
  <2>1. CASE UNCHANGED vars
    BY <2>1, StutterCalm
  <2>2. ASSUME Inv, FlagsOK, CalmInv, Next PROVE CalmInv'
    <3>1. PICK t \in Threads : (Call(t) \/ Step(t)) /\ Running
      BY <2>2, Zenon DEF Next, Steps
    <3> QED BY <2>2, <3>1, LoneKept, CalmKept DEF CalmInv
  <2> QED BY <2>1, <2>2
<1> QED BY <1>1, <1>2, InvAlways, PTL DEF Spec

(***************************************************************************)
(* No assertion of _grow_table fails: the tax keeps up with the adds       *)
(***************************************************************************)
\* A count never goes down, nor does a table change its length.
CountsOnward ==
    /\ Last' \in Nat /\ Last <= Last'
    /\ \A q \in 1 .. Last : tables'[q].max = tables[q].max /\ tables'[q].count >= tables[q].count

\* A table grows when it has more keys than it may have.
DueOK == \A t \in Threads :
    At(t, "grow") => tables[th[t].hdr].count > Threshold(tables[th[t].hdr].max)

\* What is grown too early was filled too far, because it could not be grown in time.
AssertsInv == ~raced /\ Stuck => Crowded

LEMMA WriteCounts ==
    ASSUME Inv, NEW n \in 1 .. Last, NEW i, NEW s, Write(n, i, s)
    PROVE  CountsOnward
<1>1. PICK T : T = [tables[n] EXCEPT !.slot[i] = s]
  OBVIOUS
<1>2. tables[n] \in Tables
  BY TableKnown DEF Inv
<1>3. T.max = tables[n].max /\ T.count = tables[n].count
  BY <1>1, <1>2 DEF Tables
<1>4. tables' = [tables EXCEPT ![n] = T]
  BY <1>1 DEF Write
<1>5. Last \in Nat /\ tables \in Seq(Tables)
  BY LastKnown DEF Inv, TablesType
<1>6. Last' = Last /\ \A q \in 1 .. Last : tables'[q] = IF q = n THEN T ELSE tables[q]
  BY <1>4, <1>5 DEF Last
<1>7. \A q \in 1 .. Last : tables[q].count \in Int
  BY TableKnown DEF Inv
<1>8. \A q \in 1 .. Last : tables'[q].max = tables[q].max /\ tables'[q].count = tables[q].count
  BY <1>3, <1>6
<1> QED BY <1>5, <1>6, <1>7, <1>8 DEF CountsOnward

LEMMA SameCounts ==
    ASSUME Inv, UNCHANGED tables
    PROVE  CountsOnward
<1>1. Last \in Nat /\ Last' = Last /\ \A q \in 1 .. Last : tables[q].count \in Int
  BY LastKnown, TableKnown DEF Inv, Last
<1> QED BY <1>1 DEF CountsOnward

LEMMA CountDue ==
    ASSUME Inv, NEW t \in Threads, Count(t), NEW h, h = th[t].hdr
    PROVE  /\ CountsOnward /\ th'[t].hdr = h /\ h \in 1 .. Last
           /\ At(t, "grow")' => tables'[h].count > Threshold(tables[h].max)
<1>n. PICK n : n = tables[h].count + 1
  OBVIOUS
<1>p. PICK p : p = IF n > Threshold(tables[h].max) THEN "grow" ELSE "exit"
  OBVIOUS
<1>0. /\ At(t, "count") /\ GoTo(t, p)
      /\ tables' = [tables EXCEPT ![h].count = n]
  BY <1>n, <1>p DEF Count, At
<1>1. h \in 1 .. Last /\ TablesType /\ Last \in Nat
  BY <1>0, LastKnown DEF Inv, ThInv, ProbeOK, At, InTable
<1>2. n \in Int /\ tables[h].count \in Int /\ \A q \in 1 .. Last : tables[q].count \in Int
  BY <1>1, <1>n, TableKnown
<1>3. /\ Last' = Last
      /\ \A q \in 1 .. Last : /\ tables'[q].max = tables[q].max
                              /\ tables'[q].count = IF q = h THEN n ELSE tables[q].count
  BY <1>0, <1>1, <1>2, Counted
<1>4. CountsOnward
  BY <1>1, <1>2, <1>3, <1>n DEF CountsOnward
<1>5. p \in Points
  BY <1>p, PointsKnown
<1>6. th'[t].at = p /\ th'[t].hdr = h
  BY <1>0, <1>5, GoToTh DEF Inv
<1>7. At(t, "grow")' => tables'[h].count > Threshold(tables[h].max)
  BY <1>1, <1>3, <1>6, <1>p DEF At
<1> QED BY <1>1, <1>4, <1>6, <1>7

LEMMA CountsKept ==
    ASSUME Inv, NEW t \in Threads, Call(t) \/ Step(t)
    PROVE  CountsOnward
<1>1. CASE Call(t) \/ Tax(t) \/ From(t) \/ Scan(t) \/ Recheck(t) \/ Expanded(t) \/ Start(t)
           \/ ProbeNext(t) \/ Absent(t) \/ Present(t) \/ Exit(t) \/ GrowFails(t)
           \/ Published(t) \/ Expanding(t) \/ Check(t)
  <2>1. UNCHANGED tables
    BY <1>1, Zenon DEF Call, Tax, From, Scan, Recheck, Expanded, Start, ProbeNext, Absent, Present,
                       Exit, GrowFails, Published, Expanding, Check
  <2> QED BY <2>1, SameCounts
<1>2. CASE Mark(t)
  <2>1. th[t].from \in 1 .. Last
    BY <1>2, AtSlot DEF Mark
  <2>2. UNCHANGED tables \/ \E s : Write(th[t].from, th[t].mi, s)
    BY <1>2, Zenon DEF Mark
  <2> QED BY <2>1, <2>2, SameCounts, WriteCounts
<1>3. CASE Finish(t)
  <2>f. PICK f : f = th[t].from
    OBVIOUS
  <2>1. At(t, "finish") /\ tables' = [tables EXCEPT ![f].assimilated = TRUE]
    BY <1>3, <2>f DEF Finish
  <2>2. f \in 1 .. Last /\ TablesType /\ Last \in Nat
    BY <2>1, <2>f, LastKnown DEF Inv, ThInv, TaxOK, At, Assimilating
  <2>3. Last' = Last /\ \A q \in 1 .. Last : /\ tables'[q].max = tables[q].max
                                             /\ tables'[q].count = tables[q].count
                                             /\ tables[q].count \in Int
    BY <2>1, <2>2, Assimilated, TableKnown
  <2> QED BY <2>2, <2>3 DEF CountsOnward
<1>4. CASE Claim(t) \/ Update(t) \/ Store(t)
  <2>1. th[t].hdr \in 1 .. Last
    BY <1>4, AtPlace DEF Claim, Update, Store
  <2>2. UNCHANGED tables \/ \E s : Write(th[t].hdr, th[t].i, s)
    <3>1. CASE Claim(t) \/ Store(t)
      BY <3>1, Zenon DEF Claim, Store
    <3>2. CASE Update(t)
      <4>1. TheOp(t) \in {"add", "remove", "find"} /\ At(t, "update")
        BY <3>2, AtPlace DEF Update
      <4> QED BY <3>2, <4>1 DEF Update
    <3> QED BY <1>4, <3>1, <3>2
  <2> QED BY <2>1, <2>2, SameCounts, WriteCounts
<1>5. CASE Count(t)
  BY <1>5, CountDue
<1>6. CASE Grow(t)
  <2>l. PICK l : l = Last
    OBVIOUS
  <2>1. Last' = l + 1 /\ l \in Nat /\ \A q \in 1 .. l : tables'[q] = tables[q]
    BY <1>6, <2>l, GrownTables
  <2>2. \A q \in 1 .. l : tables[q].count \in Int
    BY <2>l, TableKnown DEF Inv
  <2> QED BY <2>l, <2>1, <2>2 DEF CountsOnward
<1> QED BY <1>1, <1>2, <1>3, <1>4, <1>5, <1>6, Zenon DEF Step

LEMMA DueKept ==
    ASSUME Inv, DueOK, NEW t \in Threads, Call(t) \/ Step(t)
    PROVE  DueOK'
<1>1. ASSUME NEW u \in Threads \ {t}, At(u, "grow")'
      PROVE  tables'[th'[u].hdr].count > Threshold(tables'[th'[u].hdr].max)
  <2>h. PICK h : h = th[u].hdr
    OBVIOUS
  <2>1. th'[u] = th[u] /\ th'[u].hdr = h /\ At(u, "grow")
    BY <1>1, <2>h, OthersStay DEF At
  <2>2. h \in 1 .. Last
    BY <2>1, <2>h DEF Inv, ThInv, ProbeOK, At, InTable
  <2>3. tables[h].count > Threshold(tables[h].max) /\ tables[h].count \in Int
    BY <2>1, <2>2, <2>h, TableKnown DEF DueOK, Inv
  <2>4. tables'[h].max = tables[h].max /\ tables'[h].count >= tables[h].count
    BY <2>2, CountsKept DEF CountsOnward
  <2>5. Threshold(tables[h].max) \in Int /\ tables'[h].count \in Int
    <3>1. Inv'
      BY CallInv, StepInv
    <3>2. h \in 1 .. Last'
      BY <2>2, CountsKept, LastKnown DEF CountsOnward
    <3>5. tables' \in Seq(Tables) /\ Last' = Len(tables')
      BY <3>1 DEF Inv, TablesType, Last
    <3>6. tables'[h] \in Tables
      BY <3>2, <3>5
    <3>3. tables'[h].count \in Int
      BY <3>6 DEF Tables
    <3>4. tables[h].max \in Nat
      BY <2>2, TableKnown DEF Inv
    <3> QED BY <3>3, <3>4 DEF Threshold
  <2> QED BY <2>1, <2>3, <2>4, <2>5 DEF Threshold
<1>2. ASSUME At(t, "grow")'
      PROVE  tables'[th'[t].hdr].count > Threshold(tables'[th'[t].hdr].max)
  <2>1. ~Call(t)
    BY <1>2, CallTh DEF Inv, Asks, At
  <2>2. Count(t)
    BY <1>2, <2>1, PublishedBy
  <2>h. PICK h : h = th[t].hdr
    OBVIOUS
  <2>3. th'[t].hdr = h /\ tables'[h].count > Threshold(tables[h].max)
        /\ tables'[h].max = tables[h].max
    BY <1>2, <2>2, <2>h, CountDue DEF CountsOnward
  <2> QED BY <2>3
<1> QED BY <1>1, <1>2 DEF DueOK

\* If for every key that is added three move, a table is not over its threshold before all
\* keys moved to it from one half its length, unless that one was over its own by two.
LEMMA TaxKeepsUp ==
    ASSUME NEW p \in Nat, p >= 3, NEW a \in Nat, NEW b \in Nat, NEW x \in Nat, x <= a,
           p * (b - x) <= x, NEW m \in Nat \ {0}, b > Threshold(2 * m)
    PROVE  a > Threshold(m) + 1
<1>q. PICK q \in Nat : q = (6 * m) \div 10
  OBVIOUS
<1>1. (6 * (2 * m)) \div 10 >= 2 * q /\ (q = 0 => (6 * (2 * m)) \div 10 >= 1)
  BY <1>q
<1>2. b >= 2 * q + 1 /\ (q = 0 => b >= 2)
  BY <1>1 DEF Threshold
<1>3. CASE b <= x
  BY <1>2, <1>3, <1>q DEF Threshold
<1>4. CASE b > x
  <2>d. PICK d \in Nat : d = b - x
    BY <1>4
  <2>1. \A c, e \in Nat : (c + 3) * e = c * e + 3 * e /\ c * e \in Nat
    OBVIOUS
  <2>2. p - 3 \in Nat /\ (p - 3) + 3 = p
    OBVIOUS
  <2>3. p * d = (p - 3) * d + 3 * d /\ (p - 3) * d \in Nat
    BY <2>1, <2>2
  <2>4. p * d <= x
    BY <2>d
  <2>5. 3 * d <= x
    BY <2>3, <2>4
  <2> QED BY <2>5, <2>d, <1>2, <1>q DEF Threshold
<1> QED BY <1>3, <1>4

LEMMA CrowdedKept ==
    ASSUME Inv, Inv', CountsOnward, Crowded
    PROVE  Crowded'
<1>1. PICK n \in 1 .. Last - 1 : tables[n].count > Threshold(tables[n].max) + 1
  BY DEF Crowded
<1>2. Last \in Nat /\ Last' \in Nat /\ n \in 1 .. Last /\ n \in 1 .. Last' - 1 /\ n \in 1 .. Last'
  <2>1. PICK l \in Nat : l = Last
    BY LastKnown
  <2>2. PICK m \in Nat : m = Last' /\ l <= m
    BY <2>1 DEF CountsOnward
  <2>3. n \in 1 .. l - 1
    BY <1>1, <2>1
  <2>4. n \in 1 .. l /\ n \in 1 .. m - 1 /\ n \in 1 .. m
    <3>1. \A y, z \in Nat : y <= z =>
             \A w \in 1 .. y - 1 : w \in 1 .. y /\ w \in 1 .. z - 1 /\ w \in 1 .. z
      OBVIOUS
    <3>2. l <= m
      BY <2>2
    <3> QED BY <2>3, <3>1, <3>2
  <2> QED BY <2>1, <2>2, <2>4
<1>3. tables'[n].max = tables[n].max /\ tables'[n].count >= tables[n].count
  BY <1>2 DEF CountsOnward
<1>4. tables[n].count \in Int /\ tables[n].max \in Nat
  BY <1>2, TableKnown DEF Inv
<1>5. tables'[n].count \in Int
  <2>1. tables' \in Seq(Tables) /\ Last' = Len(tables')
    BY DEF Inv, TablesType, Last
  <2>2. tables'[n] \in Tables
    BY <1>2, <2>1
  <2> QED BY <2>2 DEF Tables
<1>6. tables'[n].count > Threshold(tables'[n].max) + 1
  BY <1>1, <1>3, <1>4, <1>5 DEF Threshold
<1> QED BY <1>2, <1>6 DEF Crowded

\* To grow the table while keys move is to have filled the one before it too far.
LEMMA GrowCrowded ==
    ASSUME MIGRATIONS_PER_ACCESS >= 3, Inv, Calm, DueOK, Migrating, NEW t \in Threads, Alone(t),
           Grow(t)
    PROVE  Crowded
<1>l. PICK l : l = Last
  OBVIOUS
<1>o. PICK o : o = l - 1
  OBVIOUS
<1>1. /\ o \in 1 .. Last /\ l \in 1 .. Last /\ l # 1 /\ o \in 1 .. Last - 1 /\ l \in Nat
      /\ tables[o].max \in Nat \ {0} /\ tables[l].max \in Nat \ {0}
      /\ tables[o].count \in Int /\ tables[l].count \in Int
  BY <1>o, <1>l, LastKnown, TableKnown DEF Inv
<1>2. tables[l].max = 2 * tables[o].max
  BY <1>1, <1>o DEF Inv, TablesType
<1>3. At(t, "grow") /\ th[t].hdr = l
  BY <1>l DEF Grow
<1>4. tables[l].count > Threshold(tables[l].max)
  BY <1>3 DEF DueOK
<1>5. \A n : Adding(n) = {}
  BY <1>3 DEF Adding, Alone, At
<1>6. \A n \in 1 .. Last : tables[n].count = Cardinality(Used(n))
  <2>1. ASSUME NEW n \in 1 .. Last PROVE tables[n].count = Cardinality(Used(n))
    <3>1. tables[n].count = Cardinality(Used(n)) - Cardinality(Adding(n))
      BY DEF Inv, CountOK
    <3>2. Cardinality(Adding(n)) = 0
      BY <1>5, FS_EmptySet
    <3>3. Cardinality(Used(n)) \in Nat
      BY UsedFinite, TableKnown DEF Inv
    <3> QED BY <3>1, <3>2, <3>3
  <2> QED BY <2>1
<1>7. PICK a \in Nat : a = Cardinality(Used(o))
  BY <1>1, UsedFinite
<1>8. PICK b \in Nat : b = Cardinality(Used(l))
  BY <1>1, UsedFinite
<1>9. PICK x \in Nat : x = Moved
  BY CardKnown
<1>10. x <= a
  <2>1. Marked(o) \subseteq Used(o) /\ IsFiniteSet(Used(o))
    BY <1>1, UsedFinite DEF Marked
  <2>2. Cardinality(Marked(o)) <= Cardinality(Used(o))
    BY <2>1, FS_Subset
  <2> QED BY <2>2, <1>7, <1>9, <1>o, <1>l DEF Moved
<1>11. Gain = b - x
  BY <1>8, <1>9, <1>l DEF Gain
<1>12. MIGRATIONS_PER_ACCESS * (b - x) <= x
  BY <1>9, <1>11 DEF Calm, RateOK
<1>13. b > Threshold(2 * tables[o].max)
  BY <1>1, <1>2, <1>4, <1>6, <1>8
<1>14. a > Threshold(tables[o].max) + 1
  BY <1>1, <1>10, <1>12, <1>13, TaxKeepsUp, LfhtAssumption
<1> QED BY <1>1, <1>6, <1>7, <1>14 DEF Crowded

LEMMA AssertsKept ==
    ASSUME MIGRATIONS_PER_ACCESS >= 3, Inv, Inv', FlagsOK, CalmInv, DueOK, AssertsInv,
           NEW t \in Threads, Call(t) \/ Step(t), Running
    PROVE  AssertsInv'
<1>1. SUFFICES ASSUME ~raced', Stuck' PROVE Crowded'
  BY DEF AssertsInv
<1>2. CountsOnward
  BY CountsKept
<1>3. ~raced /\ ~aborted /\ ~Overlap'
  BY <1>1, Zenon DEF Running, FlagsOK
<1>4. CASE Stuck
  BY <1>2, <1>3, <1>4, CrowdedKept DEF AssertsInv
<1>5. CASE ~Stuck
  <2>1. Calm /\ Lone /\ Alone(t)
    BY <1>1, <1>3, <1>5, AloneKnown DEF CalmInv
  <2>2. ~aborted'
    <3>1. aborted' = aborted \/ (Step(t) /\ (Published(t) \/ Check(t)))
      BY Zenon DEF Call, Step, Tax, From, Scan, Mark, Finish, Recheck, Expanded, Start,
         ProbeNext, Claim, Absent, Present, Update, Store, Count, Exit, GrowFails, Grow, Expanding
    <3>2. CASE Published(t)
      <4>1. At(t, "published")
        BY <3>2 DEF Published
      <4>2. state # "expanding"
        BY <4>1, <1>5 DEF Stuck
      <4> QED BY <3>2, <4>2 DEF Published
    <3>3. CASE Check(t)
      <4>h. PICK h : h = th[t].hdr
        OBVIOUS
      <4>1. At(t, "check") /\ aborted' = ~((h > 1 => tables[h - 1].assimilated) /\ Last = h + 1)
        BY <3>3, <4>h DEF Check
      <4>2. PlaceOK(t)
        BY <2>1 DEF Calm, ThreadCalm
      <4>3. h = Last - 1 /\ Last \in Nat
        BY <4>1, <4>2, <4>h, LastKnown DEF PlaceOK, At
      <4>4. h > 1 => tables[h - 1].assimilated
        BY <2>1, <4>3 DEF Calm, LeftOK
      <4>5. (h > 1 => tables[h - 1].assimilated) /\ Last = h + 1
        BY <4>3, <4>4
      <4> QED BY <4>1, <4>5, Zenon
    <3> QED BY <3>1, <3>2, <3>3, <1>3
  <2>3. state' = "expanding" /\ \E u \in Threads : At(u, "published")'
    BY <1>1, <2>2 DEF Stuck
  <2>4. PICK u \in Threads : At(u, "published")'
    BY <2>3
  <2>5. u = t
    <3>1. ASSUME u # t PROVE FALSE
      <4>1. At(u, "published")
        BY <2>4, <3>1, OthersStay DEF At
      <4> QED BY <1>1, <1>3, <2>1, <3>1, <4>1, PublishedKept
    <3> QED BY <3>1
  <2>6. Grow(t)
    <3>1. ~Call(t)
      BY <2>4, <2>5, CallTh DEF Inv, Asks, At
    <3> QED BY <3>1, <2>4, <2>5, PublishedBy
  <2>7. state = "expanding" /\ At(t, "grow")
    BY <2>3, <2>6 DEF Grow
  <2>8. Migrating
    <3>1. ASSUME ~Migrating PROVE FALSE
      <4>1. PICK w \in Threads : At(w, "recheck") \/ At(w, "expanded")
        BY <2>1, <2>7, <3>1 DEF Calm, GrowthOK
      <4>2. w # t /\ th'[w] = th[w] /\ th'[w].at \in {"recheck", "expanded"}
        BY <4>1, <2>7, OthersStay DEF At
      <4>3. Busy(w)' /\ Busy(t)'
        BY <4>2, <2>4, <2>5 DEF Busy, At
      <4>l. PICK l : l = Last
        OBVIOUS
      <4>4. Last' = l + 1 /\ l \in 1 .. l /\ tables'[l] = tables[l] /\ ~tables[l].assimilated
        <5>1. Last' = l + 1 /\ l \in 1 .. l /\ tables'[l] = tables[l]
          BY <4>l, <2>6, GrownTables, LastKnown
        <5> QED BY <5>1, <4>l DEF Inv, Current
      <4>5. Migrating'
        BY <4>4 DEF Migrating
      <4> QED BY <4>2, <4>3, <4>5, <1>3 DEF Overlap
    <3> QED BY <3>1
  <2>9. Crowded
    BY <2>1, <2>6, <2>8, GrowCrowded
  <2> QED BY <2>9, <1>2, CrowdedKept
<1> QED BY <1>4, <1>5

\* No assertion of _grow_table fails as long as operations do not overlap during a migration
\* and no table was filled further than to where it grows: with the three moves for each
\* access that lfht.c makes, or more, the table is never grown again before the previous
\* migration is over.
THEOREM AssertsHoldAlways ==
    ASSUME MIGRATIONS_PER_ACCESS >= 3
    PROVE  Spec => []AssertsHold
<1>1. Init => DueOK /\ AssertsInv
  <2>1. ASSUME Init PROVE DueOK /\ AssertsInv
    <3>1. state = "initial" /\ ~aborted /\ \A t \in Threads : ~At(t, "grow")
      BY <2>1, PointsKnown DEF Init, At
    <3> QED BY <3>1 DEF DueOK, AssertsInv, Stuck
  <2> QED BY <2>1
<1>2. (Inv /\ FlagsOK) /\ (Inv /\ FlagsOK)' /\ CalmInv /\ (DueOK /\ AssertsInv) /\ [Next]_vars
      => (DueOK /\ AssertsInv)'
  <2>1. ASSUME DueOK, AssertsInv, UNCHANGED vars PROVE DueOK' /\ AssertsInv'
    <3>1. UNCHANGED <<tables, state, th, calls, aborted, raced>>
      BY <2>1 DEF vars
    <3> QED BY <2>1, <3>1 DEF DueOK, AssertsInv, At, Stuck, Crowded, Last
  <2>2. ASSUME Inv, Inv', FlagsOK, CalmInv, DueOK, AssertsInv, Next PROVE DueOK' /\ AssertsInv'
    <3>1. PICK t \in Threads : (Call(t) \/ Step(t)) /\ Running
      BY <2>2, Zenon DEF Next, Steps
    <3> QED BY <2>2, <3>1, DueKept, AssertsKept
  <2> QED BY <2>1, <2>2
<1>3. AssertsInv => AssertsHold
  BY DEF AssertsInv, AssertsHold, Stuck
<1> QED BY <1>1, <1>2, <1>3, InvAlways, CalmAlways, PTL DEF Spec

(***************************************************************************)
(* The table is a map as long as operations do not overlap in a migration  *)
(***************************************************************************)
\* Place i of table n holds key k, which has not moved on.
Held(n, i, k) == n \in 1 .. Last /\ i \in Used(n) /\ Matches(Slot(n, i), k)

Nowhere(k)    == \A m, j : ~Held(m, j, k)
Only(n, i, k) == \A m, j : Held(m, j, k) <=> m = n /\ j = i

\* A call that has not taken effect, and one that has.
Asking(c) == c.at # "idle" /\ ~(c.external /\ (c.ret \/ c.at = "exit"))
Told(c)   == c.at # "idle" /\ c.external /\ (c.ret \/ c.at = "exit")

\* The value of a key is on its way, or where the key is held, or there is none.
ValuesFound == \A k :
    /\ \A t : InFlight(k) = {t} => ValueOf(k) = th[t].mval
    /\ InFlight(k) = {} /\ Nowhere(k) => ValueOf(k) = TOMBSTONE
    /\ \A n, i : InFlight(k) = {} /\ Only(n, i, k) => ValueOf(k) = Slot(n, i).val

LEMMA HeldPairs ==
    \A k : /\ \A p \in Holding(k) : p = <<p[1], p[2]>> /\ Held(p[1], p[2], k)
           /\ \A n, i : Held(n, i, k) => <<n, i>> \in Holding(k)
<1>1. ASSUME NEW k, NEW p \in Holding(k) PROVE p = <<p[1], p[2]>> /\ Held(p[1], p[2], k)
  <2>1. PICK n \in 1 .. Last : p \in {n} \X Used(n)
    BY <1>1 DEF Holding
  <2>2. p[1] = n /\ p[2] \in Used(n) /\ p = <<p[1], p[2]>> /\ Matches(Slot(p[1], p[2]), k)
    BY <1>1, <2>1 DEF Holding
  <2> QED BY <2>1, <2>2 DEF Held
<1>2. ASSUME NEW k, NEW n, NEW i, Held(n, i, k) PROVE <<n, i>> \in Holding(k)
  BY <1>2 DEF Holding, Held
<1> QED BY <1>1, <1>2

LEMMA ValuesKnown == Inv => ValuesFound
<1> SUFFICES ASSUME Inv, NEW k
             PROVE  /\ \A t : InFlight(k) = {t} => ValueOf(k) = th[t].mval
                    /\ InFlight(k) = {} /\ Nowhere(k) => ValueOf(k) = TOMBSTONE
                    /\ \A n, i : InFlight(k) = {} /\ Only(n, i, k) => ValueOf(k) = Slot(n, i).val
  BY DEF ValuesFound
<1>1. ASSUME NEW t, InFlight(k) = {t} PROVE ValueOf(k) = th[t].mval
  BY <1>1 DEF ValueOf
<1>2. ASSUME InFlight(k) = {}, Nowhere(k) PROVE ValueOf(k) = TOMBSTONE
  <2>1. Holding(k) = {}
    BY <1>2, HeldPairs DEF Nowhere
  <2> QED BY <1>2, <2>1 DEF ValueOf
<1>3. ASSUME InFlight(k) = {}, NEW n, NEW i, Only(n, i, k) PROVE ValueOf(k) = Slot(n, i).val
  <2>1. \A p : p \in Holding(k) <=> p = <<n, i>>
    BY <1>3, HeldPairs DEF Only
  <2>2. PICK H : H = Holding(k)
    OBVIOUS
  <2>3. H = {<<n, i>>} /\ H # {}
    BY <2>1, <2>2
  <2>4. Held(n, i, k)
    BY <1>3 DEF Only
  <2>5. n \in Int /\ n <= n
    BY <2>4, LastKnown DEF Held
  <2>6. PICK q : q = CHOOSE p \in H : \A r \in H : r[1] <= p[1]
    OBVIOUS
  <2>7. q = <<n, i>>
    <3>1. \A r \in H : r[1] <= <<n, i>>[1]
      BY <2>3, <2>5
    <3> QED BY <2>3, <2>6, <3>1
  <2>8. ValueOf(k) = Slot(q[1], q[2]).val
    BY <1>3, <2>2, <2>3, <2>6, Zenon DEF ValueOf
  <2> QED BY <2>7, <2>8
<1> QED BY <1>1, <1>2, <1>3

LEMMA ValuesKnownNext == Inv' => ValuesFound'
BY ValuesKnown, PTL

\* While the table is calm a key is held once, in the current table or the one before it.
HeldOnce == \A k, n, i : Held(n, i, k) =>
    /\ Only(n, i, k)
    /\ n = Last \/ (Migrating /\ n = Last - 1)

LEMMA HeldOnceKnown ==
    ASSUME Inv, Calm
    PROVE  HeldOnce
<1>l. PICK l \in Nat : l = Last
  BY LastKnown
<1>1. ASSUME NEW k, NEW n, NEW i, Held(n, i, k)
      PROVE  n = l \/ (Migrating /\ n = l - 1)
  <2>1. n \in 1 .. l /\ i \in Used(n) /\ ~Slot(n, i).moved
    BY <1>1, <1>l DEF Held, Matches
  <2>2. n # l => n \in 1 .. l - 1 /\ (n # l - 1 => n \in 1 .. l - 2)
    BY <2>1
  <2>3. n # l => ~tables[n].assimilated
    BY <2>1, <2>2, <1>l DEF Calm, LeftOK
  <2>4. n # l => n = l - 1
    BY <2>2, <2>3, <1>l DEF Calm, LeftOK
  <2> QED BY <2>2, <2>3, <2>4, <1>l DEF Migrating
<1>2. ASSUME NEW k, NEW n, NEW i, NEW m, NEW j, Held(n, i, k), Held(m, j, k)
      PROVE  m = n /\ j = i
  <2>1. /\ n \in 1 .. Last /\ i \in Used(n) /\ Slot(n, i).key = k /\ ~Slot(n, i).moved
        /\ m \in 1 .. Last /\ j \in Used(m) /\ Slot(m, j).key = k /\ ~Slot(m, j).moved
    BY <1>2 DEF Held, Matches
  <2>2. CASE m = n
    BY <2>1, <2>2 DEF Calm, OnceOK
  <2>3. CASE m # n
    <3>1. Migrating /\ ((n = l /\ m = l - 1) \/ (m = l /\ n = l - 1))
      BY <2>3, <1>1, <1>2
    <3>2. \A a \in Used(l - 1) : \A b \in Used(l) :
             Slot(l - 1, a).key = Slot(l, b).key => Slot(l - 1, a).moved
      BY <3>1, <1>l DEF Calm, ApartOK
    <3> QED BY <2>1, <3>1, <3>2
  <2> QED BY <2>2, <2>3
<1>3. ASSUME NEW k, NEW n, NEW i, Held(n, i, k) PROVE Only(n, i, k)
  BY <1>2, <1>3 DEF Only
<1> QED BY <1>1, <1>3, <1>l DEF HeldOnce

LEMMA FlightKnown ==
    ASSUME Inv, Calm, NEW t \in Threads, Alone(t), Call(t) \/ Step(t), NEW k
    PROVE  /\ InFlight(k) = IF ~th[t].external /\ th[t].mkey = k THEN {t} ELSE {}
           /\ InFlight(k)' = IF ~th'[t].external /\ th'[t].mkey = k THEN {t} ELSE {}
<1>1. ASSUME NEW u \in Threads \ {t} PROVE th[u].external /\ th'[u].external
  <2>1. PlaceOK(u) /\ ThInv(u) /\ th'[u] = th[u]
    BY OthersStay DEF Calm, ThreadCalm, Inv
  <2>2. ASSUME ~th[u].external PROVE FALSE
    <3>1. Migrating
      BY <2>1, <2>2 DEF PlaceOK
    <3>2. At(u, "idle")
      BY <3>1 DEF Alone
    <3> QED BY <2>1, <2>2, <3>2 DEF ThInv, CallOK
  <2> QED BY <2>1, <2>2
<1> QED BY <1>1 DEF InFlight

LEMMA ValueSame ==
    ASSUME Inv, Inv', HeldOnce, NEW k,
           \A m, j : Held(m, j, k)' <=> Held(m, j, k),
           \A m, j : Held(m, j, k) => Slot(m, j)'.val = Slot(m, j).val,
           NEW F, InFlight(k) = F, InFlight(k)' = F,
           F = {} \/ \E t : F = {t} /\ th'[t].mval = th[t].mval
    PROVE  ValueOf(k)' = ValueOf(k)
<1>1. ValuesFound /\ ValuesFound'
  BY ValuesKnown, ValuesKnownNext
<1>2. CASE \E t : F = {t} /\ th'[t].mval = th[t].mval
  BY <1>1, <1>2 DEF ValuesFound
<1>3. CASE F = {} /\ Nowhere(k)
  <2>1. Nowhere(k)'
    BY <1>3 DEF Nowhere
  <2> QED BY <1>1, <1>3, <2>1 DEF ValuesFound
<1>4. CASE F = {} /\ ~Nowhere(k)
  <2>1. PICK n, i : Held(n, i, k)
    BY <1>4 DEF Nowhere
  <2>2. Only(n, i, k)
    BY <2>1 DEF HeldOnce
  <2>3. Only(n, i, k)'
    BY <2>2 DEF Only
  <2>4. ValueOf(k) = Slot(n, i).val /\ ValueOf(k)' = Slot(n, i)'.val
    BY <1>1, <1>4, <2>2, <2>3 DEF ValuesFound
  <2> QED BY <2>1, <2>4
<1> QED BY <1>2, <1>3, <1>4

LEMMA StillValues ==
    ASSUME Inv, Inv', Calm, NEW t \in Threads, Alone(t), Call(t) \/ Step(t),
           \A m, j, k : Held(m, j, k)' <=> Held(m, j, k),
           \A m, j, k : Held(m, j, k) => Slot(m, j)'.val = Slot(m, j).val,
           th'[t].external = th[t].external,
           ~th[t].external => th'[t].mkey = th[t].mkey /\ th'[t].mval = th[t].mval
    PROVE  ValuesOf' = ValuesOf
<1>1. ASSUME NEW k \in Keys PROVE ValueOf(k)' = ValueOf(k)
  <2>f. PICK F : F = InFlight(k)
    OBVIOUS
  <2>1. InFlight(k)' = F /\ (F = {} \/ (F = {t} /\ th'[t].mval = th[t].mval))
    BY <2>f, FlightKnown
  <2> QED BY <2>f, <2>1, HeldOnceKnown, ValueSame
<1> QED BY <1>1 DEF ValuesOf

LEMMA OneValue ==
    ASSUME NEW k \in Keys, NEW v, ValueOf(k)' = v,
           \A j \in Keys \ {k} : ValueOf(j)' = ValueOf(j)
    PROVE  ValuesOf' = [ValuesOf EXCEPT ![k] = v]
BY DEF ValuesOf

LEMMA OnePending ==
    ASSUME Inv, NEW t \in Threads, Call(t) \/ Step(t), NEW c, PendingOf(t)' = c
    PROVE  PendingOps' = [PendingOps EXCEPT ![t] = c]
<1>1. ASSUME NEW u \in Threads \ {t} PROVE PendingOf(u)' = PendingOf(u)
  <2>1. th'[u] = th[u]
    BY OthersStay
  <2> QED BY <2>1 DEF PendingOf
<1> QED BY <1>1 DEF PendingOps

LEMMA SamePending ==
    ASSUME Inv, NEW t \in Threads, Call(t) \/ Step(t), PendingOf(t)' = PendingOf(t)
    PROVE  PendingOps' = PendingOps
<1>1. ASSUME NEW u \in Threads \ {t} PROVE PendingOf(u)' = PendingOf(u)
  <2>1. th'[u] = th[u]
    BY OthersStay
  <2> QED BY <2>1 DEF PendingOf
<1> QED BY <1>1 DEF PendingOps

\* What the client is told of a call.
PendingFound == \A t \in Threads :
    /\ Asking(th[t]) => PendingOf(t) = [op |-> th[t].op, key |-> th[t].key, val |-> th[t].val]
    /\ Told(th[t]) => PendingOf(t) = [op |-> "answered",
                        answer |-> IF th[t].op = "find" THEN th[t].valp ELSE th[t].ret]
    /\ th[t].at = "idle" => PendingOf(t) = [op |-> "none"]

LEMMA PendingKnown == PendingFound
<1>1. ASSUME NEW t \in Threads, Asking(th[t])
      PROVE  PendingOf(t) = [op |-> th[t].op, key |-> th[t].key, val |-> th[t].val]
  BY <1>1 DEF Asking, PendingOf
<1>2. ASSUME NEW t \in Threads, Told(th[t])
      PROVE  PendingOf(t) = [op |-> "answered",
                answer |-> IF th[t].op = "find" THEN th[t].valp ELSE th[t].ret]
  BY <1>2 DEF Told, PendingOf
<1>3. ASSUME NEW t \in Threads, th[t].at = "idle" PROVE PendingOf(t) = [op |-> "none"]
  BY <1>3 DEF PendingOf
<1> QED BY <1>1, <1>2, <1>3, Zenon DEF PendingFound

LEMMA PendingKnownNext == PendingFound'
BY PendingKnown, PTL

\* The client sees nothing of a step.
Silent == ValuesOf' = ValuesOf /\ PendingOps' = PendingOps

\* The call goes on as it was, before it takes effect or after.
SameCall(t) ==
    /\ th'[t].op = th[t].op /\ th'[t].key = th[t].key /\ th'[t].val = th[t].val
    /\ \/ Asking(th[t]) /\ Asking(th'[t])
       \/ Told(th[t]) /\ Told(th'[t]) /\ th'[t].ret = th[t].ret /\ th'[t].valp = th[t].valp

\* No key is moved by the step.
SameHeld ==
    /\ \A m, j, k : Held(m, j, k)' <=> Held(m, j, k)
    /\ \A m, j, k : Held(m, j, k) => Slot(m, j)'.val = Slot(m, j).val

SameFlight(t) ==
    /\ th'[t].external = th[t].external
    /\ ~th[t].external => th'[t].mkey = th[t].mkey /\ th'[t].mval = th[t].mval

LEMMA SilentStep ==
    ASSUME Inv, Inv', Calm, NEW t \in Threads, Alone(t), Step(t), SameHeld, SameFlight(t), SameCall(t)
    PROVE  Silent
<1>1. ValuesOf' = ValuesOf
  BY StillValues DEF SameHeld, SameFlight
<1>2. PendingOf(t)' = PendingOf(t)
  <2>1. PendingFound /\ PendingFound'
    BY PendingKnown, PendingKnownNext
  <2>2. CASE Asking(th[t]) /\ Asking(th'[t])
    BY <2>1, <2>2 DEF PendingFound, SameCall
  <2>3. CASE Told(th[t]) /\ Told(th'[t]) /\ th'[t].ret = th[t].ret /\ th'[t].valp = th[t].valp
    BY <2>1, <2>3 DEF PendingFound, SameCall
  <2> QED BY <2>2, <2>3 DEF SameCall
<1> QED BY <1>1, <1>2, SamePending DEF Silent

LEMMA AskingNow ==
    ASSUME Inv, Calm, NEW t \in Threads,
           th[t].at \in Taxed \cup {"start", "probe", "update", "store"} \/ ~th[t].external
    PROVE  Asking(th[t]) /\ ~th[t].ret /\ th[t].valp = TOMBSTONE
<1>1. AnswerOK(t) /\ ThInv(t)
  BY DEF Calm, ThreadCalm, Inv
<1>2. ~th[t].ret /\ th[t].valp = TOMBSTONE
  BY <1>1 DEF AnswerOK
<1>3. th[t].at # "idle"
  BY <1>1 DEF ThInv, CallOK, At, Taxed
<1>4. ~th[t].external \/ th[t].at # "exit"
  BY DEF Taxed
<1> QED BY <1>2, <1>3, <1>4 DEF Asking

LEMMA ToldNow ==
    ASSUME Inv, Calm, NEW t \in Threads, th[t].external,
           th[t].at \in {"count", "grow", "published", "expanding", "check"}
    PROVE  Told(th[t]) /\ th[t].ret
<1>1. AnswerOK(t)
  BY DEF Calm, ThreadCalm
<1>2. th[t].ret
  BY <1>1 DEF AnswerOK
<1> QED BY <1>2 DEF Told

LEMMA HeldSame ==
    ASSUME Last' = Last, \A q \in 1 .. Last : tables'[q].max = tables[q].max,
           \A q \in 1 .. Last : \A j \in Places(q) : /\ Slot(q, j)'.key = Slot(q, j).key
                                                     /\ Slot(q, j)'.moved = Slot(q, j).moved
    PROVE  \A m, j, k : Held(m, j, k)' <=> Held(m, j, k)
<1>1. \A q \in 1 .. Last : Used(q)' = Used(q)
  BY DEF Used, Places
<1>2. ASSUME NEW m \in 1 .. Last, NEW j \in Used(m), NEW k
      PROVE  Matches(Slot(m, j), k)' <=> Matches(Slot(m, j), k)
  <2>1. j \in Places(m)
    BY <1>2 DEF Used, Places
  <2> QED BY <2>1 DEF Matches
<1> QED BY <1>1, <1>2 DEF Held

LEMMA StillHeld ==
    ASSUME UNCHANGED tables
    PROVE  SameHeld
<1>1. Last' = Last /\ \A m, j : Slot(m, j)' = Slot(m, j)
  BY DEF Last, Slot
<1>2. \A m, j, k : Held(m, j, k)' <=> Held(m, j, k)
  BY <1>1 DEF Held, Used, Matches
<1> QED BY <1>1, <1>2 DEF SameHeld

\* A step that changes where the thread is and nothing else is seen only by its answer.
LEMMA GoSilent ==
    ASSUME Inv, Inv', Calm, NEW t \in Threads, Alone(t), Step(t), SameHeld,
           NEW p \in Points \ {"idle"}, GoTo(t, p),
           \/ /\ th[t].at \in Taxed \cup {"start", "probe"} \/ ~th[t].external
              /\ p # "exit" \/ ~th[t].external
           \/ th[t].external /\ th[t].at \in {"count", "grow", "published", "expanding", "check"}
    PROVE  Silent
<1>1. /\ th'[t].at = p /\ th'[t].op = th[t].op /\ th'[t].key = th[t].key /\ th'[t].val = th[t].val
      /\ th'[t].ret = th[t].ret /\ th'[t].valp = th[t].valp /\ th'[t].mkey = th[t].mkey
      /\ th'[t].mval = th[t].mval /\ th'[t].external = th[t].external
  BY GoToTh DEF Inv
<1>2. SameFlight(t)
  BY <1>1 DEF SameFlight
<1>3. SameCall(t)
  <2>1. CASE /\ th[t].at \in Taxed \cup {"start", "probe"} \/ ~th[t].external
             /\ p # "exit" \/ ~th[t].external
    <3>1. Asking(th[t]) /\ ~th[t].ret
      BY <2>1, AskingNow
    <3>2. Asking(th'[t])
      BY <1>1, <2>1, <3>1 DEF Asking
    <3> QED BY <1>1, <3>1, <3>2 DEF SameCall
  <2>2. CASE th[t].external /\ th[t].at \in {"count", "grow", "published", "expanding", "check"}
    <3>1. Told(th[t]) /\ th[t].ret
      BY <2>2, ToldNow
    <3>2. Told(th'[t])
      BY <1>1, <2>2, <3>1 DEF Told
    <3> QED BY <1>1, <3>1, <3>2 DEF SameCall
  <2> QED BY <2>1, <2>2
<1> QED BY <1>2, <1>3, SilentStep

LEMMA AskOn ==
    ASSUME Inv, Calm, NEW t \in Threads,
           th[t].at \in Taxed \cup {"start", "probe", "update", "store"} \/ ~th[t].external,
           th'[t].op = th[t].op, th'[t].key = th[t].key, th'[t].val = th[t].val,
           th'[t].ret = th[t].ret, th'[t].at # "idle", th'[t].at # "exit" \/ ~th'[t].external
    PROVE  SameCall(t)
<1>1. Asking(th[t]) /\ ~th[t].ret
  BY AskingNow
<1>2. Asking(th'[t])
  BY <1>1 DEF Asking
<1> QED BY <1>1, <1>2 DEF SameCall

LEMMA GoSteps ==
    ASSUME Inv, Inv', Calm, NEW t \in Threads, Alone(t), Step(t),
           Tax(t) \/ Present(t) \/ GrowFails(t) \/ Published(t) \/ Expanding(t) \/ Check(t)
    PROVE  Silent
<1>1. SameHeld
  <2>1. UNCHANGED tables
    BY Zenon DEF Tax, Present, GrowFails, Published, Expanding, Check
  <2> QED BY <2>1, StillHeld
<1>2. CASE Tax(t)
  <2>1. PICK p \in {"from", "start"} : GoTo(t, p) /\ At(t, "tax")
    BY <1>2 DEF Tax
  <2>2. p \in Points \ {"idle"} /\ p # "exit" /\ th[t].at \in Taxed
    BY <2>1, PointsKnown DEF Taxed, At
  <2> QED BY <1>1, <2>1, <2>2, GoSilent
<1>3. CASE Present(t)
  <2>1. GoTo(t, "update") /\ th[t].at = "probe"
    BY <1>3 DEF Present, At
  <2>2. "update" \in Points \ {"idle"}
    BY PointsKnown
  <2> QED BY <1>1, <2>1, <2>2, GoSilent
<1>4. CASE GrowFails(t)
  <2>1. GoTo(t, "exit") /\ th[t].at = "grow"
    BY <1>4 DEF GrowFails, At
  <2>2. "exit" \in Points \ {"idle"}
    BY PointsKnown
  <2> QED BY <1>1, <2>1, <2>2, GoSilent
<1>5. CASE Published(t) \/ Expanding(t) \/ Check(t)
  <2>1. PICK p \in {"expanding", "check", "exit"} :
           GoTo(t, p) /\ th[t].at \in {"published", "expanding", "check"}
    BY <1>5 DEF Published, Expanding, Check, At
  <2>2. p \in Points \ {"idle"}
    BY <2>1, PointsKnown
  <2> QED BY <1>1, <2>1, <2>2, GoSilent
<1> QED BY <1>2, <1>3, <1>4, <1>5

LEMMA FinishSilent ==
    ASSUME Inv, Inv', Calm, NEW t \in Threads, Alone(t), Step(t), Finish(t)
    PROVE  Silent
<1>f. PICK f : f = th[t].from
  OBVIOUS
<1>1. /\ At(t, "finish") /\ GoTo(t, "recheck") /\ th[t].at \in Taxed
      /\ tables' = [tables EXCEPT ![f].assimilated = TRUE]
  BY <1>f DEF Finish, Taxed, At
<1>2. f \in 1 .. Last /\ TablesType
  BY <1>1, <1>f, LastKnown DEF Inv, ThInv, TaxOK, At, Assimilating
<1>3. /\ Last' = Last
      /\ \A q \in 1 .. Last : tables'[q].max = tables[q].max
      /\ \A q \in 1 .. Last : \A j \in Places(q) : Slot(q, j)' = Slot(q, j)
  BY <1>1, <1>2, Assimilated
<1>4. \A m, j, k : Held(m, j, k)' <=> Held(m, j, k)
  BY <1>3, HeldSame
<1>5. SameHeld
  BY <1>3, <1>4 DEF SameHeld, Held, Used, Places
<1> QED BY <1>1, <1>5, PointsKnown, GoSilent

LEMMA CountSilent ==
    ASSUME Inv, Inv', Calm, NEW t \in Threads, Alone(t), Step(t), Count(t)
    PROVE  Silent
<1>h. PICK h : h = th[t].hdr
  OBVIOUS
<1>1. /\ At(t, "count") /\ SameTask(t) /\ th'[t].at \in {"grow", "exit"}
      /\ th'[t].ret = th[t].ret /\ th'[t].valp = th[t].valp /\ SameShape
      /\ \A q \in 1 .. Last : \A j \in Places(q) : Slot(q, j)' = Slot(q, j)
  BY <1>h, CountKnown
<1>2. \A m, j, k : Held(m, j, k)' <=> Held(m, j, k)
  BY <1>1, HeldSame DEF SameShape
<1>3. SameHeld
  BY <1>1, <1>2 DEF SameHeld, Held, Used, Places
<1>4. SameFlight(t)
  BY <1>1 DEF SameFlight, SameTask
<1>5. SameCall(t)
  <2>1. CASE ~th[t].external
    BY <1>1, <2>1, AskOn DEF SameTask
  <2>2. CASE th[t].external
    <3>1. Told(th[t]) /\ th[t].ret
      BY <1>1, <2>2, ToldNow DEF At
    <3>2. Told(th'[t])
      BY <1>1, <2>2, <3>1 DEF Told, SameTask
    <3> QED BY <1>1, <3>1, <3>2 DEF SameCall, SameTask
  <2> QED BY <2>1, <2>2
<1> QED BY <1>3, <1>4, <1>5, SilentStep

LEMMA GoesSilent ==
    ASSUME Inv, Inv', Calm, NEW t \in Threads, Alone(t), Step(t), SameHeld,
           th[t].external = TRUE, th[t].at \in Taxed,
           th'[t].external = TRUE, th'[t].at \notin {"idle", "exit"},
           th'[t].op = th[t].op, th'[t].key = th[t].key, th'[t].val = th[t].val,
           th'[t].ret = th[t].ret
    PROVE  Silent
<1>1. SameFlight(t)
  BY DEF SameFlight
<1>2. SameCall(t)
  BY AskOn
<1> QED BY <1>1, <1>2, SilentStep

LEMMA TaxedExternal ==
    ASSUME Inv, NEW t \in Threads, th[t].at \in Taxed
    PROVE  th[t].external = TRUE /\ th[t] \in Locals
BY Typed DEF Inv, ThInv, TaxOK, Locals

LEMMA RecheckSilent ==
    ASSUME Inv, Inv', Calm, NEW t \in Threads, Alone(t), Step(t), Recheck(t) \/ Expanded(t)
    PROVE  Silent
<1>1. SameHeld
  <2>1. UNCHANGED tables
    BY Zenon DEF Recheck, Expanded
  <2> QED BY <2>1, StillHeld
<1>2. th[t].at \in Taxed
  BY DEF Recheck, Expanded, At, Taxed
<1>3. PICK p \in {"start", "expanded"} : th' = [th EXCEPT ![t] = Goes(t, p)]
  BY DEF Recheck, Expanded
<1>4. Forgot(t, p, th'[t])
  BY <1>3, GoesTh, PointsKnown DEF Inv
<1> QED BY <1>1, <1>2, <1>4, GoesSilent, TaxedExternal DEF Forgot

LEMMA FromSilent ==
    ASSUME Inv, Inv', Calm, NEW t \in Threads, Alone(t), Step(t), From(t)
    PROVE  Silent
<1>f. PICK f : f = Last - 1
  OBVIOUS
<1>h. PICK h : h = Home(f, th[t].key)
  OBVIOUS
<1>g. PICK g : g = Goes(t, "finish")
  OBVIOUS
<1>c. PICK c : c = IF tables[f].assimilated THEN [g EXCEPT !.from = f]
                   ELSE [th[t] EXCEPT !.from = f, !.mi = h, !.at = "scan"]
  OBVIOUS
<1>1. th' = [th EXCEPT ![t] = c] /\ th[t].at = "from" /\ UNCHANGED tables
  BY <1>f, <1>h, <1>c, <1>g DEF From, At
<1>2. th'[t] = c
  BY <1>1 DEF Inv, ThType
<1>3. th[t].at \in Taxed /\ th[t].external = TRUE /\ th[t] \in Locals
  BY <1>1, TaxedExternal DEF Taxed
<1>4. Forgot(t, "finish", g)
  BY <1>g, GoesFields, PointsKnown DEF Inv
<1>5. /\ c.external = TRUE /\ c.at \notin {"idle", "exit"} /\ c.op = th[t].op
      /\ c.key = th[t].key /\ c.val = th[t].val /\ c.ret = th[t].ret
  <2>1. CASE tables[f].assimilated
    <3>1. c = [g EXCEPT !.from = f]
      BY <2>1, <1>c
    <3> QED BY <3>1, <1>4 DEF Forgot, Locals
  <2>2. CASE ~tables[f].assimilated
    <3>1. c = [th[t] EXCEPT !.from = f, !.mi = h, !.at = "scan"]
      BY <2>2, <1>c
    <3> QED BY <3>1, <1>3 DEF Locals
  <2> QED BY <2>1, <2>2
<1>6. SameHeld
  BY <1>1, StillHeld
<1> QED BY <1>2, <1>3, <1>5, <1>6, GoesSilent

LEMMA ScanSilent ==
    ASSUME Inv, Inv', Calm, NEW t \in Threads, Alone(t), Step(t), Scan(t)
    PROVE  Silent
<1>e. PICK e : e = Slot(th[t].from, th[t].mi)
  OBVIOUS
<1>s. PICK sure : sure = (th[t].success \/ e.key \in {NoKey, th[t].key})
  OBVIOUS
<1>0. At(t, "scan") /\ UNCHANGED tables
  BY Zenon DEF Scan
<1>1. th[t].at \in Taxed /\ th[t].external = TRUE /\ th[t] \in Locals
  BY <1>0, TaxedExternal DEF Taxed, At
<1>2. SameHeld
  BY <1>0, StillHeld
<1>3. \/ th' = [th EXCEPT ![t] = [th[t] EXCEPT !.success = sure, !.at = "mark",
                                               !.mkey = e.key, !.mval = e.val]]
      \/ th' = [th EXCEPT ![t] = Goes(t, "start")]
      \/ th' = [th EXCEPT ![t] = NextSlot(t, th[t].moved, sure)]
  BY <1>e, <1>s, Zenon DEF Scan
<1>4. CASE th' = [th EXCEPT ![t] = [th[t] EXCEPT !.success = sure, !.at = "mark",
                                                 !.mkey = e.key, !.mval = e.val]]
  <2>c. PICK c : c = [th[t] EXCEPT !.success = sure, !.at = "mark",
                                   !.mkey = e.key, !.mval = e.val]
    OBVIOUS
  <2>1. /\ c.external = TRUE /\ c.at = "mark" /\ c.op = th[t].op
        /\ c.key = th[t].key /\ c.val = th[t].val /\ c.ret = th[t].ret
    BY <2>c, <1>1 DEF Locals
  <2>2. th'[t] = c
    BY <2>c, <1>4 DEF Inv, ThType
  <2> QED BY <2>1, <2>2, <1>1, <1>2, GoesSilent
<1>5. CASE th' = [th EXCEPT ![t] = Goes(t, "start")]
  <2>1. Forgot(t, "start", th'[t])
    BY <1>5, GoesTh, PointsKnown DEF Inv
  <2> QED BY <1>1, <1>2, <2>1, GoesSilent DEF Forgot
<1>6. CASE th' = [th EXCEPT ![t] = NextSlot(t, th[t].moved, sure)]
  <2>1. th[t].moved \in Nat /\ sure \in BOOLEAN /\ After(th[t].from, th[t].mi) \in Nat
    BY <1>0, <1>1, <1>s, AtSlot DEF Locals
  <2>2. Scanned(t, th[t].moved, sure, th'[t])
    BY <1>6, <2>1, NextSlotTh DEF Inv
  <2> QED BY <1>1, <1>2, <2>2, GoesSilent DEF Scanned
<1> QED BY <1>3, <1>4, <1>5, <1>6

LEMMA StartSilent ==
    ASSUME Inv, Inv', Calm, NEW t \in Threads, Alone(t), Step(t), Start(t)
    PROVE  Silent
<1>l. PICK l : l = Last
  OBVIOUS
<1>h. PICK h : h = Home(l, TheKey(t))
  OBVIOUS
<1>c. PICK c : c = [th[t] EXCEPT !.at = "probe", !.hdr = l, !.i = h]
  OBVIOUS
<1>0. th[t].at = "start" /\ UNCHANGED tables /\ th[t] \in Locals
  BY Typed DEF Start, At, Inv
<1>1. th' = [th EXCEPT ![t] = c]
  BY <1>c, <1>l, <1>h DEF Start
<1>2. th'[t] = c
  BY <1>1 DEF Inv, ThType
<1>3. /\ c.at = "probe" /\ c.external = th[t].external /\ c.mkey = th[t].mkey
      /\ c.mval = th[t].mval /\ c.key = th[t].key /\ c.op = th[t].op /\ c.val = th[t].val
      /\ c.ret = th[t].ret /\ c.valp = th[t].valp
  BY <1>0, <1>c DEF Locals
<1>4. SameFlight(t)
  BY <1>2, <1>3 DEF SameFlight
<1>5. SameCall(t)
  BY <1>0, <1>2, <1>3, AskOn
<1>6. SameHeld
  BY <1>0, StillHeld
<1> QED BY <1>4, <1>5, <1>6, SilentStep

\* A probe that meets neither the key nor an empty place shows that the key is absent.
LEMMA NoValue ==
    ASSUME Inv, Calm, NEW t \in Threads, Alone(t), Step(t), At(t, "probe"), th[t].external,
           NEW k, k = th[t].key, NEW l, l = Last,
           \A j \in Used(l) : ~Matches(Slot(l, j), k)
    PROVE  InFlight(k) = {} /\ Nowhere(k) /\ ValueOf(k) = TOMBSTONE
<1>1. InFlight(k) = {}
  BY FlightKnown
<1>2. ASSUME NEW n, NEW i, Held(n, i, k) PROVE FALSE
  <2>1. n \in 1 .. Last /\ i \in Used(n) /\ Matches(Slot(n, i), k)
    BY <1>2 DEF Held
  <2>2. n # l
    BY <2>1
  <2>3. Migrating /\ n = l - 1
    BY <2>2, <1>2, HeldOnceKnown DEF HeldOnce
  <2>4. PaidOK(t)
    BY <2>3 DEF Calm, ThreadCalm, Works
  <2>5. \A j \in Places(l - 1) : Rid(l - 1, k, j)
    BY <2>4 DEF PaidOK, At
  <2>6. i \in Places(l - 1)
    BY <2>1, <2>3 DEF Used, Places
  <2> QED BY <2>1, <2>3, <2>5, <2>6 DEF Rid, Matches
<1>3. Nowhere(k)
  BY <1>2 DEF Nowhere
<1> QED BY <1>1, <1>3, ValuesKnown DEF ValuesFound

\* What a step that takes effect does to the map and tells the client.
Effect(t, o, k, v, a) ==
    \/ /\ o = "add"
       /\ \/ ValuesOf' = [ValuesOf EXCEPT ![k] = v] /\ a = TRUE
          \/ ValuesOf' = ValuesOf /\ a = FALSE
    \/ /\ o = "remove"
       /\ ValuesOf' = [ValuesOf EXCEPT ![k] = TOMBSTONE]
       /\ a = TRUE \/ (ValuesOf[k] = TOMBSTONE /\ a = FALSE)
    \/ /\ o = "find" /\ a = ValuesOf[k] /\ ValuesOf' = ValuesOf

Acts(t) == Map!Call(t) \/ Map!Add(t) \/ Map!Remove(t) \/ Map!Find(t) \/ Map!Return(t)

LEMMA EffectActs ==
    ASSUME NEW t \in Threads, NEW o, NEW k, NEW v, NEW a, Effect(t, o, k, v, a),
           PendingOf(t) = [op |-> o, key |-> k, val |-> v],
           PendingOps' = [PendingOps EXCEPT ![t] = [op |-> "answered", answer |-> a]]
    PROVE  Acts(t)
<1>1. PICK c : c = [op |-> o, key |-> k, val |-> v]
  OBVIOUS
<1>2. c.op = o /\ c.key = k /\ c.val = v
  BY <1>1
<1>3. PendingOps[t] = c
  BY <1>1 DEF PendingOps
<1>4. CASE o = "add" /\ (\/ ValuesOf' = [ValuesOf EXCEPT ![k] = v] /\ a = TRUE
                         \/ ValuesOf' = ValuesOf /\ a = FALSE)
  <2>1. Map!Add(t)
    BY <1>2, <1>3, <1>4 DEF Map!Add, Map!Answered
  <2> QED BY <2>1 DEF Acts
<1>5. CASE /\ o = "remove"
           /\ ValuesOf' = [ValuesOf EXCEPT ![k] = TOMBSTONE]
           /\ a = TRUE \/ (ValuesOf[k] = TOMBSTONE /\ a = FALSE)
  <2>1. Map!Remove(t)
    BY <1>2, <1>3, <1>5 DEF Map!Remove, Map!Answered
  <2> QED BY <2>1 DEF Acts
<1>6. CASE o = "find" /\ a = ValuesOf[k] /\ ValuesOf' = ValuesOf
  <2>1. Map!Find(t)
    BY <1>2, <1>3, <1>6 DEF Map!Find, Map!Answered
  <2> QED BY <2>1 DEF Acts
<1> QED BY <1>4, <1>5, <1>6 DEF Effect

LEMMA NotFound ==
    ASSUME Inv, Inv', Calm, NEW t \in Threads, Alone(t), Step(t), At(t, "probe"),
           th[t].external = TRUE, UNCHANGED tables,
           NEW k, k = th[t].key, NEW l, l = Last,
           \A j \in Used(l) : ~Matches(Slot(l, j), k),
           th'[t].at = "exit", th'[t].external = TRUE, th'[t].op = th[t].op,
           th'[t].ret = th[t].ret, th'[t].valp = th[t].valp
    PROVE  Acts(t)
<1>1. ValuesOf' = ValuesOf
  BY StillHeld, StillValues DEF SameHeld
<1>2. k \in Keys /\ th[t].op \in {"add", "remove", "find"} /\ th[t] \in Locals
  BY BusyKnown DEF At
<1>3. Asking(th[t]) /\ ~th[t].ret /\ th[t].valp = TOMBSTONE
  BY AskingNow DEF At
<1>4. th[t].ret = FALSE
  BY <1>2, <1>3 DEF Locals
<1>5. ValuesOf[k] = TOMBSTONE
  BY <1>2, NoValue DEF ValuesOf
<1>a. PICK a : a = IF th[t].op = "find" THEN TOMBSTONE ELSE FALSE
  OBVIOUS
<1>6. PendingOf(t) = [op |-> th[t].op, key |-> k, val |-> th[t].val]
  BY <1>3, PendingKnown DEF PendingFound
<1>7. PendingOf(t)' = [op |-> "answered", answer |-> a]
  <2>1. Told(th'[t])
    BY DEF Told
  <2>2. PendingOf(t)' = [op |-> "answered",
                         answer |-> IF th'[t].op = "find" THEN th'[t].valp ELSE th'[t].ret]
    BY <2>1, PendingKnownNext DEF PendingFound
  <2> QED BY <2>2, <1>3, <1>4, <1>a
<1>8. PendingOps' = [PendingOps EXCEPT ![t] = [op |-> "answered", answer |-> a]]
  BY <1>7, OnePending
<1>9. ValuesOf' = [ValuesOf EXCEPT ![k] = TOMBSTONE]
  BY <1>1, <1>5 DEF ValuesOf
<1>10. Effect(t, th[t].op, k, th[t].val, a)
  BY <1>1, <1>2, <1>5, <1>9, <1>a DEF Effect
<1> QED BY <1>6, <1>8, <1>10, EffectActs

LEMMA AbsentActs ==
    ASSUME Inv, Inv', Calm, NEW t \in Threads, Alone(t), Step(t), Absent(t)
    PROVE  Acts(t)
<1>0. /\ At(t, "probe") /\ TheOp(t) # "add" /\ Here(t).key = NoKey /\ GoTo(t, "exit")
      /\ UNCHANGED tables
  BY DEF Absent
<1>1. th[t].external = TRUE
  <2>1. th[t].external \in BOOLEAN
    BY Typed DEF Inv, Locals
  <2> QED BY <1>0, <2>1 DEF TheOp
<1>2. /\ th'[t].at = "exit" /\ th'[t].external = TRUE /\ th'[t].op = th[t].op
      /\ th'[t].ret = th[t].ret /\ th'[t].valp = th[t].valp
  BY <1>0, <1>1, GoToTh, PointsKnown DEF Inv
<1>l. PICK l : l = Last
  OBVIOUS
<1>k. PICK k : k = th[t].key
  OBVIOUS
<1>3. TheKey(t) = k /\ th[t].hdr = l
  <2>1. PlaceOK(t)
    BY DEF Calm, ThreadCalm
  <2> QED BY <2>1, <1>0, <1>1, <1>l, <1>k DEF PlaceOK, At, TheKey
<1>4. \A j \in Used(l) : ~Matches(Slot(l, j), k)
  BY <1>0, <1>3, <1>l, NotThere DEF Matches
<1> QED BY <1>0, <1>1, <1>2, <1>4, <1>l, <1>k, NotFound

LEMMA ProbeNextActs ==
    ASSUME Inv, Inv', Calm, NEW t \in Threads, Alone(t), Step(t), ProbeNext(t)
    PROVE  Silent \/ Acts(t)
<1>h. PICK h : h = th[t].hdr
  OBVIOUS
<1>k. PICK k : k = TheKey(t)
  OBVIOUS
<1>n. PICK next : next = After(h, th[t].i)
  OBVIOUS
<1>p. PICK p : p = IF next = Home(h, k) THEN "exit" ELSE "probe"
  OBVIOUS
<1>c. PICK c : c = [th[t] EXCEPT !.i = next, !.at = p]
  OBVIOUS
<1>0. At(t, "probe") /\ UNCHANGED tables
  BY DEF ProbeNext
<1>1. th[t] \in Locals /\ th[t].at = "probe"
  BY <1>0, Typed DEF Inv, At
<1>2. th' = [th EXCEPT ![t] = c]
  BY <1>1, <1>c, <1>p, <1>n, <1>h, <1>k DEF ProbeNext
<1>3. th'[t] = c
  BY <1>2 DEF Inv, ThType
<1>4. /\ c.at = p /\ c.external = th[t].external /\ c.mkey = th[t].mkey
      /\ c.mval = th[t].mval /\ c.key = th[t].key /\ c.op = th[t].op /\ c.val = th[t].val
      /\ c.ret = th[t].ret /\ c.valp = th[t].valp
  BY <1>1, <1>c DEF Locals
<1>5. CASE p # "exit" \/ ~th[t].external
  <2>1. SameFlight(t)
    BY <1>3, <1>4 DEF SameFlight
  <2>2. SameCall(t)
    BY <1>1, <1>3, <1>4, <1>5, <1>p, AskOn
  <2> QED BY <2>1, <2>2, <1>0, StillHeld, SilentStep
<1>6. CASE p = "exit" /\ th[t].external
  <2>1. th[t].external = TRUE
    BY <1>1, <1>6 DEF Locals
  <2>2. k = th[t].key /\ h = Last
    <3>1. PlaceOK(t)
      BY DEF Calm, ThreadCalm
    <3> QED BY <3>1, <2>1, <1>1, <1>h, <1>k DEF PlaceOK, TheKey
  <2>3. After(h, th[t].i) = Home(h, k)
    BY <1>6, <1>p, <1>n
  <2>4. \A j \in Used(h) : ~Matches(Slot(h, j), k)
    BY <2>3, <1>h, <1>k, WentRound DEF Used, Places
  <2> QED BY <2>1, <2>2, <2>4, <1>0, <1>3, <1>4, <1>6, NotFound
<1> QED BY <1>5, <1>6

LEMMA GrowSilent ==
    ASSUME Inv, Inv', Calm, NEW t \in Threads, Alone(t), Step(t), Grow(t)
    PROVE  Silent
<1>l. PICK l : l = Last
  OBVIOUS
<1>1. /\ Last' = l + 1 /\ l \in Nat
      /\ \A q \in 1 .. l : /\ Used(q)' = Used(q)
                           /\ \A j : Slot(q, j)' = Slot(q, j)
      /\ Used(l + 1)' = {}
  BY <1>l, GrownTables
<1>2. \A q \in 1 .. l + 1 : q \in 1 .. l \/ q = l + 1
  BY <1>1
<1>3. \A q \in 1 .. l : q \in 1 .. l + 1
  BY <1>1
<1>4. ASSUME NEW m, NEW j, NEW k PROVE Held(m, j, k)' <=> Held(m, j, k)
  <2>1. ASSUME m \in 1 .. l PROVE Held(m, j, k)' <=> Held(m, j, k)
    <3>1. Matches(Slot(m, j), k)' <=> Matches(Slot(m, j), k)
      BY <2>1, <1>1 DEF Matches
    <3> QED BY <2>1, <3>1, <1>1, <1>3, <1>l DEF Held
  <2>2. ASSUME m \notin 1 .. l PROVE ~Held(m, j, k)' /\ ~Held(m, j, k)
    <3>1. m \in 1 .. l + 1 => m = l + 1
      BY <2>2, <1>2
    <3> QED BY <2>2, <3>1, <1>1, <1>l DEF Held
  <2> QED BY <2>1, <2>2
<1>5. SameHeld
  BY <1>1, <1>4, <1>l DEF SameHeld, Held
<1>6. GoTo(t, "published") /\ th[t].at = "grow"
  BY DEF Grow, At
<1>7. "published" \in Points \ {"idle"}
  BY PointsKnown
<1> QED BY <1>5, <1>6, <1>7, GoSilent

\* The thread is at the place of its key, which is nowhere else.
LEMMA HereHeld ==
    ASSUME Inv, Calm, NEW h, h = Last, NEW i \in Places(h), NEW k, Slot(h, i).key = k, k # NoKey
    PROVE  Held(h, i, k) /\ Only(h, i, k)
<1>1. ~Slot(h, i).moved /\ h \in 1 .. Last
  BY LastKnown DEF Inv, Current
<1>2. Held(h, i, k)
  BY <1>1 DEF Held, Used, Places, Matches
<1> QED BY <1>2, HeldOnceKnown DEF HeldOnce

LEMMA ValuedOthers ==
    ASSUME Inv, Inv', Calm, NEW t \in Threads, Alone(t), Step(t), SameFlight(t),
           NEW h, h = Last, NEW i \in Places(h), NEW k, Slot(h, i).key = k, k # NoKey,
           NEW w, Valued(h, i, w)
    PROVE  /\ Only(h, i, k)' /\ Slot(h, i)'.val = w
           /\ \A x \in Keys \ {k} : ValueOf(x)' = ValueOf(x)
<1>1. Held(h, i, k) /\ Only(h, i, k) /\ h \in 1 .. Last
  BY HereHeld, LastKnown
<1>2. \A m, j, x : Held(m, j, x)' <=> Held(m, j, x)
  BY HeldSame DEF Valued, SameShape
<1>3. Only(h, i, k)'
  BY <1>1, <1>2 DEF Only
<1>4. Slot(h, i)'.val = w
  BY <1>1 DEF Valued
<1>5. ASSUME NEW x \in Keys \ {k} PROVE ValueOf(x)' = ValueOf(x)
  <2>1. ASSUME NEW m, NEW j, Held(m, j, x) PROVE Slot(m, j)'.val = Slot(m, j).val
    <3>1. m \in 1 .. Last /\ j \in Places(m) /\ Slot(m, j).key = x
      BY <2>1 DEF Held, Used, Places, Matches
    <3>2. ~(m = h /\ j = i)
      BY <3>1
    <3> QED BY <3>1, <3>2 DEF Valued
  <2>f. PICK F : F = InFlight(x)
    OBVIOUS
  <2>2. InFlight(x)' = F /\ (F = {} \/ (F = {t} /\ th'[t].mval = th[t].mval))
    BY <2>f, FlightKnown DEF SameFlight
  <2> QED BY <1>2, <2>1, <2>2, <2>f, HeldOnceKnown, ValueSame
<1> QED BY <1>3, <1>4, <1>5

\* The step gives key k the value w.
Puts(k, w) == ValuesOf' = [ValuesOf EXCEPT ![k] = w]

LEMMA ValuedHere ==
    ASSUME Inv, Inv', Calm, NEW t \in Threads, Alone(t), Step(t),
           th[t].external = TRUE, th'[t].external = TRUE,
           NEW h, h = Last, NEW i \in Places(h), NEW k \in Keys, Slot(h, i).key = k, k # NoKey
    PROVE  /\ ValuesOf[k] = Slot(h, i).val
           /\ \A w : Valued(h, i, w) => Puts(k, w)
<1>1. InFlight(k) = {} /\ InFlight(k)' = {}
  BY FlightKnown
<1>2. ValuesOf[k] = Slot(h, i).val
  <2>1. ValueOf(k) = Slot(h, i).val
    BY <1>1, HereHeld, ValuesKnown DEF ValuesFound
  <2> QED BY <2>1 DEF ValuesOf
<1>3. ASSUME NEW w, Valued(h, i, w) PROVE Puts(k, w)
  <2>0. SameFlight(t)
    BY DEF SameFlight
  <2>1. /\ Only(h, i, k)' /\ Slot(h, i)'.val = w
        /\ \A x \in Keys \ {k} : ValueOf(x)' = ValueOf(x)
    BY <1>3, <2>0, ValuedOthers
  <2>2. ValueOf(k)' = w
    BY <1>1, <2>1, ValuesKnownNext DEF ValuesFound
  <2> QED BY <2>1, <2>2, OneValue DEF Puts
<1> QED BY <1>2, <1>3

LEMMA InternalKnown ==
    ASSUME Inv, Calm, NEW t \in Threads, ~th[t].external
    PROVE  Migrating /\ MoveOK(t) /\ th[t].external = FALSE
<1>1. ThreadCalm(t) /\ th[t].external \in BOOLEAN
  BY Typed DEF Calm, Inv, Locals
<1>2. Migrating
  BY <1>1 DEF ThreadCalm, PlaceOK
<1> QED BY <1>1, <1>2 DEF ThreadCalm, Works

LEMMA UpdateActs ==
    ASSUME Inv, Inv', Calm, NEW t \in Threads, Alone(t), Step(t), Update(t)
    PROVE  Acts(t)
<1>h. PICK h : h = th[t].hdr
  OBVIOUS
<1>i. PICK i : i = th[t].i
  OBVIOUS
<1>k. PICK k : k = th[t].key
  OBVIOUS
<1>1. /\ At(t, "update") /\ h \in 1 .. Last /\ i \in Places(h)
      /\ Slot(h, i).key = TheKey(t)
      /\ SameTask(t) /\ th'[t].at = "exit"
      /\ th'[t].ret = (th[t].ret \/ th[t].external)
      /\ th'[t].valp = IF TheOp(t) = "find" THEN Slot(h, i).val ELSE TOMBSTONE
      /\ TheOp(t) = "find" => UNCHANGED tables
      /\ TheOp(t) # "find" => Valued(h, i, NewVal(t))
  BY <1>h, <1>i, UpdateKnown
<1>2. th[t].external = TRUE
  <2>1. th[t].external \in BOOLEAN
    BY Typed DEF Inv, Locals
  <2>2. ASSUME ~th[t].external PROVE FALSE
    BY <2>2, <1>1, InternalKnown DEF MoveOK, At
  <2> QED BY <2>1, <2>2
<1>3. TheKey(t) = k /\ TheOp(t) = th[t].op /\ TheVal(t) = th[t].val /\ h = Last
  <2>1. PlaceOK(t)
    BY DEF Calm, ThreadCalm
  <2> QED BY <2>1, <1>1, <1>2, <1>h, <1>k DEF PlaceOK, At, TheKey, TheOp, TheVal
<1>4. k \in Keys /\ k # NoKey /\ th[t].op \in {"add", "remove", "find"}
  BY <1>1, <1>k, BusyKnown, LfhtAssumption DEF At
<1>5. Asking(th[t])
  BY <1>1, AskingNow DEF At
<1>6. PendingOf(t) = [op |-> th[t].op, key |-> k, val |-> th[t].val]
  BY <1>5, <1>k, PendingKnown DEF PendingFound
<1>a. PICK a : a = IF th[t].op = "find" THEN Slot(h, i).val ELSE TRUE
  OBVIOUS
<1>7. th'[t].external = TRUE /\ th'[t].op = th[t].op /\ th'[t].ret = TRUE
  BY <1>1, <1>2 DEF SameTask
<1>8. PendingOf(t)' = [op |-> "answered", answer |-> a]
  <2>1. Told(th'[t])
    BY <1>1, <1>7 DEF Told
  <2>2. PendingOf(t)' = [op |-> "answered",
                         answer |-> IF th'[t].op = "find" THEN th'[t].valp ELSE th'[t].ret]
    BY <2>1, PendingKnownNext DEF PendingFound
  <2> QED BY <2>2, <1>1, <1>3, <1>7, <1>a
<1>9. PendingOps' = [PendingOps EXCEPT ![t] = [op |-> "answered", answer |-> a]]
  BY <1>8, OnePending
<1>10. /\ ValuesOf[k] = Slot(h, i).val
       /\ \A w : Valued(h, i, w) => Puts(k, w)
  <2>1. Slot(h, i).key = k /\ h = Last /\ i \in Places(h)
    BY <1>1, <1>3
  <2> QED BY <2>1, <1>2, <1>4, <1>7, ValuedHere
<1>11. CASE th[t].op = "find"
  <2>1. ValuesOf' = ValuesOf
    BY <1>1, <1>2, <1>3, <1>7, <1>11, StillHeld, StillValues DEF SameHeld
  <2>2. Effect(t, th[t].op, k, th[t].val, a)
    BY <2>1, <1>10, <1>11, <1>a DEF Effect
  <2> QED BY <2>2, <1>6, <1>9, EffectActs
<1>12. CASE th[t].op # "find"
  <2>1. ValuesOf' = [ValuesOf EXCEPT ![k] = NewVal(t)]
    BY <1>1, <1>3, <1>10, <1>12 DEF Puts
  <2>2. NewVal(t) = IF th[t].op = "remove" THEN TOMBSTONE ELSE th[t].val
    BY <1>3 DEF NewVal
  <2>3. Effect(t, th[t].op, k, th[t].val, a)
    BY <2>1, <2>2, <1>4, <1>12, <1>a DEF Effect
  <2> QED BY <2>3, <1>6, <1>9, EffectActs
<1> QED BY <1>11, <1>12

LEMMA StoreActs ==
    ASSUME Inv, Inv', Calm, NEW t \in Threads, Alone(t), Step(t), Store(t)
    PROVE  Silent \/ Acts(t)
<1>h. PICK h : h = th[t].hdr
  OBVIOUS
<1>i. PICK i : i = th[t].i
  OBVIOUS
<1>k. PICK k : k = TheKey(t)
  OBVIOUS
<1>w. PICK w : w = TheVal(t)
  OBVIOUS
<1>1. /\ At(t, "store") /\ h \in 1 .. Last /\ i \in Places(h)
      /\ Slot(h, i).key = k /\ k # NoKey
      /\ SameTask(t) /\ th'[t].at = "count"
      /\ th'[t].ret = (th[t].ret \/ th[t].external) /\ th'[t].valp = TOMBSTONE
      /\ Valued(h, i, w)
  BY <1>h, <1>i, <1>k, <1>w, StoreKnown
<1>2. th[t].external \in BOOLEAN /\ th[t].ret \in BOOLEAN
  BY Typed DEF Inv, Locals
<1>3. PlaceOK(t) /\ AnswerOK(t)
  BY DEF Calm, ThreadCalm
<1>4. h = Last /\ TheOp(t) = "add"
  BY <1>1, <1>3, <1>h DEF PlaceOK, AnswerOK, At
<1>5. k \in Keys
  BY <1>1, <1>k, BusyKnown DEF At
<1>6. Asking(th[t]) /\ ~th[t].ret
  BY <1>1, AskingNow DEF At
<1>7. SameFlight(t)
  BY <1>1 DEF SameTask, SameFlight
<1>8. CASE th[t].external = TRUE
  <2>1. k = th[t].key /\ w = th[t].val /\ th[t].op = "add"
    BY <1>4, <1>8, <1>k, <1>w DEF TheKey, TheVal, TheOp
  <2>2. PendingOf(t) = [op |-> "add", key |-> k, val |-> w]
    BY <2>1, <1>6, PendingKnown DEF PendingFound
  <2>3. th'[t].external = TRUE /\ th'[t].op = "add" /\ th'[t].ret = TRUE
    BY <2>1, <1>1, <1>8 DEF SameTask
  <2>4. PendingOf(t)' = [op |-> "answered", answer |-> TRUE]
    <3>1. Told(th'[t])
      BY <1>1, <2>3 DEF Told
    <3>2. PendingOf(t)' = [op |-> "answered",
                           answer |-> IF th'[t].op = "find" THEN th'[t].valp ELSE th'[t].ret]
      BY <3>1, PendingKnownNext DEF PendingFound
    <3> QED BY <3>2, <2>3
  <2>5. PendingOps' = [PendingOps EXCEPT ![t] = [op |-> "answered", answer |-> TRUE]]
    BY <2>4, OnePending
  <2>6. ValuesOf' = [ValuesOf EXCEPT ![k] = w]
    <3>1. Puts(k, w)
      BY <1>1, <1>4, <1>5, <1>8, <2>3, ValuedHere
    <3> QED BY <3>1 DEF Puts
  <2>7. Effect(t, "add", k, w, TRUE)
    BY <2>6 DEF Effect
  <2> QED BY <2>2, <2>5, <2>7, EffectActs
<1>9. CASE th[t].external = FALSE
  <2>1. k = th[t].mkey /\ th'[t].external = FALSE /\ th'[t].mkey = k /\ th'[t].mval = th[t].mval
    BY <1>1, <1>9, <1>k DEF TheKey, SameTask
  <2>2. InFlight(k) = {t} /\ InFlight(k)' = {t}
    BY <2>1, <1>9, FlightKnown
  <2>3. ValueOf(k)' = ValueOf(k)
    BY <2>1, <2>2, ValuesKnown, ValuesKnownNext DEF ValuesFound
  <2>4. \A x \in Keys \ {k} : ValueOf(x)' = ValueOf(x)
    BY <1>1, <1>4, <1>7, ValuedOthers
  <2>5. ValuesOf' = ValuesOf
    BY <2>3, <2>4 DEF ValuesOf
  <2>6. th'[t].ret = th[t].ret
    BY <1>1, <1>2, <1>9
  <2>7. SameCall(t)
    BY <1>1, <1>9, <2>1, <2>6, AskOn DEF SameTask
  <2>8. PendingOf(t)' = PendingOf(t)
    <3>1. Asking(th'[t])
      BY <1>1, <2>1 DEF Asking
    <3> QED BY <3>1, <1>6, <1>1, PendingKnown, PendingKnownNext DEF PendingFound, SameTask
  <2> QED BY <2>5, <2>8, SamePending DEF Silent
<1> QED BY <1>2, <1>8, <1>9

LEMMA ClaimSilent ==
    ASSUME Inv, Inv', Calm, NEW t \in Threads, Alone(t), Step(t), Claim(t)
    PROVE  Silent
<1>h. PICK h : h = th[t].hdr
  OBVIOUS
<1>i. PICK i : i = th[t].i
  OBVIOUS
<1>k. PICK k : k = TheKey(t)
  OBVIOUS
<1>s. PICK s : s = [EmptySlot EXCEPT !.key = k]
  OBVIOUS
<1>0. At(t, "probe") /\ Here(t).key = NoKey /\ GoTo(t, "store")
  BY DEF Claim
<1>1. Claimed(h, i, k, s)
  BY <1>h, <1>i, <1>k, <1>s, ClaimedTables
<1>2. /\ h \in 1 .. Last /\ i \in Places(h) /\ k \in Keys /\ k # NoKey
      /\ s.key = k /\ ~s.moved /\ s.val = TOMBSTONE /\ Last' = Last /\ i \notin Used(h)
      /\ \A q \in 1 .. Last : Used(q)' = IF q = h THEN Used(q) \cup {i} ELSE Used(q)
      /\ \A q \in 1 .. Last : \A j \in Places(q) :
            Slot(q, j)' = IF q = h /\ j = i THEN s ELSE Slot(q, j)
  BY <1>1 DEF Claimed
<1>3. /\ th'[t].at = "store" /\ th'[t].op = th[t].op /\ th'[t].key = th[t].key
      /\ th'[t].val = th[t].val /\ th'[t].ret = th[t].ret /\ th'[t].valp = th[t].valp
      /\ th'[t].mkey = th[t].mkey /\ th'[t].mval = th[t].mval
      /\ th'[t].external = th[t].external
  BY <1>0, GoToTh, PointsKnown DEF Inv
<1>4. h = Last
  <2>1. PlaceOK(t)
    BY DEF Calm, ThreadCalm
  <2> QED BY <2>1, <1>0, <1>h DEF PlaceOK, At
<1>5. \A j \in Used(h) : Slot(h, j).key # k
  BY <1>0, <1>4, <1>h, <1>k, NotThere
<1>6. ASSUME NEW m, NEW j, ~(m = h /\ j = i), NEW x
      PROVE  /\ Held(m, j, x)' <=> Held(m, j, x)
             /\ Held(m, j, x) => Slot(m, j)' = Slot(m, j)
  <2>1. CASE m \in 1 .. Last /\ j \in Used(m)
    <3>1. j \in Places(m) /\ j \in Used(m)'
      BY <2>1, <1>2 DEF Used, Places
    <3>2. Slot(m, j)' = Slot(m, j)
      BY <2>1, <3>1, <1>2, <1>6
    <3>3. Matches(Slot(m, j), x)' <=> Matches(Slot(m, j), x)
      BY <3>2 DEF Matches
    <3> QED BY <2>1, <3>1, <3>2, <3>3, <1>2 DEF Held
  <2>2. CASE ~(m \in 1 .. Last /\ j \in Used(m))
    <3>1. ~(m \in 1 .. Last' /\ j \in Used(m)')
      BY <2>2, <1>2, <1>6
    <3> QED BY <2>2, <3>1 DEF Held
  <2> QED BY <2>1, <2>2
<1>7. ~Held(h, i, k) /\ \A x : ~Held(h, i, x)
  BY <1>2 DEF Held
<1>8. Held(h, i, k)' /\ \A x : x # k => ~Held(h, i, x)'
  <2>1. Slot(h, i)' = s
    BY <1>2
  <2>2. i \in Used(h)' /\ h \in 1 .. Last'
    BY <1>2
  <2>3. \A x : Matches(Slot(h, i), x)' <=> x = k
    BY <2>1, <1>2 DEF Matches
  <2> QED BY <2>2, <2>3 DEF Held
<1>9. ASSUME NEW x \in Keys \ {k} PROVE ValueOf(x)' = ValueOf(x)
  <2>f. PICK F : F = InFlight(x)
    OBVIOUS
  <2>1. InFlight(x)' = F /\ (F = {} \/ (F = {t} /\ th'[t].mval = th[t].mval))
    BY <2>f, <1>3, FlightKnown
  <2>2. \A m, j : Held(m, j, x)' <=> Held(m, j, x)
    BY <1>6, <1>7, <1>8
  <2>3. \A m, j : Held(m, j, x) => Slot(m, j)'.val = Slot(m, j).val
    BY <1>6, <1>7
  <2> QED BY <2>f, <2>1, <2>2, <2>3, HeldOnceKnown, ValueSame
<1>10. ValueOf(k)' = ValueOf(k)
  <2>1. CASE ~th[t].external
    <3>1. k = th[t].mkey /\ ~th'[t].external /\ th'[t].mkey = k
      BY <2>1, <1>3, <1>k DEF TheKey
    <3>2. InFlight(k) = {t} /\ InFlight(k)' = {t}
      BY <2>1, <3>1, FlightKnown
    <3> QED BY <3>2, <1>3, ValuesKnown, ValuesKnownNext DEF ValuesFound
  <2>2. CASE th[t].external
    <3>1. k = th[t].key /\ th'[t].external
      BY <2>2, <1>3, <1>k DEF TheKey
    <3>2. \A j \in Used(h) : ~Matches(Slot(h, j), k)
      BY <1>5 DEF Matches
    <3>3. Nowhere(k) /\ ValueOf(k) = TOMBSTONE
      BY <2>2, <3>1, <3>2, <1>0, <1>4, NoValue
    <3>4. InFlight(k)' = {}
      BY <3>1, FlightKnown
    <3>5. Only(h, i, k)'
      <4>1. ASSUME NEW m, NEW j, Held(m, j, k)' PROVE m = h /\ j = i
        BY <4>1, <3>3, <1>6 DEF Nowhere
      <4> QED BY <4>1, <1>8 DEF Only
    <3>6. Slot(h, i)'.val = TOMBSTONE
      BY <1>2
    <3> QED BY <3>3, <3>4, <3>5, <3>6, ValuesKnownNext DEF ValuesFound
  <2> QED BY <2>1, <2>2
<1>11. ValuesOf' = ValuesOf
  BY <1>9, <1>10 DEF ValuesOf
<1>12. PendingOf(t)' = PendingOf(t)
  <2>1. Asking(th[t]) /\ ~th[t].ret
    BY <1>0, AskingNow DEF At
  <2>2. Asking(th'[t])
    BY <2>1, <1>3 DEF Asking
  <2> QED BY <2>1, <2>2, <1>3, PendingKnown, PendingKnownNext DEF PendingFound
<1> QED BY <1>11, <1>12, SamePending DEF Silent

LEMMA CallSame ==
    ASSUME NEW t \in Threads, SameCall(t)
    PROVE  PendingOf(t)' = PendingOf(t)
<1>1. PendingFound /\ PendingFound'
  BY PendingKnown, PendingKnownNext
<1>2. CASE Asking(th[t]) /\ Asking(th'[t])
  BY <1>1, <1>2 DEF PendingFound, SameCall
<1>3. CASE Told(th[t]) /\ Told(th'[t]) /\ th'[t].ret = th[t].ret /\ th'[t].valp = th[t].valp
  BY <1>1, <1>3 DEF PendingFound, SameCall
<1> QED BY <1>2, <1>3 DEF SameCall

\* A key that is marked leaves its place; its value is on its way, or it has none.
LEMMA MarkSilent ==
    ASSUME Inv, Inv', Calm, NEW t \in Threads, Alone(t), Step(t), Mark(t)
    PROVE  Silent
<1>o. PICK o : o = Last - 1
  OBVIOUS
<1>i. PICK i : i = th[t].mi
  OBVIOUS
<1>k. PICK k : k = th[t].mkey
  OBVIOUS
<1>e. PICK e : e = Slot(o, i)
  OBVIOUS
<1>s. PICK s : s = [e EXCEPT !.moved = TRUE]
  OBVIOUS
<1>0. At(t, "mark")
  BY DEF Mark
<1>1. /\ Migrating /\ th[t].from = o /\ o \in 1 .. Last /\ i \in Places(o) /\ e \in SlotType
      /\ th[t].external = TRUE /\ th[t].moved \in Nat /\ th[t].success \in BOOLEAN
  BY <1>0, <1>o, <1>i, <1>e, ScanKnown DEF Scanning
<1>2. e.val = th[t].mval /\ ~e.moved
  <2>1. Works(t)
    BY <1>1 DEF Calm, ThreadCalm
  <2> QED BY <2>1, <1>0, <1>o, <1>i, <1>e DEF Works, MoveOK
<1>3. k \in Keys /\ e.key = k /\ k # NoKey
  BY <1>0, <1>1, <1>i, <1>e, <1>k, LfhtAssumption DEF Inv, ThInv, TaxOK
<1>4. i \in Used(o)
  BY <1>1, <1>3, <1>e DEF Used, Places
<1>5. /\ Write(o, i, s)
      /\ th' = [th EXCEPT ![t] = IF th[t].mval = TOMBSTONE
                                 THEN NextSlot(t, th[t].moved, th[t].success)
                                 ELSE [th[t] EXCEPT !.at = "start", !.external = FALSE]]
  BY <1>1, <1>2, <1>i, <1>e, <1>s DEF Mark
<1>6. /\ Last' = Last
      /\ \A q \in 1 .. Last : Places(q)' = Places(q) /\ Used(q)' = Used(q)
      /\ \A q \in 1 .. Last : \A j \in Places(q) :
            Slot(q, j)' = IF q = o /\ j = i THEN s ELSE Slot(q, j)
  BY <1>1, <1>2, <1>4, <1>5, <1>o, <1>e, <1>s, MarkedTables
<1>7. s.moved = TRUE /\ s.key = e.key
  BY <1>1, <1>s DEF SlotType
<1>8. ASSUME NEW m, NEW j, NEW x, ~(m = o /\ j = i)
      PROVE  /\ Held(m, j, x)' <=> Held(m, j, x)
             /\ Held(m, j, x) => Slot(m, j)' = Slot(m, j)
  <2>1. CASE m \in 1 .. Last /\ j \in Used(m)
    <3>1. j \in Places(m) /\ j \in Used(m)'
      BY <2>1, <1>6 DEF Used, Places
    <3>2. Slot(m, j)' = Slot(m, j)
      BY <2>1, <3>1, <1>6, <1>8
    <3>3. Matches(Slot(m, j), x)' <=> Matches(Slot(m, j), x)
      BY <3>2 DEF Matches
    <3> QED BY <2>1, <3>1, <3>2, <3>3, <1>6 DEF Held
  <2>2. CASE ~(m \in 1 .. Last /\ j \in Used(m))
    <3>1. ~(m \in 1 .. Last' /\ j \in Used(m)')
      BY <2>2, <1>6
    <3> QED BY <2>2, <3>1 DEF Held
  <2> QED BY <2>1, <2>2
<1>9. Held(o, i, k) /\ \A x : x # k => ~Held(o, i, x)
  BY <1>1, <1>2, <1>3, <1>4, <1>e DEF Held, Matches
<1>10. \A x : ~Held(o, i, x)'
  <2>1. Slot(o, i)' = s
    BY <1>1, <1>6
  <2> QED BY <2>1, <1>7 DEF Held, Matches
<1>11. Nowhere(k)'
  <2>1. Only(o, i, k)
    BY <1>9, HeldOnceKnown DEF HeldOnce
  <2>2. ASSUME NEW m, NEW j PROVE ~Held(m, j, k)'
    BY <2>1, <1>8, <1>10 DEF Only
  <2> QED BY <2>2 DEF Nowhere
<1>12. ValueOf(k) = th[t].mval
  <2>1. Only(o, i, k)
    BY <1>9, HeldOnceKnown DEF HeldOnce
  <2>2. InFlight(k) = {}
    BY <1>1, FlightKnown
  <2> QED BY <2>1, <2>2, <1>2, <1>e, ValuesKnown DEF ValuesFound
<1>13. /\ th'[t].op = th[t].op /\ th'[t].key = th[t].key /\ th'[t].val = th[t].val
       /\ th'[t].ret = th[t].ret /\ th'[t].at \notin {"idle", "exit"}
       /\ \/ th[t].mval = TOMBSTONE /\ th'[t].external = TRUE
          \/ th'[t].external = FALSE /\ th'[t].mkey = k /\ th'[t].mval = th[t].mval
  <2>1. CASE th[t].mval = TOMBSTONE
    <3>1. th' = [th EXCEPT ![t] = NextSlot(t, th[t].moved, th[t].success)]
      BY <1>5, <2>1
    <3>2. Scanned(t, th[t].moved, th[t].success, th'[t])
      BY <1>0, <1>1, <3>1, NextSlotTh, AtSlot DEF Inv
    <3> QED BY <2>1, <3>2 DEF Scanned
  <2>2. CASE th[t].mval # TOMBSTONE
    <3>c. PICK c : c = [th[t] EXCEPT !.at = "start", !.external = FALSE]
      OBVIOUS
    <3>1. th[t] \in Locals
      BY Typed DEF Inv
    <3>2. /\ c.at = "start" /\ c.key = th[t].key /\ c.op = th[t].op /\ c.val = th[t].val
          /\ c.external = FALSE /\ c.ret = th[t].ret /\ c.mkey = k /\ c.mval = th[t].mval
      BY <3>c, <3>1, <1>k DEF Locals
    <3>3. th'[t] = c
      BY <1>5, <2>2, <3>c DEF Inv, ThType
    <3> QED BY <3>2, <3>3
  <2> QED BY <2>1, <2>2
<1>14. ValueOf(k)' = th[t].mval
  <2>1. CASE th[t].mval = TOMBSTONE /\ th'[t].external = TRUE
    <3>1. InFlight(k)' = {}
      BY <2>1, FlightKnown
    <3> QED BY <2>1, <3>1, <1>11, ValuesKnownNext DEF ValuesFound
  <2>2. CASE th'[t].external = FALSE /\ th'[t].mkey = k /\ th'[t].mval = th[t].mval
    <3>1. InFlight(k)' = {t}
      BY <2>2, FlightKnown
    <3> QED BY <2>2, <3>1, ValuesKnownNext DEF ValuesFound
  <2> QED BY <2>1, <2>2, <1>13
<1>15. ASSUME NEW x \in Keys \ {k} PROVE ValueOf(x)' = ValueOf(x)
  <2>1. InFlight(x) = {} /\ InFlight(x)' = {}
    BY <1>1, <1>13, FlightKnown
  <2>2. \A m, j : Held(m, j, x)' <=> Held(m, j, x)
    BY <1>8, <1>9, <1>10
  <2>3. \A m, j : Held(m, j, x) => Slot(m, j)'.val = Slot(m, j).val
    BY <1>8, <1>9
  <2> QED BY <2>1, <2>2, <2>3, HeldOnceKnown, ValueSame
<1>16. ValuesOf' = ValuesOf
  BY <1>12, <1>14, <1>15 DEF ValuesOf
<1>17. PendingOf(t)' = PendingOf(t)
  <2>1. th[t].at \in Taxed
    BY <1>0 DEF At, Taxed
  <2>2. SameCall(t)
    BY <2>1, <1>13, AskOn
  <2> QED BY <2>2, CallSame
<1> QED BY <1>16, <1>17, SamePending DEF Silent

\* A call returns; the add of a key that was moved leaves it in the new table.
LEMMA ExitActs ==
    ASSUME Inv, Inv', Calm, NEW t \in Threads, Alone(t), Step(t), Exit(t)
    PROVE  Silent \/ Acts(t)
<1>0. At(t, "exit") /\ UNCHANGED tables /\ th[t] \in Locals
  BY Typed DEF Exit, Inv
<1>1. SameHeld
  BY <1>0, StillHeld
<1>2. CASE th[t].external
  <2>0. th[t].external = TRUE
    BY <1>0, <1>2 DEF Locals
  <2>1. ~tables[th[t].hdr].assimilated
    <3>1. PlaceOK(t)
      BY DEF Calm, ThreadCalm
    <3>2. CASE th[t].hdr = Last
      BY <3>2 DEF Inv, Current
    <3>3. CASE th[t].hdr # Last
      BY <3>1, <3>3, <1>0, MigratingKnown DEF PlaceOK, At, Calm
    <3> QED BY <3>2, <3>3
  <2>2. th' = [th EXCEPT ![t] = Idle]
    BY <1>2, <2>1 DEF Exit
  <2>3. th'[t] = Idle
    BY <2>2 DEF Inv, ThType
  <2>4. th'[t].at = "idle" /\ th'[t].external = TRUE
    BY <2>3, PointsKnown
  <2>5. ValuesOf' = ValuesOf
    BY <1>1, <2>0, <2>4, StillValues DEF SameHeld
  <2>6. PendingOf(t)' = [op |-> "none"]
    BY <2>4, PendingKnownNext DEF PendingFound
  <2>7. PendingOps' = [PendingOps EXCEPT ![t] = [op |-> "none"]]
    BY <2>6, OnePending
  <2>8. Told(th[t])
    BY <1>0, <1>2 DEF Told, At
  <2>9. PendingOps[t].op = "answered"
    <3>1. PendingOf(t).op = "answered"
      BY <2>8, PendingKnown DEF PendingFound
    <3> QED BY <3>1 DEF PendingOps
  <2>10. Map!Return(t)
    BY <2>5, <2>7, <2>9 DEF Map!Return, Map!NoCall
  <2> QED BY <2>10 DEF Acts
<1>3. CASE ~th[t].external
  <2>k. PICK k : k = th[t].mkey
    OBVIOUS
  <2>l. PICK l : l = Last
    OBVIOUS
  <2>1. MoveOK(t) /\ th[t].external = FALSE
    BY <1>3, InternalKnown
  <2>2. PICK j \in Used(l) : Slot(l, j).key = k /\ Slot(l, j).val = th[t].mval
    BY <2>1, <2>k, <2>l, <1>0 DEF MoveOK, At
  <2>3. k \in Keys /\ k # NoKey /\ j \in Places(l)
    BY <1>3, <2>2, <2>k, LfhtAssumption DEF Inv, ThInv, TaxOK, Used, Places
  <2>4. Only(l, j, k)
    BY <2>2, <2>3, <2>l, HereHeld
  <2>5. Only(l, j, k)' /\ Slot(l, j)' = Slot(l, j)
    <3>1. Slot(l, j)' = Slot(l, j)
      BY <1>0 DEF Slot
    <3>2. Only(l, j, k)'
      BY <1>1, <2>4 DEF Only, SameHeld
    <3> QED BY <3>1, <3>2
  <2>n. PICK n : n = th[t].moved + 1
    OBVIOUS
  <2>6. n \in Nat /\ th[t].success \in BOOLEAN
    BY <1>0, <2>n DEF Locals
  <2>7. th' = [th EXCEPT ![t] = NextSlot(t, n, th[t].success)]
    BY <1>3, <2>n DEF Exit
  <2>8. Scanned(t, n, th[t].success, th'[t])
    BY <1>3, <2>6, <2>7, NextSlotTh, AtSlot DEF Inv
  <2>9. th'[t].external = TRUE /\ th'[t].at \notin {"idle", "exit"} /\ th'[t].op = th[t].op
        /\ th'[t].key = th[t].key /\ th'[t].val = th[t].val /\ th'[t].ret = th[t].ret
    BY <2>8 DEF Scanned
  <2>10. InFlight(k) = {t} /\ InFlight(k)' = {}
    BY <1>3, <2>9, <2>k, FlightKnown
  <2>11. ValueOf(k)' = ValueOf(k)
    <3>1. ValueOf(k) = th[t].mval
      BY <2>10, ValuesKnown DEF ValuesFound
    <3>2. ValueOf(k)' = Slot(l, j)'.val
      BY <2>5, <2>10, ValuesKnownNext DEF ValuesFound
    <3> QED BY <3>1, <3>2, <2>2, <2>5
  <2>12. ASSUME NEW x \in Keys \ {k} PROVE ValueOf(x)' = ValueOf(x)
    <3>1. InFlight(x) = {} /\ InFlight(x)' = {}
      BY <2>9, <2>k, FlightKnown
    <3> QED BY <1>1, <3>1, HeldOnceKnown, ValueSame DEF SameHeld
  <2>13. ValuesOf' = ValuesOf
    BY <2>11, <2>12 DEF ValuesOf
  <2>14. SameCall(t)
    BY <1>3, <2>9, AskOn
  <2> QED BY <2>13, <2>14, CallSame, SamePending DEF Silent
<1> QED BY <1>2, <1>3

LEMMA CallActs ==
    ASSUME Inv, Inv', Calm, NEW t \in Threads, Alone(t), Call(t)
    PROVE  Acts(t)
<1>0. At(t, "idle") /\ UNCHANGED tables
  BY Zenon DEF Call
<1>1. Asks(th'[t])
  BY CallTh DEF Inv
<1>c. PICK c : c = th'[t]
  OBVIOUS
<1>2. /\ c.at = "tax" /\ c.op \in {"add", "remove", "find"} /\ c.key \in Keys
      /\ c.val \in Values \cup {TOMBSTONE} /\ c.external = TRUE /\ c.ret = FALSE
  BY <1>1, <1>c DEF Asks
<1>3. th[t].external = TRUE
  BY <1>0, Typed DEF Inv, ThInv, CallOK, Locals
<1>4. ValuesOf' = ValuesOf
  BY <1>0, <1>2, <1>3, <1>c, StillHeld, StillValues DEF SameHeld
<1>5. PendingOf(t) = [op |-> "none"]
  BY <1>0, PendingKnown DEF PendingFound, At
<1>6. PendingOps[t] = [op |-> "none"]
  BY <1>5 DEF PendingOps
<1>7. Asking(th'[t])
  BY <1>2, <1>c DEF Asking
<1>8. PendingOf(t)' = [op |-> c.op, key |-> c.key, val |-> c.val]
  BY <1>7, <1>c, PendingKnownNext DEF PendingFound
<1>9. PICK o \in {"add", "remove", "find"}, k \in Keys, v \in Values \cup {TOMBSTONE} :
         PendingOf(t)' = [op |-> o, key |-> k, val |-> v]
  BY <1>2, <1>8
<1>10. PendingOps' = [PendingOps EXCEPT ![t] = [op |-> o, key |-> k, val |-> v]]
  BY <1>9, OnePending
<1>11. Map!Call(t)
  BY <1>4, <1>6, <1>10, Zenon DEF Map!Call, Map!NoCall
<1> QED BY <1>11 DEF Acts

LEMMA StepActs ==
    ASSUME Inv, Inv', Calm, NEW t \in Threads, Alone(t), Call(t) \/ Step(t)
    PROVE  Silent \/ Acts(t)
<1>1. CASE Call(t)
  BY <1>1, CallActs
<1>2. CASE Step(t)
  BY <1>2, GoSteps, FromSilent, ScanSilent, MarkSilent, FinishSilent, RecheckSilent,
     StartSilent, ProbeNextActs, ClaimSilent, AbsentActs, UpdateActs, StoreActs, CountSilent,
     ExitActs, GrowSilent, Zenon DEF Step
<1> QED BY <1>1, <1>2

\* The value of a key, with names for what is chosen.
SomeOf(F) == CHOOSE t \in F : TRUE
TopOf(H)  == CHOOSE p \in H : \A q \in H : q[1] <= p[1]

ValueNamed == \A k :
    ValueOf(k) = IF InFlight(k) # {} THEN th[SomeOf(InFlight(k))].mval
                 ELSE IF Holding(k) = {} THEN TOMBSTONE
                 ELSE Slot(TopOf(Holding(k))[1], TopOf(Holding(k))[2]).val

LEMMA ValuesNamed == ValueNamed
BY Zenon DEF ValueNamed, ValueOf, SomeOf, TopOf

LEMMA ValuesNamedNext == ValueNamed'
BY ValuesNamed, PTL

LEMMA SameValues ==
    ASSUME UNCHANGED tables,
           \A u \in Threads : /\ th'[u].external = th[u].external
                              /\ th'[u].mkey = th[u].mkey /\ th'[u].mval = th[u].mval
    PROVE  ValuesOf' = ValuesOf
<1>1. Last' = Last /\ (\A n, i : Slot(n, i)' = Slot(n, i)) /\ \A n : Used(n)' = Used(n)
  BY DEF Last, Slot, Used
<1>2. ASSUME NEW k \in Keys PROVE ValueOf(k)' = ValueOf(k)
  <2>F. PICK F : F = InFlight(k)
    OBVIOUS
  <2>H. PICK H : H = Holding(k)
    OBVIOUS
  <2>1. InFlight(k)' = F
    BY <2>F DEF InFlight
  <2>2. Holding(k)' = H
    BY <1>1, <2>H DEF Holding, Matches
  <2>3. ValueOf(k) = IF F # {} THEN th[SomeOf(F)].mval
                     ELSE IF H = {} THEN TOMBSTONE ELSE Slot(TopOf(H)[1], TopOf(H)[2]).val
    BY <2>F, <2>H, ValuesNamed DEF ValueNamed
  <2>4. ValueOf(k)' = IF F # {} THEN th'[SomeOf(F)].mval
                      ELSE IF H = {} THEN TOMBSTONE ELSE Slot(TopOf(H)[1], TopOf(H)[2])'.val
    BY <1>1, <2>1, <2>2, ValuesNamedNext DEF ValueNamed
  <2>5. F # {} => SomeOf(F) \in Threads
    <3>1. F # {} => SomeOf(F) \in F
      BY DEF SomeOf
    <3> QED BY <3>1, <2>F DEF InFlight
  <2> QED BY <2>3, <2>4, <2>5, <1>1
<1> QED BY <1>2 DEF ValuesOf

\* The thread whose assertion is about to fail changes nothing for the client.
LEMMA StuckSilent ==
    ASSUME Inv, FlagsOK, Lone, NEW t \in Threads, Call(t) \/ Step(t), Running, ~raced', Stuck
    PROVE  Silent
<1>1. ~raced /\ ~aborted
  BY Zenon DEF Running, FlagsOK
<1>2. PICK u \in Threads : At(u, "published")
  BY <1>1 DEF Stuck
<1>3. u = t
  BY <1>1, <1>2, PublishedKept
<1>4. ~Call(t)
  <2>1. th[t].at = "published"
    BY <1>2, <1>3 DEF At
  <2>2. ~(th[t].at = "idle")
    BY <2>1
  <2> QED BY <2>2, Zenon DEF Call, At
<1>5. Published(t)
  BY <1>2, <1>3, <1>4, StepBusy
<1>6. GoTo(t, "expanding") /\ UNCHANGED tables /\ th[t].at = "published"
  BY <1>5 DEF Published, At
<1>7. /\ th'[t].at = "expanding" /\ th'[t].op = th[t].op /\ th'[t].key = th[t].key
      /\ th'[t].val = th[t].val /\ th'[t].ret = th[t].ret /\ th'[t].valp = th[t].valp
      /\ th'[t].mkey = th[t].mkey /\ th'[t].mval = th[t].mval
      /\ th'[t].external = th[t].external
  BY <1>6, GoToTh, PointsKnown DEF Inv
<1>8. \A w \in Threads : /\ th'[w].external = th[w].external
                         /\ th'[w].mkey = th[w].mkey /\ th'[w].mval = th[w].mval
  BY <1>7, OthersStay
<1>9. ValuesOf' = ValuesOf
  BY <1>6, <1>8, SameValues
<1>10. PendingOf(t)' = PendingOf(t)
  <2>1. (Asking(th[t]) /\ Asking(th'[t])) \/ (Told(th[t]) /\ Told(th'[t]))
    BY <1>6, <1>7 DEF Asking, Told
  <2>2. SameCall(t)
    BY <2>1, <1>7 DEF SameCall
  <2> QED BY <2>2, CallSame
<1> QED BY <1>9, <1>10, SamePending DEF Silent

LEMMA InitIsMap ==
    ASSUME Init, Inv
    PROVE  Map!Init
<1>1. /\ Last = 1 /\ raced = FALSE /\ tables[1] = NewTable(InitialMax)
  BY DEF Init, Last
<1>2. \A t \in Threads : th[t].at = "idle" /\ th[t].external = TRUE
  BY PointsKnown DEF Init
<1>3. Used(1) = {}
  <2>1. EmptySlot.key = NoKey
    BY DEF EmptySlot
  <2>2. /\ NewTable(InitialMax).max = InitialMax
        /\ \A i \in 0 .. InitialMax - 1 : NewTable(InitialMax).slot[i] = EmptySlot
    BY NewTableKnown, LfhtAssumption
  <2>3. \A i \in 0 .. tables[1].max - 1 : Slot(1, i).key = NoKey
    BY <1>1, <2>1, <2>2 DEF Slot
  <2> QED BY <2>3 DEF Used
<1>4. ASSUME NEW k \in Keys PROVE ValueOf(k) = TOMBSTONE
  <2>1. InFlight(k) = {}
    BY <1>2 DEF InFlight
  <2>2. Nowhere(k)
    <3>1. ASSUME NEW m, NEW j, Held(m, j, k) PROVE FALSE
      <4>1. m \in 1 .. 1 /\ j \in Used(m)
        BY <3>1, <1>1 DEF Held
      <4>2. m = 1
        BY <4>1
      <4> QED BY <4>1, <4>2, <1>3
    <3> QED BY <3>1 DEF Nowhere
  <2> QED BY <2>1, <2>2, ValuesKnown DEF ValuesFound
<1>5. ValuesOf = [k \in Keys |-> TOMBSTONE]
  BY <1>4 DEF ValuesOf
<1>6. \A t \in Threads : PendingOf(t) = [op |-> "none"]
  BY <1>2, PendingKnown DEF PendingFound
<1>7. PendingOps = [t \in Threads |-> [op |-> "none"]]
  BY <1>6 DEF PendingOps
<1> QED BY <1>1, <1>5, <1>7 DEF Map!Init, Map!NoCall

LEMMA StepIsMap ==
    ASSUME Inv, Inv', FlagsOK, FlagsOK', CalmInv, [Next]_vars
    PROVE  Map!Next \/ UNCHANGED <<ValuesOf, PendingOps, raced>>
<1>1. CASE UNCHANGED vars
  <2>1. UNCHANGED <<tables, state, th, calls, aborted, raced>>
    BY <1>1 DEF vars
  <2>2. ValuesOf' = ValuesOf
    BY <2>1, SameValues
  <2>3. PendingOps' = PendingOps
    BY <2>1 DEF PendingOps, PendingOf
  <2> QED BY <2>1, <2>2, <2>3
<1>2. CASE Next /\ raced'
  BY <1>2 DEF Map!Next
<1>3. CASE Next /\ ~raced'
  <2>1. PICK t \in Threads : (Call(t) \/ Step(t)) /\ Running
    BY <1>3, Zenon DEF Next, Steps
  <2>2. ~raced
    BY <2>1, <1>3, Zenon DEF Running, FlagsOK
  <2>3. raced = FALSE /\ raced' = FALSE
    BY <2>2, <1>3 DEF FlagsOK
  <2>4. Lone
    BY DEF CalmInv
  <2>5. Silent \/ Acts(t)
    <3>1. CASE Stuck
      BY <3>1, <2>1, <2>4, <1>3, StuckSilent
    <3>2. CASE ~Stuck
      <4>1. Calm /\ Alone(t)
        BY <3>2, <2>1, <2>2, <2>4, <1>3, AloneKnown DEF CalmInv
      <4> QED BY <4>1, <2>1, StepActs
    <3> QED BY <3>1, <3>2
  <2>6. CASE Silent
    BY <2>3, <2>6 DEF Silent
  <2>7. CASE Acts(t)
    <3>1. Map!Kept
      BY <2>3, <2>7, Zenon DEF Acts, Map!Kept
    <3> QED BY <3>1 DEF Map!Next
  <2> QED BY <2>5, <2>6, <2>7
<1> QED BY <1>1, <1>2, <1>3

\* As long as operations do not overlap while keys are left to move, the chain of tables is
\* one map: each add, remove and find takes effect at one moment between its call and its
\* return, whatever tables are grown and whatever keys are moved meanwhile.
THEOREM ImplementsMap == Spec => IsMap
<1>1. Init /\ Inv => Map!Init
  BY InitIsMap
<1>2. (Inv /\ FlagsOK) /\ (Inv /\ FlagsOK)' /\ CalmInv /\ [Next]_vars
      => [Map!Next]_<<ValuesOf, PendingOps, raced>>
  BY StepIsMap
<1> QED BY <1>1, <1>2, InvAlways, CalmAlways, PTL DEF Spec, IsMap, Map!Spec, Map!vars
===========================================================================
