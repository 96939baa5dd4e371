-------------------------- MODULE PageTableProofs ---------------------------
(***************************************************************************)
(* The page tables are trees, for every table size, set of frames, kernel  *)
(* image and set of pages: one write changes the translation of the page   *)
(* being mapped and of no other.  From this follow what the runs check:    *)
(* the tables implement AddressSpace, the TLB never contradicts them, and  *)
(* the kernel image and the window stay mapped.                            *)
(*                                                                         *)
(* The tables are trees because every frame that is a table can be given   *)
(* one level and one number, `lev' and `pre', such that an entry that is   *)
(* present leads to the table its index says (Tree below).                 *)
(***************************************************************************)
EXTENDS PageTable, CommonFacts

-----------------------------------------------------------------------------
(***************************************************************************)
(* Page numbers and their indices.                                         *)
(***************************************************************************)
\* What the assumption says of the constants alone.
LEMMA Constants ==
  /\ Fan \in Nat \ {0} /\ Fan \in Nat /\ Fan >= 4
  /\ GiB \in Nat \ {0} /\ GiB = Fan * Fan /\ GiB >= Fan
  /\ Span4 \in Nat \ {0} /\ Span4 = GiB * Fan /\ Span4 >= GiB
  /\ BufferPages \in Nat /\ InitPage = BufferPages + 5 /\ InitPage \in Frames
  /\ Frames \subseteq Nat /\ Root \in Frames /\ LowL3 \in Frames
  /\ LowL2 \in Frames /\ 0 \in Frames
  /\ \A i \in 0 .. BufferPages : BufferStart + i \in Frames
<1>1. Fan \in Nat /\ Fan >= 4 /\ BufferPages \in Nat
  BY PageAssumption
<1>2. Fan * Fan \in Nat /\ Fan * Fan >= Fan
  BY <1>1
<1>3. GiB \in Nat \ {0} /\ GiB = Fan * Fan /\ GiB >= Fan
  BY <1>1, <1>2 DEF GiB
<1>4. Fan * GiB \in Nat /\ Fan * GiB >= GiB /\ Fan * GiB = GiB * Fan
  BY <1>1, <1>3
<1>5. InitPage = BufferPages + 5 /\ 0 .. InitPage \subseteq Frames
  BY <1>1, PageAssumption DEF InitPage, BufferStart
<1>6. \A i \in 0 .. BufferPages + 5 : i \in Frames
  BY <1>5
<1>7. Frames \subseteq Nat
  BY <1>3, <1>4, PageAssumption DEF Span4
<1> QED
  BY <1>1, <1>3, <1>4, <1>5, <1>6, <1>7
     DEF Span4, Root, LowL3, LowL2, BufferStart

\* Dividing twice is dividing by the product: the 9-bit fields of an address
\* lie behind one another.
LEMMA DivDiv ==
  ASSUME NEW P \in Nat \ {0}, NEW Q \in Nat \ {0}, NEW a \in Nat
  PROVE  (a \div P) \div Q = a \div (P * Q)
<1> DEFINE p == a \div P
           q == p \div Q
<1>1. p \in Nat /\ p * P \in Nat /\ p * P <= a /\ a < p * P + P
  BY DivFacts
<1> HIDE DEF p
<1>2. q \in Nat /\ q * Q \in Nat /\ q * Q <= p /\ p < q * Q + Q
  BY <1>1, DivFacts
<1> HIDE DEF q
<1>3. P * Q \in Nat \ {0}
  OBVIOUS
<1>4. q * (P * Q) = (q * Q) * P /\ (q + 1) * (P * Q) = (q * Q + Q) * P
  BY <1>2
<1>5. (q * Q) * P <= p * P /\ p * P + P <= (q * Q + Q) * P
  BY <1>1, <1>2, MultiplesApart
<1>6. /\ (q * Q) * P \in Nat /\ (q * Q + Q) * P \in Nat
      /\ (q * Q) * P <= a /\ a < (q * Q + Q) * P
  BY <1>1, <1>2, <1>5
<1>7. q <= a \div (P * Q)
  BY <1>2, <1>3, <1>4, <1>6, QuotientAtLeast
<1>8. ~(q + 1 <= a \div (P * Q))
  BY <1>2, <1>3, <1>4, <1>6, QuotientAtLeast, SMTT(60)
<1>9. a \div (P * Q) \in Nat
  BY <1>3, DivFacts
<1> QED
  BY <1>2, <1>7, <1>8, <1>9 DEF p, q

\* The numbers of a page's tables, each a quotient of the one before.
LEMMA TableNumbers ==
  ASSUME NEW v \in Nat
  PROVE  /\ Table1(v) \in Nat /\ Table2(v) \in Nat /\ Table3(v) \in Nat
         /\ Table2(v) = Table1(v) \div Fan /\ Table3(v) = Table2(v) \div Fan
<1>1. Fan \in Nat \ {0} /\ GiB \in Nat \ {0} /\ Span4 \in Nat \ {0}
  BY Constants
<1>2. Table1(v) \in Nat /\ Table2(v) \in Nat /\ Table3(v) \in Nat
  BY <1>1, DivFacts DEF Table1, Table2, Table3
<1>3. Table2(v) = Table1(v) \div Fan
  BY <1>1, DivDiv, Constants DEF Table1, Table2
<1>4. Table3(v) = Table2(v) \div Fan
  BY <1>1, DivDiv, Constants DEF Table2, Table3
<1> QED
  BY <1>2, <1>3, <1>4

\* The number of the level n table of a page; there is one of level 4.
Number(v, n) ==
  CASE n = 1 -> Table1(v) [] n = 2 -> Table2(v) [] n = 3 -> Table3(v)
    [] n = 4 -> 0

\* A page number the indices of four levels determine (48-bit addresses).
Canonical(v) == v \in Nat /\ Table3(v) < Fan

\* A table's number and an index give the number of the table below.
LEMMA Indexing ==
  ASSUME NEW v, Canonical(v)
  PROVE  /\ \A n \in 1 .. 4 : Number(v, n) \in Nat /\ Level(v, n) \in Indices
         /\ \A n \in 2 .. 4 :
              Number(v, n - 1) = Number(v, n) * Fan + Level(v, n)
         /\ v = Number(v, 1) * Fan + Level(v, 1)
<1>1. Fan \in Nat \ {0} /\ v \in Nat /\ Table3(v) < Fan
  BY Constants DEF Canonical
<1>2. /\ Table1(v) \in Nat /\ Table2(v) \in Nat /\ Table3(v) \in Nat
      /\ Table2(v) = Table1(v) \div Fan /\ Table3(v) = Table2(v) \div Fan
  BY <1>1, TableNumbers
<1>3. /\ v % Fan \in Nat /\ Table1(v) % Fan \in Nat /\ Table2(v) % Fan \in Nat
      /\ Table3(v) % Fan = Table3(v)
  BY <1>1, <1>2
<1>4. /\ Level(v, 1) = v % Fan /\ Level(v, 2) = Table1(v) % Fan
      /\ Level(v, 3) = Table2(v) % Fan /\ Level(v, 4) = Table3(v)
  BY <1>3 DEF Level
<1>5. /\ Number(v, 1) = Table1(v) /\ Number(v, 2) = Table2(v)
      /\ Number(v, 3) = Table3(v) /\ Number(v, 4) = 0
  BY DEF Number
<1>6. Level(v, 1) \in 0 .. Fan - 1 /\ v = Number(v, 1) * Fan + Level(v, 1)
  BY <1>1, <1>2, <1>3, <1>4, <1>5, DivModFacts, SMTT(60) DEF Table1
<1>7. /\ Level(v, 2) \in 0 .. Fan - 1
      /\ Number(v, 1) = Number(v, 2) * Fan + Level(v, 2)
  <2>1. /\ Number(v, 1) \in Nat /\ Number(v, 2) \in Nat
        /\ Level(v, 2) \in Nat
    BY <1>2, <1>3, <1>4, <1>5
  <2>2. /\ Number(v, 2) = Number(v, 1) \div Fan
        /\ Level(v, 2) = Number(v, 1) % Fan
    BY <1>2, <1>4, <1>5, Zenon
  <2> QED
    BY <1>1, <2>1, <2>2, DivModFacts, SMTT(60)
<1>8. /\ Level(v, 3) \in 0 .. Fan - 1
      /\ Number(v, 2) = Number(v, 3) * Fan + Level(v, 3)
  <2>1. /\ Number(v, 2) \in Nat /\ Number(v, 3) \in Nat
        /\ Level(v, 3) \in Nat
    BY <1>2, <1>3, <1>4, <1>5
  <2>2. /\ Number(v, 3) = Number(v, 2) \div Fan
        /\ Level(v, 3) = Number(v, 2) % Fan
    BY <1>2, <1>4, <1>5, Zenon
  <2> QED
    BY <1>1, <2>1, <2>2, DivModFacts, SMTT(60)
<1>9. /\ Level(v, 4) \in 0 .. Fan - 1
      /\ Number(v, 3) = Number(v, 4) * Fan + Level(v, 4)
  BY <1>1, <1>2, <1>4, <1>5
<1>10. \A n \in 1 .. 4 : n = 1 \/ n = 2 \/ n = 3 \/ n = 4
  OBVIOUS
<1>11. \A n \in 1 .. 4 : Number(v, n) \in Nat /\ Level(v, n) \in Indices
  BY <1>2, <1>5, <1>6, <1>7, <1>8, <1>9, <1>10 DEF Indices
<1>12. \A n \in 2 .. 4 : Number(v, n - 1) = Number(v, n) * Fan + Level(v, n)
  <2> TAKE n \in 2 .. 4
  <2>1. n = 2 \/ n = 3 \/ n = 4
    OBVIOUS
  <2> QED
    BY <2>1, <1>7, <1>8, <1>9
<1> QED
  BY <1>6, <1>11, <1>12

\* Pages that share every index are one page.
LEMMA OnePage ==
  ASSUME NEW u, Canonical(u), NEW v, Canonical(v),
         Number(u, 1) = Number(v, 1), Level(u, 1) = Level(v, 1)
  PROVE  u = v
BY Indexing

\* A page that lies below page `a' of level-4 entry `q'.
LEMMA InEntry4 ==
  ASSUME NEW q \in Nat, q < 4, NEW a \in Nat, a < Span4,
         NEW v, v = q * Span4 + a
  PROVE  /\ v \in Nat /\ Table3(v) = q /\ Canonical(v)
         /\ Table2(v) = q * Fan + Table2(a)
         /\ Table1(v) = q * GiB + Table1(a)
         /\ v % GiB = a % GiB /\ v % Fan = a % Fan
<1>1. /\ Fan \in Nat \ {0} /\ Fan >= 4 /\ GiB \in Nat \ {0} /\ Span4 \in Nat \ {0}
      /\ Span4 = GiB * Fan /\ GiB = Fan * Fan
  BY Constants
<1>2. /\ q * Fan \in Nat /\ q * GiB \in Nat /\ q * Span4 \in Nat
      /\ q * Span4 = (q * Fan) * GiB /\ q * Span4 = (q * GiB) * Fan
  BY <1>1
<1>3. v \in Nat
  BY <1>2
<1>4. v \div Span4 = q + a \div Span4
  <2>1. Composed(v, q, Span4, a)
    BY DEF Composed
  <2> QED
    BY <1>1, <2>1, DivAdd
<1>5. a \div Span4 = 0
  <2>1. a \div Span4 \in Nat
    BY <1>1, DivFacts
  <2>2. ~(1 <= a \div Span4)
    BY <1>1, QuotientAtLeast
  <2> QED
    BY <2>1, <2>2
<1>6. Table3(v) = q
  BY <1>4, <1>5 DEF Table3
<1>7. Table2(v) = q * Fan + Table2(a) /\ v % GiB = a % GiB
  <2>1. Composed(v, q * Fan, GiB, a)
    BY <1>2 DEF Composed
  <2> QED
    BY <1>1, <1>2, <2>1, DivAdd DEF Table2
<1>8. Table1(v) = q * GiB + Table1(a) /\ v % Fan = a % Fan
  <2>1. Composed(v, q * GiB, Fan, a)
    BY <1>2 DEF Composed
  <2>2. q * GiB \in Nat /\ Fan \in Nat \ {0}
    BY <1>1, <1>2
  <2>3. /\ v \div Fan = q * GiB + a \div Fan
        /\ v % Fan = a % Fan
    BY <2>1, <2>2, DivAdd, SMTT(60)
  <2> QED
    BY <2>3 DEF Table1
<1> QED
  BY <1>1, <1>3, <1>6, <1>7, <1>8 DEF Canonical

\* The pages of the kernel image, of a processes' memory and heap, of the
\* identity mapping and of the window lie in level-4 entries of their own.
LEMMA PageRegions ==
  /\ \A v \in MapPages : Canonical(v) /\ Table3(v) = 2
  /\ \A v \in LowPages : Canonical(v) /\ Table3(v) = 0 /\ Table2(v) = 0
  /\ \A v \in KernelPages :
       /\ Canonical(v) /\ Table3(v) = 1
       /\ v - KernelStart \in Nat /\ v - KernelStart < Span4
  /\ \A f \in Frames : Canonical(mapPages(f)) /\ Table3(mapPages(f)) = 3
<1>1. Fan \in Nat /\ Fan >= 4 /\ Span4 \in Nat /\ Span4 >= 1
  BY Constants
<1>2. ASSUME NEW v \in MapPages PROVE Canonical(v) /\ Table3(v) = 2
  BY <1>1, PageAssumption DEF Canonical
<1>3. ASSUME NEW v \in LowPages
      PROVE  Canonical(v) /\ Table3(v) = 0 /\ Table2(v) = 0
  <2>1. v \in Nat /\ Table2(v) = 0
    BY PageAssumption
  <2>2. Table3(v) = 0 \div Fan
    BY <2>1, TableNumbers
  <2>3. 0 \div Fan = 0
    BY <1>1
  <2> QED
    BY <1>1, <2>1, <2>2, <2>3 DEF Canonical
<1>4. ASSUME NEW v \in KernelPages
      PROVE  /\ Canonical(v) /\ Table3(v) = 1
             /\ v - KernelStart \in Nat /\ v - KernelStart < Span4
  <2> DEFINE m == Max(KernelSizes)
             a == v - KernelStart
  <2>1. m \in Nat /\ m <= Span4
    <3>1. KernelSizes \subseteq 0 .. Span4 /\ KernelSizes # {}
      BY PageAssumption
    <3>2. Span4 \in Nat
      BY <1>1
    <3>3. Max(KernelSizes) \in KernelSizes
      BY <3>1, <3>2, MaxFacts, Zenon
    <3>4. Max(KernelSizes) \in 0 .. Span4
      BY <3>1, <3>3, Zenon
    <3> QED
      BY <3>2, <3>4
  <2>2. v \in KernelStart .. KernelStart + m - 1
    BY DEF KernelPages
  <2> HIDE DEF m
  <2>3. a \in Nat /\ a < Span4 /\ v = 1 * Span4 + a
    BY <1>1, <2>1, <2>2 DEF KernelStart
  <2>4. Canonical(v) /\ Table3(v) = 1
    BY <2>3, InEntry4
  <2> QED
    BY <2>3, <2>4
<1>5. ASSUME NEW f \in Frames
      PROVE  Canonical(mapPages(f)) /\ Table3(mapPages(f)) = 3
  <2>1. f \in Nat /\ f < Span4
    BY <1>1, PageAssumption
  <2>2. mapPages(f) = 3 * Span4 + f
    BY DEF mapPages, WindowStart
  <2> QED
    BY <2>1, <2>2, InEntry4
<1> QED
  BY <1>2, <1>3, <1>4, <1>5

-----------------------------------------------------------------------------
(***************************************************************************)
(* The tables of a memory m.  Translate is Walk, and LastTable says where  *)
(* a walk ends.                                                            *)
(***************************************************************************)
Memory == [Frames -> [Indices -> Entry]]

\* An entry that leads to a table.
Leads(e) == e.present /\ ~e.big

Entry4(m, v) == m[Root][Level(v, 4)]
Entry3(m, v) == m[Entry4(m, v).frame][Level(v, 3)]
Entry2(m, v) == m[Entry3(m, v).frame][Level(v, 2)]
Entry1(m, v) == m[Entry2(m, v).frame][Level(v, 1)]

\* What an entry of level n makes of page v when the walk ends there.
Value(e, v, n) ==
  IF ~e.present THEN Unmapped
  ELSE IF n = 1 THEN e.frame
  ELSE IF n = 2 THEN e.frame + (v % Fan) ELSE e.frame + (v % GiB)

Translate(m, v) ==
  IF ~Entry4(m, v).present THEN Unmapped
  ELSE IF ~Entry3(m, v).present \/ Entry3(m, v).big
       THEN Value(Entry3(m, v), v, 3)
  ELSE IF ~Entry2(m, v).present \/ Entry2(m, v).big
       THEN Value(Entry2(m, v), v, 2)
  ELSE Value(Entry1(m, v), v, 1)

\* t is the table of level n that page v is translated with.
Reaches(m, v, n, t) ==
  \/ n = 4 /\ t = Root
  \/ n = 3 /\ Leads(Entry4(m, v)) /\ t = Entry4(m, v).frame
  \/ /\ n = 2 /\ Leads(Entry4(m, v)) /\ Leads(Entry3(m, v))
     /\ t = Entry3(m, v).frame
  \/ /\ n = 1 /\ Leads(Entry4(m, v)) /\ Leads(Entry3(m, v))
     /\ Leads(Entry2(m, v)) /\ t = Entry2(m, v).frame

\* t is the last table page v is translated with.
EndsAt(m, v, n, t) ==
  Reaches(m, v, n, t) /\ (n = 1 \/ ~Leads(m[t][Level(v, n)]))

\* The walk of page v goes from table t of level n to table w.
LeadsTo(m, v, n, t, w) ==
  /\ Reaches(m, v, n, t) /\ Leads(m[t][Level(v, n)])
  /\ w = m[t][Level(v, n)].frame

\* lev[t] is the level of table t, 0 for a frame that is no table, and pre[t]
\* its number, in the sense of Number.
Labels(lev, pre) ==
  /\ lev \in [Frames -> 0 .. 4] /\ pre \in [Frames -> Nat]
  /\ lev[Root] = 4 /\ pre[Root] = 0

\* Entry e at index i of a table of level n and number p: it leads to the table
\* below it, and the big pages are those of the window and of main.asm.
EntrySound(e, n, p, i, lev, pre) ==
  /\ n \in 2 .. 4 /\ Leads(e) =>
       /\ e.frame \in Frames /\ lev[e.frame] = n - 1
       /\ pre[e.frame] = p * Fan + i
  /\ n = 4 => ~e.big
  /\ n = 3 /\ e.big => p = 3 /\ e.present
  /\ n = 2 /\ e.big => p = 0

Tree(m, lev, pre) ==
  /\ Labels(lev, pre)
  /\ \A t \in Frames : \A i \in Indices :
       EntrySound(m[t][i], lev[t], pre[t], i, lev, pre)

-----------------------------------------------------------------------------
\* The levels.
LEMMA Levels == \A n \in 1 .. 4 : n = 1 \/ n = 2 \/ n = 3 \/ n = 4
OBVIOUS

\* The walk goes down one table at a time.
LEMMA Below ==
  ASSUME NEW m, NEW v, NEW n \in 2 .. 4, NEW t, Reaches(m, v, n, t),
         Leads(m[t][Level(v, n)])
  PROVE  Reaches(m, v, n - 1, m[t][Level(v, n)].frame)
<1>1. CASE n = 4
  BY <1>1 DEF Reaches, Entry4
<1>2. CASE n = 3
  BY <1>2 DEF Reaches, Entry3
<1>3. CASE n = 2
  BY <1>3 DEF Reaches, Entry2
<1> QED
  BY <1>1, <1>2, <1>3

\* Every table but the first was found in the one above it.
LEMMA Above ==
  ASSUME NEW m, NEW v, NEW n \in 1 .. 3, NEW w, Reaches(m, v, n, w)
  PROVE  \E t : LeadsTo(m, v, n + 1, t, w)
<1>1. CASE n = 3
  <2>1. LeadsTo(m, v, 4, Root, w)
    BY <1>1 DEF LeadsTo, Reaches, Entry4
  <2> QED
    BY <1>1, <2>1
<1>2. CASE n = 2
  <2> DEFINE t == Entry4(m, v).frame
  <2>1. LeadsTo(m, v, 3, t, w)
    BY <1>2 DEF LeadsTo, Reaches, Entry3
  <2> QED
    BY <1>2, <2>1
<1>3. CASE n = 1
  <2> DEFINE t == Entry3(m, v).frame
  <2>1. LeadsTo(m, v, 2, t, w)
    BY <1>3 DEF LeadsTo, Reaches, Entry2
  <2> QED
    BY <1>3, <2>1
<1> QED
  BY <1>1, <1>2, <1>3

\* In a tree the table reached has the level and the number of the page's own.
LEMMA ReachesLabel ==
  ASSUME NEW m \in Memory, NEW lev, NEW pre, Tree(m, lev, pre),
         NEW v, Canonical(v), NEW n \in 1 .. 4, NEW t, Reaches(m, v, n, t)
  PROVE  t \in Frames /\ lev[t] = n /\ pre[t] = Number(v, n)
<1> DEFINE Right(k, u) == u \in Frames /\ lev[u] = k /\ pre[u] = Number(v, k)
<1>1. ASSUME NEW u, Reaches(m, v, 4, u) PROVE Right(4, u)
  BY <1>1, Constants DEF Reaches, Tree, Labels, Number
<1>2. ASSUME NEW k \in 2 .. 4, NEW u, Right(k, u), Leads(m[u][Level(v, k)])
      PROVE  Right(k - 1, m[u][Level(v, k)].frame)
  <2>1. Level(v, k) \in Indices /\ Number(v, k - 1) = Number(v, k) * Fan + Level(v, k)
    BY Indexing
  <2>2. EntrySound(m[u][Level(v, k)], k, Number(v, k), Level(v, k), lev, pre)
    BY <1>2, <2>1 DEF Tree
  <2> QED
    BY <1>2, <2>1, <2>2 DEF EntrySound
<1>3. ASSUME NEW k \in 1 .. 3, \A u : Reaches(m, v, k + 1, u) => Right(k + 1, u),
             NEW w, Reaches(m, v, k, w)
      PROVE  Right(k, w)
  <2>1. PICK u : LeadsTo(m, v, k + 1, u, w)
    <3>1. Reaches(m, v, k, w)
      BY <1>3
    <3> QED
      BY <3>1, Above
  <2>2. Right(k + 1, u)
    BY <1>3, <2>1 DEF LeadsTo
  <2>3. k + 1 \in 2 .. 4 /\ k + 1 - 1 = k
    OBVIOUS
  <2> HIDE DEF Right
  <2>4. Right(k + 1 - 1, w)
    BY <1>2, <2>1, <2>2, <2>3 DEF LeadsTo
  <2> QED
    BY <2>3, <2>4
<1> HIDE DEF Right
<1>4. \A u : Reaches(m, v, 3, u) => Right(3, u)
  <2>1. \A u : Reaches(m, v, 3 + 1, u) => Right(3 + 1, u)
    BY <1>1
  <2> QED
    BY <2>1, <1>3
<1>5. \A u : Reaches(m, v, 2, u) => Right(2, u)
  <2>1. \A u : Reaches(m, v, 2 + 1, u) => Right(2 + 1, u)
    BY <1>4
  <2> QED
    BY <2>1, <1>3
<1>6. \A u : Reaches(m, v, 1, u) => Right(1, u)
  <2>1. \A u : Reaches(m, v, 1 + 1, u) => Right(1 + 1, u)
    BY <1>5
  <2> QED
    BY <2>1, <1>3
<1>7. Right(n, t)
  BY <1>1, <1>4, <1>5, <1>6, Levels
<1> QED
  BY <1>7 DEF Right

\* A walk ends somewhere.
LEMMA LastTable ==
  ASSUME NEW m, NEW v
  PROVE  \E n \in 1 .. 4 : \E t : EndsAt(m, v, n, t)
<1>1. CASE ~Leads(Entry4(m, v))
  <2>1. EndsAt(m, v, 4, Root)
    BY <1>1 DEF EndsAt, Reaches, Entry4
  <2> QED
    BY <2>1
<1>2. CASE Leads(Entry4(m, v)) /\ ~Leads(Entry3(m, v))
  <2>1. EndsAt(m, v, 3, Entry4(m, v).frame)
    BY <1>2 DEF EndsAt, Reaches, Entry3
  <2> QED
    BY <2>1
<1>3. CASE Leads(Entry4(m, v)) /\ Leads(Entry3(m, v)) /\ ~Leads(Entry2(m, v))
  <2>1. EndsAt(m, v, 2, Entry3(m, v).frame)
    BY <1>3 DEF EndsAt, Reaches, Entry2
  <2> QED
    BY <2>1
<1>4. CASE Leads(Entry4(m, v)) /\ Leads(Entry3(m, v)) /\ Leads(Entry2(m, v))
  <2>1. EndsAt(m, v, 1, Entry2(m, v).frame)
    BY <1>4 DEF EndsAt, Reaches
  <2> QED
    BY <2>1
<1> QED
  BY <1>1, <1>2, <1>3, <1>4

\* What the page is translated to is what the entry says in which its walk ends.
LEMMA EndValue ==
  ASSUME NEW m \in Memory, NEW lev, NEW pre, Tree(m, lev, pre),
         NEW v, Canonical(v), NEW n \in 1 .. 4, NEW t, EndsAt(m, v, n, t)
  PROVE  Translate(m, v) = Value(m[t][Level(v, n)], v, n)
<1>1. ~Entry4(m, v).big
  <2>1. Root \in Frames /\ Level(v, 4) \in Indices
    BY Constants, Indexing
  <2>2. EntrySound(Entry4(m, v), 4, pre[Root], Level(v, 4), lev, pre)
    BY <2>1 DEF Tree, Labels, Entry4
  <2> QED
    BY <2>2 DEF EntrySound
<1>2. CASE n = 4
  BY <1>1, <1>2 DEF EndsAt, Reaches, Leads, Translate, Value, Entry4
<1>3. CASE n = 3
  BY <1>3 DEF EndsAt, Reaches, Leads, Translate, Entry3
<1>4. CASE n = 2
  BY <1>4 DEF EndsAt, Reaches, Leads, Translate, Entry2
<1>5. CASE n = 1
  BY <1>5 DEF EndsAt, Reaches, Leads, Translate, Entry1
<1> QED
  BY <1>2, <1>3, <1>4, <1>5, Levels

\* Translate is Walk, before and after a step.
LEMMA WalkIs ==
  ASSUME NEW v
  PROVE  Walk(v) = Translate(mem, v) /\ Walk(v)' = Translate(mem', v)
<1> DEFINE Is(m) ==
      LET e4 == m[Root][Level(v, 4)]
          e3 == m[e4.frame][Level(v, 3)]
          e2 == m[e3.frame][Level(v, 2)]
          e1 == m[e2.frame][Level(v, 1)]
      IN  CASE ~e4.present -> Unmapped
            [] e4.present /\ ~e3.present -> Unmapped
            [] e4.present /\ e3.present /\ e3.big -> e3.frame + (v % GiB)
            [] OTHER -> CASE ~e2.present -> Unmapped
                          [] e2.present /\ e2.big -> e2.frame + (v % Fan)
                          [] OTHER -> IF e1.present THEN e1.frame ELSE Unmapped
<1>1. Walk(v) = Is(mem) /\ Walk(v)' = Is(mem')
  BY ZenonT(60) DEF Walk, At
<1>2. ASSUME NEW m PROVE Is(m) = Translate(m, v)
  <2>1. /\ m[Root][Level(v, 4)] = Entry4(m, v)
        /\ m[Entry4(m, v).frame][Level(v, 3)] = Entry3(m, v)
        /\ m[Entry3(m, v).frame][Level(v, 2)] = Entry2(m, v)
        /\ m[Entry2(m, v).frame][Level(v, 1)] = Entry1(m, v)
    BY DEF Entry4, Entry3, Entry2, Entry1
  <2>2. CASE ~Entry4(m, v).present
    BY <2>1, <2>2 DEF Translate
  <2>3. CASE Entry4(m, v).present /\ (~Entry3(m, v).present \/ Entry3(m, v).big)
    BY <2>1, <2>3 DEF Translate, Value
  <2>4. CASE /\ Entry4(m, v).present
             /\ ~(~Entry3(m, v).present \/ Entry3(m, v).big)
    BY <2>1, <2>4 DEF Translate, Value
  <2> QED
    BY <2>2, <2>3, <2>4
<1> HIDE DEF Is
<1> QED
  BY <1>1, <1>2

-----------------------------------------------------------------------------
(***************************************************************************)
(* A write into one table.                                                 *)
(***************************************************************************)
\* m2 is m but for entry i of table t and frames that are no tables in m.
Agree(m, m2, lev, t, i) ==
  \A u \in Frames : \A j \in Indices :
    lev[u] # 0 /\ ~(u = t /\ j = i) => m2[u][j] = m[u][j]

\* Entry i of table t is not the one page v is translated with at level n.
Off(lev, pre, t, i, v, n) ==
  ~(lev[t] = n /\ pre[t] = Number(v, n) /\ i = Level(v, n))

\* Two pages that use the same entry lie in the same level-4 entry; at level 2
\* they are in one table of level 1, and at level 1 they are the same page.
LEMMA SharedSlot ==
  ASSUME NEW u, Canonical(u), NEW v, Canonical(v), NEW n \in 1 .. 4,
         Number(u, n) = Number(v, n), Level(u, n) = Level(v, n)
  PROVE  /\ Table3(u) = Table3(v)
         /\ n = 2 => Table1(u) = Table1(v)
         /\ n = 1 => u = v
<1>1. /\ Number(u, 1) = Table1(u) /\ Number(u, 2) = Table2(u)
      /\ Number(u, 3) = Table3(u) /\ Number(v, 1) = Table1(v)
      /\ Number(v, 2) = Table2(v) /\ Number(v, 3) = Table3(v)
  BY DEF Number
<1>2. /\ Table2(u) = Table1(u) \div Fan /\ Table3(u) = Table2(u) \div Fan
      /\ Table2(v) = Table1(v) \div Fan /\ Table3(v) = Table2(v) \div Fan
  BY TableNumbers DEF Canonical
<1>3. n \in 2 .. 4 => Number(u, n - 1) = Number(v, n - 1)
  BY Indexing
<1>4. CASE n = 4
  <2>1. Number(u, 3) = Number(v, 3)
    BY <1>3, <1>4
  <2> QED
    BY <1>1, <1>4, <2>1
<1>5. CASE n = 3
  BY <1>1, <1>5
<1>6. CASE n = 2
  <2>1. Number(u, 1) = Number(v, 1) /\ Number(u, 2) = Number(v, 2)
    BY <1>3, <1>6
  <2>2. Table1(u) = Table1(v) /\ Table3(u) = Table3(v)
    BY <1>1, <1>2, <2>1, Zenon
  <2> QED
    BY <1>6, <2>2
<1>7. CASE n = 1
  BY <1>7, OnePage
<1> QED
  BY <1>4, <1>5, <1>6, <1>7, Levels

\* An entry of a page's walk that is not written stays.
LEMMA SlotKept ==
  ASSUME NEW m \in Memory, NEW lev, NEW pre, Tree(m, lev, pre),
         NEW m2, NEW t, NEW i, Agree(m, m2, lev, t, i),
         NEW v, Canonical(v), NEW n \in 1 .. 4, NEW u, Reaches(m, v, n, u),
         Off(lev, pre, t, i, v, n)
  PROVE  m2[u][Level(v, n)] = m[u][Level(v, n)]
<1>1. u \in Frames /\ lev[u] = n /\ pre[u] = Number(v, n)
  BY ReachesLabel
<1>2. Level(v, n) \in Indices
  BY Indexing
<1>3. ~(u = t /\ Level(v, n) = i)
  BY <1>1 DEF Off
<1>4. lev[u] # 0
  BY <1>1
<1> QED
  BY <1>1, <1>2, <1>3, <1>4, Zenon DEF Agree

\* A page's walk leads through the same tables down to the entry written.
LEMMA PathKept ==
  ASSUME NEW m \in Memory, NEW lev, NEW pre, Tree(m, lev, pre),
         NEW m2, NEW t, NEW i, Agree(m, m2, lev, t, i),
         NEW v, Canonical(v), NEW n \in 1 .. 4, NEW u, Reaches(m, v, n, u),
         \A k \in n + 1 .. 4 : Off(lev, pre, t, i, v, k)
  PROVE  Reaches(m2, v, n, u)
<1> DEFINE Kept(k) == \A w : Reaches(m, v, k, w) => Reaches(m2, v, k, w)
<1>1. Kept(4)
  BY DEF Reaches
<1>2. ASSUME NEW k \in 1 .. 3, Kept(k + 1), Off(lev, pre, t, i, v, k + 1)
      PROVE  Kept(k)
  <2> SUFFICES ASSUME NEW w, Reaches(m, v, k, w)
               PROVE  Reaches(m2, v, k, w)
    OBVIOUS
  <2>1. PICK x : LeadsTo(m, v, k + 1, x, w)
    BY Above
  <2>2. PICK j \in 2 .. 4 : j = k + 1
    OBVIOUS
  <2>3. Reaches(m, v, j, x) /\ Leads(m[x][Level(v, j)]) /\ w = m[x][Level(v, j)].frame
    BY <2>1, <2>2 DEF LeadsTo
  <2>4. j \in 1 .. 4 /\ Off(lev, pre, t, i, v, j) /\ Reaches(m2, v, j, x)
    BY <1>2, <2>2, <2>3
  <2>5. m2[x][Level(v, j)] = m[x][Level(v, j)]
    BY <2>3, <2>4, SlotKept
  <2>6. Reaches(m2, v, j - 1, w)
    BY <2>3, <2>4, <2>5, Below
  <2>7. j - 1 = k
    BY <2>2
  <2> QED
    BY <2>6, <2>7
<1> HIDE DEF Kept
<1>3. CASE n = 4
  BY <1>1, <1>3 DEF Kept
<1>4. CASE n = 3
  <2>1. Off(lev, pre, t, i, v, 4)
    BY <1>4
  <2>2. Kept(3)
    BY <1>1, <1>2, <2>1
  <2> QED
    BY <1>4, <2>2 DEF Kept
<1>5. CASE n = 2
  <2>1. Off(lev, pre, t, i, v, 4) /\ Off(lev, pre, t, i, v, 3)
    BY <1>5
  <2>2. Kept(3)
    BY <1>1, <1>2, <2>1
  <2>3. Kept(2)
    BY <1>2, <2>1, <2>2
  <2> QED
    BY <1>5, <2>3 DEF Kept
<1>6. CASE n = 1
  <2>1. /\ Off(lev, pre, t, i, v, 4) /\ Off(lev, pre, t, i, v, 3)
        /\ Off(lev, pre, t, i, v, 2)
    BY <1>6
  <2>2. Kept(3)
    BY <1>1, <1>2, <2>1
  <2>3. Kept(2)
    BY <1>2, <2>1, <2>2
  <2>4. Kept(1)
    BY <1>2, <2>1, <2>3
  <2> QED
    BY <1>6, <2>4 DEF Kept
<1> QED
  BY <1>3, <1>4, <1>5, <1>6, Levels

\* A page none of whose entries is written is translated as before.
LEMMA TranslationKept ==
  ASSUME NEW m \in Memory, NEW lev, NEW pre, Tree(m, lev, pre),
         NEW m2 \in Memory, NEW lev2, NEW pre2, Tree(m2, lev2, pre2),
         NEW t, NEW i, Agree(m, m2, lev, t, i),
         NEW v, Canonical(v), \A n \in 1 .. 4 : Off(lev, pre, t, i, v, n)
  PROVE  Translate(m2, v) = Translate(m, v)
<1>1. PICK n \in 1 .. 4 : \E u : EndsAt(m, v, n, u)
  BY LastTable
<1>2. PICK u : EndsAt(m, v, n, u)
  BY <1>1
<1>3. Reaches(m, v, n, u) /\ (n = 1 \/ ~Leads(m[u][Level(v, n)]))
  BY <1>2 DEF EndsAt
<1>4. m2[u][Level(v, n)] = m[u][Level(v, n)]
  BY <1>3, SlotKept
<1>5. \A k \in n + 1 .. 4 : Off(lev, pre, t, i, v, k)
  <2>1. \A k \in n + 1 .. 4 : k \in 1 .. 4
    OBVIOUS
  <2> QED
    BY <2>1, Zenon
<1>6. Reaches(m2, v, n, u)
  BY <1>3, <1>5, PathKept
<1>7. EndsAt(m2, v, n, u)
  BY <1>3, <1>4, <1>6 DEF EndsAt
<1>8. Translate(m2, v) = Value(m2[u][Level(v, n)], v, n)
  BY <1>7, EndValue
<1>9. Translate(m, v) = Value(m[u][Level(v, n)], v, n)
  BY <1>2, EndValue
<1> QED
  BY <1>4, <1>8, <1>9

\* m2 is m with e at entry i of table t.
Written(m, m2, t, i, e) == m2 = [m EXCEPT ![t][i] = e]

\* Writing one entry writes nothing else.
LEMMA WriteFacts ==
  ASSUME NEW m \in Memory, NEW t \in Frames, NEW i \in Indices, NEW e \in Entry,
         NEW m2, Written(m, m2, t, i, e)
  PROVE  /\ m2 \in Memory /\ m2[t][i] = e
         /\ \A u \in Frames : \A j \in Indices :
              ~(u = t /\ j = i) => m2[u][j] = m[u][j]
BY DEF Memory, Written

\* The entry of page p is written with one that leads nowhere new.
LEMMA WriteTree ==
  ASSUME NEW m \in Memory, NEW lev, NEW pre, Tree(m, lev, pre),
         NEW t \in Frames, NEW i \in Indices, NEW e \in Entry,
         EntrySound(e, lev[t], pre[t], i, lev, pre),
         NEW m2, Written(m, m2, t, i, e)
  PROVE  /\ m2 \in Memory /\ m2[t][i] = e
         /\ Tree(m2, lev, pre) /\ Agree(m, m2, lev, t, i)
<1>1. /\ m2 \in Memory /\ m2[t][i] = e
      /\ \A u \in Frames : \A j \in Indices :
           ~(u = t /\ j = i) => m2[u][j] = m[u][j]
  BY WriteFacts
<1>2. ASSUME NEW u \in Frames, NEW j \in Indices
      PROVE  EntrySound(m2[u][j], lev[u], pre[u], j, lev, pre)
  <2>1. CASE u = t /\ j = i
    BY <1>1, <2>1
  <2>2. CASE ~(u = t /\ j = i)
    <3>1. m2[u][j] = m[u][j]
      BY <1>1, <2>2
    <3> QED
      BY <3>1 DEF Tree
  <2> QED
    BY <2>1, <2>2
<1>3. Tree(m2, lev, pre)
  BY <1>2 DEF Tree
<1>4. Agree(m, m2, lev, t, i)
  BY <1>1 DEF Agree
<1> QED
  BY <1>1, <1>3, <1>4

\* A write at a page's level 1 translates that page anew, and no other.
LEMMA LeafWrite ==
  ASSUME NEW m \in Memory, NEW lev, NEW pre, Tree(m, lev, pre),
         NEW p, Canonical(p), NEW t, Reaches(m, p, 1, t), NEW e \in Entry,
         NEW m2, Written(m, m2, t, Level(p, 1), e)
  PROVE  /\ m2 \in Memory /\ Tree(m2, lev, pre)
         /\ m2[t][Level(p, 1)] = e /\ Reaches(m2, p, 1, t)
         /\ \A v : Canonical(v) =>
              Translate(m2, v) = IF v = p THEN Value(e, p, 1)
                                 ELSE Translate(m, v)
<1> DEFINE i == Level(p, 1)
<1>1. t \in Frames /\ lev[t] = 1 /\ pre[t] = Number(p, 1)
  BY ReachesLabel
<1>2. i \in Indices
  BY Indexing
<1> HIDE DEF i
<1>3. EntrySound(e, lev[t], pre[t], i, lev, pre)
  BY <1>1 DEF EntrySound
<1>4. Written(m, m2, t, i, e)
  BY DEF i
<1>5. /\ m2 \in Memory /\ m2[t][i] = e
      /\ Tree(m2, lev, pre) /\ Agree(m, m2, lev, t, i)
  BY <1>1, <1>2, <1>3, <1>4, WriteTree, Zenon
<1>6. Reaches(m2, p, 1, t)
  <2>1. \A k \in 1 + 1 .. 4 : Off(lev, pre, t, i, p, k)
    BY <1>1 DEF Off
  <2> QED
    BY <1>5, <2>1, PathKept
<1>7. ASSUME NEW v, Canonical(v), v # p
      PROVE  Translate(m2, v) = Translate(m, v)
  <2>1. ASSUME NEW n \in 1 .. 4 PROVE Off(lev, pre, t, i, v, n)
    <3>1. CASE n = 1
      <4>1. ~(Number(p, 1) = Number(v, 1) /\ Level(p, 1) = Level(v, 1))
        BY <1>7, OnePage
      <4> QED
        BY <1>1, <3>1, <4>1 DEF Off, i
    <3>2. CASE n # 1
      BY <1>1, <3>2 DEF Off
    <3> QED
      BY <3>1, <3>2
  <2> QED
    BY <1>5, <1>7, <2>1, TranslationKept
<1>8. Translate(m2, p) = Value(e, p, 1)
  <2>1. EndsAt(m2, p, 1, t)
    BY <1>6 DEF EndsAt
  <2>2. Translate(m2, p) = Value(m2[t][Level(p, 1)], p, 1)
    <3>1. m2 \in Memory /\ Tree(m2, lev, pre) /\ 1 \in 1 .. 4
      BY <1>5
    <3> QED
      BY <2>1, <3>1, EndValue, Zenon
  <2> QED
    BY <1>5, <2>2 DEF i
<1>9. \A v : Canonical(v) =>
        Translate(m2, v) = IF v = p THEN Value(e, p, 1) ELSE Translate(m, v)
  BY <1>7, <1>8
<1> QED
  BY <1>5, <1>6, <1>9 DEF i

\* An entry of a big page of level 2 that is no longer present unmaps its pages,
\* and no other.
LEMMA BigWrite ==
  ASSUME NEW m \in Memory, NEW lev, NEW pre, Tree(m, lev, pre),
         NEW p, Canonical(p), NEW t, Reaches(m, p, 2, t),
         m[t][Level(p, 2)].big, NEW e \in Entry, e.big, ~e.present,
         NEW m2, Written(m, m2, t, Level(p, 2), e)
  PROVE  /\ m2 \in Memory /\ Tree(m2, lev, pre)
         /\ \A v : Canonical(v) =>
              Translate(m2, v) = IF Table1(v) = Table1(p) THEN Unmapped
                                 ELSE Translate(m, v)
<1> DEFINE i == Level(p, 2)
<1>1. t \in Frames /\ lev[t] = 2 /\ pre[t] = Number(p, 2)
  BY ReachesLabel
<1>2. i \in Indices
  BY Indexing
<1> HIDE DEF i
<1>3. EntrySound(e, lev[t], pre[t], i, lev, pre)
  <2>1. EntrySound(m[t][i], lev[t], pre[t], i, lev, pre)
    BY <1>1, <1>2 DEF Tree
  <2>2. m[t][i].big
    BY DEF i
  <2> QED
    BY <1>1, <2>1, <2>2 DEF EntrySound, Leads
<1>4. Written(m, m2, t, i, e)
  BY DEF i
<1>5. /\ m2 \in Memory /\ m2[t][i] = e
      /\ Tree(m2, lev, pre) /\ Agree(m, m2, lev, t, i)
  BY <1>1, <1>2, <1>3, <1>4, WriteTree, Zenon
<1>6. ASSUME NEW v, Canonical(v), Table1(v) # Table1(p)
      PROVE  Translate(m2, v) = Translate(m, v)
  <2>1. ASSUME NEW n \in 1 .. 4 PROVE Off(lev, pre, t, i, v, n)
    <3>1. CASE n = 2
      <4>1. ~(Number(p, 2) = Number(v, 2) /\ Level(p, 2) = Level(v, 2))
        BY <1>6, SharedSlot
      <4> QED
        BY <1>1, <3>1, <4>1 DEF Off, i
    <3>2. CASE n # 2
      BY <1>1, <3>2 DEF Off
    <3> QED
      BY <3>1, <3>2
  <2> QED
    BY <1>5, <1>6, <2>1, TranslationKept
<1>7. ASSUME NEW v, Canonical(v), Table1(v) = Table1(p)
      PROVE  Translate(m2, v) = Unmapped
  <2>1. Number(v, 2) = Number(p, 2) /\ Level(v, 2) = i /\ Level(v, 3) = Level(p, 3)
        /\ Level(v, 4) = Level(p, 4)
    <3>1. /\ Table2(v) = Table2(p) /\ Table3(v) = Table3(p)
      <4>1. /\ Table2(v) = Table1(v) \div Fan /\ Table3(v) = Table2(v) \div Fan
            /\ Table2(p) = Table1(p) \div Fan /\ Table3(p) = Table2(p) \div Fan
        BY <1>7, TableNumbers, SMTT(60) DEF Canonical
      <4> QED
        BY <1>7, <4>1, Zenon
    <3> QED
      BY <1>7, <3>1 DEF Number, Level, i
  <2>2. Reaches(m, v, 2, t)
    BY <2>1 DEF Reaches, Entry4, Entry3
  <2>3. Reaches(m2, v, 2, t)
    <3>1. \A k \in 2 + 1 .. 4 : Off(lev, pre, t, i, v, k)
      BY <1>1 DEF Off
    <3> QED
      BY <1>5, <1>7, <2>2, <3>1, PathKept
  <2>4. EndsAt(m2, v, 2, t)
    BY <1>5, <2>1, <2>3 DEF EndsAt, Leads
  <2>5. Translate(m2, v) = Value(m2[t][Level(v, 2)], v, 2)
    <3>1. m2 \in Memory /\ Tree(m2, lev, pre) /\ 2 \in 1 .. 4
      BY <1>5
    <3> QED
      BY <1>7, <2>4, <3>1, EndValue, Zenon
  <2> QED
    BY <1>5, <2>1, <2>5 DEF Value
<1>8. \A v : Canonical(v) =>
        Translate(m2, v) = IF Table1(v) = Table1(p) THEN Unmapped
                           ELSE Translate(m, v)
  BY <1>6, <1>7
<1> QED
  BY <1>5, <1>8


\* Pages with the same number at level n share the tables down to it.
LEMMA SameTables ==
  ASSUME NEW m, NEW u, Canonical(u), NEW v, Canonical(v), NEW n \in 1 .. 4,
         Number(u, n) = Number(v, n), NEW t, Reaches(m, u, n, t)
  PROVE  Reaches(m, v, n, t)
<1>1. /\ Number(u, 1) = Table1(u) /\ Number(u, 2) = Table2(u)
      /\ Number(u, 3) = Table3(u) /\ Number(v, 1) = Table1(v)
      /\ Number(v, 2) = Table2(v) /\ Number(v, 3) = Table3(v)
  BY DEF Number
<1>2. /\ Table2(u) = Table1(u) \div Fan /\ Table3(u) = Table2(u) \div Fan
      /\ Table2(v) = Table1(v) \div Fan /\ Table3(v) = Table2(v) \div Fan
  BY TableNumbers DEF Canonical
<1>3. /\ Table3(u) = Table3(v) => Level(u, 4) = Level(v, 4)
      /\ Table2(u) = Table2(v) => Level(u, 3) = Level(v, 3)
      /\ Table1(u) = Table1(v) => Level(u, 2) = Level(v, 2)
  BY DEF Level
<1>4. CASE n = 4
  BY <1>4 DEF Reaches
<1>5. CASE n = 3
  <2>1. Level(u, 4) = Level(v, 4)
    BY <1>1, <1>3, <1>5, SMTT(60)
  <2> QED
    BY <1>5, <2>1 DEF Reaches, Entry4
<1>6. CASE n = 2
  <2>1. Table2(u) = Table2(v)
    BY <1>1, <1>6
  <2>2. Table3(u) = Table3(v)
    BY <1>2, <2>1, Zenon
  <2>3. Level(u, 4) = Level(v, 4) /\ Level(u, 3) = Level(v, 3)
    BY <1>3, <2>1, <2>2, SMTT(60)
  <2> QED
    BY <1>6, <2>3, SMTT(40) DEF Reaches, Entry4, Entry3
<1>7. CASE n = 1
  <2>1. Table1(u) = Table1(v)
    BY <1>1, <1>7
  <2>2. Table2(u) = Table2(v)
    BY <1>2, <2>1, Zenon
  <2>3. Table3(u) = Table3(v)
    BY <1>2, <2>2, Zenon
  <2>4. /\ Level(u, 4) = Level(v, 4) /\ Level(u, 3) = Level(v, 3)
        /\ Level(u, 2) = Level(v, 2)
    BY <1>3, <2>1, <2>2, <2>3
  <2> QED
    BY <1>7, <2>4 DEF Reaches, Entry4, Entry3, Entry2
<1> QED
  BY <1>4, <1>5, <1>6, <1>7, Levels

\* m2 is m with a table new in frame f, linked to from entry i of table t.
Grown(m, m2, t, i, f, new) ==
  m2 = [[m EXCEPT ![t][i] = Link(f)] EXCEPT ![f] = new]

\* Entry i of table t, which has level n, is to lead to the table of number k.
EntryFor(lev, pre, t, i, n, k) ==
  /\ n \in 2 .. 4 /\ t \in Frames /\ lev[t] = n
  /\ i \in Indices /\ k \in Nat /\ k = pre[t] * Fan + i

\* The table, new in frame f, leads nowhere yet.
TableFor(lev, f, new, n, k) ==
  /\ f \in Frames /\ lev[f] = 0 /\ new \in [Indices -> Entry]
  /\ \A j \in Indices :
       ~Leads(new[j]) /\ (new[j].big => n = 4 /\ k = 3 /\ new[j].present)

\* A frame that was no table becomes one below the entry that links to it.
LEMMA GrowTree ==
  ASSUME NEW m \in Memory, NEW lev, NEW pre, Tree(m, lev, pre),
         NEW t, NEW i, NEW n, NEW k, EntryFor(lev, pre, t, i, n, k),
         NEW f, NEW new, TableFor(lev, f, new, n, k),
         NEW m2, Grown(m, m2, t, i, f, new)
  PROVE  /\ m2 \in Memory /\ m2[t][i] = Link(f) /\ m2[f] = new
         /\ Tree(m2, [lev EXCEPT ![f] = n - 1], [pre EXCEPT ![f] = k])
         /\ Agree(m, m2, lev, t, i)
<1> DEFINE lev2 == [lev EXCEPT ![f] = n - 1]
           pre2 == [pre EXCEPT ![f] = k]
<1> USE DEF EntryFor, TableFor
<1>1. f # t /\ f # Root /\ Root \in Frames
  BY Constants DEF Tree, Labels
<1>2. Link(f) \in Entry /\ Link(f).frame = f
  BY Constants DEF Link, Entry
<1>3. m2 \in Memory /\ m2[t][i] = Link(f) /\ m2[f] = new
  BY <1>1, <1>2 DEF Grown, Memory
<1>4. \A u \in Frames : \A j \in Indices :
        u # f /\ ~(u = t /\ j = i) => m2[u][j] = m[u][j]
  BY <1>2 DEF Grown, Memory
<1>5. Agree(m, m2, lev, t, i)
  BY <1>4 DEF Agree
<1>6. Labels(lev2, pre2)
  BY <1>1 DEF Tree, Labels
<1>7. /\ lev2[f] = n - 1 /\ pre2[f] = k
      /\ \A u \in Frames : u # f => lev2[u] = lev[u] /\ pre2[u] = pre[u]
  BY DEF Tree, Labels
<1> HIDE DEF lev2, pre2
<1>8. ASSUME NEW u \in Frames, NEW j \in Indices
      PROVE  EntrySound(m2[u][j], lev2[u], pre2[u], j, lev2, pre2)
  <2>1. CASE u = f
    <3>1. m2[u][j] = new[j] /\ ~Leads(new[j])
      BY <1>3, <2>1
    <3>2. new[j].big => n = 4 /\ k = 3 /\ new[j].present
      OBVIOUS
    <3> QED
      BY <1>7, <2>1, <3>1, <3>2 DEF EntrySound
  <2>2. CASE u = t /\ j = i
    <3>1. m2[u][j] = Link(f) /\ ~Link(f).big
      BY <1>3, <2>2 DEF Link
    <3>2. lev2[u] = n /\ pre2[u] = pre[t]
      BY <1>1, <1>7, <2>2
    <3> QED
      BY <1>2, <1>7, <2>2, <3>1, <3>2 DEF EntrySound
  <2>3. CASE u # f /\ ~(u = t /\ j = i)
    <3>1. m2[u][j] = m[u][j]
      BY <1>4, <2>3
    <3>2. EntrySound(m[u][j], lev[u], pre[u], j, lev, pre)
      BY DEF Tree
    <3>3. lev2[u] = lev[u] /\ pre2[u] = pre[u]
      BY <1>7, <2>3
    <3>4. ASSUME lev[u] \in 2 .. 4, Leads(m[u][j])
          PROVE  m[u][j].frame \in Frames /\ m[u][j].frame # f
      BY <3>2, <3>4 DEF EntrySound
    <3> QED
      BY <1>7, <3>1, <3>2, <3>3, <3>4 DEF EntrySound
  <2> QED
    BY <2>1, <2>2, <2>3
<1>9. Tree(m2, lev2, pre2)
  BY <1>6, <1>8 DEF Tree
<1> QED
  BY <1>3, <1>5, <1>9 DEF lev2, pre2

\* The walk of page p stops at the entry of table t, of level n, that is absent.
StopsAt(m, p, n, t) ==
  /\ Canonical(p) /\ n \in 2 .. 4
  /\ Reaches(m, p, n, t) /\ ~m[t][Level(p, n)].present

\* Linking an empty table where there was none changes no page's translation.
LEMMA LinkWrite ==
  ASSUME NEW m \in Memory, NEW lev, NEW pre, Tree(m, lev, pre),
         NEW p, NEW n, NEW t, StopsAt(m, p, n, t),
         NEW f \in Frames, lev[f] = 0,
         NEW m2, Grown(m, m2, t, Level(p, n), f, EmptyTable)
  PROVE  /\ m2 \in Memory
         /\ Tree(m2, [lev EXCEPT ![f] = n - 1],
                     [pre EXCEPT ![f] = Number(p, n - 1)])
         /\ Reaches(m2, p, n - 1, f)
         /\ \A v : Canonical(v) => Translate(m2, v) = Translate(m, v)
<1> DEFINE i == Level(p, n)
           k == Number(p, n - 1)
           lev2 == [lev EXCEPT ![f] = n - 1]
           pre2 == [pre EXCEPT ![f] = k]
<1> USE DEF StopsAt
<1>1. t \in Frames /\ lev[t] = n /\ pre[t] = Number(p, n)
  BY ReachesLabel
<1>2. i \in Indices /\ k \in Nat /\ k = pre[t] * Fan + i
  BY <1>1, Indexing
<1>3. /\ EmptyTable \in [Indices -> Entry]
      /\ \A j \in Indices : ~EmptyTable[j].present /\ ~EmptyTable[j].big
  BY DEF EmptyTable, Clear, Entry
<1>4. Grown(m, m2, t, i, f, EmptyTable) /\ ~m[t][i].present
  OBVIOUS
<1> HIDE DEF i, k
<1>5. /\ m2 \in Memory /\ m2[t][i] = Link(f) /\ m2[f] = EmptyTable
      /\ Tree(m2, lev2, pre2) /\ Agree(m, m2, lev, t, i)
  <2>1. TableFor(lev, f, EmptyTable, n, k)
    BY <1>3 DEF TableFor, Leads
  <2>2. EntryFor(lev, pre, t, i, n, k)
    BY <1>1, <1>2 DEF EntryFor
  <2> QED
    BY <1>4, <2>1, <2>2, GrowTree
<1> HIDE DEF lev2, pre2
<1>6. ASSUME NEW v, Canonical(v), Number(v, n) = Number(p, n), Level(v, n) = i
      PROVE  /\ Reaches(m2, v, n - 1, f)
             /\ Translate(m, v) = Unmapped /\ Translate(m2, v) = Unmapped
  <2>1. Reaches(m, v, n, t) /\ EndsAt(m, v, n, t)
    BY <1>4, <1>6, SameTables DEF EndsAt, Leads
  <2>2. Reaches(m2, v, n, t)
    <3>1. \A j \in n + 1 .. 4 : Off(lev, pre, t, i, v, j)
      BY <1>1 DEF Off
    <3> QED
      BY <1>5, <1>6, <2>1, <3>1, PathKept
  <2>3. Reaches(m2, v, n - 1, f)
    <3>1. Leads(m2[t][Level(v, n)]) /\ m2[t][Level(v, n)].frame = f
      BY <1>5, <1>6 DEF Leads, Link
    <3> QED
      BY <2>2, <3>1, Below
  <2>4. Translate(m, v) = Unmapped
    BY <1>4, <1>6, <2>1, EndValue DEF Value
  <2>5. Translate(m2, v) = Unmapped
    <3> DEFINE j == Level(v, n - 1)
    <3>1. n - 1 \in 1 .. 4 /\ j \in Indices
      BY <1>6, Indexing
    <3>2. ~m2[f][j].present
      BY <1>3, <1>5, <3>1
    <3>3. EndsAt(m2, v, n - 1, f)
      BY <2>3, <3>2 DEF EndsAt, Leads
    <3>4. Translate(m2, v) = Value(m2[f][j], v, n - 1)
      BY <1>5, <1>6, <3>1, <3>3, EndValue
    <3> QED
      BY <3>2, <3>4 DEF Value
  <2> QED
    BY <2>3, <2>4, <2>5
<1>7. ASSUME NEW v, Canonical(v), ~(Number(v, n) = Number(p, n) /\ Level(v, n) = i)
      PROVE  Translate(m2, v) = Translate(m, v)
  <2>1. \A j \in 1 .. 4 : Off(lev, pre, t, i, v, j)
    BY <1>1, <1>7 DEF Off
  <2> QED
    BY <1>5, <1>7, <2>1, TranslationKept
<1>8. Reaches(m2, p, n - 1, f)
  BY <1>6 DEF i
<1>9. \A v : Canonical(v) => Translate(m2, v) = Translate(m, v)
  BY <1>6, <1>7
<1> QED
  BY <1>5, <1>8, <1>9 DEF lev2, pre2, k


\* PageTable::init gives the window a level-4 entry of its own: through it frame
\* f is seen at mapPages(f), and pages of other level-4 entries stay as they are.
LEMMA WindowWrite ==
  ASSUME NEW m \in Memory, NEW lev, NEW pre, Tree(m, lev, pre),
         lev[InitPage] = 0,
         NEW m2, Grown(m, m2, Root, Level(WindowStart, 4), InitPage,
                       [i \in Indices |-> WindowEntry(i)])
  PROVE  /\ m2 \in Memory
         /\ Tree(m2, [lev EXCEPT ![InitPage] = 3], [pre EXCEPT ![InitPage] = 3])
         /\ \A v : Canonical(v) /\ Table3(v) # 3 =>
              Translate(m2, v) = Translate(m, v)
         /\ \A f \in Frames : Translate(m2, mapPages(f)) = f
<1> DEFINE new == [i \in Indices |-> WindowEntry(i)]
           lev2 == [lev EXCEPT ![InitPage] = 3]
           pre2 == [pre EXCEPT ![InitPage] = 3]
<1>1. /\ Fan \in Nat \ {0} /\ Fan >= 4 /\ GiB \in Nat \ {0} /\ Span4 \in Nat \ {0}
      /\ GiB = Fan * Fan /\ Span4 = GiB * Fan
      /\ Root \in Frames /\ InitPage \in Frames
  BY Constants
<1>2. Level(WindowStart, 4) = 3 /\ 3 \in Indices
  <2>1. WindowStart = 3 * Span4 + 0 /\ 0 \in Nat /\ 0 < Span4
    BY <1>1 DEF WindowStart
  <2>2. Table3(WindowStart) = 3
    BY <2>1, InEntry4
  <2> QED
    BY <1>1, <2>2, SMTT(60) DEF Level, Indices
<1>3. ASSUME NEW i \in Indices
      PROVE  /\ new[i] \in Entry /\ new[i].present /\ new[i].big
             /\ new[i].frame = i * GiB
  <2>1. i * GiB \in Nat
    BY <1>1 DEF Indices
  <2> QED
    BY <2>1 DEF WindowEntry, Big, Entry
<1>4. lev[Root] = 4 /\ pre[Root] = 0
  BY DEF Tree, Labels
<1>5. /\ m2 \in Memory /\ m2[Root][3] = Link(InitPage) /\ m2[InitPage] = new
      /\ Tree(m2, lev2, pre2) /\ Agree(m, m2, lev, Root, 3)
  <2>1. TableFor(lev, InitPage, new, 4, 3)
    BY <1>1, <1>3 DEF TableFor, Leads
  <2>2. EntryFor(lev, pre, Root, 3, 4, 3)
    BY <1>1, <1>2, <1>4 DEF EntryFor
  <2>3. Grown(m, m2, Root, 3, InitPage, new)
    BY <1>2
  <2>4. 4 - 1 = 3
    OBVIOUS
  <2> HIDE DEF new
  <2> QED
    BY <2>1, <2>2, <2>3, <2>4, GrowTree
<1> HIDE DEF new, lev2, pre2
<1>6. ASSUME NEW v, Canonical(v), Table3(v) # 3
      PROVE  Translate(m2, v) = Translate(m, v)
  <2>1. Level(v, 4) = Table3(v)
    BY <1>1, <1>6, TableNumbers DEF Canonical, Level
  <2>2. \A j \in 1 .. 4 : Off(lev, pre, Root, 3, v, j)
    BY <1>4, <1>6, <2>1 DEF Off
  <2> QED
    BY <1>5, <1>6, <2>2, TranslationKept
<1>7. ASSUME NEW f \in Frames
      PROVE  Translate(m2, mapPages(f)) = f
  <2> DEFINE v == mapPages(f)
             j == Level(v, 3)
  <2>1. f \in Nat /\ f < Span4 /\ v = 3 * Span4 + f
    BY <1>1, PageAssumption DEF mapPages, WindowStart
  <2>2. /\ Table3(v) = 3 /\ Canonical(v)
        /\ Table2(v) = 3 * Fan + Table2(f) /\ v % GiB = f % GiB
    BY <2>1, InEntry4
  <2> HIDE DEF v
  <2>3. Level(v, 4) = 3
    BY <1>1, <2>2 DEF Level
  <2>4. j = Table2(f) /\ j \in Indices
    <3>1. Table2(v) = Number(v, 3) * Fan + j /\ Number(v, 3) = 3 /\ Number(v, 2) = Table2(v)
      <4>1. Number(v, 3 - 1) = Number(v, 3) * Fan + Level(v, 3)
        BY <2>2, Indexing
      <4> QED
        BY <2>2, <4>1 DEF Number
    <3>2. j \in Indices
      BY <2>2, Indexing
    <3>3. Table2(f) \in Nat /\ j \in Nat
      BY <2>1, <3>2, TableNumbers, <1>1 DEF Indices
    <3> QED
      BY <1>1, <2>2, <3>1, <3>2, <3>3
  <2> HIDE DEF j
  <2>5. Reaches(m2, v, 3, InitPage)
    BY <1>5, <2>3 DEF Reaches, Entry4, Leads, Link
  <2>6. EndsAt(m2, v, 3, InitPage)
    BY <1>3, <1>5, <2>4, <2>5 DEF EndsAt, Leads, j
  <2>7. Translate(m2, v) = Value(m2[InitPage][Level(v, 3)], v, 3)
    BY <1>5, <2>2, <2>6, EndValue
  <2>8. Translate(m2, v) = j * GiB + (v % GiB)
    BY <1>3, <1>5, <2>4, <2>7 DEF Value, j
  <2>9. j * GiB + (f % GiB) = f
    <3>1. /\ j \in Nat /\ f \in Nat /\ GiB \in Nat \ {0}
          /\ f % GiB \in Nat
      BY <1>1, <2>1, <2>4 DEF Indices
    <3>2. j = f \div GiB
      BY <2>4 DEF Table2
    <3>3. PICK r \in Nat : r = f % GiB
      BY <3>1
    <3>4. f = j * GiB + r
      BY <3>1, <3>2, <3>3, DivModFacts
    <3> QED
      BY <3>3, <3>4
  <2>10. Translate(m2, v) = f
    BY <2>2, <2>8, <2>9
  <2> QED
    BY <2>10 DEF v
<1> QED
  BY <1>5, <1>6, <1>7 DEF lev2, pre2


-----------------------------------------------------------------------------
(***************************************************************************)
(* The inductive invariant.                                                *)
(***************************************************************************)
\* A frame that may be mapped: it is neither a table nor one of the frames fr
\* the allocator has, nor one of those boot made tables of.
Spare(lev, fr, f) ==
  f \in Nat /\ (f \in Frames => lev[f] = 0 /\ f \notin fr /\ f > InitPage)

\* The tables are a tree, and the frames tables are yet to be made of, and the
\* frames heap and process pages are mapped to, are not in it.
Shape(lev, pre) ==
  /\ Tree(mem, lev, pre)
  /\ \A f \in free : lev[f] = 0
  /\ phase = "boot" => \A j \in index .. BufferPages : lev[BufferStart + j] = 0
  /\ phase \in {"boot", "init"} => lev[InitPage] = 0
  /\ \A u \in MapPages : Walk(u) = Unmapped \/ Spare(lev, free, Walk(u))
  /\ phase # "boot" /\ pc # "idle" => Spare(lev, free, cur.frame)

\* The call in progress stands at a table its page is translated with.  The page
\* is not mapped yet, unless it is one of the heap or of a process.
CallSound ==
  /\ cur \in [page : Nat, frame : Nat, table : Frames, level : 0 .. 4]
  /\ phase = "init" => pc = "idle"
  /\ pc # "idle" =>
       /\ cur.level \in 1 .. 4 /\ Reaches(mem, cur.page, cur.level, cur.table)
       /\ pc # "walk" => cur.level = 1
       /\ pc = "present" => CurEntry = Clear(cur.frame)
       /\ pc = "walk" /\ cur.page \notin MapPages => Walk(cur.page) = Unmapped
       /\ phase = "boot" =>
            /\ pc = "walk" /\ placed < kernel /\ kernel <= MaxKernelPages
            /\ cur.page = KernelStart + placed
            /\ cur.frame = ImageStart + placed
       /\ phase # "boot" => cur.page \in MapPages \cup LowPages

\* The pages of the kernel image are mapped one after the other.
ImageSound ==
  /\ \A i \in 0 .. placed - 1 : Walk(KernelStart + i) = ImageStart + i
  /\ phase = "boot" =>
       \A v \in KernelPages : v >= KernelStart + placed => Walk(v) = Unmapped

\* The tables there are when k pages of the kernel image are mapped and the walk
\* for the next stands at level n.
Needed(k, n) ==
  IF k = 0 THEN 4 - n
  ELSE 3 + (IF n = 1 THEN k \div Fan ELSE (k - 1) \div Fan)
         + (IF n = 1 \/ n = 2 THEN k \div GiB ELSE (k - 1) \div GiB)

CountSound ==
  /\ index <= BufferPages
  /\ phase = "boot" /\ kernel <= MaxKernelPages =>
       index <= Needed(placed, IF pc = "idle" THEN 4 ELSE cur.level)

\* A cached translation contradicts none but that of a page just mapped.
TlbSound ==
  \A v \in Pages :
    \/ pc = "invalidate" /\ v = cur.page
    \/ tlb[v] = Unmapped
    \/ Walk(v) \in {Unmapped, tlb[v]}

PageInv ==
  /\ TypeOK /\ CallSound /\ ImageSound /\ CountSound /\ WindowComplete
  /\ TlbSound /\ \E lev, pre : Shape(lev, pre)

-----------------------------------------------------------------------------
\* The tables of main.asm are a tree, and map neither heap nor kernel pages.
LEMMA InitSound == Init => PageInv
<1> SUFFICES ASSUME Init PROVE PageInv
  OBVIOUS
<1> DEFINE lev == [f \in Frames |-> IF f = Root THEN 4 ELSE IF f = LowL3 THEN 3
                                    ELSE IF f = LowL2 THEN 2 ELSE 0]
           pre == [f \in Frames |-> 0]
<1>1. /\ Fan \in Nat /\ Fan >= 4 /\ GiB \in Nat /\ BufferPages \in Nat
      /\ Frames \subseteq Nat /\ 0 \in Frames
      /\ Root \in Frames /\ LowL3 \in Frames /\ LowL2 \in Frames
      /\ Root # LowL3 /\ Root # LowL2 /\ LowL3 # LowL2
      /\ InitPage \in Frames /\ InitPage = BufferPages + 5
  BY Constants DEF Root, LowL3, LowL2
<1>2. /\ phase = "boot" /\ kernel \in KernelSizes /\ placed = 0 /\ index = 0
      /\ free = FreeFrames /\ cur = NoCall /\ pc = "idle"
      /\ tlb = [v \in Pages |-> Unmapped]
  BY DEF Init
<1>3. /\ mem \in Memory
      /\ mem[Root] = [EmptyTable EXCEPT ![0] = Link(LowL3)]
      /\ mem[LowL3] = [EmptyTable EXCEPT ![0] = Link(LowL2)]
      /\ mem[LowL2] = setup_paging_table
  <2> DEFINE at(f) == CASE f = Root -> [EmptyTable EXCEPT ![0] = Link(LowL3)]
                        [] f = LowL3 -> [EmptyTable EXCEPT ![0] = Link(LowL2)]
                        [] f = LowL2 -> setup_paging_table
                        [] OTHER -> Junk
  <2>1. mem = [f \in Frames |-> at(f)]
    BY DEF Init
  <2>2. \A f \in Nat : Link(f) \in Entry /\ Clear(f) \in Entry /\ Big(f) \in Entry
    BY DEF Link, Clear, Big, Entry
  <2>3. \A i \in Indices : i * Fan \in Nat
    BY <1>1 DEF Indices
  <2>4. /\ EmptyTable \in [Indices -> Entry] /\ Junk \in [Indices -> Entry]
        /\ setup_paging_table \in [Indices -> Entry]
    BY <2>2, <2>3 DEF EmptyTable, Junk, setup_paging_table
  <2>5. /\ [EmptyTable EXCEPT ![0] = Link(LowL3)] \in [Indices -> Entry]
        /\ [EmptyTable EXCEPT ![0] = Link(LowL2)] \in [Indices -> Entry]
    BY <2>2, <2>4, <1>1
  <2>6. \A f \in Frames : at(f) \in [Indices -> Entry]
    BY <2>4, <2>5
  <2>7. /\ at(Root) = [EmptyTable EXCEPT ![0] = Link(LowL3)]
        /\ at(LowL3) = [EmptyTable EXCEPT ![0] = Link(LowL2)]
        /\ at(LowL2) = setup_paging_table
    BY <1>1
  <2> HIDE DEF at
  <2> QED
    BY <1>1, <2>1, <2>6, <2>7 DEF Memory
<1>4. /\ \A i \in Indices : i # 0 => ~mem[Root][i].present /\ ~mem[LowL3][i].present
      /\ \A i \in Indices : ~mem[Root][i].big /\ ~mem[LowL3][i].big
      /\ \A i \in Indices : mem[LowL2][i].big
      /\ mem[Root][0] = Link(LowL3) /\ mem[LowL3][0] = Link(LowL2)
  <2>1. 0 \in Indices
    BY <1>1 DEF Indices
  <2> QED
    BY <1>3, <2>1 DEF EmptyTable, setup_paging_table, Clear, Link, Big
<1>5. /\ lev \in [Frames -> 0 .. 4] /\ pre \in [Frames -> Nat]
      /\ lev[Root] = 4 /\ lev[LowL3] = 3 /\ lev[LowL2] = 2
      /\ \A f \in Frames : f \notin {Root, LowL3, LowL2} => lev[f] = 0
      /\ \A f \in Frames : pre[f] = 0
  BY <1>1
<1> HIDE DEF lev, pre
<1>6. Tree(mem, lev, pre)
  <2>1. Labels(lev, pre)
    BY <1>1, <1>5 DEF Labels
  <2>2. ASSUME NEW t \in Frames, NEW i \in Indices
        PROVE  EntrySound(mem[t][i], lev[t], pre[t], i, lev, pre)
    <3>1. 0 * Fan + 0 = 0
      BY <1>1
    <3>2. CASE t = Root
      BY <1>1, <1>4, <1>5, <3>1, <3>2 DEF EntrySound, Leads, Link
    <3>3. CASE t = LowL3
      BY <1>1, <1>4, <1>5, <3>1, <3>3 DEF EntrySound, Leads, Link
    <3>4. CASE t = LowL2
      BY <1>1, <1>4, <1>5, <3>4 DEF EntrySound, Leads
    <3>5. CASE t \notin {Root, LowL3, LowL2}
      BY <1>5, <3>5 DEF EntrySound
    <3> QED
      BY <3>2, <3>3, <3>4, <3>5
  <2> QED
    BY <2>1, <2>2 DEF Tree
<1>7. ASSUME NEW v, Canonical(v), Table3(v) # 0 PROVE Walk(v) = Unmapped
  <2>1. Level(v, 4) \in Indices /\ Level(v, 4) # 0
    <3>1. Level(v, 4) \in Indices
      BY <1>7, Indexing
    <3>2. Level(v, 4) = Table3(v)
      BY <1>1, <1>7, TableNumbers DEF Canonical, Level
    <3> QED
      BY <1>7, <3>1, <3>2
  <2>2. ~Entry4(mem, v).present
    BY <1>4, <2>1 DEF Entry4
  <2> QED
    BY <2>2, WalkIs DEF Translate
<1>8. Shape(lev, pre)
  <2>1. \A f \in free : lev[f] = 0
    BY <1>1, <1>2, <1>5, PageAssumption DEF Root, LowL3, LowL2
  <2>2. \A j \in index .. BufferPages : lev[BufferStart + j] = 0
    BY <1>2, <1>5, Constants DEF BufferStart, Root, LowL3, LowL2
  <2>3. lev[InitPage] = 0
    BY <1>1, <1>5 DEF Root, LowL3, LowL2
  <2>4. \A u \in MapPages : Walk(u) = Unmapped
    BY <1>7, PageRegions
  <2> QED
    BY <1>2, <1>6, <2>1, <2>2, <2>3, <2>4 DEF Shape
<1>9. TypeOK
  <2>1. kernel \in Nat
    <3>1. kernel \in 0 .. Span4 /\ Span4 \in Nat
      BY <1>2, PageAssumption, Constants
    <3> QED
      BY <3>1
  <2>2. mem \in [Frames -> [Indices -> Entry]]
    BY <1>3 DEF Memory
  <2> QED
    BY <1>1, <1>2, <2>1, <2>2 DEF TypeOK, NoCall
<1>10. CallSound
  BY <1>1, <1>2 DEF CallSound, NoCall
<1>11. ImageSound
  BY <1>2, <1>7, PageRegions DEF ImageSound
<1>12. CountSound
  BY <1>1, <1>2 DEF CountSound, Needed
<1>13. WindowComplete /\ TlbSound
  BY <1>2 DEF WindowComplete, TlbSound
<1> QED
  BY <1>8, <1>9, <1>10, <1>11, <1>12, <1>13 DEF PageInv


-----------------------------------------------------------------------------
(***************************************************************************)
(* The call in progress.                                                   *)
(***************************************************************************)
\* Page k of a kernel image.
LEMMA KernelPage ==
  ASSUME NEW size \in KernelSizes, NEW k \in Nat, k < size
  PROVE  /\ KernelStart + k \in KernelPages /\ k < Span4
         /\ Canonical(KernelStart + k) /\ Table3(KernelStart + k) = 1
         /\ Table1(KernelStart + k) = GiB + (k \div Fan)
         /\ Table2(KernelStart + k) = Fan + (k \div GiB)
<1>1. Span4 \in Nat /\ Fan \in Nat /\ GiB \in Nat
  BY Constants
<1>2. /\ KernelSizes \subseteq 0 .. Span4 /\ KernelSizes # {}
  BY PageAssumption
<1>3. Max(KernelSizes) \in KernelSizes /\ \A y \in KernelSizes : Max(KernelSizes) >= y
  BY <1>1, <1>2, MaxFacts, Zenon
<1>4. size \in 0 .. Span4 /\ Max(KernelSizes) \in 0 .. Span4 /\ Max(KernelSizes) >= size
  BY <1>2, <1>3, Zenon
<1>5. k < Span4 /\ k <= Max(KernelSizes) - 1
  BY <1>1, <1>4
<1>6. PICK m \in Nat : m = Max(KernelSizes)
  BY <1>1, <1>4
<1>7. KernelStart + k \in KernelPages
  BY <1>1, <1>5, <1>6 DEF KernelPages, KernelStart
<1>8. KernelStart + k = 1 * Span4 + k
  BY <1>1 DEF KernelStart
<1>9. /\ Canonical(KernelStart + k) /\ Table3(KernelStart + k) = 1
      /\ Table1(KernelStart + k) = 1 * GiB + Table1(k)
      /\ Table2(KernelStart + k) = 1 * Fan + Table2(k)
  BY <1>1, <1>5, <1>8, InEntry4
<1> QED
  BY <1>1, <1>5, <1>7, <1>9 DEF Table1, Table2

\* All pages: none lies in the window, and none but those of the identity
\* mapping lies in the table of main.asm's big pages.
LEMMA PageFacts ==
  ASSUME NEW v \in Pages
  PROVE  /\ v \in Nat /\ Canonical(v) /\ v # Unmapped
         /\ Table3(v) # 3 /\ Number(v, 3) # 3
         /\ v \notin LowPages => Number(v, 2) # 0
<1>1. v \in MapPages \/ v \in LowPages \/ v \in KernelPages
  BY DEF Pages
<1>2. /\ v \in Nat /\ Canonical(v) /\ Table3(v) # 3
      /\ v \notin LowPages => Table3(v) # 0
  BY <1>1, PageRegions DEF Canonical
<1>3. v # Unmapped
  BY <1>2, PageAssumption
<1>4. Number(v, 3) # 3 /\ Number(v, 2) = Table2(v)
  BY <1>2 DEF Number
<1>5. ASSUME Table2(v) = 0 PROVE Table3(v) = 0
  <2>1. Table3(v) = Table2(v) \div Fan
    BY <1>2, TableNumbers
  <2>2. Fan \in Nat \ {0}
    BY Constants
  <2> QED
    BY <1>5, <2>1, <2>2
<1> QED
  BY <1>2, <1>3, <1>4, <1>5

\* The page being mapped, and the table its walk stands at.
LEMMA CallFacts ==
  ASSUME TypeOK, CallSound, pc # "idle",
         NEW lev, NEW pre, Shape(lev, pre)
  PROVE  /\ cur.page \in Pages /\ mem \in Memory
         /\ cur.table \in Frames /\ CurIndex \in Indices
         /\ cur.level \in 1 .. 4
         /\ Reaches(mem, cur.page, cur.level, cur.table)
         /\ lev[cur.table] = cur.level
         /\ pre[cur.table] = Number(cur.page, cur.level)
         /\ pc = "walk" /\ cur.level > 1 => ~(CurEntry.present /\ CurEntry.big)
<1> DEFINE p == cur.page
           n == cur.level
           t == cur.table
<1>1. /\ n \in 1 .. 4 /\ Reaches(mem, p, n, t)
      /\ mem \in Memory /\ t \in Frames
  BY DEF CallSound, TypeOK, Memory
<1>2. p \in Pages
  <2>1. CASE phase = "boot"
    <3>1. /\ placed \in Nat /\ kernel \in KernelSizes /\ placed < kernel
          /\ p = KernelStart + placed
      BY <2>1 DEF CallSound, TypeOK
    <3>2. p \in KernelPages
      BY <3>1, KernelPage
    <3> QED
      BY <3>2 DEF Pages
  <2>2. CASE phase # "boot"
    BY <2>2 DEF CallSound, Pages
  <2> QED
    BY <2>1, <2>2
<1>3. Canonical(p) /\ Level(p, n) \in Indices
  BY <1>1, <1>2, PageFacts, Indexing
<1>4. Tree(mem, lev, pre)
  BY DEF Shape
<1>5. lev[t] = n /\ pre[t] = Number(p, n)
  BY <1>1, <1>3, <1>4, ReachesLabel
<1>6. ASSUME pc = "walk", n > 1, CurEntry.present, CurEntry.big
      PROVE  FALSE
  <2> DEFINE e == mem[t][Level(p, n)]
  <2>1. EntrySound(e, n, Number(p, n), Level(p, n), lev, pre)
    BY <1>1, <1>3, <1>4, <1>5 DEF Tree
  <2>2. e.present /\ e.big /\ e \in Entry
    BY <1>1, <1>3, <1>6 DEF CurEntry, CurIndex, Memory
  <2>3. n = 2 /\ Number(p, n) = 0
    BY <1>1, <1>2, <1>6, <2>1, <2>2, PageFacts DEF EntrySound
  <2>4. p \in LowPages
    BY <1>2, <2>3, PageFacts
  <2>5. p \notin MapPages
    BY <2>4, PageRegions
  <2>6. Walk(p) = Unmapped
    BY <1>6, <2>5 DEF CallSound
  <2> HIDE DEF e
  <2>7. EndsAt(mem, p, 2, t)
    BY <1>1, <2>2, <2>3 DEF EndsAt, Leads, e
  <2>8. Translate(mem, p) = Value(e, p, 2)
    BY <1>1, <1>3, <1>4, <2>3, <2>7, EndValue DEF e
  <2>9. Value(e, p, 2) \in Nat
    BY <2>2, <1>2, PageFacts, Constants DEF Value, Entry
  <2> QED
    BY <2>6, <2>8, <2>9, WalkIs, PageAssumption
<1> QED
  BY <1>1, <1>2, <1>3, <1>5, <1>6 DEF CurIndex


-----------------------------------------------------------------------------
(***************************************************************************)
(* The steps that write the tables: what they do to the tree, and to which *)
(* pages.                                                                  *)
(***************************************************************************)
\* No page changes.
Quiet == \A v : Canonical(v) => Walk(v)' = Walk(v)

\* Page p is now mapped to x, and no other page changes.
Remaps(p, x) == \A v : Canonical(v) => Walk(v)' = IF v = p THEN x ELSE Walk(v)

\* The greatest free frame, which the allocator gives.
LEMMA FreeFrame ==
  ASSUME TypeOK, free # {}
  PROVE  Max(free) \in free /\ Max(free) \in Frames
<1>1. Span4 \in Nat \ {0} /\ Frames \subseteq 0 .. Span4 - 1
  BY Constants, PageAssumption
<1>2. free \subseteq FreeFrames /\ FreeFrames \subseteq Frames
  BY PageAssumption DEF TypeOK
<1>3. free \subseteq 0 .. Span4 - 1 /\ Span4 - 1 \in Nat
  BY <1>1, <1>2
<1>4. Max(free) \in free
  BY <1>3, MaxFacts
<1> QED
  BY <1>2, <1>4

\* allocatePage and the link to it: the tree grows, and no page sees it.
LEMMA LinkTableStep ==
  ASSUME TypeOK, CallSound, NEW lev, NEW pre, Shape(lev, pre),
         phase = "boot" => index < BufferPages, LinkTable
  PROVE  /\ mem' \in Memory /\ Quiet /\ \E l, q : Shape(l, q)'
         /\ cur'.table \in Frames /\ cur'.level \in 1 .. 3
         /\ Reaches(mem', cur.page, cur'.level, cur'.table)
<1> DEFINE p == cur.page
           n == cur.level
           t == cur.table
           i == Level(p, n)
<1>1. PICK f : f = IF phase = "boot" THEN BufferStart + index ELSE Max(free)
  OBVIOUS
<1>2. /\ pc = "walk" /\ n > 1 /\ ~CurEntry.present
      /\ phase # "boot" => free # {}
      /\ mem' = Filled(f, [mem EXCEPT ![t][CurIndex] = Link(f)])
      /\ IF phase = "boot" THEN index' = index + 1 /\ UNCHANGED free
         ELSE free' = Taken(f) /\ UNCHANGED index
      /\ cur' = [cur EXCEPT !.table = f, !.level = @ - 1]
      /\ UNCHANGED <<phase, kernel, placed, pc, tlb>>
  BY <1>1 DEF LinkTable
<1>3. /\ p \in Pages /\ mem \in Memory /\ n \in 1 .. 4 /\ Reaches(mem, p, n, t)
      /\ lev[t] = n /\ t \in Frames
  BY <1>2, CallFacts
<1>4. n \in 2 .. 4 /\ Canonical(p) /\ Tree(mem, lev, pre)
  BY <1>2, <1>3, PageFacts DEF Shape
<1>5. /\ f \in Frames /\ lev[f] = 0 /\ free' = free \ {f}
      /\ phase = "boot" => f <= InitPage
      /\ phase # "boot" => f \in free
  <2>1. CASE phase = "boot"
    <3>1. f \in Frames /\ lev[f] = 0 /\ f \in 0 .. InitPage
      BY <1>1, <2>1, Constants DEF Shape, TypeOK, BufferStart
    <3>2. free \subseteq Frames \ (0 .. InitPage)
      BY PageAssumption DEF TypeOK
    <3> QED
      BY <1>2, <2>1, <3>1, <3>2
  <2>2. CASE phase # "boot"
    BY <1>1, <1>2, <2>2, FreeFrame DEF Shape, Taken
  <2> QED
    BY <2>1, <2>2
<1>6. Grown(mem, mem', t, i, f, EmptyTable) /\ ~mem[t][i].present
  BY <1>2 DEF Grown, Filled, CurIndex, CurEntry
<1>7. PICK l, q : /\ l = [lev EXCEPT ![f] = n - 1]
                  /\ q = [pre EXCEPT ![f] = Number(p, n - 1)]
  OBVIOUS
<1>8. /\ mem' \in Memory /\ Tree(mem', l, q) /\ Reaches(mem', p, n - 1, f)
      /\ \A v : Canonical(v) => Translate(mem', v) = Translate(mem, v)
  <2> HIDE DEF p, n, t, i
  <2>1. StopsAt(mem, p, n, t) /\ Grown(mem, mem', t, Level(p, n), f, EmptyTable)
    BY <1>3, <1>4, <1>6 DEF i, StopsAt
  <2>2. /\ mem' \in Memory
        /\ Tree(mem', [lev EXCEPT ![f] = n - 1],
                      [pre EXCEPT ![f] = Number(p, n - 1)])
        /\ Reaches(mem', p, n - 1, f)
        /\ \A v : Canonical(v) => Translate(mem', v) = Translate(mem, v)
    BY <1>3, <1>4, <1>5, <2>1, LinkWrite
  <2> QED
    BY <1>7, <2>2
<1>9. Quiet
  BY <1>8, WalkIs DEF Quiet
<1>10. /\ cur'.table = f /\ cur'.level = n - 1 /\ cur'.frame = cur.frame
  BY <1>2 DEF CallSound
<1>11. \A g \in Frames : g # f => l[g] = lev[g]
  BY <1>4, <1>7 DEF Tree, Labels
<1>12. ASSUME NEW g, Spare(lev, free, g)
       PROVE  Spare(l, free', g)
  <2>1. CASE g \in Frames
    <3>1. g \in Nat /\ lev[g] = 0 /\ g \notin free /\ g > InitPage
      BY <1>12, <2>1 DEF Spare
    <3>2. g # f
      BY <1>5, <3>1, Constants
    <3> QED
      BY <1>5, <1>11, <2>1, <3>1, <3>2 DEF Spare
  <2>2. CASE g \notin Frames
    BY <1>12, <2>2 DEF Spare
  <2> QED
    BY <2>1, <2>2
<1>13. \A g \in free' : l[g] = 0
  <2>1. free \subseteq Frames
    BY PageAssumption DEF TypeOK
  <2> QED
    BY <1>5, <1>11, <2>1 DEF Shape
<1>14. ASSUME phase' = "boot", NEW j \in index' .. BufferPages
       PROVE  l[BufferStart + j] = 0
  <2>1. phase = "boot" /\ index' = index + 1 /\ index \in Nat /\ f = BufferStart + index
    BY <1>1, <1>2, <1>14 DEF TypeOK
  <2>2. j \in index .. BufferPages /\ j # index /\ j \in 0 .. BufferPages
    BY <1>14, <2>1, Constants
  <2>3. lev[BufferStart + j] = 0 /\ BufferStart + j \in Frames
    BY <2>1, <2>2, Constants DEF Shape
  <2>4. BufferStart + j # f
    BY <2>1, <2>2 DEF BufferStart
  <2> QED
    BY <1>11, <2>3, <2>4
<1>15. phase' \in {"boot", "init"} => l[InitPage] = 0
  <2>1. ASSUME phase = "boot" PROVE InitPage # f
    BY <1>1, <2>1, Constants DEF BufferStart, TypeOK
  <2>2. phase # "init"
    BY <1>2 DEF CallSound
  <2> QED
    BY <1>2, <1>11, <2>1, <2>2, Constants DEF Shape
<1>16. \A u \in MapPages : Walk(u)' = Unmapped \/ Spare(l, free', Walk(u)')
  BY <1>9, <1>12, PageRegions DEF Quiet, Shape
<1>17. phase' # "boot" /\ pc' # "idle" => Spare(l, free', cur'.frame)
  BY <1>2, <1>10, <1>12 DEF Shape
<1>18. Shape(l, q)'
  BY <1>8, <1>13, <1>14, <1>15, <1>16, <1>17 DEF Shape
<1> QED
  BY <1>4, <1>5, <1>8, <1>9, <1>10, <1>18


\* A write at the last level of page p: p is mapped anew, and the tree stays.
LEMMA LeafStep ==
  ASSUME TypeOK, NEW lev, NEW pre, Shape(lev, pre),
         NEW p \in Pages, NEW t, Reaches(mem, p, 1, t),
         NEW e \in Entry, Write(t, Level(p, 1), e),
         e.present /\ p \in MapPages => Spare(lev, free, e.frame),
         UNCHANGED <<phase, index, free>>,
         phase # "boot" /\ pc' # "idle" => Spare(lev, free, cur'.frame)
  PROVE  /\ mem' \in Memory /\ mem'[t][Level(p, 1)] = e
         /\ Reaches(mem', p, 1, t)
         /\ Remaps(p, Value(e, p, 1)) /\ Shape(lev, pre)'
<1>1. Canonical(p) /\ mem \in Memory /\ Tree(mem, lev, pre)
  BY PageFacts DEF TypeOK, Memory, Shape
<1>2. Written(mem, mem', t, Level(p, 1), e)
  BY DEF Write, Written
<1>3. /\ mem' \in Memory /\ Tree(mem', lev, pre)
      /\ mem'[t][Level(p, 1)] = e /\ Reaches(mem', p, 1, t)
      /\ \A v : Canonical(v) =>
           Translate(mem', v) = IF v = p THEN Value(e, p, 1)
                                ELSE Translate(mem, v)
  BY <1>1, <1>2, LeafWrite
<1>4. Remaps(p, Value(e, p, 1))
  BY <1>3, WalkIs DEF Remaps
<1>5. ASSUME NEW u \in MapPages
      PROVE  Walk(u)' = Unmapped \/ Spare(lev, free, Walk(u)')
  <2>1. Canonical(u)
    BY PageRegions
  <2>2. CASE u = p
    <3>1. Walk(u)' = IF e.present THEN e.frame ELSE Unmapped
      BY <1>4, <2>1, <2>2 DEF Remaps, Value
    <3> QED
      BY <2>2, <3>1
  <2>3. CASE u # p
    <3>1. Walk(u)' = Walk(u)
      BY <1>4, <2>1, <2>3 DEF Remaps
    <3> QED
      BY <3>1 DEF Shape
  <2> QED
    BY <2>2, <2>3
<1>6. Shape(lev, pre)'
  BY <1>3, <1>5 DEF Shape
<1> QED
  BY <1>3, <1>4, <1>6

\* The last write of boot's map.
LEMMA SetAddressStep ==
  ASSUME TypeOK, CallSound, NEW lev, NEW pre, Shape(lev, pre), setAddress
  PROVE  /\ mem' \in Memory /\ Shape(lev, pre)'
         /\ Remaps(cur.page, cur.frame)
<1>1. /\ phase = "boot" /\ pc = "walk" /\ cur.level = 1
      /\ Write(cur.table, CurIndex, Link(cur.frame)) /\ pc' = "idle"
      /\ UNCHANGED <<phase, index, free>>
  BY DEF setAddress
<1>2. /\ cur.page \in Pages /\ Reaches(mem, cur.page, 1, cur.table)
  BY <1>1, CallFacts
<1>3. cur.page \notin MapPages
  <2>1. /\ placed \in Nat /\ kernel \in KernelSizes /\ placed < kernel
        /\ cur.page = KernelStart + placed
    BY <1>1 DEF CallSound, TypeOK
  <2> QED
    BY <2>1, KernelPage, PageRegions
<1>4. /\ Link(cur.frame) \in Entry /\ Link(cur.frame).present
      /\ Link(cur.frame).frame = cur.frame
  BY DEF Link, Entry, CallSound
<1>5. Write(cur.table, Level(cur.page, 1), Link(cur.frame))
  BY <1>1 DEF CurIndex
<1> DEFINE e == Link(cur.frame)
<1>6. Value(e, cur.page, 1) = cur.frame
  BY <1>4 DEF Value
<1> HIDE DEF e
<1>7. /\ mem' \in Memory /\ Shape(lev, pre)'
      /\ Remaps(cur.page, Value(e, cur.page, 1))
  <2>1. e \in Entry /\ Write(cur.table, Level(cur.page, 1), e)
    BY <1>4, <1>5 DEF e
  <2> QED
    BY <1>1, <1>2, <1>3, <2>1, LeafStep
<1> QED
  BY <1>6, <1>7

\* map writes the frame's number over the last entry, which clears its flags.
LEMMA WriteRawStep ==
  ASSUME TypeOK, CallSound, NEW lev, NEW pre, Shape(lev, pre), WriteRaw
  PROVE  /\ mem' \in Memory /\ Shape(lev, pre)' /\ Remaps(cur.page, Unmapped)
         /\ Reaches(mem', cur.page, 1, cur.table)
         /\ CurEntry' = Clear(cur.frame)
<1>1. /\ phase = "run" /\ pc = "walk" /\ cur.level = 1
      /\ Write(cur.table, CurIndex, Clear(cur.frame)) /\ pc' = "present"
      /\ UNCHANGED <<phase, index, free, cur>>
  BY DEF WriteRaw
<1>2. /\ cur.page \in Pages /\ Reaches(mem, cur.page, 1, cur.table)
  BY <1>1, CallFacts
<1>3. Clear(cur.frame) \in Entry /\ ~Clear(cur.frame).present
  BY DEF Clear, Entry, CallSound
<1>4. Write(cur.table, Level(cur.page, 1), Clear(cur.frame))
  BY <1>1 DEF CurIndex
<1> DEFINE e == Clear(cur.frame)
<1>5. Value(e, cur.page, 1) = Unmapped
  BY <1>3 DEF Value
<1> HIDE DEF e
<1>6. /\ mem' \in Memory /\ mem'[cur.table][Level(cur.page, 1)] = e
      /\ Reaches(mem', cur.page, 1, cur.table)
      /\ Remaps(cur.page, Value(e, cur.page, 1)) /\ Shape(lev, pre)'
  <2>1. e \in Entry /\ Write(cur.table, Level(cur.page, 1), e) /\ ~e.present
    BY <1>3, <1>4 DEF e
  <2>2. phase # "boot" /\ pc' # "idle" => Spare(lev, free, cur'.frame)
    BY <1>1 DEF Shape
  <2> QED
    BY <1>1, <1>2, <2>1, <2>2, LeafStep
<1> QED
  BY <1>1, <1>5, <1>6 DEF CurEntry, CurIndex, e

\* map sets the present flag.
LEMMA SetPresentStep ==
  ASSUME TypeOK, CallSound, NEW lev, NEW pre, Shape(lev, pre), SetPresent
  PROVE  /\ mem' \in Memory /\ Shape(lev, pre)' /\ Remaps(cur.page, cur.frame)
         /\ Reaches(mem', cur.page, 1, cur.table)
<1>1. /\ pc = "present" /\ pc' = "invalidate"
      /\ Write(cur.table, CurIndex, Link(CurEntry.frame))
      /\ UNCHANGED <<phase, index, free, cur>>
  BY DEF SetPresent
<1>2. /\ cur.page \in Pages /\ cur.level = 1 /\ phase # "boot"
      /\ Reaches(mem, cur.page, 1, cur.table) /\ CurEntry.frame = cur.frame
  BY <1>1, CallFacts DEF CallSound, Clear
<1>3. /\ Link(cur.frame) \in Entry /\ Link(cur.frame).present
      /\ Link(cur.frame).frame = cur.frame
  BY DEF Link, Entry, CallSound
<1>4. Write(cur.table, Level(cur.page, 1), Link(cur.frame))
  BY <1>1, <1>2 DEF CurIndex
<1> DEFINE e == Link(cur.frame)
<1>5. Value(e, cur.page, 1) = cur.frame
  BY <1>3 DEF Value
<1> HIDE DEF e
<1>6. /\ mem' \in Memory /\ Reaches(mem', cur.page, 1, cur.table)
      /\ Remaps(cur.page, Value(e, cur.page, 1)) /\ Shape(lev, pre)'
  <2>1. e \in Entry /\ Write(cur.table, Level(cur.page, 1), e)
    BY <1>3, <1>4 DEF e
  <2>2. Spare(lev, free, cur.frame)
    BY <1>1, <1>2 DEF Shape
  <2>3. Spare(lev, free, e.frame) /\ Spare(lev, free, cur'.frame)
    BY <1>1, <1>3, <2>2 DEF e
  <2> QED
    BY <1>1, <1>2, <2>1, <2>3, LeafStep
<1> QED
  BY <1>5, <1>6


\* The pages of the big page of p are no longer mapped, and no other changes.
RemovesBig(p) ==
  \A v : Canonical(v) =>
    Walk(v)' = IF Table1(v) = Table1(p) THEN Unmapped ELSE Walk(v)

\* unmap takes one page away, or the big page it lies in.
LEMMA UnmapStep ==
  ASSUME TypeOK, NEW lev, NEW pre, Shape(lev, pre),
         NEW p \in MapPages \cup LowPages, unmap(p)
  PROVE  /\ mem' \in Memory /\ Shape(lev, pre)'
         /\ Remaps(p, Unmapped) \/ RemovesBig(p)
<1> DEFINE e4 == Entry4(mem, p)
           e3 == Entry3(mem, p)
           e2 == Entry2(mem, p)
<1>1. /\ e4 = At(Root, p, 4) /\ e3 = At(e4.frame, p, 3)
      /\ e2 = At(e3.frame, p, 2)
  BY DEF At, Entry4, Entry3, Entry2
<1> HIDE DEF e4, e3, e2
<1>2. /\ phase = "run" /\ pc = "idle"
      /\ e4.present /\ e3.present /\ e2.present
      /\ IF e2.big THEN Absent(e3.frame, p, 2) ELSE Absent(e2.frame, p, 1)
      /\ UNCHANGED <<phase, kernel, placed, index, free, cur, pc, tlb>>
  BY <1>1 DEF unmap
<1>3. p \in Pages /\ Canonical(p) /\ mem \in Memory /\ Tree(mem, lev, pre)
  BY PageFacts DEF Pages, TypeOK, Memory, Shape
<1>4. \A n \in 1 .. 4 : Level(p, n) \in Indices
  BY <1>3, Indexing
<1>5. Leads(e4)
  <2>1. lev[Root] = 4 /\ Root \in Frames
    BY <1>3, Constants DEF Tree, Labels
  <2>2. EntrySound(e4, 4, pre[Root], Level(p, 4), lev, pre)
    BY <1>3, <1>4, <2>1 DEF Tree, e4, Entry4
  <2> QED
    BY <1>2, <2>2 DEF EntrySound, Leads
<1>6. Reaches(mem, p, 3, e4.frame)
  BY <1>5 DEF Reaches, e4
<1>7. Leads(e3)
  <2>1. /\ e4.frame \in Frames /\ lev[e4.frame] = 3
        /\ pre[e4.frame] = Number(p, 3)
    BY <1>3, <1>6, ReachesLabel
  <2>2. EntrySound(e3, 3, Number(p, 3), Level(p, 3), lev, pre)
    BY <1>3, <1>4, <2>1 DEF Tree, e3, Entry3, e4
  <2>3. Number(p, 3) # 3
    BY <1>3, PageFacts
  <2> QED
    BY <1>2, <2>2, <2>3 DEF EntrySound, Leads
<1>8. Reaches(mem, p, 2, e3.frame)
  BY <1>5, <1>7 DEF Reaches, e4, e3
<1>9. CASE e2.big
  <2> DEFINE t == e3.frame
             e == [At(t, p, 2) EXCEPT !.present = FALSE]
  <2>1. t \in Frames
    BY <1>3, <1>8, ReachesLabel
  <2>2. At(t, p, 2) \in Entry /\ At(t, p, 2).big
    <3>1. mem[t][Level(p, 2)] \in Entry
      <4> HIDE DEF t
      <4> QED
        BY <1>3, <1>4, <2>1, SMTT(60) DEF Memory
    <3>2. At(t, p, 2) = mem[t][Level(p, 2)] /\ At(t, p, 2) = e2
      BY <1>1 DEF At
    <3> QED
      BY <1>9, <3>1, <3>2
  <2>3. e \in Entry /\ e.big /\ ~e.present
    BY <2>2 DEF Entry
  <2>4. Write(t, Level(p, 2), e)
    BY <1>2, <1>9 DEF Absent
  <2> HIDE DEF e
  <2>5. Written(mem, mem', t, Level(p, 2), e) /\ mem[t][Level(p, 2)].big
    BY <2>2, <2>4 DEF Written, Write, At
  <2> HIDE DEF t
  <2>6. /\ mem' \in Memory /\ Tree(mem', lev, pre)
        /\ \A v : Canonical(v) =>
             Translate(mem', v) = IF Table1(v) = Table1(p) THEN Unmapped
                                  ELSE Translate(mem, v)
    <3>1. Reaches(mem, p, 2, t)
      BY <1>8 DEF t
    <3> QED
      BY <1>3, <2>3, <2>5, <3>1, BigWrite
  <2>7. RemovesBig(p)
    BY <2>6, WalkIs DEF RemovesBig
  <2>8. ASSUME NEW u \in MapPages
        PROVE  Walk(u)' = Unmapped \/ Spare(lev, free, Walk(u)')
    <3>1. Walk(u)' = Unmapped \/ Walk(u)' = Walk(u)
      BY <2>7, PageRegions DEF RemovesBig
    <3> QED
      BY <3>1 DEF Shape
  <2>9. Shape(lev, pre)'
    BY <1>2, <2>6, <2>8 DEF Shape
  <2> QED
    BY <2>6, <2>7, <2>9
<1>10. CASE ~e2.big
  <2> DEFINE t == e2.frame
             e == [At(t, p, 1) EXCEPT !.present = FALSE]
  <2>1. Reaches(mem, p, 1, t)
    BY <1>2, <1>5, <1>7, <1>10 DEF Reaches, Leads, e4, e3, e2
  <2>2. t \in Frames
    BY <1>3, <2>1, ReachesLabel
  <2>3. At(t, p, 1) \in Entry
    BY <1>3, <1>4, <2>2 DEF At, Memory
  <2>4. e \in Entry /\ ~e.present
    BY <2>3 DEF Entry
  <2>5. Write(t, Level(p, 1), e)
    BY <1>2, <1>10 DEF Absent
  <2> HIDE DEF e, t
  <2>6. Value(e, p, 1) = Unmapped
    BY <2>4 DEF Value
  <2>7. UNCHANGED <<phase, index, free>> /\ pc' = "idle"
    BY <1>2
  <2>8. /\ mem' \in Memory /\ Shape(lev, pre)' /\ Remaps(p, Value(e, p, 1))
    BY <1>3, <2>1, <2>4, <2>5, <2>7, LeafStep
  <2> QED
    BY <2>6, <2>8
<1> QED
  BY <1>9, <1>10

\* PageTable::init shows every frame in the window, and changes no other page.
LEMMA InitStep ==
  ASSUME TypeOK, CallSound, NEW lev, NEW pre, Shape(lev, pre), init
  PROVE  /\ mem' \in Memory /\ \E l, q : Shape(l, q)'
         /\ \A v \in Pages : Walk(v)' = Walk(v)
         /\ \A f \in Frames : Walk(mapPages(f))' = f
<1>1. /\ phase = "init" /\ phase' = "run" /\ pc = "idle"
      /\ mem' = [mem EXCEPT ![Root][Level(WindowStart, 4)] = Link(InitPage),
                            ![InitPage] = [i \in Indices |-> WindowEntry(i)]]
      /\ UNCHANGED <<kernel, placed, index, free, cur, pc, tlb>>
  BY DEF init, CallSound
<1>2. mem \in Memory /\ Tree(mem, lev, pre) /\ lev[InitPage] = 0
  BY <1>1 DEF TypeOK, Memory, Shape
<1>3. Grown(mem, mem', Root, Level(WindowStart, 4), InitPage,
            [i \in Indices |-> WindowEntry(i)])
  BY <1>1 DEF Grown
<1>4. PICK l, q : /\ l = [lev EXCEPT ![InitPage] = 3]
                  /\ q = [pre EXCEPT ![InitPage] = 3]
  OBVIOUS
<1>5. /\ mem' \in Memory /\ Tree(mem', l, q)
      /\ \A v : Canonical(v) /\ Table3(v) # 3 =>
           Translate(mem', v) = Translate(mem, v)
      /\ \A f \in Frames : Translate(mem', mapPages(f)) = f
  <2>1. /\ mem' \in Memory
        /\ Tree(mem', [lev EXCEPT ![InitPage] = 3], [pre EXCEPT ![InitPage] = 3])
        /\ \A v : Canonical(v) /\ Table3(v) # 3 =>
             Translate(mem', v) = Translate(mem, v)
        /\ \A f \in Frames : Translate(mem', mapPages(f)) = f
    BY <1>2, <1>3, WindowWrite
  <2> QED
    BY <1>4, <2>1
<1>6. \A v \in Pages : Walk(v)' = Walk(v)
  BY <1>5, WalkIs, PageFacts
<1>7. \A f \in Frames : Walk(mapPages(f))' = f
  BY <1>5, WalkIs
<1>8. Shape(l, q)'
  <2>1. \A g \in Frames : g # InitPage => l[g] = lev[g]
    BY <1>2, <1>4 DEF Tree, Labels
  <2>2. free \subseteq Frames \ (0 .. InitPage) /\ InitPage \in Nat
    BY PageAssumption, Constants DEF TypeOK
  <2>3. \A g \in free' : l[g] = 0
    BY <1>1, <2>1, <2>2 DEF Shape
  <2>4. ASSUME NEW g, Spare(lev, free, g) PROVE Spare(l, free', g)
    BY <1>1, <2>1, <2>2, <2>4 DEF Spare
  <2>5. \A u \in MapPages : Walk(u)' = Unmapped \/ Spare(l, free', Walk(u)')
    BY <1>6, <2>4 DEF Pages, Shape
  <2> QED
    BY <1>1, <1>5, <2>3, <2>5 DEF Shape
<1> QED
  BY <1>5, <1>6, <1>7, <1>8


-----------------------------------------------------------------------------
(***************************************************************************)
(* The parts of the invariant the steps have in common.                    *)
(***************************************************************************)
\* A step that does not write the tables changes no page.
LEMMA MemKept ==
  ASSUME UNCHANGED mem
  PROVE  \A v : Walk(v)' = Walk(v)
BY WalkIs

\* What a step does to page p it does to no page of another level-4 entry.
LEMMA Apart ==
  ASSUME NEW p \in Pages, NEW x, Remaps(p, x) \/ RemovesBig(p)
  PROVE  /\ \A f \in Frames : Walk(mapPages(f))' = Walk(mapPages(f))
         /\ p \in MapPages \cup LowPages =>
              \A v \in KernelPages : Walk(v)' = Walk(v)
<1>1. ASSUME NEW v, Canonical(v), Table3(v) # Table3(p)
      PROVE  Walk(v)' = Walk(v)
  <2>1. Canonical(p)
    BY PageFacts
  <2>2. Table1(v) # Table1(p)
    <3>1. /\ Table2(v) = Table1(v) \div Fan /\ Table3(v) = Table2(v) \div Fan
          /\ Table2(p) = Table1(p) \div Fan /\ Table3(p) = Table2(p) \div Fan
      BY <1>1, <2>1, TableNumbers DEF Canonical
    <3> QED
      BY <1>1, <3>1, Zenon
  <2>3. v # p
    BY <1>1
  <2> QED
    BY <1>1, <2>2, <2>3 DEF Remaps, RemovesBig
<1>2. \A f \in Frames : Walk(mapPages(f))' = Walk(mapPages(f))
  BY <1>1, PageFacts, PageRegions
<1>3. p \in MapPages \cup LowPages =>
        \A v \in KernelPages : Walk(v)' = Walk(v)
  BY <1>1, PageRegions
<1> QED
  BY <1>2, <1>3

\* The kernel image stays mapped while its pages do not change.
LEMMA ImageKept ==
  ASSUME TypeOK, ImageSound, UNCHANGED <<kernel, placed>>,
         phase' = "boot" => phase = "boot",
         \A v \in KernelPages : Walk(v)' = Walk(v)
  PROVE  ImageSound'
<1>1. \A i \in 0 .. placed - 1 : KernelStart + i \in KernelPages
  <2>1. kernel \in KernelSizes /\ kernel \in Nat /\ placed \in Nat /\ placed <= kernel
    <3>1. kernel \in KernelSizes /\ placed \in 0 .. kernel
      BY DEF TypeOK
    <3>2. kernel \in 0 .. Span4 /\ Span4 \in Nat
      BY <3>1, PageAssumption, Constants
    <3> QED
      BY <3>1, <3>2
  <2>2. \A i \in 0 .. placed - 1 : i \in Nat /\ i < kernel
    BY <2>1
  <2> QED
    BY <2>1, <2>2, KernelPage
<1>2. ASSUME NEW i \in 0 .. placed' - 1
      PROVE  Walk(KernelStart + i)' = ImageStart + i
  BY <1>1, <1>2 DEF ImageSound
<1>3. ASSUME phase' = "boot", NEW v \in KernelPages, v >= KernelStart + placed'
      PROVE  Walk(v)' = Unmapped
  BY <1>3 DEF ImageSound
<1> QED
  BY <1>2, <1>3 DEF ImageSound

\* So does the window.
LEMMA WindowKept ==
  ASSUME WindowComplete, phase' = "run" => phase = "run",
         \A f \in Frames : Walk(mapPages(f))' = Walk(mapPages(f))
  PROVE  WindowComplete'
<1>1. ASSUME phase' = "run", NEW f \in Frames
      PROVE  Walk(mapPages(f))' = f
  BY <1>1 DEF WindowComplete
<1> QED
  BY <1>1 DEF WindowComplete

\* A step that only forgets translations, and leaves pages as they are or takes
\* them away, contradicts no translation.
LEMMA TlbKept ==
  ASSUME TlbSound,
         \A v \in Pages :
           \/ tlb'[v] = Unmapped
           \/ pc' = "invalidate" /\ v = cur'.page
           \/ /\ tlb'[v] = tlb[v] /\ Walk(v)' \in {Walk(v), Unmapped}
              /\ ~(pc = "invalidate" /\ v = cur.page)
  PROVE  TlbSound'
<1> SUFFICES ASSUME NEW v \in Pages, tlb'[v] # Unmapped,
                    ~(pc' = "invalidate" /\ v = cur'.page)
             PROVE  Walk(v)' \in {Unmapped, tlb'[v]}
  BY DEF TlbSound
<1>1. /\ tlb'[v] = tlb[v] /\ Walk(v)' \in {Walk(v), Unmapped}
      /\ ~(pc = "invalidate" /\ v = cur.page)
  OBVIOUS
<1> QED
  BY <1>1 DEF TlbSound


-----------------------------------------------------------------------------
(***************************************************************************)
(* pageBuffer is large enough.                                             *)
(***************************************************************************)
\* Quotients grow with their numerators.
LEMMA DivMonotone ==
  ASSUME NEW P \in Nat \ {0}, NEW a \in Nat, NEW b \in Nat, a <= b
  PROVE  a \div P <= b \div P /\ a \div P \in Nat /\ b \div P \in Nat
<1> DEFINE d == a \div P
<1>1. d \in Nat /\ d * P \in Nat /\ d * P <= a /\ b \div P \in Nat
  BY DivFacts
<1> HIDE DEF d
<1>2. d * P <= b
  BY <1>1
<1>3. d <= b \div P
  BY <1>1, <1>2, QuotientAtLeast
<1> QED
  BY <1>1, <1>3 DEF d

\* Page k of the kernel image starts a new table below level n of its walk.
Starts(k, n) ==
  \/ k = 0
  \/ n = 3 /\ k \div GiB # (k - 1) \div GiB
  \/ n = 2 /\ k \div Fan # (k - 1) \div Fan

\* A step down the walk needs one table more where the page starts one, and the
\* page's last table is the next one's due.
LEMMA NeededStep ==
  ASSUME NEW k \in Nat, NEW n \in 2 .. 4
  PROVE  /\ Needed(k, n) \in Nat /\ Needed(k, n) <= Needed(k, n - 1)
         /\ Starts(k, n) => Needed(k, n) + 1 <= Needed(k, n - 1)
         /\ Needed(k, 1) = Needed(k + 1, 4)
<1>1. CASE k = 0
  <2>1. 0 \div Fan = 0 /\ 0 \div GiB = 0
    BY Constants
  <2> QED
    BY <1>1, <2>1 DEF Needed
<1>2. CASE k # 0
  <2> DEFINE a == (k - 1) \div Fan
             b == k \div Fan
             c == (k - 1) \div GiB
             d == k \div GiB
  <2>1. /\ a \in Nat /\ b \in Nat /\ c \in Nat /\ d \in Nat
        /\ a <= b /\ c <= d
    BY <1>2, DivMonotone, Constants
  <2>2. k + 1 # 0 /\ k + 1 - 1 = k
    OBVIOUS
  <2> HIDE DEF a, b, c, d
  <2>3. \A j \in 1 .. 4 :
          Needed(k, j) = 3 + (IF j = 1 THEN b ELSE a)
                           + (IF j = 1 \/ j = 2 THEN d ELSE c)
    BY <1>2 DEF Needed, a, b, c, d
  <2>4. Needed(k + 1, 4) = 3 + b + d
    BY <2>2 DEF Needed, b, d
  <2>5. Starts(k, n) => (n = 3 /\ d # c) \/ (n = 2 /\ b # a)
    BY <1>2 DEF Starts, a, b, c, d
  <2> QED
    BY <2>1, <2>3, <2>4, <2>5
<1> QED
  BY <1>1, <1>2

\* A kernel image that passes the size test needs no more than pageBuffer has.
LEMMA NeededFits ==
  ASSUME NEW k \in Nat, NEW size \in Nat, k < size, size <= MaxKernelPages,
         NEW n \in 1 .. 4
  PROVE  Needed(k, n) \in Nat /\ Needed(k, n) <= BufferPages
<1>1. /\ Fan \in Nat \ {0} /\ Fan >= 4 /\ GiB = Fan * Fan /\ GiB \in Nat \ {0}
      /\ BufferPages \in Nat /\ BufferPages >= 3 /\ BufferPages <= 2 * Fan + 3
  BY Constants, PageAssumption
<1>2. PICK m \in Nat : m = BufferPages - 3
  BY <1>1
<1>3. k < m * Fan /\ m <= 2 * Fan
  BY <1>1, <1>2 DEF MaxKernelPages
<1> DEFINE b == k \div Fan
           d == k \div GiB
<1>4. b \in Nat /\ d \in Nat
  BY <1>1, DivFacts
<1>5. ~(m <= b)
  BY <1>1, <1>3, QuotientAtLeast
<1>6. d <= 1
  <2>1. d = b \div Fan
    <3>1. (k \div Fan) \div Fan = k \div (Fan * Fan)
      BY <1>1, DivDiv
    <3> QED
      BY <1>1, <3>1, Zenon
  <2>2. b < 2 * Fan
    <3> HIDE DEF b
    <3>1. PICK f \in Nat : f = 2 * Fan
      BY <1>1
    <3>2. b < f
      BY <1>3, <1>4, <1>5, <3>1
    <3> QED
      BY <3>1, <3>2
  <2>3. ~(2 <= b \div Fan)
    <3> HIDE DEF b
    <3> QED
      BY <1>1, <1>4, <2>2, QuotientAtLeast
  <2> QED
    BY <1>4, <2>1, <2>3
<1>7. Needed(k, 1) \in Nat /\ Needed(k, 1) <= BufferPages
  <2> HIDE DEF b, d
  <2>1. Needed(k, 1) \in {3, 3 + b + d}
    BY DEF Needed, b, d
  <2> QED
    BY <1>1, <1>2, <1>4, <1>5, <1>6, <2>1
<1>8. /\ Needed(k, 2) \in Nat /\ Needed(k, 2) <= Needed(k, 1)
      /\ Needed(k, 3) \in Nat /\ Needed(k, 3) <= Needed(k, 2)
      /\ Needed(k, 4) \in Nat /\ Needed(k, 4) <= Needed(k, 3)
  <2>1. \A j \in 2 .. 4 : Needed(k, j) \in Nat /\ Needed(k, j) <= Needed(k, j - 1)
    BY NeededStep
  <2> QED
    BY <2>1
<1>9. n = 1 \/ n = 2 \/ n = 3 \/ n = 4
  OBVIOUS
<1> QED
  BY <1>1, <1>7, <1>8, <1>9

\* The pages of a walk that goes all the way down share it with the next page
\* until that page starts a table of its own.
LEMMA EntryPresent ==
  ASSUME NEW m, NEW u, Canonical(u), NEW v, Canonical(v), NEW n \in 2 .. 4,
         NEW x, Reaches(m, u, 1, x), Number(u, n - 1) = Number(v, n - 1),
         NEW t, Reaches(m, v, n, t)
  PROVE  m[t][Level(v, n)].present
<1>1. PICK w : Reaches(m, u, n - 1, w)
  <2>1. /\ Reaches(m, u, 3, Entry4(m, u).frame)
        /\ Reaches(m, u, 2, Entry3(m, u).frame)
        /\ Reaches(m, u, 1, x)
    BY DEF Reaches
  <2>2. n - 1 = 3 \/ n - 1 = 2 \/ n - 1 = 1
    OBVIOUS
  <2> QED
    BY <2>1, <2>2
<1>2. Reaches(m, v, n - 1, w)
  <2>1. n - 1 \in 1 .. 4
    OBVIOUS
  <2> QED
    BY <1>1, <2>1, SameTables
<1>3. PICK y : LeadsTo(m, v, n, y, w)
  <2>1. n - 1 \in 1 .. 3 /\ (n - 1) + 1 = n
    OBVIOUS
  <2>2. \E y : LeadsTo(m, v, (n - 1) + 1, y, w)
    BY <1>2, <2>1, Above
  <2> QED
    BY <2>1, <2>2
<1>4. y = t
  BY <1>3 DEF LeadsTo, Reaches
<1> QED
  BY <1>3, <1>4 DEF LeadsTo, Leads

\* A page that is mapped, and not by a big page, has a walk all the way down.
LEMMA SmallPage ==
  ASSUME NEW m \in Memory, NEW lev, NEW pre, Tree(m, lev, pre),
         NEW v \in Pages, v \notin LowPages, Translate(m, v) # Unmapped
  PROVE  \E x : Reaches(m, v, 1, x)
<1>1. Canonical(v) /\ Number(v, 3) # 3 /\ Number(v, 2) # 0
  BY PageFacts
<1>2. PICK n \in 1 .. 4 : \E t : EndsAt(m, v, n, t)
  BY LastTable
<1>3. PICK t : EndsAt(m, v, n, t)
  BY <1>2
<1>4. Reaches(m, v, n, t) /\ (n = 1 \/ ~Leads(m[t][Level(v, n)]))
  BY <1>3 DEF EndsAt
<1>5. /\ t \in Frames /\ lev[t] = n /\ pre[t] = Number(v, n)
      /\ Level(v, n) \in Indices
  BY <1>1, <1>4, ReachesLabel, Indexing
<1>6. Translate(m, v) = Value(m[t][Level(v, n)], v, n)
  BY <1>1, <1>3, EndValue
<1>7. m[t][Level(v, n)].present
  BY <1>6 DEF Value
<1>8. EntrySound(m[t][Level(v, n)], n, Number(v, n), Level(v, n), lev, pre)
  BY <1>5 DEF Tree
<1>9. n = 1
  BY <1>1, <1>4, <1>7, <1>8, Levels DEF EntrySound, Leads
<1> QED
  BY <1>4, <1>9


\* A table is linked while booting only where the page of the kernel image
\* starts one, so that there is a page left of pageBuffer to make it of.
LEMMA LinkCount ==
  ASSUME TypeOK, CallSound, ImageSound, CountSound,
         NEW lev, NEW pre, Shape(lev, pre), LinkTable, phase = "boot"
  PROVE  index < BufferPages /\ index + 1 <= Needed(placed, cur.level - 1)
<1> DEFINE k == placed
           n == cur.level
           p == cur.page
           t == cur.table
<1>1. pc = "walk" /\ n > 1 /\ ~CurEntry.present
  BY DEF LinkTable
<1>2. /\ kernel \in KernelSizes /\ kernel \in Nat /\ k \in Nat /\ k < kernel
      /\ kernel <= MaxKernelPages /\ p = KernelStart + k /\ index \in Nat
  <2>1. kernel \in KernelSizes /\ placed \in 0 .. kernel /\ index \in Nat
    BY DEF TypeOK
  <2>2. kernel \in 0 .. Span4 /\ Span4 \in Nat
    BY <2>1, PageAssumption, Constants
  <2> QED
    BY <1>1, <2>1, <2>2 DEF CallSound
<1>3. /\ n \in 2 .. 4 /\ Reaches(mem, p, n, t)
      /\ mem \in Memory /\ Tree(mem, lev, pre)
  BY <1>1, CallFacts DEF Shape
<1>4. /\ Canonical(p) /\ Table3(p) = 1
      /\ Table1(p) = GiB + (k \div Fan) /\ Table2(p) = Fan + (k \div GiB)
  BY <1>2, KernelPage
<1>5. ~mem[t][Level(p, n)].present
  BY <1>1 DEF CurEntry, CurIndex
<1>6. Starts(k, n)
  <2> SUFFICES ASSUME ~Starts(k, n) PROVE FALSE
    OBVIOUS
  <2>1. PICK j \in Nat : j = k - 1
    BY <1>2 DEF Starts
  <2> DEFINE u == KernelStart + j
  <2>2. j \in 0 .. placed - 1 /\ j < kernel
    BY <1>2, <2>1
  <2>3. /\ u \in KernelPages /\ Canonical(u) /\ Table3(u) = 1
        /\ Table1(u) = GiB + (j \div Fan) /\ Table2(u) = Fan + (j \div GiB)
    BY <1>2, <2>2, KernelPage
  <2>4. Translate(mem, u) # Unmapped
    <3>1. Walk(u) = ImageStart + j
      BY <2>2 DEF ImageSound
    <3>2. ImageStart + j \in Nat
      BY <2>1 DEF ImageStart
    <3>3. Walk(u) = Translate(mem, u)
      BY WalkIs
    <3> QED
      BY <3>1, <3>2, <3>3, PageAssumption
  <2>5. u \in Pages /\ u \notin LowPages
    BY <2>3, PageRegions DEF Pages
  <2> HIDE DEF u
  <2>6. PICK x : Reaches(mem, u, 1, x)
    BY <1>3, <2>4, <2>5, SmallPage
  <2>7. Number(u, n - 1) = Number(p, n - 1)
    <3>1. CASE n = 4
      BY <1>4, <2>3, <3>1 DEF Number
    <3>2. CASE n = 3
      <4>1. k \div GiB = j \div GiB
        BY <2>1, <3>2 DEF Starts
      <4>2. Table2(u) = Table2(p)
        BY <1>4, <2>3, <4>1
      <4> QED
        BY <3>2, <4>2 DEF Number
    <3>3. CASE n = 2
      <4>1. k \div Fan = j \div Fan
        BY <2>1, <3>3 DEF Starts
      <4>2. Table1(u) = Table1(p)
        BY <1>4, <2>3, <4>1
      <4> QED
        BY <3>3, <4>2 DEF Number
    <3> QED
      BY <1>3, <3>1, <3>2, <3>3
  <2> QED
    BY <1>3, <1>4, <1>5, <2>3, <2>6, <2>7, EntryPresent
<1>7. /\ Needed(k, n) \in Nat /\ Needed(k, n) + 1 <= Needed(k, n - 1)
  BY <1>2, <1>3, <1>6, NeededStep
<1>8. Needed(k, n - 1) \in Nat /\ Needed(k, n - 1) <= BufferPages
  <2>1. PICK j \in 1 .. 4 : j = n - 1
    BY <1>3
  <2> QED
    BY <1>2, <2>1, NeededFits
<1>9. index <= Needed(k, n)
  BY <1>1, <1>2 DEF CountSound
<1> QED
  BY <1>2, <1>7, <1>8, <1>9, Constants

-----------------------------------------------------------------------------
(***************************************************************************)
(* Every step keeps the invariant.                                         *)
(***************************************************************************)
\* A step of the processor, or one after which nothing happens any more, or the
\* one that ends boot.
Still ==
  /\ UNCHANGED <<mem, kernel, placed, index, free, cur, pc>>
  /\ \/ phase' = phase
     \/ /\ phase' = "stopped" \/ (phase = "boot" /\ phase' = "init")
        /\ phase # "run" => phase = "boot" /\ pc = "idle"
  /\ tlb' \in [Pages -> Nat \cup {Unmapped}]
  /\ \A v \in Pages : tlb'[v] \in {tlb[v], Unmapped, Walk(v)}

LEMMA StandStill ==
  ASSUME PageInv, Still
  PROVE  PageInv'
<1> USE DEF Still
<1>1. /\ TypeOK /\ CallSound /\ ImageSound /\ CountSound /\ WindowComplete
      /\ TlbSound
  BY DEF PageInv
<1>2. PICK lev, pre : Shape(lev, pre)
  BY DEF PageInv
<1>3. \A v : Walk(v)' = Walk(v)
  BY MemKept
<1>4. TypeOK'
  BY <1>1 DEF TypeOK
<1>5. CallSound'
  <2>1. phase' # "boot" /\ pc' # "idle" => phase # "boot"
    OBVIOUS
  <2>2. phase' = "boot" => phase = "boot"
    OBVIOUS
  <2>3. phase' = "init" => pc = "idle"
    BY <1>1 DEF CallSound
  <2>4. CurEntry' = CurEntry
    BY DEF CurEntry, CurIndex
  <2> QED
    BY <1>1, <1>3, <2>1, <2>2, <2>3, <2>4 DEF CallSound
<1>6. ImageSound'
  BY <1>1, <1>3, ImageKept
<1>7. CountSound'
  BY <1>1 DEF CountSound
<1>8. WindowComplete'
  BY <1>1, <1>3, WindowKept
<1>9. TlbSound'
  <2> SUFFICES ASSUME NEW v \in Pages
               PROVE  \/ pc' = "invalidate" /\ v = cur'.page
                      \/ tlb'[v] = Unmapped
                      \/ Walk(v)' \in {Unmapped, tlb'[v]}
    BY DEF TlbSound
  <2>1. Walk(v)' = Walk(v) /\ tlb'[v] \in {tlb[v], Unmapped, Walk(v)}
    BY <1>3
  <2> QED
    BY <1>1, <2>1 DEF TlbSound
<1>10. Shape(lev, pre)'
  <2>1. \A u \in MapPages : Walk(u)' = Unmapped \/ Spare(lev, free', Walk(u)')
    BY <1>2, <1>3 DEF Shape
  <2>2. phase' # "boot" /\ pc' # "idle" => phase # "boot" /\ pc # "idle"
    OBVIOUS
  <2>3. /\ phase' = "boot" => phase = "boot"
        /\ phase' \in {"boot", "init"} => phase \in {"boot", "init"}
    OBVIOUS
  <2> QED
    BY <1>2, <2>1, <2>2, <2>3 DEF Shape
<1> QED
  BY <1>4, <1>5, <1>6, <1>7, <1>8, <1>9, <1>10 DEF PageInv


\* A call of map begins: at boot, and later.
LEMMA BeginKeeps ==
  ASSUME PageInv, NEW v, NEW f,
         \/ MapKernelPage /\ v = KernelStart + placed /\ f = ImageStart + placed
         \/ v \in MapPages \cup LowPages /\ f \in CallerFrames /\ map(v, f)
  PROVE  PageInv' /\ v \in Pages /\ Begin(v, f) /\ UNCHANGED mem
<1>1. /\ TypeOK /\ CallSound /\ ImageSound /\ CountSound /\ WindowComplete
      /\ TlbSound
  BY DEF PageInv
<1>2. PICK lev, pre : Shape(lev, pre)
  BY DEF PageInv
<1>3. /\ pc = "idle" /\ pc' = "walk"
      /\ cur' = [page |-> v, frame |-> f, table |-> Root, level |-> 4]
      /\ UNCHANGED <<mem, phase, kernel, placed, index, tlb>>
      /\ Begin(v, f)
  BY DEF MapKernelPage, map, Begin
<1>4. \A u : Walk(u)' = Walk(u)
  BY <1>3, MemKept
<1>5. CASE MapKernelPage /\ v = KernelStart + placed /\ f = ImageStart + placed
  <2>1. /\ phase = "boot" /\ kernel <= MaxKernelPages /\ placed < kernel
        /\ kernel \in KernelSizes /\ placed \in Nat /\ UNCHANGED free
    BY <1>1, <1>5 DEF MapKernelPage, TypeOK
  <2>2. v \in KernelPages /\ v \notin MapPages
    BY <1>5, <2>1, KernelPage, PageRegions
  <2>3. v \in Nat /\ v \in Pages /\ f \in Nat
    BY <1>5, <2>1, <2>2, PageFacts DEF Pages, ImageStart
  <2>4. Walk(v) = Unmapped
    <3>1. v >= KernelStart + placed
      BY <1>5, <2>3
    <3> QED
      BY <1>1, <2>1, <2>2, <3>1 DEF ImageSound
  <2>5. CallSound'
    BY <1>3, <1>4, <1>5, <2>1, <2>2, <2>3, <2>4, Constants DEF CallSound, Reaches
  <2>6. CountSound'
    BY <1>1, <1>3, <2>1 DEF CountSound
  <2>7. Shape(lev, pre)'
    BY <1>2, <1>3, <1>4, <2>1 DEF Shape
  <2> QED
    BY <1>3, <2>1, <2>3, <2>5, <2>6, <2>7,
       <1>1, <1>4, ImageKept, WindowKept, TlbKept,
       Constants DEF PageInv, TypeOK
<1>6. CASE v \in MapPages \cup LowPages /\ f \in CallerFrames /\ map(v, f)
  <2>1. /\ phase = "run" /\ free' = free \ {f}
        /\ v \in LowPages => Walk(v) = Unmapped
    BY <1>6 DEF map
  <2>2. v \in Nat /\ v \in Pages
    BY <1>6, PageFacts DEF Pages
  <2>3. Spare(lev, free', f)
    <3>1. CASE f = DeviceFrame
      BY <3>1, PageAssumption DEF Spare, DeviceFrame, ImageStart
    <3>2. CASE f # DeviceFrame
      <4>1. f = Max(free) /\ free # {}
        BY <1>6, <3>2 DEF CallerFrames
      <4>2. f \in free /\ f \in Frames
        BY <1>1, <4>1, FreeFrame
      <4>3. f \in Nat /\ f > InitPage
        BY <1>1, <4>2, PageAssumption, Constants DEF TypeOK
      <4> QED
        BY <1>2, <2>1, <4>2, <4>3 DEF Spare, Shape
    <3> QED
      BY <3>1, <3>2
  <2>4. f \in Nat
    BY <2>3 DEF Spare
  <2>5. CallSound'
    BY <1>3, <1>4, <1>6, <2>1, <2>2, <2>4, Constants DEF CallSound, Reaches
  <2>6. CountSound'
    BY <1>1, <1>3, <2>1 DEF CountSound
  <2>7. Shape(lev, pre)'
    <3>1. ASSUME NEW g, Spare(lev, free, g) PROVE Spare(lev, free', g)
      BY <2>1, <3>1 DEF Spare
    <3>2. \A u \in MapPages : Walk(u)' = Unmapped \/ Spare(lev, free', Walk(u)')
      BY <1>2, <1>4, <3>1 DEF Shape
    <3> QED
      BY <1>2, <1>3, <2>1, <2>3, <3>2 DEF Shape
  <2> QED
    BY <1>3, <2>1, <2>2, <2>5, <2>6, <2>7,
       <1>1, <1>4, ImageKept, WindowKept, TlbKept,
       Constants DEF PageInv, TypeOK
<1> QED
  BY <1>5, <1>6

\* The walk goes down to a table there is.
LEMMA DescendKeeps ==
  ASSUME PageInv, Descend
  PROVE  PageInv'
<1>1. /\ TypeOK /\ CallSound /\ ImageSound /\ CountSound /\ WindowComplete
      /\ TlbSound
  BY DEF PageInv
<1>2. PICK lev, pre : Shape(lev, pre)
  BY DEF PageInv
<1>3. /\ pc = "walk" /\ cur.level > 1 /\ CurEntry.present
      /\ cur' = [cur EXCEPT !.table = CurEntry.frame, !.level = @ - 1]
      /\ UNCHANGED <<mem, phase, kernel, placed, index, free, pc, tlb>>
  BY DEF Descend
<1>4. \A u : Walk(u)' = Walk(u)
  BY <1>3, MemKept
<1>5. /\ cur.page \in Pages /\ mem \in Memory /\ cur.level \in 2 .. 4
      /\ Reaches(mem, cur.page, cur.level, cur.table)
      /\ Leads(CurEntry) /\ Canonical(cur.page) /\ Tree(mem, lev, pre)
  BY <1>1, <1>2, <1>3, CallFacts, PageFacts DEF Leads, Shape
<1>6. Reaches(mem, cur.page, cur.level - 1, CurEntry.frame)
  BY <1>5, Below DEF CurEntry, CurIndex
<1>7. CurEntry.frame \in Frames
  <2>1. PICK n \in 1 .. 4 : n = cur.level - 1
    BY <1>5
  <2> QED
    BY <1>2, <1>5, <1>6, <2>1, ReachesLabel
<1>8. /\ cur'.page = cur.page /\ cur'.frame = cur.frame
      /\ cur'.table = CurEntry.frame /\ cur'.level = cur.level - 1
      /\ cur' \in [page : Nat, frame : Nat, table : Frames, level : 0 .. 4]
  <2>1. cur \in [page : Nat, frame : Nat, table : Frames, level : 0 .. 4]
    BY <1>1 DEF CallSound
  <2>2. cur.level - 1 \in 0 .. 4
    BY <1>5
  <2> QED
    BY <1>3, <1>7, <2>1, <2>2
<1>9. CallSound'
  <2>1. Reaches(mem', cur'.page, cur'.level, cur'.table) /\ cur'.level \in 1 .. 4
    BY <1>3, <1>5, <1>6, <1>8
  <2> QED
    BY <1>1, <1>3, <1>4, <1>8, <2>1 DEF CallSound
<1>10. CountSound'
  <2>1. placed \in Nat /\ index \in Nat
    BY <1>1 DEF TypeOK
  <2>2. PICK k \in Nat, n \in 2 .. 4 : k = placed /\ n = cur.level
    BY <1>5, <2>1
  <2>3. /\ Needed(k, n) \in Nat /\ Needed(k, n) <= Needed(k, n - 1)
    BY NeededStep
  <2>4. Needed(k, n - 1) \in Nat \/ ~(phase = "boot" /\ kernel <= MaxKernelPages)
    <3>1. ASSUME phase = "boot" PROVE Needed(k, n - 1) \in Nat
      <4>1. PICK j \in 1 .. 4 : j = n - 1
        OBVIOUS
      <4>2. kernel \in Nat /\ k < kernel /\ kernel <= MaxKernelPages
        BY <1>1, <1>3, <2>2, <3>1, PageAssumption, Constants DEF CallSound, TypeOK
      <4> QED
        BY <4>1, <4>2, NeededFits
    <3> QED
      BY <3>1
  <2> QED
    BY <1>1, <1>3, <1>8, <2>1, <2>2, <2>3, <2>4 DEF CountSound
<1>11. Shape(lev, pre)'
  BY <1>2, <1>3, <1>4, <1>8 DEF Shape
<1> QED
  BY <1>3, <1>8, <1>9, <1>10, <1>11,
     <1>1, <1>4, ImageKept, WindowKept, TlbKept DEF PageInv, TypeOK


\* A table is linked.
LEMMA LinkTableKeeps ==
  ASSUME PageInv, LinkTable
  PROVE  PageInv' /\ Quiet /\ UNCHANGED pc /\ cur'.page = cur.page
<1>1. /\ TypeOK /\ CallSound /\ ImageSound /\ CountSound /\ WindowComplete
      /\ TlbSound
  BY DEF PageInv
<1>2. PICK lev, pre : Shape(lev, pre)
  BY DEF PageInv
<1>3. /\ pc = "walk" /\ cur.level > 1
      /\ \E f : cur' = [cur EXCEPT !.table = f, !.level = @ - 1]
      /\ phase = "boot" => index' = index + 1
      /\ phase # "boot" => index' = index
      /\ free' \subseteq free
      /\ UNCHANGED <<phase, kernel, placed, pc, tlb>>
  BY DEF LinkTable, Taken
<1>4. phase = "boot" =>
        index < BufferPages /\ index + 1 <= Needed(placed, cur.level - 1)
  BY <1>1, <1>2, LinkCount
<1>5. /\ mem' \in Memory /\ Quiet /\ \E l, q : Shape(l, q)'
      /\ cur'.table \in Frames /\ cur'.level \in 1 .. 3
      /\ Reaches(mem', cur.page, cur'.level, cur'.table)
  BY <1>1, <1>2, <1>4, LinkTableStep
<1>6. /\ cur'.page = cur.page /\ cur'.frame = cur.frame
      /\ cur'.level = cur.level - 1
      /\ cur' \in [page : Nat, frame : Nat, table : Frames, level : 0 .. 4]
  <2>1. cur \in [page : Nat, frame : Nat, table : Frames, level : 0 .. 4]
    BY <1>1 DEF CallSound
  <2>2. PICK f : cur' = [cur EXCEPT !.table = f, !.level = @ - 1]
    BY <1>3
  <2>3. cur'.table = f /\ cur'.level = cur.level - 1
    BY <2>1, <2>2
  <2>4. f \in Frames /\ cur.level - 1 \in 0 .. 4
    BY <1>5, <2>3
  <2> QED
    BY <2>1, <2>2, <2>4
<1>7. \A v \in Pages : Walk(v)' = Walk(v)
  BY <1>5, PageFacts DEF Quiet
<1>8. cur.page \in Pages
  BY <1>1, <1>2, <1>3, CallFacts
<1>9. CallSound'
  BY <1>1, <1>3, <1>5, <1>6, <1>7, <1>8 DEF CallSound
<1>10. TypeOK'
  <2>1. index \in Nat /\ free \subseteq FreeFrames
    BY <1>1 DEF TypeOK
  <2>2. index' \in Nat /\ free' \subseteq FreeFrames
    BY <1>3, <2>1
  <2> QED
    BY <1>1, <1>3, <1>5, <1>6, <2>2 DEF TypeOK, Memory
<1>11. CountSound'
  <2>1. index \in Nat /\ BufferPages \in Nat
    BY <1>1, Constants DEF TypeOK
  <2> QED
    BY <1>1, <1>3, <1>4, <1>6, <2>1 DEF CountSound
<1>12. ImageSound' /\ WindowComplete' /\ TlbSound'
  <2>1. \A v \in KernelPages : Walk(v)' = Walk(v)
    BY <1>7 DEF Pages
  <2>2. \A f \in Frames : Walk(mapPages(f))' = Walk(mapPages(f))
    BY <1>5, PageRegions DEF Quiet
  <2>3. ImageSound'
    BY <1>1, <1>3, <2>1, ImageKept
  <2>4. WindowComplete'
    BY <1>1, <1>3, <2>2, WindowKept
  <2>5. TlbSound'
    BY <1>1, <1>3, <1>7, TlbKept
  <2> QED
    BY <2>3, <2>4, <2>5
<1> QED
  BY <1>3, <1>5, <1>6, <1>9, <1>10, <1>11, <1>12 DEF PageInv

\* A page of the kernel image is mapped.
LEMMA SetAddressKeeps ==
  ASSUME PageInv, setAddress
  PROVE  PageInv'
<1>1. /\ TypeOK /\ CallSound /\ ImageSound /\ CountSound /\ WindowComplete
      /\ TlbSound
  BY DEF PageInv
<1>2. PICK lev, pre : Shape(lev, pre)
  BY DEF PageInv
<1>3. /\ phase = "boot" /\ pc = "walk" /\ cur.level = 1
      /\ tlb' = [tlb EXCEPT ![cur.page] = Unmapped]
      /\ placed' = placed + 1 /\ pc' = "idle" /\ cur' = NoCall
      /\ UNCHANGED <<phase, kernel, index, free>>
  BY DEF setAddress
<1>4. /\ mem' \in Memory /\ Shape(lev, pre)' /\ Remaps(cur.page, cur.frame)
  BY <1>1, <1>2, SetAddressStep
<1>5. /\ kernel \in KernelSizes /\ kernel \in Nat /\ placed \in Nat
      /\ placed < kernel /\ kernel <= MaxKernelPages /\ index \in Nat
      /\ cur.page = KernelStart + placed /\ cur.frame = ImageStart + placed
  <2>1. kernel \in KernelSizes /\ placed \in 0 .. kernel /\ index \in Nat
    BY <1>1 DEF TypeOK
  <2>2. kernel \in 0 .. Span4 /\ Span4 \in Nat
    BY <2>1, PageAssumption, Constants
  <2> QED
    BY <1>1, <1>3, <2>1, <2>2 DEF CallSound
<1>6. cur.page \in Pages
  BY <1>1, <1>2, <1>3, CallFacts
<1>7. TypeOK'
  <2>1. tlb' \in [Pages -> Nat \cup {Unmapped}]
    BY <1>1, <1>3 DEF TypeOK
  <2>2. cur'.table \in Frames /\ cur'.level \in 0 .. 4
    BY <1>3, Constants DEF NoCall
  <2>3. placed' \in 0 .. kernel'
    BY <1>3, <1>5
  <2> QED
    BY <1>1, <1>3, <1>4, <1>5, <2>1, <2>2, <2>3 DEF TypeOK, Memory
<1>8. CallSound'
  BY <1>3, Constants DEF CallSound, NoCall
<1>9. ImageSound'
  <2>1. KernelStart \in Nat
    BY Constants DEF KernelStart
  <2>2. ASSUME NEW i \in 0 .. placed' - 1
        PROVE  Walk(KernelStart + i)' = ImageStart + i
    <3>1. i \in Nat /\ i <= placed /\ i < kernel
      BY <1>3, <1>5, <2>2
    <3>2. Canonical(KernelStart + i)
      BY <1>5, <3>1, KernelPage
    <3>3. CASE i = placed
      BY <1>4, <1>5, <3>2, <3>3 DEF Remaps
    <3>4. CASE i # placed
      <4>1. KernelStart + i # cur.page /\ i \in 0 .. placed - 1
        BY <1>5, <2>1, <3>1, <3>4
      <4> QED
        BY <1>1, <1>4, <3>2, <4>1 DEF Remaps, ImageSound
    <3> QED
      BY <3>3, <3>4
  <2>3. ASSUME NEW v \in KernelPages, v >= KernelStart + placed'
        PROVE  Walk(v)' = Unmapped
    <3>1. Canonical(v) /\ v \in Nat
      BY PageRegions DEF Canonical
    <3>2. v # cur.page /\ v >= KernelStart + placed
      BY <1>3, <1>5, <2>1, <2>3, <3>1
    <3> QED
      BY <1>1, <1>3, <1>4, <3>1, <3>2 DEF Remaps, ImageSound
  <2> QED
    BY <2>2, <2>3 DEF ImageSound
<1>10. CountSound'
  <2>1. Needed(placed, 1) = Needed(placed + 1, 4)
    BY <1>5, NeededStep
  <2> QED
    BY <1>1, <1>3, <2>1 DEF CountSound
<1>11. WindowComplete'
  BY <1>1, <1>3, <1>4, <1>6, Apart, WindowKept
<1>12. TlbSound'
  <2>1. ASSUME NEW v \in Pages, v # cur.page
        PROVE  tlb'[v] = tlb[v] /\ Walk(v)' = Walk(v)
    BY <1>1, <1>3, <1>4, <2>1, PageFacts DEF Remaps, TypeOK
  <2>2. tlb'[cur.page] = Unmapped
    BY <1>1, <1>3, <1>6 DEF TypeOK
  <2> QED
    BY <1>1, <1>3, <2>1, <2>2, TlbKept
<1> QED
  BY <1>4, <1>7, <1>8, <1>9, <1>10, <1>11, <1>12 DEF PageInv

\* PageTable::init.
LEMMA InitKeeps ==
  ASSUME PageInv, init
  PROVE  PageInv' /\ \A v \in Pages : Walk(v)' = Walk(v)
<1>1. /\ TypeOK /\ CallSound /\ ImageSound /\ CountSound /\ WindowComplete
      /\ TlbSound
  BY DEF PageInv
<1>2. PICK lev, pre : Shape(lev, pre)
  BY DEF PageInv
<1>3. /\ phase = "init" /\ phase' = "run" /\ pc = "idle"
      /\ UNCHANGED <<kernel, placed, index, free, cur, pc, tlb>>
  BY <1>1 DEF init, CallSound
<1>4. /\ mem' \in Memory /\ \E l, q : Shape(l, q)'
      /\ \A v \in Pages : Walk(v)' = Walk(v)
      /\ \A f \in Frames : Walk(mapPages(f))' = f
  BY <1>1, <1>2, InitStep
<1>5. TypeOK'
  BY <1>1, <1>3, <1>4 DEF TypeOK, Memory
<1>6. CallSound' /\ CountSound'
  BY <1>1, <1>3 DEF CallSound, CountSound
<1>7. ImageSound'
  BY <1>1, <1>3, <1>4, ImageKept DEF Pages
<1>8. WindowComplete'
  BY <1>4 DEF WindowComplete
<1>9. TlbSound'
  BY <1>1, <1>3, <1>4, TlbKept
<1> QED
  BY <1>4, <1>5, <1>6, <1>7, <1>8, <1>9 DEF PageInv


\* A step of a map call after boot that changes no page but the one it maps.
LEMMA RemapKeeps ==
  ASSUME PageInv, phase # "boot", pc # "idle", NEW x, Remaps(cur.page, x),
         UNCHANGED <<phase, kernel, placed, index>>
  PROVE  ImageSound' /\ CountSound' /\ WindowComplete'
<1>1. TypeOK /\ CallSound /\ ImageSound /\ CountSound /\ WindowComplete
  BY DEF PageInv
<1>2. cur.page \in MapPages \cup LowPages /\ cur.page \in Pages
  BY <1>1 DEF CallSound, Pages
<1>3. CountSound'
  BY <1>1 DEF CountSound
<1> QED
  BY <1>1, <1>2, <1>3, Apart, ImageKept, WindowKept

\* The last entry of a map call is written.
LEMMA WriteRawKeeps ==
  ASSUME PageInv, WriteRaw
  PROVE  /\ PageInv' /\ Remaps(cur.page, Unmapped) /\ cur.page \in Pages
         /\ pc # "idle" /\ pc' # "idle" /\ UNCHANGED cur
<1>1. TypeOK /\ CallSound /\ TlbSound
  BY DEF PageInv
<1>2. PICK lev, pre : Shape(lev, pre)
  BY DEF PageInv
<1>3. /\ phase = "run" /\ pc = "walk" /\ cur.level = 1 /\ pc' = "present"
      /\ UNCHANGED <<phase, kernel, placed, index, free, cur, tlb>>
  BY DEF WriteRaw
<1>4. /\ mem' \in Memory /\ Shape(lev, pre)' /\ Remaps(cur.page, Unmapped)
      /\ Reaches(mem', cur.page, 1, cur.table)
      /\ CurEntry' = Clear(cur.frame)
  BY <1>1, <1>2, WriteRawStep
<1>5. cur.page \in Pages
  BY <1>1, <1>2, <1>3, CallFacts
<1>6. TypeOK'
  BY <1>1, <1>3, <1>4 DEF TypeOK, Memory
<1>7. CallSound'
  BY <1>1, <1>3, <1>4 DEF CallSound
<1>8. ImageSound' /\ CountSound' /\ WindowComplete'
  BY <1>3, <1>4, RemapKeeps
<1>9. TlbSound'
  <2>1. \A v \in Pages : Walk(v)' \in {Walk(v), Unmapped}
    BY <1>4, PageFacts DEF Remaps
  <2> QED
    BY <1>1, <1>3, <2>1, TlbKept
<1> QED
  BY <1>3, <1>4, <1>5, <1>6, <1>7, <1>8, <1>9 DEF PageInv

\* Its page becomes mapped.
LEMMA SetPresentKeeps ==
  ASSUME PageInv, SetPresent
  PROVE  /\ PageInv' /\ Remaps(cur.page, cur.frame) /\ cur.page \in Pages
         /\ Walk(cur.page) = Unmapped /\ cur.frame \in Nat
         /\ pc # "idle" /\ pc' # "idle" /\ UNCHANGED cur
<1>1. TypeOK /\ CallSound /\ TlbSound
  BY DEF PageInv
<1>2. PICK lev, pre : Shape(lev, pre)
  BY DEF PageInv
<1>3. /\ pc = "present" /\ pc' = "invalidate"
      /\ UNCHANGED <<phase, kernel, placed, index, free, cur, tlb>>
  BY DEF SetPresent
<1>4. /\ mem' \in Memory /\ Shape(lev, pre)' /\ Remaps(cur.page, cur.frame)
      /\ Reaches(mem', cur.page, 1, cur.table)
  BY <1>1, <1>2, SetPresentStep
<1>5. /\ cur.page \in Pages /\ mem \in Memory /\ cur.level = 1 /\ phase # "boot"
      /\ Reaches(mem, cur.page, 1, cur.table) /\ cur.frame \in Nat
      /\ CurEntry = Clear(cur.frame)
  BY <1>1, <1>2, <1>3, CallFacts DEF CallSound
<1>6. Walk(cur.page) = Unmapped
  <2>1. EndsAt(mem, cur.page, 1, cur.table)
    BY <1>5 DEF EndsAt
  <2>2. Canonical(cur.page) /\ Tree(mem, lev, pre)
    BY <1>2, <1>5, PageFacts DEF Shape
  <2>3. Translate(mem, cur.page)
          = Value(mem[cur.table][Level(cur.page, 1)], cur.page, 1)
    BY <1>5, <2>1, <2>2, EndValue
  <2>4. mem[cur.table][Level(cur.page, 1)] = Clear(cur.frame)
    BY <1>5 DEF CurEntry, CurIndex
  <2> QED
    BY <2>3, <2>4, WalkIs DEF Value, Clear
<1>7. TypeOK'
  BY <1>1, <1>3, <1>4 DEF TypeOK, Memory
<1>8. CallSound'
  BY <1>1, <1>3, <1>4, <1>5 DEF CallSound
<1>9. ImageSound' /\ CountSound' /\ WindowComplete'
  BY <1>3, <1>4, <1>5, RemapKeeps
<1>10. TlbSound'
  <2>1. \A v \in Pages : v # cur.page => Walk(v)' = Walk(v)
    BY <1>4, PageFacts DEF Remaps
  <2> QED
    BY <1>1, <1>3, <2>1, TlbKept
<1> QED
  BY <1>3, <1>4, <1>5, <1>6, <1>7, <1>8, <1>9, <1>10 DEF PageInv

\* Its translation is dropped, and the call returns.
LEMMA InvalidateKeeps ==
  ASSUME PageInv, invalidatePage
  PROVE  PageInv' /\ cur.page \in Pages
<1>1. /\ TypeOK /\ CallSound /\ ImageSound /\ CountSound /\ WindowComplete
      /\ TlbSound
  BY DEF PageInv
<1>2. PICK lev, pre : Shape(lev, pre)
  BY DEF PageInv
<1>3. /\ pc = "invalidate" /\ tlb' = [tlb EXCEPT ![cur.page] = Unmapped]
      /\ pc' = "idle" /\ cur' = NoCall
      /\ UNCHANGED <<mem, phase, kernel, placed, index, free>>
  BY DEF invalidatePage
<1>4. \A u : Walk(u)' = Walk(u)
  BY <1>3, MemKept
<1>5. cur.page \in Pages /\ phase # "boot"
  BY <1>1, <1>2, <1>3, CallFacts DEF CallSound
<1>6. TypeOK'
  <2>1. tlb' \in [Pages -> Nat \cup {Unmapped}]
    BY <1>1, <1>3 DEF TypeOK
  <2>2. cur'.table \in Frames /\ cur'.level \in 0 .. 4
    BY <1>3, Constants DEF NoCall
  <2> QED
    BY <1>1, <1>3, <2>1, <2>2 DEF TypeOK
<1>7. CallSound' /\ CountSound'
  BY <1>1, <1>3, <1>5, Constants DEF CallSound, CountSound, NoCall
<1>8. ImageSound' /\ WindowComplete'
  BY <1>1, <1>3, <1>4, ImageKept, WindowKept
<1>9. TlbSound'
  <2>1. \A v \in Pages : v # cur.page => tlb'[v] = tlb[v]
    BY <1>1, <1>3 DEF TypeOK
  <2>2. tlb'[cur.page] = Unmapped
    BY <1>1, <1>3, <1>5 DEF TypeOK
  <2> QED
    BY <1>1, <1>3, <1>4, <2>1, <2>2, TlbKept
<1>10. Shape(lev, pre)'
  BY <1>2, <1>3, <1>4 DEF Shape
<1> QED
  BY <1>5, <1>6, <1>7, <1>8, <1>9, <1>10 DEF PageInv

\* A page, or the big page it lies in, is unmapped.
LEMMA UnmapKeeps ==
  ASSUME PageInv, NEW p \in MapPages \cup LowPages, unmap(p)
  PROVE  /\ PageInv' /\ p \in Pages /\ pc = "idle" /\ pc' = "idle"
         /\ Remaps(p, Unmapped) \/ RemovesBig(p)
<1>1. /\ TypeOK /\ CallSound /\ ImageSound /\ CountSound /\ WindowComplete
      /\ TlbSound
  BY DEF PageInv
<1>2. PICK lev, pre : Shape(lev, pre)
  BY DEF PageInv
<1>3. /\ phase = "run" /\ pc = "idle"
      /\ UNCHANGED <<phase, kernel, placed, index, free, cur, pc, tlb>>
  BY DEF unmap
<1>4. /\ mem' \in Memory /\ Shape(lev, pre)'
      /\ Remaps(p, Unmapped) \/ RemovesBig(p)
  BY <1>1, <1>2, UnmapStep
<1>5. p \in Pages
  BY DEF Pages
<1>6. TypeOK'
  BY <1>1, <1>3, <1>4 DEF TypeOK, Memory
<1>7. CallSound' /\ CountSound'
  BY <1>1, <1>3 DEF CallSound, CountSound
<1>8. ImageSound' /\ WindowComplete'
  BY <1>1, <1>3, <1>4, <1>5, Apart, ImageKept, WindowKept
<1>9. TlbSound'
  <2>1. \A v \in Pages : Walk(v)' \in {Walk(v), Unmapped}
    BY <1>4, PageFacts DEF Remaps, RemovesBig
  <2> QED
    BY <1>1, <1>3, <2>1, TlbKept
<1> QED
  BY <1>3, <1>4, <1>5, <1>6, <1>7, <1>8, <1>9 DEF PageInv


\* A page is mapped to a number.
LEMMA WalkIsFrame ==
  ASSUME TypeOK, \E lev, pre : Shape(lev, pre), NEW v \in Pages,
         Walk(v) # Unmapped
  PROVE  Walk(v) \in Nat
<1>1. PICK lev, pre : Shape(lev, pre)
  OBVIOUS
<1>2. mem \in Memory /\ Tree(mem, lev, pre) /\ Canonical(v) /\ v \in Nat
  BY <1>1, PageFacts DEF TypeOK, Memory, Shape
<1>3. PICK n \in 1 .. 4 : \E t : EndsAt(mem, v, n, t)
  BY LastTable
<1>4. PICK t : EndsAt(mem, v, n, t)
  BY <1>3
<1>5. t \in Frames /\ Level(v, n) \in Indices
  BY <1>2, <1>4, ReachesLabel, Indexing DEF EndsAt
<1> DEFINE e == mem[t][Level(v, n)]
<1>6. e \in Entry
  BY <1>2, <1>5 DEF Memory
<1>7. Walk(v) = Value(e, v, n)
  BY <1>2, <1>4, EndValue, WalkIs
<1> HIDE DEF e
<1>8. v % Fan \in Nat /\ v % GiB \in Nat /\ e.frame \in Nat
  BY <1>2, <1>6, Constants DEF Entry
<1> QED
  BY <1>7, <1>8 DEF Value

\* Every step of the specification.
LEMMA NextKeeps == PageInv /\ [Next]_vars => PageInv'
<1> SUFFICES ASSUME PageInv, [Next]_vars PROVE PageInv'
  OBVIOUS
<1>1. TypeOK /\ CallSound
  BY DEF PageInv
<1>2. tlb \in [Pages -> Nat \cup {Unmapped}]
  BY <1>1 DEF TypeOK
<1>3. CASE Descend
  BY <1>3, DescendKeeps
<1>4. CASE LinkTable
  BY <1>4, LinkTableKeeps
<1>5. CASE OutOfMemory
  <2>1. /\ UNCHANGED <<mem, kernel, placed, index, free, cur, pc>>
        /\ phase = "run" /\ phase' = "stopped" /\ tlb' = tlb
    BY <1>5 DEF OutOfMemory
  <2> QED
    BY <1>2, <2>1, StandStill DEF Still
<1>6. CASE KernelTooBig
  <2>1. pc = "idle"
    <3>1. kernel \in Nat /\ MaxKernelPages \in Int
      <4>1. kernel \in 0 .. Span4 /\ Span4 \in Nat
        BY <1>1, PageAssumption, Constants DEF TypeOK
      <4> QED
        BY <4>1, Constants DEF MaxKernelPages
    <3> QED
      BY <1>1, <1>6, <3>1 DEF KernelTooBig, CallSound
  <2>2. /\ UNCHANGED <<mem, kernel, placed, index, free, cur, pc>>
        /\ phase = "boot" /\ phase' = "stopped" /\ tlb' = tlb
    BY <1>6 DEF KernelTooBig
  <2> QED
    BY <1>2, <2>1, <2>2, StandStill DEF Still
<1>7. CASE MapKernelPage
  BY <1>7, BeginKeeps
<1>8. CASE setAddress
  BY <1>8, SetAddressKeeps
<1>9. CASE BootDone
  BY <1>2, <1>9, StandStill DEF BootDone, Still
<1>10. CASE init
  BY <1>10, InitKeeps
<1>11. CASE WriteRaw
  BY <1>11, WriteRawKeeps
<1>12. CASE SetPresent
  BY <1>12, SetPresentKeeps
<1>13. CASE invalidatePage
  BY <1>13, InvalidateKeeps
<1>14. ASSUME NEW v \in MapPages \cup LowPages, unmap(v)
       PROVE  PageInv'
  BY <1>14, UnmapKeeps
<1>15. ASSUME NEW v \in MapPages \cup LowPages, NEW f \in CallerFrames, map(v, f)
       PROVE  PageInv'
  BY <1>15, BeginKeeps
<1>16. CASE Stopped \/ UNCHANGED vars
  BY <1>2, <1>16, StandStill DEF Stopped, vars, Still
<1>17. ASSUME NEW v \in MapPages \cup LowPages, Fill(v) \/ Evict(v)
       PROVE  PageInv'
  <2>1. /\ UNCHANGED <<mem, kernel, placed, index, free, cur, pc>>
        /\ phase' = phase
    BY <1>17 DEF Fill, Evict
  <2>2. v \in Pages
    BY DEF Pages
  <2>3. Walk(v) # Unmapped => Walk(v) \in Nat
    <3>1. \E lev, pre : Shape(lev, pre)
      BY DEF PageInv
    <3> QED
      BY <1>1, <2>2, <3>1, WalkIsFrame
  <2>4. PICK x \in Nat \cup {Unmapped} :
          x \in {Unmapped, Walk(v)} /\ tlb' = [tlb EXCEPT ![v] = x]
    BY <1>17, <2>3 DEF Fill, Evict
  <2>5. /\ tlb' \in [Pages -> Nat \cup {Unmapped}]
        /\ \A u \in Pages : tlb'[u] \in {tlb[u], Unmapped, Walk(u)}
    BY <1>2, <2>2, <2>4
  <2> QED
    BY <2>1, <2>5, StandStill DEF Still
<1> QED
  BY <1>3, <1>4, <1>5, <1>6, <1>7, <1>8, <1>9, <1>10, <1>11, <1>12, <1>13,
     <1>14, <1>15, <1>16, <1>17 DEF Next, Kernel

\* The specification keeps the invariant.
LEMMA InvHolds == Spec => []PageInv
<1> QED
  BY InitSound, NextKeeps, PTL DEF Spec

-----------------------------------------------------------------------------
(***************************************************************************)
(* What the invariant says of the kernel.                                  *)
(***************************************************************************)
\* The entries a page is translated with: a level-4 or level-3 entry that is
\* present leads to a table, a level-2 one does so unless it is a big page.
LEMMA PageEntries ==
  ASSUME mem \in Memory, NEW lev, NEW pre, Tree(mem, lev, pre), NEW v \in Pages
  PROVE  /\ Entry4(mem, v).present =>
              /\ Entry4(mem, v).frame \in Frames /\ lev[Entry4(mem, v).frame] = 3
              /\ Entry3(mem, v) \in Entry /\ ~Entry3(mem, v).big
         /\ Entry4(mem, v).present /\ Entry3(mem, v).present =>
              /\ Entry3(mem, v).frame \in Frames /\ lev[Entry3(mem, v).frame] = 2
              /\ Entry2(mem, v) \in Entry
         /\ /\ Entry4(mem, v).present /\ Entry3(mem, v).present
            /\ Entry2(mem, v).present /\ ~Entry2(mem, v).big
            => /\ Entry2(mem, v).frame \in Frames
               /\ lev[Entry2(mem, v).frame] = 1 /\ Entry1(mem, v) \in Entry
<1> DEFINE e4 == Entry4(mem, v)
           e3 == Entry3(mem, v)
           e2 == Entry2(mem, v)
<1>1. /\ Canonical(v) /\ Number(v, 3) # 3
      /\ \A n \in 1 .. 4 : Level(v, n) \in Indices
  BY PageFacts, Indexing
<1>2. /\ \A t \in Frames : \A i \in Indices :
           mem[t][i] \in Entry /\ EntrySound(mem[t][i], lev[t], pre[t], i, lev, pre)
      /\ Root \in Frames /\ lev[Root] = 4
  BY Constants DEF Memory, Tree, Labels
<1>3. ~e4.big
  BY <1>1, <1>2 DEF Entry4, EntrySound
<1>4. ASSUME e4.present
      PROVE  /\ e4.frame \in Frames /\ lev[e4.frame] = 3
             /\ e3 \in Entry /\ ~e3.big /\ Reaches(mem, v, 3, e4.frame)
  <2>1. Reaches(mem, v, 3, e4.frame)
    BY <1>3, <1>4 DEF Reaches, Leads
  <2>2. e4.frame \in Frames /\ lev[e4.frame] = 3 /\ pre[e4.frame] = Number(v, 3)
    BY <1>1, <2>1, ReachesLabel
  <2>3. e3 = mem[e4.frame][Level(v, 3)]
    BY DEF Entry3
  <2>4. e3 \in Entry /\ EntrySound(e3, 3, Number(v, 3), Level(v, 3), lev, pre)
    BY <1>1, <1>2, <2>2, <2>3
  <2>5. ~e3.big
    BY <1>1, <2>4 DEF EntrySound
  <2> QED
    BY <2>1, <2>2, <2>4, <2>5
<1>5. ASSUME e4.present, e3.present
      PROVE  /\ e3.frame \in Frames /\ lev[e3.frame] = 2 /\ e2 \in Entry
  <2>1. Reaches(mem, v, 2, e3.frame)
    BY <1>3, <1>4, <1>5 DEF Reaches, Leads
  <2>2. e3.frame \in Frames /\ lev[e3.frame] = 2
    BY <1>1, <2>1, ReachesLabel
  <2> QED
    BY <1>1, <1>2, <2>2 DEF Entry2
<1>6. ASSUME e4.present, e3.present, e2.present, ~e2.big
      PROVE  /\ e2.frame \in Frames /\ lev[e2.frame] = 1
             /\ Entry1(mem, v) \in Entry
  <2>1. Reaches(mem, v, 1, e2.frame)
    BY <1>3, <1>4, <1>6 DEF Reaches, Leads
  <2>2. e2.frame \in Frames /\ lev[e2.frame] = 1
    BY <1>1, <2>1, ReachesLabel
  <2> QED
    BY <1>1, <1>2, <2>2 DEF Entry1
<1> QED
  BY <1>4, <1>5, <1>6

\* A table a page is translated with is one of the tree.
LEMMA TableInTree ==
  ASSUME mem \in Memory, NEW lev, NEW pre, Tree(mem, lev, pre),
         NEW v \in Pages, NEW x \in TablesOf(v)
  PROVE  x \in Frames /\ lev[x] # 0
<1>1. Root \in Frames /\ lev[Root] = 4
  BY Constants DEF Tree, Labels
<1>2. \/ x = Root
      \/ Entry4(mem, v).present /\ x = Entry4(mem, v).frame
      \/ /\ Entry4(mem, v).present /\ Entry3(mem, v).present
         /\ x = Entry3(mem, v).frame
      \/ /\ Entry4(mem, v).present /\ Entry3(mem, v).present
         /\ Entry2(mem, v).present /\ ~Entry2(mem, v).big
         /\ x = Entry2(mem, v).frame
  BY Zenon DEF TablesOf, At, Entry4, Entry3, Entry2
<1> QED
  BY <1>1, <1>2, PageEntries

\* The tables of every page are tables and nothing else: neither in the memory
\* the allocator gives away nor in a frame of a heap or process page.
LEMMA TablesApart == PageInv => TablesNotShared
<1> SUFFICES ASSUME PageInv PROVE TablesNotShared
  OBVIOUS
<1>1. PICK lev, pre : Shape(lev, pre)
  BY DEF PageInv
<1>2. mem \in Memory /\ Tree(mem, lev, pre)
  BY <1>1 DEF PageInv, TypeOK, Memory, Shape
<1>3. SUFFICES ASSUME NEW v \in Pages, NEW x \in TablesOf(v)
               PROVE  x \notin free /\ \A u \in MapPages : Walk(u) # x
  BY DEF TablesNotShared
<1>4. x \in Frames /\ lev[x] # 0
  BY <1>2, TableInTree
<1>5. x \notin free
  BY <1>1, <1>4 DEF Shape
<1>6. x # Unmapped
  BY <1>4, Constants, PageAssumption
<1>7. ASSUME NEW u \in MapPages, Walk(u) = x PROVE FALSE
  <2>1. Walk(u) = Unmapped \/ Spare(lev, free, Walk(u))
    BY <1>1 DEF Shape
  <2> QED
    BY <1>4, <1>6, <1>7, <2>1 DEF Spare
<1> QED
  BY <1>5, <1>7

\* The kernel's own walk finds what the hardware's does.
LEMMA LookupSound == PageInv => LookupAgrees
<1> SUFFICES ASSUME PageInv, NEW v \in Pages, ~StaleBigPage(v)
             PROVE  getPhysicalAddress(v)
                      = IF Walk(v) = Unmapped THEN 0 ELSE Walk(v)
  BY DEF LookupAgrees
<1> DEFINE e4 == Entry4(mem, v)
           e3 == Entry3(mem, v)
           e2 == Entry2(mem, v)
           e1 == Entry1(mem, v)
<1>1. PICK lev, pre : Shape(lev, pre)
  BY DEF PageInv
<1>2. mem \in Memory /\ Tree(mem, lev, pre)
  BY <1>1 DEF PageInv, TypeOK, Memory, Shape
<1>3. /\ e4.present => ~e3.big
      /\ e4.present /\ e3.present => e2 \in Entry
      /\ e4.present /\ e3.present /\ e2.present /\ ~e2.big => e1 \in Entry
  <2>1. e4.present => ~e3.big
    BY <1>2, PageEntries, ZenonT(40)
  <2>2. e4.present /\ e3.present => e2 \in Entry
    BY <1>2, PageEntries, ZenonT(40)
  <2>3. e4.present /\ e3.present /\ e2.present /\ ~e2.big => e1 \in Entry
    BY <1>2, PageEntries, ZenonT(60)
  <2> QED
    BY <2>1, <2>2, <2>3
<1>4. ~(e4.present /\ e3.present /\ e2.big /\ ~e2.present)
  BY DEF StaleBigPage, At, Entry4, Entry3, Entry2
<1>5. Walk(v) = Translate(mem, v)
  BY WalkIs
<1>6. getPhysicalAddress(v) =
        IF ~e4.present THEN 0 ELSE IF e3.big THEN e3.frame + (v % GiB)
        ELSE IF ~e3.present THEN 0 ELSE IF e2.big THEN e2.frame + (v % Fan)
        ELSE IF e2.present /\ e1.present THEN e1.frame ELSE 0
  BY Zenon DEF getPhysicalAddress, At, Entry4, Entry3, Entry2, Entry1
<1>7. Translate(mem, v) =
        IF ~e4.present THEN Unmapped
        ELSE IF ~e3.present \/ e3.big THEN Value(e3, v, 3)
        ELSE IF ~e2.present \/ e2.big THEN Value(e2, v, 2) ELSE Value(e1, v, 1)
  BY DEF Translate
<1>8. v % Fan \in Nat /\ Unmapped \notin Nat
  BY PageFacts, Constants, PageAssumption
<1> HIDE DEF e4, e3, e2, e1
<1>9. CASE ~e4.present
  BY <1>5, <1>6, <1>7, <1>9
<1>10. CASE e4.present /\ ~e3.present
  BY <1>3, <1>5, <1>6, <1>7, <1>10 DEF Value
<1>11. CASE e4.present /\ e3.present /\ e2.big
  <2>1. e2.present /\ ~e3.big /\ e2.frame \in Nat
    BY <1>3, <1>4, <1>11 DEF Entry
  <2>2. Walk(v) = e2.frame + (v % Fan)
    BY <1>5, <1>7, <1>11, <2>1 DEF Value
  <2> QED
    BY <1>6, <1>8, <1>11, <2>1, <2>2
<1>12. CASE e4.present /\ e3.present /\ ~e2.big /\ ~e2.present
  BY <1>3, <1>5, <1>6, <1>7, <1>12 DEF Value
<1>13. CASE e4.present /\ e3.present /\ ~e2.big /\ e2.present
  <2>1. e1 \in Entry /\ ~e3.big
    BY <1>3, <1>13
  <2>2. e1.frame \in Nat
    BY <2>1 DEF Entry
  <2>3. Walk(v) = IF e1.present THEN e1.frame ELSE Unmapped
    BY <1>5, <1>7, <1>13, <2>1 DEF Value
  <2> QED
    BY <1>6, <1>8, <1>13, <2>1, <2>2, <2>3
<1> QED
  BY <1>9, <1>10, <1>11, <1>12, <1>13

\* Through every map and unmap, and with every table size, the frames that hold
\* tables hold nothing else, and PageTable::getPhysicalAddress reads the tables
\* as the processor does.
THEOREM TablesStaySound == Spec => []TablesSound
<1>1. PageInv => TablesSound
  BY TablesApart, LookupSound DEF TablesSound, PageInv
<1> QED
  BY <1>1, InvHolds, PTL

\* Whatever the processor caches and whenever it does, no cached translation
\* contradicts a page that is mapped once map has invalidated the page.
THEOREM TranslationsNeverContradict == Spec => []TlbNeverContradicts
<1>1. PageInv => TlbNeverContradicts
  BY DEF PageInv, TlbSound, TlbNeverContradicts
<1> QED
  BY <1>1, InvHolds, PTL

\* pageBuffer suffices for every kernel image that passes the size test of
\* setPageTableForHighKernel, and what boot maps, the image and the window of
\* TempMemory::mapPages, stays mapped to its frames for good.
THEOREM FixedMappingsStay == Spec => []FixedMappingsKept
<1>1. PageInv => FixedMappingsKept
  BY DEF PageInv, CountSound, ImageSound, FixedMappingsKept, KernelImageMapped
<1> QED
  BY <1>1, InvHolds, PTL

-----------------------------------------------------------------------------
(***************************************************************************)
(* The tables implement AddressSpace: step by step.                        *)
(***************************************************************************)
\* What AddressSpace sees of the tables.
Space == [v \in Pages |-> Walk(v)]
Target == IF pc = "idle" THEN Unmapped ELSE cur.page
Neighbours == [v \in Pages |-> {p \in Pages : Table1(p) = Table1(v)}]

\* A step AddressSpace does not see.
LEMMA Invisible ==
  ASSUME \A v \in Pages : Walk(v)' = Walk(v), Target' = Target
  PROVE  UNCHANGED Abstract!vars
<1>1. Space' = Space
  BY DEF Space
<1> QED
  BY <1>1 DEF Space, Target, Abstract!vars

\* map and MapKernelPage.
LEMMA AbstractBegin ==
  ASSUME NEW v \in Pages, pc = "idle", pc' # "idle", cur'.page = v,
         \A u \in Pages : Walk(u)' = Walk(u)
  PROVE  Abstract!Next
<1>1. Space' = Space /\ Target = Unmapped /\ Target' = v
  BY DEF Space, Target
<1>2. Abstract!Begin(v)
  BY <1>1 DEF Space, Target, Abstract!Begin
<1> QED
  BY <1>2 DEF Abstract!Next

\* The space after one page was remapped.
LEMMA SpaceRemapped ==
  ASSUME NEW p \in Pages, NEW x, Remaps(p, x)
  PROVE  Space' = [Space EXCEPT ![p] = x]
<1>1. \A v \in Pages : Walk(v)' = IF v = p THEN x ELSE Walk(v)
  BY PageFacts DEF Remaps
<1> QED
  BY <1>1 DEF Space

\* The entry of the page is cleared.
LEMMA AbstractClear ==
  ASSUME cur.page \in Pages, Remaps(cur.page, Unmapped),
         pc # "idle", pc' # "idle", UNCHANGED cur
  PROVE  Abstract!Next
<1>1. /\ Target = cur.page /\ Target' = Target /\ Target # Unmapped
      /\ Space' = [Space EXCEPT ![Target] = Unmapped]
  BY SpaceRemapped, PageFacts DEF Target
<1>2. Abstract!Clear
  BY <1>1 DEF Space, Target, Abstract!Clear
<1> QED
  BY <1>2 DEF Abstract!Next

\* The page gets its frame.
LEMMA AbstractInstall ==
  ASSUME cur.page \in Pages, Walk(cur.page) = Unmapped,
         cur.frame \in Nat, Remaps(cur.page, cur.frame),
         pc # "idle", pc' = "idle" \/ UNCHANGED cur
  PROVE  Abstract!Next
<1>1. Target = cur.page /\ Target' \in {Target, Unmapped} /\ Target # Unmapped
  BY PageFacts DEF Target
<1>2. Space' = [Space EXCEPT ![Target] = cur.frame]
  BY <1>1, SpaceRemapped
<1>3. Space[Target] = Unmapped /\ Target \in DOMAIN Space
  BY <1>1 DEF Space
<1>4. Space'[Target] = cur.frame /\ cur.frame # Unmapped
  BY <1>2, <1>3, PageAssumption
<1>5. Space' = [Space EXCEPT ![Target] = Space'[Target]]
  BY <1>2, <1>4
<1>6. Abstract!Install
  BY <1>1, <1>3, <1>4, <1>5 DEF Space, Target, Abstract!Install
<1> QED
  BY <1>6 DEF Abstract!Next

\* The call returns.
LEMMA AbstractEnd ==
  ASSUME cur.page \in Pages, pc # "idle", pc' = "idle",
         \A u \in Pages : Walk(u)' = Walk(u)
  PROVE  Abstract!Next
<1>1. Space' = Space /\ Target = cur.page /\ Target # Unmapped
      /\ Target' = Unmapped
  BY PageFacts DEF Space, Target
<1>2. Abstract!End
  BY <1>1 DEF Space, Target, Abstract!End
<1> QED
  BY <1>2 DEF Abstract!Next

\* unmap takes a page away, or the big page it lies in.
LEMMA AbstractRemove ==
  ASSUME NEW p \in Pages, pc = "idle", pc' = "idle",
         Remaps(p, Unmapped) \/ RemovesBig(p)
  PROVE  Abstract!Next
<1>1. Target = Unmapped /\ Target' = Target
  BY DEF Target
<1>2. PICK S \in {{p}, Neighbours[p]} :
        \A v \in Pages : Walk(v)' = IF v \in S THEN Unmapped ELSE Walk(v)
  <2>1. CASE Remaps(p, Unmapped)
    <3>1. \A v \in Pages : Walk(v)' = IF v \in {p} THEN Unmapped ELSE Walk(v)
      BY <2>1, PageFacts DEF Remaps
    <3> QED
      BY <3>1
  <2>2. CASE RemovesBig(p)
    <3>1. \A v \in Pages : v \in Neighbours[p] <=> Table1(v) = Table1(p)
      BY DEF Neighbours
    <3>2. \A v \in Pages :
            Walk(v)' = IF v \in Neighbours[p] THEN Unmapped ELSE Walk(v)
      BY <2>2, <3>1, PageFacts DEF RemovesBig
    <3> QED
      BY <3>2
  <2> QED
    BY <2>1, <2>2
<1>3. Space' = [v \in Pages |-> IF v \in S THEN Unmapped ELSE Space[v]]
  BY <1>2 DEF Space
<1>4. Abstract!Remove(p)
  BY <1>1, <1>2, <1>3 DEF Space, Target, Neighbours, Abstract!Remove
<1> QED
  BY <1>4 DEF Abstract!Next

\* Every step of the tables is a step of AddressSpace, or one it does not see.
LEMMA StepImplements ==
  PageInv /\ [Next]_vars => [Abstract!Next]_(Abstract!vars)
<1> SUFFICES ASSUME PageInv, [Next]_vars
             PROVE  Abstract!Next \/ UNCHANGED Abstract!vars
  OBVIOUS
<1>1. /\ TypeOK /\ CallSound /\ \E lev, pre : Shape(lev, pre)
  BY DEF PageInv
<1>2. ASSUME UNCHANGED <<mem, cur, pc>> PROVE UNCHANGED Abstract!vars
  BY <1>2, MemKept, Invisible DEF Target
<1>3. CASE Descend
  <2>1. UNCHANGED <<mem, pc>> /\ cur' = [cur EXCEPT !.table = CurEntry.frame,
                                                    !.level = @ - 1]
    BY <1>3 DEF Descend
  <2>2. cur'.page = cur.page
    BY <1>1, <2>1 DEF CallSound
  <2> QED
    BY <2>1, <2>2, MemKept, Invisible DEF Target
<1>4. CASE LinkTable
  <2>1. Quiet /\ UNCHANGED pc /\ cur'.page = cur.page
    BY <1>4, LinkTableKeeps
  <2>2. \A v \in Pages : Walk(v)' = Walk(v)
    BY <2>1, PageFacts DEF Quiet
  <2> QED
    BY <2>1, <2>2, Invisible DEF Target
<1>5. CASE OutOfMemory \/ KernelTooBig \/ BootDone \/ Stopped \/ UNCHANGED vars
  BY <1>2, <1>5 DEF OutOfMemory, KernelTooBig, BootDone, Stopped, vars
<1>6. ASSUME NEW v, NEW f, Begin(v, f), v \in Pages, UNCHANGED mem
      PROVE  Abstract!Next
  <2>1. pc = "idle" /\ pc' # "idle" /\ cur'.page = v
    BY <1>6 DEF Begin
  <2> QED
    BY <1>6, <2>1, MemKept, AbstractBegin
<1>7. CASE MapKernelPage
  BY <1>6, <1>7, BeginKeeps
<1>8. ASSUME NEW v \in MapPages \cup LowPages, NEW f \in CallerFrames, map(v, f)
      PROVE  Abstract!Next
  BY <1>6, <1>8, BeginKeeps
<1>9. CASE setAddress
  <2>1. /\ phase = "boot" /\ pc = "walk" /\ pc' = "idle"
    BY <1>9 DEF setAddress
  <2>2. PICK lev, pre : Shape(lev, pre)
    BY <1>1
  <2>3. Remaps(cur.page, cur.frame) /\ cur.page \in Pages
    BY <1>1, <1>9, <2>1, <2>2, SetAddressStep, CallFacts
  <2>4. cur.frame \in Nat /\ placed \in Nat /\ kernel \in KernelSizes
        /\ placed < kernel /\ cur.page = KernelStart + placed
    BY <1>1, <2>1 DEF CallSound, TypeOK
  <2>5. cur.page \notin MapPages
    BY <2>4, KernelPage, PageRegions
  <2>6. Walk(cur.page) = Unmapped
    BY <1>1, <2>1, <2>5 DEF CallSound
  <2> QED
    BY <2>1, <2>3, <2>4, <2>6, AbstractInstall
<1>10. CASE init
  <2>1. \A v \in Pages : Walk(v)' = Walk(v)
    BY <1>10, InitKeeps
  <2> QED
    BY <1>10, <2>1, Invisible DEF init, Target
<1>11. CASE WriteRaw
  BY <1>11, WriteRawKeeps, AbstractClear
<1>12. CASE SetPresent
  BY <1>12, SetPresentKeeps, AbstractInstall
<1>13. CASE invalidatePage
  <2>1. pc # "idle" /\ pc' = "idle" /\ UNCHANGED mem
    BY <1>13 DEF invalidatePage
  <2> QED
    BY <1>13, <2>1, InvalidateKeeps, MemKept, AbstractEnd
<1>14. ASSUME NEW v \in MapPages \cup LowPages, unmap(v)
       PROVE  Abstract!Next
  BY <1>14, UnmapKeeps, AbstractRemove
<1>15. ASSUME NEW v \in MapPages \cup LowPages, Fill(v) \/ Evict(v)
       PROVE  UNCHANGED Abstract!vars
  BY <1>2, <1>15 DEF Fill, Evict
<1> QED
  BY <1>3, <1>4, <1>5, <1>7, <1>8, <1>9, <1>10, <1>11, <1>12, <1>13, <1>14,
     <1>15 DEF Next, Kernel

\* The page tables implement a partial function from pages to frames: map changes
\* one page, unmap one page or the pages of one big page, and nothing else that
\* the kernel does to the tables, at boot or later, is seen by any page.
THEOREM TablesImplementAddressSpace == Spec => ImplementsAddressSpace
<1> QED
  BY InvHolds, StepImplements, PTL DEF Spec, ImplementsAddressSpace, Abstract!Spec
=============================================================================
