-------------------------- MODULE KernelHeapProofs --------------------------
(***************************************************************************)
(* The kernel heap is sound for every page size, word size, set of request *)
(* sizes and number of frames as long as no edge case was met, and kfree   *)
(* spares the pages of the blocks that stay.                               *)
(*                                                                         *)
(* DisjointUnlessEdge and BlocksBacked are not inductive by themselves: a  *)
(* block of size zero would have no page of its own, and a fresh frame is  *)
(* new only because every frame in the page table, also the ones kfree     *)
(* left mapped, was taken before.  HeapInv adds both facts.                *)
(***************************************************************************)
EXTENDS KernelHeap, CommonFacts

USE HeapAssumption

-----------------------------------------------------------------------------
(***************************************************************************)
(* Pages and addresses.                                                    *)
(***************************************************************************)
\* Rounding an address down to its page (heap.cpp's `/ pageSize').
LEMMA PageOfFacts ==
  ASSUME NEW a \in Nat
  PROVE  /\ PageOf(a) \in Nat /\ PageOf(a) * PageSize \in Nat
         /\ PageOf(a) * PageSize <= a /\ a < PageOf(a) * PageSize + PageSize
BY DivFacts DEF PageOf

\* Higher addresses are in higher pages.
LEMMA PageOfMonotone ==
  ASSUME NEW a \in Nat, NEW b \in Nat, a <= b
  PROVE  PageOf(a) <= PageOf(b)
BY PageOfFacts, QuotientAtLeast DEF PageOf

\* An address between two multiples of PageSize is in the page they bound.
LEMMA PageOfIs ==
  ASSUME NEW p \in Nat, NEW a \in Nat,
         p * PageSize <= a, a < p * PageSize + PageSize
  PROVE  PageOf(a) = p
<1>1. p <= PageOf(a)
  BY QuotientAtLeast DEF PageOf
<1>2. PageOf(a) \in Nat /\ PageOf(a) * PageSize <= a
  BY PageOfFacts
<1>3. ~(p < PageOf(a))
  <2> SUFFICES ASSUME p < PageOf(a) PROVE FALSE
    OBVIOUS
  <2>1. p * PageSize + PageSize <= PageOf(a) * PageSize
    BY <1>2, MultiplesApart
  <2> QED
    BY <1>2, <2>1
<1> QED
  BY <1>1, <1>2, <1>3

\* Rounding up gives the page behind the one of the byte before (heap.cpp:70,
\* `(end + pageSize - 1) / pageSize').
LEMMA RoundUpFacts ==
  ASSUME NEW a \in Nat, a >= 1
  PROVE  /\ RoundUp(a) \in Nat /\ RoundUp(a) = PageOf(a - 1) + 1
         /\ RoundUp(a) * PageSize \in Nat /\ a <= RoundUp(a) * PageSize
<1> DEFINE p == PageOf(a - 1)
<1>1. /\ p \in Nat /\ p * PageSize \in Nat
      /\ p * PageSize <= a - 1 /\ a - 1 < p * PageSize + PageSize
  BY PageOfFacts
<1> HIDE DEF p
<1>2. p + 1 \in Nat /\ (p + 1) * PageSize = p * PageSize + PageSize
  BY <1>1
<1>3. a + PageSize - 1 \in Nat
  OBVIOUS
<1>4. PageOf(a + PageSize - 1) = p + 1
  BY <1>1, <1>2, <1>3, PageOfIs
<1>5. RoundUp(a) = p + 1
  BY <1>4 DEF RoundUp, PageOf
<1> QED
  BY <1>1, <1>2, <1>5 DEF p

\* A block of n units that starts page v fills PageCount(n) pages.
LEMMA FreshBlock ==
  ASSUME NEW v \in Nat, NEW n \in Nat, n >= 1
  PROVE  /\ v * PageSize \in Nat
         /\ PageOf(v * PageSize) = v
         /\ PageOf(v * PageSize + n - 1) = v + PageCount(n) - 1
         /\ PageCount(n) \in Nat /\ PageCount(n) >= 1
         /\ v * PageSize + n <= (v + PageCount(n)) * PageSize
<1> DEFINE q == PageOf(n - 1)
<1>1. /\ q \in Nat /\ q * PageSize \in Nat
      /\ q * PageSize <= n - 1 /\ n - 1 < q * PageSize + PageSize
  BY PageOfFacts
<1>2. PageCount(n) = q + 1
  BY RoundUpFacts DEF PageCount
<1> HIDE DEF q
<1>3. v * PageSize \in Nat
  OBVIOUS
<1>4. PageOf(v * PageSize) = v
  BY <1>3, PageOfIs
<1>5. (v + q) * PageSize = v * PageSize + q * PageSize
  BY <1>1
<1>6. (v + (q + 1)) * PageSize = v * PageSize + q * PageSize + PageSize
  BY <1>1
<1>7. v + q \in Nat /\ v * PageSize + n - 1 \in Nat
  BY <1>1, <1>3
<1>8. PageOf(v * PageSize + n - 1) = v + q
  BY <1>1, <1>3, <1>5, <1>7, PageOfIs
<1> QED
  BY <1>1, <1>2, <1>3, <1>4, <1>6, <1>8

HIDE HeapAssumption

-----------------------------------------------------------------------------
(***************************************************************************)
(* The inductive invariant.                                                *)
(***************************************************************************)
\* Every block holds at least its header.
Filled(s) == \A i \in 1 .. Len(s) : s[i].size >= 1

\* Links follow addresses and no block reaches into a later one.
Sorted(s) ==
  \A i, j \in 1 .. Len(s) : i < j => End(s[i]) <= s[j].addr

\* The pages of the blocks of s are mapped by m, no two to the same frame.
Backing(s, m) ==
  /\ \A i \in 1 .. Len(s) : BlockPages(s[i]) \subseteq DOMAIN m
  /\ \A i, j \in 1 .. Len(s) :
       \A p \in BlockPages(s[i]), q \in BlockPages(s[j]) :
         p # q => m[p] # m[q]

\* The page table only holds frames that were taken.
FramesTaken == \A p \in DOMAIN mapped : mapped[p] < frames

HeapInv ==
  /\ TypeOK
  /\ Filled(blocks)
  /\ FramesTaken
  /\ edges = {} =>
       state # "faulted" /\ Sorted(blocks) /\ Backing(blocks, mapped)

\* The addresses and pages of a block of the list.
LEMMA BlockFacts ==
  ASSUME NEW b \in Block, b.size >= 1
  PROVE  /\ b.addr \in Nat /\ b.size \in Nat /\ End(b) \in Nat
         /\ End(b) - 1 \in Nat /\ b.addr <= End(b) - 1
         /\ PageOf(b.addr) \in Nat /\ PageOf(End(b) - 1) \in Nat
         /\ BlockPages(b) \subseteq Nat
<1>1. b.addr \in Nat /\ b.size \in Nat
  BY DEF Block
<1>2. End(b) \in Nat /\ End(b) - 1 \in Nat /\ b.addr <= End(b) - 1
  BY <1>1 DEF End
<1>3. PageOf(b.addr) \in Nat /\ PageOf(End(b) - 1) \in Nat
  BY <1>1, <1>2, PageOfFacts
<1> QED
  BY <1>1, <1>2, <1>3 DEF BlockPages

\* HeapInv says what HeapSound does.
LEMMA HeapInvSuffices == HeapInv => HeapSound
<1> SUFFICES ASSUME HeapInv PROVE HeapSound
  OBVIOUS
<1>1. TypeOK
  BY DEF HeapInv
<1>2. \A i \in 1 .. Len(blocks) :
        /\ blocks[i].addr \in Nat /\ End(blocks[i]) \in Nat
  BY <1>1, BlockFacts DEF HeapInv, TypeOK, Filled
<1>3. DisjointUnlessEdge
  <2> SUFFICES ASSUME edges = {}
               PROVE  BlocksDisjoint /\ Sorted(blocks)
    BY DEF DisjointUnlessEdge, Sorted
  <2>1. Sorted(blocks)
    BY DEF HeapInv
  <2>2. ASSUME NEW i \in 1 .. Len(blocks), NEW j \in 1 .. Len(blocks), i # j
        PROVE  Bytes(blocks[i]) \cap Bytes(blocks[j]) = {}
    <3>1. i < j \/ j < i
      BY <1>1, <2>2 DEF TypeOK
    <3>2. End(blocks[i]) <= blocks[j].addr \/ End(blocks[j]) <= blocks[i].addr
      BY <2>1, <3>1 DEF Sorted
    <3> QED
      BY <1>2, <3>2, SMTT(60) DEF Bytes
  <2> QED
    BY <2>1, <2>2 DEF BlocksDisjoint
<1>4. BlocksBacked
  BY DEF HeapInv, BlocksBacked, Backing
<1> QED
  BY <1>1, <1>3, <1>4 DEF HeapSound

\* The empty heap satisfies the invariant.
LEMMA HeapInit == Init => HeapInv
<1> SUFFICES ASSUME Init PROVE HeapInv
  OBVIOUS
<1>1. TypeOK
  BY HeapAssumption DEF Init, TypeOK, NoCall
<1>2. Filled(blocks) /\ FramesTaken
  BY DEF Init, Filled, FramesTaken
<1>3. state # "faulted" /\ Sorted(blocks) /\ Backing(blocks, mapped)
  BY DEF Init, Sorted, Backing
<1> QED
  BY <1>1, <1>2, <1>3 DEF HeapInv

-----------------------------------------------------------------------------
(***************************************************************************)
(* kmalloc.                                                                *)
(***************************************************************************)
\* t is the list s with block e linked in behind position i.
Inserted(s, t, i, e) ==
  /\ t \in Seq(Block) /\ Len(t) = Len(s) + 1
  /\ \A j \in 1 .. Len(s) + 1 : t[j] = AfterInsert(s, i + 1, e, j)

\* A list with a block linked in holds that block and the ones it held before.
LEMMA InsertedFrom ==
  ASSUME NEW s \in Seq(Block), NEW t, NEW i \in 0 .. Len(s), NEW e,
         Inserted(s, t, i, e)
  PROVE  \A j \in 1 .. Len(t) : t[j] = e \/ \E k \in 1 .. Len(s) : t[j] = s[k]
<1> TAKE j \in 1 .. Len(t)
<1>1. CASE j < i + 1
  BY <1>1, SMTT(60) DEF Inserted, AfterInsert
<1>2. CASE j = i + 1
  BY <1>2 DEF Inserted, AfterInsert
<1>3. CASE j > i + 1
  <2>1. j - 1 \in 1 .. Len(s) /\ t[j] = s[j - 1]
    BY <1>3 DEF Inserted, AfterInsert
  <2> QED
    BY <2>1
<1>4. j < i + 1 \/ j = i + 1 \/ j > i + 1
  BY DEF Inserted
<1> QED
  BY <1>1, <1>2, <1>3, <1>4, Zenon

\* The list stays filled.
LEMMA InsertedFilled ==
  ASSUME NEW s \in Seq(Block), NEW t, NEW i \in 0 .. Len(s), NEW e,
         Inserted(s, t, i, e), Filled(s), e.size >= 1
  PROVE  Filled(t)
BY InsertedFrom DEF Filled

\* A block that fits between its neighbours keeps the list sorted.
LEMMA InsertedSorted ==
  ASSUME NEW s \in Seq(Block), NEW t, NEW i \in 0 .. Len(s), NEW e \in Block,
         Inserted(s, t, i, e), Filled(s), Sorted(s), e.size >= 1,
         i >= 1 => End(s[i]) <= e.addr,
         i < Len(s) => End(e) <= s[i + 1].addr
  PROVE  Sorted(t)
<1>1. \A j \in 1 .. Len(s) :
        s[j].addr \in Nat /\ End(s[j]) \in Nat /\ s[j].addr <= End(s[j])
  <2> TAKE j \in 1 .. Len(s)
  <2>1. s[j] \in Block /\ s[j].size >= 1
    BY DEF Filled
  <2> QED
    BY <2>1, BlockFacts, SMTT(60)
<1>2. e.addr \in Nat /\ End(e) \in Nat /\ e.addr <= End(e)
  BY BlockFacts
<1>3. \A j \in 1 .. i : End(s[j]) <= e.addr
  <2> TAKE j \in 1 .. i
  <2>1. CASE j = i
    BY <2>1
  <2>2. CASE j < i
    <3>1. j \in 1 .. Len(s) /\ i \in 1 .. Len(s)
      BY <2>2
    <3>2. End(s[j]) <= s[i].addr
      BY <2>2, <3>1 DEF Sorted
    <3> QED
      BY <1>1, <1>2, <3>1, <3>2, SMTT(60)
  <2> QED
    BY <2>1, <2>2
<1>4. \A j \in i + 1 .. Len(s) : End(e) <= s[j].addr
  <2> TAKE j \in i + 1 .. Len(s)
  <2>1. CASE j = i + 1
    BY <2>1
  <2>2. CASE j > i + 1
    <3>1. j \in 1 .. Len(s) /\ i + 1 \in 1 .. Len(s)
      BY <2>2
    <3>2. End(s[i + 1]) <= s[j].addr
      BY <2>2, <3>1 DEF Sorted
    <3> QED
      BY <1>1, <1>2, <3>1, <3>2, SMTT(60)
  <2> QED
    BY <2>1, <2>2
<1> SUFFICES ASSUME NEW j \in 1 .. Len(t), NEW k \in 1 .. Len(t), j < k
             PROVE  End(t[j]) <= t[k].addr
  BY DEF Sorted
<1>5. /\ j \in 1 .. Len(s) + 1 /\ k \in 1 .. Len(s) + 1
      /\ t[j] = AfterInsert(s, i + 1, e, j) /\ t[k] = AfterInsert(s, i + 1, e, k)
  BY DEF Inserted
<1>6. CASE k < i + 1
  <2>1. t[j] = s[j] /\ t[k] = s[k] /\ j \in 1 .. Len(s) /\ k \in 1 .. Len(s)
    BY <1>5, <1>6, SMTT(60) DEF AfterInsert
  <2> QED
    BY <2>1 DEF Sorted
<1>7. CASE k = i + 1
  <2>1. t[j] = s[j] /\ t[k] = e /\ j \in 1 .. i
    BY <1>5, <1>7 DEF AfterInsert
  <2> QED
    BY <1>3, <2>1
<1>8. CASE k > i + 1
  <2>1. t[k] = s[k - 1] /\ k - 1 \in i + 1 .. Len(s) /\ k - 1 \in 1 .. Len(s)
    BY <1>5, <1>8, SMTT(60) DEF AfterInsert
  <2>2. CASE j < i + 1
    <3>1. t[j] = s[j] /\ j \in 1 .. Len(s) /\ j < k - 1
      BY <1>5, <1>8, <2>2 DEF AfterInsert
    <3> QED
      BY <2>1, <3>1 DEF Sorted
  <2>3. CASE j = i + 1
    <3>1. t[j] = e
      BY <1>5, <2>3 DEF AfterInsert
    <3> QED
      BY <1>4, <2>1, <3>1
  <2>4. CASE j > i + 1
    <3>1. t[j] = s[j - 1] /\ j - 1 \in 1 .. Len(s) /\ j - 1 < k - 1
      BY <1>5, <2>4, SMTT(60) DEF AfterInsert
    <3> QED
      BY <2>1, <3>1 DEF Sorted
  <2> QED
    BY <1>5, <2>2, <2>3, <2>4
<1>9. k < i + 1 \/ k = i + 1 \/ k > i + 1
  BY <1>5, SMTT(60)
<1> QED
  BY <1>6, <1>7, <1>8, <1>9, Zenon

\* Link puts the new block behind position i.
LEMMA InsertAtInserts ==
  ASSUME NEW s \in Seq(Block), NEW i \in 0 .. Len(s), NEW e \in Block
  PROVE  Inserted(s, InsertAt(s, i + 1, e), i, e)
<1>1. PICK k \in 1 .. Len(s) + 1 : k = i + 1
  OBVIOUS
<1>2. /\ InsertAt(s, k, e) \in Seq(Block)
      /\ Len(InsertAt(s, k, e)) = Len(s) + 1
      /\ \A j \in 1 .. Len(s) + 1 :
           InsertAt(s, k, e)[j] = AfterInsert(s, k, e, j)
  BY InsertAtFacts, ZenonT(60)
<1> QED
  BY <1>1, <1>2 DEF Inserted

\* The tail of kmalloc links it in behind the last one.
LEMMA AppendInserts ==
  ASSUME NEW s \in Seq(Block), NEW e \in Block
  PROVE  Inserted(s, Append(s, e), Len(s), e)
BY DEF Inserted, AfterInsert

\* A block below page q has no page from q on.
LEMMA PagesBelow ==
  ASSUME NEW b \in Block, b.size >= 1, NEW q \in Nat, End(b) <= q * PageSize
  PROVE  \A p \in BlockPages(b) : p \in Nat /\ p < q
<1>1. /\ End(b) - 1 \in Nat /\ PageOf(b.addr) \in Nat
      /\ PageOf(End(b) - 1) \in Nat /\ End(b) \in Nat
  BY BlockFacts
<1>2. q * PageSize \in Nat
  BY HeapAssumption
<1>3. ~(q * PageSize <= End(b) - 1)
  BY <1>1, <1>2
<1>4. ~(q <= PageOf(End(b) - 1))
  BY <1>1, <1>3, HeapAssumption, QuotientAtLeast DEF PageOf
<1> QED
  BY <1>1, <1>4 DEF BlockPages

\* A block at page q or above it has no page before q.
LEMMA PagesAbove ==
  ASSUME NEW b \in Block, b.size >= 1, NEW q \in Nat, q * PageSize <= b.addr
  PROVE  \A p \in BlockPages(b) : p \in Nat /\ q <= p
<1>1. b.addr \in Nat /\ PageOf(b.addr) \in Nat /\ PageOf(End(b) - 1) \in Nat
  BY BlockFacts
<1>2. q <= PageOf(b.addr)
  BY <1>1, HeapAssumption, QuotientAtLeast DEF PageOf
<1> QED
  BY <1>1, <1>2 DEF BlockPages

\* The block of n units that starts page v goes behind position i of s without
\* reaching into a page of its neighbours.
RoomAt(s, i, v, n) ==
  /\ i >= 1 => End(s[i]) <= v * PageSize
  /\ i < Len(s) => (v + PageCount(n)) * PageSize <= s[i + 1].addr

\* m2 is the page table m with the frames from f on entered for c pages.
EnteredFresh(m, f, v, c, m2) ==
  m2 = [p \in DOMAIN m \cup (v .. v + c - 1) |->
          IF p \in v .. v + c - 1 THEN f + (p - v) ELSE m[p]]

\* Every frame in the page table m is below f.
TakenBelow(m, f) == \A p \in DOMAIN m : m[p] \in Nat /\ m[p] < f

\* A block on fresh pages, entered in the page table with fresh frames and
\* linked in where the pages from v on are free, leaves the list sorted and
\* every page backed: the frames are new because only taken ones were mapped,
\* and no page of another block is mapped over.
LEMMA FreshLink ==
  ASSUME NEW s \in Seq(Block), Filled(s), Sorted(s), NEW m, Backing(s, m),
         NEW f \in Nat, TakenBelow(m, f),
         NEW i \in 0 .. Len(s), NEW v \in Nat, NEW n \in Nat, n >= 1,
         RoomAt(s, i, v, n),
         NEW t, Inserted(s, t, i, [addr |-> v * PageSize, size |-> n]),
         NEW m2, EnteredFresh(m, f, v, PageCount(n), m2)
  PROVE  Sorted(t) /\ Backing(t, m2)
<1> DEFINE c == PageCount(n)
           fresh == v .. v + c - 1
           e == [addr |-> v * PageSize, size |-> n]
<1>1. /\ v * PageSize \in Nat /\ c \in Nat /\ c >= 1
      /\ PageOf(v * PageSize) = v /\ PageOf(v * PageSize + n - 1) = v + c - 1
      /\ v * PageSize + n <= (v + c) * PageSize
  BY FreshBlock
<1>2. e \in Block /\ e.addr = v * PageSize /\ e.size = n
      /\ End(e) = v * PageSize + n
  BY <1>1 DEF Block, End
<1> HIDE DEF e
<1>3. (v + c) * PageSize \in Nat /\ v + c \in Nat
  BY <1>1, HeapAssumption, SMTT(60)
<1> HIDE DEF c
<1>4. \A k \in 1 .. Len(s) :
        /\ s[k] \in Block /\ s[k].size >= 1
        /\ s[k].addr \in Nat /\ End(s[k]) \in Nat /\ s[k].addr <= End(s[k])
  <2> TAKE k \in 1 .. Len(s)
  <2>1. s[k] \in Block /\ s[k].size >= 1
    BY DEF Filled
  <2> QED
    BY <2>1, BlockFacts, SMTT(60)
<1>5. Sorted(t)
  <2>1. i < Len(s) => End(e) <= s[i + 1].addr
    <3> SUFFICES ASSUME i < Len(s) PROVE End(e) <= s[i + 1].addr
      OBVIOUS
    <3>1. i + 1 \in 1 .. Len(s)
      OBVIOUS
    <3>2. (v + c) * PageSize <= s[i + 1].addr
      BY DEF c, RoomAt
    <3>3. End(e) \in Nat /\ End(e) <= (v + c) * PageSize
      BY <1>1, <1>2, SMTT(60) DEF c
    <3> QED
      BY <1>3, <1>4, <3>1, <3>2, <3>3, SMTT(60)
  <2>2. QED
    <3>1. i >= 1 => End(s[i]) <= e.addr
      BY <1>2 DEF RoomAt
    <3>2. Inserted(s, t, i, e)
      BY DEF e
    <3> QED
      BY <1>2, <2>1, <3>1, <3>2, InsertedSorted
<1>6. BlockPages(e) = fresh
  BY <1>1, <1>2 DEF BlockPages
<1>7. \A k \in 1 .. Len(s) : BlockPages(s[k]) \cap fresh = {}
  <2> TAKE k \in 1 .. Len(s)
  <2>1. CASE k <= i
    <3>1. End(s[k]) <= v * PageSize
      <4>1. i \in 1 .. Len(s)
        BY <2>1
      <4>2. CASE k = i
        BY <4>1, <4>2 DEF RoomAt
      <4>3. CASE k < i
        <5>1. End(s[k]) <= s[i].addr
          BY <4>1, <4>3 DEF Sorted
        <5> QED
          BY <1>1, <1>4, <4>1, <5>1, SMTT(60) DEF RoomAt
      <4> QED
        BY <2>1, <4>2, <4>3
    <3>2. \A p \in BlockPages(s[k]) : p \in Nat /\ p < v
      BY <1>4, <3>1, PagesBelow
    <3> QED
      BY <3>2
  <2>2. CASE k > i
    <3>1. (v + c) * PageSize <= s[k].addr
      <4>1. i + 1 \in 1 .. Len(s) /\ (v + c) * PageSize <= s[i + 1].addr
        BY <2>2 DEF c, RoomAt
      <4>2. CASE k = i + 1
        BY <4>1, <4>2
      <4>3. CASE k > i + 1
        <5>1. End(s[i + 1]) <= s[k].addr
          BY <4>1, <4>3 DEF Sorted
        <5> QED
          BY <1>3, <1>4, <4>1, <5>1, SMTT(60)
      <4> QED
        BY <2>2, <4>2, <4>3
    <3>2. \A p \in BlockPages(s[k]) : p \in Nat /\ v + c <= p
      BY <1>3, <1>4, <3>1, PagesAbove
    <3> QED
      BY <1>1, <3>2, SMTT(60)
  <2> QED
    BY <2>1, <2>2
<1>8. \A j \in 1 .. Len(t) : t[j] = e \/ \E k \in 1 .. Len(s) : t[j] = s[k]
  BY InsertedFrom DEF e
<1>9. /\ DOMAIN m2 = DOMAIN m \cup fresh
      /\ \A p \in fresh : m2[p] = f + (p - v) /\ p \in Nat /\ v <= p
      /\ \A p \in DOMAIN m : p \notin fresh => m2[p] = m[p]
  BY <1>1, SMTT(60) DEF c, EnteredFresh
<1> HIDE DEF fresh
<1>10. \A k \in 1 .. Len(s) : \A p \in BlockPages(s[k]) :
         p \in DOMAIN m /\ m2[p] = m[p] /\ m2[p] \in Nat /\ m2[p] < f
  BY <1>7, <1>9 DEF Backing, TakenBelow
<1>11. \A p, q \in fresh : /\ m2[p] \in Nat /\ m2[p] >= f
                           /\ p # q => m2[p] # m2[q]
  <2> TAKE p, q \in fresh
  <2>1. m2[p] = f + (p - v) /\ p \in Nat /\ v <= p
    BY <1>9, Zenon
  <2>2. m2[q] = f + (q - v) /\ q \in Nat /\ v <= q
    BY <1>9, Zenon
  <2> QED
    BY <2>1, <2>2
<1>12. \A j \in 1 .. Len(t) : BlockPages(t[j]) \subseteq DOMAIN m2
  BY <1>6, <1>8, <1>9, <1>10
<1>13. ASSUME NEW j \in 1 .. Len(t), NEW k \in 1 .. Len(t),
              NEW p \in BlockPages(t[j]), NEW q \in BlockPages(t[k]), p # q
       PROVE  m2[p] # m2[q]
  <2>1. CASE t[j] = e /\ t[k] = e
    BY <1>6, <1>11, <1>13, <2>1
  <2>2. ASSUME t[j] = e, NEW x \in 1 .. Len(s), t[k] = s[x]
        PROVE  m2[p] # m2[q]
    <3>1. m2[p] \in Nat /\ m2[p] >= f
      BY <1>6, <1>11, <2>2
    <3>2. m2[q] \in Nat /\ m2[q] < f
      BY <1>10, <2>2
    <3> QED
      BY <3>1, <3>2, SMTT(60)
  <2>3. ASSUME t[k] = e, NEW x \in 1 .. Len(s), t[j] = s[x]
        PROVE  m2[p] # m2[q]
    <3>1. m2[q] \in Nat /\ m2[q] >= f
      BY <1>6, <1>11, <2>3
    <3>2. m2[p] \in Nat /\ m2[p] < f
      BY <1>10, <2>3
    <3> QED
      BY <3>1, <3>2, SMTT(60)
  <2>4. ASSUME NEW x \in 1 .. Len(s), NEW y \in 1 .. Len(s),
               t[j] = s[x], t[k] = s[y]
        PROVE  m2[p] # m2[q]
    <3>1. m2[p] = m[p] /\ m2[q] = m[q]
      BY <1>10, <2>4
    <3>2. m[p] # m[q]
      BY <1>13, <2>4 DEF Backing
    <3> QED
      BY <3>1, <3>2
  <2> QED
    BY <1>8, <2>1, <2>2, <2>3, <2>4, Zenon
<1> QED
  BY <1>5, <1>12, <1>13 DEF Backing

\* MapFresh keeps the types, and the page table holds only frames taken.
LEMMA MapFreshKeeps ==
  ASSUME HeapInv, NEW v \in Nat, NEW n \in Nat, n >= 1, MapFresh(v, n)
  PROVE  /\ frames' \in 0 .. MaxFrames /\ FramesTaken'
         /\ DOMAIN mapped' \subseteq Nat
         /\ \A p \in DOMAIN mapped' : mapped'[p] \in Nat
         /\ state' = state
<1> DEFINE c == PageCount(n)
           fresh == v .. v + c - 1
<1>1. c \in Nat /\ c >= 1
  BY FreshBlock
<1>2. /\ frames + c <= MaxFrames /\ frames' = frames + c /\ state' = state
      /\ mapped' = [p \in DOMAIN mapped \cup fresh |->
                      IF p \in fresh THEN frames + (p - v) ELSE mapped[p]]
  BY DEF MapFresh, Remapped
<1> HIDE DEF c
<1>3. /\ frames \in Nat /\ DOMAIN mapped \subseteq Nat
      /\ \A p \in DOMAIN mapped : mapped[p] \in Nat /\ mapped[p] < frames
  BY DEF HeapInv, TypeOK, FramesTaken
<1>4. \A p \in fresh : p \in Nat /\ v <= p /\ p - v < c
  BY <1>1
<1> HIDE DEF fresh
<1>5. DOMAIN mapped' = DOMAIN mapped \cup fresh
  BY <1>2
<1>6. ASSUME NEW p \in DOMAIN mapped'
      PROVE  p \in Nat /\ mapped'[p] \in Nat /\ mapped'[p] < frames'
  <2>1. CASE p \in fresh
    <3>1. mapped'[p] = frames + (p - v)
      BY <1>2, <1>5, <2>1
    <3> QED
      BY <1>1, <1>2, <1>3, <1>4, <2>1, <3>1
  <2>2. CASE p \notin fresh
    <3>1. p \in DOMAIN mapped
      BY <1>5, <2>2
    <3>2. mapped'[p] = mapped[p]
      BY <1>2, <2>2, <3>1
    <3> QED
      BY <1>1, <1>2, <1>3, <3>1, <3>2
  <2> QED
    BY <2>1, <2>2
<1>7. frames' \in 0 .. MaxFrames
  BY <1>1, <1>2, <1>3, HeapAssumption
<1> QED
  BY <1>2, <1>6, <1>7 DEF FramesTaken

\* The blocks of the list and the page a block ends in.
LEMMA ListFacts ==
  ASSUME HeapInv, NEW i \in 1 .. Len(blocks)
  PROVE  /\ blocks[i] \in Block /\ blocks[i].size >= 1
         /\ blocks[i].addr \in Nat /\ End(blocks[i]) \in Nat
         /\ blocks[i].addr < End(blocks[i]) /\ End(blocks[i]) >= 1
         /\ RoundUp(End(blocks[i])) \in Nat
         /\ RoundUp(End(blocks[i])) * PageSize \in Nat
         /\ End(blocks[i]) <= RoundUp(End(blocks[i])) * PageSize
<1>1. blocks[i] \in Block /\ blocks[i].size >= 1
  BY DEF HeapInv, TypeOK, Filled
<1>2. /\ blocks[i].addr \in Nat /\ End(blocks[i]) \in Nat
      /\ End(blocks[i]) - 1 \in Nat /\ blocks[i].addr <= End(blocks[i]) - 1
  BY <1>1, BlockFacts
<1>3. End(blocks[i]) >= 1 /\ blocks[i].addr < End(blocks[i])
  BY <1>2
<1>4. /\ RoundUp(End(blocks[i])) \in Nat
      /\ RoundUp(End(blocks[i])) * PageSize \in Nat
      /\ End(blocks[i]) <= RoundUp(End(blocks[i])) * PageSize
  BY <1>2, <1>3, RoundUpFacts
<1> QED
  BY <1>1, <1>2, <1>3, <1>4

\* The first loop of kmalloc: the block goes into the page its predecessor ends
\* in, behind it and before the page's end.
LEMMA BehindKeeps ==
  ASSUME HeapInv, NEW n \in Sizes, state = "running", UNCHANGED freed,
         kmallocBehind(n)
  PROVE  HeapInv'
<1>1. PICK i \in 1 .. Len(blocks) :
        /\ FitsBehind(i, n)
        /\ blocks' = Link(i, End(blocks[i]), n)
        /\ state' = IF PageOf(End(blocks[i])) \in DOMAIN mapped
                    THEN "running" ELSE "faulted"
        /\ edges' = edges \cup
                      {x \in {"boundary"} : End(blocks[i]) = EndPage(blocks[i])}
        /\ UNCHANGED <<mapped, frames>>
  BY DEF kmallocBehind, FirstBehind
<1> DEFINE b == blocks[i]
           e == [addr |-> End(b), size |-> n]
           P == PageSize
           q == PageOf(End(b))
<1>2. n \in Nat /\ n >= 1 /\ P \in Nat /\ P >= 1
  BY HeapAssumption
<1>3. /\ b \in Block /\ b.size >= 1 /\ b.addr \in Nat /\ End(b) \in Nat
      /\ b.addr < End(b)
  BY ListFacts
<1>4. blocks \in Seq(Block) /\ Filled(blocks) /\ i \in 0 .. Len(blocks)
  BY DEF HeapInv, TypeOK
<1>5. e \in Block /\ e.addr = End(b) /\ e.size = n /\ End(e) = End(b) + n
  BY <1>2, <1>3 DEF Block, End
<1>6. Inserted(blocks, blocks', i, e)
  BY <1>1, <1>4, <1>5, InsertAtInserts DEF Link
<1> HIDE DEF e
<1>7. TypeOK'
  BY <1>1, <1>6 DEF HeapInv, TypeOK, Inserted
<1>8. Filled(blocks')
  BY <1>2, <1>4, <1>5, <1>6, InsertedFilled
<1>9. FramesTaken'
  BY <1>1 DEF HeapInv, FramesTaken
<1>10. ASSUME edges' = {}
       PROVE  /\ state' # "faulted" /\ Sorted(blocks')
              /\ Backing(blocks', mapped')
  <2>1. edges = {} /\ End(b) # EndPage(b)
    BY <1>1, <1>10
  <2>2. Sorted(blocks) /\ Backing(blocks, mapped)
    BY <2>1 DEF HeapInv
  <2>3. /\ q \in Nat /\ q * P \in Nat /\ q * P <= End(b) /\ End(b) < q * P + P
        /\ EndPage(b) = q * P
    BY <1>3, PageOfFacts DEF EndPage
  <2>4. /\ ~(NextVirtual(i) > q * P /\ NextVirtual(i) < q * P + P)
        /\ End(b) + n < q * P + P
    BY <1>1, <1>2, <1>3, <2>3, SMTT(60) DEF FitsBehind
  <2>5. i < Len(blocks) => End(e) <= blocks[i + 1].addr
    <3> SUFFICES ASSUME i < Len(blocks) PROVE End(e) <= blocks[i + 1].addr
      OBVIOUS
    <3>1. i + 1 \in 1 .. Len(blocks)
      BY <1>4
    <3>2. blocks[i + 1].addr \in Nat /\ End(b) <= blocks[i + 1].addr
      BY <2>2, <3>1, ListFacts, SMTT(60) DEF Sorted
    <3>3. NextVirtual(i) = blocks[i + 1].addr
      BY DEF NextVirtual
    <3> HIDE DEF b, q, P
    <3> QED
      BY <1>2, <1>3, <1>5, <2>1, <2>3, <2>4, <3>2, <3>3, SMTT(60)
  <2>6. Sorted(blocks')
    <3>1. End(blocks[i]) <= e.addr
      BY <1>3, <1>5
    <3> QED
      BY <1>2, <1>4, <1>5, <1>6, <2>2, <2>5, <3>1, InsertedSorted
  <2>7. PageOf(End(b) - 1) = q /\ PageOf(End(b) + n - 1) = q
    <3>1. /\ End(b) - 1 \in Nat /\ q * P <= End(b) - 1 /\ End(b) - 1 < q * P + P
          /\ End(b) + n - 1 \in Nat /\ q * P <= End(b) + n - 1
          /\ End(b) + n - 1 < q * P + P
      BY <1>2, <1>3, <2>1, <2>3, <2>4, SMTT(60)
    <3> QED
      BY <2>3, <3>1, HeapAssumption, PageOfIs
  <2>8. BlockPages(e) = {q} /\ q \in BlockPages(b)
    <3>1. End(b) - 1 \in Nat /\ b.addr <= End(b) - 1
      BY <1>3
    <3>2. PageOf(b.addr) \in Nat /\ PageOf(b.addr) <= q
      BY <1>3, <2>7, <3>1, PageOfFacts, PageOfMonotone
    <3>3. BlockPages(e) = PageOf(End(b)) .. PageOf(End(b) + n - 1)
      BY <1>2, <1>3, <1>5 DEF BlockPages
    <3>4. BlockPages(e) = q .. q /\ BlockPages(b) = PageOf(b.addr) .. q
      BY <2>7, <3>3 DEF BlockPages
    <3>5. q \in Nat
      BY <2>3
    <3> HIDE DEF b, q
    <3>6. q .. q = {q} /\ q \in PageOf(b.addr) .. q
      BY <3>2, <3>5
    <3> QED
      BY <3>4, <3>6, Zenon
  <2>9. q \in DOMAIN mapped
    BY <2>2, <2>8 DEF Backing
  <2>10. \A j \in 1 .. Len(blocks') :
           \E k \in 1 .. Len(blocks) : BlockPages(blocks'[j]) \subseteq BlockPages(blocks[k])
    <3> TAKE j \in 1 .. Len(blocks')
    <3>1. blocks'[j] = e \/ \E k \in 1 .. Len(blocks) : blocks'[j] = blocks[k]
      BY <1>4, <1>6, InsertedFrom
    <3>2. BlockPages(e) \subseteq BlockPages(blocks[i])
      BY <2>8
    <3> QED
      BY <3>1, <3>2
  <2>11. Backing(blocks', mapped)
    <3> HIDE DEF b, q
    <3> QED
      BY <2>2, <2>10 DEF Backing
  <2> QED
    BY <1>1, <2>6, <2>9, <2>11
<1> QED
  BY <1>7, <1>8, <1>9, <1>10 DEF HeapInv

\* A block put on fresh pages behind position i, or in front of the first one,
\* keeps the invariant when these pages are free or an edge case is recorded.
LEMMA FreshKeeps ==
  ASSUME HeapInv, NEW n \in Sizes, NEW i \in 0 .. Len(blocks), NEW v \in Nat,
         MapFresh(v, n), UNCHANGED freed, edges' \subseteq {"wrap", "boundary"},
         Inserted(blocks, blocks', i, [addr |-> v * PageSize, size |-> n]),
         edges' = {} => edges = {} /\ RoomAt(blocks, i, v, n)
  PROVE  HeapInv'
<1> DEFINE e == [addr |-> v * PageSize, size |-> n]
<1>1. n \in Nat /\ n >= 1
  BY HeapAssumption
<1>2. e \in Block /\ e.size = n
  BY <1>1, FreshBlock DEF Block
<1>3. blocks \in Seq(Block) /\ Filled(blocks)
  BY DEF HeapInv, TypeOK
<1>4. /\ frames' \in 0 .. MaxFrames /\ FramesTaken'
      /\ DOMAIN mapped' \subseteq Nat
      /\ \A p \in DOMAIN mapped' : mapped'[p] \in Nat
      /\ state' = state
  BY <1>1, MapFreshKeeps
<1>5. TypeOK'
  BY <1>4 DEF HeapInv, TypeOK, Inserted
<1>6. Filled(blocks')
  BY <1>1, <1>2, <1>3, InsertedFilled
<1>7. ASSUME edges' = {}
      PROVE  /\ state' # "faulted" /\ Sorted(blocks')
             /\ Backing(blocks', mapped')
  <2>1. state # "faulted" /\ Sorted(blocks) /\ Backing(blocks, mapped)
    BY <1>7 DEF HeapInv
  <2>2. frames \in Nat /\ TakenBelow(mapped, frames)
    BY DEF HeapInv, TypeOK, FramesTaken, TakenBelow
  <2>3. EnteredFresh(mapped, frames, v, PageCount(n), mapped')
    BY DEF MapFresh, Remapped, EnteredFresh
  <2>4. RoomAt(blocks, i, v, n)
    BY <1>7
  <2>5. Sorted(blocks') /\ Backing(blocks', mapped')
    BY <1>1, <1>3, <2>1, <2>2, <2>3, <2>4, FreshLink, Zenon
  <2> QED
    BY <1>4, <2>1, <2>5
<1> QED
  BY <1>4, <1>5, <1>6, <1>7 DEF HeapInv

\* The second loop: without the wrap of the unsigned difference, the pages
\* counted as unused are the ones between the two blocks.
LEMMA BetweenKeeps ==
  ASSUME HeapInv, NEW n \in Sizes, UNCHANGED freed, kmallocBetween(n)
  PROVE  HeapInv'
<1>1. PICK i \in 1 .. Len(blocks) - 1 :
        /\ FitsBetween(i, n)
        /\ MapFresh(RoundUp(End(blocks[i])), n)
        /\ blocks' = Link(i, RoundUp(End(blocks[i])) * PageSize, n)
        /\ edges' = edges \cup
             {x \in {"wrap"} : PageOf(NextVirtual(i)) < RoundUp(End(blocks[i]))}
  BY DEF kmallocBetween
<1> DEFINE v == RoundUp(End(blocks[i]))
           next == blocks[i + 1].addr
<1>2. n \in Nat /\ n >= 1
  BY HeapAssumption
<1>3. blocks \in Seq(Block) /\ Filled(blocks) /\ i \in 0 .. Len(blocks)
  BY DEF HeapInv, TypeOK
<1>4. i \in 1 .. Len(blocks) /\ i + 1 \in 1 .. Len(blocks) /\ i < Len(blocks)
  BY <1>3
<1>5. v \in Nat /\ v * PageSize \in Nat /\ End(blocks[i]) <= v * PageSize
  BY <1>4, ListFacts
<1>6. next \in Nat /\ NextVirtual(i) = next
  BY <1>4, ListFacts DEF NextVirtual
<1>7. [addr |-> v * PageSize, size |-> n] \in Block
  BY <1>2, <1>5 DEF Block
<1>8. Inserted(blocks, blocks', i, [addr |-> v * PageSize, size |-> n])
  BY <1>1, <1>3, <1>7, InsertAtInserts DEF Link
<1>9. ASSUME edges' = {}
      PROVE  (v + PageCount(n)) * PageSize <= next
  <2>1. PageOf(next) \in Nat /\ PageOf(next) * PageSize <= next
    BY <1>6, PageOfFacts
  <2>2. ~(PageOf(next) < v)
    BY <1>1, <1>6, <1>9
  <2>3. PageCount(n) \in Nat
    BY <1>2, FreshBlock
  <2>4. (PageOf(next) - v) % WordSize >= PageCount(n)
    BY <1>1, <1>6 DEF FitsBetween, UnusedPages
  <2> HIDE DEF v, next
  <2>5. PageOf(next) - v \in Nat
    BY <1>5, <2>1, <2>2
  <2>6. (PageOf(next) - v) % WordSize <= PageOf(next) - v
    BY <2>5, HeapAssumption
  <2>7. (PageOf(next) - v) % WordSize \in Nat
    BY <2>5, HeapAssumption
  <2>8. v + PageCount(n) \in Nat /\ v + PageCount(n) <= PageOf(next)
    BY <1>5, <2>1, <2>3, <2>4, <2>5, <2>6, <2>7, SMTT(60)
  <2>9. (v + PageCount(n)) * PageSize <= PageOf(next) * PageSize
    BY <2>1, <2>8, HeapAssumption
  <2>10. (v + PageCount(n)) * PageSize \in Nat /\ PageOf(next) * PageSize \in Nat
    BY <2>1, <2>8, HeapAssumption
  <2> QED
    BY <1>6, <2>1, <2>9, <2>10 DEF next
<1>10. /\ edges' \subseteq {"wrap", "boundary"}
       /\ edges' = {} => edges = {} /\ RoomAt(blocks, i, v, n)
  BY <1>1, <1>5, <1>9 DEF HeapInv, TypeOK, RoomAt
<1> HIDE DEF v
<1> QED
  BY <1>1, <1>3, <1>5, <1>8, <1>10, FreshKeeps DEF v

\* The tail: every page from the one behind the last block on is free.
LEMMA AtEndKeeps ==
  ASSUME HeapInv, NEW n \in Sizes, UNCHANGED freed, kmallocAtEnd(n)
  PROVE  HeapInv'
<1> DEFINE v == BehindLast
           i == Len(blocks)
<1>1. n \in Nat /\ n >= 1
  BY HeapAssumption
<1>2. blocks \in Seq(Block) /\ i \in 0 .. Len(blocks) /\ ~(i < Len(blocks))
  BY DEF HeapInv, TypeOK
<1>3. v \in Nat /\ (i >= 1 => End(blocks[i]) <= v * PageSize)
  <2>1. CASE blocks = <<>>
    <3>1. v = PageOf(HeapStart) /\ i = 0
      BY <2>1 DEF BehindLast
    <3>2. PageOf(HeapStart) \in Nat
      BY HeapAssumption, PageOfFacts
    <3> QED
      BY <3>1, <3>2
  <2>2. CASE blocks # <<>>
    <3>1. i \in 1 .. Len(blocks)
      BY <1>2, <2>2
    <3>2. v = RoundUp(End(blocks[i]))
      BY <2>2 DEF BehindLast, Last
    <3> QED
      BY <3>1, <3>2, ListFacts
  <2> QED
    BY <2>1, <2>2
<1> HIDE DEF v
<1>4. [addr |-> v * PageSize, size |-> n] \in Block
  BY <1>1, <1>3, FreshBlock DEF Block
<1>5. /\ MapFresh(v, n) /\ UNCHANGED edges
      /\ blocks' = Append(blocks, [addr |-> v * PageSize, size |-> n])
  BY DEF kmallocAtEnd, v
<1>6. Inserted(blocks, blocks', i, [addr |-> v * PageSize, size |-> n])
  BY <1>2, <1>4, <1>5, AppendInserts
<1>7. /\ edges' \subseteq {"wrap", "boundary"}
      /\ edges' = {} => edges = {} /\ RoomAt(blocks, i, v, n)
  BY <1>2, <1>3, <1>5 DEF HeapInv, TypeOK, RoomAt
<1> QED
  BY <1>2, <1>3, <1>5, <1>6, <1>7, FreshKeeps

\* Without physical memory nothing changes but the state.
LEMMA StopsKeeps ==
  ASSUME HeapInv, NEW n \in Sizes, UNCHANGED freed, kmallocStops(n)
  PROVE  HeapInv'
BY SMTT(60) DEF HeapInv, TypeOK, Filled, FramesTaken, Sorted, Backing, kmallocStops

\* Every way through kmalloc keeps the invariant.
LEMMA KmallocKeeps ==
  ASSUME HeapInv, NEW n \in Sizes, kmalloc(n)
  PROVE  HeapInv'
<1>1. /\ state = "running" /\ UNCHANGED freed
      /\ \/ kmallocBehind(n) \/ kmallocBetween(n)
         \/ kmallocAtEnd(n) \/ kmallocStops(n)
  BY DEF kmalloc
<1> QED
  BY <1>1, BehindKeeps, BetweenKeeps, AtEndKeeps, StopsKeeps

-----------------------------------------------------------------------------
(***************************************************************************)
(* kfree.                                                                  *)
(***************************************************************************)
\* What kfree reports: first is the page the block starts in, last the one its
\* end is in, and the range never leaves these pages.  It reaches the last one
\* only if the block behind does not start there, heap.cpp:132-138.
LEMMA FreedRangeFacts ==
  ASSUME HeapInv, NEW i \in 1 .. Len(blocks)
  PROVE  LET r == FreedRange(i)
             first == PageOf(blocks[i].addr)
             last == PageOf(End(blocks[i]))
         IN  /\ r.start \in Nat /\ r.count \in Nat
             /\ r # NoCall => r.start >= first
             /\ r # NoCall => r.start + r.count - 1 <= last
             /\ r # NoCall /\ EndPageUsed(i) => r.start + r.count - 1 < last
<1> DEFINE b == blocks[i]
           r == FreedRange(i)
           first == PageOf(b.addr)
           last == PageOf(End(b))
<1>1. b.addr \in Nat /\ End(b) \in Nat /\ b.addr <= End(b)
  BY ListFacts
<1>2. first \in Nat /\ last \in Nat /\ first <= last
  BY <1>1, PageOfFacts, PageOfMonotone
<1>3. SpannedPages(b) = last + 1 - first
  <2>1. last + 1 \in Nat /\ (last + 1) * PageSize \in Nat
    BY <1>2, HeapAssumption, SMTT(60)
  <2>2. PageOf(ExtendedEnd(b)) = last + 1
    BY <2>1, HeapAssumption, PageOfIs DEF ExtendedEnd
  <2>3. SpannedPages(b) = PageOf(ExtendedEnd(b)) - first
    BY DEF SpannedPages
  <2> HIDE DEF first, last, b
  <2> QED
    BY <1>2, <2>2, <2>3
<1>4. /\ One(BeginPageUsed(i)) \in {0, 1} /\ One(EndPageUsed(i)) \in {0, 1}
      /\ EndPageUsed(i) => One(EndPageUsed(i)) = 0
  BY DEF One
<1>5. r = IF SpannedPages(b) = 1
          THEN IF EndPageUsed(i) \/ BeginPageUsed(i) THEN NoCall
               ELSE [start |-> first, count |-> 1]
          ELSE [start |-> first + 1 - One(BeginPageUsed(i)),
                count |-> SpannedPages(b) - 2 + One(BeginPageUsed(i))
                            + One(EndPageUsed(i))]
  BY Zenon DEF FreedRange
<1> HIDE DEF first, last, r, b
<1>6. CASE last + 1 - first = 1
  <2>1. CASE EndPageUsed(i) \/ BeginPageUsed(i)
    BY <1>3, <1>5, <1>6, <2>1 DEF NoCall, r, first, last, b
  <2>2. CASE ~(EndPageUsed(i) \/ BeginPageUsed(i))
    <3>1. r = [start |-> first, count |-> 1] /\ ~EndPageUsed(i)
      BY <1>3, <1>5, <1>6, <2>2
    <3> QED
      BY <1>2, <3>1 DEF r, first, last, b
  <2> QED
    BY <2>1, <2>2
<1>7. CASE last + 1 - first # 1
  <2>1. /\ r.start = first + 1 - One(BeginPageUsed(i))
        /\ r.count = last + 1 - first - 2 + One(BeginPageUsed(i))
                       + One(EndPageUsed(i))
    <3>1. SpannedPages(b) # 1
      BY <1>3, <1>7
    <3>2. r = [start |-> first + 1 - One(BeginPageUsed(i)),
               count |-> SpannedPages(b) - 2 + One(BeginPageUsed(i))
                           + One(EndPageUsed(i))]
      BY <1>5, <3>1, Zenon
    <3>3. /\ r.start = first + 1 - One(BeginPageUsed(i))
          /\ r.count = SpannedPages(b) - 2 + One(BeginPageUsed(i))
                         + One(EndPageUsed(i))
      BY <3>2
    <3> QED
      BY <1>2, <1>3, <1>4, <3>3
  <2>2. /\ r.start \in Nat /\ r.count \in Nat /\ r.start >= first
        /\ r.start + r.count - 1 <= last
        /\ EndPageUsed(i) => r.start + r.count - 1 < last
    BY <1>2, <1>4, <1>7, <2>1, SMTT(60)
  <2> QED
    BY <2>2 DEF r, first, last, b
<1> QED
  BY <1>6, <1>7

\* Unlinking a block keeps the invariant: fewer blocks, the same page table.
LEMMA KfreeKeeps ==
  ASSUME HeapInv, NEW i \in 1 .. Len(blocks), kfree(i)
  PROVE  HeapInv'
<1>1. blocks \in Seq(Block)
  BY DEF HeapInv, TypeOK
<1>2. /\ blocks' \in Seq(Block) /\ Len(blocks') = Len(blocks) - 1
      /\ \A j \in 1 .. Len(blocks) - 1 :
           blocks'[j] = IF j < i THEN blocks[j] ELSE blocks[j + 1]
  BY <1>1, RemoveAtFacts DEF kfree
<1>3. \A j, k \in 1 .. Len(blocks') :
        \E x, y \in 1 .. Len(blocks) :
          /\ blocks'[j] = blocks[x] /\ blocks'[k] = blocks[y]
          /\ j < k => x < y
  <2> TAKE j, k \in 1 .. Len(blocks')
  <2> DEFINE x == IF j < i THEN j ELSE j + 1
             y == IF k < i THEN k ELSE k + 1
  <2>1. x \in 1 .. Len(blocks) /\ y \in 1 .. Len(blocks)
    BY <1>1, <1>2
  <2>2. blocks'[j] = blocks[x]
    BY <1>1, <1>2
  <2>3. blocks'[k] = blocks[y]
    BY <1>1, <1>2
  <2>4. j < k => x < y
    BY <1>1, <1>2
  <2> QED
    BY <2>1, <2>2, <2>3, <2>4, Zenon
<1>4. /\ UNCHANGED <<mapped, frames, state, edges>>
      /\ freed' = FreedRange(i)
  BY DEF kfree
<1>5. freed' \in [start : Nat, count : Nat]
  <2>1. freed'.start \in Nat /\ freed'.count \in Nat
    BY <1>4, FreedRangeFacts
  <2>2. freed' = [start |-> freed'.start, count |-> freed'.count]
    BY <1>4 DEF FreedRange, NoCall
  <2> QED
    BY <2>1, <2>2
<1>6. TypeOK'
  BY <1>2, <1>4, <1>5 DEF HeapInv, TypeOK
<1>7. Filled(blocks') /\ FramesTaken'
  <2>1. Filled(blocks')
    BY <1>3 DEF HeapInv, Filled
  <2> QED
    BY <1>4, <2>1 DEF HeapInv, FramesTaken
<1>8. Sorted(blocks) => Sorted(blocks')
  <2> SUFFICES ASSUME Sorted(blocks), NEW j \in 1 .. Len(blocks'),
                      NEW k \in 1 .. Len(blocks'), j < k
               PROVE  End(blocks'[j]) <= blocks'[k].addr
    BY Zenon DEF Sorted
  <2>1. PICK x, y \in 1 .. Len(blocks) :
          blocks'[j] = blocks[x] /\ blocks'[k] = blocks[y] /\ (j < k => x < y)
    BY <1>3, Zenon
  <2>2. End(blocks[x]) <= blocks[y].addr
    BY <2>1, Zenon DEF Sorted
  <2> QED
    BY <2>1, <2>2, Zenon
<1>9. Backing(blocks, mapped) => Backing(blocks', mapped')
  <2>1. mapped' = mapped
    BY <1>4
  <2> SUFFICES ASSUME Backing(blocks, mapped) PROVE Backing(blocks', mapped)
    BY <2>1
  <2>2. \A j \in 1 .. Len(blocks') : BlockPages(blocks'[j]) \subseteq DOMAIN mapped
    BY <1>3 DEF Backing
  <2>3. ASSUME NEW j \in 1 .. Len(blocks'), NEW k \in 1 .. Len(blocks'),
               NEW p \in BlockPages(blocks'[j]),
               NEW q \in BlockPages(blocks'[k]), p # q
        PROVE  mapped[p] # mapped[q]
    <3>1. PICK x, y \in 1 .. Len(blocks) :
            blocks'[j] = blocks[x] /\ blocks'[k] = blocks[y]
      BY <1>3, SMTT(60)
    <3> QED
      BY <2>3, <3>1 DEF Backing
  <2> QED
    BY <2>2, <2>3 DEF Backing
<1> QED
  BY <1>4, <1>6, <1>7, <1>8, <1>9 DEF HeapInv

-----------------------------------------------------------------------------
(***************************************************************************)
(* The theorems.                                                           *)
(***************************************************************************)
\* Every step keeps the invariant.
LEMMA HeapStep == HeapInv /\ [Next]_vars => HeapInv'
<1> SUFFICES ASSUME HeapInv, [Next]_vars PROVE HeapInv'
  OBVIOUS
<1>1. CASE \E n \in Sizes : kmalloc(n)
  BY <1>1, KmallocKeeps
<1>2. CASE \E i \in 1 .. Len(blocks) : kfree(i)
  BY <1>2, KfreeKeeps
<1>3. CASE UNCHANGED vars
  BY <1>3, SMTT(60) DEF vars, HeapInv, TypeOK, Filled, FramesTaken, Sorted, Backing
<1>4. CASE Halted
  BY <1>3, <1>4 DEF Halted
<1> QED
  BY <1>1, <1>2, <1>3, <1>4 DEF Next

\* The invariant holds throughout.
LEMMA HeapInvHolds == Spec => []HeapInv
BY HeapInit, HeapStep, PTL DEF Spec

\* kmalloc and kfree never let two live blocks share memory or a physical
\* frame, and never write a header to an unmapped page, for any page size and
\* any sequence of calls that met neither edge case.
THEOREM HeapStaysSound == Spec => []HeapSound
BY HeapInvHolds, HeapInvSuffices, PTL

\* The pages kfree reports for a block that starts its page hold no byte of a
\* block that stays: earlier blocks end before its first page, and a later one
\* reaches its last page only if heap.cpp:132-138 finds it there.
LEMMA KfreeSpares ==
  ASSUME HeapInv, NEW i \in 1 .. Len(blocks), edges = {},
         blocks[i].addr % PageSize = 0, kfree(i)
  PROVE  \A j \in 1 .. Len(blocks') :
           BlockPages(blocks'[j])
             \cap (freed'.start .. freed'.start + freed'.count - 1) = {}
<1> DEFINE b == blocks[i]
           first == PageOf(b.addr)
           last == PageOf(End(b))
           r == FreedRange(i)
<1>1. /\ b \in Block /\ b.addr \in Nat /\ End(b) \in Nat /\ b.addr < End(b)
  BY ListFacts
<1>2. blocks \in Seq(Block) /\ Sorted(blocks)
  BY DEF HeapInv, TypeOK
<1>3. freed' = r
  BY DEF kfree
<1>4. /\ first \in Nat /\ last \in Nat /\ last * PageSize \in Nat
      /\ last * PageSize <= End(b)
  BY <1>1, PageOfFacts
<1>5. b.addr = first * PageSize
  BY <1>1, HeapAssumption, SMTT(60) DEF PageOf
<1>6. /\ r.start \in Nat /\ r.count \in Nat
      /\ r # NoCall => r.start >= first
      /\ r # NoCall => r.start + r.count - 1 <= last
      /\ r # NoCall /\ EndPageUsed(i) => r.start + r.count - 1 < last
  BY FreedRangeFacts
<1> DEFINE range == r.start .. r.start + r.count - 1
<1>7. ASSUME NEW k \in 1 .. Len(blocks), k # i
      PROVE  BlockPages(blocks[k]) \cap range = {}
  <2> DEFINE c == blocks[k]
  <2>1. /\ c \in Block /\ c.size >= 1 /\ c.addr \in Nat /\ End(c) \in Nat
        /\ c.addr < End(c)
    BY ListFacts
  <2> HIDE DEF r, first, last
  <2>2. CASE r = NoCall
    BY <2>2 DEF NoCall
  <2>3. CASE r # NoCall /\ k < i
    <3>1. End(c) <= first * PageSize
      BY <1>2, <1>5, <2>3 DEF Sorted
    <3>2. \A p \in BlockPages(c) : p \in Nat /\ p < first
      BY <1>4, <2>1, <3>1, PagesBelow
    <3> QED
      BY <1>4, <1>6, <2>3, <3>2
  <2>4. CASE r # NoCall /\ k > i /\ EndPageUsed(i)
    <3>1. last * PageSize <= c.addr
      <4>1. End(b) <= c.addr
        BY <1>2, <2>4 DEF Sorted
      <4> QED
        BY <1>1, <1>4, <2>1, <4>1, SMTT(60)
    <3>2. \A p \in BlockPages(c) : p \in Nat /\ last <= p
      BY <1>4, <2>1, <3>1, PagesAbove
    <3> QED
      BY <1>4, <1>6, <2>4, <3>2, SMTT(60)
  <2>5. CASE r # NoCall /\ k > i /\ ~EndPageUsed(i)
    <3>1. (last + 1) * PageSize <= c.addr
      <4> DEFINE next == blocks[i + 1]
      <4>1. i + 1 \in 1 .. Len(blocks) /\ i < Len(blocks)
        BY <1>2, <2>5
      <4>2. next.addr \in Nat /\ End(next) \in Nat /\ next.addr < End(next)
        BY <4>1, ListFacts
      <4>3. End(b) <= next.addr
        BY <1>2, <4>1 DEF Sorted
      <4>4. NextVirtual(i) = next.addr
        BY <4>1 DEF NextVirtual
      <4>5. /\ ExtendedEnd(b) \in Nat
            /\ ExtendedEnd(b) = (last + 1) * PageSize
            /\ ExtendedEnd(b) - PageSize = last * PageSize
        BY <1>4, HeapAssumption, SMTT(60) DEF ExtendedEnd, last
      <4>6. ~(/\ next.addr # 0 /\ next.addr < ExtendedEnd(b)
              /\ next.addr >= last * PageSize)
        BY <2>5, <4>4, <4>5 DEF EndPageUsed
      <4> HIDE DEF next
      <4>7. (last + 1) * PageSize <= next.addr
        BY <1>1, <1>4, <4>2, <4>3, <4>5, <4>6, SMTT(60)
      <4>8. CASE k = i + 1
        BY <4>7, <4>8 DEF next
      <4>9. CASE k > i + 1
        <5>1. End(next) <= c.addr
          BY <1>2, <4>1, <4>9 DEF Sorted, next
        <5> QED
          BY <2>1, <4>2, <4>5, <4>7, <5>1
      <4> QED
        BY <2>5, <4>8, <4>9
    <3>2. \A p \in BlockPages(c) : p \in Nat /\ last + 1 <= p
      BY <1>4, <2>1, <3>1, PagesAbove, SMTT(60)
    <3> QED
      BY <1>4, <1>6, <2>5, <3>2, SMTT(60)
  <2>6. k < i \/ k > i
    BY <1>7
  <2> QED
    BY <2>2, <2>3, <2>4, <2>5, <2>6
<1>8. /\ Len(blocks') = Len(blocks) - 1
      /\ \A j \in 1 .. Len(blocks) - 1 :
           blocks'[j] = IF j < i THEN blocks[j] ELSE blocks[j + 1]
  BY <1>2, RemoveAtFacts, ZenonT(60) DEF kfree
<1> TAKE j \in 1 .. Len(blocks')
<1>9. PICK k \in 1 .. Len(blocks) : k # i /\ blocks'[j] = blocks[k]
  <2>1. CASE j < i
    BY <1>2, <1>8, <2>1
  <2>2. CASE ~(j < i)
    <3>1. j + 1 \in 1 .. Len(blocks) /\ j + 1 # i
      BY <1>2, <1>8, <2>2
    <3> QED
      BY <1>8, <2>2, <3>1
  <2> QED
    BY <2>1, <2>2
<1> QED
  BY <1>3, <1>7, <1>9

\* kfree never reports a page free that holds a byte of a live block, as long
\* as the block freed starts its page and no edge case was met.
THEOREM KfreeNeverFreesNeighbours == Spec => KfreeSparesNeighbours
<1>1. ASSUME HeapInv, [Next]_vars
      PROVE  [ \A i \in 1 .. Len(blocks) :
                 edges = {} /\ blocks[i].addr % PageSize = 0 /\ kfree(i) =>
                   \A j \in 1 .. Len(blocks') :
                     BlockPages(blocks'[j])
                       \cap (freed'.start .. freed'.start + freed'.count - 1)
                         = {} ]_vars
  BY <1>1, KfreeSpares
<1> QED
  BY <1>1, HeapInvHolds, PTL DEF Spec, KfreeSparesNeighbours
=============================================================================
