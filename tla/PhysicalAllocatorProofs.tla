---------------------- MODULE PhysicalAllocatorProofs ----------------------
(***************************************************************************)
(* Proofs about the physical page allocator, for every initial list, every *)
(* set of clients and every set of request sizes, and about the list that  *)
(* boot hands over to it, for every memory map, kernel and trampoline.     *)
(***************************************************************************)
EXTENDS PhysicalAllocator, BootMemory, CommonFacts, FiniteSetTheorems

-----------------------------------------------------------------------------
(***************************************************************************)
(* Regions and their pages, by their end points.                           *)
(***************************************************************************)

\* The end points of a region are natural numbers.
LEMMA RegionFacts ==
  ASSUME NEW r \in Region
  PROVE  /\ r.start \in Nat /\ r.count \in Nat
         /\ End(r) = r.start + r.count /\ End(r) \in Nat
  BY DEF Region, End

\* Building a region from its start and its count.
LEMMA MakeRegion ==
  ASSUME NEW s \in Nat, NEW c \in Nat
  PROVE  LET r == [start |-> s, count |-> c]
         IN  r \in Region /\ r.start = s /\ r.count = c /\ End(r) = s + c
  BY DEF Region, End

\* Regions one after the other have no page in common.
LEMMA ApartIsDisjoint ==
  ASSUME NEW r \in Region, NEW s \in Region,
         End(r) <= s.start \/ End(s) <= r.start
  PROVE  Pages(r) \cap Pages(s) = {}
<1>1. \A x \in Pages(r) : x \in Int /\ r.start <= x /\ x < End(r)
  BY RegionFacts DEF Pages
<1>2. \A x \in Pages(s) : x \in Int /\ s.start <= x /\ x < End(s)
  BY RegionFacts DEF Pages
<1>3. /\ r.start \in Nat /\ End(r) \in Nat
      /\ s.start \in Nat /\ End(s) \in Nat
  BY RegionFacts
<1> QED
  BY <1>1, <1>2, <1>3

\* A region between the end points of another one is a part of it.
LEMMA WithinIsSubset ==
  ASSUME NEW r \in Region, NEW s \in Region,
         s.start <= r.start, End(r) <= End(s)
  PROVE  Pages(r) \subseteq Pages(s)
<1>1. /\ r.start \in Nat /\ End(r) \in Nat
      /\ s.start \in Nat /\ End(s) \in Nat
  BY RegionFacts
<1> QED
  BY <1>1 DEF Pages

-----------------------------------------------------------------------------
(***************************************************************************)
(* The three ways the list changes.  Each lemma says that order and the    *)
(* region at the end survive, and where the pages of the new list come     *)
(* from.                                                                   *)
(***************************************************************************)

\* Writing one region in place.
LEMMA ReplaceAtFacts ==
  ASSUME NEW l \in Seq(Region), NEW i \in 1 .. Len(l), NEW r \in Region
  PROVE  /\ ReplaceAt(l, i, r) \in Seq(Region)
         /\ Len(ReplaceAt(l, i, r)) = Len(l)
         /\ \A j \in 1 .. Len(l) :
              ReplaceAt(l, i, r)[j] = IF j = i THEN r ELSE l[j]
  BY DEF ReplaceAt

\* Where the pages are after m became the list and t was handed out.
TakeResult(l, i, m, t) ==
  /\ m \in Seq(Region) /\ Len(m) > 0
  /\ InOrder(m)
  /\ m[Len(m)] = l[Len(l)]
  /\ t \in Region /\ Pages(t) \subseteq Pages(l[i]) /\ t.start \in Pages(t)
  /\ \A k \in 2 .. Len(m) :
       \E j \in 2 .. Len(l) :
         /\ m[k].start = l[j].start
         /\ Pages(m[k]) \subseteq Pages(l[j])
         /\ Pages(m[k]) \cap Pages(t) = {}

\* Allocation takes pages off the list and leaves every other page where it
\* was.
LEMMA TakeFacts ==
  ASSUME NEW l \in Seq(Region), InOrder(l), NEW i \in 2 .. Len(l) - 1,
         NEW n \in Nat \ {0}, n <= l[i].count
  PROVE  TakeResult(l, i, TakeFromBack(l, i, n), Taken(l, i, n))
<1>m. PICK m : m = TakeFromBack(l, i, n)
  OBVIOUS
<1>t. PICK taken : taken = [start |-> End(l[i]) - n, count |-> n]
  OBVIOUS
<1> DEFINE left == [start |-> l[i].start, count |-> l[i].count - n]
<1>1. \A j \in 1 .. Len(l) : l[j] \in Region
  OBVIOUS
<1>a. /\ l[i] \in Region /\ l[i].start \in Nat /\ l[i].count \in Nat
      /\ End(l[i]) = l[i].start + l[i].count
  BY <1>1, RegionFacts
<1>b. /\ taken \in Region /\ taken.start = End(l[i]) - n
      /\ End(taken) = End(l[i])
  <2>1. End(l[i]) - n \in Nat
    BY <1>a, SMTT(60)
  <2>2. taken \in Region /\ taken.start = End(l[i]) - n
        /\ End(taken) = End(l[i]) - n + n
    BY <2>1, <1>t, MakeRegion
  <2>3. QED
    BY <2>2, <1>a
<1>2. Pages(taken) \subseteq Pages(l[i]) /\ taken.start \in Pages(taken)
  <2>1. Pages(taken) \subseteq Pages(l[i])
    BY <1>a, <1>b, WithinIsSubset, SMTT(60)
  <2>2. taken.start \in Pages(taken)
    BY <1>a, <1>b, SMTT(60) DEF Pages
  <2>3. QED
    BY <2>1, <2>2
<1>c. ASSUME NEW j \in 1 .. Len(l), j # i
      PROVE  Pages(l[j]) \cap Pages(taken) = {}
  <2>1. End(l[j]) <= l[i].start \/ End(l[i]) <= l[j].start
    BY <1>c DEF InOrder
  <2>2. l[j] \in Region /\ End(l[j]) \in Nat /\ l[j].start \in Nat
    BY <1>1, RegionFacts
  <2>3. End(l[j]) <= taken.start \/ End(taken) <= l[j].start
    BY <2>1, <2>2, <1>a, <1>b, SMTT(60)
  <2>4. QED
    BY <1>b, <2>2, <2>3, ApartIsDisjoint
<1>3. ASSUME l[i].count = n PROVE TakeResult(l, i, m, taken)
  <2>1. /\ m \in Seq(Region) /\ Len(m) = Len(l) - 1
        /\ \A j \in 1 .. Len(l) - 1 : m[j] = IF j < i THEN l[j] ELSE l[j + 1]
    <3>1. i \in 1 .. Len(l) /\ m = RemoveAt(l, i)
      BY <1>3, <1>m DEF TakeFromBack
    <3>2. QED
      BY <3>1, RemoveAtFacts, Zenon
  <2>2. InOrder(m)
    <3> SUFFICES ASSUME NEW j \in 1 .. Len(m), NEW k \in 1 .. Len(m), j < k
                 PROVE  End(m[j]) <= m[k].start
      BY DEF InOrder
    <3>1. PICK jj \in 1 .. Len(l), kk \in 1 .. Len(l) :
            jj < kk /\ m[j] = l[jj] /\ m[k] = l[kk]
      <4>1. CASE k < i
        <5>1. /\ j \in 1 .. Len(l) /\ m[j] = l[j]
              /\ k \in 1 .. Len(l) /\ m[k] = l[k]
          BY <4>1, <2>1
        <5>2. QED
          BY <5>1
      <4>2. CASE j < i /\ k >= i
        <5>1. k + 1 \in 1 .. Len(l) /\ j \in 1 .. Len(l)
          BY <2>1
        <5>2. QED
          BY <4>2, <5>1, <2>1, SMTT(60)
      <4>3. CASE j >= i
        <5>1. k + 1 \in 1 .. Len(l) /\ j + 1 \in 1 .. Len(l)
          BY <2>1
        <5>2. m[j] = l[j + 1] /\ m[k] = l[k + 1] /\ j + 1 < k + 1
          BY <4>3, <2>1
        <5>3. QED
          BY <5>1, <5>2
      <4>4. k < i \/ (j < i /\ k >= i) \/ j >= i
        BY <2>1
      <4>5. QED
        BY <4>1, <4>2, <4>3, <4>4, Zenon
    <3>2. QED
      BY <3>1 DEF InOrder
  <2>3. m[Len(m)] = l[Len(l)] /\ Len(m) > 0
    BY <2>1, SMTT(60)
  <2>4. ASSUME NEW k \in 2 .. Len(m)
        PROVE  \E j \in 2 .. Len(l) :
                 m[k] = l[j] /\ Pages(l[j]) \cap Pages(taken) = {}
    <3>1. PICK j \in 2 .. Len(l) : j # i /\ m[k] = l[j]
      <4>1. CASE k < i
        BY <4>1, <2>1
      <4>2. CASE k >= i
        <5>1. k + 1 \in 2 .. Len(l) /\ k + 1 # i /\ m[k] = l[k + 1]
          BY <4>2, <2>1
        <5>2. QED
          BY <5>1
      <4>3. k < i \/ k >= i
        BY <2>1
      <4>4. QED
        BY <4>1, <4>2, <4>3, Zenon
    <3>2. QED
      BY <3>1, <1>c
  <2>5. QED
    BY <1>b, <1>2, <2>1, <2>2, <2>3, <2>4 DEF TakeResult
<1>4. ASSUME l[i].count # n PROVE TakeResult(l, i, m, taken)
  <2>1. left \in Region /\ left.start = l[i].start
        /\ End(left) = End(l[i]) - n
    <3>1. l[i].count - n \in Nat
      BY <1>a
    <3>2. /\ left \in Region /\ left.start = l[i].start
          /\ End(left) = l[i].start + (l[i].count - n)
      BY <3>1, <1>a, MakeRegion
    <3>3. QED
      BY <3>2, <1>a, SMTT(60)
  <2> HIDE DEF left
  <2>2. /\ m \in Seq(Region) /\ Len(m) = Len(l)
        /\ \A j \in 1 .. Len(l) : m[j] = IF j = i THEN left ELSE l[j]
    <3>1. i \in 1 .. Len(l) /\ m = ReplaceAt(l, i, left)
      BY <1>4, <1>m DEF TakeFromBack, left
    <3>2. /\ ReplaceAt(l, i, left) \in Seq(Region)
          /\ Len(ReplaceAt(l, i, left)) = Len(l)
          /\ \A j \in 1 .. Len(l) :
               ReplaceAt(l, i, left)[j] = IF j = i THEN left ELSE l[j]
      BY <3>1, <2>1 DEF ReplaceAt
    <3>3. QED
      BY <3>1, <3>2, Zenon
  <2>3. \A j \in 1 .. Len(l) :
          m[j].start = l[j].start /\ End(m[j]) <= End(l[j])
    <3> TAKE j \in 1 .. Len(l)
    <3>1. l[j] \in Region /\ End(l[j]) \in Nat
      BY <1>1, RegionFacts
    <3>2. QED
      BY <3>1, <2>1, <2>2, <1>a, SMTT(60)
  <2>4. InOrder(m)
    <3>1. SUFFICES ASSUME NEW j \in 1 .. Len(l), NEW k \in 1 .. Len(l), j < k
                   PROVE  End(m[j]) <= m[k].start
      BY <2>2 DEF InOrder
    <3>2. End(l[j]) <= l[k].start
      BY <3>1 DEF InOrder
    <3>3. m[k] \in Region /\ m[j] \in Region /\ l[j] \in Region
      BY <2>2
    <3>4. m[k].start \in Nat /\ End(m[j]) \in Nat /\ End(l[j]) \in Nat
      BY <3>3, RegionFacts
    <3>5. QED
      BY <3>2, <3>4, <2>3, SMTT(60)
  <2>5. m[Len(m)] = l[Len(l)] /\ Len(m) > 0
    BY <2>2
  <2>6. ASSUME NEW k \in 2 .. Len(m)
        PROVE  /\ m[k].start = l[k].start
               /\ Pages(m[k]) \subseteq Pages(l[k])
               /\ Pages(m[k]) \cap Pages(taken) = {}
    <3>1. k \in 1 .. Len(l) /\ m[k] \in Region /\ l[k] \in Region
      BY <2>2
    <3>2. Pages(m[k]) \subseteq Pages(l[k])
      <4>1. m[k].start = l[k].start /\ End(m[k]) <= End(l[k])
        BY <3>1, <2>3
      <4>2. l[k].start <= m[k].start
        BY <4>1, <3>1, RegionFacts
      <4>3. QED
        BY <4>1, <4>2, <3>1, WithinIsSubset
    <3>3. CASE k = i
      <4>1. End(m[k]) <= taken.start
        BY <3>1, <3>3, <2>1, <2>2, <1>a, <1>b, SMTT(60)
      <4>2. QED
        BY <4>1, <3>1, <3>2, <2>3, <1>b, ApartIsDisjoint
    <3>4. CASE k # i
      BY <3>1, <3>2, <3>4, <2>3, <1>c
    <3>5. QED
      BY <3>3, <3>4
  <2>7. QED
    BY <1>b, <1>2, <2>2, <2>4, <2>5, <2>6 DEF TakeResult
<1>5. taken = Taken(l, i, n)
  BY <1>t DEF Taken
<1> QED
  BY <1>3, <1>4, <1>5, <1>m

\* An inserted region lies strictly between its neighbours.
LEMMA InsertFacts ==
  ASSUME NEW l \in Seq(Region), InOrder(l), NEW i \in 1 .. Len(l) - 1,
         NEW r \in Region,
         ~Touches(l[i], r.start, r.count),
         FitsBefore(l, i, r.start, r.count)
  PROVE  LET m == InsertAt(l, i, r)
         IN  /\ m \in Seq(Region) /\ Len(m) > 0
             /\ InOrder(m)
             /\ m[Len(m)] = l[Len(l)]
             /\ \A k \in 2 .. Len(m) :
                  m[k] = r \/ \E j \in 2 .. Len(l) : m[k] = l[j]
<1> DEFINE m == InsertAt(l, i, r)
<1>1. /\ m \in Seq(Region) /\ Len(m) = Len(l) + 1
      /\ \A j \in 1 .. Len(l) + 1 :
           m[j] = IF j < i THEN l[j] ELSE IF j = i THEN r ELSE l[j - 1]
  <2>1. i \in 1 .. Len(l) + 1
    OBVIOUS
  <2>2. /\ InsertAt(l, i, r) \in Seq(Region)
        /\ Len(InsertAt(l, i, r)) = Len(l) + 1
        /\ \A j \in 1 .. Len(l) + 1 :
             InsertAt(l, i, r)[j] = AfterInsert(l, i, r, j)
    BY <2>1, InsertAtFacts, Zenon
  <2>3. QED
    BY <2>2 DEF AfterInsert
<1> HIDE DEF m
<1>2. \A j \in 1 .. Len(l) :
        /\ l[j] \in Region /\ l[j].start \in Nat /\ End(l[j]) \in Nat
        /\ l[j].start <= End(l[j])
  <2> TAKE j \in 1 .. Len(l)
  <2>1. l[j] \in Region
    OBVIOUS
  <2>2. /\ l[j].start \in Nat /\ l[j].count \in Nat
        /\ End(l[j]) = l[j].start + l[j].count
    BY <2>1, RegionFacts
  <2>3. QED
    BY <2>1, <2>2
<1>3. r.start \in Nat /\ r.count \in Nat /\ End(r) = r.start + r.count
  BY RegionFacts
<1>4. i > 1 /\ End(l[i - 1]) < r.start /\ End(r) < l[i].start
  <2>1. i > 1 /\ End(l[i - 1]) < r.start /\ End(r) < End(l[i])
    BY <1>3 DEF FitsBefore
  <2>2. i \in 1 .. Len(l)
    OBVIOUS
  <2>3. QED
    BY <2>1, <2>2, <1>2, <1>3, SMTT(60) DEF Touches
<1>5. \A j \in 1 .. Len(l) : j < i => End(l[j]) <= r.start
  <2> SUFFICES ASSUME NEW j \in 1 .. Len(l), j < i PROVE End(l[j]) <= r.start
    OBVIOUS
  <2>1. i - 1 \in 1 .. Len(l)
    BY <1>4
  <2>2. CASE j = i - 1
    BY <2>1, <2>2, <1>2, <1>3, <1>4, SMTT(60)
  <2>3. CASE j < i - 1
    <3>1. End(l[j]) <= l[i - 1].start
      BY <2>1, <2>3 DEF InOrder
    <3>2. QED
      BY <3>1, <2>1, <1>2, <1>3, <1>4, SMTT(60)
  <2>4. QED
    BY <2>2, <2>3
<1>6. \A j \in 1 .. Len(l) : i <= j => End(r) <= l[j].start
  <2> SUFFICES ASSUME NEW j \in 1 .. Len(l), i <= j PROVE End(r) <= l[j].start
    OBVIOUS
  <2>1. CASE j = i
    BY <2>1, <1>2, <1>3, <1>4, SMTT(60)
  <2>2. CASE i < j
    <3>1. End(l[i]) <= l[j].start
      BY <2>2 DEF InOrder
    <3>2. i \in 1 .. Len(l)
      OBVIOUS
    <3>3. QED
      BY <3>1, <3>2, <1>2, <1>3, <1>4, SMTT(60)
  <2>3. QED
    BY <2>1, <2>2
<1>7. InOrder(m)
  <2> SUFFICES ASSUME NEW j \in 1 .. Len(l) + 1, NEW k \in 1 .. Len(l) + 1,
                      j < k
               PROVE  End(m[j]) <= m[k].start
    BY <1>1 DEF InOrder
  <2>1. CASE k < i
    BY <2>1, <1>1, SMTT(60) DEF InOrder
  <2>2. CASE k = i
    <3>1. j \in 1 .. Len(l) /\ j < i /\ m[j] = l[j] /\ m[k] = r
      BY <2>2, <1>1
    <3> QED
      BY <3>1, <1>5
  <2>3. CASE k > i /\ j < i
    <3>1. /\ m[j] = l[j] /\ j \in 1 .. Len(l)
          /\ m[k] = l[k - 1] /\ k - 1 \in 1 .. Len(l) /\ j < k - 1
      BY <2>3, <1>1
    <3>2. End(l[j]) <= l[k - 1].start
      BY <3>1 DEF InOrder
    <3>3. QED
      BY <3>1, <3>2
  <2>4. CASE k > i /\ j = i
    BY <2>4, <1>1, <1>6, SMTT(60)
  <2>5. CASE k > i /\ j > i
    <3>1. /\ m[j] = l[j - 1] /\ j - 1 \in 1 .. Len(l)
          /\ m[k] = l[k - 1] /\ k - 1 \in 1 .. Len(l) /\ j - 1 < k - 1
      BY <2>5, <1>1
    <3>2. End(l[j - 1]) <= l[k - 1].start
      BY <3>1 DEF InOrder
    <3>3. QED
      BY <3>1, <3>2
  <2>6. QED
    BY <2>1, <2>2, <2>3, <2>4, <2>5
<1>8. Len(m) > 0 /\ m[Len(m)] = l[Len(l)]
  BY <1>1
<1>9. \A k \in 2 .. Len(m) : m[k] = r \/ \E j \in 2 .. Len(l) : m[k] = l[j]
  <2> TAKE k \in 2 .. Len(m)
  <2>1. CASE k < i
    <3>1. k \in 1 .. Len(l) + 1 /\ k \in 2 .. Len(l)
      BY <2>1, <1>1
    <3>2. m[k] = l[k]
      BY <3>1, <2>1, <1>1
    <3>3. QED
      BY <3>1, <3>2, Zenon
  <2>2. CASE k = i
    BY <2>2, <1>1
  <2>3. CASE k > i
    <3>1. k - 1 \in 2 .. Len(l) /\ m[k] = l[k - 1]
      BY <2>3, <1>1, <1>4
    <3>2. QED
      BY <3>1, Zenon
  <2>4. k < i \/ k = i \/ k > i
    BY <1>1
  <2>5. QED
    BY <2>1, <2>2, <2>3, <2>4, Zenon
<1> QED
  BY <1>1, <1>7, <1>8, <1>9 DEF m

\* Connecting, element by element.
LEMMA ConnectElements ==
  ASSUME NEW l \in Seq(Region), NEW i \in 2 .. Len(l) - 1
  PROVE  LET m == ConnectAt(l, i)
         IN  /\ m \in Seq(Region) /\ Len(m) = Len(l) - 1
             /\ \A j \in 1 .. Len(l) - 1 :
                  /\ j < i - 1 => m[j] = l[j]
                  /\ j = i - 1 => m[j] = Connected(l[i - 1], l[i])
                  /\ j >= i => m[j] = l[j + 1]
<1> DEFINE c == Connected(l[i - 1], l[i])
           h == ReplaceAt(l, i - 1, c)
           m == ConnectAt(l, i)
<1>1. c \in Region
  <2>1. /\ l[i - 1] \in Region /\ l[i] \in Region
        /\ l[i - 1].start \in Nat /\ l[i - 1].count \in Nat /\ l[i].count \in Nat
    BY RegionFacts, SMTT(60)
  <2>2. l[i - 1].count + l[i].count \in Nat
    BY <2>1, SMTT(60)
  <2>3. QED
    BY <2>1, <2>2, MakeRegion DEF Connected
<1>2. m = RemoveAt(h, i)
  BY DEF ConnectAt
<1> HIDE DEF c
<1>3. /\ h \in Seq(Region) /\ Len(h) = Len(l)
      /\ \A j \in 1 .. Len(l) : h[j] = IF j = i - 1 THEN c ELSE l[j]
  <2>1. i - 1 \in 1 .. Len(l)
    OBVIOUS
  <2>2. QED
    BY <2>1, <1>1, ReplaceAtFacts, ZenonT(60)
<1> HIDE DEF h
<1>4. /\ m \in Seq(Region) /\ Len(m) = Len(h) - 1
      /\ \A j \in 1 .. Len(h) - 1 : m[j] = IF j < i THEN h[j] ELSE h[j + 1]
  <2>1. i \in 1 .. Len(h)
    BY <1>3
  <2>2. /\ RemoveAt(h, i) \in Seq(Region) /\ Len(RemoveAt(h, i)) = Len(h) - 1
        /\ \A j \in 1 .. Len(h) - 1 :
             RemoveAt(h, i)[j] = IF j < i THEN h[j] ELSE h[j + 1]
    BY <2>1, <1>3, RemoveAtFacts, Zenon
  <2>3. QED
    BY <2>2, <1>2, Zenon
<1> HIDE DEF m
<1>5. /\ Len(m) = Len(l) - 1
      /\ \A j \in 1 .. Len(l) - 1 :
           /\ j < i - 1 => m[j] = l[j]
           /\ j = i - 1 => m[j] = c
           /\ j >= i => m[j] = l[j + 1]
  BY <1>3, <1>4, SMTT(60)
<1> QED
  BY <1>4, <1>5, <1>3 DEF m, c

\* Connecting adds one page, the gap, and loses the last page of the second
\* region.
LEMMA ConnectFacts ==
  ASSUME NEW l \in Seq(Region), InOrder(l), NEW i \in 2 .. Len(l) - 1,
         Connects(l[i - 1], l[i])
  PROVE  LET m == ConnectAt(l, i)
         IN  /\ m \in Seq(Region) /\ Len(m) = Len(l) - 1
             /\ InOrder(m)
             /\ m[Len(m)] = l[Len(l)]
             /\ \A k \in 2 .. Len(m) :
                  \/ \E j \in 2 .. Len(l) : m[k] = l[j]
                  \/ /\ i - 1 \in 2 .. Len(l)
                     /\ m[k].start = l[i - 1].start
                     /\ Pages(m[k]) \subseteq
                          Pages(l[i - 1]) \cup {End(l[i - 1])} \cup Pages(l[i])
<1> DEFINE a == l[i - 1]
           b == l[i]
           c == Connected(a, b)
           m == ConnectAt(l, i)
<1>1. /\ a \in Region /\ a.start \in Nat /\ a.count \in Nat
      /\ End(a) = a.start + a.count
  BY RegionFacts, SMTT(60)
<1>2. /\ b \in Region /\ b.start \in Nat /\ b.count \in Nat
      /\ End(b) = b.start + b.count
  BY RegionFacts, SMTT(60)
<1>3. End(a) + 1 = b.start
  BY DEF Connects
<1>4. c \in Region /\ c.start = a.start /\ End(c) = End(a) + b.count
  <2>1. a.count + b.count \in Nat
    BY <1>1, <1>2, SMTT(60)
  <2>2. /\ c \in Region /\ c.start = a.start
        /\ End(c) = a.start + (a.count + b.count)
    BY <2>1, <1>1, MakeRegion DEF Connected
  <2>3. QED
    BY <2>2, <1>1, <1>2, SMTT(60)
<1> HIDE DEF c
<1>7. m \in Seq(Region)
  BY ConnectElements
<1>8. /\ Len(m) = Len(l) - 1
      /\ \A j \in 1 .. Len(l) - 1 :
           /\ j < i - 1 => m[j] = l[j]
           /\ j = i - 1 => m[j] = c
           /\ j >= i => m[j] = l[j + 1]
  BY ConnectElements DEF c
<1> HIDE DEF m
<1>9. End(c) <= End(b)
  BY <1>1, <1>2, <1>3, <1>4, SMTT(60)
<1>10. \A j \in 1 .. Len(l) :
         l[j] \in Region /\ l[j].start \in Nat /\ End(l[j]) \in Nat
  <2> TAKE j \in 1 .. Len(l)
  <2>1. l[j] \in Region
    OBVIOUS
  <2>2. QED
    BY <2>1, RegionFacts
<1>11. InOrder(m)
  <2> SUFFICES ASSUME NEW j \in 1 .. Len(l) - 1, NEW k \in 1 .. Len(l) - 1,
                      j < k
               PROVE  End(m[j]) <= m[k].start
    BY <1>8 DEF InOrder
  <2>1. CASE k < i - 1
    <3>1. /\ m[j] = l[j] /\ j \in 1 .. Len(l)
          /\ m[k] = l[k] /\ k \in 1 .. Len(l) /\ j < k
      BY <2>1, <1>8
    <3>2. End(l[j]) <= l[k].start
      BY <3>1 DEF InOrder
    <3>3. QED
      BY <3>1, <3>2
  <2>2. CASE k = i - 1
    <3>1. End(l[j]) <= a.start
      BY <2>2 DEF InOrder
    <3>2. QED
      BY <3>1, <2>2, <1>4, <1>8
  <2>3. CASE k >= i /\ j < i - 1
    <3>1. /\ m[j] = l[j] /\ j \in 1 .. Len(l)
          /\ m[k] = l[k + 1] /\ k + 1 \in 1 .. Len(l) /\ j < k + 1
      BY <2>3, <1>8, SMTT(60)
    <3>2. End(l[j]) <= l[k + 1].start
      BY <3>1 DEF InOrder
    <3>3. QED
      BY <3>1, <3>2
  <2>4. CASE k >= i /\ j = i - 1
    <3>1. m[j] = c /\ m[k] = l[k + 1] /\ k + 1 \in 1 .. Len(l)
      BY <2>4, <1>8
    <3>2. End(b) <= l[k + 1].start
      BY <2>4, <3>1 DEF InOrder
    <3>3. End(c) \in Nat /\ End(b) \in Nat /\ l[k + 1].start \in Nat
      BY <3>1, <1>4, <1>2, <1>10, RegionFacts
    <3>4. QED
      BY <3>1, <3>2, <3>3, <1>9, SMTT(30)
  <2>5. CASE k >= i /\ j >= i
    <3>1. /\ m[j] = l[j + 1] /\ j + 1 \in 1 .. Len(l)
          /\ m[k] = l[k + 1] /\ k + 1 \in 1 .. Len(l) /\ j + 1 < k + 1
      BY <2>5, <1>8
    <3>2. End(l[j + 1]) <= l[k + 1].start
      BY <3>1 DEF InOrder
    <3>3. QED
      BY <3>1, <3>2
  <2>6. QED
    BY <2>1, <2>2, <2>3, <2>4, <2>5
<1>12. m[Len(m)] = l[Len(l)]
  BY <1>8, SMTT(60)
<1>13. Pages(c) \subseteq Pages(a) \cup {End(a)} \cup Pages(b)
  <2> SUFFICES ASSUME NEW x \in Pages(c)
               PROVE  x \in Pages(a) \/ x = End(a) \/ x \in Pages(b)
    OBVIOUS
  <2>1. x \in Int /\ a.start <= x /\ x < End(a) + b.count
    BY <1>1, <1>2, <1>4, SMTT(60) DEF Pages
  <2> HIDE DEF a, b
  <2>2. x < End(a) \/ x = End(a) \/ (b.start <= x /\ x < End(b))
    <3>1. /\ End(a) \in Nat /\ End(a) + 1 = b.start
          /\ b.count \in Nat /\ End(b) = b.start + b.count
      BY <1>1, <1>2, <1>3, SMTT(60)
    <3>2. \A e, n, s, f : e \in Nat /\ n \in Nat /\ e + 1 = s /\ f = s + n
                            /\ x < e + n
                            => x < e \/ x = e \/ (s <= x /\ x < f)
      BY <2>1, SMTT(60)
    <3>3. QED
      BY <2>1, <3>1, <3>2, Zenon
  <2>3. QED
    BY <2>1, <2>2, <1>1, <1>2, SMTT(60) DEF Pages
<1>14. ASSUME NEW k \in 2 .. Len(m)
       PROVE  \/ \E j \in 2 .. Len(l) : m[k] = l[j]
              \/ i - 1 \in 2 .. Len(l) /\ m[k] = c
  <2>1. CASE k < i - 1
    BY <2>1, <1>8
  <2>2. CASE k = i - 1
    BY <2>2, <1>8
  <2>3. CASE k >= i
    <3>1. k + 1 \in 2 .. Len(l) /\ m[k] = l[k + 1]
      BY <2>3, <1>8, SMTT(60)
    <3>2. QED
      BY <3>1
  <2>4. k < i - 1 \/ k = i - 1 \/ k >= i
    BY <1>8
  <2>5. QED
    BY <2>1, <2>2, <2>3, <2>4, Zenon
<1> QED
  BY <1>4, <1>7, <1>8, <1>11, <1>12, <1>13, <1>14 DEF m

-----------------------------------------------------------------------------
(***************************************************************************)
(* The list invariant: types, order, and the region at the end being the   *)
(* one boot put there.  The last conjunct is what keeps the address kfree  *)
(* passes out of the list, and it makes the order inductive.               *)
(***************************************************************************)
TopRegionFixed == list[Len(list)] = InitialList[Len(InitialList)]

\* Between calls the cursor is parked, so shrinking the list cannot strand it.
CursorParked == pc # "merge" => cursor = 0

ListInv == TypeOK /\ FreeListOrdered /\ TopRegionFixed /\ CursorParked

\* A call of freePhysicalMemory keeps the list well formed, and what it adds
\* to the list is exactly the region it was given.
LEMMA FreeKeepsList ==
  ASSUME ListInv, NEW p \in Nat, NEW n \in Nat, freePhysicalMemory(p, n)
  PROVE  /\ list' \in Seq(Region) /\ Len(list') > 0
         /\ FreeListOrdered' /\ TopRegionFixed' /\ CursorParked'
         /\ pc' \in {"ready", "merge"} /\ cursor' \in 0 .. Len(list')
         /\ usedMemorySize' = usedMemorySize /\ swallowed' = swallowed
         /\ \A k \in 2 .. Len(list') :
              \/ \E j \in 2 .. Len(list) : list'[k] = list[j]
              \/ list'[k] = [start |-> p, count |-> n]
<1> USE DEF ListInv
<1>0. usedMemorySize' = usedMemorySize /\ swallowed' = swallowed
  BY DEF freePhysicalMemory
<1>1. CASE FreeRejected(p, n)
  BY <1>0, <1>1 DEF FreeRejected, freePhysicalMemory, TypeOK, FreeListOrdered,
                    TopRegionFixed, CursorParked
<1>2. CASE FreeNotPlaced(p, n)
  BY <1>0, <1>2 DEF FreeNotPlaced, StartMerge, TypeOK, FreeListOrdered,
                    TopRegionFixed, CursorParked
<1>3. CASE FreeInserted(p, n)
  <2> DEFINE r == [start |-> p, count |-> n]
  <2>1. r \in Region /\ r.start = p /\ r.count = n
    BY MakeRegion
  <2>2. PICK i \in 1 .. Len(list) - 1 :
          /\ ~Touches(list[i], p, n)
          /\ FitsBefore(list, i, p, n)
          /\ list' = InsertAt(list, i, r)
    BY <1>3 DEF FreeInserted
  <2>3. list \in Seq(Region) /\ InOrder(list)
    BY DEF TypeOK, FreeListOrdered
  <2>4. pc' = "merge" /\ cursor' = 1
    BY <1>3 DEF FreeInserted, StartMerge
  <2> HIDE DEF r
  <2>5. /\ list' \in Seq(Region) /\ Len(list') > 0
        /\ InOrder(list')
        /\ list'[Len(list')] = list[Len(list)]
        /\ \A k \in 2 .. Len(list') :
             list'[k] = r \/ \E j \in 2 .. Len(list) : list'[k] = list[j]
    BY <2>1, <2>2, <2>3, InsertFacts
  <2>6. QED
    BY <1>0, <2>4, <2>5, SMTT(60) DEF FreeListOrdered, TopRegionFixed, CursorParked, r
<1>4. QED
  BY <1>1, <1>2, <1>3 DEF freePhysicalMemory

\* Every step keeps the list invariant.
LEMMA ListInvStep == ListInv /\ [Next]_vars => ListInv'
<1> SUFFICES ASSUME ListInv, [Next]_vars PROVE ListInv'
  OBVIOUS
<1>0. /\ list \in Seq(Region) /\ Len(list) > 0 /\ InOrder(list)
      /\ Len(list) \in Nat
  BY DEF ListInv, TypeOK, FreeListOrdered
<1>1. ASSUME NEW c \in Clients, NEW n \in Counts, allocatePhysicalMemory(c, n)
      PROVE  ListInv'
  <2>1. n \in Nat \ {0}
    BY ConstantsAssumption
  <2>2. PICK i \in 2 .. Len(list) - 1 :
          /\ n <= list[i].count
          /\ held' = [held EXCEPT ![c] = Taken(list, i, n)]
          /\ list' = TakeFromBack(list, i, n)
    <3>1. PICK i \in Searched :
            /\ list[i].count >= n
            /\ held' = [held EXCEPT ![c] = Taken(list, i, n)]
            /\ list' = TakeFromBack(list, i, n)
      BY <1>1 DEF allocatePhysicalMemory, IsFirstFit
    <3>2. i \in 2 .. Len(list) - 1
      BY DEF Searched
    <3>3. list[i].count \in Nat
      BY <3>2, <1>0, RegionFacts
    <3>4. QED
      BY <2>1, <3>1, <3>2, <3>3
  <2>3. /\ list' \in Seq(Region) /\ Len(list') > 0 /\ InOrder(list')
        /\ list'[Len(list')] = list[Len(list)]
        /\ Taken(list, i, n) \in Region
    <3>1. TakeResult(list, i, TakeFromBack(list, i, n), Taken(list, i, n))
      BY <1>0, <2>1, <2>2, TakeFacts
    <3>2. QED
      BY <3>1, <2>2 DEF TakeResult
  <2>4. held' \in [Clients -> Region \cup {NoRegion}]
    BY <2>2, <2>3 DEF ListInv, TypeOK
  <2>5. pc' = pc /\ cursor' = cursor /\ swallowed' = swallowed /\ pc = "ready"
    BY <1>1 DEF allocatePhysicalMemory
  <2>6. usedMemorySize' \in 0 .. MaxUsed
    BY <1>1, <2>1, ConstantsAssumption DEF allocatePhysicalMemory, ListInv, TypeOK
  <2>7. QED
    BY <2>3, <2>4, <2>5, <2>6, SMTT(60)
       DEF ListInv, TypeOK, FreeListOrdered, TopRegionFixed,
         CursorParked
<1>2. ASSUME NEW n \in Counts, OutOfMemory(n) PROVE ListInv'
  BY <1>2 DEF OutOfMemory, ListInv, TypeOK, FreeListOrdered, TopRegionFixed,
         CursorParked
<1>3. ASSUME NEW c \in Clients, FreeHeld(c) PROVE ListInv'
  <2>1. held[c] \in Region
    BY <1>3 DEF FreeHeld, ListInv, TypeOK
  <2>2. held[c].start \in Nat /\ held[c].count \in Nat
    BY <2>1, RegionFacts
  <2>3. freePhysicalMemory(held[c].start, held[c].count)
    BY <1>3 DEF FreeHeld
  <2>4. held' \in [Clients -> Region \cup {NoRegion}]
    BY <1>3 DEF FreeHeld, ListInv, TypeOK
  <2>5. /\ list' \in Seq(Region) /\ Len(list') > 0
        /\ FreeListOrdered' /\ TopRegionFixed' /\ CursorParked'
        /\ pc' \in {"ready", "merge"} /\ cursor' \in 0 .. Len(list')
        /\ usedMemorySize' = usedMemorySize /\ swallowed' = swallowed
    BY <2>2, <2>3, FreeKeepsList
  <2>6. QED
    BY <2>4, <2>5 DEF ListInv, TypeOK
<1>4. ASSUME NEW n \in Counts, FreeHeapAddress(n) PROVE ListInv'
  <2>1. n \in Nat /\ HeapPage \in Nat
    BY ConstantsAssumption
  <2>2. freePhysicalMemory(HeapPage, n) /\ held' = held
    BY <1>4 DEF FreeHeapAddress
  <2>3. /\ list' \in Seq(Region) /\ Len(list') > 0
        /\ FreeListOrdered' /\ TopRegionFixed' /\ CursorParked'
        /\ pc' \in {"ready", "merge"} /\ cursor' \in 0 .. Len(list')
        /\ usedMemorySize' = usedMemorySize /\ swallowed' = swallowed
    BY <2>1, <2>2, FreeKeepsList
  <2>4. QED
    BY <2>2, <2>3 DEF ListInv, TypeOK
<1>5. CASE MergeAdvance
  BY <1>0, <1>5
     DEF MergeAdvance, ListInv, TypeOK, FreeListOrdered, TopRegionFixed,
         CursorParked
<1>6. CASE MergeConnect
  <2>1. /\ cursor \in 2 .. Len(list) - 1
        /\ Connects(list[cursor - 1], list[cursor])
        /\ list' = ConnectAt(list, cursor)
        /\ swallowed' = swallowed \cup {End(list[cursor - 1])}
        /\ UNCHANGED <<held, pc, cursor, usedMemorySize>>
    BY <1>6 DEF MergeConnect
  <2>2. /\ list' \in Seq(Region) /\ Len(list') = Len(list) - 1
        /\ InOrder(list') /\ list'[Len(list')] = list[Len(list)]
    BY <1>0, <2>1, ConnectFacts
  <2>3. End(list[cursor - 1]) \in Nat
    BY <1>0, <2>1, RegionFacts, SMTT(60)
  <2>4. Len(list') > 0 /\ cursor' \in 0 .. Len(list')
    BY <1>0, <2>1, <2>2
  <2>5. swallowed' \subseteq Nat
    BY <2>1, <2>3 DEF ListInv, TypeOK
  <2>6. QED
    BY <2>1, <2>2, <2>4, <2>5
       DEF ListInv, TypeOK, FreeListOrdered, TopRegionFixed,
         CursorParked
<1>7. CASE MergeDone
  BY <1>0, <1>7
     DEF MergeDone, ListInv, TypeOK, FreeListOrdered, TopRegionFixed,
         CursorParked
<1>8. CASE Halted \/ UNCHANGED vars
  BY <1>8 DEF Halted, vars, ListInv, TypeOK, FreeListOrdered, TopRegionFixed,
         CursorParked
<1> QED
  BY <1>1, <1>2, <1>3, <1>4, <1>5, <1>6, <1>7, <1>8 DEF Next, MergeStep

\* The initial state satisfies the list invariant.
LEMMA ListInvInit == Init => ListInv
  BY InitialListAssumption, ConstantsAssumption
     DEF Init, ListInv, TypeOK, FreeListOrdered, TopRegionFixed,
         CursorParked

\* The list invariant holds in every reachable state.
THEOREM ListInvariant == Spec => []ListInv
  BY ListInvInit, ListInvStep, PTL DEF Spec

\* The variables of the allocator always have their types.
THEOREM TypeCorrect == Spec => []TypeOK
<1>1. ListInv => TypeOK
  BY DEF ListInv
<1> QED
  BY <1>1, ListInvariant, PTL

\* The free list stays in address order and its regions never overlap, for
\* every sequence of allocatePhysicalMemory and freePhysicalMemory calls.
THEOREM AlwaysOrdered == Spec => []FreeListOrdered
<1>1. ListInv => FreeListOrdered
  BY DEF ListInv
<1> QED
  BY <1>1, ListInvariant, PTL

\* No step changes the region at the end of the list: the pages of the last
\* usable region are never handed out by allocatePhysicalMemory.
THEOREM TopNeverTouched == Spec => TopRegionNeverTouched
<1>1. ListInv /\ ListInv' => list'[Len(list')] = list[Len(list)]
  BY DEF ListInv, TopRegionFixed
<1> QED
  BY <1>1, ListInvariant, PTL DEF TopRegionNeverTouched

-----------------------------------------------------------------------------
(***************************************************************************)
(* Ownership.  The only way a page comes to be in two places is the gap    *)
(* page a connecting step adds to a region; `swallowed' records it.        *)
(***************************************************************************)

\* What allocatePhysicalMemory does to the list and to its client, in the
\* terms of TakeFacts.
LEMMA AllocateFacts ==
  ASSUME ListInv, NEW c \in Clients, NEW n \in Counts,
         allocatePhysicalMemory(c, n)
  PROVE  \E i \in 2 .. Len(list), t \in Region :
           /\ held' = [held EXCEPT ![c] = t]
           /\ Pages(t) \subseteq Pages(list[i]) /\ t.start \in Pages(t)
           /\ \A k \in 2 .. Len(list') :
                \E j \in 2 .. Len(list) :
                  /\ list'[k].start = list[j].start
                  /\ Pages(list'[k]) \subseteq Pages(list[j])
                  /\ Pages(list'[k]) \cap Pages(t) = {}
<1>0. list \in Seq(Region) /\ InOrder(list)
  BY DEF ListInv, TypeOK, FreeListOrdered
<1>1. n \in Nat \ {0}
  BY ConstantsAssumption
<1>2. PICK i \in Searched :
        /\ list[i].count >= n
        /\ held' = [held EXCEPT ![c] = Taken(list, i, n)]
        /\ list' = TakeFromBack(list, i, n)
  BY DEF allocatePhysicalMemory, IsFirstFit
<1>3. i \in 2 .. Len(list) - 1
  BY DEF Searched
<1>4. list[i].count \in Nat
  BY <1>0, <1>3, RegionFacts
<1>5. n <= list[i].count
  BY <1>1, <1>2, <1>4
<1>6. TakeResult(list, i, TakeFromBack(list, i, n), Taken(list, i, n))
  BY <1>0, <1>1, <1>3, <1>5, TakeFacts
<1>7. TakeResult(list, i, list', Taken(list, i, n)) /\ i \in 2 .. Len(list)
  BY <1>0, <1>2, <1>3, <1>6
<1>8. PICK t \in Region :
        held' = [held EXCEPT ![c] = t] /\ TakeResult(list, i, list', t)
  BY <1>2, <1>7 DEF TakeResult
<1> QED
  BY <1>7, <1>8, Zenon DEF TakeResult

\* What a connecting step does to the list, in the terms of ConnectFacts.
LEMMA MergeConnectFacts ==
  ASSUME ListInv, MergeConnect
  PROVE  /\ cursor \in 2 .. Len(list) /\ held' = held
         /\ Connects(list[cursor - 1], list[cursor])
         /\ swallowed' = swallowed \cup {End(list[cursor - 1])}
         /\ \A k \in 2 .. Len(list') :
              \/ \E j \in 2 .. Len(list) : list'[k] = list[j]
              \/ /\ cursor - 1 \in 2 .. Len(list)
                 /\ list'[k].start = list[cursor - 1].start
                 /\ Pages(list'[k]) \subseteq
                      Pages(list[cursor - 1]) \cup {End(list[cursor - 1])}
                        \cup Pages(list[cursor])
<1>1. list \in Seq(Region) /\ InOrder(list)
  BY DEF ListInv, TypeOK, FreeListOrdered
<1>2. /\ cursor \in 2 .. Len(list) - 1 /\ held' = held
      /\ Connects(list[cursor - 1], list[cursor])
      /\ swallowed' = swallowed \cup {End(list[cursor - 1])}
      /\ list' = ConnectAt(list, cursor)
  BY DEF MergeConnect
<1>3. cursor \in 2 .. Len(list)
  BY <1>1, <1>2
<1>4. \A k \in 2 .. Len(list') :
        \/ \E j \in 2 .. Len(list) : list'[k] = list[j]
        \/ /\ cursor - 1 \in 2 .. Len(list)
           /\ list'[k].start = list[cursor - 1].start
           /\ Pages(list'[k]) \subseteq
                Pages(list[cursor - 1]) \cup {End(list[cursor - 1])}
                  \cup Pages(list[cursor])
  BY <1>1, <1>2, ConnectFacts, ZenonT(60)
<1> QED
  BY <1>2, <1>3, <1>4

\* The address kfree passes is never put on the list: it lies above the region
\* at the end, so the search finds no place for it.
LEMMA HeapAddressNeverListed ==
  ASSUME ListInv, NEW n \in Counts, FreeHeapAddress(n)
  PROVE  list' = list /\ held' = held /\ swallowed' = swallowed
<1>1. n \in Nat /\ HeapPage \in Nat
  BY ConstantsAssumption
<1>2. list \in Seq(Region) /\ InOrder(list) /\ Len(list) > 0
  BY DEF ListInv, TypeOK, FreeListOrdered
<1>3. End(list[Len(list)]) < HeapPage
  BY InitialListAssumption DEF ListInv, TopRegionFixed
<1>4. ASSUME NEW i \in 1 .. Len(list) - 1
      PROVE  ~FitsBefore(list, i, HeapPage, n)
  <2>1. End(list[i]) <= list[Len(list)].start
    BY <1>2 DEF InOrder
  <2>2. list[i] \in Region /\ list[Len(list)] \in Region
    BY <1>2
  <2>3. /\ End(list[i]) \in Nat
        /\ list[Len(list)].start \in Nat /\ list[Len(list)].count \in Nat
        /\ End(list[Len(list)]) = list[Len(list)].start + list[Len(list)].count
    BY <2>2, RegionFacts
  <2>4. End(list[i]) < HeapPage
    BY <1>1, <1>3, <2>1, <2>3, SMTT(60)
  <2>5. QED
    BY <1>1, <2>3, <2>4 DEF FitsBefore
<1>5. list' = list
  BY <1>4 DEF FreeHeapAddress, freePhysicalMemory, FreeRejected, FreeInserted,
              FreeNotPlaced
<1> QED
  BY <1>5 DEF FreeHeapAddress, freePhysicalMemory

\* No step makes a page shared without recording it as swallowed.
LEMMA SharedStep ==
  ListInv /\ SharedOnlyIfSwallowed /\ [Next]_vars => SharedOnlyIfSwallowed'
<1> SUFFICES ASSUME ListInv, SharedOnlyIfSwallowed, [Next]_vars
             PROVE  SharedOnlyIfSwallowed'
  OBVIOUS
<1>0. held \in [Clients -> Region \cup {NoRegion}]
  BY DEF ListInv, TypeOK
<1>1. ASSUME NEW c \in Clients, NEW n \in Counts, allocatePhysicalMemory(c, n)
      PROVE  SharedOnlyIfSwallowed'
  <2>1. PICK i \in 2 .. Len(list), t \in Region :
          /\ held' = [held EXCEPT ![c] = t]
          /\ Pages(t) \subseteq Pages(list[i]) /\ t.start \in Pages(t)
          /\ \A k \in 2 .. Len(list') :
               \E j \in 2 .. Len(list) :
                 /\ list'[k].start = list[j].start
                 /\ Pages(list'[k]) \subseteq Pages(list[j])
                 /\ Pages(list'[k]) \cap Pages(t) = {}
    BY <1>1, AllocateFacts, Zenon
  <2>2. swallowed' = swallowed
    BY <1>1 DEF allocatePhysicalMemory
  <2>3. /\ held'[c] = t
        /\ \A d \in Clients : d # c => held'[d] = held[d]
    BY <2>1, <1>0
  <2>4. ASSUME NEW d \in Holders', NEW k \in 2 .. Len(list')
        PROVE  Pages(held'[d]) \cap Pages(list'[k]) \subseteq swallowed'
    <3>1. PICK j \in 2 .. Len(list) :
            /\ Pages(list'[k]) \subseteq Pages(list[j])
            /\ Pages(list'[k]) \cap Pages(t) = {}
      BY <2>1
    <3>2. CASE d = c
      BY <3>1, <3>2, <2>3
    <3>3. CASE d # c
      <4>1. d \in Holders /\ held'[d] = held[d]
        BY <3>3, <2>3 DEF Holders
      <4>2. Pages(held[d]) \cap Pages(list[j]) \subseteq swallowed
        BY <4>1 DEF SharedOnlyIfSwallowed
      <4>3. QED
        BY <4>1, <4>2, <3>1, <2>2
    <3>4. QED
      BY <3>2, <3>3
  <2>5. ASSUME NEW d \in Holders', d # c
        PROVE  Pages(held'[d]) \cap Pages(t) \subseteq swallowed'
    <3>1. d \in Holders /\ held'[d] = held[d]
      BY <2>5, <2>3 DEF Holders
    <3>2. Pages(held[d]) \cap Pages(list[i]) \subseteq swallowed
      BY <3>1 DEF SharedOnlyIfSwallowed
    <3>3. QED
      BY <3>1, <3>2, <2>1, <2>2
  <2>6. ASSUME NEW d \in Holders', NEW e \in Holders', d # e
        PROVE  Pages(held'[d]) \cap Pages(held'[e]) \subseteq swallowed'
    <3>1. CASE d = c
      BY <3>1, <2>3, <2>5, <2>6
    <3>2. CASE e = c
      BY <3>2, <2>3, <2>5, <2>6
    <3>3. CASE d # c /\ e # c
      <4>1. /\ d \in Holders /\ held'[d] = held[d]
            /\ e \in Holders /\ held'[e] = held[e]
        BY <3>3, <2>3 DEF Holders
      <4>2. QED
        BY <4>1, <2>2, <2>6 DEF SharedOnlyIfSwallowed
    <3>4. QED
      BY <3>1, <3>2, <3>3
  <2>7. QED
    BY <2>4, <2>6 DEF SharedOnlyIfSwallowed
<1>2. ASSUME NEW n \in Counts, OutOfMemory(n) PROVE SharedOnlyIfSwallowed'
  BY <1>2 DEF OutOfMemory, SharedOnlyIfSwallowed, Holders
<1>3. ASSUME NEW c \in Clients, FreeHeld(c) PROVE SharedOnlyIfSwallowed'
  <2> DEFINE r == [start |-> held[c].start, count |-> held[c].count]
  <2>1. held[c] \in Region /\ c \in Holders
    BY <1>0, <1>3 DEF FreeHeld, Holders
  <2>2. held[c].start \in Nat /\ held[c].count \in Nat
    BY <2>1, RegionFacts
  <2>3. /\ swallowed' = swallowed
        /\ \A k \in 2 .. Len(list') :
             (\E j \in 2 .. Len(list) : list'[k] = list[j]) \/ list'[k] = r
    BY <1>3, <2>2, FreeKeepsList DEF FreeHeld
  <2>4. Pages(r) = Pages(held[c])
    BY DEF Pages, End
  <2> HIDE DEF r
  <2>5. /\ held'[c] = NoRegion
        /\ \A d \in Clients : d # c => held'[d] = held[d]
    BY <1>0, <1>3 DEF FreeHeld
  <2>6. \A d \in Holders' : d # c /\ d \in Holders /\ held'[d] = held[d]
    BY <2>5 DEF Holders
  <2>7. ASSUME NEW d \in Holders', NEW k \in 2 .. Len(list')
        PROVE  Pages(held'[d]) \cap Pages(list'[k]) \subseteq swallowed'
    <3>1. CASE \E j \in 2 .. Len(list) : list'[k] = list[j]
      BY <3>1, <2>3, <2>6 DEF SharedOnlyIfSwallowed
    <3>2. CASE list'[k] = r
      BY <3>2, <2>1, <2>3, <2>4, <2>6 DEF SharedOnlyIfSwallowed
    <3>3. QED
      BY <3>1, <3>2, <2>3
  <2>8. QED
    BY <2>3, <2>6, <2>7 DEF SharedOnlyIfSwallowed
<1>4. ASSUME NEW n \in Counts, FreeHeapAddress(n) PROVE SharedOnlyIfSwallowed'
  <2>1. /\ held' = held /\ swallowed' = swallowed
        /\ \A k \in 2 .. Len(list') :
             \E j \in 2 .. Len(list) : list'[k] = list[j]
    BY <1>4, HeapAddressNeverListed
  <2>2. QED
    BY <2>1 DEF SharedOnlyIfSwallowed, Holders
<1>5. CASE MergeAdvance \/ MergeDone \/ Halted \/ UNCHANGED vars
  BY <1>5 DEF MergeAdvance, MergeDone, Halted, vars, SharedOnlyIfSwallowed,
              Holders
<1>6. CASE MergeConnect
  <2>1. /\ cursor \in 2 .. Len(list) /\ held' = held
        /\ swallowed' = swallowed \cup {End(list[cursor - 1])}
        /\ \A k \in 2 .. Len(list') :
             \/ \E j \in 2 .. Len(list) : list'[k] = list[j]
             \/ /\ cursor - 1 \in 2 .. Len(list)
                /\ Pages(list'[k]) \subseteq
                     Pages(list[cursor - 1]) \cup {End(list[cursor - 1])}
                       \cup Pages(list[cursor])
    BY <1>6, MergeConnectFacts
  <2>2. Holders' = Holders
    BY <2>1 DEF Holders
  <2>3. ASSUME NEW d \in Holders, NEW k \in 2 .. Len(list')
        PROVE  Pages(held[d]) \cap Pages(list'[k]) \subseteq swallowed'
    <3>1. CASE \E j \in 2 .. Len(list) : list'[k] = list[j]
      BY <3>1, <2>1 DEF SharedOnlyIfSwallowed
    <3>2. CASE /\ cursor - 1 \in 2 .. Len(list)
               /\ Pages(list'[k]) \subseteq
                    Pages(list[cursor - 1]) \cup {End(list[cursor - 1])}
                      \cup Pages(list[cursor])
      <4>1. /\ Pages(held[d]) \cap Pages(list[cursor - 1]) \subseteq swallowed
            /\ Pages(held[d]) \cap Pages(list[cursor]) \subseteq swallowed
        BY <3>2, <2>1 DEF SharedOnlyIfSwallowed
      <4>2. QED
        BY <4>1, <3>2, <2>1
    <3>3. QED
      BY <3>1, <3>2, <2>1
  <2>4. QED
    BY <2>1, <2>2, <2>3 DEF SharedOnlyIfSwallowed
<1> QED
  BY <1>1, <1>2, <1>3, <1>4, <1>5, <1>6 DEF Next, MergeStep

\* A page no connecting pass ever swallowed is never owned twice, for every
\* sequence of allocations and frees.
THEOREM OwnedOnceUnlessSwallowed == Spec => []SharedOnlyIfSwallowed
<1>1. Init => SharedOnlyIfSwallowed
  BY DEF Init, SharedOnlyIfSwallowed, Holders
<1> QED
  BY <1>1, ListInvariant, SharedStep, PTL DEF Spec

-----------------------------------------------------------------------------
(***************************************************************************)
(* Reserved memory.  A connecting step adds the single page between two    *)
(* free regions.  Its neighbours are free, hence not reserved; so if the   *)
(* page were reserved it would be a reserved run of length one.            *)
(***************************************************************************)

\* The gap page of a connecting step is not reserved.
LEMMA GapNotReserved ==
  ASSUME ReservedRunsOfTwo,
         NEW a \in Region, NEW b \in Region,
         AvoidsReserved(a), AvoidsReserved(b), Connects(a, b)
  PROVE  End(a) \notin Reserved
<1>1. /\ a.start \in Nat /\ a.count \in Nat /\ End(a) = a.start + a.count
      /\ b.start \in Nat /\ End(a) + 1 = b.start
  BY RegionFacts DEF Connects
<1>2. CASE a.count = 0
  BY <1>1, <1>2 DEF AvoidsReserved
<1>3. CASE a.count > 0
  <2>1. End(a) - 1 \in Pages(a) /\ End(a) > 0
    BY <1>1, <1>3 DEF Pages
  <2>2. End(a) - 1 \notin Reserved
    BY <2>1 DEF AvoidsReserved
  <2>3. End(a) + 1 \notin Reserved
    BY <1>1 DEF AvoidsReserved
  <2>4. QED
    BY <2>1, <2>2, <2>3 DEF ReservedRunsOfTwo
<1>4. QED
  BY <1>1, <1>2, <1>3

\* A part of a region that avoids reserved pages, starting at a page that is
\* not reserved, avoids them too.
LEMMA PartAvoidsReserved ==
  ASSUME NEW r, NEW s, AvoidsReserved(s), Pages(r) \subseteq Pages(s),
         r.start = s.start \/ r.start \in Pages(r)
  PROVE  AvoidsReserved(r)
  BY DEF AvoidsReserved

\* No step brings reserved memory into the list or into a client's hands.
LEMMA ReservedStep ==
  ASSUME ReservedRunsOfTwo, ListInv, ReservedStaysOut, [Next]_vars
  PROVE  ReservedStaysOut'
<1>0. /\ held \in [Clients -> Region \cup {NoRegion}]
      /\ list \in Seq(Region)
  BY DEF ListInv, TypeOK
<1>1. ASSUME NEW c \in Clients, NEW n \in Counts, allocatePhysicalMemory(c, n)
      PROVE  ReservedStaysOut'
  <2>1. PICK i \in 2 .. Len(list), t \in Region :
          /\ held' = [held EXCEPT ![c] = t]
          /\ Pages(t) \subseteq Pages(list[i]) /\ t.start \in Pages(t)
          /\ \A k \in 2 .. Len(list') :
               \E j \in 2 .. Len(list) :
                 /\ list'[k].start = list[j].start
                 /\ Pages(list'[k]) \subseteq Pages(list[j])
                 /\ Pages(list'[k]) \cap Pages(t) = {}
    BY <1>1, AllocateFacts, Zenon
  <2>2. AvoidsReserved(t)
    BY <2>1, PartAvoidsReserved DEF ReservedStaysOut
  <2>3. \A d \in Holders' : AvoidsReserved(held'[d])
    BY <1>0, <2>1, <2>2 DEF ReservedStaysOut, Holders
  <2>4. \A k \in 2 .. Len(list') : AvoidsReserved(list'[k])
    BY <2>1, PartAvoidsReserved DEF ReservedStaysOut
  <2>5. QED
    BY <2>3, <2>4 DEF ReservedStaysOut, AvoidsReserved
<1>2. ASSUME NEW n \in Counts, OutOfMemory(n) PROVE ReservedStaysOut'
  BY <1>2 DEF OutOfMemory, ReservedStaysOut, Holders, AvoidsReserved
<1>3. ASSUME NEW c \in Clients, FreeHeld(c) PROVE ReservedStaysOut'
  <2> DEFINE r == [start |-> held[c].start, count |-> held[c].count]
  <2>1. held[c] \in Region /\ c \in Holders
    BY <1>0, <1>3 DEF FreeHeld, Holders
  <2>2. held[c].start \in Nat /\ held[c].count \in Nat
    BY <2>1, RegionFacts
  <2>3. \A k \in 2 .. Len(list') :
          (\E j \in 2 .. Len(list) : list'[k] = list[j]) \/ list'[k] = r
    BY <1>3, <2>2, FreeKeepsList DEF FreeHeld
  <2>4. AvoidsReserved(r)
    BY <2>1 DEF ReservedStaysOut, AvoidsReserved, Pages, End
  <2> HIDE DEF r
  <2>5. \A k \in 2 .. Len(list') : AvoidsReserved(list'[k])
    BY <2>3, <2>4 DEF ReservedStaysOut
  <2>6. \A d \in Holders' : AvoidsReserved(held'[d])
    BY <1>0, <1>3 DEF FreeHeld, ReservedStaysOut, Holders
  <2>7. QED
    BY <2>5, <2>6 DEF ReservedStaysOut, AvoidsReserved
<1>4. ASSUME NEW n \in Counts, FreeHeapAddress(n) PROVE ReservedStaysOut'
  <2>1. /\ held' = held
        /\ \A k \in 2 .. Len(list') :
             \E j \in 2 .. Len(list) : list'[k] = list[j]
    BY <1>4, HeapAddressNeverListed
  <2>2. QED
    BY <2>1 DEF ReservedStaysOut, Holders, AvoidsReserved
<1>5. CASE MergeAdvance \/ MergeDone \/ Halted \/ UNCHANGED vars
  BY <1>5 DEF MergeAdvance, MergeDone, Halted, vars, ReservedStaysOut,
              Holders, AvoidsReserved
<1>6. CASE MergeConnect
  <2> DEFINE a == list[cursor - 1]
             b == list[cursor]
  <2>1. /\ cursor \in 2 .. Len(list) /\ held' = held /\ Connects(a, b)
        /\ \A k \in 2 .. Len(list') :
             \/ \E j \in 2 .. Len(list) : list'[k] = list[j]
             \/ /\ cursor - 1 \in 2 .. Len(list)
                /\ list'[k].start = a.start
                /\ Pages(list'[k]) \subseteq
                     Pages(a) \cup {End(a)} \cup Pages(b)
    BY <1>6, MergeConnectFacts
  <2>2. ASSUME NEW k \in 2 .. Len(list') PROVE AvoidsReserved(list'[k])
    <3>1. CASE \E j \in 2 .. Len(list) : list'[k] = list[j]
      BY <3>1 DEF ReservedStaysOut
    <3>2. CASE /\ cursor - 1 \in 2 .. Len(list)
               /\ list'[k].start = a.start
               /\ Pages(list'[k]) \subseteq
                    Pages(a) \cup {End(a)} \cup Pages(b)
      <4>1. AvoidsReserved(a) /\ AvoidsReserved(b)
        BY <3>2, <2>1 DEF ReservedStaysOut
      <4>2. a \in Region /\ b \in Region
        BY <1>0, <2>1, <3>2
      <4> HIDE DEF a, b
      <4>3. End(a) \notin Reserved
        BY <4>1, <4>2, <2>1, GapNotReserved
      <4>4. QED
        BY <4>1, <4>3, <3>2 DEF AvoidsReserved
    <3>3. QED
      BY <3>1, <3>2, <2>1
  <2>3. QED
    BY <2>1, <2>2 DEF ReservedStaysOut, Holders, AvoidsReserved
<1> QED
  BY <1>1, <1>2, <1>3, <1>4, <1>5, <1>6 DEF Next, MergeStep

\* Memory marked as used at boot stays out of the free list and is never
\* handed out, provided it comes in runs of two pages or more, as the runs
\* setUsed marks do.
THEOREM ReservedNeverHandedOut ==
  ASSUME ReservedRunsOfTwo
  PROVE  Spec => []ReservedStaysOut
<1>1. Init => ReservedStaysOut
  BY InitialListAssumption DEF Init, ReservedStaysOut, Holders
<1>2. ListInv /\ ReservedStaysOut /\ [Next]_vars => ReservedStaysOut'
  BY ReservedStep
<1> QED
  BY <1>1, <1>2, ListInvariant, PTL DEF Spec

-----------------------------------------------------------------------------
(***************************************************************************)
(* Counting pages.  A connecting step makes the gap a page of the list and *)
(* loses the last page of the second region, so that the number of pages   *)
(* never grows; a freed region brings back what its client had.            *)
(***************************************************************************)

\* How many pages a region has, and how many pairs that makes with a client.
LEMMA PagesCount ==
  ASSUME NEW r \in Region, NEW c
  PROVE  /\ IsFiniteSet(Pages(r)) /\ Cardinality(Pages(r)) = r.count
         /\ IsFiniteSet({c} \X Pages(r)) /\ Cardinality({c} \X Pages(r)) = r.count
<1>1. r.start \in Nat /\ r.count \in Nat /\ End(r) = r.start + r.count
  BY RegionFacts
<1>2. IsFiniteSet(Pages(r)) /\ Cardinality(Pages(r)) = r.count
  <2>1. r.start \in Int /\ End(r) - 1 \in Int
    BY <1>1
  <2>2. /\ IsFiniteSet(r.start .. End(r) - 1)
        /\ Cardinality(r.start .. End(r) - 1)
             = IF r.start > End(r) - 1 THEN 0 ELSE (End(r) - 1) - r.start + 1
    BY <2>1, FS_Interval
  <2>3. QED
    BY <1>1, <2>2 DEF Pages
<1>3. IsFiniteSet({c}) /\ Cardinality({c}) = 1
  BY FS_Singleton
<1>4. /\ IsFiniteSet({c} \X Pages(r))
      /\ Cardinality({c} \X Pages(r)) = Cardinality({c}) * Cardinality(Pages(r))
  BY <1>2, <1>3, FS_Product
<1> QED
  BY <1>1, <1>2, <1>3, <1>4

\* A list in address order has finitely many pages.
LEMMA ListPagesFinite ==
  ASSUME NEW l \in Seq(Region), Len(l) > 0, InOrder(l)
  PROVE  IsFiniteSet(ListPages(l)) /\ Cardinality(ListPages(l)) \in Nat
<1>1. PICK e \in Nat : e = End(l[Len(l)])
  <2>1. l[Len(l)] \in Region
    OBVIOUS
  <2>2. QED
    BY <2>1, RegionFacts
<1>2. ListPages(l) \subseteq 0 .. e
  <2> SUFFICES ASSUME NEW i \in 1 .. Len(l), NEW x \in Pages(l[i])
               PROVE  x \in 0 .. e
    BY DEF ListPages
  <2>1. l[i] \in Region /\ l[Len(l)] \in Region
    OBVIOUS
  <2>2. /\ l[i].start \in Nat /\ End(l[i]) \in Nat
        /\ l[Len(l)].start \in Nat /\ l[Len(l)].count \in Nat
        /\ End(l[Len(l)]) = l[Len(l)].start + l[Len(l)].count
    BY <2>1, RegionFacts
  <2>3. End(l[i]) <= e
    <3>1. CASE i = Len(l)
      BY <1>1, <2>2, <3>1
    <3>2. CASE i < Len(l)
      <4>1. End(l[i]) <= l[Len(l)].start
        BY <3>2 DEF InOrder
      <4>2. QED
        BY <1>1, <2>2, <4>1, SMTT(60)
    <3>3. QED
      BY <3>1, <3>2
  <2>4. QED
    BY <2>2, <2>3, SMTT(60) DEF Pages
<1>3. IsFiniteSet(0 .. e)
  BY FS_Interval
<1>4. IsFiniteSet(ListPages(l))
  BY <1>2, <1>3, FS_Subset
<1> QED
  BY <1>4, FS_CardinalityType

\* The pages allocatePhysicalMemory hands out leave the list.
LEMMA TakePages ==
  ASSUME NEW l \in Seq(Region), Len(l) > 0, InOrder(l), NEW i \in 2 .. Len(l) - 1,
         NEW n \in Nat \ {0}, n <= l[i].count
  PROVE  Cardinality(ListPages(TakeFromBack(l, i, n)))
           <= Cardinality(ListPages(l)) - n
<1> DEFINE m == TakeFromBack(l, i, n)
           t == Taken(l, i, n)
<1>1. TakeResult(l, i, m, t)
  BY TakeFacts
<1>2. i \in 1 .. Len(l) /\ 1 \in 1 .. Len(l) /\ 1 < i /\ Len(l) \in Nat
  OBVIOUS
<1>3. /\ l[i] \in Region /\ l[i].start \in Nat /\ l[i].count \in Nat
      /\ End(l[i]) = l[i].start + l[i].count
  BY <1>2, RegionFacts
<1>4. t.count = n /\ t.start = End(l[i]) - n
  BY DEF Taken
<1>5. m[1] = l[1]
  <2>1. CASE l[i].count = n
    <3>1. m = RemoveAt(l, i)
      BY <2>1 DEF TakeFromBack
    <3>2. \A j \in 1 .. Len(l) - 1 :
            RemoveAt(l, i)[j] = IF j < i THEN l[j] ELSE l[j + 1]
      BY <1>2, RemoveAtFacts, Zenon
    <3>3. 1 \in 1 .. Len(l) - 1
      BY <1>2
    <3>4. QED
      BY <1>2, <3>1, <3>2, <3>3, Zenon
  <2>2. CASE l[i].count # n
    <3> DEFINE left == [start |-> l[i].start, count |-> l[i].count - n]
    <3>1. m = ReplaceAt(l, i, left)
      BY <2>2 DEF TakeFromBack
    <3> HIDE DEF left, m
    <3>2. ReplaceAt(l, i, left)[1] = l[1]
      BY <1>2 DEF ReplaceAt
    <3>3. QED
      BY <3>1, <3>2
  <2>3. QED
    BY <2>1, <2>2
<1> HIDE DEF m, t
<1>6. Pages(l[1]) \cap Pages(t) = {}
  <2>1. End(l[1]) <= l[i].start
    BY <1>2 DEF InOrder
  <2>2. l[1] \in Region
    OBVIOUS
  <2>3. Pages(l[1]) \cap Pages(l[i]) = {}
    BY <1>3, <2>1, <2>2, ApartIsDisjoint
  <2>4. QED
    BY <1>1, <2>3 DEF TakeResult
<1>7. ListPages(m) \subseteq ListPages(l) \ Pages(t)
  <2> SUFFICES ASSUME NEW k \in 1 .. Len(m), NEW x \in Pages(m[k])
               PROVE  /\ \E j \in 1 .. Len(l) : x \in Pages(l[j])
                      /\ x \notin Pages(t)
    BY SMTT(60) DEF ListPages
  <2>1. CASE k = 1
    BY <1>2, <1>5, <1>6, <2>1
  <2>2. CASE k # 1
    <3>1. k \in 2 .. Len(m)
      BY <1>1, <2>2 DEF TakeResult
    <3>2. PICK j \in 2 .. Len(l) :
            Pages(m[k]) \subseteq Pages(l[j]) /\ Pages(m[k]) \cap Pages(t) = {}
      BY <1>1, <3>1 DEF TakeResult
    <3>3. j \in 1 .. Len(l)
      OBVIOUS
    <3>4. QED
      BY <3>2, <3>3
  <2>3. QED
    BY <2>1, <2>2
<1>8. Pages(t) \subseteq ListPages(l)
  BY <1>1, <1>2 DEF TakeResult, ListPages
<1>9. IsFiniteSet(Pages(t)) /\ Cardinality(Pages(t)) = n
  BY <1>1, <1>4, PagesCount DEF TakeResult
<1>10. IsFiniteSet(ListPages(l)) /\ Cardinality(ListPages(l)) \in Nat
  BY ListPagesFinite
<1>11. ListPages(l) \cap Pages(t) = Pages(t)
  BY <1>8
<1>12. /\ IsFiniteSet(ListPages(l) \ Pages(t))
       /\ Cardinality(ListPages(l) \ Pages(t)) = Cardinality(ListPages(l)) - n
  BY <1>9, <1>10, <1>11, FS_Difference, ZenonT(60)
<1>13. Cardinality(ListPages(m)) <= Cardinality(ListPages(l) \ Pages(t))
  BY <1>7, <1>12, FS_Subset
<1> QED
  BY <1>12, <1>13 DEF m

\* A freed region brings at most its own pages.
LEMMA InsertPages ==
  ASSUME NEW l \in Seq(Region), Len(l) > 0, InOrder(l), NEW i \in 1 .. Len(l),
         NEW r \in Region
  PROVE  Cardinality(ListPages(InsertAt(l, i, r)))
           <= Cardinality(ListPages(l)) + r.count
<1> DEFINE m == InsertAt(l, i, r)
<1>1. /\ Len(m) = Len(l) + 1
      /\ \A j \in 1 .. Len(l) + 1 : m[j] = AfterInsert(l, i, r, j)
  <2>1. i \in 1 .. Len(l) + 1
    OBVIOUS
  <2>2. QED
    BY <2>1, InsertAtFacts, ZenonT(60)
<1> HIDE DEF m
<1>2. ListPages(m) \subseteq ListPages(l) \cup Pages(r)
  <2> SUFFICES ASSUME NEW k \in 1 .. Len(m), NEW x \in Pages(m[k])
               PROVE  x \in Pages(r) \/ \E j \in 1 .. Len(l) : x \in Pages(l[j])
    BY DEF ListPages
  <2>1. CASE k < i
    <3>1. m[k] = l[k] /\ k \in 1 .. Len(l)
      BY <1>1, <2>1 DEF AfterInsert
    <3>2. QED
      BY <3>1
  <2>2. CASE k = i
    BY <1>1, <2>2 DEF AfterInsert
  <2>3. CASE k > i
    <3>1. m[k] = l[k - 1]
      BY <1>1, <2>3 DEF AfterInsert
    <3>2. k - 1 \in 1 .. Len(l)
      BY <1>1, <2>3
    <3>3. QED
      BY <3>1, <3>2
  <2>4. QED
    BY <1>1, <2>1, <2>2, <2>3
<1>3. IsFiniteSet(ListPages(l)) /\ Cardinality(ListPages(l)) \in Nat
  BY ListPagesFinite
<1>4. IsFiniteSet(Pages(r)) /\ Cardinality(Pages(r)) = r.count /\ r.count \in Nat
  BY PagesCount, RegionFacts
<1>5. /\ IsFiniteSet(ListPages(l) \cup Pages(r))
      /\ Cardinality(ListPages(l) \cup Pages(r))
           = Cardinality(ListPages(l)) + r.count - Cardinality(ListPages(l) \cap Pages(r))
  BY <1>3, <1>4, FS_Union
<1>6. Cardinality(ListPages(l) \cap Pages(r)) \in Nat
  <2>1. IsFiniteSet(ListPages(l) \cap Pages(r))
    BY <1>3, FS_Intersection
  <2>2. QED
    BY <2>1, FS_CardinalityType
<1>7. /\ Cardinality(ListPages(m)) <= Cardinality(ListPages(l) \cup Pages(r))
      /\ Cardinality(ListPages(m)) \in Nat
  <2>1. IsFiniteSet(ListPages(m))
    BY <1>2, <1>5, FS_Subset
  <2>2. QED
    BY <1>2, <1>5, <2>1, FS_Subset, FS_CardinalityType
<1>8. Cardinality(ListPages(m)) <= Cardinality(ListPages(l)) + r.count
  BY <1>3, <1>4, <1>5, <1>6, <1>7, SMTT(60)
<1> QED
  BY <1>8 DEF m

\* A connecting step adds the gap, unless the second region is empty, and
\* gives up the last page of the second region.
LEMMA ConnectPages ==
  ASSUME NEW l \in Seq(Region), InOrder(l), NEW i \in 2 .. Len(l) - 1,
         Connects(l[i - 1], l[i]), NEW x \in ListPages(ConnectAt(l, i))
  PROVE  /\ x \in ListPages(l) \/ (x = End(l[i - 1]) /\ l[i].count > 0)
         /\ l[i].count > 0 => x # End(l[i]) - 1
<1> DEFINE a == l[i - 1]
           b == l[i]
           c == Connected(a, b)
           m == ConnectAt(l, i)
<1>1. /\ a \in Region /\ a.start \in Nat /\ a.count \in Nat
      /\ End(a) = a.start + a.count /\ i - 1 \in 1 .. Len(l)
  BY RegionFacts, SMTT(60)
<1>2. /\ b \in Region /\ b.start \in Nat /\ b.count \in Nat
      /\ End(b) = b.start + b.count /\ i \in 1 .. Len(l)
  BY RegionFacts, SMTT(60)
<1>3. End(a) + 1 = b.start
  BY DEF Connects
<1>4. c.start = a.start /\ c.count = a.count + b.count
      /\ End(c) = a.start + (a.count + b.count)
  BY DEF Connected, End
<1>5. /\ Len(m) = Len(l) - 1
      /\ \A j \in 1 .. Len(l) - 1 :
           /\ j < i - 1 => m[j] = l[j]
           /\ j = i - 1 => m[j] = c
           /\ j >= i => m[j] = l[j + 1]
  BY ConnectElements
<1>6. PICK k \in 1 .. Len(l) - 1 : x \in Pages(m[k])
  BY <1>5 DEF ListPages
<1> HIDE DEF a, b, c, m
<1>7. CASE k < i - 1
  <2>1. x \in Pages(l[k]) /\ k \in 1 .. Len(l) /\ k < i
    BY <1>5, <1>6, <1>7
  <2>2. End(l[k]) <= b.start
    BY <1>2, <2>1 DEF InOrder, b
  <2>3. l[k] \in Region /\ l[k].start \in Nat /\ End(l[k]) \in Nat
    BY <2>1, RegionFacts, SMTT(60)
  <2>4. x \in Int /\ x < End(l[k])
    BY <2>1, <2>3 DEF Pages
  <2>5. x # End(b) - 1 \/ b.count = 0
    BY <1>2, <2>2, <2>3, <2>4, SMTT(60)
  <2>6. x \in ListPages(l)
    BY <2>1 DEF ListPages
  <2>7. QED
    BY <1>2, <2>5, <2>6 DEF b
<1>8. CASE k = i - 1
  <2>1. x \in Int /\ a.start <= x /\ x < a.start + (a.count + b.count)
    <3>1. x \in c.start .. End(c) - 1
      BY <1>5, <1>6, <1>8 DEF Pages
    <3>2. QED
      BY <1>1, <1>2, <1>4, <3>1, SMTT(60)
  <2>2. b.count > 0 => x # End(b) - 1
    BY <1>1, <1>2, <1>3, <2>1, SMTT(60)
  <2>3. x \in Pages(a) \/ (x = End(a) /\ b.count > 0) \/ x \in Pages(b)
    <3>1. CASE x < End(a)
      BY <1>1, <2>1, <3>1, SMTT(60) DEF Pages
    <3>2. CASE x = End(a)
      BY <1>1, <1>2, <2>1, <3>2, SMTT(60)
    <3>3. CASE x > End(a)
      <4>1. b.start <= x
        BY <1>1, <1>3, <2>1, <3>3, SMTT(60)
      <4>2. x <= End(b) - 1
        BY <1>1, <1>2, <1>3, <2>1, SMTT(60)
      <4>3. QED
        BY <1>2, <2>1, <4>1, <4>2 DEF Pages
    <3>4. QED
      BY <1>1, <2>1, <3>1, <3>2, <3>3, SMTT(60)
  <2>4. Pages(a) \subseteq ListPages(l) /\ Pages(b) \subseteq ListPages(l)
    BY <1>1, <1>2 DEF ListPages, a, b
  <2>5. QED
    BY <2>2, <2>3, <2>4 DEF a, b
<1>9. CASE k >= i
  <2>1. x \in Pages(l[k + 1]) /\ k + 1 \in 1 .. Len(l) /\ i < k + 1
    BY <1>5, <1>6, <1>9
  <2>2. End(b) <= l[k + 1].start
    BY <1>2, <2>1 DEF InOrder, b
  <2>3. l[k + 1] \in Region /\ l[k + 1].start \in Nat /\ End(l[k + 1]) \in Nat
    BY <2>1, RegionFacts, SMTT(60)
  <2>4. x \in Int /\ l[k + 1].start <= x
    BY <2>1, <2>3 DEF Pages
  <2>5. x # End(b) - 1
    BY <1>2, <2>2, <2>3, <2>4, SMTT(60)
  <2>6. x \in ListPages(l)
    BY <2>1 DEF ListPages
  <2>7. QED
    BY <2>5, <2>6 DEF b
<1> QED
  BY <1>1, <1>6, <1>7, <1>8, <1>9

\* So it never makes a page.
LEMMA ConnectCount ==
  ASSUME NEW l \in Seq(Region), Len(l) > 0, InOrder(l), NEW i \in 2 .. Len(l) - 1,
         Connects(l[i - 1], l[i])
  PROVE  Cardinality(ListPages(ConnectAt(l, i))) <= Cardinality(ListPages(l))
<1> DEFINE P == ListPages(l)
           m == ConnectAt(l, i)
           g == End(l[i - 1])
           e == End(l[i]) - 1
<1>1. IsFiniteSet(P) /\ Cardinality(P) \in Nat
  BY ListPagesFinite
<1>2. /\ l[i] \in Region /\ l[i].start \in Nat /\ l[i].count \in Nat
      /\ End(l[i]) = l[i].start + l[i].count /\ i \in 1 .. Len(l)
  BY RegionFacts, SMTT(60)
<1>3. CASE l[i].count = 0
  <2>1. ListPages(m) \subseteq P
    BY <1>2, <1>3, ConnectPages
  <2>2. QED
    BY <1>1, <2>1, FS_Subset
<1>4. CASE l[i].count > 0
  <2>1. ListPages(m) \subseteq (P \cup {g}) \ {e}
    BY <1>4, ConnectPages
  <2>2. e \in P
    <3>1. e \in Pages(l[i])
      BY <1>2, <1>4, SMTT(60) DEF Pages
    <3>2. QED
      BY <1>2, <3>1 DEF ListPages
  <2> HIDE DEF P, m, g, e
  <2>3. /\ IsFiniteSet(P \cup {g})
        /\ Cardinality(P \cup {g}) = IF g \in P THEN Cardinality(P) ELSE Cardinality(P) + 1
    BY <1>1, FS_AddElement
  <2>4. /\ IsFiniteSet((P \cup {g}) \ {e})
        /\ Cardinality((P \cup {g}) \ {e}) = Cardinality(P \cup {g}) - 1
    <3>1. e \in P \cup {g}
      BY <2>2
    <3>2. QED
      BY <2>3, <3>1, FS_RemoveElement
  <2>5. Cardinality(ListPages(m)) <= Cardinality((P \cup {g}) \ {e})
    BY <2>1, <2>4, FS_Subset
  <2>6. Cardinality(ListPages(m)) \in Nat
    <3>1. IsFiniteSet(ListPages(m))
      BY <2>1, <2>4, FS_Subset
    <3>2. QED
      BY <3>1, FS_CardinalityType
  <2>7. Cardinality(ListPages(m)) <= Cardinality(P)
    BY <1>1, <2>3, <2>4, <2>5, <2>6
  <2>8. QED
    BY <2>7 DEF P, m
<1> QED
  BY <1>2, <1>3, <1>4

\* The clients' pages, and that they and the list's are never more than at the
\* beginning.
CountInv == IsFiniteSet(InHands) /\ PagesNeverCreated

\* The numbers PagesNeverCreated compares are natural numbers.
LEMMA CountTypes ==
  ASSUME ListInv, IsFiniteSet(InHands)
  PROVE  /\ Cardinality(ListPages(list)) \in Nat
         /\ Cardinality(InHands) \in Nat
         /\ Cardinality(ListPages(InitialList)) \in Nat
<1>1. Cardinality(ListPages(list)) \in Nat
  BY ListPagesFinite DEF ListInv, TypeOK, FreeListOrdered
<1>2. Cardinality(ListPages(InitialList)) \in Nat
  BY ListPagesFinite, InitialListAssumption
<1> QED
  BY <1>1, <1>2, FS_CardinalityType

\* A client that is given n pages has n more.
LEMMA GivenPages ==
  ASSUME IsFiniteSet(InHands), held \in [Clients -> Region \cup {NoRegion}],
         NEW c \in Clients, held[c] = NoRegion,
         NEW t \in Region, held' = [held EXCEPT ![c] = t]
  PROVE  /\ IsFiniteSet(InHands)'
         /\ Cardinality(InHands') <= Cardinality(InHands) + t.count
<1>1. InHands' \subseteq InHands \cup ({c} \X Pages(t))
  <2> SUFFICES ASSUME NEW d \in Clients, held'[d] # NoRegion,
                      NEW x \in {d} \X Pages(held'[d])
               PROVE  x \in InHands \/ x \in {c} \X Pages(t)
    BY DEF InHands, Holders
  <2>1. CASE d = c
    BY <2>1
  <2>2. CASE d # c
    <3>1. held'[d] = held[d]
      BY <2>2
    <3>2. QED
      BY <3>1 DEF InHands, Holders
  <2>3. QED
    BY <2>1, <2>2
<1>2. IsFiniteSet({c} \X Pages(t)) /\ Cardinality({c} \X Pages(t)) = t.count
  BY PagesCount
<1>3. /\ IsFiniteSet(InHands \cup ({c} \X Pages(t)))
      /\ Cardinality(InHands \cup ({c} \X Pages(t)))
           = Cardinality(InHands) + t.count
               - Cardinality(InHands \cap ({c} \X Pages(t)))
  BY <1>2, FS_Union
<1>4. Cardinality(InHands \cap ({c} \X Pages(t))) \in Nat
  <2>1. IsFiniteSet(InHands \cap ({c} \X Pages(t)))
    BY FS_Intersection
  <2>2. QED
    BY <2>1, FS_CardinalityType
<1>5. /\ IsFiniteSet(InHands')
      /\ Cardinality(InHands') <= Cardinality(InHands \cup ({c} \X Pages(t)))
  BY <1>1, <1>3, FS_Subset
<1>6. Cardinality(InHands') \in Nat /\ Cardinality(InHands) \in Nat
  BY <1>5, FS_CardinalityType
<1>7. t.count \in Nat
  BY RegionFacts
<1> QED
  BY <1>3, <1>4, <1>5, <1>6, <1>7

\* A client that frees its region has none of its pages any more.
LEMMA GivenBack ==
  ASSUME IsFiniteSet(InHands), held \in [Clients -> Region \cup {NoRegion}],
         NEW c \in Clients, held[c] # NoRegion,
         held' = [held EXCEPT ![c] = NoRegion]
  PROVE  /\ IsFiniteSet(InHands)'
         /\ Cardinality(InHands') <= Cardinality(InHands) - held[c].count
<1>1. InHands' \subseteq InHands \ ({c} \X Pages(held[c]))
  <2> SUFFICES ASSUME NEW d \in Clients, held'[d] # NoRegion,
                      NEW x \in {d} \X Pages(held'[d])
               PROVE  x \in InHands /\ x \notin {c} \X Pages(held[c])
    BY DEF InHands, Holders
  <2>1. d # c /\ held'[d] = held[d]
    OBVIOUS
  <2>2. QED
    BY <2>1 DEF InHands, Holders
<1>2. held[c] \in Region
  OBVIOUS
<1>3. {c} \X Pages(held[c]) \subseteq InHands
  BY DEF InHands, Holders
<1>4. /\ IsFiniteSet({c} \X Pages(held[c]))
      /\ Cardinality({c} \X Pages(held[c])) = held[c].count
  BY <1>2, PagesCount
<1>5. InHands \cap ({c} \X Pages(held[c])) = {c} \X Pages(held[c])
  BY <1>3
<1>6. /\ IsFiniteSet(InHands \ ({c} \X Pages(held[c])))
      /\ Cardinality(InHands \ ({c} \X Pages(held[c])))
           = Cardinality(InHands) - held[c].count
  <2> DEFINE R == {c} \X Pages(held[c])
  <2>1. /\ IsFiniteSet(R) /\ Cardinality(R) = held[c].count
        /\ InHands \cap R = R
    BY <1>4, <1>5
  <2> HIDE DEF R
  <2>2. /\ IsFiniteSet(InHands \ R)
        /\ Cardinality(InHands \ R) = Cardinality(InHands) - Cardinality(InHands \cap R)
    BY FS_Difference
  <2>3. /\ IsFiniteSet(InHands \ R)
        /\ Cardinality(InHands \ R) = Cardinality(InHands) - held[c].count
    BY <2>1, <2>2
  <2>4. QED
    BY <2>3 DEF R
<1>7. /\ IsFiniteSet(InHands')
      /\ Cardinality(InHands') <= Cardinality(InHands \ ({c} \X Pages(held[c])))
  BY <1>1, <1>6, FS_Subset
<1> QED
  BY <1>6, <1>7

\* A free adds at most the freed pages to the list.
LEMMA FreeCounts ==
  ASSUME ListInv, NEW p \in Nat, NEW n \in Nat, freePhysicalMemory(p, n)
  PROVE  /\ Cardinality(ListPages(list')) \in Nat
         /\ Cardinality(ListPages(list')) <= Cardinality(ListPages(list)) + n
<1>1. list \in Seq(Region) /\ Len(list) > 0 /\ InOrder(list)
  BY DEF ListInv, TypeOK, FreeListOrdered
<1>2. /\ list' \in Seq(Region) /\ Len(list') > 0 /\ InOrder(list')
  BY FreeKeepsList DEF FreeListOrdered
<1>3. /\ Cardinality(ListPages(list)) \in Nat
      /\ Cardinality(ListPages(list')) \in Nat
  BY <1>1, <1>2, ListPagesFinite
<1>4. CASE list' = list
  BY <1>3, <1>4
<1>5. CASE FreeInserted(p, n)
  <2> DEFINE r == [start |-> p, count |-> n]
  <2>1. r \in Region /\ r.count = n
    BY MakeRegion
  <2>2. PICK i \in 1 .. Len(list) - 1 : list' = InsertAt(list, i, r)
    BY <1>5 DEF FreeInserted
  <2>3. i \in 1 .. Len(list)
    BY <1>1
  <2> HIDE DEF r
  <2>4. QED
    BY <1>1, <1>3, <2>1, <2>2, <2>3, InsertPages
<1> QED
  BY <1>4, <1>5 DEF freePhysicalMemory, FreeRejected, FreeNotPlaced

\* Every step keeps the count.
LEMMA CountStep == ListInv /\ CountInv /\ [Next]_vars => CountInv'
<1> SUFFICES ASSUME ListInv, CountInv, [Next]_vars PROVE CountInv'
  OBVIOUS
<1>0. /\ list \in Seq(Region) /\ Len(list) > 0 /\ InOrder(list)
      /\ held \in [Clients -> Region \cup {NoRegion}]
  BY DEF ListInv, TypeOK, FreeListOrdered
<1>a. ListInv'
  BY ListInvStep
<1>b. /\ IsFiniteSet(InHands)
      /\ Cardinality(ListPages(list)) \in Nat /\ Cardinality(InHands) \in Nat
      /\ Cardinality(ListPages(InitialList)) \in Nat
      /\ Cardinality(ListPages(list)) + Cardinality(InHands)
           <= Cardinality(ListPages(InitialList))
  BY CountTypes DEF CountInv, PagesNeverCreated
<1>c. /\ list' \in Seq(Region) /\ Len(list') > 0 /\ InOrder(list')
      /\ Cardinality(ListPages(list')) \in Nat
  <2>1. list' \in Seq(Region) /\ Len(list') > 0 /\ InOrder(list')
    BY <1>a DEF ListInv, TypeOK, FreeListOrdered
  <2>2. QED
    BY <2>1, ListPagesFinite
<1>d. ASSUME IsFiniteSet(InHands)'
      PROVE  Cardinality(InHands') \in Nat
  BY <1>d, FS_CardinalityType
<1>1. ASSUME NEW c \in Clients, NEW n \in Counts, allocatePhysicalMemory(c, n)
      PROVE  CountInv'
  <2>1. n \in Nat \ {0}
    BY ConstantsAssumption
  <2>2. PICK i \in 2 .. Len(list) - 1 :
          /\ list[i].count >= n
          /\ held' = [held EXCEPT ![c] = Taken(list, i, n)]
          /\ list' = TakeFromBack(list, i, n)
    BY <1>1 DEF allocatePhysicalMemory, IsFirstFit, Searched
  <2>3. n <= list[i].count
    <3>1. list[i].count \in Nat
      BY <1>0, <2>2, RegionFacts
    <3>2. QED
      BY <2>1, <2>2, <3>1
  <2>4. Cardinality(ListPages(list')) <= Cardinality(ListPages(list)) - n
    BY <1>0, <2>1, <2>2, <2>3, TakePages
  <2>5. PICK t : t = Taken(list, i, n)
    OBVIOUS
  <2>6. t \in Region /\ t.count = n
    <3>1. TakeResult(list, i, TakeFromBack(list, i, n), Taken(list, i, n))
      BY <1>0, <2>1, <2>3, TakeFacts
    <3>2. QED
      BY <2>5, <3>1 DEF TakeResult, Taken
  <2>7. held[c] = NoRegion
    BY <1>1 DEF allocatePhysicalMemory
  <2>8. /\ IsFiniteSet(InHands)'
        /\ Cardinality(InHands') <= Cardinality(InHands) + n
    BY <1>0, <1>b, <2>2, <2>5, <2>6, <2>7, GivenPages
  <2>9. Cardinality(InHands') \in Nat
    BY <1>d, <2>8
  <2>10. Cardinality(ListPages(list')) + Cardinality(InHands')
           <= Cardinality(ListPages(InitialList))
    BY <1>b, <1>c, <2>1, <2>4, <2>8, <2>9, SMTT(60)
  <2>11. QED
    BY <2>8, <2>10 DEF CountInv, PagesNeverCreated
<1>2. ASSUME NEW c \in Clients, FreeHeld(c) PROVE CountInv'
  <2>1. held[c] \in Region
    BY <1>0, <1>2 DEF FreeHeld
  <2>2. held[c].start \in Nat /\ held[c].count \in Nat
    BY <2>1, RegionFacts
  <2>3. Cardinality(ListPages(list')) <= Cardinality(ListPages(list)) + held[c].count
    BY <1>2, <2>2, FreeCounts DEF FreeHeld
  <2>4. /\ IsFiniteSet(InHands)'
        /\ Cardinality(InHands') <= Cardinality(InHands) - held[c].count
    BY <1>0, <1>2, <1>b, GivenBack DEF FreeHeld
  <2>5. Cardinality(InHands') \in Nat
    BY <1>d, <2>4
  <2>6. Cardinality(ListPages(list')) + Cardinality(InHands')
           <= Cardinality(ListPages(InitialList))
    BY <1>b, <1>c, <2>2, <2>3, <2>4, <2>5, SMTT(60)
  <2>7. QED
    BY <2>4, <2>6 DEF CountInv, PagesNeverCreated
<1>3. ASSUME held' = held,
             Cardinality(ListPages(list')) <= Cardinality(ListPages(list))
      PROVE  CountInv'
  <2>1. InHands' = InHands
    BY <1>3 DEF InHands, Holders
  <2>2. Cardinality(ListPages(list')) + Cardinality(InHands)
           <= Cardinality(ListPages(InitialList))
    BY <1>3, <1>b, <1>c
  <2>3. QED
    BY <1>b, <2>1, <2>2 DEF CountInv, PagesNeverCreated
<1>4. ASSUME held' = held, list' = list PROVE CountInv'
  BY <1>3, <1>4, <1>b
<1>5. ASSUME NEW n \in Counts, OutOfMemory(n) PROVE CountInv'
  BY <1>4, <1>5 DEF OutOfMemory
<1>6. ASSUME NEW n \in Counts, FreeHeapAddress(n) PROVE CountInv'
  BY <1>4, <1>6, HeapAddressNeverListed
<1>7. CASE MergeAdvance \/ MergeDone \/ Halted \/ UNCHANGED vars
  BY <1>4, <1>7 DEF MergeAdvance, MergeDone, Halted, vars
<1>8. CASE MergeConnect
  <2>1. /\ cursor \in 2 .. Len(list) - 1 /\ held' = held
        /\ Connects(list[cursor - 1], list[cursor])
        /\ list' = ConnectAt(list, cursor)
    BY <1>8 DEF MergeConnect
  <2>2. Cardinality(ListPages(list')) <= Cardinality(ListPages(list))
    BY <1>0, <2>1, ConnectCount
  <2>3. QED
    BY <1>3, <2>1, <2>2
<1> QED
  BY <1>1, <1>2, <1>5, <1>6, <1>7, <1>8 DEF Next, MergeStep

\* Whatever is allocated and freed, and whatever the connecting passes join,
\* the list and the clients never have more pages together than boot found.
THEOREM PagesOnlyLost == Spec => []PagesNeverCreated
<1>1. Init => CountInv
  <2> SUFFICES ASSUME Init PROVE CountInv
    OBVIOUS
  <2>1. InHands = {}
    BY DEF Init, InHands, Holders
  <2>2. Cardinality(ListPages(InitialList)) \in Nat
    BY ListPagesFinite, InitialListAssumption
  <2>3. QED
    BY <2>1, <2>2, FS_EmptySet DEF Init, CountInv, PagesNeverCreated
<1>2. ListInv /\ CountInv /\ [Next]_vars => CountInv'
  BY CountStep
<1>3. CountInv => PagesNeverCreated
  BY DEF CountInv
<1> QED
  BY <1>1, <1>2, <1>3, ListInvariant, PTL DEF Spec

-----------------------------------------------------------------------------
(***************************************************************************)
(* The list that boot hands over, for every memory map, kernel and         *)
(* trampoline.                                                             *)
(***************************************************************************)
\* A list of usable regions behind the static descriptor.
Linked(l) ==
  /\ l \in Seq(Region) /\ l # <<>> /\ l[1] = StaticDescriptor
  /\ InOrder(l)
  /\ \A i \in 2 .. Len(l) : l[i].start > 0 /\ l[i].count > 0

HasPage(r, p) == r.start <= p /\ p < End(r)
Covered(l, p) == \E i \in 2 .. Len(l) : HasPage(l[i], p)

\* The region r and the pages from f up to t are apart.
Outside(r, f, t) == End(r) <= f \/ t <= r.start

\* What one iteration of setUsed for the pages from f up to t makes of the list
\* l and the position c: of m what is in front of d is apart from the extent,
\* and no page outside the extent is gained or lost.
UseResult(l, c, m, d, f, t) ==
  /\ Linked(m) /\ d \in 2 .. Len(m) + 1
  /\ \A i \in 2 .. d - 1 : Outside(m[i], f, t)
  /\ \A i \in 2 .. Len(m) : \E j \in 2 .. Len(l) :
       l[j].start <= m[i].start /\ End(m[i]) <= End(l[j])
  /\ \A p \in Nat : p < f \/ t <= p => (Covered(m, p) <=> Covered(l, p))

\* The numbers of a list's regions.
LEMMA LinkedFacts ==
  ASSUME NEW l, Linked(l)
  PROVE  /\ Len(l) \in Nat \ {0}
         /\ \A i \in 1 .. Len(l) :
              /\ l[i] \in Region /\ l[i].start \in Nat /\ l[i].count \in Nat
              /\ End(l[i]) = l[i].start + l[i].count /\ End(l[i]) \in Nat
              /\ l[i].start <= End(l[i])
<1>1. \A i \in 1 .. Len(l) : l[i] \in Region
  BY DEF Linked
<1>2. Len(l) \in Nat \ {0}
  BY DEF Linked
<1> QED
  BY <1>1, <1>2, RegionFacts

\* A region that stays as it is is passed.
LEMMA UseNothing ==
  ASSUME NEW l, Linked(l), NEW c \in 2 .. Len(l), NEW f \in Nat, NEW t \in Nat,
         \A i \in 2 .. c - 1 : Outside(l[i], f, t), Outside(l[c], f, t)
  PROVE  UseResult(l, c, l, c + 1, f, t)
<1>1. Len(l) \in Nat /\ \A i \in 2 .. Len(l) : End(l[i]) \in Nat /\ l[i].start \in Nat
  BY LinkedFacts
<1>2. c + 1 \in 2 .. Len(l) + 1 /\ \A i \in 2 .. (c + 1) - 1 : i = c \/ i \in 2 .. c - 1
  BY <1>1
<1>3. \A i \in 2 .. Len(l) : \E j \in 2 .. Len(l) :
        l[j].start <= l[i].start /\ End(l[i]) <= End(l[j])
  <2> SUFFICES ASSUME NEW i \in 2 .. Len(l)
               PROVE  l[i].start <= l[i].start /\ End(l[i]) <= End(l[i])
    OBVIOUS
  <2> QED
    BY <1>1, SMTT(60)
<1>4. \A i \in 2 .. (c + 1) - 1 : Outside(l[i], f, t)
  BY <1>2
<1> QED
  BY <1>2, <1>3, <1>4 DEF UseResult

\* Unlinking a region inside the extent.
LEMMA UseAll ==
  ASSUME NEW l, Linked(l), NEW c \in 2 .. Len(l), NEW f \in Nat, NEW t \in Nat,
         \A i \in 2 .. c - 1 : Outside(l[i], f, t),
         f <= l[c].start, End(l[c]) <= t
  PROVE  UseResult(l, c, RemoveAt(l, c), c, f, t)
<1>1. PICK n : n = Len(l)
  OBVIOUS
<1>2. n \in Nat /\ c \in 2 .. n /\ l \in Seq(Region) /\ InOrder(l)
      /\ \A i \in 1 .. n : End(l[i]) \in Nat /\ l[i].start \in Nat
  BY <1>1, LinkedFacts DEF Linked
<1>3. PICK m : m = RemoveAt(l, c)
  OBVIOUS
<1>4. /\ m \in Seq(Region) /\ Len(m) = n - 1
      /\ \A j \in 1 .. n - 1 : m[j] = IF j < c THEN l[j] ELSE l[j + 1]
  <2>1. c \in 1 .. Len(l)
    BY <1>1, <1>2
  <2> QED
    BY <1>1, <1>2, <1>3, <2>1, RemoveAtFacts
<1>5. ASSUME NEW i \in 1 .. n - 1
      PROVE  \E j \in 1 .. n : /\ m[i] = l[j] /\ j # c /\ (j = i \/ j = i + 1)
                               /\ i < c <=> j = i
  <2>1. CASE i < c
    BY <1>2, <1>4, <2>1, SMTT(60)
  <2>2. CASE ~(i < c)
    <3>1. i + 1 \in 1 .. n /\ i + 1 # c /\ i + 1 # i
      BY <1>2, <2>2, SMTT(60)
    <3> QED
      BY <1>4, <2>2, <3>1
  <2> QED
    BY <2>1, <2>2
<1>6. Linked(m)
  <2>1. m[1] = StaticDescriptor /\ m # <<>>
    <3>1. n - 1 >= 1 /\ 1 \in 1 .. n - 1 /\ 1 < c
      BY <1>2
    <3> QED
      BY <1>4, <3>1 DEF Linked
  <2>2. InOrder(m)
    <3> SUFFICES ASSUME NEW i \in 1 .. n - 1, NEW k \in 1 .. n - 1, i < k
                 PROVE  End(m[i]) <= m[k].start
      BY <1>4 DEF InOrder
    <3>1. PICK j \in 1 .. n : m[i] = l[j] /\ (j = i \/ j = i + 1) /\ (i < c <=> j = i)
      BY <1>5
    <3>2. PICK h \in 1 .. n : m[k] = l[h] /\ (h = k \/ h = k + 1) /\ (k < c <=> h = k)
      BY <1>5
    <3>3. j < h
      BY <1>2, <3>1, <3>2, SMTT(60)
    <3> QED
      BY <1>1, <1>2, <3>1, <3>2, <3>3 DEF InOrder
  <2>3. ASSUME NEW i \in 2 .. n - 1 PROVE m[i].start > 0 /\ m[i].count > 0
    <3>1. PICK j \in 2 .. n : m[i] = l[j]
      <4>1. i \in 1 .. n - 1
        BY <1>2
      <4>2. PICK j \in 1 .. n : m[i] = l[j] /\ (j = i \/ j = i + 1)
        BY <1>5, <4>1
      <4> QED
        BY <4>2
    <3> QED
      BY <1>1, <3>1 DEF Linked
  <2> QED
    BY <1>4, <2>1, <2>2, <2>3 DEF Linked
<1>7. c \in 2 .. Len(m) + 1
  BY <1>2, <1>4
<1>8. \A i \in 2 .. c - 1 : Outside(m[i], f, t)
  <2> SUFFICES ASSUME NEW i \in 2 .. c - 1 PROVE Outside(m[i], f, t)
    OBVIOUS
  <2>1. i \in 1 .. n - 1 /\ i < c
    BY <1>2, SMTT(60)
  <2> QED
    BY <1>4, <2>1
<1>9. \A i \in 2 .. Len(m) : \E j \in 2 .. n : m[i] = l[j]
  <2> SUFFICES ASSUME NEW i \in 2 .. n - 1 PROVE \E j \in 2 .. n : m[i] = l[j]
    BY <1>4
  <2>1. i \in 1 .. n - 1
    BY <1>2
  <2>2. PICK j \in 1 .. n : m[i] = l[j] /\ (j = i \/ j = i + 1)
    BY <1>5, <2>1
  <2> QED
    BY <2>2
<1>10. ASSUME NEW p \in Nat, p < f \/ t <= p
       PROVE  Covered(m, p) <=> Covered(l, p)
  <2>1. ASSUME Covered(m, p) PROVE Covered(l, p)
    BY <1>1, <1>9, <2>1 DEF Covered
  <2>2. ASSUME Covered(l, p) PROVE Covered(m, p)
    <3>1. PICK j \in 2 .. n : HasPage(l[j], p)
      BY <1>1, <2>2 DEF Covered
    <3>2. j # c
      <4>1. ~HasPage(l[c], p)
        BY <1>2, <1>10, SMTT(60) DEF HasPage
      <4> QED
        BY <3>1, <4>1
    <3>3. \E i \in 2 .. n - 1 : m[i] = l[j]
      <4>1. CASE j < c
        <5>1. j \in 1 .. n - 1 /\ j \in 2 .. n - 1
          BY <1>2, <4>1, SMTT(60)
        <5> QED
          BY <1>4, <4>1, <5>1
      <4>2. CASE j > c
        <5>1. j - 1 \in 1 .. n - 1 /\ j - 1 \in 2 .. n - 1 /\ ~(j - 1 < c) /\ (j - 1) + 1 = j
          BY <1>2, <4>2, SMTT(60)
        <5>2. m[j - 1] = l[(j - 1) + 1]
          BY <1>4, <5>1
        <5> QED
          BY <5>1, <5>2
      <4> QED
        BY <1>2, <3>2, <4>1, <4>2
    <3> QED
      BY <1>4, <3>1, <3>3 DEF Covered
  <2> QED
    BY <2>1, <2>2
<1>11. \A i \in 2 .. Len(m) : \E j \in 2 .. Len(l) :
         l[j].start <= m[i].start /\ End(m[i]) <= End(l[j])
  <2> SUFFICES ASSUME NEW i \in 2 .. Len(m)
               PROVE  \E j \in 2 .. n : l[j].start <= m[i].start /\ End(m[i]) <= End(l[j])
    BY <1>1
  <2>1. PICK j \in 2 .. n : m[i] = l[j]
    BY <1>9
  <2>2. l[j].start <= l[j].start /\ End(l[j]) <= End(l[j])
    BY <1>2, SMTT(60)
  <2> QED
    BY <2>1, <2>2
<1> QED
  BY <1>3, <1>6, <1>7, <1>8, <1>10, <1>11 DEF UseResult

\* Writing a part of a region over it.
LEMMA UsePart ==
  ASSUME NEW l, Linked(l), NEW c \in 2 .. Len(l), NEW f \in Nat, NEW t \in Nat,
         \A i \in 2 .. c - 1 : Outside(l[i], f, t),
         NEW r \in Region, r.count > 0, Outside(r, f, t),
         l[c].start <= r.start, End(r) <= End(l[c]),
         \A p \in Nat : p < f \/ t <= p => (HasPage(r, p) <=> HasPage(l[c], p))
  PROVE  UseResult(l, c, ReplaceAt(l, c, r), c + 1, f, t)
<1>1. PICK n : n = Len(l)
  OBVIOUS
<1>2. /\ n \in Nat /\ c \in 2 .. n /\ l \in Seq(Region) /\ InOrder(l)
      /\ \A i \in 1 .. n : End(l[i]) \in Nat /\ l[i].start \in Nat
      /\ r.start \in Nat /\ End(r) \in Nat
  BY <1>1, LinkedFacts, RegionFacts DEF Linked
<1>3. PICK m : m = ReplaceAt(l, c, r)
  OBVIOUS
<1>4. /\ m \in Seq(Region) /\ Len(m) = n
      /\ \A j \in 1 .. n : m[j] = IF j = c THEN r ELSE l[j]
  <2>1. c \in 1 .. Len(l)
    BY <1>1, <1>2
  <2>2. /\ ReplaceAt(l, c, r) \in Seq(Region)
        /\ Len(ReplaceAt(l, c, r)) = Len(l)
        /\ \A j \in 1 .. Len(l) :
             ReplaceAt(l, c, r)[j] = IF j = c THEN r ELSE l[j]
    BY <1>2, <2>1, ReplaceAtFacts
  <2> QED
    BY <1>1, <1>3, <2>2
<1>5. \A i \in 1 .. n : l[i].start <= m[i].start /\ End(m[i]) <= End(l[i])
  <2> SUFFICES ASSUME NEW i \in 1 .. n
               PROVE  l[i].start <= m[i].start /\ End(m[i]) <= End(l[i])
    OBVIOUS
  <2>1. CASE i = c
    BY <1>4, <2>1
  <2>2. CASE i # c
    <3>1. m[i] = l[i]
      BY <1>4, <2>2
    <3>2. l[i].start \in Nat /\ End(l[i]) \in Nat
      BY <1>2
    <3> QED
      BY <3>1, <3>2
  <2> QED
    BY <2>1, <2>2
<1>6. \A i \in 1 .. n : m[i].start \in Nat /\ End(m[i]) \in Nat
  BY <1>2, <1>4
<1>7. Linked(m)
  <2>1. m[1] = StaticDescriptor /\ m # <<>>
    <3>1. 1 \in 1 .. n /\ 1 # c /\ n # 0
      BY <1>2, SMTT(60)
    <3> QED
      BY <1>4, <3>1 DEF Linked
  <2>2. InOrder(m)
    <3> SUFFICES ASSUME NEW i \in 1 .. n, NEW k \in 1 .. n, i < k
                 PROVE  End(m[i]) <= m[k].start
      BY <1>4 DEF InOrder
    <3>1. End(l[i]) <= l[k].start
      BY <1>1, <1>2 DEF InOrder
    <3>2. End(m[i]) <= End(l[i]) /\ l[k].start <= m[k].start
      BY <1>5
    <3>3. /\ End(m[i]) \in Nat /\ End(l[i]) \in Nat
          /\ l[k].start \in Nat /\ m[k].start \in Nat
      BY <1>2, <1>6
    <3> QED
      BY <3>1, <3>2, <3>3, SMTT(60)
  <2>3. ASSUME NEW i \in 2 .. n PROVE m[i].start > 0 /\ m[i].count > 0
    <3>1. l[i].start > 0 /\ l[i].count > 0 /\ i \in 1 .. n
      BY <1>1, <1>2 DEF Linked
    <3>2. l[i].start <= m[i].start /\ l[i].start \in Nat /\ m[i].start \in Nat
      BY <1>2, <1>5, <1>6, <3>1
    <3>3. m[i].start > 0
      BY <3>1, <3>2, SMTT(60)
    <3> QED
      BY <1>4, <3>1, <3>3
  <2> QED
    BY <1>4, <2>1, <2>2, <2>3 DEF Linked
<1>8. c + 1 \in 2 .. Len(m) + 1
  BY <1>2, <1>4
<1>9. \A i \in 2 .. (c + 1) - 1 : Outside(m[i], f, t)
  <2> SUFFICES ASSUME NEW i \in 2 .. c PROVE Outside(m[i], f, t)
    BY <1>2
  <2>1. i \in 1 .. n /\ (i = c \/ i \in 2 .. c - 1)
    BY <1>2, SMTT(60)
  <2> QED
    BY <1>4, <2>1
<1>10. \A i \in 2 .. Len(m) : \E j \in 2 .. Len(l) :
         l[j].start <= m[i].start /\ End(m[i]) <= End(l[j])
  <2> SUFFICES ASSUME NEW i \in 2 .. n
               PROVE  l[i].start <= m[i].start /\ End(m[i]) <= End(l[i])
    BY <1>1, <1>4
  <2>1. i \in 1 .. n
    BY <1>2
  <2> QED
    BY <1>5, <2>1
<1>11. ASSUME NEW p \in Nat, p < f \/ t <= p
       PROVE  Covered(m, p) <=> Covered(l, p)
  <2>1. \A i \in 2 .. n : HasPage(m[i], p) <=> HasPage(l[i], p)
    <3> SUFFICES ASSUME NEW i \in 2 .. n
                 PROVE  HasPage(m[i], p) <=> HasPage(l[i], p)
      OBVIOUS
    <3>1. i \in 1 .. n
      BY <1>2
    <3> QED
      BY <1>4, <1>11, <3>1
  <2> QED
    BY <1>1, <1>4, <2>1 DEF Covered
<1> QED
  BY <1>3, <1>7, <1>8, <1>9, <1>10, <1>11 DEF UseResult

\* Splitting a region that reaches over both ends of the extent.
LEMMA UseSplit ==
  ASSUME NEW l, Linked(l), NEW c \in 2 .. Len(l), NEW f \in Nat, NEW t \in Nat,
         \A i \in 2 .. c - 1 : Outside(l[i], f, t), f < t,
         l[c].start < f, t < End(l[c]),
         NEW a \in Region, a.start = l[c].start, End(a) = f, a.count > 0,
         NEW b \in Region, b.start = t, End(b) = End(l[c]), b.count > 0
  PROVE  UseResult(l, c, InsertAt(ReplaceAt(l, c, a), c + 1, b), c + 1, f, t)
<1>1. PICK n : n = Len(l)
  OBVIOUS
<1>2. /\ n \in Nat /\ c \in 2 .. n /\ l \in Seq(Region) /\ InOrder(l)
      /\ \A i \in 1 .. n : End(l[i]) \in Nat /\ l[i].start \in Nat
  BY <1>1, LinkedFacts DEF Linked
<1>3. PICK k : k = ReplaceAt(l, c, a)
  OBVIOUS
<1>4. /\ k \in Seq(Region) /\ Len(k) = n
      /\ \A j \in 1 .. n : k[j] = IF j = c THEN a ELSE l[j]
  <2>1. c \in 1 .. Len(l)
    BY <1>1, <1>2
  <2>2. /\ ReplaceAt(l, c, a) \in Seq(Region)
        /\ Len(ReplaceAt(l, c, a)) = Len(l)
        /\ \A j \in 1 .. Len(l) :
             ReplaceAt(l, c, a)[j] = IF j = c THEN a ELSE l[j]
    BY <1>2, <2>1, ReplaceAtFacts
  <2> QED
    BY <1>1, <1>3, <2>2
<1>5. PICK m : m = InsertAt(k, c + 1, b)
  OBVIOUS
<1>6. /\ m \in Seq(Region) /\ Len(m) = n + 1
      /\ \A j \in 1 .. n + 1 : m[j] = AfterInsert(k, c + 1, b, j)
  <2>1. c + 1 \in 1 .. Len(k) + 1
    BY <1>2, <1>4
  <2> QED
    BY <1>4, <1>5, <2>1, InsertAtFacts, ZenonT(60)
<1>7. \A j \in 1 .. n + 1 :
        /\ j < c => m[j] = l[j] /\ j \in 1 .. n
        /\ j = c => m[j] = a
        /\ j = c + 1 => m[j] = b
        /\ j > c + 1 => m[j] = l[j - 1] /\ j - 1 \in 1 .. n
  <2> SUFFICES ASSUME NEW j \in 1 .. n + 1
               PROVE  /\ j < c => m[j] = l[j] /\ j \in 1 .. n
                      /\ j = c => m[j] = a
                      /\ j = c + 1 => m[j] = b
                      /\ j > c + 1 => m[j] = l[j - 1] /\ j - 1 \in 1 .. n
    OBVIOUS
  <2>1. CASE j < c
    <3>1. j \in 1 .. n /\ j < c + 1 /\ j # c
      BY <1>2, <2>1
    <3> QED
      BY <1>2, <1>4, <1>6, <2>1, <3>1, SMTT(60) DEF AfterInsert
  <2>2. CASE j = c
    BY <1>2, <1>4, <1>6, <2>2 DEF AfterInsert
  <2>3. CASE j = c + 1
    BY <1>2, <1>6, <2>3, SMTT(60) DEF AfterInsert
  <2>4. CASE j > c + 1
    <3>0. n \in Nat /\ c \in 2 .. n
      BY <1>2
    <3>1. j - 1 \in 1 .. n /\ j - 1 # c /\ ~(j < c + 1) /\ j # c + 1
      BY <2>4, <3>0
    <3> QED
      BY <1>2, <1>4, <1>6, <2>4, <3>1, SMTT(60) DEF AfterInsert
  <2> QED
    BY <1>2, <2>1, <2>2, <2>3, <2>4
<1>8. a.start \in Nat /\ End(a) \in Nat /\ b.start \in Nat /\ End(b) \in Nat
  BY RegionFacts
\* The region of the old list that each one of the new list comes from.
<1>9. \A j \in 1 .. n + 1 : \E i \in 1 .. n :
        /\ l[i].start <= m[j].start /\ End(m[j]) <= End(l[i])
        /\ j <= c => i = j
        /\ j > c => i = j - 1
        /\ m[j].start \in Nat /\ End(m[j]) \in Nat
        /\ m[j] = l[i] \/ m[j] = a \/ m[j] = b
  <2> SUFFICES ASSUME NEW j \in 1 .. n + 1
               PROVE  \E i \in 1 .. n :
                        /\ l[i].start <= m[j].start /\ End(m[j]) <= End(l[i])
                        /\ j <= c => i = j
                        /\ j > c => i = j - 1
                        /\ m[j].start \in Nat /\ End(m[j]) \in Nat
                        /\ m[j] = l[i] \/ m[j] = a \/ m[j] = b
    OBVIOUS
  <2>1. CASE j < c
    <3>1. m[j] = l[j] /\ j \in 1 .. n /\ j <= c /\ ~(j > c)
      BY <1>2, <1>7, <2>1
    <3>2. End(l[j]) \in Nat /\ l[j].start \in Nat
      BY <1>2, <3>1
    <3> QED
      BY <3>1, <3>2
  <2>2. CASE j = c
    <3>1. m[j] = a /\ c \in 1 .. n /\ j <= c /\ ~(j > c)
      BY <1>2, <1>7, <2>2
    <3>2. l[c].start <= a.start /\ End(a) <= End(l[c])
      BY <1>2, <1>8, <3>1, SMTT(60)
    <3> QED
      BY <1>8, <2>2, <3>1, <3>2
  <2>3. CASE j = c + 1
    <3>1. m[j] = b /\ c \in 1 .. n /\ ~(j <= c) /\ j > c /\ c = j - 1
      BY <1>2, <1>7, <2>3, SMTT(60)
    <3>2. l[c].start <= b.start /\ End(b) <= End(l[c])
      BY <1>2, <1>8, <3>1, SMTT(60)
    <3> QED
      BY <1>8, <3>1, <3>2
  <2>4. CASE j > c + 1
    <3>1. m[j] = l[j - 1] /\ j - 1 \in 1 .. n /\ ~(j <= c) /\ j > c
      BY <1>2, <1>7, <2>4, SMTT(60)
    <3>2. End(l[j - 1]) \in Nat /\ l[j - 1].start \in Nat
      BY <1>2, <3>1
    <3> QED
      BY <3>1, <3>2, SMTT(60)
  <2> QED
    BY <1>2, <2>1, <2>2, <2>3, <2>4
<1>10. Linked(m)
  <2>1. m[1] = StaticDescriptor /\ m # <<>>
    <3>1. 1 \in 1 .. n + 1 /\ 1 < c /\ n + 1 # 0
      BY <1>2
    <3> QED
      BY <1>6, <1>7, <3>1 DEF Linked
  <2>2. InOrder(m)
    <3> SUFFICES ASSUME NEW i \in 1 .. n + 1, NEW j \in 1 .. n + 1, i < j
                 PROVE  End(m[i]) <= m[j].start
      BY <1>6 DEF InOrder
    <3>1. CASE i = c /\ j = c + 1
      BY <1>7, <1>8, <3>1
    <3>2. CASE ~(i = c /\ j = c + 1)
      <4>1. PICK g \in 1 .. n : /\ End(m[i]) <= End(l[g]) /\ End(m[i]) \in Nat
                                /\ i <= c => g = i
                                /\ i > c => g = i - 1
        BY <1>9
      <4>2. PICK h \in 1 .. n : /\ l[h].start <= m[j].start /\ m[j].start \in Nat
                                /\ j <= c => h = j
                                /\ j > c => h = j - 1
        BY <1>9
      <4>3. g < h
        BY <1>2, <3>2, <4>1, <4>2, SMTT(60)
      <4>4. End(l[g]) <= l[h].start /\ End(l[g]) \in Nat /\ l[h].start \in Nat
        BY <1>1, <1>2, <4>3 DEF InOrder
      <4> QED
        BY <4>1, <4>2, <4>4, SMTT(60)
    <3> QED
      BY <3>1, <3>2
  <2>3. ASSUME NEW j \in 2 .. n + 1 PROVE m[j].start > 0 /\ m[j].count > 0
    <3>1. j \in 1 .. n + 1
      BY <1>2
    <3>2. PICK i \in 1 .. n : /\ l[i].start <= m[j].start /\ m[j].start \in Nat
                              /\ j <= c => i = j
                              /\ j > c => i = j - 1
                              /\ m[j] = l[i] \/ m[j] = a \/ m[j] = b
      BY <1>9, <3>1
    <3>3. i \in 2 .. n
      BY <1>2, <3>2, SMTT(60)
    <3>4. l[i].start > 0 /\ l[i].count > 0 /\ l[i].start \in Nat
      BY <1>1, <1>2, <3>3 DEF Linked
    <3> QED
      BY <3>2, <3>4, SMTT(60)
  <2> QED
    BY <1>6, <2>1, <2>2, <2>3 DEF Linked
<1>11. c + 1 \in 2 .. Len(m) + 1
  BY <1>2, <1>6, SMTT(60)
<1>12. \A i \in 2 .. (c + 1) - 1 : Outside(m[i], f, t)
  <2> SUFFICES ASSUME NEW i \in 2 .. c PROVE Outside(m[i], f, t)
    BY <1>2
  <2>1. i \in 1 .. n + 1 /\ (i = c \/ i \in 2 .. c - 1)
    BY <1>2, SMTT(60)
  <2>2. CASE i = c
    BY <1>7, <2>1, <2>2 DEF Outside
  <2>3. CASE i \in 2 .. c - 1
    BY <1>2, <1>7, <2>1, <2>3
  <2> QED
    BY <2>1, <2>2, <2>3
<1>13. \A j \in 2 .. Len(m) : \E i \in 2 .. Len(l) :
         l[i].start <= m[j].start /\ End(m[j]) <= End(l[i])
  <2> SUFFICES ASSUME NEW j \in 2 .. n + 1
               PROVE  \E i \in 2 .. n :
                        l[i].start <= m[j].start /\ End(m[j]) <= End(l[i])
    BY <1>1, <1>6
  <2>1. j \in 1 .. n + 1
    BY <1>2
  <2>2. PICK i \in 1 .. n : /\ l[i].start <= m[j].start /\ End(m[j]) <= End(l[i])
                            /\ j <= c => i = j
                            /\ j > c => i = j - 1
    BY <1>9, <2>1
  <2>3. i \in 2 .. n
    BY <1>2, <2>2
  <2> QED
    BY <2>2, <2>3
<1>14. ASSUME NEW p \in Nat, p < f \/ t <= p
       PROVE  Covered(m, p) <=> Covered(l, p)
  <2>1. HasPage(l[c], p) <=> HasPage(a, p) \/ HasPage(b, p)
    BY <1>2, <1>8, <1>14 DEF HasPage
  <2>2. ASSUME NEW j \in 2 .. n + 1, HasPage(m[j], p)
        PROVE  \E i \in 2 .. n : HasPage(l[i], p)
    <3>1. CASE j = c \/ j = c + 1
      BY <1>2, <1>7, <2>1, <2>2, <3>1
    <3>2. CASE j < c
      <4>1. j \in 1 .. n + 1 /\ j \in 2 .. n
        BY <1>2, <3>2
      <4> QED
        BY <1>7, <2>2, <3>2, <4>1
    <3>3. CASE j > c + 1
      <4>1. j \in 1 .. n + 1 /\ j - 1 \in 2 .. n
        BY <1>2, <3>3
      <4> QED
        BY <1>7, <2>2, <3>3, <4>1
    <3> QED
      BY <1>2, <3>1, <3>2, <3>3, SMTT(60)
  <2>3. ASSUME NEW i \in 2 .. n, HasPage(l[i], p)
        PROVE  \E j \in 2 .. n + 1 : HasPage(m[j], p)
    <3>1. CASE i = c
      <4>1. m[c] = a /\ m[c + 1] = b /\ c \in 2 .. n + 1 /\ c + 1 \in 2 .. n + 1
        BY <1>2, <1>7
      <4> QED
        BY <2>1, <2>3, <3>1, <4>1
    <3>2. CASE i < c
      <4>1. i \in 1 .. n + 1 /\ i \in 2 .. n + 1
        BY <1>2
      <4> QED
        BY <1>7, <2>3, <3>2, <4>1
    <3>3. CASE i > c
      <4>1. i + 1 \in 1 .. n + 1 /\ i + 1 \in 2 .. n + 1 /\ i + 1 > c + 1
            /\ (i + 1) - 1 = i
        BY <1>2, <3>3
      <4>2. m[i + 1] = l[i]
        BY <1>7, <4>1
      <4> QED
        BY <2>3, <4>1, <4>2
    <3> QED
      BY <1>2, <3>1, <3>2, <3>3
  <2> QED
    BY <1>1, <1>6, <2>2, <2>3 DEF Covered
<1> QED
  BY <1>3, <1>5, <1>10, <1>11, <1>12, <1>13, <1>14 DEF UseResult

-----------------------------------------------------------------------------
\* A quotient does not fall when what is divided grows.
LEMMA DivMonotone ==
  ASSUME NEW P \in Nat \ {0}, NEW a \in Nat, NEW b \in Nat, a <= b
  PROVE  a \div P <= b \div P
<1> DEFINE d == a \div P
<1>1. d \in Nat /\ d * P \in Nat /\ d * P <= a
  BY DivFacts
<1> HIDE DEF d
<1>2. d * P <= b
  BY <1>1
<1>3. d <= b \div P
  BY <1>1, <1>2, QuotientAtLeast
<1> QED
  BY <1>3 DEF d

\* What setUsed keeps back for an extent: two pages at least, and every page
\* the extent touches.
LEMMA ExtentFacts ==
  ASSUME NEW x \in Extent
  PROVE  /\ FirstUsed(x) \in Nat /\ AfterUsed(x) \in Nat
         /\ FirstUsed(x) + 2 <= AfterUsed(x)
         /\ TouchedPages(x) \subseteq SparePages(x)
<1>1. /\ PageSize \in Nat \ {0} /\ x.start \in Nat /\ x.length \in Nat \ {0}
  BY BootAssumption DEF Extent
<1>2. PICK a, b, c : /\ a = x.start /\ b = x.start + x.length + PageSize - 1
                     /\ c = x.start + x.length - 1
  OBVIOUS
<1>3. a \in Nat /\ b \in Nat /\ c \in Nat /\ a <= c /\ b = c + PageSize
  BY <1>1, <1>2
<1>4. PICK f, u, w : f = a \div PageSize /\ u = b \div PageSize /\ w = c \div PageSize
  OBVIOUS
<1>5. f \in Nat /\ u \in Nat /\ w \in Nat /\ f <= w
  BY <1>1, <1>3, <1>4, DivFacts, DivMonotone
<1>6. w + 1 <= u
  <2>1. w * PageSize \in Nat /\ w * PageSize <= c
    BY <1>1, <1>3, <1>4, DivFacts
  <2>2. (w + 1) * PageSize = w * PageSize + PageSize
    BY <1>1, <1>5
  <2>3. (w + 1) * PageSize <= b
    BY <1>1, <1>3, <2>1, <2>2
  <2>4. PICK v : v = w + 1
    OBVIOUS
  <2>5. v \in Int /\ v * PageSize <= b
    BY <1>5, <2>3, <2>4
  <2>6. v <= b \div PageSize
    BY <1>1, <1>3, <2>5, QuotientAtLeast
  <2> QED
    BY <1>4, <2>4, <2>6
<1>7. FirstUsed(x) = f /\ AfterUsed(x) = u + 1
  BY <1>2, <1>4 DEF FirstUsed, AfterUsed
<1>8. TouchedPages(x) = f .. w /\ SparePages(x) = f .. u
  <2>1. TouchedPages(x) = f .. w
    BY <1>2, <1>4 DEF TouchedPages
  <2>2. SparePages(x) = f .. (u + 1) - 1
    BY <1>7 DEF SparePages
  <2> QED
    BY <1>5, <2>1, <2>2
<1> QED
  BY <1>5, <1>6, <1>7, <1>8

\* The region of a usable entry: the whole pages of it but the null page.
LEMMA EntryFacts ==
  ASSUME NEW e \in Entry, HasPages(e),
         NEW r, r = UsableRegion(e)
  PROVE  /\ r \in Region /\ r.start > 0 /\ r.count > 0
         /\ e.base \div PageSize <= r.start /\ e.base \div PageSize \in Nat
         /\ End(r) = (e.base + e.length) \div PageSize
         /\ \A p \in Nat : HasPage(r, p) <=> p # 0 /\ p \in WholePages(e)
<1>1. PICK P : P = PageSize
  OBVIOUS
<1>2. PICK b, n : b = e.base /\ n = e.length
  OBVIOUS
<1>3. /\ P \in Nat \ {0} /\ b \in Nat /\ n \in Nat
      /\ b % P = 0 /\ n >= P
      /\ b = 0 => n - P \in Nat /\ n - P >= P
  BY <1>1, <1>2, BootAssumption DEF Entry, HasPages
<1>4. PICK q : q = b \div P
  OBVIOUS
<1>5. q \in Nat /\ b = q * P
  <2>1. q \in Nat
    BY <1>3, <1>4, DivFacts
  <2>2. b = q * P + 0
    BY <1>3, <1>4, <2>1, DivModFacts
  <2>3. q * P \in Nat
    BY <1>3, <2>1
  <2> QED
    BY <2>1, <2>2, <2>3
<1>6. (P - 1) \div P = 0
  <2>1. PICK d : d = (P - 1) \div P
    OBVIOUS
  <2>2. P - 1 \in Nat /\ ~(1 * P <= P - 1)
    BY <1>3
  <2>3. d \in Nat /\ ~(1 <= d)
    BY <1>3, <2>1, <2>2, DivFacts, QuotientAtLeast
  <2> QED
    BY <2>1, <2>3
<1>7. \A k \in Nat : k >= P => k \div P \in Nat /\ k \div P > 0
  <2> SUFFICES ASSUME NEW k \in Nat, k >= P PROVE k \div P \in Nat /\ k \div P > 0
    OBVIOUS
  <2>1. 1 * P <= k
    BY <1>3
  <2>2. 1 <= k \div P /\ k \div P \in Nat
    BY <1>3, <2>1, DivFacts, QuotientAtLeast
  <2> QED
    BY <2>2
<1>8. PICK s, t : r = [start |-> s, count |-> t]
                  /\ s = (IF b = 0 THEN P ELSE b) \div P
                  /\ t = (IF b = 0 THEN n - P ELSE n) \div P
  BY <1>1, <1>2 DEF UsableRegion
<1>9. /\ s \in Nat /\ s > 0 /\ q <= s /\ t \in Nat /\ t > 0
      /\ s + t = (b + n) \div P
      /\ \A p \in Nat : s <= p <=> p # 0 /\ q <= p
  <2>1. CASE b = 0
    <3>1. q = 0 /\ s = P \div P /\ t = (n - P) \div P
      <4>1. q = 0
        <5>1. q > 0 => q * P >= P
          BY <1>3, <1>5
        <5> QED
          BY <1>3, <1>5, <2>1, <5>1
      <4> QED
        BY <1>8, <2>1, <4>1
    <3>2. P \div P = 1
      <4>1. P = 1 * P + 0 /\ 0 \in Nat /\ 1 \in Nat
        BY <1>3
      <4>2. Composed(P, 1, P, 0)
        BY <4>1 DEF Composed
      <4>3. P \div P = 1 + 0 \div P
        BY <1>3, <4>2, DivAdd
      <4>4. 0 \div P = 0
        <5>1. PICK d : d = 0 \div P
          OBVIOUS
        <5>2. ~(1 * P <= 0)
          BY <1>3
        <5>3. d \in Nat /\ ~(1 <= d)
          BY <1>3, <5>1, <5>2, DivFacts, QuotientAtLeast
        <5> QED
          BY <5>1, <5>3
      <4> QED
        BY <4>3, <4>4
    <3>3. n \div P = 1 + (n - P) \div P
      <4>1. n = 1 * P + (n - P) /\ n - P \in Nat
        BY <1>3, <2>1
      <4>2. Composed(n, 1, P, n - P)
        BY <4>1 DEF Composed
      <4>3. P \in Nat \ {0} /\ 1 \in Nat /\ n - P \in Nat
        BY <1>3, <4>1
      <4> QED
        BY <4>2, <4>3, DivAdd, Zenon
    <3>4. t \in Nat /\ t > 0
      BY <1>3, <1>7, <2>1, <3>1
    <3>5. b + n = n
      BY <1>3, <2>1
    <3> QED
      BY <3>1, <3>2, <3>3, <3>4, <3>5
  <2>2. CASE b # 0
    <3>1. s = q /\ t = n \div P
      BY <1>4, <1>8, <2>2
    <3>2. q # 0
      <4>1. q = 0 => q * P = 0
        BY <1>3
      <4> QED
        BY <1>5, <2>2, <4>1
    <3>3. (b + n) \div P = q + n \div P
      <4>1. Composed(b + n, q, P, n)
        BY <1>5 DEF Composed
      <4>2. P \in Nat \ {0} /\ q \in Nat /\ n \in Nat
        BY <1>3, <1>5
      <4> QED
        BY <4>1, <4>2, DivAdd, Zenon
    <3>4. t \in Nat /\ t > 0
      BY <1>3, <1>7, <3>1
    <3> QED
      BY <1>5, <3>1, <3>2, <3>3, <3>4
  <2> QED
    BY <2>1, <2>2
<1>10. r \in Region /\ r.start = s /\ r.count = t /\ End(r) = s + t
  BY <1>8, <1>9, MakeRegion
<1>11. WholePages(e) = q .. (s + t) - 1
  <2>1. (b + P - 1) \div P = q
    <3>1. PICK y, z : y = b + P - 1 /\ z = P - 1
      OBVIOUS
    <3>2. z \in Nat /\ Composed(y, q, P, z)
      BY <1>3, <1>5, <3>1 DEF Composed
    <3>3. y \div P = q + z \div P
      <4>1. P \in Nat \ {0} /\ q \in Nat /\ z \in Nat
        BY <1>3, <1>5, <3>2
      <4> QED
        BY <3>2, <4>1, DivAdd, Zenon
    <3> QED
      BY <1>5, <1>6, <3>1, <3>3
  <2> QED
    BY <1>1, <1>2, <1>9, <2>1 DEF WholePages
<1>12. \A p \in Nat : HasPage(r, p) <=> p # 0 /\ p \in WholePages(e)
  <2> SUFFICES ASSUME NEW p \in Nat
               PROVE  HasPage(r, p) <=> p # 0 /\ p \in WholePages(e)
    OBVIOUS
  <2>1. HasPage(r, p) <=> s <= p /\ p < s + t
    BY <1>10 DEF HasPage
  <2>2. p \in WholePages(e) <=> q <= p /\ p < s + t
    BY <1>5, <1>9, <1>11
  <2> QED
    BY <1>9, <2>1, <2>2
<1> QED
  BY <1>1, <1>2, <1>4, <1>5, <1>9, <1>10, <1>12

-----------------------------------------------------------------------------
\* The region r keeps clear of what is kept back for the extent x.
Clear(r, x) == Outside(r, FirstUsed(x), AfterUsed(x))

\* The page p is one of the first n entries of the map m, and not the null page.
UsableAt(m, n, p) ==
  p # 0 /\ \E j \in 1 .. n : IsUsable(m[j]) /\ p \in WholePages(m[j])

\* The regions in l, linked from the entries before c of the map m, lie in front
\* of the other entries and hold the pages of those before c.
LinkedSoFar(l, m, c) ==
  /\ Linked(l)
  /\ \A i \in 1 .. Len(l), j \in c .. Len(m) :
       End(l[i]) <= m[j].base \div PageSize
  /\ \A p \in Nat : Covered(l, p) <=> UsableAt(m, c - 1, p)

AllClear(l, x) == \A i \in 2 .. Len(l) : Clear(l[i], x)

\* setUsed for x has reached the position c in l; outside x the pages of free
\* are in the list.
UsedSoFar(l, c, x, free) ==
  /\ Linked(l) /\ c \in 2 .. Len(l) + 1
  /\ \A i \in 2 .. c - 1 : Clear(l[i], x)
  /\ \A p \in Nat \ SparePages(x) : Covered(l, p) <=> p \in free

FreeAtFirst(m) == { p \in Nat : UsableAt(m, Len(m), p) }
FreeAfter(m, x) == FreeAtFirst(m) \ SparePages(x)

Finished(l, m, x, y) ==
  /\ Linked(l) /\ AllClear(l, x) /\ AllClear(l, y)
  /\ \A p \in Nat : Covered(l, p) <=> p \in FreeAfter(m, x) \ SparePages(y)

BootInv ==
  /\ BootTypeOK
  /\ map \in Maps /\ kernel \in Kernels /\ trampoline \in Trampolines
  /\ phase \in MapPasses => position >= 1
  /\ phase = "getStaticData" => unusableRegionCount < position
  /\ phase = "unusablePass" => bootList = <<StaticDescriptor>>
  /\ phase = "usablePass" => LinkedSoFar(bootList, map, position)
  /\ phase = "setUsedKernel" =>
       UsedSoFar(bootList, position, kernel, FreeAtFirst(map))
  /\ phase = "setUsedTrampoline" =>
       /\ UsedSoFar(bootList, position, trampoline, FreeAfter(map, kernel))
       /\ AllClear(bootList, kernel)
  /\ phase = "done" => Finished(bootList, map, kernel, trampoline)

\* What the assumptions say of a map.
LEMMA MapFacts ==
  ASSUME NEW m \in Maps
  PROVE  /\ PageSize \in Nat \ {0} /\ MaxDescriptors \in Nat
         /\ m \in Seq(Entry) /\ Len(m) \in Nat
         /\ \A i \in 1 .. Len(m) :
              /\ m[i] \in Entry
              /\ m[i].base \in Nat /\ m[i].length \in Nat
              /\ IsUsable(m[i]) => HasPages(m[i])
         /\ \A i, j \in 1 .. Len(m) :
              i < j => m[i].base + m[i].length <= m[j].base
<1>1. /\ PageSize \in Nat \ {0} /\ MaxDescriptors \in Nat
      /\ m \in Seq(Entry)
      /\ \A i \in 1 .. Len(m) : IsUsable(m[i]) => HasPages(m[i])
  BY BootAssumption
<1>2. InAddressOrder(m)
  BY BootAssumption
<1>3. Len(m) \in Nat /\ \A i \in 1 .. Len(m) : m[i] \in Entry
  BY <1>1
<1>4. \A i \in 1 .. Len(m) : m[i].base \in Nat /\ m[i].length \in Nat
  BY <1>3 DEF Entry
<1> QED
  BY <1>1, <1>2, <1>3, <1>4 DEF InAddressOrder

\* The list before the first usable entry is linked.
LEMMA LinkFirst ==
  ASSUME NEW m \in Maps
  PROVE  LinkedSoFar(<<StaticDescriptor>>, m, 1)
<1>1. PICK l : l = <<StaticDescriptor>>
  OBVIOUS
<1>2. StaticDescriptor \in Region /\ End(StaticDescriptor) = 0
  BY MakeRegion DEF StaticDescriptor
<1>3. /\ l \in Seq(Region) /\ l # <<>> /\ Len(l) = 1 /\ l[1] = StaticDescriptor
  BY <1>1, <1>2
<1>4. Linked(l)
  BY <1>3 DEF Linked, InOrder
<1>5. \A i \in 1 .. Len(l), j \in 1 .. Len(m) :
        End(l[i]) <= m[j].base \div PageSize
  <2> SUFFICES ASSUME NEW i \in 1 .. Len(l), NEW j \in 1 .. Len(m)
               PROVE  End(l[i]) <= m[j].base \div PageSize
    OBVIOUS
  <2>1. m[j].base \div PageSize \in Nat
    BY MapFacts, DivFacts
  <2>2. End(l[i]) = 0
    BY <1>2, <1>3
  <2> QED
    BY <2>1, <2>2
<1>6. \A p \in Nat : ~Covered(l, p) /\ ~UsableAt(m, 1 - 1, p)
  BY <1>3 DEF Covered, UsableAt
<1> QED
  BY <1>1, <1>4, <1>5, <1>6 DEF LinkedSoFar

\* An entry that is not usable leaves no page behind.
LEMMA LinkNothing ==
  ASSUME NEW l, NEW m, NEW c \in Nat \ {0}, c <= Len(m), Len(m) \in Nat,
         LinkedSoFar(l, m, c), ~IsUsable(m[c])
  PROVE  LinkedSoFar(l, m, c + 1)
<1>1. \A p \in Nat : UsableAt(m, c - 1, p) <=> UsableAt(m, (c + 1) - 1, p)
  <2>1. \A j : j \in 1 .. (c + 1) - 1 <=> j \in 1 .. c - 1 \/ j = c
    OBVIOUS
  <2> QED
    BY <2>1 DEF UsableAt
<1>2. \A j \in c + 1 .. Len(m) : j \in c .. Len(m)
  OBVIOUS
<1> QED
  BY <1>1, <1>2 DEF LinkedSoFar

\* A usable entry's region is linked behind the others.
LEMMA LinkRegion ==
  ASSUME NEW l, NEW m \in Maps, NEW c \in Nat \ {0},
         c <= Len(m), LinkedSoFar(l, m, c), IsUsable(m[c])
  PROVE  LinkedSoFar(Append(l, UsableRegion(m[c])), m, c + 1)
<1>1. PICK r, e : r = UsableRegion(m[c]) /\ e = m[c]
  OBVIOUS
<1>2. PICK n : n = Len(l)
  OBVIOUS
<1>3. PICK k : k = Append(l, r)
  OBVIOUS
<1>4. /\ Linked(l) /\ n \in Nat \ {0} /\ l \in Seq(Region)
      /\ \A i \in 1 .. n : End(l[i]) \in Nat /\ l[i].start \in Nat
  BY <1>2, LinkedFacts DEF LinkedSoFar, Linked
<1>5. /\ e \in Entry /\ e.base \in Nat /\ e.length \in Nat
      /\ HasPages(e) /\ Len(m) \in Nat /\ c \in 1 .. Len(m)
      /\ PageSize \in Nat \ {0}
  BY <1>1, MapFacts
<1>6. /\ r \in Region /\ r.start > 0 /\ r.count > 0
      /\ e.base \div PageSize <= r.start /\ e.base \div PageSize \in Nat
      /\ End(r) = (e.base + e.length) \div PageSize
      /\ \A p \in Nat : HasPage(r, p) <=> p # 0 /\ p \in WholePages(e)
  BY <1>1, <1>5, EntryFacts
<1>7. r.start \in Nat /\ End(r) \in Nat
  BY <1>6, RegionFacts
<1>8. /\ k \in Seq(Region) /\ Len(k) = n + 1 /\ k[n + 1] = r
      /\ \A i \in 1 .. n : k[i] = l[i]
  BY <1>2, <1>3, <1>4, <1>6
<1>9. \A i \in 1 .. n : End(l[i]) <= r.start
  <2> SUFFICES ASSUME NEW i \in 1 .. n PROVE End(l[i]) <= r.start
    OBVIOUS
  <2>1. End(l[i]) <= e.base \div PageSize
    BY <1>1, <1>2, <1>5, SMTT(60) DEF LinkedSoFar
  <2> QED
    BY <1>4, <1>6, <1>7, <2>1
<1>10. Linked(k)
  <2>1. k # <<>> /\ k[1] = StaticDescriptor
    <3>1. 1 \in 1 .. n /\ n + 1 # 0
      BY <1>4
    <3> QED
      BY <1>4, <1>8, <3>1 DEF Linked
  <2>2. InOrder(k)
    <3> SUFFICES ASSUME NEW i \in 1 .. n + 1, NEW j \in 1 .. n + 1, i < j
                 PROVE  End(k[i]) <= k[j].start
      BY <1>8 DEF InOrder
    <3>1. i \in 1 .. n /\ k[i] = l[i]
      BY <1>4, <1>8, SMTT(60)
    <3>2. CASE j \in 1 .. n
      <4>1. InOrder(l) /\ k[j] = l[j]
        BY <1>4, <1>8, <3>2 DEF Linked
      <4> QED
        BY <1>2, <3>1, <3>2, <4>1 DEF InOrder
    <3>3. CASE j = n + 1
      BY <1>8, <1>9, <3>1, <3>3
    <3>4. j \in 1 .. n \/ j = n + 1
      BY <1>4
    <3> QED
      BY <3>2, <3>3, <3>4, Zenon
  <2>3. \A i \in 2 .. n + 1 : k[i].start > 0 /\ k[i].count > 0
    <3> SUFFICES ASSUME NEW i \in 2 .. n + 1 PROVE k[i].start > 0 /\ k[i].count > 0
      OBVIOUS
    <3>1. CASE i = n + 1
      BY <1>6, <1>8, <3>1
    <3>2. CASE i # n + 1
      <4>1. i \in 2 .. n /\ i \in 1 .. n
        BY <1>4, <3>2
      <4> QED
        BY <1>2, <1>4, <1>8, <4>1 DEF Linked
    <3> QED
      BY <3>1, <3>2
  <2> QED
    BY <1>8, <2>1, <2>2, <2>3 DEF Linked
<1>11. \A i \in 1 .. Len(k), j \in c + 1 .. Len(m) :
         End(k[i]) <= m[j].base \div PageSize
  <2> SUFFICES ASSUME NEW i \in 1 .. n + 1, NEW j \in c + 1 .. Len(m)
               PROVE  End(k[i]) <= m[j].base \div PageSize
    BY <1>8
  <2>1. CASE i = n + 1
    <3>1. j \in 1 .. Len(m) /\ c < j
      BY <1>5
    <3>2. e.base + e.length <= m[j].base /\ m[j].base \in Nat
      BY <1>1, <1>5, <3>1, MapFacts
    <3>3. (e.base + e.length) \div PageSize <= m[j].base \div PageSize
      <4>1. e.base + e.length \in Nat
        BY <1>5, SMTT(60)
      <4> QED
        BY <1>5, <3>2, <4>1, DivMonotone, Zenon
    <3>4. End(k[i]) = (e.base + e.length) \div PageSize
      BY <1>6, <1>8, <2>1, Zenon
    <3> QED
      BY <3>3, <3>4, Zenon
  <2>2. CASE i # n + 1
    <3>1. i \in 1 .. n /\ j \in c .. Len(m) /\ k[i] = l[i]
      BY <1>4, <1>5, <1>8, <2>2, SMTT(60)
    <3>2. \A h \in 1 .. n, g \in c .. Len(m) :
            End(l[h]) <= m[g].base \div PageSize
      BY <1>2 DEF LinkedSoFar
    <3>3. End(l[i]) <= m[j].base \div PageSize
      BY <3>1, <3>2, Zenon
    <3> QED
      BY <3>1, <3>3
  <2> QED
    BY <2>1, <2>2
<1>12. ASSUME NEW p \in Nat
       PROVE  Covered(k, p) <=> UsableAt(m, (c + 1) - 1, p)
  <2>1. Covered(k, p) <=> Covered(l, p) \/ HasPage(r, p)
    <3>1. \A i : i \in 2 .. n + 1 <=> i \in 2 .. n \/ i = n + 1
      BY <1>4, SMTT(60)
    <3>2. \A i \in 2 .. n : k[i] = l[i]
      BY <1>4, <1>8, SMTT(60)
    <3> QED
      BY <1>2, <1>8, <3>1, <3>2 DEF Covered
  <2>2. UsableAt(m, (c + 1) - 1, p)
        <=> UsableAt(m, c - 1, p) \/ (p # 0 /\ p \in WholePages(e))
    <3>1. \A j : j \in 1 .. (c + 1) - 1 <=> j \in 1 .. c - 1 \/ j = c
      OBVIOUS
    <3> QED
      BY <1>1, <3>1 DEF UsableAt
  <2>3. Covered(l, p) <=> UsableAt(m, c - 1, p)
    BY DEF LinkedSoFar
  <2> QED
    BY <1>6, <2>1, <2>2, <2>3
<1> QED
  BY <1>1, <1>3, <1>10, <1>11, <1>12 DEF LinkedSoFar

\* Each case of setUsed's loop does to the list what UseResult says.
LEMMA CaseFacts ==
  ASSUME Linked(bootList), position \in 2 .. Len(bootList),
         NEW f \in Nat, NEW t \in Nat, f < t, f = a1, t = a2,
         \A i \in 2 .. position - 1 : Outside(bootList[i], f, t),
         Case1 \/ Case2 \/ Case3 \/ Case4 \/ Case5
  PROVE  UseResult(bootList, position, bootList', position', f, t)
<1>1. PICK l, c : l = bootList /\ c = position
  OBVIOUS
<1>2. PICK r : r = l[c]
  OBVIOUS
<1>3. /\ Linked(l) /\ c \in 2 .. Len(l) /\ Len(l) \in Nat
      /\ \A i \in 2 .. c - 1 : Outside(l[i], f, t)
      /\ r \in Region /\ r.start \in Nat /\ r.count \in Nat /\ End(r) \in Nat
      /\ End(r) = r.start + r.count /\ r.start > 0 /\ r.count > 0
  <2>1. Linked(l) /\ c \in 2 .. Len(l) /\ \A i \in 2 .. c - 1 : Outside(l[i], f, t)
    BY <1>1
  <2>2. Len(l) \in Nat /\ c \in 1 .. Len(l) /\ r.start > 0 /\ r.count > 0
    BY <1>2, <2>1, LinkedFacts DEF Linked
  <2> QED
    BY <1>2, <2>1, <2>2, LinkedFacts
<1>4. /\ b1 = r.start /\ b2 = End(r)
      /\ Apart <=> Outside(r, f, t)
  <2>1. b1 = r.start /\ b2 = End(r)
    BY <1>1, <1>2 DEF b1, b2, End
  <2>2. Apart <=> (t <= r.start \/ End(r) <= f)
    BY <2>1 DEF Apart
  <2> QED
    BY <2>1, <2>2 DEF Outside
<1>5. CASE Case1
  <2>1. bootList' = l /\ position' = c + 1 /\ Outside(r, f, t)
    BY <1>1, <1>4, <1>5 DEF Case1
  <2>2. UseResult(l, c, l, c + 1, f, t)
    <3>1. Outside(l[c], f, t)
      BY <1>2, <2>1
    <3> QED
      BY <1>3, <3>1, UseNothing, Zenon
  <2> QED
    BY <1>1, <2>1, <2>2
<1>6. CASE Case2
  <2>1. bootList' = RemoveAt(l, c) /\ position' = c /\ f <= r.start /\ End(r) <= t
    BY <1>1, <1>4, <1>6 DEF Case2
  <2>2. UseResult(l, c, RemoveAt(l, c), c, f, t)
    <3>1. f <= l[c].start /\ End(l[c]) <= t
      BY <1>2, <2>1
    <3> QED
      BY <1>3, <3>1, UseAll, Zenon
  <2> QED
    BY <1>1, <2>1, <2>2
<1>7. CASE Case3
  <2>1. PICK w : w = [start |-> t, count |-> End(r) - t]
    OBVIOUS
  <2>2. /\ bootList' = ReplaceAt(l, c, w) /\ position' = c + 1
        /\ f <= r.start /\ End(r) > t /\ ~Outside(r, f, t)
    BY <1>1, <1>4, <1>7, <2>1 DEF Case3
  <2>3. End(r) - t \in Nat /\ End(r) - t > 0 /\ r.start < t
    BY <1>3, <2>2, SMTT(60) DEF Outside
  <2>4. w \in Region /\ w.start = t /\ w.count > 0 /\ End(w) = End(r)
    <3>1. w \in Region /\ w.start = t /\ w.count = End(r) - t /\ End(w) = t + (End(r) - t)
      BY <2>1, <2>3, MakeRegion
    <3> QED
      BY <1>3, <2>3, <3>1
  <2>5. Outside(w, f, t) /\ r.start <= w.start /\ End(w) <= End(r)
    BY <1>3, <2>3, <2>4, SMTT(60) DEF Outside
  <2>6. \A p \in Nat : p < f \/ t <= p => (HasPage(w, p) <=> HasPage(r, p))
    BY <1>3, <2>2, <2>3, <2>4, SMTT(60) DEF HasPage
  <2>7. UseResult(l, c, ReplaceAt(l, c, w), c + 1, f, t)
    <3>1. /\ l[c].start <= w.start /\ End(w) <= End(l[c])
          /\ \A p \in Nat : p < f \/ t <= p => (HasPage(w, p) <=> HasPage(l[c], p))
      BY <1>2, <2>5, <2>6
    <3> QED
      BY <1>3, <2>4, <2>5, <3>1, UsePart, Zenon
  <2> QED
    BY <1>1, <2>2, <2>7
<1>8. CASE Case4
  <2>1. PICK w : w = [start |-> r.start, count |-> f - r.start]
    OBVIOUS
  <2>2. /\ bootList' = ReplaceAt(l, c, w) /\ position' = c + 1
        /\ f > r.start /\ End(r) <= t /\ ~Outside(r, f, t)
    BY <1>1, <1>4, <1>8, <2>1 DEF Case4
  <2>3. f - r.start \in Nat /\ f - r.start > 0 /\ f < End(r)
    BY <1>3, <2>2, SMTT(60) DEF Outside
  <2>4. w \in Region /\ w.start = r.start /\ w.count > 0 /\ End(w) = f
    <3>1. /\ w \in Region /\ w.start = r.start /\ w.count = f - r.start
          /\ End(w) = r.start + (f - r.start)
      BY <1>3, <2>1, <2>3, MakeRegion
    <3> QED
      BY <1>3, <2>3, <3>1, SMTT(60)
  <2>5. Outside(w, f, t) /\ r.start <= w.start /\ End(w) <= End(r)
    BY <1>3, <2>3, <2>4, SMTT(60) DEF Outside
  <2>6. \A p \in Nat : p < f \/ t <= p => (HasPage(w, p) <=> HasPage(r, p))
    BY <1>3, <2>2, <2>3, <2>4, SMTT(60) DEF HasPage
  <2>7. UseResult(l, c, ReplaceAt(l, c, w), c + 1, f, t)
    <3>1. /\ l[c].start <= w.start /\ End(w) <= End(l[c])
          /\ \A p \in Nat : p < f \/ t <= p => (HasPage(w, p) <=> HasPage(l[c], p))
      BY <1>2, <2>5, <2>6
    <3> QED
      BY <1>3, <2>4, <2>5, <3>1, UsePart, Zenon
  <2> QED
    BY <1>1, <2>2, <2>7
<1>9. CASE Case5
  <2>1. PICK a, b : /\ a = [start |-> r.start, count |-> f - r.start]
                    /\ b = [start |-> t, count |-> End(r) - t]
    OBVIOUS
  <2>2. /\ bootList' = InsertAt(ReplaceAt(l, c, a), c + 1, b) /\ position' = c + 1
        /\ r.start < f /\ t < End(r)
    BY <1>1, <1>3, <1>4, <1>9, <2>1 DEF Case5
  <2>3. f - r.start \in Nat /\ f - r.start > 0 /\ End(r) - t \in Nat /\ End(r) - t > 0
    BY <1>3, <2>2, SMTT(60)
  <2>4. a \in Region /\ a.start = r.start /\ a.count > 0 /\ End(a) = f
    <3>1. /\ a \in Region /\ a.start = r.start /\ a.count = f - r.start
          /\ End(a) = r.start + (f - r.start)
      BY <1>3, <2>1, <2>3, MakeRegion
    <3> QED
      BY <1>3, <2>3, <3>1, SMTT(60)
  <2>5. b \in Region /\ b.start = t /\ b.count > 0 /\ End(b) = End(r)
    <3>1. b \in Region /\ b.start = t /\ b.count = End(r) - t /\ End(b) = t + (End(r) - t)
      BY <2>1, <2>3, MakeRegion
    <3> QED
      BY <1>3, <2>3, <3>1
  <2>6. UseResult(l, c, InsertAt(ReplaceAt(l, c, a), c + 1, b), c + 1, f, t)
    BY <1>2, <1>3, <2>2, <2>4, <2>5, UseSplit
  <2> QED
    BY <1>1, <2>2, <2>6
<1> QED
  BY <1>5, <1>6, <1>7, <1>8, <1>9
\* A page is kept back for an extent if it is between the end points.
LEMMA SpareFacts ==
  ASSUME NEW x \in Extent, NEW p \in Nat
  PROVE  p \notin SparePages(x) <=> p < FirstUsed(x) \/ AfterUsed(x) <= p
<1>1. PICK f, t : f = FirstUsed(x) /\ t = AfterUsed(x)
  OBVIOUS
<1>2. f \in Nat /\ t \in Nat
  BY <1>1, ExtentFacts
<1>3. SparePages(x) = f .. t - 1
  BY <1>1 DEF SparePages
<1> QED
  BY <1>1, <1>2, <1>3

\* setUsed starts with the pages of the usable entries.
LEMMA UseStarts ==
  ASSUME NEW l, NEW m, Len(m) \in Nat, NEW x, LinkedSoFar(l, m, Len(m) + 1)
  PROVE  UsedSoFar(l, 2, x, FreeAtFirst(m))
<1>1. Linked(l) /\ 2 \in 2 .. Len(l) + 1
  BY LinkedFacts DEF LinkedSoFar
<1>2. (Len(m) + 1) - 1 = Len(m)
  OBVIOUS
<1>3. \A p \in Nat : Covered(l, p) <=> p \in FreeAtFirst(m)
  BY <1>2 DEF LinkedSoFar, FreeAtFirst
<1> QED
  BY <1>1, <1>3 DEF UsedSoFar

\* An iteration of setUsed keeps what holds so far.
LEMMA UseKeeps ==
  ASSUME NEW l, NEW c, NEW x \in Extent, NEW free,
         UsedSoFar(l, c, x, free), NEW m, NEW d,
         UseResult(l, c, m, d, FirstUsed(x), AfterUsed(x))
  PROVE  UsedSoFar(m, d, x, free)
<1>1. Linked(m) /\ d \in 2 .. Len(m) + 1
  BY DEF UseResult
<1>2. \A i \in 2 .. d - 1 : Clear(m[i], x)
  BY DEF UseResult, Clear
<1>3. \A p \in Nat \ SparePages(x) : Covered(m, p) <=> p \in free
  <2> SUFFICES ASSUME NEW p \in Nat, p \notin SparePages(x)
               PROVE  Covered(m, p) <=> p \in free
    OBVIOUS
  <2>1. Covered(m, p) <=> Covered(l, p)
    BY SpareFacts DEF UseResult
  <2> QED
    BY <2>1 DEF UsedSoFar
<1> QED
  BY <1>1, <1>2, <1>3 DEF UsedSoFar

\* What is clear of an extent stays clear of it, as regions only shrink.
LEMMA UseKeepsClear ==
  ASSUME NEW l, Linked(l), NEW c, NEW m, NEW d, NEW f, NEW t,
         UseResult(l, c, m, d, f, t), NEW y \in Extent, AllClear(l, y)
  PROVE  AllClear(m, y)
<1>1. PICK g, u : g = FirstUsed(y) /\ u = AfterUsed(y)
  OBVIOUS
<1>2. g \in Nat /\ u \in Nat
  BY <1>1, ExtentFacts
<1> SUFFICES ASSUME NEW i \in 2 .. Len(m) PROVE Outside(m[i], g, u)
  BY <1>1 DEF AllClear, Clear
<1>3. PICK j \in 2 .. Len(l) : l[j].start <= m[i].start /\ End(m[i]) <= End(l[j])
  BY DEF UseResult
<1>4. Outside(l[j], g, u)
  BY <1>1 DEF AllClear, Clear
<1>5. /\ l[j].start \in Nat /\ End(l[j]) \in Nat
      /\ m[i].start \in Nat /\ End(m[i]) \in Nat
  <2>1. Linked(m) /\ i \in 1 .. Len(m) /\ j \in 1 .. Len(l)
    BY LinkedFacts DEF UseResult
  <2> QED
    BY <2>1, LinkedFacts
<1> QED
  BY <1>2, <1>3, <1>4, <1>5, SMTT(60) DEF Outside

\* When setUsed is through, the list holds what is free without the extent.
LEMMA UseEnds ==
  ASSUME NEW l, NEW x \in Extent, NEW free, NEW c,
         UsedSoFar(l, c, x, free), c > Len(l)
  PROVE  /\ Linked(l) /\ AllClear(l, x)
         /\ \A p \in Nat : Covered(l, p) <=> p \in free \ SparePages(x)
<1>1. Linked(l) /\ Len(l) \in Nat /\ c = Len(l) + 1
  <2>1. Linked(l) /\ c \in 2 .. Len(l) + 1
    BY DEF UsedSoFar
  <2>2. Len(l) \in Nat
    BY <2>1, LinkedFacts
  <2> QED
    BY <2>1, <2>2
<1>2. AllClear(l, x)
  BY <1>1 DEF UsedSoFar, AllClear
<1>3. ASSUME NEW p \in SparePages(x), p \in Nat PROVE ~Covered(l, p)
  <2>1. PICK f, t : f = FirstUsed(x) /\ t = AfterUsed(x)
    OBVIOUS
  <2>2. f \in Nat /\ t \in Nat /\ ~(p < f \/ t <= p)
    BY <1>3, <2>1, ExtentFacts, SpareFacts
  <2> SUFFICES ASSUME NEW i \in 2 .. Len(l), HasPage(l[i], p) PROVE FALSE
    BY DEF Covered
  <2>3. End(l[i]) <= f \/ t <= l[i].start
    BY <1>2, <2>1 DEF AllClear, Clear, Outside
  <2>4. End(l[i]) \in Nat /\ l[i].start \in Nat
    BY <1>1, LinkedFacts
  <2> QED
    BY <1>3, <2>2, <2>3, <2>4, SMTT(60) DEF HasPage
<1>4. \A p \in Nat : Covered(l, p) <=> p \in free \ SparePages(x)
  BY <1>3 DEF UsedSoFar
<1> QED
  BY <1>1, <1>2, <1>4

-----------------------------------------------------------------------------
\* A callback of the first reading.
LEMMA getStaticDataKeeps ==
  ASSUME BootInv, getStaticData
  PROVE  BootInv'
<1>1. /\ phase = "getStaticData" /\ position \in Nat /\ position >= 1
      /\ position <= Len(map) /\ position' = position + 1
      /\ unusableRegionCount \in 0 .. Len(map) /\ unusableRegionCount < position
      /\ totalMemorySize \in Nat /\ maxAddress \in Nat
  BY DEF BootInv, BootTypeOK, getStaticData, Reading, MapPasses
<1>2. Len(map) \in Nat /\ map \in Maps
  BY MapFacts DEF BootInv
<1>3. PICK e : e = map[position]
  OBVIOUS
<1>4. e.base \in Nat /\ e.length \in Nat
  <2>1. position \in 1 .. Len(map)
    BY <1>1, <1>2
  <2> QED
    BY <1>2, <1>3, <2>1, MapFacts
<1>5. /\ totalMemorySize' \in Nat /\ maxAddress' \in Nat
      /\ unusableRegionCount' \in 0 .. Len(map)
      /\ unusableRegionCount' < position'
  <2>1. CASE /\ totalMemorySize' = totalMemorySize + e.length
             /\ maxAddress' = Max({maxAddress, e.base + e.length})
             /\ UNCHANGED unusableRegionCount
    <3>1. PICK a, b, n : a = maxAddress /\ b = e.base + e.length /\ n = a + b
      OBVIOUS
    <3>2. a \in Nat /\ b \in Nat
      BY <1>1, <1>4, <3>1, SMTT(60)
    <3>3. Max({a, b}) \in {a, b}
      <4>1. PICK z \in {a, b} : \A y \in {a, b} : z >= y
        BY <3>2
      <4> QED
        BY <4>1 DEF Max
    <3>4. maxAddress' \in Nat
      BY <2>1, <3>1, <3>2, <3>3
    <3> QED
      BY <1>1, <1>4, <2>1, <3>4, SMTT(60)
  <2>2. CASE /\ unusableRegionCount' = unusableRegionCount + 1
             /\ UNCHANGED <<totalMemorySize, maxAddress>>
    BY <1>1, <1>2, <2>2
  <2> QED
    BY <1>3, <2>1, <2>2 DEF getStaticData, entry
<1>6. /\ phase' = phase /\ map' = map /\ kernel' = kernel
      /\ trampoline' = trampoline /\ bootList' = bootList /\ unusable' = unusable
  BY DEF getStaticData, inputs
<1>7. position' \in 0 .. 1 + Len(map) /\ position' >= 1
  BY <1>1, <1>2
<1>8. BootTypeOK'
  BY <1>1, <1>5, <1>6, <1>7 DEF BootInv, BootTypeOK, MapPasses
<1> QED
  BY <1>1, <1>5, <1>6, <1>7, <1>8 DEF BootInv, MapPasses

\* The static info page is laid out.
LEMMA initMemoryInfosKeeps ==
  ASSUME BootInv, initMemoryInfos
  PROVE  BootInv'
<1>1. /\ phase' = "unusablePass" /\ position' = 1
      /\ bootList' = <<StaticDescriptor>>
  BY DEF initMemoryInfos, StaticDescriptor
<1>2. /\ map' = map /\ kernel' = kernel /\ trampoline' = trampoline
      /\ unusable' = unusable /\ totalMemorySize' = totalMemorySize
      /\ maxAddress' = maxAddress /\ unusableRegionCount' = unusableRegionCount
  BY DEF initMemoryInfos, inputs, statics
<1>3. Len(map) \in Nat /\ map \in Maps
  BY MapFacts DEF BootInv
<1>4. bootList' \in Seq(Region)
  BY <1>1 DEF Region, StaticDescriptor
<1>5. BootTypeOK'
  BY <1>1, <1>2, <1>3, <1>4 DEF BootInv, BootTypeOK, MapPasses, Phases
<1> QED
  BY <1>1, <1>2, <1>5 DEF BootInv, MapPasses

\* A callback of the first pass.
LEMMA EnterUnusableKeeps ==
  ASSUME BootInv, EnterUnusable
  PROVE  BootInv'
<1>1. /\ phase = "unusablePass" /\ position \in Nat /\ position >= 1
      /\ position <= Len(map) /\ position' = position + 1
      /\ unusable \in Seq(Region)
  BY DEF BootInv, BootTypeOK, EnterUnusable, Reading, MapPasses
<1>2. /\ phase' = phase /\ map' = map /\ kernel' = kernel
      /\ trampoline' = trampoline /\ bootList' = bootList
      /\ totalMemorySize' = totalMemorySize
      /\ maxAddress' = maxAddress /\ unusableRegionCount' = unusableRegionCount
  BY DEF EnterUnusable, inputs, statics
<1>3. Len(map) \in Nat /\ map \in Maps
  BY MapFacts DEF BootInv
<1>4. unusable' \in Seq(Region)
  <2>1. position \in 1 .. Len(map) /\ PageSize \in Nat \ {0}
    BY <1>1, <1>3, MapFacts
  <2>2. map[position].base \in Nat /\ map[position].length \in Nat
    BY <1>3, <2>1, MapFacts
  <2>3. /\ map[position].base \div PageSize \in Nat
        /\ map[position].length \div PageSize \in Nat
    BY <2>1, <2>2, DivFacts
  <2>4. UnusableRegion(map[position]) \in Region
    BY <2>3, MakeRegion DEF UnusableRegion
  <2> QED
    BY <1>1, <2>4 DEF EnterUnusable, entry
<1>5. position' \in 0 .. 1 + Len(map) /\ position' >= 1
  BY <1>1, <1>3
<1>6. BootTypeOK'
  BY <1>1, <1>2, <1>4, <1>5 DEF BootInv, BootTypeOK, MapPasses
<1> QED
  BY <1>1, <1>2, <1>5, <1>6 DEF BootInv, MapPasses

\* Between the passes the list has its static descriptor only.
LEMMA SecondPassKeeps ==
  ASSUME BootInv, SecondPass
  PROVE  BootInv'
<1>1. /\ phase = "unusablePass" /\ phase' = "usablePass" /\ position' = 1
      /\ bootList = <<StaticDescriptor>>
  BY DEF BootInv, SecondPass, ReadAll
<1>2. /\ map' = map /\ kernel' = kernel /\ trampoline' = trampoline
      /\ bootList' = bootList /\ unusable' = unusable
      /\ totalMemorySize' = totalMemorySize
      /\ maxAddress' = maxAddress /\ unusableRegionCount' = unusableRegionCount
  BY DEF SecondPass, inputs, statics
<1>3. Len(map) \in Nat /\ map \in Maps
  BY MapFacts DEF BootInv
<1>4. LinkedSoFar(bootList', map', position')
  BY <1>1, <1>2, <1>3, LinkFirst
<1>5. BootTypeOK'
  BY <1>1, <1>2, <1>3 DEF BootInv, BootTypeOK, MapPasses, Phases
<1> QED
  BY <1>1, <1>2, <1>4, <1>5 DEF BootInv, MapPasses

\* A list that is linked has the type boot's list has.
LEMMA LinkedType ==
  ASSUME NEW l, Linked(l)
  PROVE  l \in Seq(Region) /\ Len(l) \in Nat
  BY LinkedFacts DEF Linked, Region

\* A callback of the second pass.
LEMMA LinkUsableKeeps ==
  ASSUME BootInv, LinkUsable
  PROVE  BootInv'
<1>1. /\ phase = "usablePass" /\ position \in Nat /\ position >= 1
      /\ position <= Len(map) /\ position' = position + 1
      /\ LinkedSoFar(bootList, map, position)
  BY DEF BootInv, BootTypeOK, LinkUsable, Reading, MapPasses
<1>2. /\ phase' = phase /\ map' = map /\ kernel' = kernel
      /\ trampoline' = trampoline /\ unusable' = unusable
      /\ totalMemorySize' = totalMemorySize
      /\ maxAddress' = maxAddress /\ unusableRegionCount' = unusableRegionCount
  BY DEF LinkUsable, inputs, statics
<1>3. Len(map) \in Nat /\ map \in Maps
  BY MapFacts DEF BootInv
<1>4. LinkedSoFar(bootList', map, position + 1)
  <2>1. PICK l, m, c : l = bootList /\ m = map /\ c = position
    OBVIOUS
  <2>2. /\ c \in Nat \ {0} /\ c <= Len(m) /\ m \in Maps /\ Len(m) \in Nat
        /\ LinkedSoFar(l, m, c)
    BY <1>1, <1>3, <2>1
  <2>3. CASE IsUsable(m[c])
    <3>1. bootList' = Append(l, UsableRegion(m[c]))
      BY <2>1, <2>3 DEF LinkUsable, entry
    <3>2. LinkedSoFar(Append(l, UsableRegion(m[c])), m, c + 1)
      BY <2>2, <2>3, LinkRegion
    <3> QED
      BY <2>1, <3>1, <3>2
  <2>4. CASE ~IsUsable(m[c])
    <3>1. bootList' = l
      BY <2>1, <2>4 DEF LinkUsable, entry
    <3>2. LinkedSoFar(l, m, c + 1)
      BY <2>2, <2>4, LinkNothing
    <3> QED
      BY <2>1, <3>1, <3>2
  <2> QED
    BY <2>3, <2>4
<1>5. bootList' \in Seq(Region)
  BY <1>4, LinkedType DEF LinkedSoFar
<1>6. position' \in 0 .. 1 + Len(map) /\ position' >= 1
  BY <1>1, <1>3
<1>7. BootTypeOK'
  BY <1>1, <1>2, <1>5, <1>6 DEF BootInv, BootTypeOK, MapPasses
<1> QED
  BY <1>1, <1>2, <1>4, <1>6, <1>7 DEF BootInv, MapPasses

\* setUsed is called for the kernel.
LEMMA initMemoryInfosDoneKeeps ==
  ASSUME BootInv, initMemoryInfosDone
  PROVE  BootInv'
<1>1. /\ phase = "usablePass" /\ phase' = "setUsedKernel" /\ position' = 2
      /\ position \in 0 .. 1 + Len(map) /\ position > Len(map)
      /\ LinkedSoFar(bootList, map, position)
  BY DEF BootInv, BootTypeOK, initMemoryInfosDone, ReadAll, MapPasses
<1>2. /\ map' = map /\ kernel' = kernel /\ trampoline' = trampoline
      /\ bootList' = bootList /\ unusable' = unusable
      /\ totalMemorySize' = totalMemorySize
      /\ maxAddress' = maxAddress /\ unusableRegionCount' = unusableRegionCount
  BY DEF initMemoryInfosDone, inputs, statics
<1>3. Len(map) \in Nat /\ map \in Maps
  BY MapFacts DEF BootInv
<1>4. position = Len(map) + 1
  BY <1>1, <1>3
<1>5. UsedSoFar(bootList, 2, kernel, FreeAtFirst(map))
  BY <1>1, <1>3, <1>4, UseStarts
<1>6. position' \in 0 .. 1 + Len(bootList)
  BY <1>1, LinkedFacts DEF LinkedSoFar
<1>7. BootTypeOK'
  BY <1>1, <1>2, <1>6 DEF BootInv, BootTypeOK, MapPasses, Phases
<1> QED
  BY <1>1, <1>2, <1>5, <1>7 DEF BootInv, MapPasses

\* An iteration of setUsed's loop.
LEMMA setUsedStepKeeps ==
  ASSUME BootInv, setUsedStep
  PROVE  BootInv'
<1>1. /\ map' = map /\ kernel' = kernel /\ trampoline' = trampoline
      /\ phase' = phase /\ unusable' = unusable
      /\ totalMemorySize' = totalMemorySize
      /\ maxAddress' = maxAddress /\ unusableRegionCount' = unusableRegionCount
  BY DEF setUsedStep, inputs, statics
<1>2. Case1 \/ Case2 \/ Case3 \/ Case4 \/ Case5
  BY DEF setUsedStep
<1>3. AtRegion
  BY <1>2 DEF Case1, Case2, Case3, Case4, Case5
<1>4. PICK k, y, m, l, c : /\ k = kernel /\ y = trampoline /\ m = map
                           /\ l = bootList /\ c = position
  OBVIOUS
<1>5. /\ k \in Extent /\ y \in Extent
      /\ m \in Maps /\ k \in Kernels /\ y \in Trampolines
  BY <1>4, BootAssumption DEF BootInv
<1>6. ASSUME NEW x, x = InUse, NEW free, UsedSoFar(l, c, x, free),
             x \in Extent
      PROVE  UseResult(l, c, bootList', position', FirstUsed(x), AfterUsed(x))
  <2>1. PICK f, t : f = FirstUsed(x) /\ t = AfterUsed(x)
    OBVIOUS
  <2>2. f \in Nat /\ t \in Nat /\ f < t /\ f = a1 /\ t = a2
    BY <1>6, <2>1, ExtentFacts DEF a1, a2
  <2>3. /\ Linked(bootList) /\ position \in 2 .. Len(bootList)
        /\ \A i \in 2 .. position - 1 : Outside(bootList[i], f, t)
    <3>1. Linked(l) /\ c \in 2 .. Len(l) + 1 /\ \A i \in 2 .. c - 1 : Clear(l[i], x)
      BY <1>6 DEF UsedSoFar
    <3>2. Len(l) \in Nat /\ c <= Len(l)
      BY <1>3, <1>4, <3>1, LinkedFacts DEF AtRegion
    <3>3. c \in 2 .. Len(l) /\ \A i \in 2 .. c - 1 : Outside(l[i], f, t)
      BY <2>1, <3>1, <3>2 DEF Clear
    <3> QED
      BY <1>4, <3>1, <3>3
  <2>4. UseResult(bootList, position, bootList', position', f, t)
    BY <1>2, <2>2, <2>3, CaseFacts
  <2> QED
    BY <1>4, <2>1, <2>4
<1>7. ASSUME NEW x, NEW free, UsedSoFar(bootList', position', x, free)
      PROVE  /\ bootList' \in Seq(Region)
             /\ position' \in 0 .. 1 + Len(bootList')
  <2>1. Linked(bootList') /\ position' \in 2 .. Len(bootList') + 1
    BY <1>7 DEF UsedSoFar
  <2> QED
    BY <2>1, LinkedType
<1>8. CASE phase = "setUsedKernel"
  <2>1. UsedSoFar(l, c, k, FreeAtFirst(m)) /\ k = InUse
    BY <1>4, <1>8 DEF BootInv, InUse
  <2>2. UseResult(l, c, bootList', position', FirstUsed(k), AfterUsed(k))
    BY <1>5, <1>6, <2>1
  <2>3. UsedSoFar(bootList', position', k, FreeAtFirst(m))
    BY <1>5, <2>1, <2>2, UseKeeps
  <2>4. UsedSoFar(bootList', position', kernel', FreeAtFirst(map'))
    BY <1>1, <1>4, <2>3
  <2>5. BootTypeOK'
    BY <1>1, <1>7, <1>8, <2>3 DEF BootInv, BootTypeOK, MapPasses
  <2> QED
    BY <1>1, <1>8, <2>4, <2>5 DEF BootInv, MapPasses
<1>9. CASE phase = "setUsedTrampoline"
  <2>1. /\ UsedSoFar(l, c, y, FreeAfter(m, k)) /\ y = InUse
        /\ AllClear(l, k)
    BY <1>4, <1>9 DEF BootInv, InUse
  <2>2. UseResult(l, c, bootList', position', FirstUsed(y), AfterUsed(y))
    BY <1>5, <1>6, <2>1
  <2>3. UsedSoFar(bootList', position', y, FreeAfter(m, k))
    BY <1>5, <2>1, <2>2, UseKeeps
  <2>4. AllClear(bootList', k)
    <3>1. Linked(l)
      BY <2>1 DEF UsedSoFar
    <3> QED
      BY <1>5, <2>1, <2>2, <3>1, UseKeepsClear
  <2>5. /\ UsedSoFar(bootList', position', trampoline', FreeAfter(map', kernel'))
        /\ AllClear(bootList', kernel')
    BY <1>1, <1>4, <2>3, <2>4
  <2>6. BootTypeOK'
    BY <1>1, <1>7, <1>9, <2>3 DEF BootInv, BootTypeOK, MapPasses
  <2> QED
    BY <1>1, <1>9, <2>5, <2>6 DEF BootInv, MapPasses
<1> QED
  BY <1>3, <1>8, <1>9 DEF AtRegion

\* setUsed is through with one of its extents.
LEMMA setUsedDoneKeeps ==
  ASSUME BootInv, setUsedDone
  PROVE  BootInv'
<1>1. /\ map' = map /\ kernel' = kernel /\ trampoline' = trampoline
      /\ bootList' = bootList /\ unusable' = unusable
      /\ totalMemorySize' = totalMemorySize
      /\ maxAddress' = maxAddress /\ unusableRegionCount' = unusableRegionCount
      /\ position > Len(bootList)
  BY DEF setUsedDone, inputs, statics
<1>2. PICK k, y, m, l, c : /\ k = kernel /\ y = trampoline /\ m = map
                           /\ l = bootList /\ c = position
  OBVIOUS
<1>3. k \in Extent /\ y \in Extent
  BY <1>2, BootAssumption DEF BootInv
<1>4. CASE phase = "setUsedKernel" /\ phase' = "setUsedTrampoline" /\ position' = 2
  <2>1. UsedSoFar(l, c, k, FreeAtFirst(m)) /\ c > Len(l)
    BY <1>1, <1>2, <1>4 DEF BootInv
  <2>2. /\ Linked(l) /\ AllClear(l, k)
        /\ \A p \in Nat : Covered(l, p) <=> p \in FreeAfter(m, k)
    BY <1>3, <2>1, UseEnds DEF FreeAfter
  <2>3. UsedSoFar(l, 2, y, FreeAfter(m, k)) /\ 2 \in 0 .. 1 + Len(l)
    <3>1. 2 \in 2 .. Len(l) + 1 /\ 2 \in 0 .. 1 + Len(l)
      BY <2>2, LinkedFacts
    <3> QED
      BY <2>2, <3>1 DEF UsedSoFar
  <2>4. /\ UsedSoFar(bootList', position', trampoline', FreeAfter(map', kernel'))
        /\ AllClear(bootList', kernel')
    BY <1>1, <1>2, <1>4, <2>2, <2>3
  <2>5. BootTypeOK'
    BY <1>1, <1>2, <1>4, <2>3 DEF BootInv, BootTypeOK, MapPasses, Phases
  <2> QED
    BY <1>1, <1>4, <2>4, <2>5 DEF BootInv, MapPasses
<1>5. CASE phase = "setUsedTrampoline" /\ phase' = "done" /\ position' = 0
  <2>1. UsedSoFar(l, c, y, FreeAfter(m, k)) /\ AllClear(l, k) /\ c > Len(l)
    BY <1>1, <1>2, <1>5 DEF BootInv
  <2>2. /\ Linked(l) /\ AllClear(l, y)
        /\ \A p \in Nat : Covered(l, p) <=> p \in FreeAfter(m, k) \ SparePages(y)
    BY <1>3, <2>1, UseEnds
  <2>3. Finished(l, m, k, y)
    BY <2>1, <2>2 DEF Finished
  <2>4. Finished(bootList', map', kernel', trampoline')
    BY <1>1, <1>2, <2>3
  <2>5. 0 \in 0 .. 1 + Len(l)
    BY <2>2, LinkedFacts
  <2>6. BootTypeOK'
    BY <1>1, <1>2, <1>5, <2>5 DEF BootInv, BootTypeOK, MapPasses, Phases
  <2> QED
    BY <1>1, <1>5, <2>4, <2>6 DEF BootInv, MapPasses
<1> QED
  BY <1>4, <1>5 DEF setUsedDone

\* The kernel stops when the table of unusable regions does not fit.
LEMMA TooManyUnusableKeeps ==
  ASSUME BootInv, TooManyUnusable
  PROVE  BootInv'
<1>1. phase = "getStaticData" /\ phase' = "stopped"
  BY DEF TooManyUnusable, ReadAll
<1>2. /\ map' = map /\ kernel' = kernel /\ trampoline' = trampoline
      /\ bootList' = bootList /\ unusable' = unusable /\ position' = position
      /\ totalMemorySize' = totalMemorySize
      /\ maxAddress' = maxAddress /\ unusableRegionCount' = unusableRegionCount
  BY DEF TooManyUnusable, inputs, statics
<1>3. BootTypeOK'
  BY <1>1, <1>2 DEF BootInv, BootTypeOK, MapPasses, Phases
<1> QED
  BY <1>1, <1>2, <1>3 DEF BootInv, MapPasses

\* The invariant holds of the list and the phase throughout boot.
LEMMA BootInvariant == BootSpec => []BootInv
<1>1. BootInit => BootInv
  <2> SUFFICES ASSUME BootInit PROVE BootInv
    OBVIOUS
  <2>1. /\ map \in Maps /\ kernel \in Kernels /\ trampoline \in Trampolines
        /\ totalMemorySize = 0 /\ maxAddress = 0 /\ unusableRegionCount = 0
        /\ unusable = <<>> /\ bootList = <<>>
        /\ phase = "getStaticData" /\ position = 1
    BY DEF BootInit
  <2>2. Len(map) \in Nat
    BY <2>1, MapFacts
  <2>3. <<>> \in Seq(Region)
    OBVIOUS
  <2>4. BootTypeOK
    BY <2>1, <2>2, <2>3 DEF BootTypeOK, MapPasses, Phases
  <2> QED
    BY <2>1, <2>4 DEF BootInv, MapPasses
<1>2. BootInv /\ [BootNext]_bootVars => BootInv'
  <2> SUFFICES ASSUME BootInv, [BootNext]_bootVars PROVE BootInv'
    OBVIOUS
  <2>1. CASE getStaticData
    BY <2>1, getStaticDataKeeps
  <2>2. CASE TooManyUnusable
    BY <2>2, TooManyUnusableKeeps
  <2>3. CASE initMemoryInfos
    BY <2>3, initMemoryInfosKeeps
  <2>4. CASE EnterUnusable
    BY <2>4, EnterUnusableKeeps
  <2>5. CASE SecondPass
    BY <2>5, SecondPassKeeps
  <2>6. CASE LinkUsable
    BY <2>6, LinkUsableKeeps
  <2>7. CASE initMemoryInfosDone
    BY <2>7, initMemoryInfosDoneKeeps
  <2>8. CASE setUsedStep
    BY <2>8, setUsedStepKeeps
  <2>9. CASE setUsedDone
    BY <2>9, setUsedDoneKeeps
  <2>10. CASE Returned \/ UNCHANGED bootVars
    <3>1. UNCHANGED bootVars
      BY <2>10 DEF Returned
    <3> QED
      BY <3>1 DEF BootInv, bootVars, BootTypeOK
  <2> QED
    BY <2>1, <2>2, <2>3, <2>4, <2>5, <2>6, <2>7, <2>8, <2>9, <2>10 DEF BootNext
<1> QED
  BY <1>1, <1>2, PTL DEF BootSpec

\* For every memory map, kernel and trampoline the finished list holds exactly
\* the usable whole pages without the null page and the pages kept back.
THEOREM BootListHolds == BootSpec => []BootListExact
<1>1. BootInv => BootListExact
  <2> SUFFICES ASSUME BootInv, phase = "done"
               PROVE  PagesLinked =
                        (UNION { WholePages(e) : e \in { x \in Range(map) : IsUsable(x) } })
                          \ ({0} \cup SparePages(kernel) \cup SparePages(trampoline))
    BY DEF BootListExact, BootInv
  <2>1. PICK l, m : l = bootList /\ m = map
    OBVIOUS
  <2>2. /\ Linked(l) /\ m \in Maps /\ l \in Seq(Region)
        /\ \A p \in Nat : Covered(l, p) <=> p \in FreeAfter(m, kernel) \ SparePages(trampoline)
    BY <2>1 DEF BootInv, Finished, Linked
  <2>3. \A p : p \in PagesLinked <=> p \in Nat /\ Covered(l, p)
    <3>1. \A i \in 2 .. Len(l) : l[i].start \in Nat /\ End(l[i]) \in Nat
      BY <2>2, LinkedFacts
    <3>2. ASSUME NEW i \in 2 .. Len(l), NEW p
          PROVE  p \in Pages(l[i]) <=> p \in Nat /\ HasPage(l[i], p)
      BY <3>1 DEF HasPage, Pages
    <3>3. \A p : p \in PagesLinked <=> \E i \in 2 .. Len(l) : p \in Pages(l[i])
      BY <2>1 DEF PagesLinked
    <3> QED
      BY <3>2, <3>3 DEF Covered
  <2>4. \A p : p \in UNION { WholePages(e) : e \in { x \in Range(map) : IsUsable(x) } }
               <=> \E j \in 1 .. Len(m) : IsUsable(m[j]) /\ p \in WholePages(m[j])
    <3>1. Range(map) = { m[j] : j \in 1 .. Len(m) }
      <4>1. m \in Seq(Entry)
        BY <2>2, MapFacts
      <4>2. DOMAIN m = 1 .. Len(m)
        BY <4>1
      <4> QED
        BY <2>1, <4>2 DEF Range
    <3> QED
      BY <3>1
  <2>5. ASSUME NEW j \in 1 .. Len(m), IsUsable(m[j]), NEW p \in WholePages(m[j])
        PROVE  p \in Nat
    <3>1. m[j] \in Entry /\ HasPages(m[j]) /\ PageSize \in Nat \ {0}
          /\ m[j].base \in Nat /\ m[j].length \in Nat
      BY <2>2, <2>5, MapFacts
    <3>2. m[j].base + PageSize - 1 \in Nat /\ m[j].base + m[j].length \in Nat
      BY <3>1, SMTT(60)
    <3>3. /\ (m[j].base + PageSize - 1) \div PageSize \in Nat
          /\ (m[j].base + m[j].length) \div PageSize \in Nat
      BY <3>1, <3>2, DivFacts, Zenon
    <3> QED
      BY <3>3 DEF WholePages
  <2>6. \A p : p \in PagesLinked
               <=> /\ \E j \in 1 .. Len(m) : IsUsable(m[j]) /\ p \in WholePages(m[j])
                   /\ p # 0 /\ p \notin SparePages(kernel)
                   /\ p \notin SparePages(trampoline)
    BY <2>2, <2>3, <2>5 DEF FreeAfter, FreeAtFirst, UsableAt
  <2>7. PICK a, b, u : /\ a = SparePages(kernel) /\ b = SparePages(trampoline)
                       /\ u = UNION { WholePages(e) : e \in { z \in Range(map) : IsUsable(z) } }
    OBVIOUS
  <2>8. \A p : p \in PagesLinked <=> p \in u \ ({0} \cup a \cup b)
    <3>1. \A p : p \in u <=> \E j \in 1 .. Len(m) :
                                IsUsable(m[j]) /\ p \in WholePages(m[j])
      BY <2>4, <2>7, Zenon
    <3>2. \A p : p \in PagesLinked <=> p \in u /\ p # 0 /\ p \notin a /\ p \notin b
      BY <2>6, <2>7, <3>1, Zenon
    <3> QED
      BY <3>2
  <2>9. PagesLinked = u \ ({0} \cup a \cup b)
    BY <2>8
  <2> QED
    BY <2>7, <2>9
<1> QED
  BY <1>1, BootInvariant, PTL

\* For every memory map, kernel and trampoline the finished list meets what the
\* allocator assumes of its initial list.
THEOREM BootHandsOver == BootSpec => []BootMeetsAllocator
<1>1. BootInv => BootMeetsAllocator
  <2> SUFFICES ASSUME BootInv, phase = "done" PROVE BootMeetsAllocator
    BY DEF BootMeetsAllocator
  <2>1. PICK l, x, y : l = bootList /\ x = kernel /\ y = trampoline
    OBVIOUS
  <2>2. /\ Linked(l) /\ AllClear(l, x) /\ AllClear(l, y)
        /\ x \in Extent /\ y \in Extent
    BY <2>1, BootAssumption DEF BootInv, Finished
  <2>3. PICK kept : kept = SparePages(x) \cup SparePages(y)
    OBVIOUS
  <2>4. l[1] = StaticDescriptor /\ InOrder(l)
    BY <2>2 DEF Linked
  <2>5. ASSUME NEW z \in Extent, AllClear(l, z), NEW i \in 2 .. Len(l)
        PROVE  ({l[i].start} \cup Pages(l[i])) \cap SparePages(z) = {}
    <3>1. PICK f, t : f = FirstUsed(z) /\ t = AfterUsed(z)
      OBVIOUS
    <3>2. f \in Nat /\ t \in Nat /\ SparePages(z) = f .. t - 1
      BY <3>1, ExtentFacts DEF SparePages
    <3>3. End(l[i]) <= f \/ t <= l[i].start
      BY <2>5, <3>1 DEF AllClear, Clear, Outside
    <3>4. /\ l[i].start \in Nat /\ l[i].count \in Nat /\ l[i].count > 0
          /\ End(l[i]) = l[i].start + l[i].count
      BY <2>2, LinkedFacts DEF Linked
    <3>5. PICK s, w : s = l[i].start /\ w = End(l[i])
      OBVIOUS
    <3>6. s \in Nat /\ w \in Nat /\ s < w /\ (w <= f \/ t <= s)
      BY <3>3, <3>4, <3>5
    <3>7. ({s} \cup (s .. w - 1)) \cap (f .. t - 1) = {}
      BY <3>2, <3>6
    <3> QED
      BY <3>2, <3>5, <3>7 DEF Pages
  <2>6. \A i \in 2 .. Len(l) :
          ({l[i].start} \cup Pages(l[i])) \cap kept = {}
    BY <2>2, <2>3, <2>5
  <2>7. TouchedPages(x) \cup TouchedPages(y) \subseteq kept
    BY <2>2, <2>3, ExtentFacts
  <2>8. ASSUME NEW z \in Extent, NEW p \in SparePages(z)
        PROVE  p - 1 \in SparePages(z) \/ p + 1 \in SparePages(z)
    <3>1. PICK f, t : f = FirstUsed(z) /\ t = AfterUsed(z)
      OBVIOUS
    <3>2. f \in Nat /\ t \in Nat /\ f + 2 <= t /\ SparePages(z) = f .. t - 1
      BY <3>1, ExtentFacts DEF SparePages
    <3> QED
      BY <3>2
  <2>9. \A p \in kept : p - 1 \in kept \/ p + 1 \in kept
    BY <2>2, <2>3, <2>8
  <2> QED
    BY <2>1, <2>3, <2>4, <2>6, <2>7, <2>9 DEF BootMeetsAllocator
<1> QED
  BY <1>1, BootInvariant, PTL
=============================================================================
