---------------------------- MODULE StorageProofs ----------------------------
(***************************************************************************)
(* Proofs about src/src/Storage.  The registry of filesystems: which       *)
(* filesystem a path denotes after any disks have been added, and that one *)
(* disk's filesystems are all reached.  The ext4 reader: what an operation *)
(* on a path answers and writes into the caller's memory.  The SATA        *)
(* driver: what becomes of a command slot, for every number of slots and   *)
(* every layout of memory.                                                 *)
(***************************************************************************)
EXTENDS Filesystem, SATA, CommonFacts, FiniteSetTheorems

\* A valid filesystem is on a partition with an image.
Node ==
  {fs \in [disk : DOMAIN Disks, part : Entries, num : Entries, valid : BOOLEAN] :
     fs.valid => Image(fs) # <<>>}

(***************************************************************************)
(* The list has the first node in front and the others in reverse order.   *)
(***************************************************************************)
Mirrors(list, log) ==
  /\ Len(list) = Len(log)
  /\ Len(log) > 0 => list[1] = log[1]
  /\ \A k \in 2 .. Len(log) : list[k] = log[Len(log) + 2 - k]

LEMMA InsertMirrors ==
  ASSUME NEW S, NEW list \in Seq(S), NEW log \in Seq(S), NEW x \in S, Mirrors(list, log)
  PROVE  /\ Insert(list, x) \in Seq(S) /\ Mirrors(Insert(list, x), Append(log, x))
<1> DEFINE n == Len(log)
           u == Insert(list, x)
           w == Append(log, x)
<1>1. /\ n \in Nat /\ Len(list) = n
      /\ Len(w) = n + 1 /\ w[n + 1] = x /\ \A k \in 1 .. n : w[k] = log[k]
  BY DEF Mirrors
<1>2. n > 0 => list[1] = log[1]
  BY DEF Mirrors
<1>3. \A k \in 2 .. n : list[k] = log[n + 2 - k]
  BY DEF Mirrors
<1>4. CASE list = <<>>
  <2>1. u = <<x>> /\ n = 0
    BY <1>1, <1>4 DEF Insert
  <2>2. Len(u) = 1 /\ u[1] = x /\ u \in Seq(S)
    BY <2>1
  <2> HIDE DEF n, u, w
  <2>3. Mirrors(u, w)
    BY <1>1, <2>1, <2>2 DEF Mirrors
  <2> QED
    BY <2>2, <2>3 DEF u, w
<1>5. CASE list # <<>>
  <2> DEFINE a == <<Head(list), x>>
             b == Tail(list)
  <2>1. /\ n > 0 /\ Len(a) = 2 /\ a[1] = list[1] /\ a[2] = x /\ a \in Seq(S)
        /\ Len(b) = n - 1 /\ b \in Seq(S) /\ \A k \in 1 .. n - 1 : b[k] = list[k + 1]
    BY <1>1, <1>5
  <2>2. u = a \o b
    BY <1>5 DEF Insert
  <2> HIDE DEF a, b, u, w, n
  <2>3. /\ u \in Seq(S) /\ Len(u) = n + 1
        /\ u[1] = a[1] /\ u[2] = a[2] /\ \A k \in 3 .. n + 1 : u[k] = b[k - 2]
    <3>0. /\ u \in Seq(S) /\ Len(u) = Len(a) + Len(b)
          /\ \A k \in 1 .. Len(a) + Len(b) :
               u[k] = IF k <= Len(a) THEN a[k] ELSE b[k - Len(a)]
      BY <2>1, <2>2, ConcatProperties, Zenon
    <3>1. u \in Seq(S) /\ Len(u) = n + 1
      BY <1>1, <2>1, <3>0
    <3>2. u[1] = a[1] /\ u[2] = a[2]
      BY <1>1, <2>1, <3>0, SMTT(60)
    <3>3. \A k \in 3 .. n + 1 : u[k] = b[k - 2]
      BY <1>1, <2>1, <3>0, SMTT(60)
    <3> QED
      BY <3>1, <3>2, <3>3
  <2>4. Len(u) = Len(w) /\ (Len(w) > 0 => u[1] = w[1])
    <3>1. w[1] = log[1]
      BY <1>1, <2>1
    <3> QED
      BY <1>1, <1>2, <2>1, <2>3, <3>1
  <2>5. ASSUME NEW k \in 2 .. Len(w)
        PROVE  u[k] = w[Len(w) + 2 - k]
    <3>1. CASE k = 2
      <4>1. Len(w) + 2 - k = n + 1
        BY <1>1, <3>1
      <4> QED
        BY <1>1, <2>1, <2>3, <3>1, <4>1
    <3>2. CASE k # 2
      <4>1. /\ k \in 3 .. n + 1 /\ k - 2 \in 1 .. n - 1
            /\ k - 1 \in 2 .. n /\ (k - 2) + 1 = k - 1
        BY <1>1, <2>5, <3>2
      <4>2. u[k] = list[k - 1]
        BY <2>1, <2>3, <4>1
      <4>3. list[k - 1] = log[n + 2 - (k - 1)]
        BY <1>3, <4>1
      <4>4. n + 2 - (k - 1) \in 1 .. n /\ n + 2 - (k - 1) = Len(w) + 2 - k
        BY <1>1, <4>1
      <4> QED
        BY <1>1, <4>2, <4>3, <4>4
    <3> QED
      BY <3>1, <3>2
  <2> QED
    BY <2>3, <2>4, <2>5 DEF Mirrors, u, w
<1> QED
  BY <1>4, <1>5

\* The first filesystem of a history if it handles the path, else the last that does.
Latest(log, path) ==
  LET able == {k \in DOMAIN log : handles(log[k], path)}
  IN  IF able = {} THEN <<>>
      ELSE IF 1 \in able THEN log[1] ELSE log[Max(able)]

\* The first node of the list that handles a path is the first one added, or the
\* last one added that does.
LEMMA MirrorDenotes ==
  ASSUME NEW S, NEW list \in Seq(S), NEW log \in Seq(S), Mirrors(list, log), NEW path
  PROVE  getFilesystem(list, path) = Latest(log, path)
<1> DEFINE T == {k \in DOMAIN log : handles(log[k], path)}
           R == {k \in DOMAIN list : handles(list[k], path)}
           n == Len(log)
<1>1. /\ n \in Nat /\ DOMAIN log = 1 .. n /\ DOMAIN list = 1 .. n
  BY DEF Mirrors
<1>2. n > 0 => list[1] = log[1]
  BY DEF Mirrors
<1>3. \A k \in 2 .. n : list[k] = log[n + 2 - k]
  BY DEF Mirrors
<1>4. getFilesystem(list, path) = IF R = {} THEN <<>> ELSE list[Min(R)]
  BY Zenon DEF getFilesystem
<1>5. Latest(log, path) = IF T = {} THEN <<>> ELSE IF 1 \in T THEN log[1] ELSE log[Max(T)]
  BY Zenon DEF Latest
<1>6. R \subseteq 1 .. n /\ T \subseteq 1 .. n
  BY <1>1
<1>7. 1 \in R <=> 1 \in T
  BY <1>1, <1>2
<1>8. ASSUME NEW k \in 2 .. n
      PROVE  /\ n + 2 - k \in 2 .. n
             /\ k \in R <=> n + 2 - k \in T
             /\ k \in T <=> n + 2 - k \in R
  <2>1. n + 2 - k \in 2 .. n /\ n + 2 - (n + 2 - k) = k
    BY <1>1
  <2>2. list[k] = log[n + 2 - k] /\ list[n + 2 - k] = log[k]
    <3>1. list[n + 2 - k] = log[n + 2 - (n + 2 - k)]
      BY <1>3, <2>1
    <3> QED
      BY <1>3, <2>1, <3>1
  <2>3. /\ k \in DOMAIN list /\ k \in DOMAIN log
        /\ n + 2 - k \in DOMAIN list /\ n + 2 - k \in DOMAIN log
    BY <1>1, <2>1
  <2> QED
    BY <2>1, <2>2, <2>3
<1> HIDE DEF T, R
<1>9. R = {} <=> T = {}
  <2>1. \A k \in 1 .. n : k = 1 \/ k \in 2 .. n
    BY <1>1
  <2> QED
    BY <1>6, <1>7, <1>8, <2>1
<1>10. CASE T = {}
  BY <1>4, <1>9, <1>10, <1>5
<1>11. CASE 1 \in T
  <2>1. R # {} /\ R \subseteq Nat /\ 1 \in R
    BY <1>6, <1>7, <1>11
  <2>2. Min(R) \in R /\ Min(R) <= 1
    BY <2>1, MinFacts
  <2>3. Min(R) = 1 /\ n > 0
    <3>1. Min(R) \in 1 .. n
      BY <1>6, <2>2
    <3> QED
      BY <1>1, <2>2, <3>1
  <2> QED
    BY <1>2, <1>4, <1>11, <1>5, <2>1, <2>3
<1>12. CASE T # {} /\ 1 \notin T
  <2> DEFINE k == Min(R)
             t == Max(T)
  <2>1. R # {} /\ R \subseteq Nat /\ T \subseteq 0 .. n
    <3>1. 1 .. n \subseteq Nat /\ 1 .. n \subseteq 0 .. n
      OBVIOUS
    <3> QED
      BY <1>6, <1>9, <1>12, <3>1, Zenon
  <2>2. k \in R /\ \A y \in R : k <= y
    BY <2>1, MinFacts
  <2>3. t \in T /\ \A y \in T : t >= y
    BY <1>1, <1>12, <2>1, MaxFacts
  <2> HIDE DEF k, t
  <2>4. k \in 2 .. n /\ t \in 2 .. n
    <3>1. k # 1 /\ t # 1
      BY <1>7, <1>12, <2>2, <2>3
    <3>2. k \in 1 .. n /\ t \in 1 .. n
      BY <1>6, <2>2, <2>3
    <3> QED
      BY <1>1, <3>1, <3>2
  <2>5. n + 2 - k \in T /\ n + 2 - t \in R
    BY <1>8, <2>2, <2>3, <2>4
  <2>6. t >= n + 2 - k /\ k <= n + 2 - t
    BY <2>2, <2>3, <2>5
  <2>7. t = n + 2 - k
    BY <1>1, <2>4, <2>6
  <2>8. list[k] = log[t]
    BY <1>3, <2>4, <2>7
  <2> QED
    BY <1>4, <1>12, <1>5, <2>1, <2>8 DEF k, t
<1> QED
  BY <1>10, <1>11, <1>12

-----------------------------------------------------------------------------
(***************************************************************************)
(* The partitions of a disk.                                               *)
(***************************************************************************)
\* The first n + 1 numbers are a finite set of that size.
LEMMA PrefixFinite ==
  ASSUME NEW n \in Nat
  PROVE  IsFiniteSet(0 .. n) /\ Cardinality(0 .. n) = n + 1
<1>1. 0 \in Int /\ n \in Int /\ ~(0 > n) /\ n - 0 + 1 = n + 1
  OBVIOUS
<1>2. IsFiniteSet(0 .. n) /\ Cardinality(0 .. n) = IF 0 > n THEN 0 ELSE n - 0 + 1
  BY <1>1, FS_Interval, Zenon
<1> QED
  BY <1>1, <1>2, Zenon

\* A table has at most four partitions.
LEMMA CountFacts ==
  ASSUME NEW d
  PROVE  getPartitionCount(d) \in 0 .. 4
<1> DEFINE P == {i \in Entries : Present(Disks[d].parts[i])}
<1>1. IsFiniteSet(Entries) /\ Cardinality(Entries) = 4
  <2>1. 3 \in Nat /\ 3 + 1 = 4
    OBVIOUS
  <2> QED
    BY <2>1, PrefixFinite, Zenon DEF Entries
<1>2. P \subseteq Entries
  OBVIOUS
<1> HIDE DEF P
<1>3. IsFiniteSet(P) /\ Cardinality(P) <= 4
  BY <1>1, <1>2, FS_Subset
<1>4. Cardinality(P) \in Nat
  BY <1>3, FS_CardinalityType
<1>5. getPartitionCount(d) = Cardinality(P)
  BY DEF getPartitionCount, P
<1> QED
  BY <1>3, <1>4, <1>5

\* If the used entries come first, their number bounds them.
LEMMA CompactCount ==
  ASSUME NEW d, Compact(d), NEW i \in Entries, Present(Disks[d].parts[i])
  PROVE  i < getPartitionCount(d)
<1> DEFINE P == {j \in Entries : Present(Disks[d].parts[j])}
<1>1. IsFiniteSet(Entries) /\ i \in Nat
  <2>1. 3 \in Nat /\ i \in Nat
    BY DEF Entries
  <2> QED
    BY <2>1, PrefixFinite, Zenon DEF Entries
<1>2. P \subseteq Entries
  OBVIOUS
<1>3. 0 .. i \subseteq P
  BY DEF Compact, Entries
<1>4. getPartitionCount(d) = Cardinality(P)
  BY DEF getPartitionCount
<1> HIDE DEF P
<1>5. IsFiniteSet(P)
  BY <1>1, <1>2, FS_Subset
<1>6. Cardinality(0 .. i) <= Cardinality(P)
  BY <1>3, <1>5, FS_Subset
<1>7. Cardinality(0 .. i) = i + 1
  BY <1>1, PrefixFinite
<1>8. Cardinality(P) \in Nat
  BY <1>5, FS_CardinalityType
<1> QED
  BY <1>1, <1>4, <1>6, <1>7, <1>8

-----------------------------------------------------------------------------
(***************************************************************************)
(* The inductive invariant.                                                *)
(***************************************************************************)
Loop == [disk : DOMAIN Disks, next : 0 .. 4, count : 0 .. 4]

\* The partitions of the disk in front are added in their order.
AddingInv ==
  /\ storages \in Seq(DOMAIN Disks)
  /\ adding # <<>> =>
       /\ adding \in Loop /\ adding.next <= adding.count
       /\ storages # <<>> /\ storages[1] = adding.disk
  /\ storages = <<>> => added = <<>> /\ adding = <<>>

\* The registry is the history of added filesystems, rearranged.
RegistryInv ==
  /\ added \in Seq(Node) /\ registry \in Seq(Node)
  /\ Mirrors(registry, added)
  /\ faults \in BOOLEAN /\ stopped \in BOOLEAN

\* The entries of the disk d the loop has been through.
Turned(d) == IF adding = <<>> THEN getPartitionCount(d) ELSE adding.next

\* The filesystems added are those of the Linux partitions the loop has been
\* through, each under its own number.
Reached(d) ==
  /\ adding # <<>> => adding.count = getPartitionCount(d)
  /\ \A k \in DOMAIN added :
       /\ added[k].disk = d /\ added[k].num = added[k].part
       /\ HasFilesystem(Disks[d].parts[added[k].part])
  /\ \A i \in Entries :
       i < Turned(d) /\ HasFilesystem(Disks[d].parts[i])
         => \E k \in DOMAIN added : added[k].part = i

OneDiskInv ==
  \A d \in DOMAIN Disks :
    storages = <<d>> /\ ~faults /\ ~stopped /\ Disks[d].size > 0 => Reached(d)

Inv == AddingInv /\ RegistryInv /\ OneDiskInv

LEMMA InitInv == Init => Inv
<1> SUFFICES ASSUME Init PROVE Inv
  OBVIOUS
<1> USE DEF Init
<1>1. AddingInv
  BY DEF AddingInv
<1>2. RegistryInv
  <2>1. Len(<<>>) = 0 /\ <<>> \in Seq(Node)
    OBVIOUS
  <2>2. Mirrors(<<>>, <<>>)
    BY DEF Mirrors
  <2> QED
    BY <2>1, <2>2 DEF RegistryInv
<1>3. OneDiskInv
  <2>1. ASSUME NEW d PROVE storages # <<d>>
    OBVIOUS
  <2> QED
    BY <2>1, Zenon DEF OneDiskInv
<1> QED
  BY <1>1, <1>2, <1>3 DEF Inv

\* A new disk: with an earlier one there is no claim about a single disk, and
\* without one nothing has been added.
LEMMA AddStorageInv ==
  ASSUME Inv, NEW d \in DOMAIN Disks, AddStorage(d)
  PROVE  Inv'
<1> USE DEF Inv
<1>1. storages' = <<d>> \o storages /\ storages \in Seq(DOMAIN Disks) /\ adding = <<>>
  BY DEF AddStorage, AddingInv, Idle
<1>2. storages' \in Seq(DOMAIN Disks) /\ storages' # <<>> /\ storages'[1] = d
  BY <1>1
<1>3. \/ /\ adding' \in Loop /\ adding'.next = 0 /\ adding'.disk = d
         /\ ~faults' /\ Disks[d].size > 0 => adding'.count = getPartitionCount(d)
         /\ faults' \in BOOLEAN /\ stopped' = stopped
      \/ stopped' = TRUE /\ adding' = <<>> /\ faults' = faults
  <2>1. CASE addStorage(d)
    <3>1. PICK again \in BOOLEAN :
            /\ adding' = [disk |-> d, next |-> 0,
                          count |-> IF Disks[d].size > 0 /\ again
                                    THEN getPartitionCount(d) ELSE 0]
            /\ faults' = (faults \/ ~again)
      BY <2>1 DEF addStorage
    <3>2. getPartitionCount(d) \in 0 .. 4
      BY CountFacts
    <3>3. adding' \in Loop /\ adding'.next = 0 /\ adding'.disk = d
      BY <3>1, <3>2 DEF Loop
    <3>4. ~faults' /\ Disks[d].size > 0 => adding'.count = getPartitionCount(d)
      BY <3>1
    <3>5. faults' \in BOOLEAN
      BY <3>1, Zenon
    <3>6. stopped' = stopped
      BY <2>1 DEF addStorage
    <3> QED
      BY <3>3, <3>4, <3>5, <3>6, Zenon
  <2>2. CASE addStorageNoTable(d)
    BY <1>1, <2>2 DEF addStorageNoTable
  <2> QED
    BY <2>1, <2>2 DEF AddStorage
<1>4. added' = added /\ registry' = registry
  BY DEF AddStorage
<1>5. AddingInv'
  BY <1>2, <1>3 DEF AddingInv, Loop
<1>6. RegistryInv'
  BY <1>3, <1>4 DEF RegistryInv
<1>7. OneDiskInv'
  <2> SUFFICES ASSUME NEW e \in DOMAIN Disks, storages' = <<e>>,
                      ~faults', ~stopped', Disks[e].size > 0
               PROVE  Reached(e)'
    BY DEF OneDiskInv
  <2>1. e = d /\ storages = <<>>
    <3>1. Len(storages') = 1 + Len(storages) /\ Len(storages') = 1
      BY <1>1
    <3> QED
      BY <1>1, <1>2, <3>1
  <2>2. added' = <<>>
    BY <1>4, <2>1 DEF AddingInv
  <2>3. adding' # <<>> /\ adding'.count = getPartitionCount(e) /\ Turned(e)' = 0
    BY <1>3, <2>1 DEF Turned, Loop
  <2>4. \A i \in Entries : ~(i < 0)
    BY DEF Entries
  <2> QED
    BY <2>2, <2>3, <2>4 DEF Reached
<1> QED
  BY <1>5, <1>6, <1>7

\* One turn of the loop.
LEMMA AddPartitionInv ==
  ASSUME Inv, AddPartition
  PROVE  Inv'
<1> DEFINE d == adding.disk
           i == adding.next
           f(readable) == NewFilesystem(d, i, readable)
<1>1. /\ adding # <<>> /\ i < adding.count
      /\ adding' = [adding EXCEPT !.next = i + 1]
      /\ storages' = storages /\ stopped' = stopped
  BY DEF AddPartition
<1>2. /\ adding \in Loop /\ storages \in Seq(DOMAIN Disks)
      /\ storages # <<>> /\ storages[1] = d
      /\ stopped \in BOOLEAN /\ faults \in BOOLEAN
      /\ added \in Seq(Node) /\ registry \in Seq(Node) /\ Mirrors(registry, added)
  BY <1>1 DEF Inv, AddingInv, RegistryInv
<1>3. /\ d \in DOMAIN Disks /\ i \in Entries /\ i + 1 \in 0 .. 4
      /\ adding.count \in 0 .. 4 /\ i + 1 <= adding.count
  BY <1>1, <1>2 DEF Loop, Entries
<1>4. /\ adding' # <<>> /\ adding' \in Loop
      /\ adding'.disk = d /\ adding'.next = i + 1 /\ adding'.count = adding.count
  <2>1. adding' = [disk |-> d, next |-> i + 1, count |-> adding.count]
    BY <1>1, <1>2 DEF Loop
  <2>2. adding' \in Loop
    BY <1>3, <2>1 DEF Loop
  <2>3. \A x \in Loop : x # <<>>
    BY DEF Loop
  <2>4. adding'.disk = d /\ adding'.next = i + 1 /\ adding'.count = adding.count
    BY <2>1
  <2> QED
    BY <2>2, <2>3, <2>4, Zenon
<1>5. ASSUME NEW readable \in BOOLEAN
      PROVE  /\ f(readable) \in Node /\ f(readable).disk = d
             /\ f(readable).part = i /\ f(readable).num = i
  <2> DEFINE v == readable /\ Disks[d].parts[i].image # <<>>
             x(valid) == [disk |-> d, part |-> i, num |-> i, valid |-> valid]
  <2>1. v \in BOOLEAN /\ (v => Disks[d].parts[i].image # <<>>)
    BY Zenon
  <2>2. f(readable) = x(v)
    BY Zenon DEF NewFilesystem, PrefixNumber
  <2>3. ASSUME NEW valid \in BOOLEAN, valid => Disks[d].parts[i].image # <<>>
        PROVE  /\ x(valid) \in Node /\ x(valid).disk = d
               /\ x(valid).part = i /\ x(valid).num = i
    <3>1. /\ x(valid) \in [disk : DOMAIN Disks, part : Entries,
                           num : Entries, valid : BOOLEAN]
          /\ x(valid).disk = d /\ x(valid).part = i
          /\ x(valid).num = i /\ x(valid).valid = valid
      BY <1>3
    <3> HIDE DEF x
    <3> QED
      BY <2>3, <3>1, Zenon DEF Node, Image
  <2> HIDE DEF v, x
  <2> QED
    BY <2>1, <2>2, <2>3, Zenon
<1>6. \/ /\ HasFilesystem(Disks[d].parts[i])
         /\ \E readable \in BOOLEAN :
              /\ registry' = Insert(registry, f(readable))
              /\ added' = Append(added, f(readable))
              /\ faults' = (faults \/ ~readable)
      \/ /\ ~HasFilesystem(Disks[d].parts[i])
         /\ registry' = registry /\ added' = added /\ faults' = faults
  BY Zenon DEF AddPartition
<1>7. AddingInv'
  <2> HIDE DEF d, i
  <2>1. storages' # <<>> /\ storages'[1] = adding'.disk
    BY <1>1, <1>2, <1>4
  <2> QED
    BY <1>1, <1>2, <1>3, <1>4, <2>1 DEF AddingInv
<1> HIDE DEF d, i, f
<1>8. RegistryInv' /\ (~faults' => ~faults)
  <2>1. CASE added' = added /\ registry' = registry /\ faults' = faults
    BY <1>1, <1>2, <2>1 DEF RegistryInv
  <2>2. ASSUME NEW readable \in BOOLEAN,
               registry' = Insert(registry, f(readable)),
               added' = Append(added, f(readable)),
               faults' = (faults \/ ~readable)
        PROVE  RegistryInv' /\ (~faults' => ~faults)
    <3>1. f(readable) \in Node
      BY <1>5
    <3>2. added' \in Seq(Node)
      BY <1>2, <2>2, <3>1
    <3>3. registry' \in Seq(Node) /\ Mirrors(registry', added')
      BY <1>2, <2>2, <3>1, InsertMirrors, Zenon
    <3>4. faults' \in BOOLEAN /\ (~faults' => ~faults)
      BY <2>2, Zenon
    <3>5. stopped' \in BOOLEAN
      BY <1>1, <1>2
    <3> QED
      BY <3>2, <3>3, <3>4, <3>5, Zenon DEF RegistryInv
  <2> QED
    BY <1>6, <2>1, <2>2, Zenon
<1>9. OneDiskInv'
  <2> SUFFICES ASSUME NEW e \in DOMAIN Disks, storages' = <<e>>,
                      ~faults', ~stopped', Disks[e].size > 0
               PROVE  Reached(e)'
    BY DEF OneDiskInv
  <2>1. e = d /\ Reached(d)
    <3>1. storages = <<e>> /\ ~faults /\ ~stopped
      BY <1>1, <1>8
    <3>2. e = d
      BY <1>2, <3>1
    <3> QED
      BY <3>1, <3>2, Zenon DEF Inv, OneDiskInv
  <2>2. adding'.count = getPartitionCount(d)
    BY <1>1, <1>4, <2>1 DEF Reached
  <2>3. /\ \A k \in DOMAIN added :
             /\ added[k].disk = d /\ added[k].num = added[k].part
             /\ HasFilesystem(Disks[d].parts[added[k].part])
        /\ \A j \in Entries : j < i /\ HasFilesystem(Disks[d].parts[j])
             => \E k \in DOMAIN added : added[k].part = j
    BY <1>1, <2>1 DEF Reached, Turned, i
  <2>4. ASSUME NEW j \in Entries, j < i + 1, j # i
        PROVE  j < i
    BY <1>3, <2>4 DEF Entries
  <2>5. CASE ~HasFilesystem(Disks[d].parts[i]) /\ added' = added
    <3>1. \A j \in Entries : j < i + 1 /\ HasFilesystem(Disks[d].parts[j])
            => \E k \in DOMAIN added : added[k].part = j
      BY <2>3, <2>4, <2>5, Zenon
    <3> QED
      BY <1>4, <2>1, <2>2, <2>3, <2>5, <3>1 DEF Reached, Turned
  <2>6. ASSUME HasFilesystem(Disks[d].parts[i]),
               NEW readable \in BOOLEAN, added' = Append(added, f(readable))
        PROVE  Reached(e)'
    <3> DEFINE n == Len(added)
    <3>1. /\ n \in Nat /\ DOMAIN added = 1 .. n /\ DOMAIN added' = 1 .. n + 1
          /\ added'[n + 1] = f(readable) /\ \A k \in 1 .. n : added'[k] = added[k]
      <4>1. f(readable) \in Node
        BY <1>5
      <4> QED
        BY <1>2, <2>6, <4>1
    <3>2. f(readable).disk = d /\ f(readable).num = i /\ f(readable).part = i
      BY <1>5
    <3> HIDE DEF n
    <3>3. ASSUME NEW k \in 1 .. n + 1
          PROVE  /\ added'[k].disk = d /\ added'[k].num = added'[k].part
                 /\ HasFilesystem(Disks[d].parts[added'[k].part])
      <4>1. CASE k = n + 1
        BY <2>6, <3>1, <3>2, <4>1, Zenon
      <4>2. CASE k # n + 1
        <5>1. k \in 1 .. n
          BY <3>1, <4>2
        <5>2. k \in DOMAIN added /\ added'[k] = added[k]
          BY <3>1, <5>1, Zenon
        <5>3. /\ added[k].disk = d /\ added[k].num = added[k].part
              /\ HasFilesystem(Disks[d].parts[added[k].part])
          BY <2>3, <5>2, Zenon
        <5> QED
          BY <5>2, <5>3, Zenon
      <4> QED
        BY <4>1, <4>2
    <3>4. ASSUME NEW j \in Entries, j < i + 1, HasFilesystem(Disks[d].parts[j])
          PROVE  \E k \in 1 .. n + 1 : added'[k].part = j
      <4>1. CASE j = i
        <5>1. n + 1 \in 1 .. n + 1
          BY <3>1
        <5> QED
          BY <3>1, <3>2, <4>1, <5>1, Zenon
      <4>2. CASE j # i
        <5>1. PICK k \in 1 .. n : added[k].part = j
          BY <2>3, <2>4, <3>1, <3>4, <4>2, Zenon
        <5>2. k \in 1 .. n + 1
          BY <3>1
        <5> QED
          BY <3>1, <5>1, <5>2, Zenon
      <4> QED
        BY <4>1, <4>2
    <3>5. Turned(e)' = i + 1
      BY <1>4 DEF Turned
    <3> QED
      BY <2>1, <2>2, <3>1, <3>3, <3>4, <3>5, Zenon DEF Reached
  <2> QED
    BY <1>6, <2>5, <2>6, Zenon
<1> QED
  BY <1>7, <1>8, <1>9 DEF Inv

\* The end of the loop: all partitions counted have had their turn.
LEMMA EndAddInv ==
  ASSUME Inv, EndAdd
  PROVE  Inv'
<1>1. /\ adding # <<>> /\ adding.next = adding.count /\ adding' = <<>>
      /\ storages' = storages /\ registry' = registry /\ added' = added
      /\ faults' = faults /\ stopped' = stopped
  BY DEF EndAdd
<1>2. AddingInv'
  BY <1>1 DEF Inv, AddingInv
<1>3. RegistryInv'
  BY <1>1 DEF Inv, RegistryInv
<1>4. OneDiskInv'
  <2> SUFFICES ASSUME NEW e \in DOMAIN Disks, storages' = <<e>>,
                      ~faults', ~stopped', Disks[e].size > 0
               PROVE  Reached(e)'
    BY DEF OneDiskInv
  <2>1. Reached(e)
    BY <1>1 DEF Inv, OneDiskInv
  <2>2. Turned(e)' = Turned(e)
    BY <1>1, <2>1 DEF Reached, Turned
  <2> QED
    BY <1>1, <2>1, <2>2 DEF Reached
<1> QED
  BY <1>2, <1>3, <1>4 DEF Inv

\* An operation on a path changes neither the disks nor the registry, and it
\* begins nothing once the kernel has stopped.
LEMMA OthersInv ==
  ASSUME Inv, UNCHANGED <<storages, registry, adding, added, faults>>,
         stopped' = stopped \/ stopped' = TRUE
  PROVE  Inv'
<1>1. AddingInv'
  BY DEF Inv, AddingInv
<1>2. RegistryInv'
  BY DEF Inv, RegistryInv
<1>3. OneDiskInv'
  <2> SUFFICES ASSUME NEW e \in DOMAIN Disks, storages' = <<e>>,
                      ~faults', ~stopped', Disks[e].size > 0
               PROVE  Reached(e)'
    BY DEF OneDiskInv
  <2>1. Reached(e)
    BY DEF Inv, OneDiskInv
  <2> QED
    BY <2>1 DEF Reached, Turned
<1> QED
  BY <1>1, <1>2, <1>3 DEF Inv

\* The steps of an operation on a path.
Steps == Descend \/ Metadata \/ ReadNothing \/ ReadExtent \/ EndRead

LEMMA NextInv == Inv /\ [Next]_vars => Inv'
<1> SUFFICES ASSUME Inv, [Next]_vars PROVE Inv'
  OBVIOUS
<1>1. ASSUME NEW d \in DOMAIN Disks, AddStorage(d) PROVE Inv'
  BY <1>1, AddStorageInv
<1>2. CASE AddPartition
  BY <1>2, AddPartitionInv
<1>3. CASE EndAdd
  BY <1>3, EndAddInv
<1>4. ASSUME NEW op, NEW path, Operation(op, path) PROVE Inv'
  <2>1. UNCHANGED <<storages, registry, adding, added, faults>>
    BY <1>4 DEF Operation
  <2>2. stopped' = stopped \/ stopped' = TRUE
    BY <1>4, Zenon DEF Operation, Refused, Unsupported, Begin
  <2> QED
    BY <2>1, <2>2, OthersInv
<1>5. CASE Steps
  <2>1. Continue
    BY <1>5, Zenon DEF Steps, Descend, Metadata, ReadNothing, ReadExtent, EndRead, End
  <2> QED
    BY <2>1, OthersInv DEF Continue
<1>6. CASE Return
  BY <1>6, OthersInv DEF Return, Continue
<1>7. CASE Halted \/ UNCHANGED vars
  BY <1>7, OthersInv DEF Halted, vars
<1> QED
  BY <1>1, <1>2, <1>3, <1>4, <1>5, <1>6, <1>7, Zenon DEF Next, Steps

LEMMA InvHolds == Spec => []Inv
BY InitInv, NextInv, PTL DEF Spec

-----------------------------------------------------------------------------
(***************************************************************************)
(* What a path denotes.                                                    *)
(***************************************************************************)
\* The registry and the history hold the same filesystems.
LEMMA SameFilesystems ==
  ASSUME NEW S, NEW list \in Seq(S), NEW log \in Seq(S), Mirrors(list, log)
  PROVE  Range(list) = Range(log)
<1> DEFINE n == Len(log)
<1>1. /\ n \in Nat /\ DOMAIN log = 1 .. n /\ DOMAIN list = 1 .. n
      /\ (n > 0 => list[1] = log[1])
      /\ \A k \in 2 .. n : list[k] = log[n + 2 - k]
  BY SMTT(60) DEF Mirrors
<1> HIDE DEF n
<1>2. ASSUME NEW k \in 1 .. n
      PROVE  \E j \in 1 .. n : list[k] = log[j] /\ list[j] = log[k]
  <2>1. CASE k = 1
    BY <1>1, <2>1
  <2>2. CASE k # 1
    <3>1. /\ k \in 2 .. n /\ n + 2 - k \in 2 .. n
          /\ n + 2 - (n + 2 - k) = k /\ n + 2 - k \in 1 .. n
      BY <1>1, <2>2
    <3>2. list[k] = log[n + 2 - k]
      BY <1>1, <3>1
    <3>3. list[n + 2 - k] = log[n + 2 - (n + 2 - k)]
      BY <1>1, <3>1
    <3> QED
      BY <3>1, <3>2, <3>3
  <2> QED
    BY <2>1, <2>2
<1>3. \A x : x \in Range(list) <=> x \in Range(log)
  <2>1. ASSUME NEW k \in 1 .. n
        PROVE  list[k] \in Range(log) /\ log[k] \in Range(list)
    BY <1>1, <1>2, Zenon DEF Range
  <2>2. \A x \in Range(list) : x \in Range(log)
    BY <1>1, <2>1, Zenon DEF Range
  <2>3. \A x \in Range(log) : x \in Range(list)
    BY <1>1, <2>1, Zenon DEF Range
  <2> QED
    BY <2>2, <2>3, Zenon
<1> QED
  BY <1>3

\* TypeOK, and at any time a path denotes the filesystem added first, if that
\* one has its prefix, and otherwise the one added last that has: getFilesystem
\* takes the first of the list, and addPartition puts a new node second.
THEOREM PathsDenoteLatest == Spec => []DenotesLatest
<1>1. Inv => DenotesLatest
  <2> SUFFICES ASSUME Inv PROVE DenotesLatest
    OBVIOUS
  <2>1. /\ added \in Seq(Node) /\ registry \in Seq(Node) /\ Mirrors(registry, added)
        /\ storages \in Seq(DOMAIN Disks) /\ faults \in BOOLEAN /\ stopped \in BOOLEAN
    BY DEF Inv, AddingInv, RegistryInv
  <2>2. TypeOK
    <3>1. Range(storages) \subseteq DOMAIN Disks
      BY <2>1 DEF Range
    <3>2. Range(registry) \subseteq Node
      BY <2>1 DEF Range
    <3>3. Range(registry) = Range(added)
      BY <2>1, SameFilesystems, Zenon
    <3>4. \A fs \in Node : /\ fs.disk \in DOMAIN Disks /\ fs.part \in Entries
                           /\ fs.num \in Entries /\ fs.valid \in BOOLEAN
      BY DEF Node
    <3>5. {faults, stopped} \subseteq BOOLEAN
      BY <2>1, Zenon
    <3> QED
      BY <3>1, <3>2, <3>3, <3>4, <3>5, Zenon DEF TypeOK
  <2>3. ASSUME NEW path \in Paths
        PROVE  getFilesystem(registry, path) = Latest(added, path)
    BY <2>1, MirrorDenotes, Zenon
  <2> QED
    BY <2>2, <2>3, Zenon DEF DenotesLatest, Latest
<1> QED
  BY <1>1, InvHolds, PTL

\* What getFilesystem returns is one of the list that handles the path.
LEMMA FoundHandles ==
  ASSUME NEW S, NEW list \in Seq(S), NEW path
  PROVE  \/ /\ getFilesystem(list, path) = <<>>
            /\ \A fs \in Range(list) : ~handles(fs, path)
         \/ /\ getFilesystem(list, path) \in Range(list)
            /\ handles(getFilesystem(list, path), path)
<1> DEFINE R == {k \in DOMAIN list : handles(list[k], path)}
<1>1. getFilesystem(list, path) = IF R = {} THEN <<>> ELSE list[Min(R)]
  BY Zenon DEF getFilesystem
<1>2. R \subseteq Nat
  OBVIOUS
<1>3. R # {} => Min(R) \in R
  BY <1>2, MinFacts, Zenon
<1>4. CASE R = {}
  BY <1>1, <1>4, Zenon DEF Range
<1>5. CASE R # {}
  BY <1>1, <1>3, <1>5, Zenon DEF Range
<1> QED
  BY <1>4, <1>5, Zenon

\* What Reached says of the positions of the list, said of its elements.
LEMMA ReachedElements ==
  ASSUME NEW d, Reached(d)
  PROVE  /\ \A x \in Range(added) : /\ x.disk = d /\ x.num = x.part
                                   /\ HasFilesystem(Disks[d].parts[x.part])
         /\ \A i \in Entries : i < Turned(d) /\ HasFilesystem(Disks[d].parts[i])
                           => \E x \in Range(added) : x.part = i
<1>1. ASSUME NEW x \in Range(added)
      PROVE  /\ x.disk = d /\ x.num = x.part
             /\ HasFilesystem(Disks[d].parts[x.part])
  <2>1. PICK k \in DOMAIN added : x = added[k]
    BY <1>1, Zenon DEF Range
  <2>2. /\ added[k].disk = d /\ added[k].num = added[k].part
        /\ HasFilesystem(Disks[d].parts[added[k].part])
    BY Zenon DEF Reached
  <2> QED
    BY <2>1, <2>2, Zenon
<1>2. ASSUME NEW i \in Entries, i < Turned(d), HasFilesystem(Disks[d].parts[i])
      PROVE  \E x \in Range(added) : x.part = i
  <2>1. PICK k \in DOMAIN added : added[k].part = i
    BY <1>2, Zenon DEF Reached
  <2>2. added[k] \in Range(added)
    BY <2>1, Zenon DEF Range
  <2> QED
    BY <2>1, <2>2, Zenon
<1> QED
  BY <1>1, <1>2, Zenon

\* Once one disk has been added without a failure, and its used entries come
\* first, each Linux partition is reached under its own number, and a number
\* without one denotes nothing.
THEOREM OneDiskIsReached == Spec => []OneDiskReachable
<1>1. Inv => OneDiskReachable
  <2> SUFFICES ASSUME Inv, NEW d \in DOMAIN Disks,
                      storages = <<d>>, adding = <<>>, ~faults, ~stopped,
                      Disks[d].size > 0, Compact(d), NEW i \in Entries
               PROVE  LET fs == getFilesystem(registry, [num |-> i, more |-> <<>>,
                                                         names |-> <<>>, slash |-> TRUE])
                      IN  IF HasFilesystem(Disks[d].parts[i])
                          THEN fs # <<>> /\ fs.part = i /\ fs.disk = d
                          ELSE fs = <<>>
    BY Zenon DEF OneDiskReachable
  <2> DEFINE path == [num |-> i, more |-> <<>>, names |-> <<>>, slash |-> TRUE]
             fs == getFilesystem(registry, path)
  <2>1. /\ added \in Seq(Node) /\ registry \in Seq(Node)
        /\ Range(registry) = Range(added)
    BY SameFilesystems, Zenon DEF Inv, RegistryInv
  <2>2. \A x : handles(x, path) <=> i = x.num
    BY DEF handles
  <2>3. Reached(d) /\ Turned(d) = getPartitionCount(d)
    BY DEF Inv, OneDiskInv, Turned
  <2> HIDE DEF path
  <2>4. \/ fs = <<>> /\ \A x \in Range(added) : i # x.num
        \/ fs \in Range(added) /\ i = fs.num
    BY <2>1, <2>2, FoundHandles, Zenon
  <2>5. \A x \in Range(added) : /\ x.disk = d /\ x.num = x.part
                                /\ HasFilesystem(Disks[d].parts[x.part])
    BY <2>3, ReachedElements, Zenon
  <2>6. \A x \in Range(added) : x # <<>>
    <3>1. \A x \in Node : x # <<>>
      BY SMTT(60) DEF Node
    <3> QED
      BY <2>1, <3>1 DEF Range
  <2> HIDE DEF fs
  <2>7. CASE HasFilesystem(Disks[d].parts[i])
    <3>1. i < getPartitionCount(d)
      BY <2>7, CompactCount DEF HasFilesystem
    <3>2. \E x \in Range(added) : x.part = i
      BY <2>3, <2>7, <3>1, ReachedElements, Zenon
    <3>3. fs \in Range(added) /\ i = fs.num
      BY <2>4, <2>5, <3>2, Zenon
    <3> QED
      BY <2>5, <2>6, <2>7, <3>3, Zenon DEF fs, path
  <2>8. CASE ~HasFilesystem(Disks[d].parts[i])
    <3>1. fs = <<>>
      BY <2>4, <2>5, <2>8, Zenon
    <3> QED
      BY <2>8, <3>1, Zenon DEF fs, path
  <2> QED
    BY <2>7, <2>8, Zenon
<1> QED
  BY <1>1, InvHolds, PTL

-----------------------------------------------------------------------------
(***************************************************************************)
(* Paths and inodes.                                                       *)
(***************************************************************************)
FirstMissing(image, path) ==
  /\ Components(path) # <<>>
  /\ \A e \in Range(image[Root].entries) : e.name # Components(path)[1]

\* After `depth' names the search is where every chain that carries them is.
OnChain(image, path, depth, ino) ==
  /\ ino \in DOMAIN image \cup {Missing, Garbage}
  /\ depth = 0 => ino = Root
  /\ \A c \in Chains(image, path) : c[depth] = ino
  /\ depth > 0 /\ FirstMissing(image, path) => ino = Missing

LEMMA RootOnChain ==
  ASSUME NEW image, WellFormed(image), NEW path
  PROVE  OnChain(image, path, 0, Root)
<1>1. ~(0 > 0)
  OBVIOUS
<1> QED
  BY <1>1, Zenon DEF OnChain, WellFormed, Chains

\* What lookForFile finds is an entry that matches, if there is one.
LEMMA LookedUp ==
  ASSUME NEW image, NEW dir \in DOMAIN image, WellFormed(image), NEW name, NEW isDir
  PROVE  LET es == image[dir].entries
             ino == lookForFile(image, dir, name, isDir)
         IN  \/ ino = Missing /\ \A j \in DOMAIN es : ~Matches(es[j], name, isDir)
             \/ \E j \in DOMAIN es : Matches(es[j], name, isDir) /\ ino = es[j].ino
<1> DEFINE es == image[dir].entries
           T == {j \in DOMAIN es : Matches(es[j], name, isDir)}
<1>1. lookForFile(image, dir, name, isDir) = IF T = {} THEN Missing ELSE es[Min(T)].ino
  BY Zenon DEF lookForFile
<1>2. T \subseteq Nat
  BY DEF WellFormed
<1>3. T # {} => Min(T) \in T
  BY <1>2, MinFacts, Zenon
<1>4. CASE T = {}
  BY <1>1, <1>4, Zenon
<1>5. CASE T # {}
  BY <1>1, <1>3, <1>5, Zenon
<1> QED
  BY <1>4, <1>5, Zenon

\* One name further: a directory has at most one entry of that name, and what
\* is missing stays so.
LEMMA StepOnChain ==
  ASSUME NEW image, WellFormed(image), NEW path,
         Len(Components(path)) \in Nat, NEW depth \in 0 .. Len(Components(path)) - 1,
         NEW ino, OnChain(image, path, depth, ino)
  PROVE  OnChain(image, path, depth + 1, getINodeNumber(image, path, ino, depth + 1))
<1> DEFINE names == Components(path)
           n == Len(names)
           i == depth + 1
           isDir == i < n \/ path.slash
           es == image[ino].entries
           found == lookForFile(image, ino, names[i], isDir)
           next == getINodeNumber(image, path, ino, i)
<1>1. /\ n \in Nat /\ depth \in 0 .. n - 1 /\ depth \in 0 .. n
      /\ i \in 1 .. n /\ i - 1 = depth /\ i > 0 /\ i # 0
  OBVIOUS
<1>2. DOMAIN image \subseteq Nat /\ Missing < 0 /\ Garbage < 0 /\ \A x \in Nat : ~(x < 0)
  BY DEF WellFormed, Missing, Garbage
<1>3. /\ ino \in DOMAIN image \cup {Missing, Garbage}
      /\ depth = 0 => ino = Root
      /\ \A c \in Chains(image, path) : c[depth] = ino
      /\ depth > 0 /\ FirstMissing(image, path) => ino = Missing
  BY DEF OnChain
<1>4. ASSUME NEW c \in Chains(image, path)
      PROVE  /\ c[depth] \in DOMAIN image /\ c[i] \in DOMAIN image
             /\ \E e \in Range(image[c[depth]].entries) : e.name = names[i] /\ e.ino = c[i]
             /\ isDir => image[c[i]].kind = "dir"
  <2>1. /\ c \in [0 .. n -> DOMAIN image]
        /\ \A j \in 1 .. n :
             /\ \E e \in Range(image[c[j - 1]].entries) : e.name = names[j] /\ e.ino = c[j]
             /\ j < n \/ path.slash => image[c[j]].kind = "dir"
    BY <1>4, Zenon DEF Chains
  <2>2. i \in 0 .. n
    BY <1>1
  <2> HIDE DEF i
  <2>3. c[depth] \in DOMAIN image /\ c[i] \in DOMAIN image
    BY <1>1, <2>1, <2>2, Zenon
  <2>4. /\ \E e \in Range(image[c[i - 1]].entries) : e.name = names[i] /\ e.ino = c[i]
        /\ isDir => image[c[i]].kind = "dir"
    BY <1>1, <2>1, Zenon
  <2> QED
    BY <1>1, <2>3, <2>4, Zenon
<1>5. next = IF ino < 0 THEN ino ELSE IF found = Missing /\ i > 1 THEN Garbage ELSE found
  BY Zenon DEF getINodeNumber
<1> HIDE DEF n, i, next, found, isDir
<1>6. CASE ino \notin DOMAIN image
  <2>1. ino < 0 /\ next = ino
    BY <1>2, <1>3, <1>5, <1>6
  <2>2. Chains(image, path) = {}
    BY <1>3, <1>4, <1>6, Zenon
  <2>3. depth # 0
    BY <1>3, <1>6, Zenon DEF WellFormed
  <2>4. depth > 0
    BY <1>1, <2>3
  <2> QED
    BY <1>1, <1>3, <2>1, <2>2, <2>4, Zenon DEF OnChain, i, next
<1>7. CASE ino \in DOMAIN image
  <2>1. ~(ino < 0)
    BY <1>2, <1>7
  <2>2. \/ found = Missing /\ \A j \in DOMAIN es : ~Matches(es[j], names[i], isDir)
        \/ \E j \in DOMAIN es : Matches(es[j], names[i], isDir) /\ found = es[j].ino
    BY <1>7, LookedUp, Zenon DEF found
  <2>3. /\ \A j, k \in DOMAIN es : es[j].name = es[k].name => j = k
        /\ \A k \in DOMAIN es :
             /\ es[k].ino \in DOMAIN image
             /\ es[k].type = "dir" <=> image[es[k].ino].kind = "dir"
    BY <1>7, Zenon DEF WellFormed
  <2>4. next \in DOMAIN image \cup {Missing, Garbage}
    BY <1>5, <2>1, <2>2, <2>3, Zenon
  <2>5. ASSUME NEW c \in Chains(image, path)
        PROVE  c[i] = next
    <3>1. c[depth] = ino /\ c[i] \in DOMAIN image
      BY <1>3, <1>4
    <3>2. PICK e \in Range(es) : e.name = names[i] /\ e.ino = c[i]
      BY <1>4, <3>1, Zenon
    <3>3. PICK j \in DOMAIN es : e = es[j]
      BY Zenon DEF Range
    <3>4. isDir => es[j].type = "dir"
      BY <1>4, <2>3, <3>2, <3>3, Zenon
    <3>5. Matches(es[j], names[i], isDir)
      BY <3>2, <3>3, <3>4, Zenon DEF Matches
    <3>6. PICK k \in DOMAIN es : Matches(es[k], names[i], isDir) /\ found = es[k].ino
      BY <2>2, <3>5, Zenon
    <3>7. es[k].name = es[j].name
      BY <3>5, <3>6, Zenon DEF Matches
    <3>8. found = c[i]
      BY <2>3, <3>2, <3>3, <3>6, <3>7, Zenon
    <3>9. found # Missing
      BY <1>2, <3>1, <3>8
    <3> QED
      BY <1>5, <2>1, <3>8, <3>9, Zenon
  <2>6. ASSUME FirstMissing(image, path)
        PROVE  next = Missing
    <3>1. depth = 0 /\ ino = Root /\ i = 1 /\ ~(i > 1)
      <4>1. ino # Missing
        BY <1>2, <1>7
      <4>2. ~(depth > 0)
        BY <1>3, <2>6, <4>1
      <4> QED
        BY <1>1, <1>3, <4>2
    <3>2. \A j \in DOMAIN es : es[j].name # names[i]
      BY <2>6, <3>1, Zenon DEF FirstMissing, Range
    <3>3. found = Missing
      BY <2>2, <3>2, Zenon DEF Matches
    <3> QED
      BY <1>5, <2>1, <3>1, <3>3, Zenon
  <2> QED
    BY <1>1, <2>4, <2>5, <2>6, Zenon DEF OnChain, i, next
<1> QED
  BY <1>6, <1>7

-----------------------------------------------------------------------------
(***************************************************************************)
(* A read's buffer.                                                        *)
(***************************************************************************)
Extents == [at : Nat, pos : Nat, len : Nat]
ReadRanges == [off : Nat, n : 0 .. Span]
Offset(fs) == Disks[fs.disk].parts[fs.part].offset

\* Nothing is written outside, unless the range goes into a next extent.
Kept(xs, r, b) ==
  (\E i \in DOMAIN b \ (0 .. r.n - 1) : b[i] # -1)
    => \E e \in Range(xs) : r.off < e.at /\ e.at < r.off + r.n

\* A range inside the first extent is read right.
Right(fs, xs, r, result, b) ==
  xs # <<>> /\ result > 0 /\ xs[1].at = 0 /\ r.off + r.n <= xs[1].len
    => \A i \in 0 .. r.n - 1 : b[i] = Offset(fs) + xs[1].pos + r.off + i

ReadSoFar(fs, xs, r, result, b) ==
  /\ result \in Int /\ DOMAIN b = -Span .. Span
  /\ Kept(xs, r, b) /\ Right(fs, xs, r, result, b)

LEMMA UntouchedKept ==
  ASSUME NEW fs, NEW xs, NEW r
  PROVE  /\ DOMAIN Untouched = -Span .. Span
         /\ Kept(xs, r, Untouched) /\ Right(fs, xs, r, 0, Untouched)
BY DEF Untouched, Kept, Right

Later(a, b) == IF a > b THEN a ELSE b
Earlier(a, b) == IF a < b THEN a ELSE b

LEMMA OverlapBounds ==
  ASSUME NEW at \in Nat, NEW len \in Nat, NEW off \in Nat, NEW m \in Nat
  PROVE  /\ Later(at, off) \in Nat /\ Earlier(at + len, off + m) \in Nat
         /\ Later(at, off) >= at /\ Later(at, off) >= off
         /\ Earlier(at + len, off + m) <= off + m
BY DEF Later, Earlier

\* The buffer after a read of n bytes at pos that returned got.
Received(b, fs, pos, at, n, got) ==
  [i \in DOMAIN b |->
     IF got > 0 /\ i - at \in 0 .. n - 1 THEN Place(fs, pos + i - at) ELSE b[i]]

\* One extent more: only the first reaches a range inside it, since the others
\* lie behind.
LEMMA ExtentRead ==
  ASSUME NEW fs, Offset(fs) \in Nat,
         NEW xs \in Seq(Extents),
         \A k \in DOMAIN xs : \A j \in 1 .. k - 1 : xs[j].at + xs[j].len <= xs[k].at,
         NEW r \in ReadRanges, NEW result, NEW b, ReadSoFar(fs, xs, r, result, b),
         NEW k \in 1 .. Len(xs), NEW from, NEW to, NEW n,
         Overlap(xs[k], r) = [from |-> from, to |-> to], n = to - from,
         NEW got, n <= 0 => got = 0, n > 0 => got \in {-1, n}
  PROVE  ReadSoFar(fs, xs, r, result + got,
                   Received(b, fs, xs[k].pos + from, r.off - from, n, got))
<1> DEFINE c == Received(b, fs, xs[k].pos + from, r.off - from, n, got)
           e == xs[k]
<1>a. /\ result \in Int /\ DOMAIN b = -Span .. Span
      /\ Kept(xs, r, b) /\ Right(fs, xs, r, result, b)
  BY Zenon DEF ReadSoFar
<1>0. c = [i \in DOMAIN b |->
             IF got > 0 /\ i - (r.off - from) \in 0 .. n - 1
             THEN Place(fs, (xs[k].pos + from) + i - (r.off - from)) ELSE b[i]]
  BY Zenon DEF Received
<1> HIDE DEF c
<1>1. /\ e \in Extents /\ e.at \in Nat /\ e.pos \in Nat /\ e.len \in Nat
      /\ r.off \in Nat /\ r.n \in 0 .. Span /\ Span \in Nat
  <2>1. e \in Extents
    OBVIOUS
  <2> HIDE DEF e
  <2> QED
    BY <2>1, CallAssumption DEF Extents, ReadRanges
<1>2. from = Later(e.at, r.off) /\ to = Earlier(e.at + e.len, r.off + r.n)
  <2> DEFINE f == Later(e.at, r.off)
             t == Earlier(e.at + e.len, r.off + r.n)
  <2>1. [from |-> from, to |-> to] = [from |-> f, to |-> t]
    BY Zenon DEF Overlap, Later, Earlier
  <2> HIDE DEF f, t
  <2>2. from = f /\ to = t
    BY <2>1
  <2> QED
    BY <2>2, Zenon DEF f, t
<1>3. /\ from \in Nat /\ to \in Nat /\ n \in Int
      /\ from >= e.at /\ from >= r.off /\ to <= r.off + r.n
  <2> HIDE DEF e
  <2>1. r.n \in Nat
    BY <1>1
  <2> DEFINE f == Later(e.at, r.off)
             t == Earlier(e.at + e.len, r.off + r.n)
  <2>2. f \in Nat /\ t \in Nat /\ f >= e.at /\ f >= r.off /\ t <= r.off + r.n
    BY <1>1, <2>1, OverlapBounds, Zenon
  <2> HIDE DEF f, t
  <2>3. from = f /\ to = t
    BY <1>2, Zenon DEF f, t
  <2>4. \A x, y \in Nat : x - y \in Int
    OBVIOUS
  <2>5. n \in Int
    BY <2>2, <2>3, <2>4, Zenon
  <2> QED
    BY <2>2, <2>3, <2>5, Zenon
<1>4. DOMAIN c = -Span .. Span
  BY <1>a, <1>0, Zenon
<1>5. got \in Int
  BY <1>3
<1>6. \A i \in DOMAIN b :
        c[i] = IF got > 0 /\ i - (r.off - from) \in 0 .. n - 1
               THEN Offset(fs) + ((e.pos + from) + i - (r.off - from)) ELSE b[i]
  BY <1>0 DEF Place, Offset
<1> HIDE DEF e
<1>7. Kept(xs, r, c)
  <2> SUFFICES ASSUME NEW i \in DOMAIN c \ (0 .. r.n - 1), c[i] # -1
               PROVE  \E x \in Range(xs) : r.off < x.at /\ x.at < r.off + r.n
    BY Zenon DEF Kept
  <2>1. i \in DOMAIN b /\ i \in Int /\ ~(i \in 0 .. r.n - 1)
    BY <1>a, <1>1, <1>4
  <2>2. CASE got > 0 /\ i - (r.off - from) \in 0 .. n - 1
    <3>1. from < to
      BY <1>3, <2>2, SMTT(60)
    <3>2. from # r.off
      <4> SUFFICES ASSUME from = r.off PROVE FALSE
        OBVIOUS
      <4>1. i \in 0 .. n - 1
        BY <1>1, <2>1, <2>2, SMTT(60)
      <4>2. n <= r.n
        BY <1>1, <1>3, SMTT(60)
      <4> QED
        BY <1>1, <1>3, <2>1, <4>1, <4>2, SMTT(60)
    <3>3. from = e.at /\ r.off < e.at
      BY <1>1, <1>2, <3>2 DEF Later
    <3>4. e.at < r.off + r.n
      BY <1>1, <1>3, <3>1, <3>3, SMTT(60)
    <3>5. e \in Range(xs)
      BY DEF e, Range
    <3> QED
      BY <3>3, <3>4, <3>5, Zenon
  <2>3. CASE ~(got > 0 /\ i - (r.off - from) \in 0 .. n - 1)
    <3>1. c[i] = b[i]
      BY <1>6, <2>1, <2>3, Zenon
    <3> QED
      BY <1>a, <2>1, <3>1, Zenon DEF Kept
  <2> QED
    BY <2>2, <2>3, Zenon
<1>8. Right(fs, xs, r, result + got, c)
  <2> SUFFICES ASSUME xs # <<>>, result + got > 0, xs[1].at = 0, r.off + r.n <= xs[1].len,
                      NEW i \in 0 .. r.n - 1
               PROVE  c[i] = Offset(fs) + xs[1].pos + r.off + i
    BY Zenon DEF Right
  <2>1. i \in DOMAIN b /\ i \in Int
    BY <1>a, <1>1, SMTT(60)
  <2>2. result > 0 => b[i] = Offset(fs) + xs[1].pos + r.off + i
    BY <1>a, Zenon DEF Right
  <2>3. CASE ~(got > 0)
    <3>1. result > 0
      BY <1>a, <1>5, <2>3
    <3>2. c[i] = b[i]
      BY <1>6, <2>1, <2>3, Zenon
    <3> QED
      BY <2>2, <3>1, <3>2, Zenon
  <2>4. CASE got > 0 /\ k = 1
    <3>1. e.at = 0 /\ r.off + r.n <= e.len /\ e.pos = xs[1].pos
      BY <2>4 DEF e
    <3>2. from = r.off /\ to = r.off + r.n /\ n = r.n
      <4>1. Later(e.at, r.off) = r.off
        BY <1>1, <3>1, SMTT(60) DEF Later
      <4>2. Earlier(e.at + e.len, r.off + r.n) = r.off + r.n
        BY <1>1, <3>1, SMTT(60) DEF Earlier
      <4>3. (r.off + r.n) - r.off = r.n
        BY <1>1
      <4> QED
        BY <1>2, <4>1, <4>2, <4>3, Zenon
    <3>3. i - (r.off - from) = i /\ i \in 0 .. n - 1
      BY <1>1, <2>1, <3>2, SMTT(60)
    <3>4. c[i] = Offset(fs) + ((e.pos + from) + i - (r.off - from))
      BY <1>6, <2>1, <2>4, <3>3
    <3> QED
      BY <1>1, <2>1, <3>1, <3>2, <3>4, SMTT(60)
  <2>5. CASE got > 0 /\ k # 1
    <3>1. 1 \in 1 .. k - 1 /\ k \in DOMAIN xs
      BY <2>5
    <3>2. xs[1].at + xs[1].len <= e.at /\ xs[1].len \in Nat
      <4>1. xs[1].at + xs[1].len <= e.at
        BY <3>1 DEF e
      <4>2. xs[1] \in Extents
        BY <3>1
      <4> QED
        BY <4>1, <4>2 DEF Extents
    <3>3. r.off + r.n <= e.at
      BY <1>1, <3>2, SMTT(60)
    <3>4. n <= 0
      BY <1>1, <1>3, <3>3, SMTT(60)
    <3> QED
      BY <2>5, <3>4
  <2> QED
    BY <2>3, <2>4, <2>5
<1>9. result + got \in Int
  BY <1>a, <1>5
<1> QED
  BY <1>4, <1>7, <1>8, <1>9, Zenon DEF ReadSoFar, c

-----------------------------------------------------------------------------
(***************************************************************************)
(* The operation in progress, and its answer.                              *)
(***************************************************************************)
Walks ==
  [op : {"read", "getSize", "exists", "getType"}, path : Paths, fs : Node,
   range : ReadRanges, depth : Nat, ino : Int, seen : Nat, result : Int]

\* The search is on the path's chain; a read has done right so far, and has not
\* begun before the inode is found.
WalkInv ==
  walk # <<>> =>
    LET image == Image(walk.fs)
        xs == image[walk.ino].extents
    IN  /\ answer = <<>> /\ walk \in Walks /\ walk.fs.valid
        /\ walk.depth <= Len(Components(walk.path))
        /\ OnChain(image, walk.path, walk.depth, walk.ino)
        /\ walk.depth < Len(Components(walk.path)) => walk.seen = 0
        /\ walk.seen = 0 => walk.result = 0 /\ buffer = Untouched
        /\ walk.ino \in DOMAIN image =>
             /\ Kept(xs, walk.range, buffer)
             /\ Right(walk.fs, xs, walk.range, walk.result, buffer)

AnswersInv == DOMAIN buffer = -Span .. Span /\ AnswersSound /\ WalkInv

LEMMA NodeImage ==
  ASSUME NEW fs \in Node, fs.valid
  PROVE  WellFormed(Image(fs)) /\ Offset(fs) \in Nat
<1>1. fs.disk \in DOMAIN Disks /\ fs.part \in Entries /\ Image(fs) # <<>>
  BY DEF Node
<1> QED
  BY <1>1, DiskAssumption, ImageAssumption DEF Image, Offset

LEMMA PathNames ==
  ASSUME NEW path \in Paths
  PROVE  Components(path) \in Seq(STRING)
BY CallAssumption DEF Components

LEMMA WalkIsNone ==
  ASSUME NEW w \in Walks
  PROVE  w # <<>>
BY DEF Walks

\* Without an answer nothing is claimed of it.
LEMMA QuietSound ==
  ASSUME answer = <<>>, DOMAIN buffer = -Span .. Span
  PROVE  AnswersSound
BY Zenon DEF AnswersSound, SizeRight, ReadExact, BufferKept, Asked

\* A path denotes at most the inode the search has ended at.
LEMMA EndOfChain ==
  ASSUME NEW image, NEW path, NEW ino, Len(Components(path)) \in Nat,
         OnChain(image, path, Len(Components(path)), ino),
         NEW n \in Denoted(image, path)
  PROVE  n = ino /\ n \in DOMAIN image
<1> DEFINE l == Len(Components(path))
<1>1. PICK c \in Chains(image, path) : n = c[l]
  BY Zenon DEF Denoted
<1>2. c \in [0 .. l -> DOMAIN image]
  BY Zenon DEF Chains
<1>3. l \in 0 .. l
  OBVIOUS
<1> HIDE DEF l
<1>4. c[l] \in DOMAIN image
  BY <1>2, <1>3, Zenon
<1>5. c[l] = ino
  BY Zenon DEF OnChain, l
<1> QED
  BY <1>1, <1>4, <1>5

\* The answer at the end of an operation.
LEMMA EndSound ==
  ASSUME WalkInv, Located, NEW result, End(result), DOMAIN buffer' = -Span .. Span,
         walk.op = "getSize" => result \in SizeOf(Image(walk.fs), walk.ino),
         walk.op = "read" /\ walk.ino \in DOMAIN Image(walk.fs) =>
           result = walk.result /\ buffer' = buffer
  PROVE  AnswersInv'
<1> DEFINE image == Image(walk.fs)
           path == walk.path
           names == Components(path)
           ino == walk.ino
           xs == image[ino].extents
           r == walk.range
<1>1. /\ walk \in Walks /\ walk.fs.valid /\ walk.depth = Len(names)
      /\ OnChain(image, path, Len(names), ino)
      /\ ino \in DOMAIN image =>
           Kept(xs, r, buffer) /\ Right(walk.fs, xs, r, walk.result, buffer)
  BY Zenon DEF WalkInv, Located
<1>2. /\ answer'.op = walk.op /\ answer'.path = path /\ answer'.fs = walk.fs
      /\ answer'.ino = ino /\ answer'.range = r /\ answer'.result = result
      /\ walk' = <<>>
  BY DEF End, Answer
<1>3. walk.fs \in Node /\ path \in Paths /\ ino \in Int /\ r \in ReadRanges
  BY <1>1 DEF Walks
<1>4. names \in Seq(STRING) /\ Len(names) \in Nat
  <2>1. names \in Seq(STRING)
    BY <1>3, PathNames, Zenon
  <2> QED
    BY <2>1
<1>5. WellFormed(image)
  BY <1>1, <1>3, NodeImage, Zenon
<1>6. \A n \in Denoted(image, path) : n = ino /\ ino \in DOMAIN image
  <2> HIDE DEF image, path, ino
  <2>1. \A n \in Denoted(image, path) : n = ino /\ n \in DOMAIN image
    BY <1>1, <1>4, EndOfChain
  <2> QED
    BY <2>1
<1>7. /\ Missing < 0 /\ Garbage < 0 /\ DOMAIN image \subseteq Nat
      /\ ino \in DOMAIN image \cup {Missing, Garbage}
  <2>1. Missing < 0 /\ Garbage < 0
    BY DEF Missing, Garbage
  <2> QED
    BY <1>1, <1>5, <2>1, Zenon DEF WellFormed, OnChain
<1>8. ASSUME walk.op = "getSize"
      PROVE  /\ \A n \in Denoted(image, path) : result = image[n].size
             /\ FirstMissing(image, path) => result = -1
  <2>1. ino \in DOMAIN image => ino # Missing /\ ino # Garbage
    BY <1>7
  <2>2. ino \in DOMAIN image => result = image[ino].size
    BY <1>8, <2>1, Zenon DEF SizeOf
  <2>3. FirstMissing(image, path) => ino = Missing
    <3>1. names # <<>> => Len(names) > 0
      BY <1>4
    <3> QED
      BY <1>1, <3>1, Zenon DEF OnChain, FirstMissing
  <2>4. ino = Missing => result = -1
    BY <1>8, Zenon DEF SizeOf
  <2> QED
    BY <1>6, <2>2, <2>3, <2>4, Zenon
<1>9. SizeRight'
  BY <1>2, <1>8, ZenonT(60) DEF SizeRight, Asked, FirstMissing
<1>10. ReadExact'
  <2> SUFFICES ASSUME walk.op = "read", NEW n \in Denoted(image, path),
                      image[n].extents # <<>>, result > 0, image[n].extents[1].at = 0,
                      r.off + r.n <= image[n].extents[1].len, NEW i \in 0 .. r.n - 1
               PROVE  buffer'[i] = Disks[walk.fs.disk].parts[walk.fs.part].offset
                                     + image[n].extents[1].pos + r.off + i
    BY <1>2 DEF ReadExact, Asked
  <2>1. n = ino /\ ino \in DOMAIN image
    BY <1>6
  <2>2. result = walk.result /\ buffer' = buffer
    BY <2>1
  <2> QED
    BY <1>1, <2>1, <2>2, Zenon DEF Right, Offset
<1>11. BufferKept'
  <2> SUFFICES ASSUME walk.op = "read", ino > 0, NEW i \in DOMAIN buffer' \ (0 .. r.n - 1),
                      buffer'[i] # -1
               PROVE  \E e \in Range(xs) : r.off < e.at /\ e.at < r.off + r.n
    BY <1>2, Zenon DEF BufferKept, Asked
  <2>1. ino \in DOMAIN image
    <3>1. Missing = -1 /\ Garbage = -2
      BY DEF Missing, Garbage
    <3> QED
      BY <1>3, <1>7, <3>1
  <2> QED
    BY <1>1, <2>1, Zenon DEF Kept
<1> QED
  BY <1>2, <1>9, <1>10, <1>11, Zenon DEF AnswersInv, AnswersSound, WalkInv

\* A search that begins is on its chain.
LEMMA OperationSound ==
  ASSUME AnswersInv, registry \in Seq(Node), NEW path \in Paths,
         NEW op \in Unimplemented \cup {"read", "getSize", "exists", "getType"},
         Operation(op, path)
  PROVE  AnswersInv'
<1> DEFINE fs == getFilesystem(registry, path)
<1>1. answer = <<>> /\ walk = <<>> /\ buffer' = Untouched
  BY Zenon DEF Operation, Idle
<1>2. /\ DOMAIN Untouched = -Span .. Span
      /\ \A xs, r, x : Kept(xs, r, Untouched) /\ Right(x, xs, r, 0, Untouched)
  BY UntouchedKept
<1>3. DOMAIN buffer' = -Span .. Span
  BY <1>1, <1>2, Zenon
<1>4. CASE Refused(op, path)
  <2>1. walk' = <<>> /\ answer'.fs = fs /\ (fs # <<>> => ~fs.valid)
    BY <1>1, <1>4 DEF Refused, Answer
  <2>2. AnswersSound'
    BY <1>3, <2>1, Zenon DEF AnswersSound, SizeRight, ReadExact, BufferKept, Asked
  <2> QED
    BY <1>3, <2>1, <2>2, Zenon DEF AnswersInv, WalkInv
<1>5. CASE Unsupported(op, path)
  <2>1. walk' = <<>> /\ answer' = <<>>
    BY <1>1, <1>5, Zenon DEF Unsupported
  <2>2. AnswersSound'
    BY <1>3, <2>1, Zenon DEF AnswersSound, SizeRight, ReadExact, BufferKept, Asked
  <2> QED
    BY <1>3, <2>1, <2>2, Zenon DEF AnswersInv, WalkInv
<1>6. CASE Begin(op, path)
  <2>1. PICK r \in (IF op = "read" THEN Ranges ELSE {NoRange}) :
          walk' = [op |-> op, path |-> path, fs |-> fs, range |-> r,
                   depth |-> 0, ino |-> Root, seen |-> 0, result |-> 0]
    BY <1>6, Zenon DEF Begin
  <2>2. fs # <<>> /\ fs.valid /\ op \notin Unimplemented /\ answer' = <<>>
    BY <1>1, <1>6, Zenon DEF Begin
  <2>3. fs \in Node
    <3>1. fs \in Range(registry)
      BY <2>2, FoundHandles, Zenon
    <3> QED
      BY <3>1 DEF Range
  <2>4. r \in ReadRanges
    BY CallAssumption DEF ReadRanges, NoRange
  <2>5. op \in {"read", "getSize", "exists", "getType"}
    BY <2>2
  <2> HIDE DEF fs
  <2>6. /\ walk' \in Walks
        /\ walk'.fs = fs /\ walk'.path = path /\ walk'.depth = 0 /\ walk'.ino = Root
        /\ walk'.seen = 0 /\ walk'.result = 0
    BY <2>1, <2>3, <2>4, <2>5 DEF Walks, Root
  <2>7. OnChain(Image(fs), path, 0, Root)
    BY <2>2, <2>3, NodeImage, RootOnChain, Zenon
  <2>8. 0 <= Len(Components(path))
    <3>1. Components(path) \in Seq(STRING)
      BY PathNames, Zenon
    <3> QED
      BY <3>1
  <2>9. WalkInv'
    BY <1>1, <1>2, <2>2, <2>6, <2>7, <2>8, Zenon DEF WalkInv
  <2>10. AnswersSound'
    BY <1>3, <2>2, Zenon DEF AnswersSound, SizeRight, ReadExact, BufferKept, Asked
  <2> QED
    BY <1>3, <2>9, <2>10, Zenon DEF AnswersInv
<1> QED
  BY <1>4, <1>5, <1>6, Zenon DEF Operation

\* One name further.
LEMMA DescendSound ==
  ASSUME AnswersInv, Descend
  PROVE  AnswersInv'
<1> DEFINE names == Components(walk.path)
           image == Image(walk.fs)
           next == getINodeNumber(image, walk.path, walk.ino, walk.depth + 1)
<1>1. /\ walk # <<>> /\ walk.depth < Len(names) /\ answer' = answer /\ buffer' = buffer
      /\ walk' = [walk EXCEPT !.depth = walk.depth + 1, !.ino = next]
  BY Zenon DEF Descend
<1>2. /\ answer = <<>> /\ walk \in Walks /\ walk.fs.valid
      /\ OnChain(image, walk.path, walk.depth, walk.ino)
      /\ walk.seen = 0 /\ walk.result = 0 /\ buffer = Untouched
      /\ DOMAIN buffer = -Span .. Span
  BY <1>1, Zenon DEF AnswersInv, WalkInv
<1>3. walk.path \in Paths /\ walk.fs \in Node /\ walk.depth \in Nat
  BY <1>2 DEF Walks
<1>4. Len(names) \in Nat
  <2>1. names \in Seq(STRING)
    BY <1>3, PathNames, Zenon
  <2> QED
    BY <2>1
<1>5. walk.depth \in 0 .. Len(names) - 1 /\ walk.depth + 1 <= Len(names)
  BY <1>1, <1>3, <1>4
<1>6. WellFormed(image)
  BY <1>2, <1>3, NodeImage, Zenon
<1>7. OnChain(image, walk.path, walk.depth + 1, next)
  <2> HIDE DEF image
  <2> QED
    BY <1>2, <1>4, <1>5, <1>6, StepOnChain, Zenon DEF names, next
<1>8. next \in Int
  BY <1>6, <1>7 DEF OnChain, WellFormed, Missing, Garbage
<1> HIDE DEF names, image, next
<1>9. /\ walk' \in Walks /\ walk'.fs = walk.fs /\ walk'.path = walk.path
      /\ walk'.depth = walk.depth + 1 /\ walk'.ino = next
      /\ walk'.seen = 0 /\ walk'.result = 0 /\ walk'.range = walk.range
  <2>1. walk' = [op |-> walk.op, path |-> walk.path, fs |-> walk.fs, range |-> walk.range,
                 depth |-> walk.depth + 1, ino |-> next, seen |-> walk.seen,
                 result |-> walk.result]
    BY <1>1, <1>2 DEF Walks
  <2>2. walk' \in Walks
    BY <1>2, <1>3, <1>8, <2>1 DEF Walks
  <2> QED
    BY <1>2, <2>1, <2>2
<1>10. \A xs, r, x : Kept(xs, r, Untouched) /\ Right(x, xs, r, 0, Untouched)
  BY UntouchedKept, Zenon
<1>11. WalkInv'
  <2> DEFINE xs == Image(walk'.fs)[walk'.ino].extents
  <2>1. /\ Kept(xs, walk'.range, buffer')
        /\ Right(walk'.fs, xs, walk'.range, walk'.result, buffer')
    BY <1>1, <1>2, <1>9, <1>10, ZenonT(60)
  <2>2. /\ answer' = <<>> /\ walk' \in Walks /\ walk'.fs.valid
        /\ walk'.depth <= Len(Components(walk'.path))
        /\ OnChain(Image(walk'.fs), walk'.path, walk'.depth, walk'.ino)
    BY <1>1, <1>2, <1>5, <1>7, <1>9, Zenon DEF names, image
  <2> QED
    BY <1>1, <1>2, <1>9, <2>1, <2>2, Zenon DEF WalkInv
<1>12. AnswersSound'
  BY <1>1, <1>2, Zenon DEF AnswersSound, SizeRight, ReadExact, BufferKept, Asked
<1> QED
  BY <1>1, <1>2, <1>11, <1>12, Zenon DEF AnswersInv

LEMMA OverlapWhole ==
  ASSUME NEW e \in Extents, NEW r \in ReadRanges
  PROVE  Overlap(e, r).to - Overlap(e, r).from \in Int
<1>1. e.at \in Nat /\ e.len \in Nat /\ r.off \in Nat /\ r.n \in Nat
  BY CallAssumption DEF Extents, ReadRanges
<1>2. Later(e.at, r.off) \in Nat /\ Earlier(e.at + e.len, r.off + r.n) \in Nat
  BY <1>1, OverlapBounds, Zenon
<1>3. Overlap(e, r) = [from |-> Later(e.at, r.off),
                       to |-> Earlier(e.at + e.len, r.off + r.n)]
  BY Zenon DEF Overlap, Later, Earlier
<1> QED
  BY <1>2, <1>3

LEMMA PartitionReadResult ==
  ASSUME NEW fs, NEW pos, NEW n
  PROVE  PartitionRead(fs, pos, n) \in {-1, n}
<1> DEFINE whole == n > Disks[fs.disk].parts[fs.part].size
                    \/ Disks[fs.disk].parts[fs.part].offset + pos + n > Disks[fs.disk].size
<1>1. PartitionRead(fs, pos, n) = IF whole THEN -1 ELSE n
  BY Zenon DEF PartitionRead
<1> HIDE DEF whole
<1> QED
  BY <1>1

\* One extent further.
LEMMA ReadExtentSound ==
  ASSUME AnswersInv, ReadExtent
  PROVE  AnswersInv'
<1> DEFINE image == Image(walk.fs)
           inode == image[walk.ino]
           xs == inode.extents
           r == walk.range
           k == (walk.seen % Len(xs)) + 1
           e == Travelled(inode, walk.seen)
           o == Overlap(e, r)
           n == o.to - o.from
           pos == e.pos + o.from
           at == r.off - o.from
<1>1. /\ Located /\ walk.op = "read" /\ walk.ino >= 0 /\ walk.seen < Calls(inode)
      /\ answer' = answer
  BY Zenon DEF ReadExtent
<1>2. PICK got \in (IF n <= 0 THEN {0} ELSE {-1, PartitionRead(walk.fs, pos, n)}) :
        /\ walk' = [walk EXCEPT !.seen = @ + 1, !.result = @ + got]
        /\ buffer' = [i \in DOMAIN buffer |->
                        IF got > 0 /\ i - at \in 0 .. n - 1
                        THEN Place(walk.fs, pos + i - at) ELSE buffer[i]]
  BY Zenon DEF ReadExtent
<1>3. /\ walk # <<>> /\ walk.depth = Len(Components(walk.path))
      /\ answer = <<>> /\ walk \in Walks /\ walk.fs.valid
      /\ OnChain(image, walk.path, walk.depth, walk.ino)
      /\ walk.ino \in DOMAIN image =>
           Kept(xs, r, buffer) /\ Right(walk.fs, xs, r, walk.result, buffer)
      /\ DOMAIN buffer = -Span .. Span
  BY <1>1, Zenon DEF AnswersInv, WalkInv, Located
<1>4. /\ walk.fs \in Node /\ walk.path \in Paths /\ walk.ino \in Int /\ walk.seen \in Nat
      /\ walk.result \in Int /\ r \in ReadRanges /\ walk.depth \in Nat
  BY <1>3 DEF Walks
<1>5. WellFormed(image) /\ Offset(walk.fs) \in Nat
  BY <1>3, <1>4, NodeImage, Zenon
<1>6. walk.ino \in DOMAIN image
  BY <1>1, <1>3 DEF OnChain, Missing, Garbage
<1>7. /\ xs \in Seq(Extents) /\ inode.visits \in Nat
      /\ \A l \in DOMAIN xs : \A j \in 1 .. l - 1 : xs[j].at + xs[j].len <= xs[l].at
  BY <1>5, <1>6, Zenon DEF WellFormed, Extents
<1>8. k \in 1 .. Len(xs) /\ e = xs[k]
  <2>1. Len(xs) \in Nat
    BY <1>7
  <2>2. walk.seen < inode.visits * Len(xs)
    BY <1>1 DEF Calls
  <2>3. e = xs[k]
    BY Zenon DEF Travelled
  <2> HIDE DEF xs, inode, e
  <2>4. Len(xs) # 0
    BY <1>4, <1>7, <2>2
  <2>5. walk.seen % Len(xs) \in 0 .. Len(xs) - 1
    BY <1>4, <2>1, <2>4, SMTT(60)
  <2> QED
    BY <2>1, <2>3, <2>5
<1>9. Overlap(xs[k], r) = [from |-> o.from, to |-> o.to]
  BY <1>8 DEF Overlap
<1>10. (n <= 0 => got = 0) /\ (n > 0 => got \in {-1, n})
  <2> DEFINE whole == PartitionRead(walk.fs, pos, n)
  <2>1. whole \in {-1, n}
    BY PartitionReadResult, Zenon
  <2>2. got \in IF n <= 0 THEN {0} ELSE {-1, whole}
    BY Zenon
  <2>3. n \in Int
    <3>1. xs[k] \in Extents
      <4> HIDE DEF xs, k, n, whole
      <4> QED
        BY <1>7, <1>8, SMTT(60)
    <3> QED
      BY <1>4, <1>8, <3>1, OverlapWhole, ZenonT(60)
  <2> HIDE DEF whole, n
  <2> QED
    BY <2>1, <2>2, <2>3
<1>11. /\ walk.result + got \in Int /\ DOMAIN buffer' = -Span .. Span
       /\ Kept(xs, r, buffer') /\ Right(walk.fs, xs, r, walk.result + got, buffer')
  <2> DEFINE from == o.from
             to == o.to
  <2>1. buffer' = [i \in DOMAIN buffer |->
                     IF got > 0 /\ i - (r.off - from) \in 0 .. n - 1
                     THEN Place(walk.fs, (xs[k].pos + from) + i - (r.off - from))
                     ELSE buffer[i]]
    BY <1>2, <1>8, Zenon
  <2>2. n = to - from
    BY Zenon
  <2>3. /\ Kept(xs, r, buffer) /\ Right(walk.fs, xs, r, walk.result, buffer)
        /\ DOMAIN buffer = -Span .. Span
    BY <1>3, <1>6, Zenon
  <2>4. Overlap(xs[k], r) = [from |-> from, to |-> to]
    BY <1>9, Zenon
  <2> HIDE DEF from, to, n, xs, r, k
  <2>5. xs \in Seq(Extents) /\ k \in 1 .. Len(xs)
        /\ \A l \in DOMAIN xs : \A j \in 1 .. l - 1 : xs[j].at + xs[j].len <= xs[l].at
    BY <1>7, <1>8, Zenon
  <2>6. (n <= 0 => got = 0) /\ (n > 0 => got \in {-1, n})
    BY <1>10, Zenon
  <2> DEFINE fs == walk.fs
             result == walk.result
             c == Received(buffer, fs, xs[k].pos + from, r.off - from, n, got)
  <2>7. Offset(fs) \in Nat /\ r \in ReadRanges /\ result \in Int
    BY <1>4, <1>5, Zenon
  <2>8. ReadSoFar(fs, xs, r, result, buffer)
    BY <2>3, <2>7, Zenon DEF ReadSoFar
  <2>9. buffer' = c
    BY <2>1, Zenon DEF Received
  <2> HIDE DEF fs, result
  <2>10. ReadSoFar(fs, xs, r, result + got, c)
    BY <2>2, <2>4, <2>5, <2>6, <2>7, <2>8, ExtentRead, ZenonT(60)
  <2> HIDE DEF c
  <2> QED
    BY <2>9, <2>10, Zenon DEF ReadSoFar, fs, result
<1>12. /\ walk' \in Walks /\ walk'.fs = walk.fs /\ walk'.path = walk.path
       /\ walk'.depth = walk.depth /\ walk'.ino = walk.ino /\ walk'.range = r
       /\ walk'.seen = walk.seen + 1 /\ walk'.result = walk.result + got
  <2>1. walk' = [op |-> walk.op, path |-> walk.path, fs |-> walk.fs, range |-> walk.range,
                 depth |-> walk.depth, ino |-> walk.ino, seen |-> walk.seen + 1,
                 result |-> walk.result + got]
    BY <1>2, <1>3 DEF Walks
  <2>2. walk' \in Walks
    BY <1>3, <1>4, <1>11, <2>1 DEF Walks
  <2> QED
    BY <2>1, <2>2
<1>13. /\ walk'.seen # 0 /\ walk'.depth <= Len(Components(walk'.path))
       /\ ~(walk'.depth < Len(Components(walk'.path)))
  BY <1>3, <1>4, <1>12, SMTT(60)
<1>14. WalkInv'
  BY <1>1, <1>3, <1>11, <1>12, <1>13, Zenon DEF WalkInv
<1>15. AnswersSound'
  BY <1>1, <1>3, <1>11, Zenon DEF AnswersSound, SizeRight, ReadExact, BufferKept, Asked
<1> QED
  BY <1>11, <1>14, <1>15, Zenon DEF AnswersInv

LEMMA AnswersInit == Init => AnswersInv
<1> SUFFICES ASSUME Init PROVE AnswersInv
  OBVIOUS
<1>1. walk = <<>> /\ answer = <<>> /\ DOMAIN buffer = -Span .. Span
  BY UntouchedKept, Zenon DEF Init
<1> QED
  BY <1>1, QuietSound, Zenon DEF AnswersInv, WalkInv

LEMMA AnswersNext == Inv /\ AnswersInv /\ [Next]_vars => AnswersInv'
<1> SUFFICES ASSUME Inv, AnswersInv, [Next]_vars PROVE AnswersInv'
  OBVIOUS
<1>1. ASSUME UNCHANGED <<walk, answer, buffer>> PROVE AnswersInv'
  BY <1>1, ZenonT(60) DEF AnswersInv, AnswersSound, SizeRight, ReadExact, BufferKept, Asked, WalkInv
<1>2. ASSUME NEW d \in DOMAIN Disks, AddStorage(d) PROVE AnswersInv'
  BY <1>1, <1>2 DEF AddStorage
<1>3. CASE AddPartition \/ EndAdd
  BY <1>1, <1>3 DEF AddPartition, EndAdd
<1>4. ASSUME NEW op \in Unimplemented \cup {"read", "getSize", "exists", "getType"},
             NEW path \in Paths, Operation(op, path)
      PROVE  AnswersInv'
  <2>1. registry \in Seq(Node)
    BY Zenon DEF Inv, RegistryInv
  <2> QED
    BY <1>4, <2>1, OperationSound, Zenon
<1>5. CASE Descend
  BY <1>5, DescendSound
<1>6. CASE Metadata
  <2>1. PICK result \in CASE walk.op = "exists" -> {TRUE}
                           [] walk.op = "getSize" -> SizeOf(Image(walk.fs), walk.ino)
                           [] walk.op = "getType" -> TypeOf(Image(walk.fs), walk.ino) :
               End(result)
    BY <1>6, Zenon DEF Metadata
  <2>2. Located /\ walk.op # "read" /\ buffer' = buffer
    BY <1>6, Zenon DEF Metadata
  <2>3. walk.op = "getSize" => result \in SizeOf(Image(walk.fs), walk.ino)
    BY <2>1
  <2> QED
    BY <2>1, <2>2, <2>3, EndSound, Zenon DEF AnswersInv
<1>7. CASE ReadNothing
  <2>1. PICK result : End(result)
    BY <1>7, Zenon DEF ReadNothing
  <2>2. Located /\ walk.op = "read" /\ walk.ino < 0
    BY <1>7, Zenon DEF ReadNothing
  <2>3. DOMAIN buffer' = -Span .. Span
    BY <1>7 DEF ReadNothing, Untouched
  <2>4. walk.ino \notin DOMAIN Image(walk.fs) /\ walk.op # "getSize"
    <3>1. walk \in Walks /\ walk.fs.valid
      BY <2>2, Zenon DEF AnswersInv, WalkInv, Located
    <3>2. walk.fs \in Node
      BY <3>1 DEF Walks
    <3>3. WellFormed(Image(walk.fs))
      BY <3>1, <3>2, NodeImage, Zenon
    <3> QED
      BY <2>2, <3>3 DEF WellFormed
  <2> QED
    BY <2>1, <2>2, <2>3, <2>4, EndSound, Zenon DEF AnswersInv
<1>8. CASE ReadExtent
  BY <1>8, ReadExtentSound
<1>9. CASE EndRead
  <2>1. Located /\ walk.op = "read" /\ End(walk.result) /\ buffer' = buffer
    BY <1>9, Zenon DEF EndRead
  <2>2. walk.op # "getSize"
    BY <2>1
  <2> QED
    BY <2>1, <2>2, EndSound, Zenon DEF AnswersInv
<1>10. CASE Return
  <2>1. walk = <<>>
    <3>1. answer # <<>>
      BY <1>10 DEF Return
    <3> QED
      BY <3>1, Zenon DEF AnswersInv, WalkInv
  <2>2. walk' = <<>> /\ answer' = <<>> /\ buffer' = Untouched
    BY <1>10, <2>1, Zenon DEF Return
  <2>3. DOMAIN buffer' = -Span .. Span
    BY <2>2, UntouchedKept, Zenon
  <2>4. AnswersSound'
    BY <2>2, <2>3, Zenon DEF AnswersSound, SizeRight, ReadExact, BufferKept, Asked
  <2> QED
    BY <2>2, <2>3, <2>4, Zenon DEF AnswersInv, WalkInv
<1>11. CASE Halted \/ UNCHANGED vars
  BY <1>1, <1>11 DEF Halted, vars
<1> QED
  BY <1>2, <1>3, <1>4, <1>5, <1>6, <1>7, <1>8, <1>9, <1>10, <1>11, Zenon DEF Next

\* For every well-formed image: getSize of a path that denotes an inode is that
\* inode's size, a read inside a file's first extent that reports bytes has put
\* the file's bytes into the buffer, and memory outside the buffer is written
\* only if the range goes into a next extent; whichever reads of the disk fail.
THEOREM AnswersAreSound == Spec => []AnswersSound
<1>1. AnswersInv => AnswersSound
  BY DEF AnswersInv
<1> QED
  BY <1>1, AnswersInit, AnswersNext, InvHolds, PTL DEF Spec

-----------------------------------------------------------------------------
(***************************************************************************)
(* The command slots of the SATA driver.                                   *)
(***************************************************************************)
Issuing == {"ready", "readyError", "issue", "write"}
Waiting == {"wait", "waitError"}
StartingUp == {"found", "reset", "handoff", "probe", "absent"}

SlotTypes ==
  /\ DOMAIN table = Slots
  /\ ci \subseteq Slots /\ issue \subseteq Slots
  /\ pc \in Issuing \cup Waiting => slot \in Slots
  /\ errors \in Nat

\* Without an error the driver only ever uses the first slot, which is issued
\* exactly while it waits, and the device works on no other.
NoErrorInv ==
  /\ ~wild /\ ~err
  /\ serr => pc \in StartingUp
  /\ issue = {}
  /\ exec # None => exec \in ci
  /\ pc \in Issuing \cup Waiting => slot = 0
  /\ IF pc \in Waiting THEN ci \subseteq {0} ELSE ci = {}

SlotsInv == SlotTypes /\ (errors = 0 => NoErrorInv)

\* What findSlot returns is free, and it is the first slot if that is free.
LEMMA FoundSlotFree ==
  \/ findSlot = None
  \/ findSlot \in Slots /\ findSlot \notin ci
<1>1. CASE \E s \in Slots : Free(s)
  <2> DEFINE F == {s \in Slots : Free(s)}
  <2>1. F \subseteq Nat /\ F # {}
    BY <1>1 DEF Slots
  <2>2. PICK s \in F : \A t \in F : s <= t
    BY <2>1, LeastNatural, Zenon
  <2>3. \A t \in Slots : t < s => ~Free(t)
    BY <2>2 DEF Slots
  <2>4. \E x \in Slots : Free(x) /\ \A t \in Slots : t < x => ~Free(t)
    BY <2>2, <2>3, Zenon
  <2>5. findSlot = CHOOSE x \in Slots : Free(x) /\ \A t \in Slots : t < x => ~Free(t)
    BY <1>1, Zenon DEF findSlot
  <2>6. findSlot \in Slots /\ Free(findSlot)
    BY <2>4, <2>5, Zenon
  <2> QED
    BY <2>6 DEF Free
<1>2. CASE ~\E s \in Slots : Free(s)
  BY <1>2, Zenon DEF findSlot
<1> QED
  BY <1>1, <1>2

LEMMA FirstSlotFound ==
  ASSUME ci = {}
  PROVE  findSlot = 0
<1>1. 0 \in Slots /\ \A t \in Slots : ~(t < 0)
  BY SataAssumption DEF Slots
<1>2. \A s : Free(s)
  BY DEF Free
<1>3. \A s \in Slots : s = 0 \/ 0 < s
  BY DEF Slots
<1>4. \A x \in Slots : Free(x) /\ (\A t \in Slots : t < x => ~Free(t)) => x = 0
  BY <1>1, <1>2, <1>3, Zenon
<1>5. Free(0) /\ \A t \in Slots : t < 0 => ~Free(t)
  BY <1>1, <1>2, Zenon
<1>6. findSlot = CHOOSE x \in Slots : Free(x) /\ \A t \in Slots : t < x => ~Free(t)
  BY <1>1, <1>2, Zenon DEF findSlot
<1> QED
  BY <1>1, <1>4, <1>5, <1>6, Zenon

LEMMA SlotsInit == SataInit => SlotsInv
<1> SUFFICES ASSUME SataInit PROVE SlotsInv
  OBVIOUS
<1>1. SlotTypes
  BY DEF SataInit, SlotTypes, Issuing, Waiting
<1>2. NoErrorInv
  BY DEF SataInit, NoErrorInv, Issuing, Waiting, StartingUp
<1> QED
  BY <1>1, <1>2 DEF SlotsInv

\* How a job ends: with the next one, or with the call.
LEMMA FailsEnds ==
  ASSUME Fails
  PROVE  pc' \in {"absent", "idle", "next"}
BY DEF Fails

LEMMA SucceedsEnds ==
  ASSUME Succeeds
  PROVE  pc' \in {"absent", "idle", "next"}
<1>1. CASE Fails
  BY <1>1, FailsEnds
<1>2. CASE pc' \in {"idle", "next"}
  BY <1>2
<1> QED
  BY <1>1, <1>2 DEF Succeeds

\* The steps of the driver.
LEMMA DriverSlots ==
  ASSUME SlotsInv, DriverStep
  PROVE  /\ SlotsInv'
         /\ \A s \in ci : s \in ci' => table'[s] = table[s]
<1> USE DEF Issuing, Waiting, StartingUp
<1>1. CASE ResetController \/ ResetOver \/ HandoffOver \/ Probe \/ StartPort
  <2>1. /\ pc \in StartingUp \cup {"stop"} /\ pc' \in StartingUp \cup {"stop", "next"}
        /\ table' = table /\ ci' = ci /\ issue' = issue /\ errors' = errors
        /\ wild' = wild /\ err' = err /\ exec' = exec
        /\ serr' => serr /\ (pc \in StartingUp => pc' \in StartingUp)
    <3>1. CASE Probe
      <4>1. /\ pc = "probe" /\ pc' = IF hba.link THEN "stop" ELSE "absent"
            /\ serr' = (serr /\ ~hba.link)
            /\ UNCHANGED <<table, ci, issue, errors, wild, err, exec>>
        BY <3>1 DEF Probe, Goto, history
      <4>2. CASE hba.link
        BY <4>1, <4>2
      <4>3. CASE ~hba.link
        BY <4>1, <4>3
      <4> QED
        BY <4>2, <4>3
    <3>2. CASE ResetController \/ ResetOver \/ HandoffOver \/ StartPort
      BY <3>2 DEF ResetController, ResetOver, HandoffOver, StartPort, Goto, history
    <3> QED
      BY <1>1, <3>1, <3>2
  <2> QED
    BY <2>1 DEF SlotsInv, SlotTypes, NoErrorInv
<1>2. CASE Copy
  <2>1. /\ pc = "next" /\ pc' \in {"absent", "idle", "next"}
        /\ table' = table /\ ci' = ci /\ issue' = issue /\ errors' = errors
        /\ wild' = wild /\ err' = err /\ exec' = exec /\ serr' = serr
    BY <1>2, SucceedsEnds DEF Copy, Driver
  <2> QED
    BY <2>1 DEF SlotsInv, SlotTypes, NoErrorInv
<1>3. CASE Prepare
  <2>1. /\ pc = "next" /\ slot' = findSlot /\ ci' = ci /\ issue' = issue /\ errors' = errors
        /\ err' = err /\ exec' = exec /\ serr' = serr
    BY <1>3 DEF Prepare, Driver
  <2>2. CASE slot' = None
    <3>1. pc' \in {"absent", "idle", "next"} /\ table' = table /\ wild' = wild
      BY <1>3, <2>2, FailsEnds DEF Prepare
    <3> QED
      BY <2>1, <3>1 DEF SlotsInv, SlotTypes, NoErrorInv
  <2>3. CASE slot' # None
    <3>1. /\ pc' = "ready"
          /\ table' = [table EXCEPT ![slot'] = writeH2DCommand(Head(jobs))]
          /\ wild' = (wild \/ (slot' # 0 /\ Head(jobs).op # "identify"))
      BY <1>3, <2>3 DEF Prepare
    <3>2. slot' \in Slots /\ slot' \notin ci
      BY <2>1, <2>3, FoundSlotFree
    <3>3. errors = 0 => slot' = 0
      BY <2>1, FirstSlotFound DEF SlotsInv, NoErrorInv
    <3>4. DOMAIN table' = Slots /\ \A s \in ci : table'[s] = table[s]
      BY <3>1, <3>2 DEF SlotsInv, SlotTypes
    <3>5. SlotTypes'
      BY <2>1, <3>2, <3>4 DEF SlotsInv, SlotTypes
    <3>6. errors' = 0 => NoErrorInv'
      BY <2>1, <3>1, <3>3 DEF SlotsInv, NoErrorInv
    <3> QED
      BY <3>4, <3>5, <3>6 DEF SlotsInv
  <2> QED
    BY <2>2, <2>3
<1>4. CASE waitForFinish \/ waitForFinishError
  <2>1. /\ pc \in {"ready", "readyError"} /\ slot' = slot
        /\ table' = table /\ ci' = ci /\ issue' = issue /\ errors' = errors
        /\ wild' = wild /\ err' = err /\ exec' = exec /\ serr' = serr
    BY <1>4 DEF waitForFinish, waitForFinishError, Driver
  <2>2. pc' \in Issuing \cup {"absent", "idle", "next"}
    BY <1>4, FailsEnds DEF waitForFinish, waitForFinishError
  <2> QED
    BY <2>1, <2>2 DEF SlotsInv, SlotTypes, NoErrorInv
<1>5. CASE ReadIssue
  <2>1. /\ pc = "issue" /\ pc' = "write" /\ slot' = slot /\ issue' = ci
        /\ table' = table /\ ci' = ci /\ errors' = errors
        /\ wild' = wild /\ err' = err /\ exec' = exec /\ serr' = serr
    BY <1>5 DEF ReadIssue, Driver
  <2> QED
    BY <2>1 DEF SlotsInv, SlotTypes, NoErrorInv
<1>6. CASE WriteIssue
  <2>1. /\ pc = "write" /\ pc' = "wait" /\ slot' = slot /\ issue' = {}
        /\ table' = table /\ ci' = ci \cup issue \cup {slot} /\ errors' = errors
        /\ wild' = wild /\ err' = err /\ exec' = exec /\ serr' = serr
    BY <1>6 DEF WriteIssue, Driver
  <2> QED
    BY <2>1 DEF SlotsInv, SlotTypes, NoErrorInv
<1>7. CASE waitForTask
  <2>1. /\ pc = "wait" /\ slot' = slot
        /\ table' = table /\ ci' = ci /\ issue' = issue /\ errors' = errors
        /\ wild' = wild /\ err' = err /\ exec' = exec /\ serr' = serr
    BY <1>7 DEF waitForTask, Driver
  <2>2. \/ slot \notin ci /\ pc' \in {"absent", "idle", "next"}
        \/ pc' = "waitError"
    BY <1>7, SucceedsEnds DEF waitForTask, TaskOver
  <2> QED
    BY <2>1, <2>2 DEF SlotsInv, SlotTypes, NoErrorInv
<1>8. CASE waitForTaskError
  <2>1. /\ pc = "waitError" /\ slot' = slot
        /\ table' = table /\ ci' = ci /\ issue' = issue /\ errors' = errors
        /\ wild' = wild /\ err' = err /\ exec' = exec /\ serr' = serr
    BY <1>8 DEF waitForTaskError, Driver
  <2>2. \/ (serr \/ err) /\ pc' \in {"absent", "idle", "next"}
        \/ pc' = "wait"
    BY <1>8, FailsEnds DEF waitForTaskError, TaskFailed
  <2> QED
    BY <2>1, <2>2 DEF SlotsInv, SlotTypes, NoErrorInv
<1> QED
  BY <1>1, <1>2, <1>3, <1>4, <1>5, <1>6, <1>7, <1>8 DEF DriverStep

\* The steps of the controller and the disk, and a new call.
LEMMA DeviceSlots ==
  ASSUME SlotsInv, DeviceStep
  PROVE  SlotsInv' /\ table' = table
<1>1. CASE ResetDone \/ BiosReleases \/ PortStops
  <2>1. UNCHANGED <<pc, slot, issue, table, ci, exec, err, serr, errors, wild>>
    BY <1>1 DEF ResetDone, BiosReleases, PortStops, Settle, Controller, driver, history
  <2> QED
    BY <2>1 DEF SlotsInv, SlotTypes, NoErrorInv
<1>2. CASE Complete
  <2>1. /\ UNCHANGED <<pc, slot, issue, table, err, serr, errors, wild>>
        /\ ci' = ci \ {exec} /\ exec' = None
    BY <1>2 DEF Complete, Controller, driver, history
  <2> QED
    BY <2>1 DEF SlotsInv, SlotTypes, NoErrorInv
<1>3. CASE TaskError
  <2>1. UNCHANGED <<pc, slot, issue, table, ci>> /\ errors' = errors + 1
    BY <1>3 DEF TaskError, Controller, driver, history
  <2>2. errors \in Nat /\ errors' # 0
    BY <2>1 DEF SlotsInv, SlotTypes
  <2> QED
    BY <2>1, <2>2 DEF SlotsInv, SlotTypes
<1>4. ASSUME NEW s \in Slots, Start(s)
      PROVE  SlotsInv' /\ table' = table
  <2>1. /\ UNCHANGED <<pc, slot, issue, table, ci, serr, errors, wild>>
        /\ s \in ci /\ exec' = s /\ err' = FALSE
    BY <1>4 DEF Start, Controller, driver, history
  <2> QED
    BY <2>1 DEF SlotsInv, SlotTypes, NoErrorInv
<1> QED
  BY <1>1, <1>2, <1>3, <1>4 DEF DeviceStep

LEMMA OtherSlots ==
  ASSUME SlotsInv, LinkError \/ (\E r \in Requests : Call(r)) \/ UNCHANGED sataVars
  PROVE  SlotsInv' /\ table' = table
<1>1. CASE LinkError
  <2>1. UNCHANGED <<pc, slot, issue, table, ci>> /\ errors' = errors + 1
    BY <1>1 DEF LinkError, Controller, driver, history
  <2>2. errors \in Nat /\ errors' # 0
    BY <2>1 DEF SlotsInv, SlotTypes
  <2> QED
    BY <2>1, <2>2 DEF SlotsInv, SlotTypes
<1>2. ASSUME NEW r \in Requests, Call(r)
      PROVE  SlotsInv' /\ table' = table
  <2>1. /\ UNCHANGED <<slot, issue, table, ci, exec, err, serr, errors, wild>>
        /\ pc = "idle" /\ pc' \in {"idle", "next"}
    BY <1>2 DEF Call, device
  <2> QED
    BY <2>1 DEF SlotsInv, SlotTypes, NoErrorInv, Issuing, Waiting, StartingUp
<1>3. CASE UNCHANGED sataVars
  BY <1>3 DEF sataVars, driver, device, history, SlotsInv, SlotTypes, NoErrorInv
<1> QED
  BY <1>1, <1>2, <1>3

\* Each slot is given back: without an error no command is issued between two
\* calls, or written through another slot's header; and a command the controller
\* has been handed is not reprogrammed before the controller gives it back,
\* whatever fails.  findSlot, writeH2DCommand and the wait loops see to it
\* together, against a controller that takes commands in any order.
THEOREM SlotsAreGivenBack == SataSpec => SlotsGivenBack
<1>1. SlotsInv /\ [SataNext]_sataVars =>
        SlotsInv' /\ \A s \in ci : s \in ci' => table'[s] = table[s]
  <2> SUFFICES ASSUME SlotsInv, [SataNext]_sataVars
               PROVE  SlotsInv' /\ \A s \in ci : s \in ci' => table'[s] = table[s]
    OBVIOUS
  <2>1. CASE DriverStep
    BY <2>1, DriverSlots, Zenon
  <2>2. CASE DeviceStep
    BY <2>2, DeviceSlots, Zenon
  <2>3. CASE LinkError \/ (\E r \in Requests : Call(r)) \/ UNCHANGED sataVars
    BY <2>3, OtherSlots, Zenon
  <2> QED
    BY <2>1, <2>2, <2>3, Zenon DEF SataNext, Finished
<1>2. SlotsInv => (errors = 0 => ~wild /\ (pc = "idle" => ci = {}))
  BY DEF SlotsInv, NoErrorInv, Waiting
<1> QED
  BY <1>1, <1>2, SlotsInit, PTL DEF SataSpec, SlotsGivenBack
=============================================================================
