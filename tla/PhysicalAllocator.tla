------------------------- MODULE PhysicalAllocator -------------------------
(***************************************************************************)
(* The kernel's physical page allocator, src/src/Memory/physicalAllocator. *)
(* cpp, after boot.  Free memory is a singly linked list of regions; the   *)
(* descriptor of a region lives in the region's own first page, and the    *)
(* list starts at a static descriptor in page 0 (start 0, no pages) that   *)
(* is never handed out.  A linked list whose nodes sit at their regions'   *)
(* starts is the sequence of its regions in link order, so `list' is that  *)
(* sequence, list[1] being the static descriptor.                          *)
(*                                                                         *)
(* Addresses are page indices.  allocatePhysicalMemory is one action.      *)
(* freePhysicalMemory is its search and insertion in one action, followed  *)
(* by one action per iteration of the loop that connects regions.          *)
(***************************************************************************)
EXTENDS Regions

CONSTANTS Clients,      \* callers that hold at most one allocation each
          NoRegion,     \* what a client holds that has no allocation
          Counts,       \* page counts the clients ask for
          InitialList,  \* the list readMultibootInfos leaves behind
          Unusable,     \* the table of unusable regions that follows list[1]
          Reserved,     \* pages that must never be handed out
          HeapPage,     \* a page index no physical page has (see FreeHeapAddress)
          MaxUsed       \* bound on usedMemorySize, which only grows

(***************************************************************************)
(* What boot guarantees (BootMemory checks it): the static descriptor is   *)
(* empty and at 0, the usable regions follow in address order without      *)
(* overlap, and none of them contains, or has its descriptor in, a         *)
(* reserved page.                                                          *)
(***************************************************************************)
AvoidsReserved(r) == r.start \notin Reserved /\ Pages(r) \cap Reserved = {}

ASSUME ConstantsAssumption ==
  /\ Counts \subseteq Nat \ {0}
  /\ Unusable \subseteq Region
  /\ Reserved \subseteq Nat
  /\ HeapPage \in Nat \ {0}
  /\ MaxUsed \in Nat
  /\ NoRegion \notin Region

ASSUME InitialListAssumption ==
  /\ InitialList \in Seq(Region)
  /\ Len(InitialList) > 0
  /\ InitialList[1] = StaticDescriptor
  /\ InOrder(InitialList)
  /\ \A i \in 2 .. Len(InitialList) : AvoidsReserved(InitialList[i])
  /\ End(InitialList[Len(InitialList)]) < HeapPage

VARIABLES
  list,            \* the free list, list[1] the static descriptor
  held,            \* the region each client was given and has not freed
  pc,              \* "ready", "merge" (in the connecting loop) or "stopped"
  cursor,          \* in the connecting loop: the position of `region'
  usedMemorySize,  \* the counter of that name
  swallowed        \* history: gap pages the connecting loop made free

vars == <<list, held, pc, cursor, usedMemorySize, swallowed>>

Init ==
  /\ list = InitialList
  /\ held = [c \in Clients |-> NoRegion]
  /\ pc = "ready"
  /\ cursor = 0
  /\ usedMemorySize = 0
  /\ swallowed = {}

-----------------------------------------------------------------------------
(***************************************************************************)
(* allocatePhysicalMemory.  The loop stops at a region without successor,  *)
(* so the last region is never considered.  Pages come from the back of    *)
(* the first region that is large enough; an emptied region is unlinked.   *)
(***************************************************************************)
\* Faulty: the loop runs to the last region as well.
SearchedAll == 2 .. Len(list)

Searched == 2 .. Len(list) - 1

IsFirstFit(i, n) ==
  /\ list[i].count >= n
  /\ \A j \in Searched : j < i => list[j].count < n

\* Faulty: the region keeps its size.
TakeWithoutShrinking(l, i, n) == IF l[i].count = n THEN RemoveAt(l, i) ELSE l

TakeFromBack(l, i, n) ==
  IF l[i].count = n
  THEN RemoveAt(l, i)
  ELSE ReplaceAt(l, i, [start |-> l[i].start, count |-> l[i].count - n])

Taken(l, i, n) == [start |-> End(l[i]) - n, count |-> n]

allocatePhysicalMemory(c, n) ==
  /\ pc = "ready"
  /\ held[c] = NoRegion
  /\ usedMemorySize + n <= MaxUsed
  /\ \E i \in Searched :
       /\ IsFirstFit(i, n)
       /\ held' = [held EXCEPT ![c] = Taken(list, i, n)]
       /\ list' = TakeFromBack(list, i, n)
  /\ usedMemorySize' = usedMemorySize + n
  /\ UNCHANGED <<pc, cursor, swallowed>>

\* No region fits: the kernel prints a message and calls stop().
OutOfMemory(n) ==
  /\ pc = "ready"
  /\ \A i \in Searched : list[i].count < n
  /\ pc' = "stopped"
  /\ UNCHANGED <<list, held, cursor, usedMemorySize, swallowed>>

-----------------------------------------------------------------------------
(***************************************************************************)
(* freePhysicalMemory(p, n).  "Touches" is the overlap test of the code: it *)
(* is inclusive at both ends, so a merely adjacent region touches too.     *)
(***************************************************************************)
Touches(r, p, n) == p <= End(r) /\ r.start <= p + n

InUnusable(p, n) == p = 0 \/ \E r \in Unusable : Touches(r, p, n)

\* Faulty: the end of the freed memory is not compared with the next region.
FitsAnywhereAfter(l, i, p, n) == i > 1 /\ End(l[i - 1]) < p

FitsBefore(l, i, p, n) ==
  /\ i > 1
  /\ End(l[i - 1]) < p
  /\ p + n < End(l[i])

StopsAt(i, p, n) == Touches(list[i], p, n) \/ FitsBefore(list, i, p, n)

\* The positions the search reaches before it stops; the last region is not
\* among them.
ReachedBySearch(i, p, n) ==
  \A j \in 1 .. Len(list) - 1 : j < i => ~StopsAt(j, p, n)

StartMerge == pc' = "merge" /\ cursor' = 1

\* Early return: part of the memory is unusable, or touches free memory.
FreeRejected(p, n) ==
  /\ \/ InUnusable(p, n)
     \/ \E i \in 1 .. Len(list) - 1 :
          ReachedBySearch(i, p, n) /\ Touches(list[i], p, n)
  /\ UNCHANGED <<list, pc, cursor>>

\* A place was found: the region becomes free, then regions are connected.
FreeInserted(p, n) ==
  /\ ~InUnusable(p, n)
  /\ \E i \in 1 .. Len(list) - 1 :
       /\ ReachedBySearch(i, p, n)
       /\ ~Touches(list[i], p, n)
       /\ FitsBefore(list, i, p, n)
       /\ list' = InsertAt(list, i, [start |-> p, count |-> n])
  /\ StartMerge

\* The search ran off the list: nothing is inserted, regions are connected.
FreeNotPlaced(p, n) ==
  /\ ~InUnusable(p, n)
  /\ ReachedBySearch(Len(list), p, n)
  /\ UNCHANGED list
  /\ StartMerge

freePhysicalMemory(p, n) ==
  /\ pc = "ready"
  /\ \/ FreeRejected(p, n)
     \/ FreeInserted(p, n)
     \/ FreeNotPlaced(p, n)
  /\ UNCHANGED <<usedMemorySize, swallowed>>

\* A client gives back what it was given.
FreeHeld(c) ==
  /\ held[c] # NoRegion
  /\ freePhysicalMemory(held[c].start, held[c].count)
  /\ held' = [held EXCEPT ![c] = NoRegion]

\* kfree passes the virtual address of a heap block (heap.cpp:159, 171); as a
\* page index that lies above all physical memory.
FreeHeapAddress(n) ==
  /\ freePhysicalMemory(HeapPage, n)
  /\ UNCHANGED held

-----------------------------------------------------------------------------
(***************************************************************************)
(* The loop that connects regions: one action per iteration, `region' at   *)
(* position cursor and `last' in front of it.                              *)
(***************************************************************************)
\* Faulty: a gap of two pages is taken for none.
ConnectsOverTwo(l, r) == End(l) + 2 = r.start

Connects(l, r) == End(l) + 1 = r.start

\* Faulty: the gap is counted as memory of the connected region.
ConnectedWithGap(l, r) == [start |-> l.start, count |-> l.count + r.count + 1]

Connected(l, r) == [start |-> l.start, count |-> l.count + r.count]

ConnectAt(l, i) ==
  RemoveAt(ReplaceAt(l, i - 1, Connected(l[i - 1], l[i])), i)

\* Faulty: region is not moved on.
MergeStays ==
  /\ pc = "merge"
  /\ cursor < Len(list)
  /\ cursor > 1 => ~Connects(list[cursor - 1], list[cursor])
  /\ UNCHANGED vars

MergeAdvance ==
  /\ pc = "merge"
  /\ cursor < Len(list)
  /\ cursor > 1 => ~Connects(list[cursor - 1], list[cursor])
  /\ cursor' = cursor + 1
  /\ UNCHANGED <<list, held, pc, usedMemorySize, swallowed>>

MergeConnect ==
  /\ pc = "merge"
  /\ cursor \in 2 .. Len(list) - 1
  /\ Connects(list[cursor - 1], list[cursor])
  /\ list' = ConnectAt(list, cursor)
  /\ swallowed' = swallowed \cup {End(list[cursor - 1])}
  /\ UNCHANGED <<held, pc, cursor, usedMemorySize>>

MergeDone ==
  /\ pc = "merge"
  /\ cursor = Len(list)
  /\ pc' = "ready"
  /\ cursor' = 0
  /\ UNCHANGED <<list, held, usedMemorySize, swallowed>>

MergeStep == MergeAdvance \/ MergeConnect \/ MergeDone

\* stop() never returns.
Halted == pc = "stopped" /\ UNCHANGED vars

Next ==
  \/ \E c \in Clients, n \in Counts : allocatePhysicalMemory(c, n)
  \/ \E n \in Counts : OutOfMemory(n)
  \/ \E c \in Clients : FreeHeld(c)
  \/ \E n \in Counts : FreeHeapAddress(n)
  \/ MergeStep
  \/ Halted

\* The allocator runs on the caller's thread: a call that was entered goes on.
Fairness == WF_vars(MergeStep)

Spec == Init /\ [][Next]_vars /\ Fairness

-----------------------------------------------------------------------------
(***************************************************************************)
(* Properties                                                              *)
(***************************************************************************)
Holders == { c \in Clients : held[c] # NoRegion }

\* The pages of a list's regions, and those in the clients' hands; a page that
\* two clients were given counts twice.
ListPages(l) == UNION { Pages(l[i]) : i \in 1 .. Len(l) }
InHands == UNION { {c} \X Pages(held[c]) : c \in Holders }

\* The types of the allocator's variables.
TypeOK ==
  /\ list \in Seq(Region)
  /\ Len(list) > 0
  /\ held \in [Clients -> Region \cup {NoRegion}]
  /\ pc \in {"ready", "merge", "stopped"}
  /\ cursor \in 0 .. Len(list)
  /\ usedMemorySize \in 0 .. MaxUsed
  /\ swallowed \subseteq Nat

\* The free list stays in address order and its regions never overlap,
\* whatever sequence of allocations, frees and connecting passes ran
\* (freePhysicalMemory's search relies on it and never checks it).
FreeListOrdered == InOrder(list)

\* Memory marked as used at boot (the kernel, the trampoline, holes) never
\* becomes allocatable and is never handed out.  The connecting loop takes a
\* one-page gap for free memory, so this needs reserved runs of two pages or
\* more: setUsed's extra page ("to be save") is what provides them.
ReservedStaysOut ==
  /\ \A i \in 2 .. Len(list) : AvoidsReserved(list[i])
  /\ \A c \in Holders : AvoidsReserved(held[c])

ReservedRunsOfTwo ==
  \A p \in Reserved : p > 0 => (p - 1 \in Reserved \/ p + 1 \in Reserved)

\* A page that the connecting loop never swallowed has one owner: it is in one
\* client's allocation or in the free list, never in two places.
SharedOnlyIfSwallowed ==
  /\ \A c \in Holders :
       \A i \in 2 .. Len(list) :
         Pages(held[c]) \cap Pages(list[i]) \subseteq swallowed
  /\ \A c, d \in Holders :
       c # d => Pages(held[c]) \cap Pages(held[d]) \subseteq swallowed

\* Frees and connecting passes may lose pages but never make any: the pages
\* on the list and in the clients' hands never exceed what boot found.
PagesNeverCreated ==
  Cardinality(ListPages(list)) + Cardinality(InHands)
    <= Cardinality(ListPages(InitialList))

\* No call ever changes the region at the end of the list: allocation skips
\* it, insertion stays in front of it and the connecting loop ends before it.
TopRegionNeverTouched ==
  [][list'[Len(list')] = list[Len(list)]]_vars

\* A connecting pass ends: the call to freePhysicalMemory returns.
MergePassEnds == pc = "merge" ~> pc = "ready"

(***************************************************************************)
(* A statement of the header that the code does not meet (see the finding) *)
(***************************************************************************)

\* physicalAllocator.hpp:18, "The allocated memory is marked as used": no two
\* clients hold the same page.
AllocatedIsUsed ==
  \A c, d \in Holders : c # d => Pages(held[c]) \cap Pages(held[d]) = {}
=============================================================================
