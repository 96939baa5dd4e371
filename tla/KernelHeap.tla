----------------------------- MODULE KernelHeap -----------------------------
(***************************************************************************)
(* The kernel heap, src/src/Memory/heap.cpp.  Blocks form a doubly linked  *)
(* list in virtual memory from kernelHeapStart on; every block starts with *)
(* its PointerData header, and `blocks' is the list in link order without  *)
(* the dummy block in front of it.  Sizes are real sizes, header included. *)
(* kmalloc first looks for room behind a block in the page the block ends  *)
(* in, then for unused pages between two blocks, then goes behind the last *)
(* block.  kfree unlinks the block and reports pages as free; it never     *)
(* unmaps them.                                                            *)
(*                                                                         *)
(* The heap runs to completion on its caller's thread, so a call is one    *)
(* action.  Addresses are in units of which PageSize make a page.          *)
(***************************************************************************)
EXTENDS Integers, SequencesExt

CONSTANTS PageSize,    \* units per page
          HeapStart,   \* kernelHeapStart, a multiple of PageSize
          Sizes,       \* real sizes the callers ask for
          WordSize,    \* 2^64: page counts are computed modulo this
          MaxBlocks,   \* bound on the number of live blocks
          MaxFrames    \* frames the physical allocator has to give

ASSUME HeapAssumption ==
  /\ PageSize \in Nat \ {0} /\ HeapStart \in Nat \ {0}
  /\ HeapStart % PageSize = 0
  /\ Sizes \subseteq Nat \ {0} /\ WordSize \in Nat \ {0}
  /\ MaxBlocks \in Nat /\ MaxFrames \in Nat

VARIABLES
  blocks,     \* the list of blocks, in link order
  mapped,     \* virtual page -> physical frame, as PageTable::map set it
  frames,     \* frames taken from the physical allocator so far
  state,      \* "running", "faulted" (a header was written to a page that is
              \* not mapped) or "stopped" (no physical memory left)
  freed,      \* arguments of the last freePhysicalMemory call
  edges       \* history: the edge cases met, "wrap" (a negative difference of
              \* page indices) and "boundary" (a block was placed behind one
              \* that ends at a page boundary)

vars == <<blocks, mapped, frames, state, freed, edges>>

Block == [addr : Nat, size : Nat]
NoCall == [start |-> 0, count |-> 0]

Init ==
  /\ blocks = <<>>
  /\ mapped = <<>>
  /\ frames = 0
  /\ state = "running"
  /\ freed = NoCall
  /\ edges = {}

-----------------------------------------------------------------------------
End(b) == b.addr + b.size
PageOf(a) == a \div PageSize
RoundUp(a) == (a + PageSize - 1) \div PageSize     \* a page index
PageCount(n) == RoundUp(n)

\* data->nextVirtual and data->prevVirtual of the block at position i; the
\* dummy block, which precedes the first one, is outside the heap's addresses.
NextVirtual(i) == IF i < Len(blocks) THEN blocks[i + 1].addr ELSE 0
PrevVirtual(i) == IF i > 1 THEN blocks[i - 1].addr ELSE 1

(***************************************************************************)
(* kmalloc, first loop: room in the page the block ends in.                *)
(***************************************************************************)
EndPage(b) == PageOf(End(b)) * PageSize

\* Faulty: the successor is not looked for in the page.
FitsBehindUnchecked(i, n) ==
  /\ n <= PageSize \div 2
  /\ EndPage(blocks[i]) + PageSize - End(blocks[i]) > n

FitsBehind(i, n) ==
  /\ n <= PageSize \div 2
  /\ ~(/\ NextVirtual(i) > EndPage(blocks[i])
       /\ NextVirtual(i) < EndPage(blocks[i]) + PageSize)
  /\ EndPage(blocks[i]) + PageSize - End(blocks[i]) > n

FirstBehind(i, n) ==
  FitsBehind(i, n) /\ \A j \in 1 .. i - 1 : ~FitsBehind(j, n)

Link(i, a, n) == InsertAt(blocks, i + 1, [addr |-> a, size |-> n])

kmallocBehind(n) ==
  \E i \in 1 .. Len(blocks) :
    /\ FirstBehind(i, n)
    /\ blocks' = Link(i, End(blocks[i]), n)
    /\ state' = IF PageOf(End(blocks[i])) \in DOMAIN mapped
                THEN "running" ELSE "faulted"
    /\ edges' = edges \cup
                  {e \in {"boundary"} : End(blocks[i]) = EndPage(blocks[i])}
    /\ UNCHANGED <<mapped, frames>>

(***************************************************************************)
(* kmalloc, second loop and tail: fresh frames, mapped between two blocks  *)
(* or behind the last one.  The subtraction is unsigned.                   *)
(***************************************************************************)
UnusedPages(i) ==
  (PageOf(NextVirtual(i)) - RoundUp(End(blocks[i]))) % WordSize

FitsBetween(i, n) == UnusedPages(i) >= PageCount(n)

NoneBehind(n) == \A i \in 1 .. Len(blocks) : ~FitsBehind(i, n)

\* The page table once PageTable::map has entered the frames from frames on for
\* the count pages from page v on, replacing what was there.
Remapped(v, count) ==
  LET fresh == v .. v + count - 1
  IN  [p \in DOMAIN mapped \cup fresh |->
         IF p \in fresh THEN frames + (p - v) ELSE mapped[p]]

\* Faulty: physical memory never runs out.
MapFreshUnbounded(v, n) ==
  /\ frames' = frames + PageCount(n)
  /\ mapped' = Remapped(v, PageCount(n))
  /\ UNCHANGED state

\* Faulty: the last page of the block is not mapped.
MapFreshShort(v, n) ==
  /\ frames + PageCount(n) <= MaxFrames
  /\ frames' = frames + PageCount(n)
  /\ mapped' = Remapped(v, PageCount(n) - 1)
  /\ UNCHANGED state

\* allocatePhysicalMemory hands out frames numbered from frames on; they are
\* mapped from page v on.
MapFresh(v, n) ==
  /\ frames + PageCount(n) <= MaxFrames
  /\ frames' = frames + PageCount(n)
  /\ mapped' = Remapped(v, PageCount(n))
  /\ UNCHANGED state

kmallocBetween(n) ==
  /\ NoneBehind(n)
  /\ \E i \in 1 .. Len(blocks) - 1 :
       /\ FitsBetween(i, n)
       /\ \A j \in 1 .. i - 1 : ~FitsBetween(j, n)
       /\ MapFresh(RoundUp(End(blocks[i])), n)
       /\ blocks' = Link(i, RoundUp(End(blocks[i])) * PageSize, n)
       /\ edges' = edges \cup
            {e \in {"wrap"} : PageOf(NextVirtual(i)) < RoundUp(End(blocks[i]))}

BehindLast ==
  IF blocks = <<>> THEN PageOf(HeapStart) ELSE RoundUp(End(Last(blocks)))

kmallocAtEnd(n) ==
  /\ NoneBehind(n)
  /\ \A i \in 1 .. Len(blocks) - 1 : ~FitsBetween(i, n)
  /\ MapFresh(BehindLast, n)
  /\ blocks' = Append(blocks, [addr |-> BehindLast * PageSize, size |-> n])
  /\ UNCHANGED edges

\* allocatePhysicalMemory does not return when it has nothing to give.
kmallocStops(n) ==
  /\ NoneBehind(n)
  /\ frames + PageCount(n) > MaxFrames
  /\ state' = "stopped"
  /\ UNCHANGED <<blocks, mapped, frames, edges>>

kmalloc(n) ==
  /\ state = "running"
  /\ Len(blocks) < MaxBlocks
  /\ kmallocBehind(n) \/ kmallocBetween(n) \/ kmallocAtEnd(n) \/ kmallocStops(n)
  /\ UNCHANGED freed

(***************************************************************************)
(* kfree of a live block.  (A block that is not linked has both links 0    *)
(* and kfree returns at once.)                                             *)
(***************************************************************************)
ExtendedEnd(b) == (PageOf(End(b)) + 1) * PageSize
\* Faulty: one page more than the block spans.
SpannedPagesInclusive(b) == PageOf(ExtendedEnd(b)) - PageOf(b.addr) + 1

SpannedPages(b) == PageOf(ExtendedEnd(b)) - PageOf(b.addr)

EndPageUsed(i) ==
  /\ NextVirtual(i) # 0
  /\ NextVirtual(i) < ExtendedEnd(blocks[i])
  /\ NextVirtual(i) >= ExtendedEnd(blocks[i]) - PageSize

BeginPageUsed(i) ==
  /\ PrevVirtual(i) < blocks[i].addr + PageSize
  /\ PrevVirtual(i) >= blocks[i].addr

One(used) == IF used THEN 0 ELSE 1

\* The page range kfree passes to freePhysicalMemory, if it calls it.
FreedRange(i) ==
  LET b == blocks[i]
      first == PageOf(b.addr)
  IN  IF SpannedPages(b) = 1
      THEN IF EndPageUsed(i) \/ BeginPageUsed(i) THEN NoCall
           ELSE [start |-> first, count |-> 1]
      ELSE [start |-> first + 1 - One(BeginPageUsed(i)),
            count |-> SpannedPages(b) - 2 + One(BeginPageUsed(i))
                        + One(EndPageUsed(i))]

kfree(i) ==
  /\ state = "running"
  /\ freed' = FreedRange(i)
  /\ blocks' = RemoveAt(blocks, i)
  /\ UNCHANGED <<mapped, frames, state, edges>>

Halted == state # "running" /\ UNCHANGED vars

Next ==
  \/ \E n \in Sizes : kmalloc(n)
  \/ \E i \in 1 .. Len(blocks) : kfree(i)
  \/ Halted

Spec == Init /\ [][Next]_vars

-----------------------------------------------------------------------------
(***************************************************************************)
(* Properties                                                              *)
(***************************************************************************)
Bytes(b) == b.addr .. End(b) - 1
BlockPages(b) == PageOf(b.addr) .. PageOf(End(b) - 1)

\* The types of the heap's variables.
TypeOK ==
  /\ blocks \in Seq(Block)
  /\ DOMAIN mapped \subseteq Nat /\ \A p \in DOMAIN mapped : mapped[p] \in Nat
  /\ frames \in 0 .. MaxFrames
  /\ state \in {"running", "faulted", "stopped"}
  /\ freed \in [start : Nat, count : Nat]
  /\ edges \subseteq {"wrap", "boundary"}

\* Blocks that share no byte.
BlocksDisjoint ==
  \A i, j \in 1 .. Len(blocks) :
    i # j => Bytes(blocks[i]) \cap Bytes(blocks[j]) = {}

\* Live blocks never share memory, and links follow addresses, after any
\* sequence of kmalloc and kfree that met neither edge case: the unsigned
\* difference of heap.cpp:71 and a block's end at a page boundary
\* (heap.cpp:37-39) are the only ways for a block to be overwritten.
DisjointUnlessEdge ==
  edges = {} =>
    /\ BlocksDisjoint
    /\ \A i, j \in 1 .. Len(blocks) : i < j => End(blocks[i]) <= blocks[j].addr

\* Every page a live block reaches into is mapped, and to a frame of its own,
\* although kfree unmaps nothing and kmalloc maps over what was left: pages of
\* live blocks never alias the same physical memory.
BlocksBacked ==
  LET live == UNION { BlockPages(blocks[i]) : i \in 1 .. Len(blocks) }
  IN  edges = {} =>
        /\ state # "faulted"
        /\ live \subseteq DOMAIN mapped
        /\ \A p, q \in live : p # q => mapped[p] # mapped[q]

\* The heap is sound as long as neither edge case was met: types, blocks
\* disjoint and in order, and each backed by frames of its own.
HeapSound == TypeOK /\ DisjointUnlessEdge /\ BlocksBacked

\* A block that starts its page shares at most its last page, with its
\* successor: the range kfree reports free then holds no byte of a block that
\* stays alive.  (The test for a predecessor in the first page, heap.cpp:141,
\* is never true, so a block that does not start its page has no such promise.)
KfreeSparesNeighbours ==
  [][ \A i \in 1 .. Len(blocks) :
        edges = {} /\ blocks[i].addr % PageSize = 0 /\ kfree(i) =>
          \A j \in 1 .. Len(blocks') :
            BlockPages(blocks'[j])
              \cap (freed'.start .. freed'.start + freed'.count - 1) = {} ]_vars
=============================================================================
