----------------------------- MODULE PageTable ------------------------------
(***************************************************************************)
(* The page tables: src/src/Memory/pageTable.cpp, the window of            *)
(* src/src/Memory/tempMapping.cpp, and the tables made before them by      *)
(* src/src/main.asm and src/src/start.cpp.                                 *)
(*                                                                         *)
(* Addresses are page numbers.  A table has Fan entries (512 in the code), *)
(* `mem' is what lies in the frames, and the hardware walks the tables at  *)
(* any time to fill its TLB.  A call of map is a sequence of steps, since  *)
(* the walker can look at the tables between any two writes.               *)
(***************************************************************************)
EXTENDS Integers, FiniteSetsExt

CONSTANTS
  Fan,           \* entries of a table
  Frames,        \* frames that can hold tables
  FreeFrames,    \* frames the physical allocator has to give
  BufferPages,   \* pages of start.cpp's pageBuffer
  KernelSizes,   \* possible sizes of the kernel image, in pages
  MapPages,      \* pages the kernel maps: heap and processes
  LowPages,      \* pages of the identity mapping it may unmap
  Unmapped

Root == 1                   \* page_table_l4
LowL3 == 2                  \* page_table_l3
LowL2 == 3                  \* page_table_l2
BufferStart == 4            \* pageBuffer
InitPage == BufferStart + BufferPages + 1  \* pagingInitPageBuffer; the frame
                            \* before it is what lies behind pageBuffer
ImageStart == 100           \* physical_kernel_start
GiB == Fan * Fan            \* pages an entry of level 3 maps
Span4 == Fan * GiB          \* pages an entry of level 4 maps: 512GiB
KernelStart == Span4        \* 64Ti: kernel_start, a level-4 entry of its own
WindowStart == 3 * Span4    \* 96Ti
DeviceFrame == ImageStart - 1    \* a frame that is not memory

\* PagingAddress: the page number without its last, last two and last three
\* indices numbers the table of level 1, 2 and 3 the page is translated with.
Table1(v) == v \div Fan
Table2(v) == v \div GiB
Table3(v) == v \div Span4

\* PagingAddress: the index of page v in its table of level n.
Level(v, n) ==
  CASE n = 1 -> v % Fan
    [] n = 2 -> Table1(v) % Fan
    [] n = 3 -> Table2(v) % Fan
    [] n = 4 -> Table3(v) % Fan

\* The kernel image lies in one level-4 entry, the window reaches all frames,
\* and pageBuffer needs no third table of level 2 (it has 32 pages, a table 512
\* entries).
ASSUME PageAssumption ==
  /\ Fan \in Nat /\ Fan >= 4
  /\ BufferPages \in Nat /\ BufferPages >= 3 /\ BufferPages <= 2 * Fan + 3
  /\ Frames \subseteq 0 .. Span4 - 1 /\ 0 .. InitPage \subseteq Frames
  /\ FreeFrames \subseteq Frames \ (0 .. InitPage) /\ DeviceFrame \notin Frames
  /\ KernelSizes \subseteq 0 .. Span4 /\ KernelSizes # {}
  /\ \A v \in MapPages : v \in Nat /\ Table3(v) = 2
  /\ \A v \in LowPages : v \in Nat /\ Table2(v) = 0
  /\ Unmapped \notin Nat

VARIABLES
  mem,     \* frame -> index -> entry
  phase,   \* "boot" (start.cpp), "init" (PageTable::init), "run", "stopped"
  kernel,  \* size of the kernel image in pages
  placed,  \* kernel pages mapped so far
  index,   \* pages of pageBuffer used so far
  free,    \* frames of the physical allocator
  cur,     \* the map call in progress: what it maps and where it stands
  pc,      \* "idle", "walk", "present", "invalidate"
  tlb      \* page -> cached frame or Unmapped

vars == <<mem, phase, kernel, placed, index, free, cur, pc, tlb>>

Entry == [present : BOOLEAN, big : BOOLEAN, frame : Nat]
Clear(f) == [present |-> FALSE, big |-> FALSE, frame |-> f]
Link(f) == [present |-> TRUE, big |-> FALSE, frame |-> f]
Big(f) == [present |-> TRUE, big |-> TRUE, frame |-> f]

Indices == 0 .. Fan - 1
EmptyTable == [i \in Indices |-> Clear(0)]
Junk == [i \in Indices |-> Link(0)]     \* what a free frame may hold

KernelPages == KernelStart .. KernelStart + Max(KernelSizes) - 1
Pages == MapPages \cup LowPages \cup KernelPages

NoCall == [page |-> 0, frame |-> 0, table |-> 0, level |-> 0]

\* The identity mapping of main.asm, in big pages of level 2.
setup_paging_table == [i \in Indices |-> Big(i * Fan)]

Init ==
  /\ mem = [f \in Frames |->
              CASE f = Root -> [EmptyTable EXCEPT ![0] = Link(LowL3)]
                [] f = LowL3 -> [EmptyTable EXCEPT ![0] = Link(LowL2)]
                [] f = LowL2 -> setup_paging_table
                [] OTHER -> Junk]
  /\ phase = "boot"
  /\ kernel \in KernelSizes
  /\ placed = 0 /\ index = 0
  /\ free = FreeFrames
  /\ cur = NoCall /\ pc = "idle"
  /\ tlb = [v \in Pages |-> Unmapped]

-----------------------------------------------------------------------------
(***************************************************************************)
(* The walk of the hardware, and PageTable::getPhysicalAddress, which      *)
(* looks at bigPage before it looks at present and answers 0 for a page    *)
(* that is not mapped.                                                     *)
(***************************************************************************)
At(table, v, n) == mem[table][Level(v, n)]

Walk(v) ==
  LET e4 == At(Root, v, 4)
      e3 == At(e4.frame, v, 3)
      e2 == At(e3.frame, v, 2)
      e1 == At(e2.frame, v, 1)
  IN  CASE ~e4.present -> Unmapped
        [] e4.present /\ ~e3.present -> Unmapped
        [] e4.present /\ e3.present /\ e3.big -> e3.frame + (v % GiB)
        [] OTHER -> CASE ~e2.present -> Unmapped
                      [] e2.present /\ e2.big -> e2.frame + (v % Fan)
                      [] OTHER -> IF e1.present THEN e1.frame ELSE Unmapped

\* Faulty: the page's place in a big page of level 2 is forgotten.
getPhysicalAddressBase(v) ==
  LET e4 == At(Root, v, 4)
      e3 == At(e4.frame, v, 3)
      e2 == At(e3.frame, v, 2)
      e1 == At(e2.frame, v, 1)
  IN  IF ~e4.present THEN 0 ELSE IF e3.big THEN e3.frame + (v % GiB)
      ELSE IF ~e3.present THEN 0 ELSE IF e2.big THEN e2.frame
      ELSE IF e2.present /\ e1.present THEN e1.frame ELSE 0

getPhysicalAddress(v) ==
  LET e4 == At(Root, v, 4)
      e3 == At(e4.frame, v, 3)
      e2 == At(e3.frame, v, 2)
      e1 == At(e2.frame, v, 1)
  IN  IF ~e4.present THEN 0 ELSE IF e3.big THEN e3.frame + (v % GiB)
      ELSE IF ~e3.present THEN 0 ELSE IF e2.big THEN e2.frame + (v % Fan)
      ELSE IF e2.present /\ e1.present THEN e1.frame ELSE 0

\* TempMemory::mapPages for the kernel: frame f seen through the window.
mapPages(f) == WindowStart + f

-----------------------------------------------------------------------------
Write(table, i, e) == mem' = [mem EXCEPT ![table][i] = e]
CurIndex == Level(cur.page, cur.level)
CurEntry == mem[cur.table][CurIndex]

Begin(v, f) ==
  /\ pc = "idle"
  /\ cur' = [page |-> v, frame |-> f, table |-> Root, level |-> 4]
  /\ pc' = "walk"

\* getLinkedPage and ensurePage when the entry is present.
Descend ==
  /\ pc = "walk" /\ cur.level > 1 /\ CurEntry.present
  /\ cur' = [cur EXCEPT !.table = CurEntry.frame, !.level = @ - 1]
  /\ UNCHANGED <<mem, phase, kernel, placed, index, free, pc, tlb>>

\* Faulty: the frame is linked as it was found.
FilledDirty(f, m) == m

Filled(f, m) == [m EXCEPT ![f] = EmptyTable]

\* Faulty: the table's frame stays with the allocator.
TakenKept(f) == free

Taken(f) == free \ {f}

\* allocatePage: a cleared frame of pageBuffer while booting, then one of the
\* physical allocator.  The entry is not present until it is complete.
LinkTable ==
  LET f == IF phase = "boot" THEN BufferStart + index ELSE Max(free) IN
  /\ pc = "walk" /\ cur.level > 1 /\ ~CurEntry.present
  /\ phase = "boot" \/ free # {}
  /\ mem' = Filled(f, [mem EXCEPT ![cur.table][CurIndex] = Link(f)])
  /\ IF phase = "boot" THEN index' = index + 1 /\ UNCHANGED free
     ELSE free' = Taken(f) /\ UNCHANGED index
  /\ cur' = [cur EXCEPT !.table = f, !.level = @ - 1]
  /\ UNCHANGED <<phase, kernel, placed, pc, tlb>>

\* allocatePhysicalMemory stops the kernel when there is no memory left.
OutOfMemory ==
  /\ pc = "walk" /\ cur.level > 1 /\ ~CurEntry.present
  /\ phase = "run" /\ free = {}
  /\ phase' = "stopped"
  /\ UNCHANGED <<mem, kernel, placed, index, free, cur, pc, tlb>>

-----------------------------------------------------------------------------
(***************************************************************************)
(* start.cpp: setPageTableForHighKernel maps the kernel image page by      *)
(* page; its map writes the last entry at once.                            *)
(***************************************************************************)
\* Faulty: only the level-4 table is counted besides those of level 1.
MaxKernelPagesLoose == (BufferPages - 1) * Fan

MaxKernelPages == (BufferPages - 3) * Fan

KernelTooBig ==
  /\ phase = "boot" /\ kernel > MaxKernelPages
  /\ phase' = "stopped"
  /\ UNCHANGED <<mem, kernel, placed, index, free, cur, pc, tlb>>

\* Faulty: one page too many is mapped.
MapKernelPageTooFar ==
  /\ phase = "boot" /\ kernel <= MaxKernelPages /\ placed <= kernel
  /\ Begin(KernelStart + placed, ImageStart + placed)
  /\ UNCHANGED <<mem, phase, kernel, placed, index, free, tlb>>

MapKernelPage ==
  /\ phase = "boot" /\ kernel <= MaxKernelPages /\ placed < kernel
  /\ Begin(KernelStart + placed, ImageStart + placed)
  /\ UNCHANGED <<mem, phase, kernel, placed, index, free, tlb>>

setAddress ==
  /\ phase = "boot" /\ pc = "walk" /\ cur.level = 1
  /\ Write(cur.table, CurIndex, Link(cur.frame))
  /\ tlb' = [tlb EXCEPT ![cur.page] = Unmapped]
  /\ placed' = placed + 1
  /\ pc' = "idle" /\ cur' = NoCall
  /\ UNCHANGED <<phase, kernel, index, free>>

BootDone ==
  /\ phase = "boot" /\ pc = "idle" /\ placed = kernel
  /\ kernel <= MaxKernelPages
  /\ phase' = "init"
  /\ UNCHANGED <<mem, kernel, placed, index, free, cur, pc, tlb>>

\* Faulty: the entries are not marked as big pages.
WindowEntrySmall(i) == Link(i * GiB)

WindowEntry(i) == Big(i * GiB)

\* PageTable::init: a page of its own, all of it big pages of level 3.
init ==
  /\ phase = "init"
  /\ mem' = [mem EXCEPT ![Root][Level(WindowStart, 4)] = Link(InitPage),
                        ![InitPage] = [i \in Indices |-> WindowEntry(i)]]
  /\ phase' = "run"
  /\ UNCHANGED <<kernel, placed, index, free, cur, pc, tlb>>

-----------------------------------------------------------------------------
(***************************************************************************)
(* PageTable::map.  The last entry is written as a number first, which     *)
(* clears all flags, and gets its flags one by one, present among them.    *)
(***************************************************************************)
\* Frames callers map: a new one, or one of a device.
CallerFrames == {DeviceFrame} \cup IF free = {} THEN {} ELSE {Max(free)}

\* No caller maps a page of the identity mapping while it is a big page.
map(v, f) ==
  /\ phase = "run" /\ Begin(v, f)
  /\ v \in LowPages => Walk(v) = Unmapped
  /\ free' = free \ {f}
  /\ UNCHANGED <<mem, phase, kernel, placed, index, tlb>>

WriteRaw ==
  /\ phase = "run" /\ pc = "walk" /\ cur.level = 1
  /\ Write(cur.table, CurIndex, Clear(cur.frame))
  /\ pc' = "present"
  /\ UNCHANGED <<phase, kernel, placed, index, free, cur, tlb>>

SetPresent ==
  /\ pc = "present"
  /\ Write(cur.table, CurIndex, Link(CurEntry.frame))
  /\ pc' = "invalidate"
  /\ UNCHANGED <<phase, kernel, placed, index, free, cur, tlb>>

\* Faulty: map returns without invalidating the page.
invalidatePageSkipped ==
  /\ pc = "invalidate"
  /\ pc' = "idle" /\ cur' = NoCall
  /\ UNCHANGED <<mem, phase, kernel, placed, index, free, tlb>>

invalidatePage ==
  /\ pc = "invalidate"
  /\ tlb' = [tlb EXCEPT ![cur.page] = Unmapped]
  /\ pc' = "idle" /\ cur' = NoCall
  /\ UNCHANGED <<mem, phase, kernel, placed, index, free>>

(***************************************************************************)
(* PageTable::unmap: the entry that maps the page, big or not, loses its   *)
(* present flag and nothing else; the TLB is left alone.                   *)
(***************************************************************************)
Absent(table, v, n) ==
  Write(table, Level(v, n), [At(table, v, n) EXCEPT !.present = FALSE])

unmap(v) ==
  LET e4 == At(Root, v, 4)
      e3 == At(e4.frame, v, 3)
      e2 == At(e3.frame, v, 2) IN
  /\ phase = "run" /\ pc = "idle"
  /\ e4.present /\ e3.present /\ e2.present
  /\ IF e2.big THEN Absent(e3.frame, v, 2) ELSE Absent(e2.frame, v, 1)
  /\ UNCHANGED <<phase, kernel, placed, index, free, cur, pc, tlb>>

-----------------------------------------------------------------------------
\* The processor caches a translation, or drops one, whenever it likes.
Fill(v) ==
  /\ phase # "stopped" /\ Walk(v) # Unmapped
  /\ tlb' = [tlb EXCEPT ![v] = Walk(v)]
  /\ UNCHANGED <<mem, phase, kernel, placed, index, free, cur, pc>>

Evict(v) ==
  /\ phase # "stopped" /\ tlb[v] # Unmapped
  /\ tlb' = [tlb EXCEPT ![v] = Unmapped]
  /\ UNCHANGED <<mem, phase, kernel, placed, index, free, cur, pc>>

Stopped == phase = "stopped" /\ UNCHANGED vars

Kernel ==
  \/ Descend \/ LinkTable \/ OutOfMemory
  \/ KernelTooBig \/ MapKernelPage \/ setAddress \/ BootDone \/ init
  \/ WriteRaw \/ SetPresent \/ invalidatePage
  \/ \E v \in MapPages \cup LowPages :
       unmap(v) \/ \E f \in CallerFrames : map(v, f)

Next == \/ Kernel \/ Stopped
        \/ \E v \in MapPages \cup LowPages : Fill(v) \/ Evict(v)

Spec == Init /\ [][Next]_vars

-----------------------------------------------------------------------------
\* Types.
TypeOK ==
  /\ mem \in [Frames -> [Indices -> Entry]]
  /\ phase \in {"boot", "init", "run", "stopped"}
  /\ kernel \in KernelSizes /\ placed \in 0 .. kernel /\ index \in Nat
  /\ free \subseteq FreeFrames
  /\ pc \in {"idle", "walk", "present", "invalidate"}
  /\ cur.table \in Frames /\ cur.level \in 0 .. 4
  /\ tlb \in [Pages -> Nat \cup {Unmapped}]

\* The kernel image that passes the size test of setPageTableForHighKernel
\* needs no more tables than pageBuffer has pages, and every page of it that
\* was mapped is mapped to its frame for good.
KernelImageMapped ==
  /\ index <= BufferPages
  /\ \A i \in 0 .. placed - 1 : Walk(KernelStart + i) = ImageStart + i

\* Once PageTable::init has run, the window shows every frame at the address
\* mapPages computes for it, whatever is mapped or unmapped meanwhile.
WindowComplete ==
  phase = "run" => \A f \in Frames : Walk(mapPages(f)) = f

\* What boot maps stays mapped: the kernel image and the window.
FixedMappingsKept == KernelImageMapped /\ WindowComplete

\* getPhysicalAddress agrees with the hardware, except for the pages of a big
\* page that was unmapped: for them it still answers the old frame.
StaleBigPage(v) ==
  LET e3 == At(At(Root, v, 4).frame, v, 3)
      e2 == At(e3.frame, v, 2)
  IN  At(Root, v, 4).present /\ e3.present /\ e2.big /\ ~e2.present

LookupAgrees ==
  \A v \in Pages :
    \/ StaleBigPage(v)
    \/ getPhysicalAddress(v) = IF Walk(v) = Unmapped THEN 0 ELSE Walk(v)

\* When no map is in progress a cached translation never contradicts a page
\* that is mapped: unmap leaves stale translations behind, but the next map
\* of the page removes them.
TlbNeverContradicts ==
  pc = "idle" =>
    \A v \in Pages : tlb[v] # Unmapped => Walk(v) \in {Unmapped, tlb[v]}

\* The tables a page is translated with.
TablesOf(v) ==
  LET e4 == At(Root, v, 4)
      e3 == At(e4.frame, v, 3)
      e2 == At(e3.frame, v, 2)
  IN  IF ~e4.present THEN {Root}
      ELSE IF ~e3.present THEN {Root, e4.frame}
      ELSE IF ~e2.present \/ e2.big THEN {Root, e4.frame, e3.frame}
      ELSE {Root, e4.frame, e3.frame, e2.frame}

\* No table lies in a frame the allocator may still give away, nor in one a
\* heap or process page is mapped to.
TablesNotShared ==
  \A v \in Pages :
    /\ TablesOf(v) \cap free = {}
    /\ \A u \in MapPages : Walk(u) \notin TablesOf(v)

\* The tables in memory are sound: types, a table is nothing but a table, and
\* the kernel reads them as the hardware does.
TablesSound == TypeOK /\ TablesNotShared /\ LookupAgrees

\* The tables implement a function from pages to frames: linking a table is
\* invisible, and mapping or unmapping a page leaves all others alone.
Abstract ==
  INSTANCE AddressSpace WITH
    space <- [v \in Pages |-> Walk(v)],
    target <- IF pc = "idle" THEN Unmapped ELSE cur.page,
    SameBigPage <- [v \in Pages |-> {p \in Pages : Table1(p) = Table1(v)}]

ImplementsAddressSpace == Abstract!Spec
=============================================================================
