----------------------------- MODULE BootMemory -----------------------------
(***************************************************************************)
(* How the free list comes about: PhysicalAllocator::readMultibootInfos of *)
(* src/src/Memory/physicalAllocator.cpp.  It reads the multiboot memory    *)
(* map three times (getStaticData, then the two passes of initMemoryInfos),*)
(* each time with one call of a callback per entry, and then cuts the      *)
(* kernel and the trampoline out of the list with setUsed.  A call of a    *)
(* callback is an action, and so is an iteration of setUsed's loop over    *)
(* the regions, one action per case of the code.                           *)
(*                                                                         *)
(* Addresses and lengths are in units of which PageSize make a page, so    *)
(* that rounding to pages is visible.                                      *)
(***************************************************************************)
EXTENDS Regions

CONSTANTS PageSize,        \* units per page
          Maps,            \* the memory maps: sequences of Entry
          Kernels,         \* possible extents of the kernel image
          Trampolines,     \* possible extents of the trampoline
          MaxDescriptors   \* descriptors that fit in the static info page

Usable == 1   \* the multiboot type of usable memory; 3 is ACPI, others unusable

IsUsable(e) == e.type = Usable

Entry == [base : Nat, length : Nat, type : Nat]
Extent == [start : Nat, length : Nat \ {0}]

\* What the code relies on in the firmware's map: entries in address order and
\* apart, and usable ones that start a page and have one besides the null page,
\* since their descriptor is written there.
InAddressOrder(m) ==
  \A i, j \in 1 .. Len(m) : i < j => m[i].base + m[i].length <= m[j].base
HasPages(e) ==
  /\ e.base % PageSize = 0
  /\ e.length >= (IF e.base = 0 THEN 2 ELSE 1) * PageSize

ASSUME BootAssumption ==
  /\ PageSize \in Nat \ {0} /\ MaxDescriptors \in Nat
  /\ Kernels \cup Trampolines \subseteq Extent
  /\ Maps \subseteq Seq(Entry)
  /\ \A m \in Maps :
       /\ InAddressOrder(m)
       /\ \A i \in 1 .. Len(m) : IsUsable(m[i]) => HasPages(m[i])

VARIABLES
  map,                \* the multiboot memory map (input)
  kernel,             \* physical_start and length of the kernel (input)
  trampoline,         \* trampolineStart and length (input)
  totalMemorySize, maxAddress, unusableRegionCount,
  unusable,           \* the table of unusable regions in the static info page
  bootList,           \* the free list; bootList[1] is the static descriptor
  phase,              \* the phase of readMultibootInfos
  position            \* the entry of the map, then setUsed's region, in turn

bootVars == <<map, kernel, trampoline, totalMemorySize, maxAddress,
              unusableRegionCount, unusable, bootList, phase, position>>

inputs == <<map, kernel, trampoline>>
statics == <<totalMemorySize, maxAddress, unusableRegionCount>>

BootInit ==
  /\ map \in Maps /\ kernel \in Kernels /\ trampoline \in Trampolines
  /\ totalMemorySize = 0 /\ maxAddress = 0 /\ unusableRegionCount = 0
  /\ unusable = <<>> /\ bootList = <<>>
  /\ phase = "getStaticData" /\ position = 1

-----------------------------------------------------------------------------
(***************************************************************************)
(* readMemoryInfos: the entries in turn.                                   *)
(***************************************************************************)
MapPasses == {"getStaticData", "unusablePass", "usablePass"}

entry == map[position]

Reading(pass) == phase = pass /\ position <= Len(map) /\ position' = position + 1
ReadAll(pass) == phase = pass /\ position > Len(map)

getStaticData ==
  /\ Reading("getStaticData")
  /\ \/ /\ IsUsable(entry)
        /\ totalMemorySize' = totalMemorySize + entry.length
        /\ maxAddress' = Max({maxAddress, entry.base + entry.length})
        /\ UNCHANGED unusableRegionCount
     \/ /\ ~IsUsable(entry)
        /\ unusableRegionCount' = unusableRegionCount + 1
        /\ UNCHANGED <<totalMemorySize, maxAddress>>
  /\ UNCHANGED <<inputs, unusable, bootList, phase>>

TooManyUnusable ==
  /\ ReadAll("getStaticData")
  /\ unusableRegionCount + 1 > MaxDescriptors
  /\ phase' = "stopped"
  /\ UNCHANGED <<inputs, statics, unusable, bootList, position>>

initMemoryInfos ==
  /\ ReadAll("getStaticData")
  /\ unusableRegionCount + 1 <= MaxDescriptors
  /\ bootList' = <<StaticDescriptor>>
  /\ phase' = "unusablePass" /\ position' = 1
  /\ UNCHANGED <<inputs, statics, unusable>>

UnusableRegion(e) ==
  [start |-> e.base \div PageSize, count |-> e.length \div PageSize]

\* The null page holds the static info, so a region that starts there loses it.
UsableRegion(e) ==
  LET base == IF e.base = 0 THEN PageSize ELSE e.base
      length == IF e.base = 0 THEN e.length - PageSize ELSE e.length
  IN  [start |-> base \div PageSize, count |-> length \div PageSize]

\* The first pass fills the table of unusable regions.
EnterUnusable ==
  /\ Reading("unusablePass")
  /\ unusable' = IF IsUsable(entry) THEN unusable
                 ELSE Append(unusable, UnusableRegion(entry))
  /\ UNCHANGED <<inputs, statics, bootList, phase>>

SecondPass ==
  /\ ReadAll("unusablePass")
  /\ phase' = "usablePass" /\ position' = 1
  /\ UNCHANGED <<inputs, statics, unusable, bootList>>

\* The second pass links a descriptor behind the last one.
LinkUsable ==
  /\ Reading("usablePass")
  /\ bootList' = IF IsUsable(entry) THEN Append(bootList, UsableRegion(entry))
                 ELSE bootList
  /\ UNCHANGED <<inputs, statics, unusable, phase>>

initMemoryInfosDone ==
  /\ ReadAll("usablePass")
  /\ phase' = "setUsedKernel" /\ position' = 2
  /\ UNCHANGED <<inputs, statics, unusable, bootList>>

-----------------------------------------------------------------------------
(***************************************************************************)
(* setUsed(start, length).  The extent is widened to whole pages and then  *)
(* by one more page at its end.                                            *)
(***************************************************************************)
FirstUsed(x) == x.start \div PageSize
\* Faulty: no spare page behind the extent.
AfterUsedTight(x) == (x.start + x.length + PageSize - 1) \div PageSize

AfterUsed(x) == (x.start + x.length + PageSize - 1) \div PageSize + 1

InUse == IF phase = "setUsedKernel" THEN kernel ELSE trampoline

a1 == FirstUsed(InUse)
a2 == AfterUsed(InUse)
b1 == bootList[position].start
b2 == End(bootList[position])

AtRegion == phase \in {"setUsedKernel", "setUsedTrampoline"} /\ position <= Len(bootList)

Apart == a2 <= b1 \/ b2 <= a1

\* Faulty: the loop does not move on.
Case1Stays == AtRegion /\ Apart /\ UNCHANGED <<bootList, position>>

\* case 1: the region is elsewhere
Case1 ==
  /\ AtRegion
  /\ Apart
  /\ position' = position + 1
  /\ UNCHANGED bootList

\* Faulty: a region with the extent's own end is not unlinked but skipped.
Case2KeepsRegion ==
  /\ AtRegion
  /\ ~Apart
  /\ a1 <= b1 /\ b2 <= a2
  /\ position' = position + 1
  /\ UNCHANGED bootList

\* case 2: the region is inside the extent and is unlinked
Case2 ==
  /\ AtRegion
  /\ ~Apart
  /\ a1 <= b1 /\ b2 <= a2
  /\ bootList' = RemoveAt(bootList, position)
  /\ UNCHANGED position

\* case 3: the region loses its front, and with it its descriptor
Case3 ==
  /\ AtRegion
  /\ ~Apart
  /\ a1 <= b1 /\ b2 > a2
  /\ bootList' = ReplaceAt(bootList, position, [start |-> a2, count |-> b2 - a2])
  /\ position' = position + 1

\* Faulty: the operands of the subtraction are swapped.
Case4Swapped ==
  /\ AtRegion
  /\ ~Apart
  /\ a1 > b1 /\ b2 <= a2
  /\ bootList' = ReplaceAt(bootList, position, [start |-> b1, count |-> b1 - a1])
  /\ position' = position + 1

\* case 4: the region loses its back
Case4 ==
  /\ AtRegion
  /\ ~Apart
  /\ a1 > b1 /\ b2 <= a2
  /\ bootList' = ReplaceAt(bootList, position, [start |-> b1, count |-> a1 - b1])
  /\ position' = position + 1

\* case 5: the extent splits the region; the new one is looked at next
Case5 ==
  /\ AtRegion
  /\ ~Apart
  /\ a1 > b1 /\ b2 > a2
  /\ bootList' = InsertAt(ReplaceAt(bootList, position,
                                    [start |-> b1, count |-> a1 - b1]),
                          position + 1, [start |-> a2, count |-> b2 - a2])
  /\ position' = position + 1

setUsedStep ==
  /\ Case1 \/ Case2 \/ Case3 \/ Case4 \/ Case5
  /\ UNCHANGED <<inputs, statics, unusable, phase>>

\* The end of a pass of setUsed: the kernel first, then the trampoline.
setUsedDone ==
  /\ phase \in {"setUsedKernel", "setUsedTrampoline"}
  /\ position > Len(bootList)
  /\ \/ phase = "setUsedKernel" /\ phase' = "setUsedTrampoline" /\ position' = 2
     \/ phase = "setUsedTrampoline" /\ phase' = "done" /\ position' = 0
  /\ UNCHANGED <<inputs, statics, unusable, bootList>>

Returned == phase \in {"done", "stopped"} /\ UNCHANGED bootVars

BootNext ==
  \/ getStaticData
  \/ TooManyUnusable
  \/ initMemoryInfos
  \/ EnterUnusable
  \/ SecondPass
  \/ LinkUsable
  \/ initMemoryInfosDone
  \/ setUsedStep
  \/ setUsedDone
  \/ Returned

BootSpec == BootInit /\ [][BootNext]_bootVars /\ WF_bootVars(BootNext)

-----------------------------------------------------------------------------
(***************************************************************************)
(* Properties                                                              *)
(***************************************************************************)
PagesLinked == UNION { Pages(bootList[i]) : i \in 2 .. Len(bootList) }

\* Pages all of whose units the extent x covers, and pages it reaches into.
WholePages(x) ==
  (x.base + PageSize - 1) \div PageSize .. (x.base + x.length) \div PageSize - 1
TouchedPages(x) ==
  x.start \div PageSize .. (x.start + x.length - 1) \div PageSize
SparePages(x) == FirstUsed(x) .. AfterUsed(x) - 1

Phases == MapPasses \cup {"setUsedKernel", "setUsedTrampoline", "done", "stopped"}

\* The types of the boot code's variables.
BootTypeOK ==
  /\ totalMemorySize \in Nat /\ maxAddress \in Nat
  /\ unusableRegionCount \in 0 .. Len(map)
  /\ unusable \in Seq(Region)
  /\ bootList \in Seq(Region)
  /\ phase \in Phases
  /\ position \in 0 .. 1 + (IF phase \in MapPasses \cup {"stopped"}
                          THEN Len(map) ELSE Len(bootList))

\* Types, and: when boot is done the list holds exactly the usable whole pages, without
\* the null page, and without the kernel, the trampoline and the spare page
\* setUsed adds behind each: nothing in use is free and nothing else is lost,
\* for every position of the two extents relative to the regions.
BootListExact ==
  /\ BootTypeOK
  /\ phase = "done" =>
       PagesLinked =
         (UNION { WholePages(e) : e \in { x \in Range(map) : IsUsable(x) } })
           \ ({0} \cup SparePages(kernel) \cup SparePages(trampoline))

\* What PhysicalAllocator assumes of its initial list, with the pages boot
\* keeps back as its Reserved: the static descriptor first, regions in address
\* order without overlap, no region or descriptor on a page of the kernel or
\* the trampoline, and the pages kept back in runs of two or more although
\* either image may fit in one page.
BootMeetsAllocator ==
  phase = "done" =>
    LET kept == SparePages(kernel) \cup SparePages(trampoline) IN
    /\ bootList[1] = StaticDescriptor
    /\ InOrder(bootList)
    /\ \A i \in 2 .. Len(bootList) :
         ({bootList[i].start} \cup Pages(bootList[i])) \cap kept = {}
    /\ TouchedPages(kernel) \cup TouchedPages(trampoline) \subseteq kept
    /\ \A p \in kept : p - 1 \in kept \/ p + 1 \in kept

\* readMultibootInfos returns or stops the kernel; setUsed's loop ends.
BootReturns == <>(phase \in {"done", "stopped"})
=============================================================================
