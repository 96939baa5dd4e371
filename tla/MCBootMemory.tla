---------------------------- MODULE MCBootMemory ----------------------------
(***************************************************************************)
(* Every memory map of up to MaxEntries entries with page-aligned bases    *)
(* over a small memory, in address order and without overlap, as firmware  *)
(* reports them; lengths need not be whole pages, but an entry has at least *)
(* one page besides the null page (a usable entry without a page would get *)
(* its descriptor written to memory that is not its own).                  *)
(***************************************************************************)
EXTENDS BootMemory

CONSTANTS MemoryPages,   \* size of the memory
          MaxEntries

Bases == { p * PageSize : p \in 0 .. MemoryPages - 1 }
MapEntry == { e \in [base : Bases, length : 1 .. MemoryPages * PageSize,
                     type : {1, 2, 3}] :
                /\ e.base + e.length <= MemoryPages * PageSize
                /\ e.length >= (IF e.base = 0 THEN 2 ELSE 1) * PageSize
                /\ e.type = 3 => e.length = PageSize }

MCMaps ==
  { m \in UNION { [1 .. n -> MapEntry] : n \in 1 .. MaxEntries } :
      InAddressOrder(m) }

MCExtents == [start : { p * PageSize : p \in 1 .. MemoryPages - 2 },
              length : {1, PageSize, PageSize + 1}]
MCKernels == MCExtents
MCTrampolines == [start : {PageSize, 2 * PageSize}, length : {PageSize}]
=============================================================================
