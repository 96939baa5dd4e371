------------------------------- MODULE Regions -------------------------------
(***************************************************************************)
(* The regions of src/src/Memory/physicalAllocator.cpp, runs of pages that *)
(* a MemoryRegionDescriptor describes, and lists of them.                  *)
(***************************************************************************)
EXTENDS Integers, SequencesExt

Region == [start : Nat, count : Nat]
End(r) == r.start + r.count
Pages(r) == r.start .. End(r) - 1

InOrder(l) == \A i, j \in 1 .. Len(l) : i < j => End(l[i]) <= l[j].start

\* What both lists begin with: the static descriptor in the null page.
StaticDescriptor == [start |-> 0, count |-> 0]
=============================================================================
