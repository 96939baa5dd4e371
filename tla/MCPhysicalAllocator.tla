----------------------- MODULE MCPhysicalAllocator -----------------------
(***************************************************************************)
(* Small memories for the allocator.  All have the shape boot leaves on a  *)
(* PC: low memory from page 1 with the trampoline cut out of it, a hole,   *)
(* and memory above it.                                                    *)
(***************************************************************************)
EXTENDS PhysicalAllocator

\* Low memory cut by a reserved run of two pages, a hole, one region above.
CutList == << StaticDescriptor,
              [start |-> 1, count |-> 1],
              [start |-> 4, count |-> 3],
              [start |-> 8, count |-> 2],
              [start |-> 12, count |-> 2] >>
CutReserved == {2, 3, 10, 11}
CutUnusable == {[start |-> 10, count |-> 2]}

Symmetry == Permutations(Clients)
=============================================================================
