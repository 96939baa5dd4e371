---------------------------- MODULE MCKernelHeap ----------------------------
(* Instances of the kernel heap with pages of eight units. *)
EXTENDS KernelHeap

\* Requests up to just over two pages; the small one shares pages.
AllSizes == {2, 5, 8, 17}
=============================================================================
