---------------------------- MODULE MCPageTable -----------------------------
(* Tables of four entries: two pages in two tables of level 1, two         *)
(* identity-mapped ones, a kernel image that fits and one that is too big.  *)
EXTENDS PageTable

AllFrames == 0 .. 14
AllocatorFrames == 10 .. 14
HeapPages == {128, 132}
IdentityPages == {4, 5}
ImageSizes == {4, 9}
=============================================================================
