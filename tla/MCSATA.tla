------------------------------- MODULE MCSATA -------------------------------
(* Sectors of four bytes, two to a page; a disk of four sectors.            *)
EXTENDS SATA

Read(off, n, at) == [op |-> "read", off |-> off, n |-> n, at |-> at]
Write(off, n, at) == [op |-> "write", off |-> off, n |-> n, at |-> at]

ScratchAt(d) == (3 + 2 * d) * Page

\* One sector, three sectors over three pages, the whole disk; every kind of
\* misalignment alone, and together.
SomeRequests ==
  {Read(4, 8, 6), Read(0, 12, 6), Read(0, 16, 4), Read(5, 2, 0), Read(2, 7, 1),
   Write(4, 8, 4), Write(4, 6, 2), Write(2, 4, 0), Write(0, 4, 1)}

\* All pages in order; and the caller's second page elsewhere.
InOrder == [p \in 0 .. 8 |-> p + 1]
Apart == [p \in 0 .. 8 |-> IF p = 0 THEN 1 ELSE IF p \in 1 .. 2 THEN p + 2
                           ELSE IF p = 3 THEN 2 ELSE p + 1]
TwoLayouts == {InOrder, Apart}
=============================================================================
