----------------------------- MODULE MCSmpBoot -----------------------------
(* Machines for the start of the secondary processors. *)
EXTENDS SmpBoot

\* Machines whose ids only ever add bits to the low half of the destination,
\* as on every machine with two processors numbered 0 and 1.
NestedIds == {{0}, {0, 1}, {0, 1, 3}, {0, 1, 3, 7}, {0, 16, 32, 48}, {0, 2, 18, 34, 50}}

ASSUME NestedIdsNest == IdsNest
=============================================================================
