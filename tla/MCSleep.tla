------------------------------ MODULE MCSleep ------------------------------
(* Instances of sleep(). *)
EXTENDS Sleep

\* Sleeps that outlast the CPU's way from the counter to hlt.
Longer == {2, 3, 5}
=============================================================================
