---------------------------- MODULE MCInterrupts ----------------------------
(* Two PICs with two lines each, and two IOAPICs with two pins each.        *)
EXTENDS Interrupts, TLC

TwoIOAPICs == <<[base |-> 0, max |-> 1], [base |-> 2, max |-> 1]>>
TimerOverride == 0 :> 2
RoutedVectors == {1}
\* A line of each PIC.
FirstAndLast == {0, 3}

\* The hypotheses of the theorems about pins hold here.
ASSUME PinHypotheses == PinsDisjoint /\ PinsInWindow
=============================================================================
