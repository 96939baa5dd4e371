---------------------------- MODULE AddressSpace ----------------------------
(***************************************************************************)
(* What the page tables promise their users: a partial function from pages *)
(* to frames.  A page is mapped in two steps, since an entry that is       *)
(* written is first cleared; meanwhile no other page changes.  Removing a  *)
(* page may take pages of the same big page with it.                       *)
(***************************************************************************)
CONSTANTS Pages,          \* virtual pages
          Unmapped,       \* the value of a page that is not mapped
          SameBigPage     \* page -> the pages that share a big page with it

VARIABLES space,   \* page -> frame or Unmapped
          target   \* the page being mapped, or Unmapped

vars == <<space, target>>

Begin(v) ==
  /\ target = Unmapped
  /\ target' = v
  /\ UNCHANGED space

Clear ==
  /\ target # Unmapped
  /\ space' = [space EXCEPT ![target] = Unmapped]
  /\ UNCHANGED target

Install ==
  /\ target # Unmapped
  /\ space[target] = Unmapped
  /\ space'[target] # Unmapped
  /\ space' = [space EXCEPT ![target] = space'[target]]
  /\ target' \in {target, Unmapped}

End == target # Unmapped /\ target' = Unmapped /\ UNCHANGED space

Remove(v) ==
  /\ target = Unmapped
  /\ space' \in {[p \in Pages |-> IF p \in S THEN Unmapped ELSE space[p]] :
                   S \in {{v}, SameBigPage[v]}}
  /\ UNCHANGED target

Next == \/ Clear \/ Install \/ End
        \/ \E v \in Pages : Begin(v) \/ Remove(v)

Spec == [][Next]_vars
=============================================================================
