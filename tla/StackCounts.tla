---------------------------- MODULE StackCounts ----------------------------
(***************************************************************************)
(* What every backend promises the driver (include/callstack.h): inserting *)
(* a callstack records one more sighting of that callstack, and of no      *)
(* other.  The count of a callstack that was never inserted is 0.  No      *)
(* insertion goes by without being counted: inserts is the history of the  *)
(* insertions, and changes with count only.                                *)
(***************************************************************************)
EXTENDS Naturals

CONSTANT Stacks
VARIABLES count, inserts

Init ==
  /\ count = [s \in Stacks |-> 0]
  /\ inserts = [s \in Stacks |-> 0]

Insert(s) ==
  /\ count' = [count EXCEPT ![s] = @ + 1]
  /\ inserts' = [inserts EXCEPT ![s] = @ + 1]

Next == \E s \in Stacks : Insert(s)

Spec == Init /\ [][Next]_<<count, inserts>>
=============================================================================
