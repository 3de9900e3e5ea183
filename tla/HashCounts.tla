----------------------------- MODULE HashCounts -----------------------------
(***************************************************************************)
(* What the hash table really promises: a table of counts, except that the *)
(* one insertion that exhausts the internal buckets sets every count back  *)
(* to one sighting, that callstacks with the same hash have one count from *)
(* then on, and that the table may fail when there are such callstacks.  A *)
(* failed table answers nothing.  inserts is the history of the            *)
(* insertions.                                                             *)
(***************************************************************************)
EXTENDS Naturals, FiniteSets

CONSTANTS Stacks, Hash
VARIABLES count, spilled, failed, inserts

Init ==
  /\ count = [s \in Stacks |-> 0]
  /\ spilled = FALSE
  /\ failed = FALSE
  /\ inserts = [s \in Stacks |-> 0]

Counted(s) == ~ failed /\ inserts' = [inserts EXCEPT ![s] = @ + 1]

Insert(s) ==
  /\ Counted(s)
  /\ count' = [t \in Stacks |-> IF t = s \/ (spilled /\ Hash[t] = Hash[s])
                                THEN count[t] + 1 ELSE count[t]]
  /\ UNCHANGED <<spilled, failed>>

(* A callstack that is not in the table is inserted.                       *)
Spill(s) ==
  /\ Counted(s)
  /\ ~ spilled /\ count[s] = 0
  /\ spilled' = TRUE
  /\ count' = [t \in Stacks |->
                 Cardinality({u \in Stacks : /\ u = s \/ count[u] > 0
                                             /\ Hash[u] = Hash[t]})]
  /\ UNCHANGED failed

(* Two callstacks that were inserted have the same hash.                   *)
Fail(s) ==
  /\ Counted(s)
  /\ spilled \/ count[s] = 0
  /\ \E t, u \in Stacks :
       t # u /\ Hash[t] = Hash[u] /\ inserts'[t] > 0 /\ inserts'[u] > 0
  /\ spilled' = TRUE /\ failed' = TRUE
  /\ count' = [t \in Stacks |-> 0]

Next == \E s \in Stacks : Insert(s) \/ Spill(s) \/ Fail(s)

Spec == Init /\ [][Next]_<<count, spilled, failed, inserts>>
=============================================================================
