------------------------------ MODULE MCDriver ------------------------------
(* Instances of the driver.  The first has ids of trees that are added in  *)
(* several orders, and maps whose ids differ in the part that an int       *)
(* cannot hold, but also, by less than half of its range, in the rest.     *)
EXTENDS Driver

MCRecords == {[id |-> 2, maps |-> <<1, 3>>], [id |-> 5, maps |-> <<21, 21>>],
              [id |-> 3, maps |-> <<39, 1>>], [id |-> 4, maps |-> <<3, 6>>],
              [id |-> 2, maps |-> <<6, 39, 6>>],
              [id |-> 1, maps |-> <<21, 68>>]}

(* Two maps whose ids differ by twice the number of values of an int.      *)
FarRecords == {[id |-> 1, maps |-> <<1, 3>>], [id |-> 2, maps |-> <<33, 35>>],
               [id |-> 2, maps |-> <<3, 5, 1>>]}

(* The proofs about the driver suppose IdsFit: these records satisfy it.   *)
ASSUME IdsFitAssumption == Records = MCRecords => IdsFit
=============================================================================
