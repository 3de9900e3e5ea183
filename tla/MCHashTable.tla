---------------------------- MODULE MCHashTable ----------------------------
(* Instances of the hash table: few callstacks, and where their streams    *)
(* live.                                                                   *)
EXTENDS HashTable

TwoStacks == {<<1>>, <<2>>}

(* One callstack more than three internal buckets hold, that differ in     *)
(* their first entry, and two more that start like one of these.           *)
SixStacks == {<<1>>, <<1, 2>>, <<1, 3>>, <<2>>, <<3>>, <<4>>}

(* Every callstack has a stream of its own, as in the tests.               *)
OwnStream == [s \in Stacks |-> s]

(* All callstacks are passed in the variable s of insert().                *)
FrameStream == [s \in Stacks |-> "s"]

(* Callstacks with the same first entry have the same hash.                *)
Colliding == [s \in Stacks |-> s[1]]
=============================================================================
