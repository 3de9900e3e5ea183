---------------------------- MODULE MCCallchain ----------------------------
(* An instance of the callchain tree: a set of callchains over few entries *)
(* that end inside one another, that branch at every position and that     *)
(* split a node that has children.                                         *)
EXTENDS CallchainSort

NestedChains == {<<1>>, <<1, 2>>, <<1, 2, 3>>, <<1, 2, 4>>, <<1, 3>>, <<2, 3>>}
=============================================================================
