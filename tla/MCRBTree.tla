----------------------------- MODULE MCRBTree ------------------------------
(* An instance of the red-black tree whose nodes are their own keys.  As   *)
(* get_tree() does, the search goes left when the node in the tree is less *)
(* than the one looked for.                                                *)
EXTENDS RBTree

MCNodes == 1 .. 8
Compare(m, n) == IF m < n THEN -1 ELSE IF m > n THEN 1 ELSE 0
=============================================================================
