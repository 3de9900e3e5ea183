------------------------------ MODULE ChildMap ------------------------------
(***************************************************************************)
(* What an inner node of the radix tree promises its tree, whatever its    *)
(* layout: a partial function from bytes to children.  insert() adds a     *)
(* child for a byte that has none, and replaces the child of a byte that   *)
(* has one; nothing is ever removed (lib/art/art.c:4).                     *)
(***************************************************************************)
CONSTANTS Bytes, Children
VARIABLE children

Update(f, b, c) ==
  [x \in DOMAIN f \cup {b} |-> IF x = b THEN c ELSE f[x]]

Init == children = [b \in {} |-> b]

Put(b, c) ==
  /\ b \notin DOMAIN children
  /\ children' = Update(children, b, c)

Replace(b, c) ==
  /\ b \in DOMAIN children
  /\ children' = Update(children, b, c)

Next == \E b \in Bytes, c \in Children : Put(b, c) \/ Replace(b, c)

Spec == Init /\ [][Next]_children
=============================================================================
