---------------------------- MODULE ArtNodeSpec ----------------------------
(***************************************************************************)
(* The life of one inner node of the radix tree, as insert() of            *)
(* lib/art/art.c drives it: it is allocated as an INNER_4, it gets a child *)
(* for a byte that has none (growing first when it is full), and the link  *)
(* to an existing child is redirected when that child is split or grown.   *)
(***************************************************************************)
EXTENDS ArtNode

CONSTANT Children       \* the addresses a child pointer can hold

ASSUME NullAssumption == Null \notin Children

VARIABLES
  inner,    \* the node that the link of the parent points to
  aborted   \* an assert() failed and the program stopped

nodeVars == <<inner, aborted>>

NodeInit ==
  /\ inner = AllocNode("INNER_4")
  /\ aborted = FALSE

(* The "Add to inner node" branch of insert().                             *)
AddToInner(b, child) ==
  /\ ~ aborted
  /\ Child(inner, b) = Null
  /\ IF /\ IsFull(inner) => GrowAsserts(inner)
        /\ AddChildAsserts(MakeRoom(inner), b)
     THEN /\ inner' = AddChild(MakeRoom(inner), b, child)
          /\ UNCHANGED aborted
     ELSE /\ aborted' = TRUE
          /\ UNCHANGED inner

(* replace(_node, ...) through the slot that find_child() returned.        *)
Relink(b, child) ==
  /\ ~ aborted
  /\ Child(inner, b) # Null
  /\ inner' = [inner EXCEPT !.arr[FindChild(inner, b)] = child]
  /\ UNCHANGED aborted

NodeNext ==
  \E b \in Byte, child \in Children : AddToInner(b, child) \/ Relink(b, child)

NodeSpec == NodeInit /\ [][NodeNext]_nodeVars

-----------------------------------------------------------------------------

(* Type correctness: in particular key_len never exceeds the capacity of   *)
(* the layout and every index stays inside key[] and arr[].                *)
NodeTypeOK ==
  /\ IsInnerNode(inner, Children)
  /\ aborted \in BOOLEAN

(* The used slots are the slots with a child and belong to distinct bytes, *)
(* across every growth of the node: find_child() can neither return a slot *)
(* that add_child() will write over, nor miss a child.                     *)
LayoutInv == Layout(inner)

(* No assert() of add_child() or grow() fails on the insert() path.        *)
NeverAborts == ~ aborted

(* The layouts implement the partial function from bytes to children: a    *)
(* growth changes no lookup, adding a child changes one, a redirected link *)
(* changes one.                                                            *)
NodeMap == INSTANCE ChildMap WITH Bytes <- Byte, children <- ChildrenOf(inner)
ImplementsChildMap == NodeMap!Spec
=============================================================================
