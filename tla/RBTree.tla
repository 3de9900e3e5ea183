------------------------------- MODULE RBTree -------------------------------
(***************************************************************************)
(* The red-black tree of lib/linux/rbtree.c, with the erasure of           *)
(* rbtree_augmented.h and the cached leftmost node of rbtree.h.            *)
(*                                                                         *)
(* Insertion and erasure are modelled store by store.  A step of the code  *)
(* that rewrites a part of the tree (a colour flip, a rotation) first      *)
(* reads what it needs and then stores in a fixed order: the step puts its *)
(* stores into op.stores, and Store executes them one at a time.  Between  *)
(* two stores the tree is as a lookup that does not wait would see it,     *)
(* which is what the notes on lockless lookups are about.                  *)
(*                                                                         *)
(* The code has two mirrored halves.  Here side is the side of its parent  *)
(* that a node is on, and Other(side) the opposite one, so that one        *)
(* definition stands for both.  A node is the structure that embeds a      *)
(* struct rb_node, and Cmp(m, n) is what the caller's search loop computes *)
(* from the key of the node m in the tree and that of the node n it looks  *)
(* for: -1 to go left, 1 to go right, 0 when it has found what it wants.   *)
(***************************************************************************)
EXTENDS Integers, SequencesExt, Functions

CONSTANTS
  Nodes,      \* the structures that can be in the tree
  Nil,        \* the null pointer
  Cmp(_, _)   \* the comparison of the caller's search loop

ASSUME NilIsNoNode == Nil \notin Nodes

VARIABLES
  tree,     \* struct rb_root_cached and the rb_node of every structure
  op,       \* the call in progress: its local variables and stores to do
  members   \* the structures that were added and not erased

vars == <<tree, op, members>>

Sides == {"left", "right"}
Other(side) == IF side = "left" THEN "right" ELSE "left"

(* __rb_parent_color is two fields here: the parent, and whether the node  *)
(* is red.                                                                 *)
Unlinked == [left |-> Nil, right |-> Nil, parent |-> Nil, red |-> FALSE]

(* RB_ROOT_CACHED.                                                         *)
EmptyTree == [root |-> Nil, leftmost |-> Nil, node |-> [n \in Nodes |-> Unlinked]]
Idle == [pc |-> "idle", node |-> Nil, parent |-> Nil, stores |-> <<>>]

Init ==
  /\ tree = EmptyTree
  /\ op = Idle
  /\ members = {}

Child(n, side) == tree.node[n][side]
Parent(n) == tree.node[n].parent
IsRed(n) == n # Nil /\ tree.node[n].red

-----------------------------------------------------------------------------
(* Stores, in the order in which a step makes them.                        *)

SetChild(n, side, to) == <<[field |-> side, at |-> n, to |-> to]>>

(* rb_set_parent_color().                                                  *)
SetParentColor(n, parent, red) ==
  <<[field |-> "pc", at |-> n, to |-> parent, red |-> red]>>

(* The stores that are made only if there is such a node.                  *)
IfNode(n, stores) == IF n = Nil THEN <<>> ELSE stores

(* rb_set_parent().                                                        *)
SetParent(n, parent) == SetParentColor(n, parent, IsRed(n))

(* __rb_change_child().                                                    *)
ChangeChild(old, new, parent) ==
  IF parent = Nil
  THEN <<[field |-> "root", to |-> new]>>
  ELSE SetChild(parent, IF Child(parent, "left") = old THEN "left" ELSE "right",
                new)

(* Mutant: the node above keeps its old child.                             *)
RotateSetParentsLoose(old, new, red) ==
  SetParentColor(new, Parent(old), IsRed(old)) \o SetParentColor(old, new, red)

(* __rb_rotate_set_parents(): the old top of a rotation hands its parent   *)
(* and its colour to the new one.                                          *)
RotateSetParents(old, new, red) ==
  SetParentColor(new, Parent(old), IsRed(old))
    \o SetParentColor(old, new, red)
    \o ChangeChild(old, new, Parent(old))

Executed(s) ==
  CASE s.field = "root" -> [tree EXCEPT !.root = s.to]
    [] s.field = "leftmost" -> [tree EXCEPT !.leftmost = s.to]
    [] s.field = "pc" ->
         [tree EXCEPT !.node[s.at] = [@ EXCEPT !.parent = s.to, !.red = s.red]]
    [] s.field \in Sides -> [tree EXCEPT !.node[s.at][s.field] = s.to]

(* The next store of the running step.                                     *)
Store ==
  /\ op.stores # <<>>
  /\ tree' = Executed(Head(op.stores))
  /\ op' = [op EXCEPT !.stores = Tail(@)]
  /\ UNCHANGED members

Continue(pc, node, parent, stores) ==
  /\ op' = [pc |-> pc, node |-> node, parent |-> parent, stores |-> stores]
  /\ UNCHANGED <<tree, members>>

-----------------------------------------------------------------------------
(* The search loop of a caller, as in rb_find_add().                       *)

(* Where the search for n ends: the node it finds, or the node below which *)
(* there is nothing, with the side, and whether it only ever went left.    *)
SearchFrom(n) ==
  LET search[m \in Nodes] ==
        LET side == IF Cmp(m, n) < 0 THEN "left" ELSE "right"
            below == search[Child(m, side)]
        IN  IF Cmp(m, n) = 0
            THEN [found |-> m, parent |-> Parent(m), side |-> side,
                  leftmost |-> FALSE]
            ELSE IF Child(m, side) = Nil
            THEN [found |-> Nil, parent |-> m, side |-> side,
                  leftmost |-> side = "left"]
            ELSE [below EXCEPT !.leftmost = @ /\ side = "left"]
  IN  search[tree.root]

Search(n) ==
  IF tree.root = Nil
  THEN [found |-> Nil, parent |-> Nil, side |-> "left", leftmost |-> TRUE]
  ELSE SearchFrom(n)

(* rb_link_node() and the beginning of rb_insert_color_cached().           *)
Link(n, at) ==
  SetParentColor(n, at.parent, TRUE)
    \o SetChild(n, "left", Nil) \o SetChild(n, "right", Nil)
    \o (IF at.parent = Nil THEN ChangeChild(Nil, n, Nil)
        ELSE SetChild(at.parent, at.side, n))
    \o (IF at.leftmost THEN <<[field |-> "leftmost", to |-> n]>> ELSE <<>>)

(* Mutant: every node that is linked on a left side is the leftmost.       *)
AddLeftish(n) ==
  LET at == Search(n)
  IN  /\ op.pc = "idle"
      /\ at.found = Nil
      /\ members' = members \cup {n}
      /\ op' = [pc |-> "insert", node |-> n, parent |-> at.parent,
                stores |-> Link(n, [at EXCEPT !.leftmost = at.side = "left"])]
      /\ UNCHANGED tree

(* A node that was not found is linked where the search ended.             *)
Add(n) ==
  LET at == Search(n)
  IN  /\ op.pc = "idle"
      /\ at.found = Nil
      /\ members' = members \cup {n}
      /\ op' = [pc |-> "insert", node |-> n, parent |-> at.parent,
                stores |-> Link(n, at)]
      /\ UNCHANGED tree

-----------------------------------------------------------------------------
(* __rb_insert(): one step is one iteration of its loop.                   *)

Inserting(node, parent) ==
  op.pc = "insert" /\ op.stores = <<>> /\ node = op.node /\ parent = op.parent

(* Mutant: the loop is not left.                                           *)
InsertDoneAgain(node, parent) ==
  /\ Inserting(node, parent)
  /\ ~ IsRed(parent)
  /\ Continue("insert", node, parent,
       IF parent = Nil THEN SetParentColor(node, Nil, FALSE) ELSE <<>>)

(* The inserted node is root, or the parent is black.                      *)
InsertDone(node, parent) ==
  /\ Inserting(node, parent)
  /\ ~ IsRed(parent)
  /\ Continue("done", Nil, Nil,
       IF parent = Nil THEN SetParentColor(node, Nil, FALSE) ELSE <<>>)

(* Mutant: the grandparent stays black.                                    *)
InsertFlipBlack(node, parent) ==
  LET gparent == Parent(parent)
      uncle == IF parent # Child(gparent, "right")
               THEN Child(gparent, "right") ELSE Child(gparent, "left")
  IN  /\ Inserting(node, parent)
      /\ IsRed(parent)
      /\ IsRed(uncle)
      /\ Continue("insert", gparent, Parent(gparent),
           SetParentColor(uncle, gparent, FALSE)
             \o SetParentColor(parent, gparent, FALSE))

(* Case 1: the uncle is red.  The colours flip, and the loop goes on at    *)
(* the grandparent.                                                        *)
InsertFlip(node, parent) ==
  LET gparent == Parent(parent)
      uncle == IF parent # Child(gparent, "right")
               THEN Child(gparent, "right") ELSE Child(gparent, "left")
  IN  /\ Inserting(node, parent)
      /\ IsRed(parent)
      /\ IsRed(uncle)
      /\ Continue("insert", gparent, Parent(gparent),
           SetParentColor(uncle, gparent, FALSE)
             \o SetParentColor(parent, gparent, FALSE)
             \o SetParentColor(gparent, Parent(gparent), TRUE))

(* Mutant: the inner grandchild keeps its old parent.                      *)
RotateAtGparentLoose(top, gparent, side, tmp) ==
  SetChild(gparent, side, tmp) \o SetChild(top, Other(side), gparent)
    \o RotateSetParents(gparent, top, TRUE)

(* Case 3: top goes up above gparent, which takes top's inner child tmp.   *)
RotateAtGparent(top, gparent, side, tmp) ==
  SetChild(gparent, side, tmp) \o SetChild(top, Other(side), gparent)
    \o IfNode(tmp, SetParentColor(tmp, gparent, FALSE))
    \o RotateSetParents(gparent, top, TRUE)

(* Mutant: the parent goes below the node while the node is below it.      *)
RotateAtParentEarly(node, parent, side) ==
  LET tmp == Child(node, side)
  IN  SetChild(node, side, parent) \o SetChild(parent, Other(side), tmp)
        \o IfNode(tmp, SetParentColor(tmp, parent, FALSE))
        \o SetParentColor(parent, node, TRUE)

(* Case 2: node goes up above its parent first.                            *)
RotateAtParent(node, parent, side) ==
  LET tmp == Child(node, side)
  IN  SetChild(parent, Other(side), tmp) \o SetChild(node, side, parent)
        \o IfNode(tmp, SetParentColor(tmp, parent, FALSE))
        \o SetParentColor(parent, node, TRUE)

(* Mutant: a node on the inner side is not moved to the outer side first.  *)
InsertRotateOnce(node, parent) ==
  LET gparent == Parent(parent)
      side == IF parent # Child(gparent, "right") THEN "left" ELSE "right"
  IN  /\ Inserting(node, parent)
      /\ IsRed(parent)
      /\ ~ IsRed(Child(gparent, Other(side)))
      /\ Continue("done", Nil, Nil,
           RotateAtGparent(parent, gparent, side, Child(parent, Other(side))))

(* Cases 2 and 3: the uncle is black.                                      *)
InsertRotate(node, parent) ==
  LET gparent == Parent(parent)
      side == IF parent # Child(gparent, "right") THEN "left" ELSE "right"
  IN  /\ Inserting(node, parent)
      /\ IsRed(parent)
      /\ ~ IsRed(Child(gparent, Other(side)))
      /\ Continue("done", Nil, Nil,
           IF node = Child(parent, Other(side))
           THEN RotateAtParent(node, parent, side)
                  \o RotateAtGparent(node, gparent, side, Child(node, Other(side)))
           ELSE RotateAtGparent(parent, gparent, side, Child(parent, Other(side))))

-----------------------------------------------------------------------------
(* Walking the tree.                                                       *)

(* The last node on the way from n down the given side.                    *)
Outermost(n, side) ==
  LET walk[m \in Nodes] ==
        IF Child(m, side) = Nil THEN m ELSE walk[Child(m, side)]
  IN  walk[n]

(* rb_first() and rb_last().                                               *)
First == IF tree.root = Nil THEN Nil ELSE Outermost(tree.root, "left")
Last_ == IF tree.root = Nil THEN Nil ELSE Outermost(tree.root, "right")

(* The first ancestor that n is not on the given side of.                  *)
Ascend(n, side) ==
  LET walk[m \in Nodes] ==
        IF Parent(m) # Nil /\ m = Child(Parent(m), side)
        THEN walk[Parent(m)] ELSE Parent(m)
  IN  walk[n]

(* Mutant: a node without right child is followed by its parent.           *)
NextParent(n) ==
  IF Child(n, "right") # Nil
  THEN Outermost(Child(n, "right"), "left")
  ELSE Parent(n)

(* rb_next() and rb_prev().                                                *)
Next_(n) ==
  IF Child(n, "right") # Nil
  THEN Outermost(Child(n, "right"), "left")
  ELSE Ascend(n, "right")

Prev(n) ==
  IF Child(n, "left") # Nil
  THEN Outermost(Child(n, "left"), "right")
  ELSE Ascend(n, "left")

(* Mutant: a node with a right child only is taken for a leaf.             *)
LeftDeepestOnly(n) == Outermost(n, "left")

(* rb_left_deepest_node().                                                 *)
LeftDeepest(n) ==
  LET walk[m \in Nodes] ==
        IF Child(m, "left") # Nil THEN walk[Child(m, "left")]
        ELSE IF Child(m, "right") # Nil THEN walk[Child(m, "right")]
        ELSE m
  IN  walk[n]

(* rb_first_postorder() and rb_next_postorder().                           *)
FirstPostorder == IF tree.root = Nil THEN Nil ELSE LeftDeepest(tree.root)

NextPostorder(n) ==
  IF /\ Parent(n) # Nil
     /\ n = Child(Parent(n), "left")
     /\ Child(Parent(n), "right") # Nil
  THEN LeftDeepest(Child(Parent(n), "right"))
  ELSE Parent(n)

-----------------------------------------------------------------------------
(* rb_erase_cached() and __rb_erase_augmented().                           *)

(* No child, or one: the child, if any, takes the place and the colour.    *)
(* The left child is painted before it is linked, the right one after it.  *)
Bypass(n) ==
  LET child == IF Child(n, "left") = Nil THEN Child(n, "right") ELSE Child(n, "left")
      link  == ChangeChild(n, child, Parent(n))
      paint == IfNode(child, SetParentColor(child, Parent(n), IsRed(n)))
  IN  [stores |-> IF Child(n, "left") = Nil THEN link \o paint ELSE paint \o link,
       rebalance |-> IF child = Nil /\ ~ IsRed(n) THEN Parent(n) ELSE Nil]

(* Two children: the successor takes the place and the colour.             *)
Replace(n) ==
  LET right == Child(n, "right")
      successor == Outermost(right, "left")
      child2 == Child(successor, "right")
      parent == IF successor = right THEN successor ELSE Parent(successor)
  IN  [stores |->
         (IF successor = right THEN <<>>
          ELSE SetChild(parent, "left", child2) \o SetChild(successor, "right", right)
                 \o SetParent(right, successor))
           \o SetChild(successor, "left", Child(n, "left"))
           \o SetParent(Child(n, "left"), successor)
           \o ChangeChild(n, successor, Parent(n))
           \o SetParentColor(successor, Parent(n), IsRed(n))
           \o IfNode(child2, SetParentColor(child2, parent, FALSE)),
       rebalance |-> IF child2 = Nil /\ ~ IsRed(successor) THEN parent ELSE Nil]

(* Mutant: the last node of the tree is rebalanced as well.                *)
EraseRootToo(n) ==
  LET erased == IF Nil \in {Child(n, "left"), Child(n, "right")}
                THEN Bypass(n) ELSE Replace(n)
  IN  /\ op.pc = "idle"
      /\ members' = members \ {n}
      /\ op' = [pc |-> IF erased.rebalance = Nil /\ members # {n}
                       THEN "done" ELSE "erase",
                node |-> Nil, parent |-> erased.rebalance,
                stores |-> erased.stores]
      /\ UNCHANGED tree

Erase(n) ==
  LET erased == IF Nil \in {Child(n, "left"), Child(n, "right")}
                THEN Bypass(n) ELSE Replace(n)
  IN  /\ op.pc = "idle"
      /\ members' = members \ {n}
      /\ op' = [pc |-> IF erased.rebalance = Nil THEN "done" ELSE "erase",
                node |-> Nil,
                parent |-> erased.rebalance,
                stores |-> (IF tree.leftmost = n
                            THEN <<[field |-> "leftmost", to |-> Next_(n)]>>
                            ELSE <<>>)
                           \o erased.stores]
      /\ UNCHANGED tree

-----------------------------------------------------------------------------
(* ____rb_erase_color(): the paths through node are one black node short.  *)

Recolouring(node, parent) ==
  op.pc = "erase" /\ op.stores = <<>> /\ node = op.node /\ parent = op.parent

SideOf(node, parent) == IF node # Child(parent, "right") THEN "left" ELSE "right"

(* Case 1: the sibling is red and goes up above parent.  The loop body     *)
(* goes on with the new sibling, which is black.                           *)
EraseRotateSibling(node, parent) ==
  LET side == SideOf(node, parent)
      sibling == Child(parent, Other(side))
      tmp1 == Child(sibling, side)
  IN  /\ Recolouring(node, parent)
      /\ IsRed(sibling)
      /\ Continue("erase", node, parent,
           SetChild(parent, Other(side), tmp1) \o SetChild(sibling, side, parent)
             \o SetParentColor(tmp1, parent, FALSE)
             \o RotateSetParents(parent, sibling, TRUE))

(* Mutant: the loop goes on above a red parent.                            *)
EraseFlipUp(node, parent) ==
  LET sibling == Child(parent, Other(SideOf(node, parent)))
      flip == SetParentColor(sibling, parent, TRUE)
  IN  /\ Recolouring(node, parent)
      /\ ~ IsRed(sibling)
      /\ ~ IsRed(Child(sibling, "left"))
      /\ ~ IsRed(Child(sibling, "right"))
      /\ IF Parent(parent) = Nil THEN Continue("done", Nil, Nil, flip)
         ELSE Continue("erase", parent, Parent(parent), flip)

(* Case 2: the sibling becomes red.  If the parent was red, making it      *)
(* black is the end, else the loop goes on one level up.                   *)
EraseFlip(node, parent) ==
  LET sibling == Child(parent, Other(SideOf(node, parent)))
      flip == SetParentColor(sibling, parent, TRUE)
  IN  /\ Recolouring(node, parent)
      /\ ~ IsRed(sibling)
      /\ ~ IsRed(Child(sibling, "left"))
      /\ ~ IsRed(Child(sibling, "right"))
      /\ IF IsRed(parent)
         THEN Continue("done", Nil, Nil,
                       flip \o SetParentColor(parent, Parent(parent), FALSE))
         ELSE IF Parent(parent) = Nil THEN Continue("done", Nil, Nil, flip)
         ELSE Continue("erase", parent, Parent(parent), flip)

(* Case 4: the sibling goes up above parent and takes its colour; outer,   *)
(* its child on the far side, becomes black, and parent takes inner.       *)
SiblingUp(parent, sibling, side, outer, inner) ==
  SetChild(parent, Other(side), inner) \o SetChild(sibling, side, parent)
    \o SetParentColor(outer, sibling, FALSE)
    \o IfNode(inner, SetParent(inner, parent))
    \o RotateSetParents(parent, sibling, FALSE)

EraseRotate(node, parent) ==
  LET side == SideOf(node, parent)
      sibling == Child(parent, Other(side))
      outer == Child(sibling, Other(side))
  IN  /\ Recolouring(node, parent)
      /\ ~ IsRed(sibling)
      /\ IsRed(outer)
      /\ Continue("done", Nil, Nil,
           SiblingUp(parent, sibling, side, outer, Child(sibling, side)))

(* Case 3, and case 4 after it: the near child of the sibling is red.  It  *)
(* goes up above the sibling, then above parent.                           *)
EraseRotateTwice(node, parent) ==
  LET side == SideOf(node, parent)
      sibling == Child(parent, Other(side))
      near == Child(sibling, side)
      tmp1 == Child(near, Other(side))
  IN  /\ Recolouring(node, parent)
      /\ ~ IsRed(sibling)
      /\ ~ IsRed(Child(sibling, Other(side)))
      /\ IsRed(near)
      /\ Continue("done", Nil, Nil,
           SetChild(sibling, side, tmp1) \o SetChild(near, Other(side), sibling)
             \o SetChild(parent, Other(side), near)
             \o IfNode(tmp1, SetParentColor(tmp1, sibling, FALSE))
             \o SiblingUp(parent, near, side, sibling, Child(near, side)))

(* The call returns.  A structure that was erased is freed by its owner.   *)
Return ==
  /\ op.pc = "done"
  /\ op.stores = <<>>
  /\ op' = Idle
  /\ tree' = [tree EXCEPT !.node =
                [n \in Nodes |-> IF n \in members THEN @[n] ELSE Unlinked]]
  /\ UNCHANGED members

Rebalance ==
  \/ Store
  \/ \E node, parent \in Nodes \cup {Nil} :
       \/ InsertDone(node, parent)
       \/ InsertFlip(node, parent)
       \/ InsertRotate(node, parent)
       \/ EraseRotateSibling(node, parent)
       \/ EraseFlip(node, parent)
       \/ EraseRotate(node, parent)
       \/ EraseRotateTwice(node, parent)

Step == Rebalance \/ Return

Next ==
  \/ \E n \in Nodes \ members : Add(n)
  \/ \E n \in members : Erase(n)
  \/ Step

(* A call that has begun is executed to its end.                           *)
Fairness == WF_vars(Step)

Spec == Init /\ [][Next]_vars /\ Fairness

-----------------------------------------------------------------------------

(* The nodes of the subtree of each node, from left to right.              *)
InOrder ==
  LET order[n \in Nodes \cup {Nil}] ==
        IF n = Nil THEN <<>>
        ELSE order[Child(n, "left")] \o <<n>> \o order[Child(n, "right")]
  IN  order

(* How many black nodes the paths from the root down to a leaf have, where *)
(* a path counts one more if it goes to the given side of parent.          *)
BlackCounts(parent, side) ==
  LET counts[n \in Nodes \cup {Nil}] ==
        IF n = Nil THEN {0}
        ELSE UNION {{c + (IF IsRed(n) THEN 0 ELSE 1)
                       + (IF n = parent /\ s = side THEN 1 ELSE 0) :
                       c \in counts[Child(n, s)]} : s \in Sides}
  IN  counts[tree.root]

EvenlyBlack == Cardinality(BlackCounts(Nil, "left")) = 1

Settled == op.pc = "idle"
AtLoop(pc) == op.pc = pc /\ op.stores = <<>>

(* Type correctness of the tree and of the call in progress.               *)
TypeOK ==
  /\ tree.root \in Nodes \cup {Nil} /\ tree.leftmost \in Nodes \cup {Nil}
  /\ tree.node \in [Nodes -> [left : Nodes \cup {Nil}, right : Nodes \cup {Nil},
                              parent : Nodes \cup {Nil}, red : BOOLEAN]]
  /\ op.pc \in {"idle", "insert", "erase", "done"}
  /\ {op.node, op.parent} \subseteq Nodes \cup {Nil}
  /\ op.pc = "erase" => op.parent # Nil
  /\ \A i \in DOMAIN op.stores : op.stores[i].to \in Nodes \cup {Nil}
  /\ members \subseteq Nodes

(* Between any two stores the child pointers have no loop, not even one    *)
(* that lasts for a moment: "we must not inadvertently cause (temporary)   *)
(* loops in the tree structure".  A loop is a set of nodes each of which   *)
(* has a child in the set.                                                 *)
NoLoops ==
  \A loop \in SUBSET {n \in Nodes : tree.node[n] # Unlinked} :
    (\A n \in loop : {Child(n, "left"), Child(n, "right")} \cap loop # {})
      => loop = {}

(* Whatever is added and erased in whatever order, the tree holds exactly  *)
(* the members, in the order of the search, whenever a loop begins, goes   *)
(* on or ends.                                                             *)
Ordered ==
  op.stores = <<>> =>
    LET order == InOrder[tree.root]
    IN  /\ Range(order) = members /\ Len(order) = Cardinality(members)
        /\ \A i, j \in DOMAIN order : i < j => Cmp(order[j], order[i]) = -1

(* The parent pointers are the inverse of the child pointers between       *)
(* calls: every walk upwards relies on it.                                 *)
ParentsAgree ==
  Settled =>
    /\ tree.root # Nil => Parent(tree.root) = Nil
    /\ \A n \in members : \A side \in Sides :
         Child(n, side) # Nil => Parent(Child(n, side)) = n

(* The properties 2, 4 and 5 of red-black trees that rbtree.c lists.       *)
Balanced ==
  Settled =>
    /\ ~ IsRed(tree.root)
    /\ \A n \in members : IsRed(n) =>
         ~ IsRed(Child(n, "left")) /\ ~ IsRed(Child(n, "right"))
    /\ EvenlyBlack

(* "Loop invariant: node is red", and all else is as it should be: only    *)
(* node and its parent may both be red, and black counts are equal.        *)
InsertLoopInvariant ==
  AtLoop("insert") =>
    /\ IsRed(op.node)
    /\ op.parent = Parent(op.node)
    /\ \A n \in members \ {op.node} : IsRed(n) => ~ IsRed(Parent(n))
    /\ EvenlyBlack

(* The loop invariants of the erasure: node is black and not the root, and *)
(* the paths through node have one black node less than all others.        *)
EraseLoopInvariant ==
  AtLoop("erase") =>
    /\ ~ IsRed(op.node)
    /\ Cardinality(BlackCounts(op.parent, SideOf(op.node, op.parent))) = 1
    /\ ~ EvenlyBlack

(* The cached leftmost node is the first one.                              *)
LeftmostIsFirst == Settled => tree.leftmost = First

(* rb_first() and rb_next(), and backwards rb_last() and rb_prev(), visit  *)
(* the members in order and then stop.                                     *)
WalksInOrder ==
  Settled =>
    LET order == InOrder[tree.root]
        At(i) == IF i \in DOMAIN order THEN order[i] ELSE Nil
    IN  /\ First = At(1) /\ Last_ = At(Len(order))
        /\ \A i \in DOMAIN order :
             Next_(order[i]) = At(i + 1) /\ Prev(order[i]) = At(i - 1)

(* The post-order walk visits every node after its children, so that each  *)
(* can be freed when it is visited.                                        *)
PostorderChildrenFirst ==
  Settled =>
    LET post[n \in Nodes \cup {Nil}] ==
          IF n = Nil THEN <<>>
          ELSE post[Child(n, "left")] \o post[Child(n, "right")] \o <<n>>
        order == post[tree.root]
        At(i) == IF i \in DOMAIN order THEN order[i] ELSE Nil
    IN  /\ FirstPostorder = At(1)
        /\ \A i \in DOMAIN order : NextPostorder(order[i]) = At(i + 1)

(* The parts above that hold at the head of the loops of __rb_insert() and *)
(* ____rb_erase_color().                                                   *)
LoopInvariants == InsertLoopInvariant /\ EraseLoopInvariant

(* Between two calls every iteration over the tree is right: forwards and  *)
(* backwards, from the cached first node, and with the children first; the *)
(* parent pointers it climbs are the inverse of the child pointers.        *)
IterationsAgree ==
  ParentsAgree /\ LeftmostIsFirst /\ WalksInOrder /\ PostorderChildrenFirst

(* Every insertion and every erasure comes to an end.                      *)
CallsEnd == (op.pc # "idle") ~> (op.pc = "idle")
=============================================================================
