--------------------------- MODULE CallchainSort ---------------------------
(***************************************************************************)
(* What is shown of a callchain tree: the three sort functions that        *)
(* callchain_register_param() chooses from, in lib/linux/callchain.c.      *)
(*                                                                         *)
(* They put nodes in red-black trees by their weight, heaviest first; such *)
(* a tree is modelled by the sequence of its nodes in order.  The flat     *)
(* mode has one tree for all nodes.  The graph modes have one per node for *)
(* its children: what is shown is what can be reached from the tree of     *)
(* the root, so leaving out a node leaves out everything below it.         *)
(***************************************************************************)
EXTENDS Callchain

(* rb_insert_callchain(): behind the nodes that are as heavy.              *)
InsertCallchain(shown, n, weight) ==
  LET before == {k \in DOMAIN shown : weight[shown[k]] >= weight[n]}
  IN  InsertAt(shown, Cardinality(before) + 1, n)

(* The two weights by which nodes are put in order.                        *)
Hit == [n \in DOMAIN nodes |-> nodes[n].hit]
Cumul == [n \in DOMAIN nodes |-> CumulHits(nodes[n])]

(* The children from rb_first() to the last rb_next().  match_chain() puts *)
(* an entry to the left of a lesser one, so the greatest comes first.      *)
InOrder(n) ==
  SetToSortSeq(Children(n), LAMBDA c, d : nodes[c].val[1] > nodes[d].val[1])

(* The order in which __sort_chain_flat() comes to the nodes.              *)
ChildrenFirst ==
  LET visit[n \in DOMAIN nodes] ==
        FlattenSeq([k \in DOMAIN InOrder(n) |-> visit[InOrder(n)[k]]]) \o <<n>>
  IN  visit[Root]

(* sort_chain_flat().                                                      *)
SortFlat(min_hit) ==
  FoldLeft(LAMBDA shown, n : InsertCallchain(shown, n, Hit), <<>>,
           SelectSeq(ChildrenFirst, LAMBDA n : Hit[n] > 0 /\ Hit[n] >= min_hit))

(* The tree of the children of n that are not too light.                   *)
SortChildren(n, min_hit) ==
  FoldLeft(LAMBDA shown, c : InsertCallchain(shown, c, Cumul), <<>>,
           SelectSeq(InOrder(n), LAMBDA c : Cumul[c] >= min_hit))

(* Mutant: a node must be heavy without what is below it.                  *)
SortGraphAbsOwn(min_hit) ==
  [n \in DOMAIN nodes |->
     SelectSeq(SortChildren(n, min_hit), LAMBDA c : Hit[c] >= min_hit)]

(* sort_chain_graph_abs().                                                 *)
SortGraphAbs(min_hit) == [n \in DOMAIN nodes |-> SortChildren(n, min_hit)]

(* sort_chain_graph_rel(): ceil(children_hit * min_percent / 100).         *)
SortGraphRel(min_percent) ==
  [n \in DOMAIN nodes |->
     SortChildren(n, (nodes[n].children_hit * min_percent + 99) \div 100)]

(* The nodes that are reached from the tree of the root.                   *)
ShownIn(sorted) ==
  LET below[n \in DOMAIN nodes] ==
        Range(sorted[n]) \cup UNION {below[c] : c \in Range(sorted[n])}
  IN  below[Root]

-----------------------------------------------------------------------------

HeaviestFirst(shown, weight) ==
  \A k \in 1 .. Len(shown) - 1 : weight[shown[k]] >= weight[shown[k + 1]]

(* Between two appends, unless an allocation has failed:                   *)
(*  - the flat list that leaves nothing out accounts for all periods that  *)
(*    were appended, however the nodes were split;                         *)
(*  - the absolute graph shows every node that is heavy enough: none is    *)
(*    hidden below a node that is too light;                               *)
(*  - the relative graph with more than 50 percent follows at most one     *)
(*    child of a node that has weight below it.                            *)
(* Each list starts with its heaviest nodes.                               *)
SortsShowWeight ==
  pc = "idle" /\ failures = 0 =>
    /\ LET flat == SortFlat(0)
       IN  /\ HeaviestFirst(flat, Hit)
           /\ SumFunction([k \in DOMAIN flat |-> Hit[flat[k]]]) =
                nodes[Root].children_hit
    /\ \A min_hit \in 1 .. MaxAppends :
         LET sorted == SortGraphAbs(min_hit)
         IN  /\ ShownIn(sorted) = {n \in DOMAIN nodes \ {Root} : Cumul[n] >= min_hit}
             /\ \A n \in DOMAIN nodes : HeaviestFirst(sorted[n], Cumul)
    /\ LET sorted == SortGraphRel(51)
       IN  \A n \in DOMAIN nodes : nodes[n].children_hit > 0 => Len(sorted[n]) <= 1
=============================================================================
