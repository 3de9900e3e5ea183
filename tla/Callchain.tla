----------------------------- MODULE Callchain -----------------------------
(***************************************************************************)
(* The callchain tree of the linux backend: callchain_append() and what it *)
(* calls, in lib/linux/callchain.c.                                        *)
(*                                                                         *)
(* A node holds a run of callchain entries (val), how many samples ended   *)
(* at it (count, with their periods in hit) and how many ended below it    *)
(* (children_count, children_hit).  append_chain_children() and            *)
(* append_chain() call each other down the tree; the nodes whose           *)
(* append_chain_children() is still running are the variable stack.  They  *)
(* update their children counters when the calls return, innermost first.  *)
(*                                                                         *)
(* The red-black tree of the children of a node is searched by the first   *)
(* entry of each child.  It is modelled by the set of the children: an     *)
(* entry is an (ip, map) pair, match_chain() orders entries totally, and   *)
(* siblings start with different entries (DistinctSiblings), so the search *)
(* ends at the child that starts with the entry looked for, if there is    *)
(* one.  Entries are compared by address, since the map symbols that       *)
(* get_map() builds have no symbol, and no entry is a branch.              *)
(***************************************************************************)
EXTENDS Naturals, SequencesExt, Functions

CONSTANTS
  Chains,       \* the callchains that are appended
  Periods,      \* the weights they are appended with
  MaxAppends,   \* bound on the number of appended chains, for TLC only
  MaxFailures   \* bound on the number of failed allocations, for TLC only

ASSUME ChainsAssumption ==
  /\ IsFiniteSet(Chains)
  /\ \A c \in Chains : c \in Seq(Range(c)) /\ c # <<>>
  /\ Periods \subseteq Nat
  /\ MaxAppends \in Nat
  /\ MaxFailures \in Nat

VARIABLES
  nodes,      \* all nodes; node 0 is root->node, the others are in the tree
  max_depth,  \* root->max_depth
  pc,         \* "idle", "down" (searching) or "up" (returning)
  chain,      \* the entries in the cursor
  pos,        \* cursor->pos
  period,
  stack,      \* the nodes whose append_chain_children() is running
  appends,    \* history: how often each chain was appended
  failures    \* history: how many allocations failed

vars == <<nodes, max_depth, pc, chain, pos, period, stack, appends, failures>>

Root == 0
NoNode == [parent |-> Root, val |-> <<>>, count |-> 0, children_count |-> 0,
           hit |-> 0, children_hit |-> 0]

(* callchain_init().                                                       *)
Init ==
  /\ nodes = [n \in {Root} |-> NoNode]
  /\ max_depth = 0
  /\ pc = "idle"
  /\ chain = <<>> /\ pos = 0 /\ period = 0 /\ stack = <<>>
  /\ appends = [c \in Chains |-> 0]
  /\ failures = 0

Children(n) == {c \in DOMAIN nodes \ {Root} : nodes[c].parent = n}

CumulHits(node) == node.hit + node.children_hit
CumulCounts(node) == node.count + node.children_count

Here == Last(stack)         \* the root argument of append_chain_children()
Remaining == SubSeq(chain, pos + 1, Len(chain))

(* The children of the current node whose first entry matches.             *)
Candidates == {c \in Children(Here) : nodes[c].val[1] = chain[pos + 1]}

(* How many entries of a node match the cursor.                            *)
Matches(c) ==
  LET val == nodes[c].val
  IN  CHOOSE m \in 1 .. Len(val) :
        /\ pos + m <= Len(chain)
        /\ \A i \in 1 .. m : val[i] = chain[pos + i]
        /\ \/ m = Len(val)
           \/ pos + m = Len(chain)
           \/ val[m + 1] # chain[pos + m + 1]

-----------------------------------------------------------------------------

(* callchain_append(), up to the call of append_chain_children(): the      *)
(* cursor is committed.                                                    *)
Start(c, p) ==
  /\ pc = "idle"
  /\ SumFunction(appends) < MaxAppends
  /\ pc' = "down"
  /\ chain' = c
  /\ period' = p
  /\ pos' = 0
  /\ stack' = <<Root>>
  /\ UNCHANGED <<nodes, max_depth, appends, failures>>

(* append_chain() and append_chain_children() return: what is left to do   *)
(* is to update the counters of the nodes on the stack.                    *)
Found ==
  /\ pc' = "up"
  /\ appends' = [appends EXCEPT ![chain] = @ + 1]
  /\ UNCHANGED <<max_depth, chain, pos, period, stack, failures>>

(* An allocation failed: callchain_append() returns -1 and so does every   *)
(* caller, without touching a counter on the way.                          *)
Fail ==
  /\ failures < MaxFailures
  /\ pc' = "idle"
  /\ chain' = <<>> /\ pos' = 0 /\ period' = 0 /\ stack' = <<>>
  /\ failures' = failures + 1
  /\ UNCHANGED <<max_depth, appends>>

NewLeaf(parent, val) ==
  [parent |-> parent, val |-> val, count |-> 1, children_count |-> 0,
   hit |-> period, children_hit |-> 0]

Fresh == Cardinality(DOMAIN nodes)
WithNodes(new) == [n \in DOMAIN nodes \cup DOMAIN new |->
                     IF n \in DOMAIN new THEN new[n] ELSE nodes[n]]

(* Nothing in children, add to the current node: add_child().              *)
AddChild ==
  /\ pc = "down"
  /\ Candidates = {}
  /\ \/ /\ nodes' = WithNodes([n \in {Fresh} |-> NewLeaf(Here, Remaining)])
        /\ Found
     \/ Fail /\ UNCHANGED nodes

(* Mutant: the upper part keeps its own sightings only.                    *)
UpperUncounted(c, m) == [nodes[c] EXCEPT !.val = SubSeq(@, 1, m)]

(* The node matches in part.  split_add_child() moves the rest of its      *)
(* entries, its counters and its children to a new child; the node keeps   *)
(* the common part.                                                        *)
Upper(c, m) ==
  [nodes[c] EXCEPT !.val = SubSeq(@, 1, m),
                   !.children_hit = CumulHits(nodes[c]),
                   !.children_count = CumulCounts(nodes[c])]

(* Mutant: the lower part starts one entry late.                           *)
LowerLate(c, m) ==
  [nodes[c] EXCEPT !.parent = c, !.val = SubSeq(@, m + 2, Len(@))]

Lower(c, m) ==
  [nodes[c] EXCEPT !.parent = c, !.val = SubSeq(@, m + 1, Len(@))]

(* Mutant: the children stay with the upper part.                          *)
SplitNodesChildless(c, m, new) ==
  [n \in DOMAIN nodes \cup {new} |->
     IF n = new THEN Lower(c, m)
     ELSE IF n = c THEN Upper(c, m)
     ELSE nodes[n]]

(* create_child() with inherit_children: the children follow the counters. *)
SplitNodes(c, m, new) ==
  [n \in DOMAIN nodes \cup {new} |->
     IF n = new THEN Lower(c, m)
     ELSE IF n = c THEN Upper(c, m)
     ELSE IF n \in Children(c) THEN [nodes[n] EXCEPT !.parent = new]
     ELSE nodes[n]]

(* Mutant: the node forgets that the chain ended at it.                    *)
SplitAtEndUncounted(c) ==
  LET m == Matches(c)
  IN  /\ m < Len(nodes[c].val)
      /\ pos + m = Len(chain)
      /\ nodes' = [SplitNodes(c, m, Fresh) EXCEPT ![c].hit = 0, ![c].count = 0]
      /\ Found

(* The chain ends at the split: the node stands for it.                    *)
SplitAtEnd(c) ==
  LET m == Matches(c)
  IN  /\ m < Len(nodes[c].val)
      /\ pos + m = Len(chain)
      /\ \/ /\ nodes' = [SplitNodes(c, m, Fresh) EXCEPT
                           ![c].hit = period, ![c].count = 1]
            /\ Found
         \/ Fail /\ UNCHANGED nodes

(* Mutant: the counters are reset when the second child is there.          *)
SplitAndBranchLate(c) ==
  LET m == Matches(c)
      split == SplitNodes(c, m, Fresh)
      leaf == NewLeaf(c, SubSeq(chain, pos + m + 1, Len(chain)))
  IN  /\ m < Len(nodes[c].val)
      /\ pos + m < Len(chain)
      /\ \/ /\ nodes' = [n \in DOMAIN split \cup {Fresh + 1} |->
                           IF n = Fresh + 1 THEN leaf
                           ELSE IF n = c THEN
                             [split[c] EXCEPT !.hit = 0, !.count = 0,
                                              !.children_hit = @ + period,
                                              !.children_count = @ + 1]
                           ELSE split[n]]
            /\ Found
         \/ Fail /\ (nodes' = split \/ UNCHANGED nodes)

(* The chain goes on: the node gets a second child for the rest of it.     *)
(* When that child cannot be allocated the node stays split.               *)
SplitAndBranch(c) ==
  LET m == Matches(c)
      split == [SplitNodes(c, m, Fresh) EXCEPT
                  ![c].hit = 0, ![c].children_hit = @ + period,
                  ![c].count = 0, ![c].children_count = @ + 1]
      leaf == NewLeaf(c, SubSeq(chain, pos + m + 1, Len(chain)))
  IN  /\ m < Len(nodes[c].val)
      /\ pos + m < Len(chain)
      /\ \/ /\ nodes' = [n \in DOMAIN split \cup {Fresh + 1} |->
                           IF n = Fresh + 1 THEN leaf ELSE split[n]]
            /\ Found
         \/ Fail /\ (nodes' = split \/ UNCHANGED nodes)

(* Mutant: the end of the chain is looked for at the wrong position.       *)
FullMatchAtTop(c) ==
  /\ Matches(c) = Len(nodes[c].val)
  /\ Matches(c) = Len(chain)
  /\ nodes' = [nodes EXCEPT ![c].hit = @ + period, ![c].count = @ + 1]
  /\ Found

(* The whole node and the whole chain match.                               *)
FullMatch(c) ==
  /\ Matches(c) = Len(nodes[c].val)
  /\ pos + Matches(c) = Len(chain)
  /\ nodes' = [nodes EXCEPT ![c].hit = @ + period, ![c].count = @ + 1]
  /\ Found

(* Mutant: the cursor forgets what was matched above.                      *)
DescendRewound(c) ==
  /\ Matches(c) = Len(nodes[c].val)
  /\ pos + Matches(c) < Len(chain)
  /\ pos' = Matches(c)
  /\ stack' = Append(stack, c)
  /\ UNCHANGED <<nodes, max_depth, pc, chain, period, appends, failures>>

(* The whole node matches and a part of the chain remains.                 *)
Descend(c) ==
  /\ Matches(c) = Len(nodes[c].val)
  /\ pos + Matches(c) < Len(chain)
  /\ pos' = pos + Matches(c)
  /\ stack' = Append(stack, c)
  /\ UNCHANGED <<nodes, max_depth, pc, chain, period, appends, failures>>

AppendChain ==
  /\ pc = "down"
  /\ \E c \in Candidates :
       SplitAtEnd(c) \/ SplitAndBranch(c) \/ FullMatch(c) \/ Descend(c)

(* Mutant: the sample counts where it was added only.                      *)
UnwindUncounted ==
  /\ pc = "up"
  /\ stack # <<>>
  /\ stack' = Front(stack)
  /\ UNCHANGED <<nodes, max_depth, pc, chain, pos, period, appends, failures>>

(* inc_children_hit: the innermost append_chain_children() counts the      *)
(* sample and returns to the one above it.                                 *)
Unwind ==
  /\ pc = "up"
  /\ stack # <<>>
  /\ nodes' = [nodes EXCEPT ![Here].children_hit = @ + period,
                            ![Here].children_count = @ + 1]
  /\ stack' = Front(stack)
  /\ UNCHANGED <<max_depth, pc, chain, pos, period, appends, failures>>

(* The end of callchain_append().                                          *)
Return ==
  /\ pc = "up"
  /\ stack = <<>>
  /\ max_depth' = IF Len(chain) > max_depth THEN Len(chain) ELSE max_depth
  /\ pc' = "idle"
  /\ chain' = <<>> /\ pos' = 0 /\ period' = 0
  /\ UNCHANGED <<nodes, stack, appends, failures>>

Step == AddChild \/ AppendChain \/ Unwind \/ Return

Next == (\E c \in Chains, p \in Periods : Start(c, p)) \/ Step

(* The program is sequential: it never stops inside callchain_append().    *)
Fairness == WF_vars(Step)

Spec == Init /\ [][Next]_vars /\ Fairness

-----------------------------------------------------------------------------

(* The entries from the root to a node: the callchain the node stands for. *)
PathOf ==
  LET path[n \in DOMAIN nodes] ==
        IF n = Root THEN <<>> ELSE path[nodes[n].parent] \o nodes[n].val
  IN  path

Entries == UNION {Range(c) : c \in Chains}

(* Type correctness: nodes below the root have entries, the cursor does    *)
(* not run past the end of the chain.                                      *)
TypeOK ==
  /\ DOMAIN nodes = 0 .. Cardinality(DOMAIN nodes) - 1
  /\ \A n \in DOMAIN nodes :
       /\ nodes[n] \in [parent : DOMAIN nodes, val : Seq(Entries),
                        count : Nat, children_count : Nat,
                        hit : Nat, children_hit : Nat]
       /\ (nodes[n].val = <<>>) = (n = Root)
  /\ max_depth \in Nat
  /\ pc \in {"idle", "down", "up"}
  /\ chain \in Chains \cup {<<>>}
  /\ pos \in 0 .. Len(chain)
  /\ period \in Nat
  /\ stack \in Seq(DOMAIN nodes)
  /\ appends \in [Chains -> Nat]
  /\ failures \in Nat

(* Siblings start with different entries, however often nodes were split   *)
(* and their children moved: the search can only go on in one child.       *)
DistinctSiblings ==
  \A c, d \in DOMAIN nodes \ {Root} :
    /\ nodes[c].parent = nodes[d].parent
    /\ nodes[c].val[1] = nodes[d].val[1]
    => c = d

(* The calls that are running are on a path from the root, and that path   *)
(* spells the entries that the cursor has passed.                          *)
StackIsPath ==
  stack # <<>> =>
    /\ stack[1] = Root
    /\ \A i \in 1 .. Len(stack) - 1 : nodes[stack[i + 1]].parent = stack[i]
    /\ pc = "down" => PathOf[Here] = SubSeq(chain, 1, pos)

(* The tree is compressed: a node at which no chain ended branches (unless *)
(* an allocation failed: then a node may stay split for nothing).          *)
Compressed ==
  failures = 0 =>
  \A n \in DOMAIN nodes \ {Root} :
    nodes[n].count = 0 => Cardinality(Children(n)) > 1

(* What a node says of its children is the sum of what they say, except    *)
(* for the sample that is still on its way up to the node.  A split that   *)
(* failed half-way leaves a sample in the counters that is nowhere below.  *)
CountersAddUp ==
  failures = 0 =>
  \A n \in DOMAIN nodes :
    LET below   == Children(n)
        pending == IF pc = "up" /\ stack # <<>> /\ n = Here THEN 1 ELSE 0
    IN  /\ SumFunction([c \in below |-> CumulCounts(nodes[c])]) =
             nodes[n].children_count + pending
        /\ SumFunction([c \in below |-> CumulHits(nodes[c])]) =
             nodes[n].children_hit + pending * period

(* Between two appends the root has counted every sample, and no sample of *)
(* an append that failed.                                                  *)
AllSamplesCounted ==
  pc = "idle" => nodes[Root].children_count = SumFunction(appends)

(* Every append comes to an end.                                           *)
AppendEnds == (pc # "idle") ~> (pc = "idle")

(* The sightings of exactly the callchain s.                               *)
CountAt(s) ==
  SumFunction([n \in {n \in DOMAIN nodes : PathOf[n] = s} |-> nodes[n].count])

(* The tree implements a table of counts: splitting a node moves counts    *)
(* without changing the count of any callchain, even when an allocation    *)
(* fails in the middle of it.                                              *)
Abs == INSTANCE StackCounts WITH
  Stacks  <- Chains,
  count   <- [s \in Chains |-> CountAt(s)],
  inserts <- appends
ImplementsStackCounts == Abs!Spec
=============================================================================
