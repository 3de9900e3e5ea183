------------------------------ MODULE ArtTree ------------------------------
(***************************************************************************)
(* The adaptive radix tree of one callstack_tree: insert() and search() of *)
(* lib/art/art.c, called by art_tree_insert() of lib/art/ops.c.            *)
(*                                                                         *)
(* heap maps the addresses of live nodes to nodes.  insert() walks down    *)
(* from the root one iteration of its loop per step; _node, the pointer    *)
(* through which the current node will be replaced, is the variable link.  *)
(* A key is the sequence of bytes of a callstack, from its first entry to  *)
(* the entry whose ip is 0.                                                *)
(***************************************************************************)
EXTENDS ArtNode, FiniteSets, Functions

CONSTANTS
  Keys,         \* the callstacks that are inserted
  PrefixSize,   \* the size of prefix[] (128)
  MaxInserts    \* bound on the number of insertions, for TLC only

ASSUME TreeAssumption ==
  /\ Keys \subseteq Seq(Byte) /\ IsFiniteSet(Keys)
  /\ PrefixSize \in Nat \ {0}
  /\ MaxInserts \in Nat
  /\ Cap4 > 1
  /\ Null \notin Nat

VARIABLES
  heap,     \* the live nodes: a function from addresses to nodes
  top,      \* the last address that was handed out
  root,     \* priv->root
  pc,       \* "idle", "insert" or "aborted" (an assert() failed)
  key,      \* the callstack that is being inserted
  link,     \* _node: the slot that points to the current node
  depth,    \* how many bytes of key the path to the current node consumed
  inserts   \* history: how often each callstack was inserted

vars == <<heap, top, root, pc, key, link, depth, inserts>>

RootLink == [parent |-> Null, slot |-> 0]

(* The address that a link holds ("*_node").                               *)
Target(l) == IF l = RootLink THEN root ELSE heap[l.parent].arr[l.slot]

(* Mutant: a link inside a node is not redirected.                         *)
ReplaceRootOnly(h, a) ==
  /\ heap' = h
  /\ root' = IF link = RootLink THEN a ELSE root

(* replace(): store address a in the current link, in the heap h.          *)
Replace(h, a) ==
  IF link = RootLink
  THEN root' = a /\ heap' = h
  ELSE root' = root /\ heap' = [h EXCEPT ![link.parent].arr[link.slot] = a]

Nodes(new) == [a \in DOMAIN heap \cup DOMAIN new |->
                 IF a \in DOMAIN new THEN new[a] ELSE heap[a]]

(* stream_get(): the stream of a callstack is followed by the zeroed entry *)
(* that ends it, so reading past its end yields 0.                         *)
ByteAt(k, i) == IF i < Len(k) THEN k[i + 1] ELSE 0

Least(a, b) == IF a < b THEN a ELSE b

(* check_prefix(): how many bytes of the prefix of node match k from d on. *)
CheckPrefix(node, k, d) ==
  LET most == Least(Len(node.prefix), Len(k) - d)
  IN  CHOOSE m \in 0 .. most :
        /\ \A i \in 0 .. m - 1 : node.prefix[i + 1] = ByteAt(k, d + i)
        /\ m < most => node.prefix[m + 1] # ByteAt(k, d + m)

-----------------------------------------------------------------------------

Init ==
  /\ heap = [a \in {} |-> a]
  /\ top = 0
  /\ root = Null
  /\ pc = "idle"
  /\ key = <<>>
  /\ link = RootLink
  /\ depth = 0
  /\ inserts = [k \in Keys |-> 0]

(* art_tree_insert(): the stream is positioned at the start of the key.    *)
Start(k) ==
  /\ pc = "idle"
  /\ SumFunction(inserts) < MaxInserts
  /\ pc' = "insert"
  /\ key' = k
  /\ UNCHANGED <<heap, top, root, link, depth, inserts>>

(* insert() returns.                                                       *)
Return ==
  /\ pc' = "idle"
  /\ key' = <<>>
  /\ link' = RootLink
  /\ depth' = 0
  /\ inserts' = [inserts EXCEPT ![key] = @ + 1]

(* An assert() of insert() or of what it calls fails.                      *)
Abort ==
  /\ pc' = "aborted"
  /\ UNCHANGED <<heap, top, root, key, link, depth, inserts>>

Cur == heap[Target(link)]
AtInner == pc = "insert" /\ root # Null /\ ~ IsLeaf(Cur)
AtLeaf == pc = "insert" /\ root # Null /\ IsLeaf(Cur)

InsertRoot ==
  /\ pc = "insert"
  /\ root = Null
  /\ Replace(Nodes([a \in {top + 1} |-> MakeLeaf(key)]), top + 1)
  /\ top' = top + 1
  /\ Return

-----------------------------------------------------------------------------
(* do_leaf().                                                              *)

(* Mutant: the last byte of the key is not compared.                       *)
MatchShort(leaf) ==
  CHOOSE m \in depth .. Len(key) :
    /\ \A i \in depth .. m - 1 : i < leaf.key_len /\ leaf.key[i + 1] = key[i + 1]
    /\ \/ m >= leaf.key_len
       \/ m >= Len(key) - 1
       \/ leaf.key[m + 1] # key[m + 1]

(* The first position from depth on where the key and the leaf differ.     *)
Match(leaf) ==
  CHOOSE m \in depth .. Len(key) :
    /\ \A i \in depth .. m - 1 : i < leaf.key_len /\ leaf.key[i + 1] = key[i + 1]
    /\ \/ m >= leaf.key_len
       \/ m = Len(key)
       \/ leaf.key[m + 1] # key[m + 1]

(* Mutant: a key that is a prefix of the leaf counts as the leaf.          *)
SameKeyPrefix(leaf) == Match(leaf) = Len(key)

SameKey(leaf) == Match(leaf) = Len(key) /\ Match(leaf) = leaf.key_len

LeafHit ==
  /\ AtLeaf
  /\ SameKey(Cur)
  /\ heap' = [heap EXCEPT ![Target(link)].count = @ + 1]
  /\ Return
  /\ UNCHANGED <<top, root>>

(* The loop that chains inner nodes while the prefix does not fit: every   *)
(* chained node takes PrefixSize bytes and leaves one for its only child.  *)
Left(p, i) == p - i * (PrefixSize + 1)
ChainLength(p) ==
  CHOOSE i \in 0 .. p :
    /\ Left(p, i) <= 2 * PrefixSize
    /\ \A j \in 0 .. i - 1 : Left(p, j) > 2 * PrefixSize

(* Mutant: the last inner node takes the whole prefix.                     *)
LastPrefixWhole(p) == p

(* How many bytes of the prefix the last inner node ends up with: if they  *)
(* do not fit, its first PrefixSize bytes are overwritten by the rest.     *)
LastPrefix(p) ==
  LET rest == Left(p, ChainLength(p))
  IN  IF rest > PrefixSize THEN rest - PrefixSize ELSE rest

ChainNode(j, a) ==
  LET from == depth + j * PrefixSize
  IN  [AllocNode("INNER_4") EXCEPT
         !.prefix = SubSeq(key, from + 1, from + PrefixSize),
         !.key[0] = ByteAt(key, from + 1),
         !.key_len = 1,
         !.arr[0] = a + 1]

LeafSplit ==
  LET leaf  == Cur
      m     == Match(leaf)
      chain == ChainLength(m - depth)
      split == top + chain + 1      \* the address of the last inner node
      other == split + 1            \* the address of the new leaf
      keepsLeaf == leaf.key_len # m
      addsLeaf  == Len(key) # m
      empty == [AllocNode("INNER_4") EXCEPT
                  !.prefix = SubSeq(key, m - LastPrefix(m - depth) + 1, m)]
      half  == IF keepsLeaf
               THEN AddChild(empty, ByteAt(leaf.key, m), Target(link))
               ELSE empty
      full  == IF addsLeaf THEN AddChild(half, key[m + 1], other) ELSE half
      new   == [a \in top + 1 .. (IF addsLeaf THEN other ELSE split) |->
                  IF a < split THEN ChainNode(a - top - 1, a)
                  ELSE IF a = split THEN full ELSE MakeLeaf(key)]
  IN  /\ AtLeaf
      /\ ~ SameKey(leaf)
      /\ IF addsLeaf => AddChildAsserts(half, key[m + 1])
         THEN /\ Replace(Nodes(new), top + 1)
              /\ top' = IF addsLeaf THEN other ELSE split
              /\ Return
         ELSE Abort

-----------------------------------------------------------------------------
(* The loop of insert() at an inner node.                                  *)

(* Mutant: the byte that selects the child stays in the prefix.            *)
PrefixRestKeepsByte(prefix, m) == SubSeq(prefix, m + 1, Len(prefix))

(* What is left of a prefix below a split after m bytes: the next byte     *)
(* moves to the key[] of the new node.                                     *)
PrefixRest(prefix, m) == SubSeq(prefix, m + 2, Len(prefix))

PrefixMismatch ==
  LET node  == Cur
      m     == CheckPrefix(node, key, depth)
      leaf  == top + 1
      split == top + 2
      half  == AddChild([AllocNode("INNER_4") EXCEPT
                           !.prefix = SubSeq(node.prefix, 1, m)],
                        ByteAt(key, depth + m), leaf)
      new   == [a \in {leaf, split, Target(link)} |->
                  CASE a = leaf  -> MakeLeaf(key)
                    [] a = split -> AddChild(half, node.prefix[m + 1], Target(link))
                    [] a = Target(link) -> [node EXCEPT !.prefix = PrefixRest(@, m)]]
  IN  /\ AtInner
      /\ m # Len(node.prefix)
      /\ IF AddChildAsserts(half, node.prefix[m + 1])
         THEN Replace(Nodes(new), split) /\ top' = split /\ Return
         ELSE Abort

PrefixMatches == CheckPrefix(Cur, key, depth) = Len(Cur.prefix)
DepthAfter == depth + Len(Cur.prefix)

(* Mutant: the end of the key is only noticed one byte too late.           *)
ConsumedLate ==
  /\ AtInner
  /\ PrefixMatches
  /\ DepthAfter > Len(key)
  /\ heap' = [heap EXCEPT ![Target(link)].count = @ + 1]
  /\ Return
  /\ UNCHANGED <<top, root>>

(* All of the key is consumed: the inner node counts it.                   *)
Consumed ==
  /\ AtInner
  /\ PrefixMatches
  /\ DepthAfter >= Len(key)
  /\ heap' = [heap EXCEPT ![Target(link)].count = @ + 1]
  /\ Return
  /\ UNCHANGED <<top, root>>

Descend ==
  /\ AtInner
  /\ PrefixMatches
  /\ DepthAfter < Len(key)
  /\ Child(Cur, ByteAt(key, DepthAfter)) # Null
  /\ link' = [parent |-> Target(link),
              slot |-> FindChild(Cur, ByteAt(key, DepthAfter))]
  /\ depth' = DepthAfter + 1
  /\ UNCHANGED <<heap, top, root, pc, key, inserts>>

(* No child for the next byte: a leaf is added to the node, or to the      *)
(* larger node that replaces it when it is full (the old one is freed).    *)
AddLeaf ==
  LET node == Cur
      b    == ByteAt(key, DepthAfter)
      leaf == top + 1
      old  == Target(link)
      grown == top + 2
      room  == MakeRoom(node)
  IN  /\ AtInner
      /\ PrefixMatches
      /\ DepthAfter < Len(key)
      /\ Child(node, b) = Null
      /\ IF (IsFull(node) => GrowAsserts(node)) /\ AddChildAsserts(room, b)
         THEN /\ IF IsFull(node)
                 THEN LET h == Nodes([a \in {leaf, grown} |->
                                        IF a = leaf THEN MakeLeaf(key)
                                        ELSE AddChild(room, b, leaf)])
                      IN  /\ Replace([a \in DOMAIN h \ {old} |-> h[a]], grown)
                          /\ top' = grown
                 ELSE /\ heap' = Nodes([a \in {leaf, old} |->
                                          IF a = leaf THEN MakeLeaf(key)
                                          ELSE AddChild(room, b, leaf)])
                      /\ top' = leaf
                      /\ UNCHANGED root
              /\ Return
         ELSE Abort

InsertStep ==
  InsertRoot \/ LeafHit \/ LeafSplit \/ PrefixMismatch \/ Consumed \/ Descend
    \/ AddLeaf

Next == (\E k \in Keys : Start(k)) \/ InsertStep

(* The program is sequential: it never stops in the middle of insert().    *)
Fairness == WF_vars(InsertStep)

Spec == Init /\ [][Next]_vars /\ Fairness

-----------------------------------------------------------------------------

(* search(): the address of the node that stands for k, or Null.           *)
Search(k) ==
  LET find[a \in DOMAIN heap \cup {Null}, d \in Nat] ==
        IF a = Null THEN Null
        ELSE LET node  == heap[a]
                 after == d + Len(node.prefix)
             IN  IF IsLeaf(node) THEN IF node.key = k THEN a ELSE Null
                 ELSE IF CheckPrefix(node, k, d) # Len(node.prefix) THEN Null
                 ELSE IF after = Len(k) THEN a
                 ELSE find[Child(node, ByteAt(k, after)), after + 1]
  IN  find[root, 0]

(* count() of lib/art/test.c: the count that search() leads to.            *)
CountOf(k) == IF Search(k) = Null THEN 0 ELSE heap[Search(k)].count

LiveInner == {a \in DOMAIN heap : ~ IsLeaf(heap[a])}
Slot == {RootLink} \cup
        {[parent |-> a, slot |-> i] : a \in LiveInner, i \in 0 .. MaxByte}
Links == {l \in Slot : l = RootLink \/ l.slot \in DOMAIN heap[l.parent].arr}
Occupied == {l \in Links : Target(l) # Null}

(* Type correctness: no prefix outgrows prefix[], and the walk never goes  *)
(* past the end of the key (the unsigned subtractions of check_prefix()    *)
(* and do_leaf() do not wrap).                                             *)
TypeOK ==
  /\ top \in Nat
  /\ DOMAIN heap \subseteq 1 .. top
  /\ \A a \in DOMAIN heap :
       /\ \/ \E k \in Keys : heap[a] = [MakeLeaf(k) EXCEPT !.count = heap[a].count]
          \/ IsInnerNode(heap[a], 1 .. top)
       /\ heap[a].count \in Nat
       /\ Len(heap[a].prefix) <= PrefixSize
  /\ pc \in {"idle", "insert", "aborted"}
  /\ key \in Keys \cup {<<>>}
  /\ depth \in 0 .. Len(key)
  /\ inserts \in [Keys -> Nat]

(* Every inner node keeps the layout invariant, whatever sequence of       *)
(* splits, chains and growths built it.                                    *)
NodesLaidOut == \A a \in LiveInner : Layout(heap[a])

(* The tree is a tree in memory: no link dangles to a node that grow()     *)
(* freed, no two links share a node, no link leads back to the root, and   *)
(* the link that insert() holds in _node still points into a live node.    *)
TreeShape ==
  /\ NodesLaidOut
  /\ \A l \in Occupied : Target(l) \in DOMAIN heap
  /\ \A l, m \in Occupied : Target(l) = Target(m) => l = m
  /\ link \in Links
  /\ pc = "insert" /\ link # RootLink => link \in Occupied

LeavesOfLength(n) == {a \in DOMAIN heap : IsLeaf(heap[a]) /\ heap[a].key_len = n}

(* Nothing is counted twice: the sightings that the leaves stand for (the  *)
(* insertion that made the leaf, and its count) never exceed the           *)
(* insertions, even when a defect made several leaves for one callstack.   *)
(* Below a node that lost its prefix a leaf is hit by other callstacks     *)
(* too, since do_leaf() compares from depth on only, but by none of        *)
(* another length.                                                         *)
NeverOvercounts ==
  \A n \in {Len(k) : k \in Keys} :
    SumFunction([a \in LeavesOfLength(n) |-> heap[a].count + 1])
      <= SumFunction([k \in {k \in Keys : Len(k) = n} |-> inserts[k]])

(* Every insertion comes to an end.                                        *)
InsertEnds == (pc = "insert") ~> (pc # "insert")

(* A callstack that was inserted is found again.                           *)
InsertedIsFound ==
  pc = "idle" => \A k \in Keys : inserts[k] > 0 => Search(k) # Null

(* An assert() can only fail where a callstack has ended: its "next byte"  *)
(* is then the zero that follows it, and the new node is given two         *)
(* children for that byte.  Either the key ends inside the prefix of an    *)
(* inner node that goes on with a zero, or the leaf that is split ended on *)
(* the way to it and the key goes on with a zero.  No growth and no child  *)
(* that is added to a node ever makes one fail.                            *)
AbortsPastKeyEnd ==
  pc = "aborted" =>
    IF IsLeaf(Cur)
    THEN Cur.key_len < depth /\ depth < Len(key) /\ key[depth + 1] = 0
    ELSE LET m == CheckPrefix(Cur, key, depth)
         IN  /\ depth + m = Len(key)
             /\ m < Len(Cur.prefix) /\ Cur.prefix[m + 1] = 0

(* The count of a callstack never goes down.                               *)
CountsNeverDrop == [][\A k \in Keys : CountOf(k)' >= CountOf(k)]_vars

(* The tree implements a table of counts, where the leaf of a callstack    *)
(* stands for one sighting more than its count.                            *)
Abs == INSTANCE StackCounts WITH
  Stacks <- Keys,
  count  <- [k \in Keys |-> IF Search(k) = Null THEN 0 ELSE CountOf(k) + 1]
ImplementsStackCounts == Abs!Spec
=============================================================================
