------------------------------ MODULE ArtNode ------------------------------
(***************************************************************************)
(* The nodes of the adaptive radix tree (lib/art/art.c, lib/art/art.h).    *)
(*                                                                         *)
(* A node is a record with the fields of struct radix_tree_node.  Its      *)
(* prefix is a sequence, so prefix_len is Len(prefix).  An inner node maps *)
(* bytes to children in one of four layouts of growing capacity:           *)
(*                                                                         *)
(*   INNER_4, INNER_16  key[i] is the byte of the child arr[i], i < key_len*)
(*   INNER_48           key[b] is the index in arr of the child of byte b, *)
(*                      or EMPTY                                           *)
(*   INNER_256          arr[b] is the child of byte b, or Null; no key     *)
(*                                                                         *)
(* The real capacities are 4, 16, 48 and 256; they are constants here so   *)
(* that TLC reaches every growth step with a handful of bytes.             *)
(***************************************************************************)
EXTENDS Integers, Sequences

CONSTANTS
  MaxByte,              \* the largest value of art_key_t (255)
  Cap4, Cap16, Cap48,   \* node_size() of the three smaller layouts
  Null                  \* the null child pointer

ASSUME CapsAssumption ==
  /\ MaxByte \in Nat /\ Cap4 \in Nat /\ Cap16 \in Nat /\ Cap48 \in Nat
  /\ 0 < Cap4 /\ Cap4 < Cap16 /\ Cap16 < Cap48 /\ Cap48 <= MaxByte

Byte  == 0 .. MaxByte
EMPTY == MaxByte        \* 0xff marks an unset key[] of an INNER_48
NoSlot == -1            \* find_child() returned NULL

Sparse == {"INNER_4", "INNER_16"}            \* layouts searched key by key
Inner  == Sparse \cup {"INNER_48", "INNER_256"}

NodeSize(flags) ==
  CASE flags = "INNER_4"   -> Cap4
    [] flags = "INNER_16"  -> Cap16
    [] flags = "INNER_48"  -> Cap48
    [] flags = "INNER_256" -> MaxByte + 1

Slots(flags) == 0 .. NodeSize(flags) - 1

(* alloc_node(): zeroed memory, but every key[] of an INNER_48 is EMPTY.   *)
AllocNode(flags) ==
  [flags   |-> flags,
   key_len |-> 0,
   key     |-> CASE flags \in Sparse     -> [i \in Slots(flags) |-> 0]
                 [] flags = "INNER_48"   -> [b \in Byte |-> EMPTY]
                 [] flags = "INNER_256"  -> <<>>,
   arr     |-> [i \in Slots(flags) |-> Null],
   prefix  |-> <<>>,
   count   |-> 0]

(* make_leaf(): the leaf keeps a pointer to the key, and a count of 0.     *)
MakeLeaf(k) ==
  [flags |-> "LEAF", key_len |-> Len(k), key |-> k, arr |-> <<>>,
   prefix |-> <<>>, count |-> 0]

IsLeaf(node) == node.flags = "LEAF"

(* Mutant: a node counts as full one child too late.                       *)
IsFullLate(node) == node.key_len > NodeSize(node.flags)

(* is_full() of an inner node.                                             *)
IsFull(node) == node.key_len = NodeSize(node.flags)

Used(node) == 0 .. node.key_len - 1

(* The loop over key[], find_child_16() included.                          *)
FirstSlot(keys, used, b) ==
  CHOOSE i \in used : keys[i] = b /\ \A j \in used : j < i => keys[j] # b

(* find_child(): the index in arr of the slot of byte b, or NoSlot.  The   *)
(* slot of an INNER_256 always exists, though it may hold Null.            *)
FindChild(node, b) ==
  CASE node.flags \in Sparse ->
         IF \E i \in Used(node) : node.key[i] = b
         THEN FirstSlot(node.key, Used(node), b)
         ELSE NoSlot
    [] node.flags = "INNER_48" ->
         IF node.key[b] = EMPTY THEN NoSlot ELSE node.key[b]
    [] node.flags = "INNER_256" -> b

(* The test "next && *next" of insert(): Null unless b has a child.        *)
Child(node, b) ==
  LET slot == FindChild(node, b)
  IN  IF slot = NoSlot THEN Null ELSE node.arr[slot]

(* What add_child() asserts before it writes.                              *)
AddChildAsserts(node, b) ==
  /\ ~ IsFull(node)
  /\ node.flags \in Sparse => \A i \in Used(node) : node.key[i] # b
  /\ node.flags = "INNER_48" => node.key[b] = EMPTY
  /\ node.flags = "INNER_256" => node.arr[b] = Null

(* add_child(): an INNER_256 keeps its key_len.                            *)
AddChild(node, b, child) ==
  CASE node.flags \in Sparse ->
         [node EXCEPT !.key[node.key_len] = b,
                      !.arr[node.key_len] = child,
                      !.key_len = @ + 1]
    [] node.flags = "INNER_48" ->
         [node EXCEPT !.key[b] = node.key_len,
                      !.arr[node.key_len] = child,
                      !.key_len = @ + 1]
    [] node.flags = "INNER_256" ->
         [node EXCEPT !.arr[b] = child]

(* What grow() asserts: only a full node of the three smaller layouts.     *)
GrowAsserts(node) ==
  IsFull(node) /\ node.flags \in {"INNER_4", "INNER_16", "INNER_48"}

NextLayout(flags) ==
  CASE flags = "INNER_4"  -> "INNER_16"
    [] flags = "INNER_16" -> "INNER_48"
    [] flags = "INNER_48" -> "INNER_256"

(* The key[] and arr[] that grow() fills in the node of the next layout.   *)
GrownKey(node) ==
  LET new == AllocNode(NextLayout(node.flags)) IN
  CASE node.flags = "INNER_4" ->
         [i \in DOMAIN new.key |->
            IF i \in Slots("INNER_4") THEN node.key[i] ELSE new.key[i]]
    [] node.flags = "INNER_16" ->
         [b \in Byte |->
            IF \E i \in Slots("INNER_16") : node.key[i] = b
            THEN CHOOSE i \in Slots("INNER_16") :
                   /\ node.key[i] = b
                   /\ \A j \in Slots("INNER_16") : i < j => node.key[j] # b
            ELSE new.key[b]]
    [] node.flags = "INNER_48" -> new.key

(* Mutant: the children of an INNER_48 are copied slot by slot too.        *)
GrownArrBySlot(node) ==
  LET new == AllocNode(NextLayout(node.flags))
  IN  [i \in DOMAIN new.arr |->
         IF i \in Slots(node.flags) THEN node.arr[i] ELSE new.arr[i]]

GrownArr(node) ==
  LET new == AllocNode(NextLayout(node.flags)) IN
  CASE node.flags \in Sparse ->
         [i \in DOMAIN new.arr |->
            IF i \in Slots(node.flags) THEN node.arr[i] ELSE new.arr[i]]
    [] node.flags = "INNER_48" ->
         [b \in Byte |->
            IF node.key[b] = EMPTY THEN new.arr[b] ELSE node.arr[node.key[b]]]

(* Mutant: the key_len of the new node is not set.                         *)
GrowNoLength(node) ==
  [AllocNode(NextLayout(node.flags)) EXCEPT
     !.key = GrownKey(node), !.arr = GrownArr(node)]

(* grow(): a new node with the children of the old one.  The prefix and    *)
(* the count of the old node are not copied.                               *)
Grow(node) ==
  [AllocNode(NextLayout(node.flags)) EXCEPT
     !.key = GrownKey(node), !.arr = GrownArr(node),
     !.key_len = NodeSize(node.flags)]

(* Mutant: the node is never grown.                                        *)
MakeRoomNever(node) == node

(* The node add_child() gets at the end of insert(): grown when full.      *)
MakeRoom(node) == IF IsFull(node) THEN Grow(node) ELSE node

-----------------------------------------------------------------------------

(* The values an inner node of one layout can take when its children are   *)
(* in C; an inner node is one of these.                                    *)
NodesOfLayout(f, C) ==
  [flags : {f}, key_len : 0 .. NodeSize(f),
   key : CASE f \in Sparse    -> [Slots(f) -> Byte]
           [] f = "INNER_48"  -> [Byte -> Byte]
           [] f = "INNER_256" -> {<<>>},
   arr : [Slots(f) -> C \cup {Null}],
   prefix : Seq(Byte), count : Nat]

IsInnerNode(node, C) == \E f \in Inner : node \in NodesOfLayout(f, C)

(* The representation invariant of an inner node: the used slots are       *)
(* exactly the slots with a child, and they belong to distinct bytes.      *)
Layout(node) ==
  /\ node.flags # "INNER_256" =>
       \A i \in Slots(node.flags) : node.arr[i] # Null <=> i \in Used(node)
  /\ node.flags \in Sparse =>
       \A i, j \in Used(node) : node.key[i] = node.key[j] => i = j
  /\ node.flags = "INNER_48" =>
       /\ \A b \in Byte : node.key[b] # EMPTY => node.key[b] \in Used(node)
       /\ \A i \in Used(node) : \E b \in Byte : node.key[b] = i
       /\ \A b, c \in Byte :
            node.key[b] = node.key[c] /\ node.key[b] # EMPTY => b = c
  /\ node.flags = "INNER_256" => node.key_len = Cap48

(* The partial function from bytes to children that a node stands for.     *)
ChildrenOf(node) ==
  [b \in {x \in Byte : Child(node, x) # Null} |-> Child(node, b)]
=============================================================================
