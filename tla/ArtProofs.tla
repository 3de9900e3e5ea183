------------------------------ MODULE ArtProofs ------------------------------
(***************************************************************************)
(* Proofs about the radix tree.                                            *)
(*                                                                         *)
(* The first part is about its inner nodes, for every number of bytes and  *)
(* every capacity: the layouts stay consistent through every growth, the   *)
(* assertions of add_child() and grow() hold on the insert() path, and a   *)
(* node implements a partial function from bytes to children.  It says     *)
(* what the operators of ArtNode do to a node, layout by layout and then   *)
(* for all of them: lookups, additions, growths and redirected children.   *)
(*                                                                         *)
(* The second part is about the tree, for every finite set of callstacks   *)
(* and every size of prefix[]: types, the shape of the tree in memory,     *)
(* where an assertion can fail, and that nothing is counted twice.         *)
(***************************************************************************)
EXTENDS ArtNodeSpec, ArtTree, SumLemmas, SequenceTheorems

-----------------------------------------------------------------------------
(* What the capacities are, and what the fields of a node range over.      *)

LEMMA Sizes ==
  /\ NodeSize("INNER_4") = Cap4
  /\ NodeSize("INNER_16") = Cap16
  /\ NodeSize("INNER_48") = Cap48
  /\ NodeSize("INNER_256") = MaxByte + 1
  /\ \A f \in Inner : NodeSize(f) \in Nat \ {0}
BY CapsAssumption DEF NodeSize, Inner, Sparse

LEMMA SparseFields ==
  ASSUME NEW f \in Sparse, NEW C, NEW n
  PROVE  n \in NodesOfLayout(f, C) <=>
           n \in [flags : {f}, key_len : 0 .. NodeSize(f),
                  key : [Slots(f) -> Byte], arr : [Slots(f) -> C \cup {Null}],
                  prefix : Seq(Byte), count : Nat]
BY DEF NodesOfLayout, Sparse

LEMMA Fields4 ==
  ASSUME NEW C, NEW n
  PROVE  n \in NodesOfLayout("INNER_4", C) <=>
           n \in [flags : {"INNER_4"}, key_len : 0 .. Cap4,
                  key : [0 .. Cap4 - 1 -> Byte],
                  arr : [0 .. Cap4 - 1 -> C \cup {Null}],
                  prefix : Seq(Byte), count : Nat]
BY Sizes DEF NodesOfLayout, Sparse, Slots

LEMMA Fields16 ==
  ASSUME NEW C, NEW n
  PROVE  n \in NodesOfLayout("INNER_16", C) <=>
           n \in [flags : {"INNER_16"}, key_len : 0 .. Cap16,
                  key : [0 .. Cap16 - 1 -> Byte],
                  arr : [0 .. Cap16 - 1 -> C \cup {Null}],
                  prefix : Seq(Byte), count : Nat]
BY Sizes DEF NodesOfLayout, Sparse, Slots

LEMMA Fields48 ==
  ASSUME NEW C, NEW n
  PROVE  n \in NodesOfLayout("INNER_48", C) <=>
           n \in [flags : {"INNER_48"}, key_len : 0 .. Cap48,
                  key : [Byte -> Byte], arr : [0 .. Cap48 - 1 -> C \cup {Null}],
                  prefix : Seq(Byte), count : Nat]
BY Sizes DEF NodesOfLayout, Sparse, Slots

LEMMA Fields256 ==
  ASSUME NEW C, NEW n
  PROVE  n \in NodesOfLayout("INNER_256", C) <=>
           n \in [flags : {"INNER_256"}, key_len : 0 .. MaxByte + 1,
                  key : {<<>>}, arr : [Byte -> C \cup {Null}],
                  prefix : Seq(Byte), count : Nat]
BY Sizes, CapsAssumption DEF NodesOfLayout, Sparse, Slots, Byte

LEMMA ByLayout ==
  ASSUME NEW C, NEW n, IsInnerNode(n, C)
  PROVE  \/ n \in NodesOfLayout("INNER_4", C)
         \/ n \in NodesOfLayout("INNER_16", C)
         \/ n \in NodesOfLayout("INNER_48", C)
         \/ n \in NodesOfLayout("INNER_256", C)
BY DEF IsInnerNode, Inner, Sparse

-----------------------------------------------------------------------------
(* What a lookup finds, layout by layout.                                  *)

LEMMA ChildSparse ==
  ASSUME NEW f \in Sparse, NEW C, NEW n \in NodesOfLayout(f, C), Layout(n),
         NEW b
  PROVE  /\ \A i \in Used(n) : n.key[i] = b =>
              FindChild(n, b) = i /\ Child(n, b) = n.arr[i]
         /\ (\A i \in Used(n) : n.key[i] # b) => Child(n, b) = Null
<1>1. /\ n.flags = f
      /\ n.key_len \in 0 .. NodeSize(f)
      BY SparseFields
<1>2. \A i, j \in Used(n) : n.key[i] = n.key[j] => i = j
      BY <1>1 DEF Layout, Sparse
<1>3. \A i \in Used(n) : i \in Nat
      BY <1>1 DEF Used
<1>4. ASSUME NEW i \in Used(n), n.key[i] = b
      PROVE  FindChild(n, b) = i
      <2>1. \A j \in Used(n) : n.key[j] = b <=> j = i
            BY <1>2, <1>4
      <2>2. FirstSlot(n.key, Used(n), b) = i
            BY <2>1, <1>3 DEF FirstSlot
      <2> QED BY <1>1, <1>4, <2>2 DEF FindChild, Sparse
<1>5. ASSUME \A i \in Used(n) : n.key[i] # b
      PROVE  FindChild(n, b) = NoSlot
      BY <1>1, <1>5 DEF FindChild, Sparse
<1>6. \A i \in Used(n) : i # NoSlot
      BY <1>3 DEF NoSlot
<1> QED BY <1>4, <1>5, <1>6 DEF Child

LEMMA Child48 ==
  ASSUME NEW C, NEW n \in NodesOfLayout("INNER_48", C), NEW b \in Byte
  PROVE  /\ n.key[b] # EMPTY =>
              FindChild(n, b) = n.key[b] /\ Child(n, b) = n.arr[n.key[b]]
         /\ n.key[b] = EMPTY => Child(n, b) = Null
<1>1. n.flags = "INNER_48" /\ n.key[b] \in Byte
      BY Fields48
<1>2. n.key[b] # NoSlot
      BY <1>1 DEF Byte, NoSlot
<1>3. FindChild(n, b) = IF n.key[b] = EMPTY THEN NoSlot ELSE n.key[b]
      BY <1>1 DEF FindChild, Sparse
<1> QED BY <1>2, <1>3 DEF Child

LEMMA Child256 ==
  ASSUME NEW C, NEW n \in NodesOfLayout("INNER_256", C), NEW b \in Byte
  PROVE  FindChild(n, b) = b /\ Child(n, b) = n.arr[b]
<1>1. n.flags = "INNER_256" /\ b # NoSlot
      BY Fields256 DEF Byte, NoSlot
<1>2. FindChild(n, b) = b
      BY <1>1 DEF FindChild, Sparse
<1> QED BY <1>1, <1>2 DEF Child

-----------------------------------------------------------------------------
(* add_child() on a node with room for a byte that has no child.           *)

LEMMA AddSparse ==
  ASSUME NEW f \in Sparse, NEW C, NEW n \in NodesOfLayout(f, C), Layout(n),
         ~ IsFull(n), NEW b \in Byte, NEW c \in C, Null \notin C,
         Child(n, b) = Null
  PROVE  /\ AddChildAsserts(n, b)
         /\ AddChild(n, b, c) \in NodesOfLayout(f, C)
         /\ Layout(AddChild(n, b, c))
         /\ \A x \in Byte : Child(AddChild(n, b, c), x) =
                              IF x = b THEN c ELSE Child(n, x)
<1> DEFINE m == AddChild(n, b, c)
<1>1. /\ n.flags = f /\ n.flags # "INNER_48" /\ n.flags # "INNER_256"
      /\ n.key_len \in 0 .. NodeSize(f)
      /\ n.key \in [Slots(f) -> Byte]
      /\ n.arr \in [Slots(f) -> C \cup {Null}]
      /\ n.prefix \in Seq(Byte) /\ n.count \in Nat
      /\ n = [flags |-> n.flags, key_len |-> n.key_len, key |-> n.key,
              arr |-> n.arr, prefix |-> n.prefix, count |-> n.count]
      BY SparseFields DEF Sparse
<1>2. /\ NodeSize(f) \in Nat \ {0} /\ n.key_len # NodeSize(f)
      /\ n.key_len \in Slots(f) /\ n.key_len + 1 \in 0 .. NodeSize(f)
      BY <1>1, Sizes DEF IsFull, Slots, Inner, Sparse
<1>3. \A i \in Used(n) : i \in Slots(f) /\ i # n.key_len
      BY <1>1, <1>2 DEF Used, Slots
<1>4. \A i \in Used(n) : n.arr[i] # Null
      BY <1>1, <1>3 DEF Layout
<1>5. \A i \in Used(n) : n.key[i] # b
      BY <1>4, ChildSparse
<1>6. /\ m.flags = f /\ m.key_len = n.key_len + 1
      /\ m.key = [n.key EXCEPT ![n.key_len] = b]
      /\ m.arr = [n.arr EXCEPT ![n.key_len] = c]
      /\ m = [flags |-> m.flags, key_len |-> m.key_len, key |-> m.key,
              arr |-> m.arr, prefix |-> n.prefix, count |-> n.count]
      /\ m.prefix = n.prefix /\ m.count = n.count
      <2>1. m = [n EXCEPT !.key[n.key_len] = b, !.arr[n.key_len] = c,
                          !.key_len = @ + 1]
            BY <1>1 DEF AddChild, Sparse
      <2> QED BY <2>1, <1>1
<1>7. m \in NodesOfLayout(f, C)
      <2>1. m.key \in [Slots(f) -> Byte] /\ m.arr \in [Slots(f) -> C \cup {Null}]
            BY <1>1, <1>2, <1>6
      <2> QED BY <2>1, <1>1, <1>2, <1>6, SparseFields
<1>8. Used(m) = Used(n) \cup {n.key_len}
      BY <1>1, <1>6 DEF Used
<1>9. Layout(m)
      <2>1. \A i \in Slots(f) : m.arr[i] # Null <=> i \in Used(m)
            <3>1. \A i \in Slots(f) : n.arr[i] # Null <=> i \in Used(n)
                  BY <1>1 DEF Layout
            <3> QED BY <1>1, <1>2, <1>6, <1>8, <3>1
      <2>2. \A i, j \in Used(m) : m.key[i] = m.key[j] => i = j
            <3>1. \A i, j \in Used(n) : n.key[i] = n.key[j] => i = j
                  BY <1>1 DEF Layout, Sparse
            <3> QED BY <1>1, <1>2, <1>3, <1>5, <1>6, <1>8, <3>1
      <2> QED BY <2>1, <2>2, <1>1, <1>6 DEF Layout
<1>10. ASSUME NEW x \in Byte
       PROVE  Child(m, x) = IF x = b THEN c ELSE Child(n, x)
  <2>1. CASE x = b
        BY <2>1, <1>1, <1>2, <1>6, <1>7, <1>8, <1>9, ChildSparse
  <2>2. CASE x # b /\ \E i \in Used(n) : n.key[i] = x
        <3>1. PICK i \in Used(n) : n.key[i] = x
              BY <2>2
        <3>2. Child(n, x) = n.arr[i]
              BY <3>1, ChildSparse
        <3>3. i \in Used(m) /\ m.key[i] = x /\ m.arr[i] = n.arr[i]
              BY <3>1, <1>1, <1>3, <1>6, <1>8
        <3>4. Child(m, x) = m.arr[i]
              BY <3>3, <1>7, <1>9, ChildSparse
        <3> QED BY <2>2, <3>2, <3>3, <3>4
  <2>3. CASE x # b /\ \A i \in Used(n) : n.key[i] # x
        <3>1. \A i \in Used(m) : m.key[i] # x
              BY <2>3, <1>1, <1>2, <1>3, <1>6, <1>8
        <3> QED BY <2>3, <3>1, <1>7, <1>9, ChildSparse
  <2> QED BY <2>1, <2>2, <2>3
<1>11. AddChildAsserts(n, b)
      BY <1>1, <1>5 DEF AddChildAsserts
<1> QED BY <1>7, <1>9, <1>10, <1>11

LEMMA Add48 ==
  ASSUME NEW C, NEW n \in NodesOfLayout("INNER_48", C), Layout(n),
         ~ IsFull(n), NEW b \in Byte, NEW c \in C, Null \notin C,
         Child(n, b) = Null
  PROVE  /\ AddChildAsserts(n, b)
         /\ AddChild(n, b, c) \in NodesOfLayout("INNER_48", C)
         /\ Layout(AddChild(n, b, c))
         /\ \A x \in Byte : Child(AddChild(n, b, c), x) =
                              IF x = b THEN c ELSE Child(n, x)
<1> DEFINE m == AddChild(n, b, c)
<1>1. /\ n.flags = "INNER_48"
      /\ n.key_len \in 0 .. Cap48
      /\ n.key \in [Byte -> Byte]
      /\ n.arr \in [0 .. Cap48 - 1 -> C \cup {Null}]
      /\ n.prefix \in Seq(Byte) /\ n.count \in Nat
      /\ n = [flags |-> n.flags, key_len |-> n.key_len, key |-> n.key,
              arr |-> n.arr, prefix |-> n.prefix, count |-> n.count]
      BY Fields48
<1>2. /\ n.key_len # Cap48 /\ n.key_len \in 0 .. Cap48 - 1
      /\ n.key_len + 1 \in 0 .. Cap48
      /\ n.key_len \in Byte /\ n.key_len # EMPTY
      BY <1>1, Sizes, CapsAssumption DEF IsFull, Byte, EMPTY
<1>3. /\ \A i \in 0 .. Cap48 - 1 : n.arr[i] # Null <=> i \in Used(n)
      /\ \A x \in Byte : n.key[x] # EMPTY => n.key[x] \in Used(n)
      /\ \A i \in Used(n) : \E x \in Byte : n.key[x] = i
      /\ \A x, y \in Byte : n.key[x] = n.key[y] /\ n.key[x] # EMPTY => x = y
      BY <1>1, Sizes DEF Layout, Slots
<1>4. \A i \in Used(n) : i \in 0 .. Cap48 - 1 /\ i # n.key_len
      BY <1>1, <1>2, CapsAssumption DEF Used
<1>5. n.key[b] = EMPTY
      BY <1>3, <1>4, Child48
<1>6. /\ m.flags = "INNER_48" /\ m.key_len = n.key_len + 1
      /\ m.key = [n.key EXCEPT ![b] = n.key_len]
      /\ m.arr = [n.arr EXCEPT ![n.key_len] = c]
      /\ m = [flags |-> m.flags, key_len |-> m.key_len, key |-> m.key,
              arr |-> m.arr, prefix |-> n.prefix, count |-> n.count]
      /\ m.prefix = n.prefix /\ m.count = n.count
      <2>1. m = [n EXCEPT !.key[b] = n.key_len, !.arr[n.key_len] = c,
                          !.key_len = @ + 1]
            BY <1>1 DEF AddChild, Sparse
      <2> QED BY <2>1, <1>1
<1>7. m \in NodesOfLayout("INNER_48", C)
      <2>1. m.key \in [Byte -> Byte] /\ m.arr \in [0 .. Cap48 - 1 -> C \cup {Null}]
            BY <1>1, <1>2, <1>6
      <2>2. m.key_len \in 0 .. Cap48
            BY <1>2, <1>6
      <2> QED BY <2>1, <2>2, <1>1, <1>6, Fields48
<1>8. Used(m) = Used(n) \cup {n.key_len}
      BY <1>1, <1>6 DEF Used
<1>9. \A x \in Byte : m.key[x] = IF x = b THEN n.key_len ELSE n.key[x]
      BY <1>1, <1>6
<1>10. Layout(m)
      <2>1. \A i \in 0 .. Cap48 - 1 : m.arr[i] # Null <=> i \in Used(m)
            BY <1>1, <1>2, <1>3, <1>6, <1>8
      <2>2. \A x \in Byte : m.key[x] # EMPTY => m.key[x] \in Used(m)
            BY <1>3, <1>8, <1>9
      <2>3. \A i \in Used(m) : \E x \in Byte : m.key[x] = i
            <3>1. ASSUME NEW i \in Used(n) PROVE \E x \in Byte : m.key[x] = i
                  <4>1. PICK x \in Byte : n.key[x] = i
                        BY <1>3
                  <4>2. x # b
                        BY <4>1, <1>2, <1>3, <1>4, <1>5, CapsAssumption DEF EMPTY
                  <4> QED BY <4>1, <4>2, <1>9
            <3> QED BY <3>1, <1>8, <1>9
      <2>4. \A x, y \in Byte : m.key[x] = m.key[y] /\ m.key[x] # EMPTY => x = y
            BY <1>3, <1>4, <1>9
      <2> QED BY <2>1, <2>2, <2>3, <2>4, <1>1, <1>6, Sizes DEF Layout, Slots, Sparse
<1>11. ASSUME NEW x \in Byte
       PROVE  Child(m, x) = IF x = b THEN c ELSE Child(n, x)
  <2>1. /\ m.key[x] # EMPTY => Child(m, x) = m.arr[m.key[x]]
        /\ m.key[x] = EMPTY => Child(m, x) = Null
        /\ n.key[x] # EMPTY => Child(n, x) = n.arr[n.key[x]]
        /\ n.key[x] = EMPTY => Child(n, x) = Null
        BY <1>7, Child48
  <2>2. n.key[x] # EMPTY => m.arr[n.key[x]] = n.arr[n.key[x]]
        BY <1>1, <1>3, <1>4, <1>6
  <2> QED BY <2>1, <2>2, <1>1, <1>2, <1>6, <1>9
<1>12. AddChildAsserts(n, b)
      BY <1>1, <1>5 DEF AddChildAsserts, Sparse
<1> QED BY <1>7, <1>10, <1>11, <1>12

LEMMA Add256 ==
  ASSUME NEW C, NEW n \in NodesOfLayout("INNER_256", C), Layout(n),
         NEW b \in Byte, NEW c \in C, Child(n, b) = Null
  PROVE  /\ AddChildAsserts(n, b)
         /\ AddChild(n, b, c) \in NodesOfLayout("INNER_256", C)
         /\ Layout(AddChild(n, b, c))
         /\ \A x \in Byte : Child(AddChild(n, b, c), x) =
                              IF x = b THEN c ELSE Child(n, x)
<1> DEFINE m == AddChild(n, b, c)
<1>1. /\ n.flags = "INNER_256" /\ n.key_len = Cap48
      /\ n.arr \in [Byte -> C \cup {Null}]
      /\ n \in [flags : {"INNER_256"}, key_len : 0 .. MaxByte + 1,
                 key : {<<>>}, arr : [Byte -> C \cup {Null}],
                 prefix : Seq(Byte), count : Nat]
      BY Fields256 DEF Layout
<1>2. m = [n EXCEPT !.arr[b] = c]
      BY <1>1 DEF AddChild, Sparse
<1>3. m \in NodesOfLayout("INNER_256", C)
      <2>1. m \in [flags : {"INNER_256"}, key_len : 0 .. MaxByte + 1,
                   key : {<<>>}, arr : [Byte -> C \cup {Null}],
                   prefix : Seq(Byte), count : Nat]
            BY <1>1, <1>2
      <2> QED BY <2>1, Fields256
<1>4. m.flags = "INNER_256" /\ m.key_len = Cap48 /\ m.arr = [n.arr EXCEPT ![b] = c]
      BY <1>1, <1>2
<1>5. Layout(m)
      BY <1>4 DEF Layout, Sparse
<1>6. \A x \in Byte : Child(m, x) = m.arr[x] /\ Child(n, x) = n.arr[x]
      BY <1>3, Child256
<1>7. \A x \in Byte : Child(m, x) = IF x = b THEN c ELSE Child(n, x)
      BY <1>1, <1>4, <1>6
<1>8. AddChildAsserts(n, b)
      <2>1. ~ IsFull(n)
            BY <1>1, Sizes, CapsAssumption DEF IsFull
      <2> QED BY <2>1, <1>1, <1>6 DEF AddChildAsserts, Sparse
<1> QED BY <1>3, <1>5, <1>7, <1>8

-----------------------------------------------------------------------------
(* grow() of a full node, layout by layout: a consistent node of the next  *)
(* layout, that is not full and in which every lookup finds what it did.   *)

LEMMA Alloc ==
  /\ AllocNode("INNER_4") =
       [flags |-> "INNER_4", key_len |-> 0, key |-> [i \in 0 .. Cap4 - 1 |-> 0],
        arr |-> [i \in 0 .. Cap4 - 1 |-> Null], prefix |-> <<>>, count |-> 0]
  /\ AllocNode("INNER_16") =
       [flags |-> "INNER_16", key_len |-> 0, key |-> [i \in 0 .. Cap16 - 1 |-> 0],
        arr |-> [i \in 0 .. Cap16 - 1 |-> Null], prefix |-> <<>>, count |-> 0]
  /\ AllocNode("INNER_48") =
       [flags |-> "INNER_48", key_len |-> 0, key |-> [b \in Byte |-> EMPTY],
        arr |-> [i \in 0 .. Cap48 - 1 |-> Null], prefix |-> <<>>, count |-> 0]
  /\ AllocNode("INNER_256") =
       [flags |-> "INNER_256", key_len |-> 0, key |-> <<>>,
        arr |-> [i \in Byte |-> Null], prefix |-> <<>>, count |-> 0]
<1>1. Slots("INNER_256") = Byte
      BY Sizes, CapsAssumption DEF Slots, Byte
<1> QED BY Sizes, <1>1 DEF AllocNode, Sparse, Slots

LEMMA GrowFields ==
  ASSUME NEW n, NEW f \in {"INNER_16", "INNER_48", "INNER_256"},
         NextLayout(n.flags) = f
  PROVE  Grow(n) = [flags |-> f, key_len |-> NodeSize(n.flags),
                    key |-> GrownKey(n), arr |-> GrownArr(n),
                    prefix |-> <<>>, count |-> 0]
<1>1. PICK k, a : AllocNode(f) = [flags |-> f, key_len |-> 0, key |-> k,
                                  arr |-> a, prefix |-> <<>>, count |-> 0]
      BY DEF AllocNode
<1> DEFINE r == [flags |-> f, key_len |-> 0, key |-> k, arr |-> a,
                 prefix |-> <<>>, count |-> 0]
<1>2. Grow(n) = [r EXCEPT !.key = GrownKey(n), !.arr = GrownArr(n),
                          !.key_len = NodeSize(n.flags)]
      BY <1>1, Zenon DEF Grow
<1> QED BY <1>2

LEMMA Grow4 ==
  ASSUME NEW C, NEW n \in NodesOfLayout("INNER_4", C), Layout(n), IsFull(n),
         Null \notin C
  PROVE  /\ Grow(n) \in NodesOfLayout("INNER_16", C)
         /\ Layout(Grow(n)) /\ ~ IsFull(Grow(n))
         /\ \A x \in Byte : Child(Grow(n), x) = Child(n, x)
<1> DEFINE g == Grow(n)
<1> USE CapsAssumption, Sizes
<1>0. "INNER_4" \in Sparse /\ "INNER_16" \in Sparse
      BY DEF Sparse
<1>1. /\ n.flags = "INNER_4" /\ n.key_len = Cap4
      /\ n.key \in [0 .. Cap4 - 1 -> Byte]
      /\ n.arr \in [0 .. Cap4 - 1 -> C \cup {Null}]
      BY Fields4 DEF IsFull
<1>2. Used(n) = 0 .. Cap4 - 1
      BY <1>1 DEF Used
<1>3. g = [flags |-> "INNER_16", key_len |-> Cap4,
           key |-> [i \in 0 .. Cap16 - 1 |->
                      IF i \in 0 .. Cap4 - 1 THEN n.key[i] ELSE 0],
           arr |-> [i \in 0 .. Cap16 - 1 |->
                      IF i \in 0 .. Cap4 - 1 THEN n.arr[i] ELSE Null],
           prefix |-> <<>>, count |-> 0]
  <2>1. NextLayout(n.flags) = "INNER_16"
        BY <1>1 DEF NextLayout
  <2>2. GrownKey(n) = [i \in 0 .. Cap16 - 1 |->
                         IF i \in 0 .. Cap4 - 1 THEN n.key[i] ELSE 0]
        BY <1>1, <2>1, Alloc DEF GrownKey, Slots
  <2>3. GrownArr(n) = [i \in 0 .. Cap16 - 1 |->
                         IF i \in 0 .. Cap4 - 1 THEN n.arr[i] ELSE Null]
        BY <1>1, <2>1, Alloc DEF GrownArr, Slots, Sparse
  <2>6. Grow(n) = [flags |-> "INNER_16", key_len |-> Cap4, key |-> GrownKey(n),
                   arr |-> GrownArr(n), prefix |-> <<>>, count |-> 0]
        BY <1>1, <2>1, GrowFields
  <2> QED BY <2>2, <2>3, <2>6
<1>4. g \in NodesOfLayout("INNER_16", C)
  <2>1. g.key \in [0 .. Cap16 - 1 -> Byte]
        BY <1>1, <1>3 DEF Byte
  <2>2. g.arr \in [0 .. Cap16 - 1 -> C \cup {Null}]
        BY <1>1, <1>3
  <2>3. Cap4 \in 0 .. Cap16 /\ <<>> \in Seq(Byte)
        OBVIOUS
  <2> QED BY <1>3, <2>1, <2>2, <2>3, Fields16
<1>5. Used(g) = 0 .. Cap4 - 1
      BY <1>3 DEF Used
<1>6. Layout(g)
  <2>1. \A i \in 0 .. Cap16 - 1 : g.arr[i] # Null <=> i \in Used(g)
        <3>1. \A i \in 0 .. Cap4 - 1 : n.arr[i] # Null
              BY <1>1, <1>2 DEF Layout, Slots
        <3> QED BY <1>3, <1>5, <3>1
  <2>2. \A i, j \in Used(g) : g.key[i] = g.key[j] => i = j
        BY <1>1, <1>2, <1>3, <1>5 DEF Layout, Sparse
  <2>3. g.flags = "INNER_16"
        BY <1>3
  <2> QED BY <2>1, <2>2, <2>3 DEF Layout, Slots, Sparse
<1>7. ASSUME NEW x \in Byte PROVE Child(g, x) = Child(n, x)
  <2>1. \A i \in Used(n) : g.key[i] = n.key[i] /\ g.arr[i] = n.arr[i]
        BY <1>2, <1>3
  <2>2. CASE \E i \in Used(n) : n.key[i] = x
        BY <2>1, <2>2, <1>0, <1>2, <1>4, <1>5, <1>6, ChildSparse
  <2>3. CASE \A i \in Used(n) : n.key[i] # x
        BY <2>1, <2>3, <1>0, <1>2, <1>4, <1>5, <1>6, ChildSparse
  <2> QED BY <2>2, <2>3
<1>8. ~ IsFull(g)
      BY <1>3 DEF IsFull
<1> QED BY <1>4, <1>6, <1>7, <1>8

LEMMA Grow16 ==
  ASSUME NEW C, NEW n \in NodesOfLayout("INNER_16", C), Layout(n), IsFull(n),
         Null \notin C
  PROVE  /\ Grow(n) \in NodesOfLayout("INNER_48", C)
         /\ Layout(Grow(n)) /\ ~ IsFull(Grow(n))
         /\ \A x \in Byte : Child(Grow(n), x) = Child(n, x)
<1> DEFINE g == Grow(n)
           index(b) == CHOOSE i \in Slots("INNER_16") :
                         /\ n.key[i] = b
                         /\ \A j \in Slots("INNER_16") : i < j => n.key[j] # b
<1> USE CapsAssumption, Sizes
<1>0. "INNER_16" \in Sparse
      BY DEF Sparse
<1>1. /\ n.flags = "INNER_16" /\ n.key_len = Cap16
      /\ n.key \in [0 .. Cap16 - 1 -> Byte]
      /\ n.arr \in [0 .. Cap16 - 1 -> C \cup {Null}]
      BY Fields16 DEF IsFull
<1>2. Used(n) = 0 .. Cap16 - 1
      BY <1>1 DEF Used
<1>3. \A i, j \in 0 .. Cap16 - 1 : n.key[i] = n.key[j] => i = j
      BY <1>1, <1>2 DEF Layout, Sparse
<1> DEFINE K == [b \in Byte |-> IF \E i \in Slots("INNER_16") : n.key[i] = b
                                THEN index(b) ELSE EMPTY]
           A == [i \in 0 .. Cap48 - 1 |->
                   IF i \in 0 .. Cap16 - 1 THEN n.arr[i] ELSE Null]
<1>s. Slots("INNER_16") = 0 .. Cap16 - 1
      BY DEF Slots
<1>4. \A i \in 0 .. Cap16 - 1 : index(n.key[i]) = i
  <2> SUFFICES ASSUME NEW i \in 0 .. Cap16 - 1
               PROVE  index(n.key[i]) = i
      OBVIOUS
  <2>1. \A j \in 0 .. Cap16 - 1 : n.key[j] = n.key[i] <=> j = i
        BY <1>3
  <2> QED BY <2>1, <1>s
<1>5. g = [flags |-> "INNER_48", key_len |-> Cap16, key |-> K, arr |-> A,
           prefix |-> <<>>, count |-> 0]
  <2>1. NextLayout(n.flags) = "INNER_48"
        BY <1>1 DEF NextLayout
  <2>2. AllocNode("INNER_48").key = [b \in Byte |-> EMPTY]
        BY Alloc
  <2>3. GrownKey(n) = K
        BY <1>1, <2>1, <2>2 DEF GrownKey
  <2>4. DOMAIN AllocNode("INNER_48").arr = 0 .. Cap48 - 1
        /\ \A i \in 0 .. Cap48 - 1 : AllocNode("INNER_48").arr[i] = Null
        BY Alloc
  <2>5. GrownArr(n) = A
        BY <1>1, <1>s, <2>1, <2>4 DEF GrownArr, Sparse
  <2>6. Grow(n) = [flags |-> "INNER_48", key_len |-> Cap16, key |-> GrownKey(n),
                   arr |-> GrownArr(n), prefix |-> <<>>, count |-> 0]
        BY <1>1, <2>1, GrowFields
  <2> QED BY <2>3, <2>5, <2>6
<1> HIDE DEF index
<1>6. /\ \A i \in 0 .. Cap16 - 1 : n.key[i] \in Byte /\ g.key[n.key[i]] = i
      /\ \A b \in Byte : (\A i \in 0 .. Cap16 - 1 : n.key[i] # b) =>
                          g.key[b] = EMPTY
  <2>1. g.key = K
        BY <1>5
  <2>2. ASSUME NEW i \in 0 .. Cap16 - 1
        PROVE  n.key[i] \in Byte /\ g.key[n.key[i]] = i
    <3>1. n.key[i] \in Byte
          BY <1>1
    <3>2. K[n.key[i]] = index(n.key[i])
          BY <1>s, <3>1
    <3> QED BY <2>1, <3>1, <3>2, <1>4
  <2>3. ASSUME NEW b \in Byte, \A i \in 0 .. Cap16 - 1 : n.key[i] # b
        PROVE  g.key[b] = EMPTY
        BY <2>1, <2>3, <1>s
  <2> QED BY <2>2, <2>3
<1>7. g \in NodesOfLayout("INNER_48", C)
  <2>1. \A b \in Byte : g.key[b] \in Byte
        BY <1>6 DEF Byte, EMPTY
  <2>2. g.key \in [Byte -> Byte]
        BY <2>1, <1>5
  <2>3. g.arr \in [0 .. Cap48 - 1 -> C \cup {Null}]
        BY <1>1, <1>5
  <2>4. Cap16 \in 0 .. Cap48 /\ <<>> \in Seq(Byte)
        OBVIOUS
  <2> QED BY <1>5, <2>2, <2>3, <2>4, Fields48
<1>8. Used(g) = 0 .. Cap16 - 1
      BY <1>5 DEF Used
<1>9. Layout(g)
  <2>1. \A i \in 0 .. Cap48 - 1 : g.arr[i] # Null <=> i \in Used(g)
        <3>1. \A i \in 0 .. Cap16 - 1 : n.arr[i] # Null
              BY <1>1, <1>2 DEF Layout, Slots
        <3> QED BY <1>5, <1>8, <3>1
  <2>2. \A b \in Byte : g.key[b] # EMPTY => g.key[b] \in Used(g)
        BY <1>6, <1>8
  <2>3. \A i \in Used(g) : \E b \in Byte : g.key[b] = i
        BY <1>6, <1>8
  <2>4. \A b, c \in Byte : g.key[b] = g.key[c] /\ g.key[b] # EMPTY => b = c
        BY <1>6
  <2>5. g.flags = "INNER_48"
        BY <1>5
  <2> QED BY <2>1, <2>2, <2>3, <2>4, <2>5 DEF Layout, Slots, Sparse
<1>10. ASSUME NEW x \in Byte PROVE Child(g, x) = Child(n, x)
  <2>1. CASE \E i \in 0 .. Cap16 - 1 : n.key[i] = x
    <3>1. PICK i \in 0 .. Cap16 - 1 : n.key[i] = x
          BY <2>1
    <3>2. g.key[x] = i /\ i # EMPTY
          BY <3>1, <1>6 DEF EMPTY
    <3>2a. g.arr[i] = n.arr[i]
          BY <1>5
    <3>3. Child(g, x) = g.arr[i]
          BY <3>2, <1>7, Child48
    <3>4. Child(n, x) = n.arr[i]
          BY <3>1, <1>0, <1>2, ChildSparse
    <3> QED BY <3>2a, <3>3, <3>4
  <2>2. CASE \A i \in 0 .. Cap16 - 1 : n.key[i] # x
    <3>1. Child(g, x) = Null
          BY <2>2, <1>6, <1>7, Child48
    <3>2. Child(n, x) = Null
          BY <2>2, <1>0, <1>2, ChildSparse
    <3> QED BY <3>1, <3>2
  <2> QED BY <2>1, <2>2
<1>11. ~ IsFull(g)
      BY <1>5 DEF IsFull
<1> QED BY <1>7, <1>9, <1>10, <1>11

LEMMA Grow48 ==
  ASSUME NEW C, NEW n \in NodesOfLayout("INNER_48", C), Layout(n), IsFull(n)
  PROVE  /\ Grow(n) \in NodesOfLayout("INNER_256", C)
         /\ Layout(Grow(n)) /\ ~ IsFull(Grow(n))
         /\ \A x \in Byte : Child(Grow(n), x) = Child(n, x)
<1> DEFINE g == Grow(n)
<1> USE CapsAssumption, Sizes
<1>1. /\ n.flags = "INNER_48" /\ n.key_len = Cap48
      /\ n.key \in [Byte -> Byte]
      /\ n.arr \in [0 .. Cap48 - 1 -> C \cup {Null}]
      BY Fields48 DEF IsFull
<1>2. g = [flags |-> "INNER_256", key_len |-> Cap48, key |-> <<>>,
           arr |-> [b \in Byte |-> IF n.key[b] = EMPTY THEN Null
                                   ELSE n.arr[n.key[b]]],
           prefix |-> <<>>, count |-> 0]
  <2>1. NextLayout(n.flags) = "INNER_256"
        BY <1>1 DEF NextLayout
  <2>2. GrownKey(n) = <<>>
        BY <1>1, <2>1, Alloc DEF GrownKey
  <2>3. GrownArr(n) = [b \in Byte |-> IF n.key[b] = EMPTY THEN Null
                                      ELSE n.arr[n.key[b]]]
        BY <1>1, <2>1, Alloc DEF GrownArr, Sparse
  <2>6. Grow(n) = [flags |-> "INNER_256", key_len |-> Cap48, key |-> GrownKey(n),
                   arr |-> GrownArr(n), prefix |-> <<>>, count |-> 0]
        BY <1>1, <2>1, GrowFields
  <2> QED BY <2>2, <2>3, <2>6
<1>3. g \in NodesOfLayout("INNER_256", C)
  <2>1. \A b \in Byte : n.key[b] # EMPTY => n.key[b] \in 0 .. Cap48 - 1
        BY <1>1 DEF Layout, Used, Sparse
  <2>2. g.arr \in [Byte -> C \cup {Null}]
        BY <1>1, <1>2, <2>1
  <2>3. Cap48 \in 0 .. MaxByte + 1 /\ <<>> \in Seq(Byte)
        OBVIOUS
  <2> QED BY <1>2, <2>2, <2>3, Fields256
<1>4. Layout(g)
      BY <1>2 DEF Layout, Sparse
<1>5. ASSUME NEW x \in Byte PROVE Child(g, x) = Child(n, x)
      BY <1>2, <1>3, Child48, Child256
<1>6. ~ IsFull(g)
      BY <1>2 DEF IsFull
<1> QED BY <1>3, <1>4, <1>5, <1>6

-----------------------------------------------------------------------------
(* The two things that insert() does to an inner node of any layout.       *)

LEMMA MakeRoomOK ==
  ASSUME NEW C, NEW n, IsInnerNode(n, C), Layout(n), Null \notin C
  PROVE  /\ IsFull(n) => GrowAsserts(n)
         /\ IsInnerNode(MakeRoom(n), C)
         /\ Layout(MakeRoom(n)) /\ ~ IsFull(MakeRoom(n))
         /\ \A x \in Byte : Child(MakeRoom(n), x) = Child(n, x)
<1>1. CASE ~ IsFull(n)
      BY <1>1 DEF MakeRoom
<1>2. CASE IsFull(n) /\ n \in NodesOfLayout("INNER_4", C)
  <2>1. n.flags = "INNER_4"
        BY <1>2, Fields4
  <2> QED BY <1>2, <2>1, Grow4 DEF MakeRoom, GrowAsserts, IsInnerNode, Inner, Sparse
<1>3. CASE IsFull(n) /\ n \in NodesOfLayout("INNER_16", C)
  <2>1. n.flags = "INNER_16"
        BY <1>3, Fields16
  <2> QED BY <1>3, <2>1, Grow16 DEF MakeRoom, GrowAsserts, IsInnerNode, Inner, Sparse
<1>4. CASE IsFull(n) /\ n \in NodesOfLayout("INNER_48", C)
  <2>1. n.flags = "INNER_48"
        BY <1>4, Fields48
  <2> QED BY <1>4, <2>1, Grow48 DEF MakeRoom, GrowAsserts, IsInnerNode, Inner, Sparse
<1>5. CASE IsFull(n) /\ n \in NodesOfLayout("INNER_256", C)
  <2>1. n.flags = "INNER_256" /\ n.key_len = Cap48
        BY <1>5, Fields256 DEF Layout
  <2>2. ~ IsFull(n)
        BY <2>1, Sizes, CapsAssumption DEF IsFull
  <2> QED BY <1>5, <2>2
<1> QED BY <1>1, <1>2, <1>3, <1>4, <1>5, ByLayout

LEMMA AddChildOK ==
  ASSUME NEW C, NEW n, IsInnerNode(n, C), Layout(n), Null \notin C,
         ~ IsFull(n), NEW b \in Byte, NEW c \in C, Child(n, b) = Null
  PROVE  /\ AddChildAsserts(n, b)
         /\ IsInnerNode(AddChild(n, b, c), C)
         /\ Layout(AddChild(n, b, c))
         /\ \A x \in Byte : Child(AddChild(n, b, c), x) =
                              IF x = b THEN c ELSE Child(n, x)
<1>1. ASSUME NEW f \in Sparse, n \in NodesOfLayout(f, C)
      PROVE  /\ AddChildAsserts(n, b)
             /\ AddChild(n, b, c) \in NodesOfLayout(f, C)
             /\ Layout(AddChild(n, b, c))
             /\ \A x \in Byte : Child(AddChild(n, b, c), x) =
                                  IF x = b THEN c ELSE Child(n, x)
      BY <1>1, AddSparse
<1>2. CASE n \in NodesOfLayout("INNER_4", C) \/ n \in NodesOfLayout("INNER_16", C)
      BY <1>1, <1>2 DEF IsInnerNode, Inner, Sparse
<1>3. CASE n \in NodesOfLayout("INNER_48", C)
      BY <1>3, Add48 DEF IsInnerNode, Inner
<1>4. CASE n \in NodesOfLayout("INNER_256", C)
      BY <1>4, Add256 DEF IsInnerNode, Inner
<1> QED BY <1>2, <1>3, <1>4, ByLayout

(* A slot that holds a child belongs to one byte only, and is in use.      *)
LEMMA SlotOK ==
  ASSUME NEW C, NEW n, IsInnerNode(n, C), Layout(n), Null \notin C,
         NEW b \in Byte, Child(n, b) # Null
  PROVE  /\ FindChild(n, b) # NoSlot
         /\ FindChild(n, b) \in Slots(n.flags)
         /\ n.arr[FindChild(n, b)] # Null
         /\ \A x \in Byte : FindChild(n, x) = FindChild(n, b) => x = b
<1>0. /\ FindChild(n, b) # NoSlot
      /\ n.arr[FindChild(n, b)] # Null
      BY DEF Child
<1>1. ASSUME NEW f \in Sparse, n \in NodesOfLayout(f, C)
      PROVE  /\ FindChild(n, b) \in Slots(n.flags)
             /\ \A x \in Byte : FindChild(n, x) = FindChild(n, b) => x = b
  <2>1. n.flags = f /\ n.key_len \in 0 .. NodeSize(f)
        BY <1>1, SparseFields
  <2>2. NodeSize(f) \in Nat
        BY Sizes DEF Inner
  <2>3. PICK i \in Used(n) : n.key[i] = b /\ FindChild(n, b) = i
        BY <1>1, ChildSparse
  <2>4. i \in Slots(n.flags)
        BY <2>1, <2>2 DEF Used, Slots
  <2>5. ASSUME NEW x \in Byte, FindChild(n, x) = i PROVE x = b
    <3>1. CASE \E j \in Used(n) : n.key[j] = x
          BY <3>1, <1>1, <2>3, <2>5, ChildSparse
    <3>2. CASE \A j \in Used(n) : n.key[j] # x
      <4>1. FindChild(n, x) = NoSlot
            BY <3>2, <2>1 DEF FindChild, Sparse
      <4> QED BY <4>1, <2>3, <2>5, <1>0
    <3> QED BY <3>1, <3>2
  <2> QED BY <2>3, <2>4, <2>5
<1>2. CASE n \in NodesOfLayout("INNER_48", C)
  <2>1. n.flags = "INNER_48" /\ n.key_len \in 0 .. Cap48
        BY <1>2, Fields48
  <2>2. \A x \in Byte : FindChild(n, x) =
                         IF n.key[x] = EMPTY THEN NoSlot ELSE n.key[x]
        BY <2>1 DEF FindChild, Sparse
  <2>3. n.key[b] # EMPTY /\ FindChild(n, b) = n.key[b]
        BY <1>0, <2>2
  <2>4. n.key[b] \in Used(n)
        BY <2>1, <2>3 DEF Layout, Sparse
  <2>5. n.key[b] \in Slots(n.flags)
        BY <2>1, <2>4, Sizes, CapsAssumption DEF Used, Slots
  <2>6. \A x \in Byte : FindChild(n, x) = FindChild(n, b) => x = b
        BY <1>0, <2>1, <2>2, <2>3 DEF Layout, Sparse
  <2> QED BY <1>0, <2>3, <2>5, <2>6
<1>3. CASE n \in NodesOfLayout("INNER_256", C)
  <2>1. n.flags = "INNER_256"
        BY <1>3, Fields256
  <2>2. \A x \in Byte : FindChild(n, x) = x
        BY <1>3, Child256
  <2>3. b \in Slots(n.flags)
        BY <2>1, Sizes, CapsAssumption DEF Slots, Byte
  <2> QED BY <1>0, <2>2, <2>3
<1>4. "INNER_4" \in Sparse /\ "INNER_16" \in Sparse
      BY DEF Sparse
<1> QED BY <1>0, <1>1, <1>2, <1>3, <1>4, ByLayout

(* A lookup reads no more of a node than its layout, key[] and key_len.    *)
LEMMA FindChildFields ==
  ASSUME NEW n, NEW m, n.flags \in Inner, m.flags = n.flags,
         m.key_len = n.key_len, m.key = n.key, NEW x
  PROVE  FindChild(m, x) = FindChild(n, x)
<1>1. Used(m) = Used(n)
      BY DEF Used
<1>2. CASE n.flags \in Sparse
      BY <1>1, <1>2 DEF FindChild, Sparse
<1>3. CASE n.flags = "INNER_48"
      BY <1>3 DEF FindChild, Sparse
<1>4. CASE n.flags = "INNER_256"
      BY <1>4 DEF FindChild, Sparse
<1> QED BY <1>2, <1>3, <1>4 DEF Inner

LEMMA ExceptRange ==
  ASSUME NEW S, NEW D, NEW f \in [D -> S], NEW i, NEW c \in S
  PROVE  [f EXCEPT ![i] = c] \in [D -> S]
OBVIOUS

LEMMA RelinkOK ==
  ASSUME NEW C, NEW n, IsInnerNode(n, C), Layout(n), Null \notin C,
         NEW b \in Byte, NEW c \in C, Child(n, b) # Null,
         NEW m, NEW A,
         A = [n.arr EXCEPT ![FindChild(n, b)] = c],
         m = [flags |-> n.flags, key_len |-> n.key_len, key |-> n.key,
              arr |-> A, prefix |-> n.prefix, count |-> n.count]
  PROVE  /\ IsInnerNode(m, C)
         /\ Layout(m)
         /\ \A x \in Byte : Child(m, x) = IF x = b THEN c ELSE Child(n, x)
<1> DEFINE s == FindChild(n, b)
<1>1. /\ s # NoSlot /\ s \in Slots(n.flags) /\ n.arr[s] # Null
      /\ \A x \in Byte : FindChild(n, x) = s => x = b
      BY SlotOK
<1> HIDE DEF s
<1>2. PICK f \in Inner : n \in NodesOfLayout(f, C)
      BY DEF IsInnerNode
<1>3. n.flags = f /\ n.arr \in [Slots(f) -> C \cup {Null}]
      BY <1>2 DEF NodesOfLayout
<1>4. /\ m.flags = n.flags /\ m.key_len = n.key_len /\ m.key = n.key
      /\ m.arr = [n.arr EXCEPT ![s] = c]
      BY DEF s
<1>5. m.arr \in [Slots(f) -> C \cup {Null}]
  <2>1. [n.arr EXCEPT ![s] = c] \in [Slots(f) -> C \cup {Null}]
        BY <1>3, ExceptRange
  <2> QED BY <2>1, <1>4
<1>6. IsInnerNode(m, C)
      BY <1>2, <1>5 DEF NodesOfLayout, IsInnerNode
<1>7. Used(m) = Used(n)
      BY <1>4 DEF Used
<1>8. \A i \in Slots(f) : m.arr[i] # Null <=> n.arr[i] # Null
      BY <1>1, <1>3, <1>4
<1>9. Layout(m)
      BY <1>3, <1>4, <1>7, <1>8 DEF Layout
<1>10. ASSUME NEW x \in Byte PROVE Child(m, x) = IF x = b THEN c ELSE Child(n, x)
  <2>1. FindChild(m, x) = FindChild(n, x)
        BY <1>3, <1>4, FindChildFields
  <2>2. CASE x = b
        BY <2>1, <2>2, <1>1, <1>3, <1>4 DEF Child, s
  <2>3. CASE x # b
    <3>1. FindChild(n, x) # s
          BY <2>3, <1>1
    <3>2. m.arr[FindChild(n, x)] = n.arr[FindChild(n, x)]
          BY <3>1, <1>3, <1>4
    <3> QED BY <2>1, <2>3, <3>2 DEF Child
  <2> QED BY <2>2, <2>3
<1> QED BY <1>6, <1>9, <1>10

-----------------------------------------------------------------------------
(* A node as the holder of its children.                                   *)

Kids(n) == {Child(n, x) : x \in Byte} \ {Null}

(* No child twice.                                                         *)
Single(n) ==
  \A x, y \in Byte : Child(n, x) # Null /\ Child(n, x) = Child(n, y) => x = y

(* What is known of the fields of an inner node of any layout.             *)
LEMMA InnerFields ==
  ASSUME NEW C, NEW n, IsInnerNode(n, C)
  PROVE  /\ n.flags \in Inner /\ ~ IsLeaf(n)
         /\ n.key_len \in Nat
         /\ n.arr \in [Slots(n.flags) -> C \cup {Null}]
         /\ n.prefix \in Seq(Byte) /\ n.count \in Nat
         /\ n = [flags |-> n.flags, key_len |-> n.key_len, key |-> n.key,
                 arr |-> n.arr, prefix |-> n.prefix, count |-> n.count]
<1>1. PICK f \in Inner : n \in NodesOfLayout(f, C)
      BY DEF IsInnerNode
<1>2. NodeSize(f) \in Nat
      BY Sizes
<1> DEFINE K == CASE f \in Sparse    -> [Slots(f) -> Byte]
                  [] f = "INNER_48"  -> [Byte -> Byte]
                  [] f = "INNER_256" -> {<<>>}
<1>3. n \in [flags : {f}, key_len : 0 .. NodeSize(f), key : K,
             arr : [Slots(f) -> C \cup {Null}], prefix : Seq(Byte), count : Nat]
      BY <1>1 DEF NodesOfLayout
<1> HIDE DEF K
<1>4. f # "LEAF"
      BY DEF Inner, Sparse
<1> QED BY <1>2, <1>3, <1>4 DEF IsLeaf

(* More addresses can be held.                                             *)
LEMMA InnerMore ==
  ASSUME NEW C, NEW D, C \subseteq D, NEW n, IsInnerNode(n, C)
  PROVE  IsInnerNode(n, D)
<1>1. PICK f \in Inner : n \in NodesOfLayout(f, C)
      BY DEF IsInnerNode
<1> DEFINE K == CASE f \in Sparse    -> [Slots(f) -> Byte]
                  [] f = "INNER_48"  -> [Byte -> Byte]
                  [] f = "INNER_256" -> {<<>>}
<1>2. n \in [flags : {f}, key_len : 0 .. NodeSize(f), key : K,
             arr : [Slots(f) -> C \cup {Null}], prefix : Seq(Byte), count : Nat]
      BY <1>1 DEF NodesOfLayout
<1> HIDE DEF K
<1>3. n.arr \in [Slots(f) -> D \cup {Null}]
      BY <1>2
<1>4. n \in [flags : {f}, key_len : 0 .. NodeSize(f), key : K,
             arr : [Slots(f) -> D \cup {Null}], prefix : Seq(Byte), count : Nat]
      BY <1>2, <1>3
<1>5. n \in NodesOfLayout(f, D)
      BY <1>4 DEF NodesOfLayout, K
<1> QED BY <1>5 DEF IsInnerNode

(* Prefix and count have no part in the layout.                            *)
LEMMA OtherFields ==
  ASSUME NEW C, NEW n, IsInnerNode(n, C), NEW p \in Seq(Byte), NEW c \in Nat,
         NEW m, m = [flags |-> n.flags, key_len |-> n.key_len, key |-> n.key,
                     arr |-> n.arr, prefix |-> p, count |-> c]
  PROVE  /\ IsInnerNode(m, C)
         /\ Layout(n) => Layout(m)
         /\ \A x : FindChild(m, x) = FindChild(n, x) /\ Child(m, x) = Child(n, x)
<1>1. PICK f \in Inner : n \in NodesOfLayout(f, C)
      BY DEF IsInnerNode
<1> DEFINE K == CASE f \in Sparse    -> [Slots(f) -> Byte]
                  [] f = "INNER_48"  -> [Byte -> Byte]
                  [] f = "INNER_256" -> {<<>>}
<1>2. n \in [flags : {f}, key_len : 0 .. NodeSize(f), key : K,
             arr : [Slots(f) -> C \cup {Null}], prefix : Seq(Byte), count : Nat]
      BY <1>1 DEF NodesOfLayout
<1> HIDE DEF K
<1>3. m \in [flags : {f}, key_len : 0 .. NodeSize(f), key : K,
             arr : [Slots(f) -> C \cup {Null}], prefix : Seq(Byte), count : Nat]
      BY <1>2
<1>4. m \in NodesOfLayout(f, C)
      BY <1>3 DEF NodesOfLayout, K
<1>5. m.flags = n.flags /\ m.key_len = n.key_len /\ m.key = n.key /\ m.arr = n.arr
      OBVIOUS
<1>6. Layout(n) => Layout(m)
      BY <1>5 DEF Layout, Used
<1>7. \A x : FindChild(m, x) = FindChild(n, x)
      BY <1>2, <1>5, FindChildFields
<1>8. \A x : Child(m, x) = Child(n, x)
      BY <1>5, <1>7 DEF Child
<1> QED BY <1>4, <1>6, <1>7, <1>8 DEF IsInnerNode

(* Every slot with a child belongs to a byte.                              *)
LEMMA SlotHasByte ==
  ASSUME NEW C, NEW n, IsInnerNode(n, C), Layout(n),
         NEW i \in DOMAIN n.arr, n.arr[i] # Null
  PROVE  \E b \in Byte : FindChild(n, b) = i /\ Child(n, b) = n.arr[i]
<1>1. ASSUME NEW f \in Sparse, n \in NodesOfLayout(f, C)
      PROVE  \E b \in Byte : FindChild(n, b) = i /\ Child(n, b) = n.arr[i]
  <2>1. /\ n.flags = f /\ f # "INNER_256" /\ DOMAIN n.arr = Slots(f)
        /\ n.key \in [Slots(f) -> Byte]
        BY <1>1, SparseFields DEF Sparse
  <2>2. i \in Used(n)
        BY <2>1 DEF Layout
  <2>3. n.key[i] \in Byte
        BY <2>1
  <2> QED BY <1>1, <2>2, <2>3, ChildSparse
<1>2. CASE n \in NodesOfLayout("INNER_48", C)
  <2>1. /\ n.flags = "INNER_48" /\ DOMAIN n.arr = Slots("INNER_48")
        /\ n.key_len \in 0 .. Cap48
        BY <1>2, Fields48, Sizes DEF Slots
  <2>2. i \in Used(n)
        BY <2>1 DEF Layout
  <2>3. PICK b \in Byte : n.key[b] = i
        BY <2>1, <2>2 DEF Layout, Sparse
  <2>4. n.key[b] # EMPTY
        BY <2>1, <2>2, <2>3, CapsAssumption DEF Used, EMPTY
  <2> QED BY <1>2, <2>3, <2>4, Child48
<1>3. CASE n \in NodesOfLayout("INNER_256", C)
      BY <1>3, Fields256, Child256
<1> QED BY <1>1, <1>2, <1>3, ByLayout DEF Sparse

(* The children of a node are addresses of C, and its slots are bytes.     *)
LEMMA KidsType ==
  ASSUME NEW C, NEW n, IsInnerNode(n, C), Layout(n), Null \notin C
  PROVE  /\ Kids(n) \subseteq C
         /\ DOMAIN n.arr \subseteq Byte
<1>1. n.arr \in [Slots(n.flags) -> C \cup {Null}] /\ n.flags \in Inner
      BY InnerFields
<1>2. \A b \in Byte : Child(n, b) # Null => Child(n, b) \in C
  <2> SUFFICES ASSUME NEW b \in Byte, Child(n, b) # Null PROVE Child(n, b) \in C
      OBVIOUS
  <2>1. /\ FindChild(n, b) # NoSlot /\ FindChild(n, b) \in Slots(n.flags)
        /\ n.arr[FindChild(n, b)] # Null
        BY SlotOK
  <2> QED BY <1>1, <2>1 DEF Child
<1>3. NodeSize(n.flags) \in 0 .. MaxByte + 1
      BY <1>1, Sizes, CapsAssumption DEF Inner, Sparse
<1>4. Slots(n.flags) \subseteq Byte
      BY <1>3, CapsAssumption DEF Slots, Byte
<1>5. Kids(n) \subseteq C
      BY <1>2 DEF Kids
<1> QED BY <1>1, <1>4, <1>5

(* Adding a child, with the growth that may come before.                   *)
LEMMA AddKids ==
  ASSUME NEW C, NEW n, IsInnerNode(n, C), Layout(n), Null \notin C, Single(n),
         ~ IsFull(n), NEW b \in Byte, Child(n, b) = Null,
         NEW c \in C, c \notin Kids(n)
  PROVE  /\ AddChildAsserts(n, b)
         /\ IsInnerNode(AddChild(n, b, c), C)
         /\ Layout(AddChild(n, b, c))
         /\ Single(AddChild(n, b, c))
         /\ Kids(AddChild(n, b, c)) = Kids(n) \cup {c}
<1> DEFINE m == AddChild(n, b, c)
<1>1. /\ AddChildAsserts(n, b) /\ IsInnerNode(m, C) /\ Layout(m)
      /\ \A x \in Byte : Child(m, x) = IF x = b THEN c ELSE Child(n, x)
      BY AddChildOK
<1> HIDE DEF m
<1>2. c # Null
      OBVIOUS
<1>3. Single(m)
      BY <1>1, <1>2 DEF Single, Kids
<1>4. Kids(m) = Kids(n) \cup {c}
      BY <1>1, <1>2 DEF Kids
<1> QED BY <1>1, <1>3, <1>4 DEF m

(* A growth keeps the children.                                            *)
LEMMA RoomKids ==
  ASSUME NEW C, NEW n, IsInnerNode(n, C), Layout(n), Null \notin C, Single(n)
  PROVE  /\ Single(MakeRoom(n))
         /\ Kids(MakeRoom(n)) = Kids(n)
<1>1. \A x \in Byte : Child(MakeRoom(n), x) = Child(n, x)
      BY MakeRoomOK
<1> QED BY <1>1 DEF Single, Kids

(* add_child() leaves the prefix and the count of a node alone.            *)
LEMMA AddFields ==
  ASSUME NEW C, NEW n, IsInnerNode(n, C), NEW b, NEW c
  PROVE  /\ AddChild(n, b, c).prefix = n.prefix
         /\ AddChild(n, b, c).flags = n.flags
         /\ n.flags \in Sparse => AddChild(n, b, c).key_len = n.key_len + 1
<1>1. n.flags \in Inner
      BY InnerFields
<1>2. PICK N : /\ N = [flags |-> n.flags, key_len |-> n.key_len, key |-> n.key,
                       arr |-> n.arr, prefix |-> n.prefix, count |-> n.count]
               /\ N = n
      BY InnerFields
<1>3. CASE n.flags \in Sparse
  <2>1. AddChild(n, b, c) = [n EXCEPT !.key[n.key_len] = b,
                                      !.arr[n.key_len] = c, !.key_len = @ + 1]
        BY <1>3 DEF AddChild, Sparse
  <2> QED BY <1>2, <2>1
<1>4. CASE n.flags = "INNER_48"
  <2>1. AddChild(n, b, c) = [n EXCEPT !.key[b] = n.key_len,
                                      !.arr[n.key_len] = c, !.key_len = @ + 1]
        BY <1>4 DEF AddChild, Sparse
  <2> QED BY <1>2, <1>4, <2>1 DEF Sparse
<1>5. CASE n.flags = "INNER_256"
  <2>1. AddChild(n, b, c) = [n EXCEPT !.arr[b] = c]
        BY <1>5 DEF AddChild, Sparse
  <2> QED BY <1>2, <1>5, <2>1 DEF Sparse
<1> QED BY <1>1, <1>3, <1>4, <1>5 DEF Inner

(* grow() drops the prefix.                                                *)
LEMMA RoomPrefix ==
  ASSUME NEW C, NEW n, IsInnerNode(n, C), Layout(n), Null \notin C
  PROVE  /\ MakeRoom(n).prefix \in {n.prefix, <<>>}
<1>1. CASE ~ IsFull(n)
      BY <1>1 DEF MakeRoom
<1>2. CASE IsFull(n)
  <2>1. n.flags \in {"INNER_4", "INNER_16", "INNER_48"}
        BY <1>2, MakeRoomOK DEF GrowAsserts
  <2>2. NextLayout(n.flags) \in {"INNER_16", "INNER_48", "INNER_256"}
        BY <2>1 DEF NextLayout
  <2>3. Grow(n).prefix = <<>>
        BY <2>2, GrowFields
  <2> QED BY <1>2, <2>3 DEF MakeRoom
<1> QED BY <1>1, <1>2

(* replace() through the slot of a child: one address for another.         *)
LEMMA RelinkArr ==
  ASSUME NEW C, NEW n, IsInnerNode(n, C), Layout(n), Null \notin C, Single(n),
         NEW b \in Byte, Child(n, b) # Null, NEW c \in C, c \notin Kids(n),
         NEW A, A = [n.arr EXCEPT ![FindChild(n, b)] = c],
         NEW m, m = [flags |-> n.flags, key_len |-> n.key_len, key |-> n.key,
                     arr |-> A, prefix |-> n.prefix, count |-> n.count]
  PROVE  /\ IsInnerNode(m, C) /\ Layout(m) /\ Single(m)
         /\ Kids(m) = (Kids(n) \ {Child(n, b)}) \cup {c}
         /\ m.prefix = n.prefix /\ m.count = n.count
<1>1. /\ IsInnerNode(m, C) /\ Layout(m)
      /\ \A x \in Byte : Child(m, x) = IF x = b THEN c ELSE Child(n, x)
      BY RelinkOK
<1>2. c # Null /\ m.prefix = n.prefix /\ m.count = n.count
      OBVIOUS
<1>3. Single(m)
      BY <1>1, <1>2 DEF Single, Kids
<1>4. Kids(m) = (Kids(n) \ {Child(n, b)}) \cup {c}
  <2>1. \A x \in Byte : x # b => Child(n, x) # Child(n, b)
        BY DEF Single
  <2> QED BY <1>1, <1>2, <2>1 DEF Kids
<1> QED BY <1>1, <1>2, <1>3, <1>4

LEMMA RelinkKids ==
  ASSUME NEW C, NEW n, IsInnerNode(n, C), Layout(n), Null \notin C, Single(n),
         NEW b \in Byte, Child(n, b) # Null, NEW c \in C, c \notin Kids(n)
  PROVE  \E m : /\ m = [n EXCEPT !.arr[FindChild(n, b)] = c]
                /\ IsInnerNode(m, C) /\ Layout(m) /\ Single(m)
                /\ Kids(m) = (Kids(n) \ {Child(n, b)}) \cup {c}
                /\ m.prefix = n.prefix /\ m.count = n.count
<1>1. n = [flags |-> n.flags, key_len |-> n.key_len, key |-> n.key,
           arr |-> n.arr, prefix |-> n.prefix, count |-> n.count]
      BY InnerFields
<1>2. PICK A : A = [n.arr EXCEPT ![FindChild(n, b)] = c]
      OBVIOUS
<1>3. PICK m : m = [flags |-> n.flags, key_len |-> n.key_len, key |-> n.key,
                    arr |-> A, prefix |-> n.prefix, count |-> n.count]
      OBVIOUS
<1>4. /\ IsInnerNode(m, C) /\ Layout(m) /\ Single(m)
      /\ Kids(m) = (Kids(n) \ {Child(n, b)}) \cup {c}
      /\ m.prefix = n.prefix /\ m.count = n.count
      BY <1>2, <1>3, RelinkArr
<1>5. m = [n EXCEPT !.arr[FindChild(n, b)] = c]
  <2>1. [n EXCEPT !.arr[FindChild(n, b)] = c] = [n EXCEPT !.arr = A]
        BY <1>2, Zenon
  <2>2. [n EXCEPT !.arr = A] = m
        BY <1>1, <1>3
  <2> QED BY <2>1, <2>2, Zenon
<1> QED BY <1>4, <1>5, Zenon

(* A new INNER_4 that is given a prefix has no children.                   *)
LEMMA AllocPrefix ==
  ASSUME NEW p
  PROVE  [AllocNode("INNER_4") EXCEPT !.prefix = p] =
           [flags |-> "INNER_4", key_len |-> 0,
            key |-> [i \in 0 .. Cap4 - 1 |-> 0],
            arr |-> [i \in 0 .. Cap4 - 1 |-> Null], prefix |-> p, count |-> 0]
<1>1. PICK k, a : /\ k = [i \in 0 .. Cap4 - 1 |-> 0]
                  /\ a = [i \in 0 .. Cap4 - 1 |-> Null]
      OBVIOUS
<1>2. PICK n : n = [flags |-> "INNER_4", key_len |-> 0, key |-> k, arr |-> a,
                    prefix |-> <<>>, count |-> 0]
      OBVIOUS
<1>3. AllocNode("INNER_4") = n
      BY <1>1, <1>2, Alloc
<1>4. [n EXCEPT !.prefix = p] = [flags |-> "INNER_4", key_len |-> 0, key |-> k,
                                 arr |-> a, prefix |-> p, count |-> 0]
      BY <1>2
<1> QED BY <1>1, <1>3, <1>4, Zenon

LEMMA EmptyInner ==
  ASSUME NEW C, NEW p \in Seq(Byte), NEW n,
         n = [flags |-> "INNER_4", key_len |-> 0,
              key |-> [i \in 0 .. Cap4 - 1 |-> 0],
              arr |-> [i \in 0 .. Cap4 - 1 |-> Null], prefix |-> p, count |-> 0]
  PROVE  /\ IsInnerNode(n, C) /\ Layout(n) /\ Single(n) /\ Kids(n) = {}
         /\ n.flags = "INNER_4" /\ n.key_len = 0 /\ ~ IsFull(n)
         /\ n.prefix = p /\ n.count = 0
         /\ \A x \in Byte : Child(n, x) = Null
<1>2. n \in NodesOfLayout("INNER_4", C)
  <2>1. /\ n.key \in [0 .. Cap4 - 1 -> Byte]
        /\ n.arr \in [0 .. Cap4 - 1 -> C \cup {Null}]
        BY CapsAssumption DEF Byte
  <2>2. 0 \in 0 .. Cap4
        BY CapsAssumption
  <2> QED BY <2>1, <2>2, Fields4
<1>3. n.flags = "INNER_4" /\ n.key_len = 0 /\ \A i \in 0 .. Cap4 - 1 : n.arr[i] = Null
      OBVIOUS
<1>4. Used(n) = {}
      BY <1>3 DEF Used
<1>5. Layout(n)
      BY <1>3, <1>4, Sizes DEF Layout, Slots
<1>6. \A x \in Byte : Child(n, x) = Null
      BY <1>2, <1>4, <1>5, ChildSparse DEF Sparse
<1>7. ~ IsFull(n)
      BY <1>3, Sizes, CapsAssumption DEF IsFull
<1>8. Single(n) /\ Kids(n) = {}
      BY <1>6 DEF Single, Kids
<1>9. IsInnerNode(n, C)
      BY <1>2 DEF IsInnerNode, Inner, Sparse
<1> QED BY <1>2, <1>3, <1>5, <1>6, <1>7, <1>8, <1>9

LEMMA AllocKids ==
  ASSUME NEW C, NEW p \in Seq(Byte), NEW n,
         n = [AllocNode("INNER_4") EXCEPT !.prefix = p]
  PROVE  /\ IsInnerNode(n, C) /\ Layout(n) /\ Single(n) /\ Kids(n) = {}
         /\ n.flags = "INNER_4" /\ n.key_len = 0 /\ ~ IsFull(n)
         /\ n.prefix = p /\ n.count = 0
         /\ \A x \in Byte : Child(n, x) = Null
BY AllocPrefix, EmptyInner, Zenon

-----------------------------------------------------------------------------
(* The invariant is inductive, and every step is a step of the map.        *)

NodeInv ==
  /\ IsInnerNode(inner, Children)
  /\ Layout(inner)
  /\ aborted = FALSE

LEMMA NodeInitOK ==
  ASSUME NodeInit PROVE NodeInv /\ ChildrenOf(inner) = [b \in {} |-> b]
<1>1. inner \in NodesOfLayout("INNER_4", Children)
  <2>1. /\ inner.key \in [0 .. Cap4 - 1 -> Byte]
        /\ inner.arr \in [0 .. Cap4 - 1 -> Children \cup {Null}]
        BY Alloc, CapsAssumption DEF NodeInit, Byte
  <2>2. <<>> \in Seq(Byte) /\ 0 \in 0 .. Cap4
        BY CapsAssumption
  <2> QED BY <2>1, <2>2, Alloc, Fields4 DEF NodeInit
<1>2. /\ inner.flags = "INNER_4" /\ inner.key_len = 0
      /\ \A i \in 0 .. Cap4 - 1 : inner.arr[i] = Null
  <2>1. inner = [flags |-> "INNER_4", key_len |-> 0,
                key |-> [i \in 0 .. Cap4 - 1 |-> 0],
                arr |-> [i \in 0 .. Cap4 - 1 |-> Null],
                prefix |-> <<>>, count |-> 0]
        BY Alloc DEF NodeInit
  <2> QED BY <2>1
<1>3. Used(inner) = {}
      BY <1>2 DEF Used
<1>4. Layout(inner)
      BY <1>2, <1>3, Sizes DEF Layout, Slots
<1>5. \A x \in Byte : Child(inner, x) = Null
      BY <1>1, <1>3, <1>4, ChildSparse DEF Sparse
<1>6. ChildrenOf(inner) = [b \in {} |-> b]
      BY <1>5 DEF ChildrenOf
<1> QED BY <1>1, <1>4, <1>6 DEF NodeInit, NodeInv, IsInnerNode, Inner, Sparse

(* A node that differs in the child of one byte stands for a map that does.*)
LEMMA OneChildChanged ==
  ASSUME NEW m, NEW n, NEW b \in Byte, NEW c, c # Null,
         \A x \in Byte : Child(m, x) = IF x = b THEN c ELSE Child(n, x)
  PROVE  ChildrenOf(m) = NodeMap!Update(ChildrenOf(n), b, c)
<1> DEFINE D == {x \in Byte : Child(n, x) # Null}
           E == {x \in Byte : Child(m, x) # Null}
<1>1. DOMAIN ChildrenOf(n) = D /\ \A x \in D : ChildrenOf(n)[x] = Child(n, x)
      BY DEF ChildrenOf
<1>2. E = D \cup {b}
      OBVIOUS
<1>3. NodeMap!Update(ChildrenOf(n), b, c) =
        [x \in D \cup {b} |-> IF x = b THEN c ELSE ChildrenOf(n)[x]]
      BY <1>1 DEF NodeMap!Update
<1>4. \A x \in E : Child(m, x) = IF x = b THEN c ELSE ChildrenOf(n)[x]
      BY <1>1, <1>2
<1> HIDE DEF D, E
<1>5. ChildrenOf(m) = [x \in E |-> Child(m, x)]
      BY DEF ChildrenOf, E
<1> QED BY <1>2, <1>3, <1>4, <1>5

LEMMA AddToInnerOK ==
  ASSUME NodeInv, NEW b \in Byte, NEW c \in Children, AddToInner(b, c)
  PROVE  NodeInv' /\ NodeMap!Put(b, c)
<1> DEFINE m == MakeRoom(inner)
<1>1. Null \notin Children
      BY NullAssumption
<1>2. /\ IsFull(inner) => GrowAsserts(inner)
      /\ IsInnerNode(m, Children) /\ Layout(m) /\ ~ IsFull(m)
      /\ \A x \in Byte : Child(m, x) = Child(inner, x)
      BY <1>1, MakeRoomOK DEF NodeInv
<1>3. Child(inner, b) = Null
      BY DEF AddToInner
<1> HIDE DEF m
<1>4. /\ AddChildAsserts(m, b)
      /\ IsInnerNode(AddChild(m, b, c), Children)
      /\ Layout(AddChild(m, b, c))
      /\ \A x \in Byte : Child(AddChild(m, b, c), x) =
                           IF x = b THEN c ELSE Child(m, x)
      BY <1>1, <1>2, <1>3, AddChildOK
<1>5. inner' = AddChild(m, b, c) /\ aborted' = aborted
      BY <1>2, <1>4 DEF AddToInner, m
<1>6. NodeInv'
      BY <1>4, <1>5 DEF NodeInv
<1>7. \A x \in Byte : Child(inner', x) = IF x = b THEN c ELSE Child(inner, x)
      BY <1>2, <1>4, <1>5
<1>8. ChildrenOf(inner') = NodeMap!Update(ChildrenOf(inner), b, c)
      BY <1>1, <1>7, OneChildChanged
<1>9. b \notin DOMAIN ChildrenOf(inner)
      BY <1>3 DEF ChildrenOf
<1>10. ChildrenOf(inner)' = ChildrenOf(inner')
      BY DEF ChildrenOf, Child, FindChild, Used, FirstSlot
<1> QED BY <1>6, <1>8, <1>9, <1>10 DEF NodeMap!Put

LEMMA RelinkStepOK ==
  ASSUME NodeInv, NEW b \in Byte, NEW c \in Children, Relink(b, c)
  PROVE  NodeInv' /\ NodeMap!Replace(b, c)
<1>1. Null \notin Children /\ Child(inner, b) # Null /\ aborted' = aborted
      BY NullAssumption DEF Relink
<1> DEFINE A == [inner.arr EXCEPT ![FindChild(inner, b)] = c]
<1>2. inner' = [flags |-> inner.flags, key_len |-> inner.key_len,
               key |-> inner.key, arr |-> A, prefix |-> inner.prefix,
               count |-> inner.count]
  <2>1. inner = [flags |-> inner.flags, key_len |-> inner.key_len,
                key |-> inner.key, arr |-> inner.arr, prefix |-> inner.prefix,
                count |-> inner.count]
        BY DEF NodeInv, IsInnerNode, NodesOfLayout
  <2>2. inner' = [inner EXCEPT !.arr = A]
        BY DEF Relink
  <2> QED BY <2>1, <2>2
<1>3. /\ IsInnerNode(inner', Children)
      /\ Layout(inner')
      /\ \A x \in Byte : Child(inner', x) = IF x = b THEN c ELSE Child(inner, x)
  <2>1. A = [inner.arr EXCEPT ![FindChild(inner, b)] = c]
        OBVIOUS
  <2> HIDE DEF A
  <2> QED BY <1>1, <1>2, <2>1, RelinkOK DEF NodeInv
<1>4. ChildrenOf(inner') = NodeMap!Update(ChildrenOf(inner), b, c)
      BY <1>1, <1>3, OneChildChanged
<1>5. b \in DOMAIN ChildrenOf(inner)
      BY <1>1 DEF ChildrenOf
<1>6. NodeInv'
      BY <1>1, <1>3 DEF NodeInv
<1> QED BY <1>4, <1>5, <1>6 DEF NodeMap!Replace

LEMMA NodeNextOK ==
  ASSUME NodeInv, [NodeNext]_nodeVars
  PROVE  NodeInv' /\ [NodeMap!Next]_(ChildrenOf(inner))
<1>1. ASSUME NEW b \in Byte, NEW c \in Children, AddToInner(b, c)
      PROVE  NodeInv' /\ NodeMap!Next
      BY <1>1, AddToInnerOK DEF NodeMap!Next
<1>2. ASSUME NEW b \in Byte, NEW c \in Children, Relink(b, c)
      PROVE  NodeInv' /\ NodeMap!Next
      BY <1>2, RelinkStepOK DEF NodeMap!Next
<1>3. CASE UNCHANGED nodeVars
      BY <1>3 DEF nodeVars, NodeInv, ChildrenOf
<1> QED BY <1>1, <1>2, <1>3 DEF NodeNext

(* The layout invariant holds in every reachable state of a node, whatever *)
(* its bytes, its children and the four capacities.                        *)
THEOREM NodeInvariant == NodeSpec => []NodeInv
<1>1. NodeInit => NodeInv
      BY NodeInitOK
<1>2. NodeInv /\ [NodeNext]_nodeVars => NodeInv'
      BY NodeNextOK
<1> QED BY <1>1, <1>2, PTL DEF NodeSpec

(* Type correctness: no index leaves key[] or arr[].                       *)
THEOREM NodeTypeCorrect == NodeSpec => []NodeTypeOK
<1>1. NodeInv => NodeTypeOK
      BY DEF NodeInv, NodeTypeOK
<1> QED BY <1>1, NodeInvariant, PTL

(* The used slots are exactly the slots with a child, one per byte.        *)
THEOREM LayoutCorrect == NodeSpec => []LayoutInv
<1>1. NodeInv => LayoutInv
      BY DEF NodeInv, LayoutInv
<1> QED BY <1>1, NodeInvariant, PTL

(* No assert() of add_child() or grow() fails.                             *)
THEOREM AssertsHold == NodeSpec => []NeverAborts
<1>1. NodeInv => NeverAborts
      BY DEF NodeInv, NeverAborts
<1> QED BY <1>1, NodeInvariant, PTL

(* A node implements the partial function from bytes to children: growing  *)
(* it is invisible, adding and redirecting a child change exactly one.     *)
THEOREM NodeImplementsMap == NodeSpec => ImplementsChildMap
<1>1. NodeInit => NodeMap!Init
      BY NodeInitOK DEF NodeMap!Init
<1>2. NodeInv /\ [NodeNext]_nodeVars => [NodeMap!Next]_(ChildrenOf(inner))
      BY NodeNextOK
<1> QED BY <1>1, <1>2, NodeInvariant, PTL DEF NodeSpec, ImplementsChildMap, NodeMap!Spec


-----------------------------------------------------------------------------
(* Bytes, and what the loops over them find.                               *)

LEMMA ByteAtType ==
  ASSUME NEW k \in Seq(Byte), NEW i \in Nat
  PROVE  ByteAt(k, i) \in Byte
<1>1. Len(k) \in Nat /\ 0 \in Byte
      BY LenProperties, CapsAssumption DEF Byte
<1>2. i < Len(k) => k[i + 1] \in Byte
      BY <1>1, ElementOfSeq
<1> QED BY <1>1, <1>2 DEF ByteAt

LEMMA LeastOf ==
  ASSUME NEW a \in Int, NEW b \in Int
  PROVE  Least(a, b) <= a /\ Least(a, b) <= b /\ Least(a, b) \in {a, b}
BY DEF Least

LEMMA PrefixOK ==
  ASSUME NEW node, node.prefix \in Seq(Byte), NEW k \in Seq(Byte),
         NEW d \in 0 .. Len(k), NEW m, m = CheckPrefix(node, k, d)
  PROVE  /\ m \in Nat /\ m <= Len(node.prefix) /\ d + m <= Len(k)
         /\ m < Len(node.prefix) /\ d + m < Len(k) =>
              node.prefix[m + 1] # ByteAt(k, d + m)
<1> DEFINE most == Least(Len(node.prefix), Len(k) - d)
           Stop(i) == i < most => node.prefix[i + 1] # ByteAt(k, d + i)
           T == {i \in 0 .. most : Stop(i)}
<1>1. Len(node.prefix) \in Nat /\ Len(k) \in Nat
      BY LenProperties
<1>2. most \in Nat /\ most <= Len(node.prefix) /\ d + most <= Len(k)
      /\ (most = Len(node.prefix) \/ d + most = Len(k))
      BY <1>1, LeastOf
<1> HIDE DEF most
<1>3. most \in T /\ T \subseteq Nat
      BY <1>2
<1>4. PICK i \in T : \A j \in T : i <= j
      BY <1>3, LeastNatural
<1>5. /\ i \in 0 .. most
      /\ \A j \in 0 .. i - 1 : node.prefix[j + 1] = ByteAt(k, d + j)
      /\ Stop(i)
      BY <1>2, <1>4
<1>6. m \in 0 .. most /\ Stop(m)
      BY <1>5 DEF CheckPrefix, most
<1> QED BY <1>1, <1>2, <1>6

LEMMA MatchOK ==
  ASSUME NEW leaf, leaf.key_len \in Nat, key \in Seq(Byte), depth \in 0 .. Len(key),
         NEW m, m = Match(leaf)
  PROVE  /\ m \in depth .. Len(key)
         /\ \A i \in depth .. m - 1 : i < leaf.key_len /\ leaf.key[i + 1] = key[i + 1]
         /\ \/ m >= leaf.key_len
            \/ m = Len(key)
            \/ leaf.key[m + 1] # key[m + 1]
<1> DEFINE Stop(i) == \/ i >= leaf.key_len
                      \/ i = Len(key)
                      \/ leaf.key[i + 1] # key[i + 1]
           T == {i \in depth .. Len(key) : Stop(i)}
<1>1. Len(key) \in Nat /\ depth \in Nat
      BY LenProperties
<1>2. Len(key) \in T /\ T \subseteq Nat
      BY <1>1
<1>3. PICK i \in T : \A j \in T : i <= j
      BY <1>2, LeastNatural
<1>4. i \in depth .. Len(key) /\ Stop(i)
      OBVIOUS
<1>5. ASSUME NEW j \in depth .. i - 1
      PROVE  j < leaf.key_len /\ leaf.key[j + 1] = key[j + 1]
  <2>1. j \in depth .. Len(key) /\ j < i /\ j \in Nat
        BY <1>1, <1>4
  <2>2. j \notin T
        BY <1>1, <1>3, <1>4, <2>1
  <2>3. ~ Stop(j)
        BY <2>1, <2>2
  <2> QED BY <2>1, <2>3
<1> QED BY <1>4, <1>5 DEF Match

(* The chain of inner nodes of a leaf split: each takes PrefixSize bytes   *)
(* that are there, and what is left for the last one fits.                 *)
LEMMA ChainOK ==
  ASSUME NEW p \in Nat, NEW c, c = ChainLength(p)
  PROVE  /\ c \in Nat
         /\ \A j \in 0 .. c - 1 : j * PrefixSize \in Nat
                                  /\ j * PrefixSize + PrefixSize <= p
         /\ LastPrefix(p) \in 0 .. PrefixSize /\ LastPrefix(p) <= p
<1> DEFINE S == PrefixSize
           T == {i \in 0 .. p : Left(p, i) <= 2 * S}
<1>0. S \in Nat \ {0}
      BY TreeAssumption
<1> HIDE DEF S
<1>1. \A i \in Nat : Left(p, i) = p - i * (S + 1) /\ i * (S + 1) = i * S + i
                     /\ i * S \in Nat /\ Left(p, i) \in Int
  <2> SUFFICES ASSUME NEW i \in Nat
               PROVE  /\ Left(p, i) = p - i * (S + 1) /\ i * (S + 1) = i * S + i
                      /\ i * S \in Nat /\ Left(p, i) \in Int
      OBVIOUS
  <2>1. i * S \in Nat
        BY <1>0
  <2>2. i * (S + 1) = i * S + i
        BY <1>0
  <2>3. Left(p, i) = p - i * (S + 1)
        BY DEF Left, S
  <2> QED BY <2>1, <2>2, <2>3
<1>2. p * S + p >= p
      BY <1>0, <1>1
<1>3. p \in T /\ T \subseteq Nat
      BY <1>0, <1>1, <1>2
<1>4. PICK i \in T : \A j \in T : i <= j
      BY <1>3, LeastNatural
<1>5. /\ i \in 0 .. p /\ Left(p, i) <= 2 * S
      /\ \A j \in 0 .. i - 1 : Left(p, j) > 2 * S
      BY <1>0, <1>1, <1>4
<1>6. /\ c \in 0 .. p /\ Left(p, c) <= 2 * S
      /\ \A j \in 0 .. c - 1 : Left(p, j) > 2 * S
      BY <1>5 DEF ChainLength, S
<1>7. ASSUME NEW j \in 0 .. c - 1
      PROVE  j * S \in Nat /\ j * S + S <= p
      BY <1>0, <1>1, <1>6
<1>8. Left(p, c) >= 0 /\ Left(p, c) <= p
  <2>1. CASE c = 0
        BY <2>1, <1>1, <1>0
  <2>2. CASE c # 0
    <3>1. c - 1 \in Nat /\ Left(p, c - 1) > 2 * S
          BY <2>2, <1>6
    <3>2. (c - 1) * (S + 1) = c * (S + 1) - (S + 1)
          BY <1>0, <1>6
    <3>3. Left(p, c) = Left(p, c - 1) - (S + 1)
          BY <1>0, <1>1, <1>6, <3>1, <3>2
    <3> QED BY <1>0, <1>1, <1>6, <3>1, <3>3
  <2> QED BY <2>1, <2>2
<1>9. LastPrefix(p) \in 0 .. S /\ LastPrefix(p) <= p
      BY <1>0, <1>1, <1>6, <1>8 DEF LastPrefix, S
<1> QED BY <1>6, <1>7, <1>9 DEF S
-----------------------------------------------------------------------------
(* The tree in memory as a value: every node is held at most once, by the  *)
(* root pointer (the owner Null) or by a slot of one inner node.           *)

Hold(h, r, o) ==
  IF o = Null THEN {r} \ {Null} ELSE IF IsLeaf(h[o]) THEN {} ELSE Kids(h[o])

Owners(h) == DOMAIN h \cup {Null}

Hung(h, r) ==
  /\ \A o \in Owners(h) : Hold(h, r, o) \subseteq DOMAIN h \ {o}
  /\ \A o, u \in Owners(h) : o # u => Hold(h, r, o) \cap Hold(h, r, u) = {}

LeafFine(n) ==
  \E k \in Keys, c \in Nat :
    n = [flags |-> "LEAF", key_len |-> Len(k), key |-> k, arr |-> <<>>,
         prefix |-> <<>>, count |-> c]

InnerFine(n, C) ==
  IsInnerNode(n, C) /\ Layout(n) /\ Single(n) /\ Len(n.prefix) <= PrefixSize

NodeFine(n, C) == LeafFine(n) \/ InnerFine(n, C)

TreeInv(h, r, t) ==
  /\ t \in Nat /\ DOMAIN h \subseteq 1 .. t
  /\ \A a \in DOMAIN h : NodeFine(h[a], 1 .. t)
  /\ Hung(h, r)

(* A link is the root pointer, or the slot of a byte that has a child.     *)
LinkFine(l, h) ==
  \/ l = RootLink
  \/ \E a \in DOMAIN h, b \in Byte :
       /\ ~ IsLeaf(h[a]) /\ Child(h[a], b) # Null
       /\ l = [parent |-> a, slot |-> FindChild(h[a], b)]

WalkInv ==
  /\ pc \in {"idle", "insert", "aborted"}
  /\ pc = "idle" => key = <<>> /\ link = RootLink /\ depth = 0
  /\ pc # "idle" => key \in Keys
  /\ depth \in 0 .. Len(key)
  /\ LinkFine(link, heap)
  /\ link # RootLink => root # Null

IInv ==
  /\ TreeInv(heap, root, top)
  /\ WalkInv
  /\ inserts \in [Keys -> Nat]

(* The leaves, and what a returning insertion may do to them.              *)
Leaves(h) == {a \in DOMAIN h : IsLeaf(h[a])}

Kept == \A a \in Leaves(heap) : heap'[a] = heap[a]

NewLeaf(x) ==
  /\ Leaves(heap') = Leaves(heap) \cup {x} /\ x \notin Leaves(heap)
  /\ heap'[x] = MakeLeaf(key) /\ Kept

SameLeaves == Leaves(heap') = Leaves(heap) /\ Kept

HitLeaf(x) ==
  /\ Leaves(heap') = Leaves(heap) /\ x \in Leaves(heap)
  /\ heap[x].key_len = Len(key) /\ heap'[x].key_len = Len(key)
  /\ heap'[x].count = heap[x].count + 1
  /\ \A a \in Leaves(heap) \ {x} : heap'[a] = heap[a]

Gain == SameLeaves \/ \E x \in DOMAIN heap' : NewLeaf(x) \/ HitLeaf(x)

LEMMA LeafFields ==
  ASSUME NEW n, LeafFine(n)
  PROVE  /\ IsLeaf(n) /\ n.key \in Keys /\ n.key_len = Len(n.key)
         /\ n.key \in Seq(Byte) /\ n.key_len \in Nat
         /\ n.prefix = <<>> /\ n.count \in Nat
<1>1. PICK k \in Keys, c \in Nat :
        n = [flags |-> "LEAF", key_len |-> Len(k), key |-> k, arr |-> <<>>,
             prefix |-> <<>>, count |-> c]
      BY DEF LeafFine
<1>2. k \in Seq(Byte) /\ Len(k) \in Nat
      BY TreeAssumption, LenProperties
<1> QED BY <1>1, <1>2 DEF IsLeaf

LEMMA MakeLeafFine ==
  ASSUME NEW k \in Keys
  PROVE  /\ LeafFine(MakeLeaf(k)) /\ IsLeaf(MakeLeaf(k))
         /\ \A C : NodeFine(MakeLeaf(k), C)
         /\ \A h, r, o : o # Null /\ h[o] = MakeLeaf(k) => Hold(h, r, o) = {}
<1>1. LeafFine(MakeLeaf(k)) /\ IsLeaf(MakeLeaf(k))
      BY DEF LeafFine, MakeLeaf, IsLeaf
<1> QED BY <1>1 DEF NodeFine, Hold

(* Nodes of either kind, as seen from the tree.                            *)
LEMMA NodeKinds ==
  ASSUME NEW n, NEW C, NodeFine(n, C)
  PROVE  /\ IsLeaf(n) => LeafFine(n)
         /\ ~ IsLeaf(n) => InnerFine(n, C)
         /\ n.prefix \in Seq(Byte) /\ n.count \in Nat
<1>1. CASE LeafFine(n)
  <2>1. <<>> \in Seq(Byte)
        OBVIOUS
  <2> QED BY <1>1, <2>1, LeafFields
<1>2. CASE InnerFine(n, C)
      BY <1>2, InnerFields DEF InnerFine
<1> QED BY <1>1, <1>2 DEF NodeFine

LEMMA NodeMore ==
  ASSUME NEW n, NEW C, NodeFine(n, C), NEW D, C \subseteq D
  PROVE  NodeFine(n, D)
BY InnerMore DEF NodeFine, InnerFine

(* The node under the link, and who holds it.                              *)
LEMMA Holder ==
  ASSUME IInv, root # Null, NEW p, p = link.parent, NEW T, T = Target(link)
  PROVE  /\ p \in Owners(heap) /\ T \in DOMAIN heap /\ T # p /\ T \in Nat
         /\ T \in Hold(heap, root, p)
         /\ link = RootLink => p = Null /\ T = root
         /\ link # RootLink =>
              /\ p \in DOMAIN heap /\ p # Null /\ ~ IsLeaf(heap[p])
              /\ \E b \in Byte : /\ Child(heap[p], b) = T /\ T # Null
                               /\ link.slot = FindChild(heap[p], b)
<1>1. /\ Null \notin Nat /\ Hung(heap, root) /\ top \in Nat
      /\ DOMAIN heap \subseteq 1 .. top /\ LinkFine(link, heap)
      BY TreeAssumption DEF IInv, TreeInv, WalkInv
<1>2. CASE link = RootLink
  <2>1. p = Null /\ T = root
        BY <1>2 DEF RootLink, Target
  <2>2. T \in Hold(heap, root, p)
        BY <2>1 DEF Hold
  <2> QED BY <1>1, <1>2, <2>1, <2>2 DEF Hung, Owners
<1>3. CASE link # RootLink
  <2>1. PICK a \in DOMAIN heap, b \in Byte :
          /\ ~ IsLeaf(heap[a]) /\ Child(heap[a], b) # Null
          /\ link = [parent |-> a, slot |-> FindChild(heap[a], b)]
        BY <1>1, <1>3 DEF LinkFine
  <2>2. p = a /\ link.slot = FindChild(heap[a], b) /\ p # Null
        BY <1>1, <2>1
  <2>3. T = Child(heap[a], b)
        BY <1>3, <2>1, <2>2 DEF Target, Child
  <2>4. T \in Hold(heap, root, p)
        BY <2>1, <2>2, <2>3 DEF Hold, Kids
  <2>5. p \in Owners(heap)
        BY <2>2 DEF Owners
  <2>6. T \in DOMAIN heap /\ T # p
        BY <1>1, <2>4, <2>5 DEF Hung
  <2>7. p \in DOMAIN heap /\ ~ IsLeaf(heap[p])
        BY <2>1, <2>2
  <2>8. T # Null /\ Child(heap[p], b) = T /\ link.slot = FindChild(heap[p], b)
        BY <2>1, <2>2, <2>3
  <2>9. T \in Nat
        BY <1>1, <2>6
  <2> QED BY <1>3, <2>2, <2>4, <2>5, <2>6, <2>7, <2>8, <2>9
<1> QED BY <1>2, <1>3

(* replace() in a heap h in which the holder is as it was.                 *)
LEMMA ReplaceOK ==
  ASSUME IInv, root # Null, NEW p, p = link.parent, NEW T, T = Target(link),
         NEW h, p # Null => p \in DOMAIN h /\ h[p] = heap[p],
         NEW t \in Nat, t >= top, NEW s \in 1 .. t, s \notin DOMAIN heap,
         Replace(h, s)
  PROVE  /\ DOMAIN heap' = DOMAIN h
         /\ \A o \in DOMAIN h : o # p => heap'[o] = h[o]
         /\ p # Null => root' = root /\ NodeFine(heap'[p], 1 .. t)
         /\ p # Null => ~ IsLeaf(heap'[p]) /\ ~ IsLeaf(heap[p])
         /\ Hold(heap', root', p) = (Hold(heap, root, p) \ {T}) \cup {s}
<1>1. /\ p \in Owners(heap) /\ T \in DOMAIN heap /\ T \in Hold(heap, root, p)
      /\ link = RootLink => p = Null /\ T = root
      /\ link # RootLink =>
           /\ p \in DOMAIN heap /\ p # Null /\ ~ IsLeaf(heap[p])
           /\ \E b \in Byte : /\ Child(heap[p], b) = T /\ T # Null
                            /\ link.slot = FindChild(heap[p], b)
      BY Holder
<1>2. Null \notin Nat /\ top \in Nat /\ Hung(heap, root) /\ s # Null
      /\ 1 .. top \subseteq 1 .. t
      BY TreeAssumption DEF IInv, TreeInv
<1>3. CASE link = RootLink
  <2>1. root' = s /\ heap' = h /\ p = Null /\ T = root
        BY <1>1, <1>3 DEF Replace
  <2>2. Hold(heap', root', p) = {s} /\ Hold(heap, root, p) = {T}
        BY <1>2, <2>1 DEF Hold
  <2> QED BY <2>1, <2>2
<1>4. CASE link # RootLink
  <2>1. PICK b \in Byte : /\ Child(heap[p], b) = T /\ T # Null
                          /\ link.slot = FindChild(heap[p], b)
        BY <1>1, <1>4
  <2>2. NodeFine(heap[p], 1 .. t)
        BY <1>1, <1>2, <1>4, NodeMore DEF IInv, TreeInv
  <2>3. InnerFine(heap[p], 1 .. t)
        BY <1>1, <1>4, <2>2, NodeKinds
  <2>4. Kids(heap[p]) \subseteq DOMAIN heap
        BY <1>1, <1>2, <1>4 DEF Hung, Hold, Owners
  <2>5. PICK m : /\ m = [heap[p] EXCEPT !.arr[FindChild(heap[p], b)] = s]
                 /\ IsInnerNode(m, 1 .. t) /\ Layout(m) /\ Single(m)
                 /\ Kids(m) = (Kids(heap[p]) \ {T}) \cup {s}
                 /\ m.prefix = heap[p].prefix /\ m.count = heap[p].count
        BY <1>2, <2>1, <2>3, <2>4, RelinkKids DEF InnerFine
  <2>6. root' = root /\ heap' = [h EXCEPT ![p].arr[FindChild(heap[p], b)] = s]
        BY <1>4, <2>1 DEF Replace
  <2>7. heap' = [h EXCEPT ![p] = m]
        BY <1>1, <1>4, <2>5, <2>6, Zenon
  <2>8. /\ DOMAIN heap' = DOMAIN h /\ heap'[p] = m
        /\ \A o \in DOMAIN h : o # p => heap'[o] = h[o]
        BY <1>1, <1>4, <2>7
  <2>9. NodeFine(heap'[p], 1 .. t) /\ ~ IsLeaf(heap'[p])
        BY <2>3, <2>5, <2>8, InnerFields DEF NodeFine, InnerFine
  <2>10. Hold(heap', root', p) = (Hold(heap, root, p) \ {T}) \cup {s}
        BY <1>1, <1>4, <2>5, <2>8, <2>9 DEF Hold
  <2> QED BY <1>1, <1>4, <2>6, <2>8, <2>9, <2>10
<1> QED BY <1>3, <1>4

(* replace() leaves every leaf alone.                                      *)
LEMMA ReplaceLeaves ==
  ASSUME IInv, root # Null, NEW T, T = Target(link),
         NEW h, DOMAIN heap \subseteq DOMAIN h \cup {T},
         \A a \in DOMAIN heap \ {T} : h[a] = heap[a],
         NEW t \in Nat, t >= top, NEW s \in 1 .. t, s \notin DOMAIN heap,
         Replace(h, s)
  PROVE  /\ DOMAIN heap' = DOMAIN h
         /\ Leaves(heap') = Leaves(h)
         /\ \A a \in Leaves(h) : heap'[a] = h[a]
<1>1. PICK p : p = link.parent
      OBVIOUS
<1>2. p \in Owners(heap) /\ T # p
      BY <1>1, Holder
<1>3. p # Null => p \in DOMAIN h /\ h[p] = heap[p]
      BY <1>2 DEF Owners
<1>4. /\ DOMAIN heap' = DOMAIN h
      /\ \A o \in DOMAIN h : o # p => heap'[o] = h[o]
      /\ p # Null => ~ IsLeaf(heap'[p]) /\ ~ IsLeaf(heap[p])
      /\ p = Null => link = RootLink
  <2>1. link # RootLink => p # Null
        BY <1>1, Holder
  <2> QED BY <1>1, <1>3, <2>1, ReplaceOK
<1>5. CASE p # Null
      BY <1>3, <1>4, <1>5 DEF Leaves
<1>6. CASE p = Null
  <2>1. heap' = h
        BY <1>4, <1>6 DEF Replace
  <2> QED BY <2>1
<1> QED BY <1>5, <1>6

-----------------------------------------------------------------------------
(* What an insertion does to the tree, once for all its ways.              *)

(* replace() after a step that made the nodes N, rewrote the node T under  *)
(* the link or freed it (D), and hangs them all under s.                   *)
LEMMA Graft ==
  ASSUME IInv, root # Null, NEW T, T = Target(link),
         NEW h, NEW t \in Nat, t >= top,
         NEW N, N \subseteq top + 1 .. t, NEW s \in N, NEW D, D \subseteq {T},
         DOMAIN h = (DOMAIN heap \cup N) \ D,
         \A a \in DOMAIN heap \ {T} : h[a] = heap[a],
         \A a \in (N \cup {T}) \ D :
           /\ NodeFine(h[a], 1 .. t)
           /\ Hold(h, root, a) \subseteq
                (Hold(heap, root, T) \cup N \cup ({T} \ D)) \ {s, a},
         \A a, u \in (N \cup {T}) \ D :
           a # u => Hold(h, root, a) \cap Hold(h, root, u) = {},
         Replace(h, s)
  PROVE  TreeInv(heap', root', t)
<1> DEFINE p == link.parent
           F == (N \cup {T}) \ D
<1>1. /\ Null \notin Nat /\ top \in Nat /\ DOMAIN heap \subseteq 1 .. top
      /\ \A a \in DOMAIN heap : NodeFine(heap[a], 1 .. top)
      /\ Hung(heap, root)
      BY TreeAssumption DEF IInv, TreeInv
<1>2. /\ p \in Owners(heap) /\ T \in DOMAIN heap /\ T # p /\ T \in Nat
      /\ T \in Hold(heap, root, p)
      BY Holder
<1>0. /\ \A n \in N : n \in 1 .. t /\ n \in Nat /\ n \notin 1 .. top
      /\ \A n \in 1 .. top : n \in 1 .. t /\ n \in Nat
      BY <1>1
<1>3. N \cap Owners(heap) = {} /\ N \subseteq 1 .. t
  <2>1. \A n \in N : n \notin DOMAIN heap /\ n # Null
        BY <1>0, <1>1
  <2> QED BY <1>0, <2>1 DEF Owners
<1>4. DOMAIN h = (DOMAIN heap \ {T}) \cup F
      BY <1>2, <1>3
<1>5. p # Null => p \in DOMAIN h /\ h[p] = heap[p]
      BY <1>2, <1>4 DEF Owners
<1>6. s \in 1 .. t /\ s \notin DOMAIN heap /\ s \in F /\ s # T /\ s # p
      BY <1>2, <1>3 DEF Owners
<1>7. /\ DOMAIN heap' = DOMAIN h
      /\ \A o \in DOMAIN h : o # p => heap'[o] = h[o]
      /\ p # Null => root' = root /\ NodeFine(heap'[p], 1 .. t)
      /\ Hold(heap', root', p) = (Hold(heap, root, p) \ {T}) \cup {s}
      BY <1>5, <1>6, ReplaceOK
<1>8. ASSUME NEW o \in F
      PROVE  /\ o \in DOMAIN h /\ o # p /\ o # Null
             /\ Hold(heap', root', o) = Hold(h, root, o)
             /\ NodeFine(heap'[o], 1 .. t)
             /\ Hold(heap', root', o) \subseteq
                  (Hold(heap, root, T) \cup N \cup ({T} \ D)) \ {s, o}
  <2>1. o \in DOMAIN h /\ o # p /\ o # Null
        BY <1>1, <1>2, <1>3, <1>4
  <2>2. heap'[o] = h[o]
        BY <1>7, <2>1
  <2>3. Hold(heap', root', o) = Hold(h, root, o)
        BY <2>1, <2>2 DEF Hold
  <2> QED BY <2>1, <2>2, <2>3
<1>9. ASSUME NEW o \in Owners(heap), o # p, o # T
      PROVE  Hold(heap', root', o) = Hold(heap, root, o)
  <2>1. CASE o = Null
        BY <1>7, <1>9, <2>1 DEF Hold
  <2>2. CASE o # Null
    <3>1. o \in DOMAIN heap /\ o \in DOMAIN h /\ h[o] = heap[o]
          BY <1>4, <1>9, <2>2 DEF Owners
    <3>2. heap'[o] = heap[o]
          BY <1>7, <1>9, <3>1
    <3> QED BY <2>2, <3>2 DEF Hold
  <2> QED BY <2>1, <2>2
<1>10. \A o \in Owners(heap) : Hold(heap, root, o) \subseteq DOMAIN heap \ {o}
       BY <1>1 DEF Hung
<1>11. \A o, u \in Owners(heap) : o # u => Hold(heap, root, o) \cap Hold(heap, root, u) = {}
       BY <1>1 DEF Hung
<1>12. T \in Owners(heap)
       BY <1>2 DEF Owners
<1>13. Owners(heap') = (Owners(heap) \ {T}) \cup F /\ Null # T
       BY <1>1, <1>2, <1>4, <1>7 DEF Owners
<1>14. \A o \in Owners(heap) : o # T /\ o # p => T \notin Hold(heap, root, o)
       BY <1>2, <1>11
<1>15. ASSUME NEW o \in Owners(heap')
       PROVE  Hold(heap', root', o) \subseteq DOMAIN heap' \ {o}
  <2>1. CASE o = p
        BY <1>2, <1>4, <1>6, <1>7, <1>10, <2>1
  <2>2. CASE o \in F
    <3>1. /\ Hold(heap', root', o) \subseteq
               (Hold(heap, root, T) \cup N \cup ({T} \ D)) \ {s, o}
          /\ Hold(heap, root, T) \subseteq DOMAIN heap \ {T}
          BY <1>8, <1>10, <1>12, <2>2
    <3>2. N \cap {T} = {}
          BY <1>3, <1>12
    <3>3. N \subseteq F /\ {T} \ D \subseteq F
          BY <3>2
    <3> HIDE DEF F
    <3> QED BY <1>4, <1>7, <3>1, <3>3
  <2>3. CASE o \notin F /\ o # p
    <3>1. o \in Owners(heap) /\ o # T
          BY <1>13, <2>3
    <3> QED BY <1>4, <1>7, <1>9, <1>10, <1>14, <2>3, <3>1
  <2> QED BY <2>1, <2>2, <2>3
<1>16. ASSUME NEW o \in Owners(heap'), o \notin F,
              NEW u \in Owners(heap'), o # u
       PROVE  Hold(heap', root', o) \cap Hold(heap', root', u) = {}
  <2>1. o \in Owners(heap) /\ o # T
        BY <1>13, <1>16
  <2>2. /\ Hold(heap', root', o) \subseteq (Hold(heap, root, o) \cup {s}) \ {T}
        /\ o # p => Hold(heap', root', o) \subseteq Hold(heap, root, o)
        BY <1>6, <1>7, <1>9, <1>14, <2>1
  <2>3. CASE u \in F
    <3>1. Hold(heap', root', u) \subseteq
            (Hold(heap, root, T) \cup N \cup {T}) \ {s}
          BY <1>8, <2>3
    <3>2. Hold(heap, root, o) \cap Hold(heap, root, T) = {}
          BY <1>11, <1>12, <2>1
    <3>3. Hold(heap, root, o) \cap N = {}
          BY <1>3, <1>10, <2>1 DEF Owners
    <3> QED BY <2>2, <3>1, <3>2, <3>3
  <2>4. CASE u \notin F
    <3>1. u \in Owners(heap) /\ u # T
          BY <1>13, <2>4
    <3>2. /\ Hold(heap', root', u) \subseteq (Hold(heap, root, u) \cup {s}) \ {T}
          /\ u # p => Hold(heap', root', u) \subseteq Hold(heap, root, u)
          BY <1>6, <1>7, <1>9, <1>14, <3>1
    <3>3. Hold(heap, root, o) \cap Hold(heap, root, u) = {}
          BY <1>11, <1>16, <2>1, <3>1
    <3>4. s \notin Hold(heap, root, o) /\ s \notin Hold(heap, root, u)
          BY <1>6, <1>10, <2>1, <3>1
    <3> QED BY <1>16, <2>2, <3>2, <3>3, <3>4
  <2> QED BY <2>3, <2>4
<1>17. ASSUME NEW o \in F, NEW u \in F, o # u
       PROVE  Hold(heap', root', o) \cap Hold(heap', root', u) = {}
  <2>1. Hold(h, root, o) \cap Hold(h, root, u) = {}
        BY <1>17
  <2> QED BY <1>8, <2>1
<1>18. Hung(heap', root')
  <2>1. ASSUME NEW o \in Owners(heap'), NEW u \in Owners(heap'), o # u
        PROVE  Hold(heap', root', o) \cap Hold(heap', root', u) = {}
    <3>1. CASE o \in F /\ u \in F
          BY <1>17, <2>1, <3>1
    <3>2. CASE o \notin F
          BY <1>16, <2>1, <3>2
    <3>3. CASE u \notin F
          BY <1>16, <2>1, <3>3
    <3> QED BY <3>1, <3>2, <3>3
  <2> QED BY <1>15, <2>1 DEF Hung
<1>19. ASSUME NEW a \in DOMAIN heap' PROVE NodeFine(heap'[a], 1 .. t)
  <2>1. CASE a = p
    <3>1. a # Null
      <4>1. a \in DOMAIN heap \/ a \in F
            BY <1>4, <1>7, <1>19
      <4>2. \A n \in DOMAIN heap : n \in Nat
            BY <1>0, <1>1
      <4>3. CASE a \in DOMAIN heap
            BY <1>1, <4>2, <4>3
      <4>4. CASE a \in F
            BY <1>8, <4>4
      <4> QED BY <4>1, <4>3, <4>4
    <3> QED BY <1>7, <2>1, <3>1
  <2>2. CASE a \in F
        BY <1>8, <2>2
  <2>3. CASE a # p /\ a \notin F
    <3>1. a \in DOMAIN heap /\ heap'[a] = heap[a]
          BY <1>4, <1>7, <1>19, <2>3
    <3>2. 1 .. top \subseteq 1 .. t
          BY <1>0
    <3>3. NodeFine(heap[a], 1 .. top)
          BY <1>1, <3>1
    <3>4. PICK few : few = 1 .. top
          OBVIOUS
    <3>5. PICK more : more = 1 .. t
          OBVIOUS
    <3>6. few \subseteq more /\ NodeFine(heap[a], few)
          BY <3>2, <3>3, <3>4, <3>5
    <3>7. NodeFine(heap[a], more)
          BY <3>6, NodeMore, SMT
    <3> QED BY <3>1, <3>5, <3>7
  <2> QED BY <2>1, <2>2, <2>3
<1>20. DOMAIN heap' \subseteq 1 .. t
  <2>1. 1 .. top \subseteq 1 .. t
        BY <1>1
  <2> QED BY <1>1, <1>2, <1>3, <1>4, <1>7, <2>1
<1> QED BY <1>18, <1>19, <1>20 DEF TreeInv

(* A step that leaves the links as they are: the node under the link is    *)
(* rewritten, and new leaves N hang under it.                              *)
LEMMA Sprout ==
  ASSUME IInv, root # Null, NEW T, T = Target(link), NEW t \in Nat, t >= top,
         NEW N, N \subseteq top + 1 .. t,
         DOMAIN heap' = DOMAIN heap \cup N,
         \A a \in DOMAIN heap \ {T} : heap'[a] = heap[a],
         NodeFine(heap'[T], 1 .. t),
         Hold(heap', root', T) \subseteq Hold(heap, root, T) \cup N,
         \A a \in N : LeafFine(heap'[a]),
         root' = root
  PROVE  TreeInv(heap', root', t)
<1>1. /\ Null \notin Nat /\ top \in Nat /\ DOMAIN heap \subseteq 1 .. top
      /\ \A a \in DOMAIN heap : NodeFine(heap[a], 1 .. top)
      /\ Hung(heap, root)
      BY TreeAssumption DEF IInv, TreeInv
<1>2. T \in DOMAIN heap /\ T # Null
      BY <1>1, Holder
<1>0. /\ \A n \in N : n \in 1 .. t /\ n \in Nat /\ n \notin 1 .. top
      /\ \A n \in 1 .. top : n \in 1 .. t /\ n \in Nat
      BY <1>1
<1>3. N \cap Owners(heap) = {} /\ N \subseteq 1 .. t /\ Null \notin N
  <2>1. \A n \in N : n \notin DOMAIN heap /\ n # Null
        BY <1>0, <1>1
  <2> QED BY <1>0, <2>1 DEF Owners
<1>4. \A o \in Owners(heap) : Hold(heap, root, o) \subseteq DOMAIN heap \ {o}
      BY <1>1 DEF Hung
<1>5. \A o, u \in Owners(heap) : o # u => Hold(heap, root, o) \cap Hold(heap, root, u) = {}
      BY <1>1 DEF Hung
<1>6. ASSUME NEW o \in Owners(heap), o # T
      PROVE  Hold(heap', root', o) = Hold(heap, root, o)
  <2>1. CASE o = Null
        BY <2>1 DEF Hold
  <2>2. CASE o # Null
    <3>1. heap'[o] = heap[o]
          BY <1>6, <2>2 DEF Owners
    <3> QED BY <2>2, <3>1 DEF Hold
  <2> QED BY <2>1, <2>2
<1>7. ASSUME NEW o \in N PROVE Hold(heap', root', o) = {}
      BY <1>3, <1>7, LeafFields DEF Hold
<1>8. Owners(heap') = Owners(heap) \cup N /\ T \in Owners(heap)
      BY <1>2 DEF Owners
<1>9. ASSUME NEW o \in Owners(heap')
      PROVE  /\ o \in Owners(heap) =>
                  Hold(heap', root', o) \subseteq Hold(heap, root, o) \cup N
             /\ o # T /\ o \in Owners(heap) =>
                  Hold(heap', root', o) \subseteq Hold(heap, root, o)
             /\ o \notin Owners(heap) => Hold(heap', root', o) = {}
      BY <1>6, <1>7, <1>8
<1>10. ASSUME NEW o \in Owners(heap')
       PROVE  Hold(heap', root', o) \subseteq DOMAIN heap' \ {o}
  <2>1. CASE o \in Owners(heap)
        BY <1>3, <1>4, <1>9, <2>1
  <2>2. CASE o \notin Owners(heap)
        BY <1>9, <2>2
  <2> QED BY <2>1, <2>2
<1>11. ASSUME NEW o \in Owners(heap'), NEW u \in Owners(heap'), o # u
       PROVE  Hold(heap', root', o) \cap Hold(heap', root', u) = {}
  <2>1. CASE o \in Owners(heap) /\ u \in Owners(heap)
    <3>1. Hold(heap, root, o) \cap Hold(heap, root, u) = {}
          BY <1>5, <1>11, <2>1
    <3>2. /\ Hold(heap, root, o) \subseteq DOMAIN heap
          /\ Hold(heap, root, u) \subseteq DOMAIN heap
          /\ N \cap DOMAIN heap = {}
          BY <1>3, <1>4, <2>1 DEF Owners
    <3>3. o # T \/ u # T
          BY <1>11
    <3> QED BY <1>9, <2>1, <3>1, <3>2, <3>3
  <2>2. CASE o \notin Owners(heap) \/ u \notin Owners(heap)
        BY <1>9, <2>2
  <2> QED BY <2>1, <2>2
<1>12. ASSUME NEW a \in DOMAIN heap' PROVE NodeFine(heap'[a], 1 .. t)
  <2>1. CASE a = T
        BY <2>1
  <2>2. CASE a \in N
        BY <2>2 DEF NodeFine
  <2>3. CASE a # T /\ a \notin N
    <3>1. a \in DOMAIN heap /\ heap'[a] = heap[a] /\ 1 .. top \subseteq 1 .. t
          BY <1>1, <1>12, <2>3
    <3> QED BY <1>1, <3>1, NodeMore
  <2> QED BY <2>1, <2>2, <2>3
<1>13. DOMAIN heap' \subseteq 1 .. t
  <2>1. 1 .. top \subseteq 1 .. t
        BY <1>1
  <2> QED BY <1>1, <1>3, <2>1
<1>14. Hung(heap', root')
       BY <1>10, <1>11 DEF Hung
<1> QED BY <1>12, <1>13, <1>14 DEF TreeInv

(* The same without a new leaf.                                            *)
LEMMA Rewrite ==
  ASSUME IInv, root # Null, NEW T, T = Target(link),
         DOMAIN heap' = DOMAIN heap,
         \A a \in DOMAIN heap \ {T} : heap'[a] = heap[a],
         NodeFine(heap'[T], 1 .. top),
         Hold(heap', root', T) \subseteq Hold(heap, root, T),
         root' = root
  PROVE  TreeInv(heap', root', top)
<1>1. PICK N : N = {}
      OBVIOUS
<1>2. top \in Nat /\ top >= top
      BY DEF IInv, TreeInv
<1>3. /\ DOMAIN heap' = DOMAIN heap \cup N /\ N \subseteq top + 1 .. top
      /\ Hold(heap', root', T) \subseteq Hold(heap, root, T) \cup N
      /\ \A a \in N : LeafFine(heap'[a])
      BY <1>1
<1> QED BY <1>2, <1>3, Sprout

(* insert() returns with the tree in order.                                *)
LEMMA Returned ==
  ASSUME IInv, pc = "insert", Return, TreeInv(heap', root', top')
  PROVE  IInv'
<1>1. key \in Keys /\ inserts \in [Keys -> Nat]
      BY DEF IInv, WalkInv
<1>2. inserts' \in [Keys -> Nat]
      BY <1>1 DEF Return
<1>3. WalkInv'
  <2>1. 0 \in 0 .. Len(<<>>)
        OBVIOUS
  <2> QED BY <2>1 DEF Return, WalkInv, LinkFine
<1> QED BY <1>2, <1>3 DEF IInv

-----------------------------------------------------------------------------
(* The actions, one by one.                                                *)

LEMMA InitOK == Init => IInv
<1> SUFFICES ASSUME Init PROVE IInv
    OBVIOUS
<1>1. TreeInv(heap, root, top)
  <2>1. DOMAIN heap = {} /\ root = Null /\ top = 0
        BY DEF Init
  <2>2. \A o \in Owners(heap) : Hold(heap, root, o) = {}
        BY <2>1 DEF Owners, Hold
  <2> QED BY <2>1, <2>2 DEF TreeInv, Hung, Owners
<1>2. WalkInv
  <2>1. 0 \in 0 .. Len(<<>>)
        OBVIOUS
  <2> QED BY <2>1 DEF Init, WalkInv, LinkFine
<1>3. inserts \in [Keys -> Nat]
      BY DEF Init
<1> QED BY <1>1, <1>2, <1>3 DEF IInv

LEMMA StartOK ==
  ASSUME IInv, NEW k \in Keys, Start(k)
  PROVE  IInv'
<1>1. UNCHANGED <<heap, top, root, link, depth, inserts>> /\ key' = k /\ pc' = "insert"
      /\ link = RootLink /\ depth = 0
      BY DEF Start, IInv, WalkInv
<1>2. Len(k) \in Nat
      BY TreeAssumption, LenProperties
<1>3. WalkInv'
      BY <1>1, <1>2 DEF WalkInv, LinkFine
<1>4. TreeInv(heap, root, top)' /\ (inserts \in [Keys -> Nat])'
      BY <1>1 DEF IInv
<1> QED BY <1>3, <1>4 DEF IInv

LEMMA AbortOK ==
  ASSUME IInv, pc = "insert", Abort
  PROVE  IInv'
<1>1. UNCHANGED <<heap, top, root, key, link, depth, inserts>> /\ pc' = "aborted"
      BY DEF Abort
<1>2. WalkInv'
      BY <1>1 DEF IInv, WalkInv, LinkFine
<1>3. TreeInv(heap, root, top)' /\ (inserts \in [Keys -> Nat])'
      BY <1>1 DEF IInv
<1> QED BY <1>2, <1>3 DEF IInv

LEMMA InsertRootOK ==
  ASSUME IInv, InsertRoot
  PROVE  IInv' /\ Gain /\ Return
<1> DEFINE a == top + 1
<1>1. /\ pc = "insert" /\ root = Null /\ link = RootLink /\ top' = a
      /\ root' = a /\ heap' = Nodes([x \in {a} |-> MakeLeaf(key)])
      BY DEF InsertRoot, IInv, WalkInv, Replace
<1>2. /\ Null \notin Nat /\ top \in Nat /\ DOMAIN heap \subseteq 1 .. top
      /\ \A x \in DOMAIN heap : NodeFine(heap[x], 1 .. top)
      /\ Hung(heap, root) /\ key \in Keys
      BY <1>1, TreeAssumption DEF IInv, TreeInv, WalkInv
<1>3. /\ a \in 1 .. a /\ a \notin DOMAIN heap /\ a # Null /\ a \in Nat
      /\ 1 .. top \subseteq 1 .. a
      BY <1>2
<1> HIDE DEF a
<1>4. /\ DOMAIN heap' = DOMAIN heap \cup {a} /\ heap'[a] = MakeLeaf(key)
      /\ \A x \in DOMAIN heap : heap'[x] = heap[x]
      BY <1>1, <1>3 DEF Nodes
<1>5. /\ \A C : NodeFine(MakeLeaf(key), C)
      /\ Hold(heap', root', a) = {}
      BY <1>2, <1>3, <1>4, MakeLeafFine
<1>6. ASSUME NEW x \in DOMAIN heap'
      PROVE  NodeFine(heap'[x], 1 .. a)
  <2>1. CASE x = a
        BY <1>4, <1>5, <2>1
  <2>2. CASE x # a
    <3>1. PICK few : few = 1 .. top
          OBVIOUS
    <3>2. PICK more : more = 1 .. a
          OBVIOUS
    <3>3. few \subseteq more
          BY <1>3, <3>1, <3>2
    <3>4. NodeFine(heap'[x], few)
          BY <1>2, <1>4, <2>2, <3>1
    <3>5. NodeFine(heap'[x], more)
          BY <3>3, <3>4, NodeMore, SMT
    <3> QED BY <3>2, <3>5
  <2> QED BY <2>1, <2>2
<1>7. /\ Hold(heap', root', Null) = {a}
      /\ \A o \in DOMAIN heap : o # Null /\ Hold(heap', root', o) = Hold(heap, root, o)
  <2>1. \A o \in DOMAIN heap : o \in Nat
        BY <1>2
  <2> QED BY <1>1, <1>2, <1>3, <1>4, <2>1 DEF Hold
<1>8. /\ \A o \in DOMAIN heap : Hold(heap, root, o) \subseteq DOMAIN heap \ {o}
      /\ \A o, u \in DOMAIN heap :
           o # u => Hold(heap, root, o) \cap Hold(heap, root, u) = {}
      BY <1>2 DEF Hung, Owners
<1>9. Owners(heap') = DOMAIN heap \cup {a, Null}
      BY <1>4 DEF Owners
<1>10. Hung(heap', root')
  <2>1. ASSUME NEW o \in Owners(heap')
        PROVE  Hold(heap', root', o) \subseteq DOMAIN heap' \ {o}
        BY <1>3, <1>4, <1>5, <1>7, <1>8, <1>9
  <2>2. ASSUME NEW o \in Owners(heap'), NEW u \in Owners(heap'), o # u
        PROVE  Hold(heap', root', o) \cap Hold(heap', root', u) = {}
    <3>1. CASE o = a \/ u = a
          BY <1>5, <3>1
    <3>2. CASE o \in DOMAIN heap /\ u \in DOMAIN heap
          BY <1>7, <1>8, <2>2, <3>2
    <3>3. CASE o = Null /\ u \in DOMAIN heap
          BY <1>3, <1>7, <1>8, <3>3
    <3>4. CASE o \in DOMAIN heap /\ u = Null
          BY <1>3, <1>7, <1>8, <3>4
    <3> QED BY <1>9, <2>2, <3>1, <3>2, <3>3, <3>4
  <2> QED BY <2>1, <2>2 DEF Hung
<1>11. DOMAIN heap' \subseteq 1 .. a
       BY <1>2, <1>3, <1>4
<1>12. TreeInv(heap', root', top')
       BY <1>1, <1>3, <1>6, <1>10, <1>11 DEF TreeInv
<1>13. Gain
  <2>1. IsLeaf(MakeLeaf(key))
        BY DEF MakeLeaf, IsLeaf
  <2>2. NewLeaf(a)
        BY <1>3, <1>4, <2>1 DEF NewLeaf, Leaves, Kept
  <2> QED BY <1>4, <2>2 DEF Gain
<1> QED BY <1>1, <1>12, <1>13, Returned DEF InsertRoot

(* The node under the link counts one more.                                *)
LEMMA CountOK ==
  ASSUME IInv, root # Null, pc = "insert", NEW T, T = Target(link),
         heap' = [heap EXCEPT ![T].count = @ + 1], UNCHANGED <<top, root>>, Return
  PROVE  /\ IInv'
         /\ IsLeaf(heap[T]) /\ heap[T].key_len = Len(key) => Gain
         /\ ~ IsLeaf(heap[T]) => Gain
<1>1. /\ T \in DOMAIN heap /\ T # Null /\ NodeFine(heap[T], 1 .. top) /\ top \in Nat
      BY Holder, TreeAssumption DEF IInv, TreeInv
<1>2. PICK m : m = [heap[T] EXCEPT !.count = @ + 1]
      OBVIOUS
<1>3. heap' = [heap EXCEPT ![T] = m]
      BY <1>1, <1>2, Zenon
<1>4. /\ DOMAIN heap' = DOMAIN heap /\ heap'[T] = m
      /\ \A a \in DOMAIN heap \ {T} : heap'[a] = heap[a]
      BY <1>1, <1>3
<1>7. ASSUME NodeFine(heap'[T], 1 .. top),
             Hold(heap', root', T) \subseteq Hold(heap, root, T)
      PROVE  IInv'
  <2>1. TreeInv(heap', root', top)
        BY <1>4, <1>7, Rewrite
  <2>2. top' = top
        OBVIOUS
  <2> QED BY <2>1, <2>2, Returned
<1>5. CASE IsLeaf(heap[T])
  <2>1. PICK k \in Keys, c \in Nat :
          heap[T] = [flags |-> "LEAF", key_len |-> Len(k), key |-> k, arr |-> <<>>,
                     prefix |-> <<>>, count |-> c]
        BY <1>1, <1>5, NodeKinds DEF LeafFine
  <2>2. m = [flags |-> "LEAF", key_len |-> Len(k), key |-> k, arr |-> <<>>,
             prefix |-> <<>>, count |-> c + 1]
        BY <1>2, <2>1
  <2>3. LeafFine(m)
    <3>1. c + 1 \in Nat
          OBVIOUS
    <3> QED BY <2>2, <3>1, Zenon DEF LeafFine
  <2>4. Hold(heap', root', T) = {}
        BY <1>1, <1>4, <2>3, LeafFields DEF Hold
  <2>5. IInv'
        BY <1>4, <1>7, <2>3, <2>4 DEF NodeFine
  <2>6. ASSUME heap[T].key_len = Len(key) PROVE Gain
    <3>1. m.count = heap[T].count + 1 /\ m.key_len = heap[T].key_len /\ IsLeaf(m)
          BY <2>1, <2>2, <2>3, LeafFields
    <3>2. HitLeaf(T)
          BY <1>1, <1>4, <1>5, <2>6, <3>1 DEF HitLeaf, Leaves
    <3> QED BY <1>1, <1>4, <3>2 DEF Gain
  <2> QED BY <1>5, <2>5, <2>6
<1>6. CASE ~ IsLeaf(heap[T])
  <2>1. InnerFine(heap[T], 1 .. top)
        BY <1>1, <1>6, NodeKinds
  <2>2. /\ heap[T] = [flags |-> heap[T].flags, key_len |-> heap[T].key_len,
                      key |-> heap[T].key, arr |-> heap[T].arr,
                      prefix |-> heap[T].prefix, count |-> heap[T].count]
        /\ heap[T].prefix \in Seq(Byte) /\ heap[T].count \in Nat
        BY <2>1, InnerFields DEF InnerFine
  <2>3. m = [flags |-> heap[T].flags, key_len |-> heap[T].key_len,
             key |-> heap[T].key, arr |-> heap[T].arr,
             prefix |-> heap[T].prefix, count |-> heap[T].count + 1]
        BY <1>2, <2>2
  <2>4. /\ IsInnerNode(m, 1 .. top) /\ Layout(m) /\ m.prefix = heap[T].prefix
        /\ \A x : Child(m, x) = Child(heap[T], x)
    <3>1. heap[T].count + 1 \in Nat /\ IsInnerNode(heap[T], 1 .. top)
          /\ Layout(heap[T])
          BY <2>1, <2>2 DEF InnerFine
    <3>2. PICK N \in Nat : N = heap[T].count + 1
          BY <3>1
    <3>3. m.prefix = heap[T].prefix
          BY <2>3
    <3> QED BY <2>2, <2>3, <3>1, <3>2, <3>3, OtherFields
  <2>5. InnerFine(m, 1 .. top) /\ ~ IsLeaf(m)
        BY <2>1, <2>4, InnerFields DEF InnerFine, Single
  <2>6. Hold(heap', root', T) = Hold(heap, root, T)
        BY <1>1, <1>4, <1>6, <2>4, <2>5 DEF Hold, Kids
  <2>7. IInv'
        BY <1>4, <1>7, <2>5, <2>6 DEF NodeFine
  <2>8. SameLeaves
        BY <1>1, <1>4, <1>6, <2>5 DEF SameLeaves, Leaves, Kept
  <2> QED BY <1>6, <2>7, <2>8 DEF Gain
<1> QED BY <1>5, <1>6

LEMMA LeafHitOK ==
  ASSUME IInv, LeafHit
  PROVE  IInv' /\ Gain /\ Return
<1>1. IsLeaf(heap[Target(link)]) /\ heap[Target(link)].key_len = Len(key)
      BY DEF LeafHit, AtLeaf, Cur, SameKey
<1>2. Return
      BY DEF LeafHit
<1> QED BY <1>1, <1>2, CountOK DEF LeafHit, AtLeaf

LEMMA ConsumedOK ==
  ASSUME IInv, Consumed
  PROVE  IInv' /\ Gain /\ Return
<1>1. ~ IsLeaf(heap[Target(link)]) /\ Return
      BY DEF Consumed, AtInner, Cur
<1> QED BY <1>1, CountOK DEF Consumed, AtInner

LEMMA DescendOK ==
  ASSUME IInv, Descend
  PROVE  IInv'
<1> DEFINE T == Target(link)
           n == heap[T]
           b == ByteAt(key, DepthAfter)
<1>1. /\ pc = "insert" /\ root # Null /\ ~ IsLeaf(n) /\ DepthAfter < Len(key)
      /\ Child(n, b) # Null /\ link' = [parent |-> T, slot |-> FindChild(n, b)]
      /\ depth' = DepthAfter + 1
      /\ UNCHANGED <<heap, top, root, pc, key, inserts>>
      BY DEF Descend, AtInner, Cur
<1>2. T \in DOMAIN heap /\ NodeFine(n, 1 .. top) /\ key \in Keys
      /\ depth \in 0 .. Len(key)
      BY <1>1, Holder DEF IInv, TreeInv, WalkInv
<1>3. n.prefix \in Seq(Byte) /\ key \in Seq(Byte)
      BY <1>2, NodeKinds, TreeAssumption
<1>4. Len(n.prefix) \in Nat /\ Len(key) \in Nat
      BY <1>3, LenProperties
<1>5. DepthAfter \in Nat
      BY <1>2, <1>4 DEF DepthAfter, Cur
<1>6. b \in Byte /\ depth' \in 0 .. Len(key)
      BY <1>1, <1>3, <1>4, <1>5, ByteAtType
<1>7. LinkFine(link', heap)
      BY <1>1, <1>2, <1>6 DEF LinkFine
<1>8. LinkFine(link, heap)'
      BY <1>1, <1>7 DEF LinkFine
<1>9. WalkInv'
      BY <1>1, <1>2, <1>6, <1>8 DEF WalkInv
<1>10. TreeInv(heap, root, top)' /\ (inserts \in [Keys -> Nat])'
       BY <1>1 DEF IInv
<1> QED BY <1>9, <1>10 DEF IInv

(* A child is added to a node of the tree, which may have lost its prefix. *)
LEMMA AddedFine ==
  ASSUME NEW C, NEW n, InnerFine(n, C), Null \notin C, ~ IsFull(n),
         NEW b \in Byte, Child(n, b) = Null, NEW c \in C, c \notin Kids(n)
  PROVE  /\ AddChildAsserts(n, b)
         /\ InnerFine(AddChild(n, b, c), C)
         /\ Kids(AddChild(n, b, c)) = Kids(n) \cup {c}
         /\ ~ IsLeaf(AddChild(n, b, c))
<1>1. /\ AddChildAsserts(n, b)
      /\ IsInnerNode(AddChild(n, b, c), C)
      /\ Layout(AddChild(n, b, c))
      /\ Single(AddChild(n, b, c))
      /\ Kids(AddChild(n, b, c)) = Kids(n) \cup {c}
      BY AddKids DEF InnerFine
<1>2. AddChild(n, b, c).prefix = n.prefix
      BY AddFields DEF InnerFine
<1>3. ~ IsLeaf(AddChild(n, b, c))
      BY <1>1, InnerFields
<1>4. Len(n.prefix) <= PrefixSize
      BY DEF InnerFine
<1> QED BY <1>1, <1>2, <1>3, <1>4 DEF InnerFine

LEMMA RoomFine ==
  ASSUME NEW C, NEW n, InnerFine(n, C), Null \notin C
  PROVE  /\ IsFull(n) => GrowAsserts(n)
         /\ InnerFine(MakeRoom(n), C) /\ ~ IsFull(MakeRoom(n))
         /\ Kids(MakeRoom(n)) = Kids(n)
         /\ \A x \in Byte : Child(MakeRoom(n), x) = Child(n, x)
<1>1. IsInnerNode(n, C) /\ Layout(n) /\ Single(n) /\ Len(n.prefix) <= PrefixSize
      BY DEF InnerFine
<1>2. /\ IsFull(n) => GrowAsserts(n)
      /\ IsInnerNode(MakeRoom(n), C)
      /\ Layout(MakeRoom(n)) /\ ~ IsFull(MakeRoom(n))
      /\ \A x \in Byte : Child(MakeRoom(n), x) = Child(n, x)
      BY <1>1, MakeRoomOK
<1>3. Single(MakeRoom(n)) /\ Kids(MakeRoom(n)) = Kids(n)
      BY <1>1, RoomKids
<1>4. MakeRoom(n).prefix \in {n.prefix, <<>>}
      BY <1>1, RoomPrefix
<1>5. Len(MakeRoom(n).prefix) <= PrefixSize
      BY <1>1, <1>4, TreeAssumption
<1> QED BY <1>2, <1>3, <1>5 DEF InnerFine

(* The node of a split: room for two children, but not for two children    *)
(* of one byte.                                                            *)
LEMMA OneChild ==
  ASSUME NEW C, Null \notin C, NEW n, InnerFine(n, C), ~ IsFull(n), Kids(n) = {},
         n.flags = "INNER_4", n.key_len = 0, \A y \in Byte : Child(n, y) = Null,
         NEW b \in Byte, NEW x \in C
  PROVE  /\ InnerFine(AddChild(n, b, x), C) /\ ~ IsLeaf(AddChild(n, b, x))
         /\ ~ IsFull(AddChild(n, b, x)) /\ Kids(AddChild(n, b, x)) = {x}
         /\ \A y \in Byte : y # b => Child(AddChild(n, b, x), y) = Null
         /\ ~ AddChildAsserts(AddChild(n, b, x), b)
<1>1. IsInnerNode(n, C) /\ Layout(n)
      BY DEF InnerFine
<1>2. PICK h : h = AddChild(n, b, x)
      OBVIOUS
<1>3. InnerFine(h, C) /\ Kids(h) = {x} /\ ~ IsLeaf(h)
      BY <1>2, AddedFine
<1>4. \A y \in Byte : Child(h, y) = IF y = b THEN x ELSE Child(n, y)
      BY <1>1, <1>2, AddChildOK
<1>5. h.flags = "INNER_4" /\ h.key_len = 1
      BY <1>1, <1>2, AddFields DEF Sparse
<1>6. ~ IsFull(h)
      BY <1>5, Sizes, TreeAssumption DEF IsFull
<1>7. ASSUME AddChildAsserts(h, b) PROVE FALSE
  <2>1. h.flags \in Sparse /\ h.flags # "INNER_48" /\ h.flags # "INNER_256"
        BY <1>5 DEF Sparse
  <2>2. \A i \in Used(h) : h.key[i] # b
        BY <1>7, <2>1 DEF AddChildAsserts
  <2>3. FindChild(h, b) = NoSlot
        BY <2>1, <2>2 DEF FindChild
  <2>4. Child(h, b) = Null
        BY <2>3 DEF Child
  <2> QED BY <1>4, <2>4
<1> QED BY <1>2, <1>3, <1>4, <1>6, <1>7

LEMMA SplitFine ==
  ASSUME NEW C, Null \notin C, NEW p \in Seq(Byte), Len(p) <= PrefixSize
  PROVE  \E n :
           /\ n = [AllocNode("INNER_4") EXCEPT !.prefix = p]
           /\ InnerFine(n, C) /\ Kids(n) = {} /\ ~ IsLeaf(n) /\ ~ IsFull(n)
           /\ \A y \in Byte : Child(n, y) = Null
           /\ n.flags = "INNER_4" /\ n.key_len = 0
<1>1. PICK n : n = [AllocNode("INNER_4") EXCEPT !.prefix = p]
      OBVIOUS
<1>2. /\ IsInnerNode(n, C) /\ Layout(n) /\ Single(n) /\ Kids(n) = {}
      /\ n.flags = "INNER_4" /\ n.key_len = 0 /\ ~ IsFull(n)
      /\ n.prefix = p /\ \A y \in Byte : Child(n, y) = Null
      BY <1>1, AllocKids
<1>3. InnerFine(n, C) /\ ~ IsLeaf(n)
      BY <1>2, InnerFields DEF InnerFine
<1> QED BY <1>1, <1>2, <1>3

(* The bytes the walk has consumed by the end of a prefix.                 *)
LEMMA WalkBytes ==
  ASSUME IInv, root # Null, pc = "insert", ~ IsLeaf(Cur)
  PROVE  /\ Cur.prefix \in Seq(Byte) /\ Len(Cur.prefix) \in Nat
         /\ DepthAfter \in Nat /\ key \in Keys /\ key \in Seq(Byte)
         /\ Len(key) \in Nat /\ depth \in 0 .. Len(key)
         /\ InnerFine(Cur, 1 .. top)
<1>1. /\ Target(link) \in DOMAIN heap /\ NodeFine(Cur, 1 .. top)
      /\ key \in Keys /\ depth \in 0 .. Len(key)
      BY Holder DEF IInv, TreeInv, WalkInv, Cur
<1>2. /\ InnerFine(Cur, 1 .. top) /\ Cur.prefix \in Seq(Byte) /\ key \in Seq(Byte)
      BY <1>1, NodeKinds, TreeAssumption
<1>3. Len(Cur.prefix) \in Nat /\ Len(key) \in Nat
      BY <1>2, LenProperties
<1>4. DepthAfter \in Nat
      BY <1>1, <1>3 DEF DepthAfter
<1> QED BY <1>1, <1>2, <1>3, <1>4

LEMMA AddLeafOK ==
  ASSUME IInv, AddLeaf
  PROVE  IInv' /\ Gain /\ Return
<1> DEFINE node == Cur
           b    == ByteAt(key, DepthAfter)
           leaf == top + 1
           old  == Target(link)
           grown == top + 2
           room == MakeRoom(node)
<1>1. /\ pc = "insert" /\ root # Null /\ ~ IsLeaf(node) /\ Child(node, b) = Null
      /\ DepthAfter < Len(key)
      BY DEF AddLeaf, AtInner
<1>2. /\ key \in Keys /\ InnerFine(node, 1 .. top) /\ b \in Byte
      /\ top \in Nat /\ old \in DOMAIN heap /\ old # Null /\ Null \notin Nat
      /\ DOMAIN heap \subseteq 1 .. top /\ node = heap[old]
      BY <1>1, WalkBytes, ByteAtType, Holder, TreeAssumption DEF IInv, TreeInv, Cur
<1>3. /\ leaf \in Nat /\ grown \in Nat /\ leaf \notin 1 .. top
      /\ grown \notin 1 .. top /\ leaf # grown /\ leaf >= top /\ grown >= top
      /\ leaf \in top + 1 .. leaf /\ {leaf, grown} \subseteq top + 1 .. grown
      /\ 1 .. top \subseteq 1 .. leaf /\ 1 .. leaf \subseteq 1 .. grown
      /\ leaf \in 1 .. leaf /\ 1 .. leaf \subseteq Nat
      BY <1>2
<1>4. InnerFine(node, 1 .. leaf) /\ Null \notin 1 .. leaf /\ Kids(node) \subseteq 1 .. top
  <2>1. Kids(node) \subseteq 1 .. top
    <3>1. Null \notin 1 .. top
          BY <1>2, <1>3
    <3> QED BY <1>2, <3>1, KidsType DEF InnerFine
  <2> QED BY <1>2, <1>3, <2>1, InnerMore DEF InnerFine
<1> HIDE DEF node, b, leaf, old, grown
<1>5. /\ IsFull(node) => GrowAsserts(node)
      /\ InnerFine(room, 1 .. leaf) /\ ~ IsFull(room) /\ Kids(room) = Kids(node)
      /\ Child(room, b) = Null
      BY <1>1, <1>2, <1>4, RoomFine
<1>6. leaf \notin Kids(room)
      BY <1>3, <1>4, <1>5
<1> DEFINE new == AddChild(room, b, leaf)
<1>7. /\ AddChildAsserts(room, b) /\ InnerFine(new, 1 .. leaf)
      /\ Kids(new) = Kids(node) \cup {leaf} /\ ~ IsLeaf(new)
      BY <1>2, <1>3, <1>4, <1>5, <1>6, AddedFine
<1> HIDE DEF room, new
<1>8. Hold(heap, root, old) = Kids(node)
      BY <1>1, <1>2 DEF Hold
<1>9. CASE ~ IsFull(node)
  <2>1. /\ heap' = Nodes([a \in {leaf, old} |-> IF a = leaf THEN MakeLeaf(key) ELSE new])
        /\ top' = leaf /\ root' = root /\ Return
        BY <1>5, <1>7, <1>9 DEF AddLeaf, node, b, leaf, old, room, new
  <2>2. leaf # old /\ leaf \notin DOMAIN heap
        BY <1>2, <1>3
  <2>3. /\ DOMAIN heap' = DOMAIN heap \cup {leaf}
        /\ \A a \in DOMAIN heap \ {old} : heap'[a] = heap[a]
        /\ heap'[old] = new /\ heap'[leaf] = MakeLeaf(key)
        BY <1>2, <2>1, <2>2 DEF Nodes
  <2>4. /\ NodeFine(heap'[old], 1 .. leaf)
        /\ Hold(heap', root', old) = Hold(heap, root, old) \cup {leaf}
        /\ \A a \in {leaf} : LeafFine(heap'[a])
        BY <1>2, <1>7, <1>8, <2>3, MakeLeafFine DEF NodeFine, Hold
  <2>5. TreeInv(heap', root', leaf)
    <3>1. PICK N : N = {leaf}
          OBVIOUS
    <3>2. /\ DOMAIN heap' = DOMAIN heap \cup N /\ N \subseteq top + 1 .. leaf
          /\ Hold(heap', root', old) \subseteq Hold(heap, root, old) \cup N
          /\ \A a \in N : LeafFine(heap'[a])
          BY <1>3, <2>3, <2>4, <3>1
    <3> QED BY <1>1, <1>3, <2>1, <2>3, <2>4, <3>2, Sprout DEF old
  <2>6. Gain
    <3>1. /\ IsLeaf(MakeLeaf(key)) /\ ~ IsLeaf(heap[old])
          BY <1>1, <1>2 DEF MakeLeaf, IsLeaf
    <3>2. NewLeaf(leaf)
          BY <1>2, <1>7, <2>2, <2>3, <3>1 DEF NewLeaf, Leaves, Kept
    <3> QED BY <2>3, <3>2 DEF Gain
  <2> QED BY <1>1, <2>1, <2>5, <2>6, Returned
<1>10. CASE IsFull(node)
  <2> DEFINE h == Nodes([a \in {leaf, grown} |-> IF a = leaf THEN MakeLeaf(key) ELSE new])
             g == [a \in DOMAIN h \ {old} |-> h[a]]
             N == {leaf, grown}
             D == {old}
  <2>1. Replace(g, grown) /\ top' = grown /\ Return
        BY <1>5, <1>7, <1>10 DEF AddLeaf, node, b, leaf, old, room, new, grown
  <2>2. /\ DOMAIN h = DOMAIN heap \cup N /\ h[leaf] = MakeLeaf(key) /\ h[grown] = new
        /\ \A a \in DOMAIN heap : h[a] = heap[a]
    <3>1. leaf \notin DOMAIN heap /\ grown \notin DOMAIN heap
          BY <1>2, <1>3
    <3> QED BY <1>3, <3>1 DEF Nodes
  <2>3. leaf # old /\ grown # old /\ leaf # Null /\ grown # Null
        BY <1>2, <1>3
  <2> HIDE DEF h
  <2>4. /\ DOMAIN g = (DOMAIN heap \cup N) \ D
        /\ g[leaf] = MakeLeaf(key) /\ g[grown] = new
        /\ \A a \in DOMAIN heap \ {old} : g[a] = heap[a]
        /\ (N \cup {old}) \ D = {leaf, grown}
        BY <2>2, <2>3
  <2>5. Hold(g, root, leaf) = {} /\ Hold(g, root, grown) = Kids(node) \cup {leaf}
        BY <1>2, <1>7, <2>3, <2>4, MakeLeafFine DEF Hold
  <2>6. NodeFine(g[leaf], 1 .. grown) /\ NodeFine(g[grown], 1 .. grown)
    <3>1. NodeFine(new, 1 .. leaf)
          BY <1>7 DEF NodeFine
    <3>2. NodeFine(new, 1 .. grown)
          BY <1>3, <3>1, NodeMore
    <3> QED BY <1>2, <2>4, <3>2, MakeLeafFine
  <2>7. grown \notin Kids(node)
        BY <1>3, <1>4
  <2> HIDE DEF g
  <2>8. \A a \in (N \cup {old}) \ D :
          /\ NodeFine(g[a], 1 .. grown)
          /\ Hold(g, root, a) \subseteq
               (Hold(heap, root, old) \cup N \cup ({old} \ D)) \ {grown, a}
        BY <1>3, <1>8, <2>4, <2>5, <2>6, <2>7
  <2>9. \A a, u \in (N \cup {old}) \ D :
          a # u => Hold(g, root, a) \cap Hold(g, root, u) = {}
        BY <2>4, <2>5
  <2>10. N \subseteq top + 1 .. grown /\ grown \in N /\ D \subseteq {old}
         BY <1>3
  <2>11. DOMAIN g = (DOMAIN heap \cup N) \ D
         BY <2>4
  <2>12. \A a \in DOMAIN heap \ {old} : g[a] = heap[a]
         BY <2>4
  <2> HIDE DEF N, D
  <2>13. TreeInv(heap', root', grown)
         BY <1>1, <1>3, <2>1, <2>8, <2>9, <2>10, <2>11, <2>12, Graft DEF old
  <2>14. Gain
    <3>1. /\ IsLeaf(MakeLeaf(key)) /\ ~ IsLeaf(heap[old]) /\ leaf \notin DOMAIN heap
          BY <1>1, <1>2, <1>3 DEF MakeLeaf, IsLeaf
    <3>2. /\ DOMAIN heap' = DOMAIN g /\ Leaves(heap') = Leaves(g)
          /\ \A a \in Leaves(g) : heap'[a] = g[a]
      <4>1. grown \in 1 .. grown /\ grown \notin DOMAIN heap
            BY <1>2, <1>3
      <4>2. DOMAIN heap \subseteq DOMAIN g \cup {old}
            BY <2>11 DEF D
      <4> QED BY <1>1, <1>3, <2>1, <2>12, <4>1, <4>2, ReplaceLeaves DEF old
    <3>3. DOMAIN g = (DOMAIN heap \ {old}) \cup {leaf, grown}
          BY <2>3, <2>11 DEF N, D
    <3>4. Leaves(g) = Leaves(heap) \cup {leaf}
          BY <1>7, <2>4, <3>1, <3>3 DEF Leaves
    <3>5. NewLeaf(leaf)
          BY <1>2, <2>4, <3>1, <3>2, <3>4 DEF NewLeaf, Leaves, Kept
    <3> QED BY <3>2, <3>3, <3>5 DEF Gain
  <2> QED BY <1>1, <2>1, <2>13, <2>14, Returned
<1> QED BY <1>9, <1>10

LEMMA PrefixMismatchOK ==
  ASSUME IInv, PrefixMismatch
  PROVE  IInv' /\ ((Return /\ Gain) \/ (Abort /\ AbortsPastKeyEnd'))
<1> DEFINE node  == Cur
           m     == CheckPrefix(node, key, depth)
           leaf  == top + 1
           split == top + 2
           old   == Target(link)
           bare  == [AllocNode("INNER_4") EXCEPT !.prefix = SubSeq(node.prefix, 1, m)]
           b     == ByteAt(key, depth + m)
           c     == node.prefix[m + 1]
           half  == AddChild(bare, b, leaf)
           full  == AddChild(half, c, old)
           rest  == [node EXCEPT !.prefix = PrefixRest(@, m)]
<1>1. /\ pc = "insert" /\ root # Null /\ ~ IsLeaf(node) /\ m # Len(node.prefix)
      BY DEF PrefixMismatch, AtInner
<1>2. /\ key \in Keys /\ key \in Seq(Byte) /\ InnerFine(node, 1 .. top)
      /\ top \in Nat /\ old \in DOMAIN heap /\ old # Null /\ Null \notin Nat
      /\ DOMAIN heap \subseteq 1 .. top /\ node = heap[old]
      /\ node.prefix \in Seq(Byte) /\ Len(node.prefix) \in Nat
      /\ depth \in 0 .. Len(key) /\ Len(key) \in Nat
      BY <1>1, WalkBytes, Holder, TreeAssumption DEF IInv, TreeInv, Cur
<1>3. /\ m \in Nat /\ m < Len(node.prefix) /\ depth + m <= Len(key)
      /\ depth + m < Len(key) => c # b
  <2> HIDE DEF node
  <2>1. /\ m \in Nat /\ m <= Len(node.prefix) /\ depth + m <= Len(key)
        /\ m < Len(node.prefix) /\ depth + m < Len(key) =>
             node.prefix[m + 1] # ByteAt(key, depth + m)
        BY <1>2, PrefixOK
  <2> HIDE DEF m
  <2> QED BY <1>1, <1>2, <2>1
<1>4. /\ leaf \in Nat /\ split \in Nat /\ leaf \notin 1 .. top
      /\ split \notin 1 .. top /\ leaf # split /\ split >= top
      /\ {leaf, split} \subseteq top + 1 .. split
      /\ 1 .. top \subseteq 1 .. split /\ leaf \in 1 .. split /\ 1 .. split \subseteq Nat
      BY <1>2
<1>5. /\ b \in Byte /\ c \in Byte
  <2>1. depth + m \in Nat
        BY <1>2, <1>3
  <2>2. m + 1 \in 1 .. Len(node.prefix)
        BY <1>2, <1>3
  <2> QED BY <1>2, <2>1, <2>2, ByteAtType, ElementOfSeq
<1>6. /\ SubSeq(node.prefix, 1, m) \in Seq(Byte)
      /\ Len(SubSeq(node.prefix, 1, m)) <= PrefixSize
      /\ PrefixRest(node.prefix, m) \in Seq(Byte)
      /\ Len(PrefixRest(node.prefix, m)) <= PrefixSize
  <2>1. Len(node.prefix) <= PrefixSize
        BY <1>2 DEF InnerFine
  <2>2. PICK prefix, length : prefix = node.prefix /\ length = m
        OBVIOUS
  <2>3. /\ prefix \in Seq(Byte) /\ Len(prefix) \in Nat /\ Len(prefix) <= PrefixSize
        /\ length \in Nat /\ length < Len(prefix)
        BY <1>2, <1>3, <2>1, <2>2
  <2>4. \A i \in 1 .. Len(prefix) : prefix[i] \in Byte
        BY <2>3, ElementOfSeq
  <2>5. ASSUME NEW lo \in Nat \ {0}, NEW hi \in Nat, hi <= Len(prefix)
        PROVE  /\ SubSeq(prefix, lo, hi) \in Seq(Byte)
               /\ Len(SubSeq(prefix, lo, hi)) <= PrefixSize
    <3>1. \A i \in lo .. hi : prefix[i] \in Byte
          BY <2>3, <2>4, <2>5
    <3>2. /\ SubSeq(prefix, lo, hi) \in Seq(Byte)
          /\ Len(SubSeq(prefix, lo, hi)) = IF lo <= hi THEN hi - lo + 1 ELSE 0
          BY <3>1, SubSeqProperties
    <3>3. PrefixSize \in Nat
          BY TreeAssumption
    <3>4. (IF lo <= hi THEN hi - lo + 1 ELSE 0) <= PrefixSize
          BY <2>3, <2>5, <3>3
    <3> QED BY <3>2, <3>4
  <2>6. /\ SubSeq(prefix, 1, length) \in Seq(Byte)
        /\ Len(SubSeq(prefix, 1, length)) <= PrefixSize
    <3>1. length \in Nat /\ length <= Len(prefix)
          BY <2>3
    <3> QED BY <2>5, <3>1
  <2>7. /\ PrefixRest(prefix, length) \in Seq(Byte)
        /\ Len(PrefixRest(prefix, length)) <= PrefixSize
    <3>1. length + 2 \in Nat \ {0} /\ Len(prefix) \in Nat /\ Len(prefix) <= Len(prefix)
          BY <2>3
    <3> QED BY <2>5, <3>1 DEF PrefixRest
  <2> QED BY <2>2, <2>6, <2>7
<1>7. Kids(node) \subseteq 1 .. top
  <2>1. Null \notin 1 .. top
        BY <1>2, <1>4
  <2> QED BY <1>2, <2>1, KidsType DEF InnerFine
<1>8. Hold(heap, root, old) = Kids(node) /\ old \notin Kids(node)
  <2>1. Hold(heap, root, old) = Kids(node)
        BY <1>1, <1>2 DEF Hold
  <2> QED BY <1>2, <2>1 DEF IInv, TreeInv, Hung, Owners
<1> HIDE DEF node, m, leaf, split, old, b, c
<1>9. InnerFine(rest, 1 .. split) /\ ~ IsLeaf(rest) /\ Kids(rest) = Kids(node)
  <2>1. IsInnerNode(node, 1 .. split) /\ Layout(node) /\ Single(node)
        BY <1>2, <1>4, InnerMore DEF InnerFine
  <2>2. PICK r : r = rest
        OBVIOUS
  <2>3. PICK p : p = PrefixRest(node.prefix, m)
        OBVIOUS
  <2>4. /\ node = [flags |-> node.flags, key_len |-> node.key_len, key |-> node.key,
                   arr |-> node.arr, prefix |-> node.prefix, count |-> node.count]
        /\ node.count \in Nat
        BY <2>1, InnerFields
  <2>5. r = [node EXCEPT !.prefix = p]
        BY <2>2, <2>3
  <2>6. r = [flags |-> node.flags, key_len |-> node.key_len, key |-> node.key,
             arr |-> node.arr, prefix |-> p, count |-> node.count]
        BY <2>4, <2>5
  <2>7. p \in Seq(Byte) /\ Len(p) <= PrefixSize /\ r.prefix = p
        BY <1>6, <2>3, <2>6
  <2>8. /\ IsInnerNode(r, 1 .. split) /\ Layout(r)
        /\ \A x : FindChild(r, x) = FindChild(node, x) /\ Child(r, x) = Child(node, x)
        BY <2>1, <2>4, <2>6, <2>7, OtherFields
  <2>9. Single(r) /\ Kids(r) = Kids(node)
        BY <2>1, <2>8 DEF Single, Kids
  <2>10. ~ IsLeaf(r)
         BY <2>8, InnerFields
  <2> QED BY <2>2, <2>7, <2>8, <2>9, <2>10 DEF InnerFine
<1>10. /\ InnerFine(half, 1 .. split) /\ ~ IsLeaf(half) /\ ~ IsFull(half)
       /\ Kids(half) = {leaf}
       /\ \A y \in Byte : y # b => Child(half, y) = Null
       /\ ~ AddChildAsserts(half, b)
  <2>1. PICK p : p = SubSeq(node.prefix, 1, m)
        OBVIOUS
  <2>2. Null \notin 1 .. split /\ p \in Seq(Byte) /\ Len(p) <= PrefixSize
        BY <1>2, <1>4, <1>6, <2>1
  <2>3. PICK n :
          /\ n = [AllocNode("INNER_4") EXCEPT !.prefix = p]
          /\ InnerFine(n, 1 .. split) /\ Kids(n) = {} /\ ~ IsLeaf(n) /\ ~ IsFull(n)
          /\ \A y \in Byte : Child(n, y) = Null
          /\ n.flags = "INNER_4" /\ n.key_len = 0
        BY <2>2, SplitFine
  <2>4. half = AddChild(n, b, leaf)
        BY <2>1, <2>3
  <2>6. PICK C : C = 1 .. split
        OBVIOUS
  <2> HIDE DEF bare, half, full, rest
  <2>5. /\ InnerFine(n, C) /\ Kids(n) = {} /\ ~ IsFull(n)
        /\ \A y \in Byte : Child(n, y) = Null
        /\ n.flags = "INNER_4" /\ n.key_len = 0
        /\ leaf \in C /\ Null \notin C
        BY <1>4, <2>2, <2>3, <2>6
  <2>7. /\ InnerFine(half, C) /\ ~ IsLeaf(half) /\ ~ IsFull(half)
        /\ Kids(half) = {leaf}
        /\ \A y \in Byte : y # b => Child(half, y) = Null
        /\ ~ AddChildAsserts(half, b)
        BY <1>5, <2>4, <2>5, OneChild
  <2> QED BY <2>6, <2>7
<1> HIDE DEF bare, half, full, rest
<1>11. CASE ~ AddChildAsserts(half, c)
  <2>1. Abort
        BY <1>11 DEF PrefixMismatch, node, m, leaf, split, old, b, c, half, bare
  <2>2. c = b
    <3>1. SUFFICES ASSUME c # b PROVE AddChildAsserts(half, c)
          BY <1>11
    <3>2. Child(half, c) = Null
          BY <1>5, <1>10, <3>1
    <3>3. leaf \in 1 .. split /\ Null \notin 1 .. split
          BY <1>2, <1>4
    <3> QED BY <1>5, <1>10, <3>2, <3>3, AddChildOK DEF InnerFine
  <2>3. depth + m = Len(key)
        BY <1>2, <1>3, <2>2
  <2>4. b = 0
        BY <1>2, <2>3 DEF b, ByteAt
  <2>5. UNCHANGED <<heap, root, link, key, depth>>
        BY <2>1 DEF Abort
  <2>6. Cur' = node /\ CheckPrefix(Cur, key, depth)' = m
        BY <2>5 DEF Cur, Target, CheckPrefix, node, m
  <2>7. AbortsPastKeyEnd'
        BY <1>1, <1>3, <2>2, <2>3, <2>4, <2>5, <2>6 DEF AbortsPastKeyEnd, c
  <2> QED BY <1>1, <2>1, <2>7, AbortOK
<1>12. CASE AddChildAsserts(half, c)
  <2> DEFINE h == Nodes([a \in {leaf, split, old} |->
                           CASE a = leaf  -> MakeLeaf(key)
                             [] a = split -> full
                             [] a = old   -> rest])
             N == {leaf, split}
             D == {}
  <2>1. Replace(h, split) /\ top' = split /\ Return
        BY <1>12 DEF PrefixMismatch, node, m, leaf, split, old, b, c, half, bare, full, rest
  <2>2. c # b
        BY <1>10, <1>12
  <2>3. old \in 1 .. top /\ old \in 1 .. split /\ old # leaf /\ old # split
        BY <1>2, <1>4
  <2>4. InnerFine(full, 1 .. split) /\ Kids(full) = {leaf, old} /\ ~ IsLeaf(full)
    <3>1. Null \notin 1 .. split /\ Child(half, c) = Null /\ old \notin Kids(half)
          BY <1>2, <1>4, <1>5, <1>10, <2>2, <2>3
    <3>2. PICK C : C = 1 .. split
          OBVIOUS
    <3>3. InnerFine(half, C) /\ ~ IsFull(half) /\ Null \notin C /\ old \in C
          BY <1>10, <2>3, <3>1, <3>2
    <3>4. /\ InnerFine(full, C) /\ Kids(full) = Kids(half) \cup {old}
          /\ ~ IsLeaf(full)
          BY <1>5, <3>1, <3>3, AddedFine DEF full
    <3> QED BY <1>10, <3>2, <3>4
  <2>5. leaf # Null /\ split # Null /\ leaf \notin DOMAIN heap /\ split \notin DOMAIN heap
        BY <1>2, <1>4
  <2>6. /\ DOMAIN h = DOMAIN heap \cup N /\ h[leaf] = MakeLeaf(key)
        /\ h[split] = full /\ h[old] = rest
        /\ \A a \in DOMAIN heap \ {old} : h[a] = heap[a]
        BY <1>2, <1>4, <2>3, <2>5 DEF Nodes
  <2> HIDE DEF h
  <2>7. /\ Hold(h, root, leaf) = {} /\ Hold(h, root, split) = {leaf, old}
        /\ Hold(h, root, old) = Hold(heap, root, old)
        BY <1>2, <1>8, <1>9, <2>4, <2>5, <2>6, MakeLeafFine DEF Hold
  <2>8. /\ NodeFine(h[leaf], 1 .. split) /\ NodeFine(h[split], 1 .. split)
        /\ NodeFine(h[old], 1 .. split)
        BY <1>2, <1>9, <2>4, <2>6, MakeLeafFine DEF NodeFine
  <2>9. /\ leaf \notin Hold(heap, root, old) /\ split \notin Hold(heap, root, old)
        /\ old \notin Hold(heap, root, old)
        BY <1>4, <1>7, <1>8
  <2>10. (N \cup {old}) \ D = {leaf, split, old} /\ {old} \ D = {old}
         OBVIOUS
  <2>11. \A a \in (N \cup {old}) \ D :
           /\ NodeFine(h[a], 1 .. split)
           /\ Hold(h, root, a) \subseteq
                (Hold(heap, root, old) \cup N \cup ({old} \ D)) \ {split, a}
         BY <1>4, <2>3, <2>7, <2>8, <2>9, <2>10
  <2>12. \A a, u \in (N \cup {old}) \ D :
           a # u => Hold(h, root, a) \cap Hold(h, root, u) = {}
         BY <2>7, <2>9, <2>10
  <2>13. N \subseteq top + 1 .. split /\ split \in N /\ D \subseteq {old}
         BY <1>4
  <2>14. DOMAIN h = (DOMAIN heap \cup N) \ D
         BY <2>6
  <2>15. \A a \in DOMAIN heap \ {old} : h[a] = heap[a]
         BY <2>6
  <2> HIDE DEF N, D
  <2>16. TreeInv(heap', root', split)
         BY <1>1, <1>4, <2>1, <2>11, <2>12, <2>13, <2>14, <2>15, Graft DEF old
  <2>17. Gain
    <3>1. /\ IsLeaf(MakeLeaf(key)) /\ ~ IsLeaf(heap[old]) /\ ~ IsLeaf(rest)
          BY <1>1, <1>2, <1>9 DEF MakeLeaf, IsLeaf
    <3>2. /\ DOMAIN heap' = DOMAIN h /\ Leaves(heap') = Leaves(h)
          /\ \A a \in Leaves(h) : heap'[a] = h[a]
      <4>1. split \in 1 .. split /\ split \notin DOMAIN heap
            BY <1>2, <1>4
      <4>2. DOMAIN heap \subseteq DOMAIN h \cup {old}
            BY <2>14 DEF D
      <4> QED BY <1>1, <1>4, <2>1, <2>15, <4>1, <4>2, ReplaceLeaves DEF old
    <3>3. DOMAIN h = DOMAIN heap \cup {leaf, split} /\ h[old] = rest
          BY <2>6 DEF N
    <3>4. Leaves(h) = Leaves(heap) \cup {leaf}
          BY <1>2, <2>4, <2>6, <3>1, <3>3 DEF Leaves
    <3>5. NewLeaf(leaf)
          BY <1>2, <2>5, <2>6, <3>1, <3>2, <3>4 DEF NewLeaf, Leaves, Kept
    <3> QED BY <3>2, <3>3, <3>5 DEF Gain
  <2> QED BY <1>1, <2>1, <2>16, <2>17, Returned
<1> QED BY <1>11, <1>12

(* A node of the chain is a split node with its one child.                 *)
LEMMA ChainFine ==
  ASSUME NEW C, Null \notin C, key \in Seq(Byte), depth \in Nat, NEW j \in Nat,
         j * PrefixSize \in Nat, depth + j * PrefixSize + PrefixSize <= Len(key),
         NEW a, a + 1 \in C
  PROVE  /\ InnerFine(ChainNode(j, a), C) /\ ~ IsLeaf(ChainNode(j, a))
         /\ Kids(ChainNode(j, a)) = {a + 1}
<1> DEFINE from == depth + j * PrefixSize
<1>1. PICK p : p = SubSeq(key, from + 1, from + PrefixSize)
      OBVIOUS
<1>2. PICK b : b = ByteAt(key, from + 1)
      OBVIOUS
<1>3. PICK x : x = a + 1
      OBVIOUS
<1>4. /\ from \in Nat /\ PrefixSize \in Nat \ {0} /\ Len(key) \in Nat
      /\ from + PrefixSize <= Len(key)
      BY TreeAssumption, LenProperties
<1> HIDE DEF from
<1>5. p \in Seq(Byte) /\ Len(p) <= PrefixSize
  <2>1. /\ from + 1 \in 1 .. Len(key) + 1
        /\ from + PrefixSize \in (from + 1) - 1 .. Len(key)
        BY <1>4
  <2>2. p \in Seq(Byte) /\ Len(p) = (from + PrefixSize) - (from + 1) + 1
        BY <1>1, <2>1, SubSeqProperties
  <2> QED BY <1>4, <2>2
<1>6. b \in Byte /\ x \in C
      BY <1>2, <1>3, <1>4, ByteAtType
<1>7. PICK n :
        /\ n = [AllocNode("INNER_4") EXCEPT !.prefix = p]
        /\ InnerFine(n, C) /\ Kids(n) = {} /\ ~ IsLeaf(n) /\ ~ IsFull(n)
        /\ \A y \in Byte : Child(n, y) = Null
        /\ n.flags = "INNER_4" /\ n.key_len = 0
      BY <1>5, SplitFine
<1>8. /\ InnerFine(AddChild(n, b, x), C) /\ ~ IsLeaf(AddChild(n, b, x))
      /\ Kids(AddChild(n, b, x)) = {x}
  <2>1. /\ InnerFine(n, C) /\ Kids(n) = {} /\ ~ IsFull(n)
        /\ \A y \in Byte : Child(n, y) = Null
        /\ n.flags = "INNER_4" /\ n.key_len = 0
        BY <1>7
  <2> QED BY <1>6, <2>1, OneChild
<1>9. AddChild(n, b, x) = ChainNode(j, a)
  <2>1. PICK K, A : AllocNode("INNER_4") =
          [flags |-> "INNER_4", key_len |-> 0, key |-> K, arr |-> A,
           prefix |-> <<>>, count |-> 0]
        BY Alloc
  <2>2. n = [flags |-> "INNER_4", key_len |-> 0, key |-> K, arr |-> A,
             prefix |-> p, count |-> 0]
        BY <1>7, <2>1
  <2>3. AddChild(n, b, x) = [n EXCEPT !.key[0] = b, !.arr[0] = x, !.key_len = 1]
        BY <2>2 DEF AddChild, Sparse
  <2>4. AddChild(n, b, x) =
          [flags |-> "INNER_4", key_len |-> 1, key |-> [K EXCEPT ![0] = b],
           arr |-> [A EXCEPT ![0] = x], prefix |-> p, count |-> 0]
        BY <2>2, <2>3
  <2>5. ChainNode(j, a) = [AllocNode("INNER_4") EXCEPT
                             !.prefix = p, !.key[0] = b, !.key_len = 1, !.arr[0] = x]
        BY <1>1, <1>2, <1>3 DEF ChainNode, from
  <2>6. ChainNode(j, a) =
          [flags |-> "INNER_4", key_len |-> 1, key |-> [K EXCEPT ![0] = b],
           arr |-> [A EXCEPT ![0] = x], prefix |-> p, count |-> 0]
    <3>1. ChainNode(j, a) = [n EXCEPT !.key[0] = b, !.key_len = 1, !.arr[0] = x]
          BY <1>7, <2>5, Zenon
    <3> QED BY <2>2, <3>1
  <2> QED BY <2>4, <2>6
<1> QED BY <1>3, <1>8, <1>9

LEMMA LeafSplitOK ==
  ASSUME IInv, LeafSplit
  PROVE  IInv' /\ ((Return /\ Gain) \/ (Abort /\ AbortsPastKeyEnd'))
<1> DEFINE leaf  == Cur
           old   == Target(link)
           m     == Match(leaf)
           chain == ChainLength(m - depth)
           split == top + chain + 1
           other == split + 1
           keepsLeaf == leaf.key_len # m
           addsLeaf  == Len(key) # m
           rest  == SubSeq(key, m - LastPrefix(m - depth) + 1, m)
           empty == [AllocNode("INNER_4") EXCEPT !.prefix = rest]
           b     == ByteAt(leaf.key, m)
           c     == key[m + 1]
           half  == IF keepsLeaf THEN AddChild(empty, b, old) ELSE empty
           full  == IF addsLeaf THEN AddChild(half, c, other) ELSE half
           t     == IF addsLeaf THEN other ELSE split
           N     == top + 1 .. t
           new   == [a \in N |-> IF a < split THEN ChainNode(a - top - 1, a)
                                 ELSE IF a = split THEN full ELSE MakeLeaf(key)]
<1>1. /\ pc = "insert" /\ root # Null /\ IsLeaf(leaf) /\ ~ SameKey(leaf)
      BY DEF LeafSplit, AtLeaf
<1>2. /\ key \in Keys /\ key \in Seq(Byte) /\ Len(key) \in Nat
      /\ top \in Nat /\ old \in DOMAIN heap /\ old # Null /\ Null \notin Nat
      /\ DOMAIN heap \subseteq 1 .. top /\ leaf = heap[old]
      /\ LeafFine(leaf) /\ depth \in 0 .. Len(key)
  <2>1. /\ key \in Keys /\ depth \in 0 .. Len(key) /\ old \in DOMAIN heap
        /\ top \in Nat /\ DOMAIN heap \subseteq 1 .. top /\ leaf = heap[old]
        /\ NodeFine(leaf, 1 .. top) /\ Null \notin Nat /\ old \in Nat
        BY <1>1, Holder, TreeAssumption DEF IInv, TreeInv, WalkInv, Cur
  <2>2. LeafFine(leaf)
        BY <1>1, <2>1, NodeKinds
  <2>3. key \in Seq(Byte) /\ Len(key) \in Nat
        BY <2>1, TreeAssumption, LenProperties
  <2> QED BY <2>1, <2>2, <2>3
<1>3. leaf.key \in Seq(Byte) /\ leaf.key_len = Len(leaf.key) /\ leaf.key_len \in Nat
      BY <1>2, LeafFields
<1>4. /\ m \in depth .. Len(key)
      /\ \A i \in depth .. m - 1 : i < leaf.key_len /\ leaf.key[i + 1] = key[i + 1]
      /\ \/ m >= leaf.key_len
         \/ m = Len(key)
         \/ leaf.key[m + 1] # key[m + 1]
      BY <1>2, <1>3, MatchOK
<1>5. m - depth \in Nat /\ m \in Nat /\ depth \in Nat
      BY <1>2, <1>4
<1>6. /\ chain \in Nat
      /\ \A j \in 0 .. chain - 1 : j * PrefixSize \in Nat
                                   /\ j * PrefixSize + PrefixSize <= m - depth
      /\ LastPrefix(m - depth) \in 0 .. PrefixSize
      /\ LastPrefix(m - depth) <= m - depth
      BY <1>5, ChainOK
<1>7. rest \in Seq(Byte) /\ Len(rest) <= PrefixSize
  <2>1. PICK f : f = m - LastPrefix(m - depth)
        OBVIOUS
  <2>2. /\ f \in Nat /\ f <= m /\ m <= Len(key) /\ m - f <= PrefixSize
        BY <1>2, <1>4, <1>5, <1>6, <2>1, TreeAssumption
  <2>3. rest = SubSeq(key, f + 1, m)
        BY <2>1
  <2> HIDE DEF rest
  <2>4. f + 1 \in 1 .. Len(key) + 1 /\ m \in (f + 1) - 1 .. Len(key)
        BY <1>2, <1>5, <2>2
  <2>5. rest \in Seq(Byte) /\ Len(rest) = m - (f + 1) + 1
        BY <1>2, <2>3, <2>4, SubSeqProperties
  <2> QED BY <1>5, <2>2, <2>5, TreeAssumption
<1>8. b \in Byte /\ (addsLeaf => c \in Byte)
  <2>1. addsLeaf => m + 1 \in 1 .. Len(key)
        BY <1>2, <1>4, <1>5
  <2> QED BY <1>2, <1>3, <1>5, <2>1, ByteAtType, ElementOfSeq
<1>9. addsLeaf \/ keepsLeaf
      BY <1>1 DEF SameKey
<1> HIDE DEF leaf, old, m, chain, keepsLeaf, addsLeaf, rest, b, c
<1>10. /\ split \in Nat /\ split > top /\ other \in Nat /\ t \in {split, other}
       /\ t \in Nat /\ t >= split /\ (addsLeaf => t = other /\ other \in 1 .. t)
       /\ ~ addsLeaf => t = split
       /\ split \in N /\ top + 1 \in N /\ N \subseteq Nat /\ t >= top
       BY <1>2, <1>6
<1>11. /\ old \in 1 .. top /\ old \in 1 .. t /\ old \notin N /\ Null \notin 1 .. t
       /\ Null \notin N /\ \A a \in DOMAIN heap : a \notin N
  <2>1. \A a \in 1 .. top : a \notin N /\ a \in 1 .. t
        BY <1>2, <1>10
  <2>2. old \in 1 .. top
        BY <1>2
  <2> QED BY <1>2, <1>10, <2>1, <2>2
<1> HIDE DEF split, other, t, N
<1>12. PICK C : C = 1 .. t
       OBVIOUS
<1>13. Null \notin C /\ old \in C /\ (addsLeaf => other \in C)
       BY <1>10, <1>11, <1>12
<1>14. PICK e :
         /\ e = [AllocNode("INNER_4") EXCEPT !.prefix = rest]
         /\ InnerFine(e, C) /\ Kids(e) = {} /\ ~ IsLeaf(e) /\ ~ IsFull(e)
         /\ \A y \in Byte : Child(e, y) = Null
         /\ e.flags = "INNER_4" /\ e.key_len = 0
       BY <1>7, <1>13, SplitFine
<1>15. /\ InnerFine(e, C) /\ Kids(e) = {} /\ ~ IsFull(e) /\ ~ IsLeaf(e)
       /\ \A y \in Byte : Child(e, y) = Null
       /\ e.flags = "INNER_4" /\ e.key_len = 0
       /\ e = empty
       BY <1>14
<1> HIDE DEF empty
<1>16. /\ InnerFine(half, C) /\ ~ IsLeaf(half) /\ ~ IsFull(half)
       /\ Kids(half) = IF keepsLeaf THEN {old} ELSE {}
       /\ \A y \in Byte : (keepsLeaf => y # b) => Child(half, y) = Null
       /\ keepsLeaf => ~ AddChildAsserts(half, b)
  <2>1. CASE keepsLeaf
    <3>1. half = AddChild(e, b, old)
          BY <1>15, <2>1
    <3> HIDE DEF half
    <3>2. /\ InnerFine(half, C) /\ ~ IsLeaf(half) /\ ~ IsFull(half)
          /\ Kids(half) = {old}
          /\ \A y \in Byte : y # b => Child(half, y) = Null
          /\ ~ AddChildAsserts(half, b)
          BY <1>8, <1>13, <1>15, <3>1, OneChild
    <3> QED BY <2>1, <3>2
  <2>2. CASE ~ keepsLeaf
    <3>1. half = e
          BY <1>15, <2>2
    <3> HIDE DEF half
    <3> QED BY <1>15, <2>2, <3>1
  <2> QED BY <2>1, <2>2
<1> HIDE DEF half
<1>17. ASSUME addsLeaf, keepsLeaf => c # b
       PROVE  /\ AddChildAsserts(half, c)
              /\ InnerFine(AddChild(half, c, other), C)
              /\ Kids(AddChild(half, c, other)) = Kids(half) \cup {other}
              /\ ~ IsLeaf(AddChild(half, c, other))
  <2>1. Child(half, c) = Null /\ c \in Byte /\ other \in C
        BY <1>8, <1>13, <1>16, <1>17
  <2>2. other \notin Kids(half)
    <3>1. other # old
          BY <1>2, <1>10, <1>11 DEF other
    <3> QED BY <1>16, <3>1
  <2> QED BY <1>13, <1>16, <2>1, <2>2, AddedFine
<1>18. CASE addsLeaf /\ ~ AddChildAsserts(half, c)
  <2>1. Abort
        BY <1>18 DEF LeafSplit, leaf, m, chain, split, other, keepsLeaf, addsLeaf,
                     rest, empty, b, c, half, old
  <2>2. keepsLeaf /\ c = b
        BY <1>17, <1>18
  <2>3. m < leaf.key_len => b = leaf.key[m + 1]
        BY <1>3 DEF b, ByteAt
  <2>4. leaf.key_len < m
        BY <1>3, <1>4, <1>5, <1>18, <2>2, <2>3 DEF keepsLeaf, addsLeaf, c
  <2>5. b = 0
        BY <1>3, <1>5, <2>4 DEF b, ByteAt
  <2>6. m = depth
    <3>1. SUFFICES ASSUME m # depth PROVE FALSE
          OBVIOUS
    <3>2. m - 1 \in depth .. m - 1 /\ m - 1 >= leaf.key_len
          BY <1>3, <1>4, <1>5, <2>4, <3>1
    <3> QED BY <1>3, <1>4, <1>5, <3>2
  <2>7. depth < Len(key)
        BY <1>2, <1>4, <1>18, <2>6 DEF addsLeaf
  <2>8. UNCHANGED <<heap, root, link, key, depth>>
        BY <2>1 DEF Abort
  <2>9. Cur' = leaf
        BY <2>8 DEF Cur, Target, leaf
  <2>10. AbortsPastKeyEnd'
         BY <1>1, <2>2, <2>4, <2>5, <2>6, <2>7, <2>8, <2>9 DEF AbortsPastKeyEnd, c
  <2> QED BY <1>1, <2>1, <2>10, AbortOK
<1>19. CASE addsLeaf => AddChildAsserts(half, c)
  <2> DEFINE h == Nodes(new)
             D == {}
  <2>1. Replace(h, top + 1) /\ top' = t /\ Return
        BY <1>19 DEF LeafSplit, leaf, m, chain, split, other, keepsLeaf, addsLeaf,
                     rest, empty, b, c, half, old, t, N
  <2>2. /\ InnerFine(full, C) /\ ~ IsLeaf(full)
        /\ Kids(full) \subseteq {old} \cup (IF addsLeaf THEN {other} ELSE {})
    <3>1. CASE addsLeaf
      <4>1. keepsLeaf => c # b
            BY <1>16, <1>19, <3>1
      <4> QED BY <1>16, <1>17, <3>1, <4>1
    <3>2. CASE ~ addsLeaf
          BY <1>16, <3>2
    <3> QED BY <3>1, <3>2
  <2> HIDE DEF full, new
  <2>3. /\ DOMAIN h = DOMAIN heap \cup N
        /\ \A a \in N : h[a] = new[a]
        /\ \A a \in DOMAIN heap : h[a] = heap[a]
    <3>1. DOMAIN new = N
          BY DEF new
    <3> QED BY <1>11, <3>1 DEF Nodes
  <2> HIDE DEF h
  <2>4. ASSUME NEW a \in N, a < split
        PROVE  /\ NodeFine(h[a], 1 .. t) /\ Hold(h, root, a) = {a + 1}
               /\ a \in Nat /\ a > top /\ a + 1 \in N /\ ~ IsLeaf(h[a])
    <3>1. PICK j : j = a - top - 1
          OBVIOUS
    <3>2. /\ a \in Nat /\ a > top /\ a + 1 \in 1 .. t /\ a + 1 \in N
          /\ j \in 0 .. chain - 1 /\ j \in Nat
          BY <1>2, <1>6, <1>10, <2>4, <3>1 DEF N, split
    <3>3. h[a] = ChainNode(j, a)
          BY <2>3, <2>4, <3>1 DEF new
    <3>4. /\ j * PrefixSize \in Nat
          /\ j * PrefixSize + PrefixSize <= m - depth
          BY <1>6, <3>2
    <3>5. PICK q \in Nat : q = j * PrefixSize
          BY <3>4
    <3>6. depth + j * PrefixSize + PrefixSize <= Len(key)
          BY <1>2, <1>4, <1>5, <3>4, <3>5, TreeAssumption
    <3>7. /\ InnerFine(ChainNode(j, a), C) /\ ~ IsLeaf(ChainNode(j, a))
          /\ Kids(ChainNode(j, a)) = {a + 1}
      <4>1. /\ Null \notin C /\ a + 1 \in C /\ j \in Nat
            /\ key \in Seq(Byte) /\ depth \in Nat
            BY <1>2, <1>5, <1>12, <1>13, <3>2
      <4> QED BY <3>4, <3>6, <4>1, ChainFine, Zenon
    <3>8. a # Null
          BY <1>11, <2>4
    <3> QED BY <1>12, <3>2, <3>3, <3>7, <3>8 DEF NodeFine, Hold
  <2>5. /\ NodeFine(h[split], 1 .. t)
        /\ Hold(h, root, split) \subseteq {old} \cup (IF addsLeaf THEN {other} ELSE {})
    <3>1. h[split] = full /\ split # Null
          BY <1>10, <1>11, <2>3 DEF new
    <3> QED BY <1>12, <2>2, <3>1 DEF NodeFine, Hold
  <2>6. ASSUME NEW a \in N, a > split
        PROVE  NodeFine(h[a], 1 .. t) /\ Hold(h, root, a) = {}
    <3>1. h[a] = MakeLeaf(key) /\ a # Null
      <4>1. a \in Nat /\ ~ (a < split) /\ a # split
            BY <1>10, <2>6
      <4> QED BY <1>11, <2>3, <2>6, <4>1 DEF new
    <3> QED BY <1>2, <3>1, MakeLeafFine
  <2>7. NodeFine(h[old], 1 .. t) /\ Hold(h, root, old) = {}
    <3>1. h[old] = leaf
          BY <1>2, <2>3
    <3> QED BY <1>1, <1>2, <3>1 DEF NodeFine, Hold
  <2>8. (N \cup {old}) \ D = N \cup {old} /\ {old} \ D = {old} /\ D \subseteq {old}
        OBVIOUS
  <2>9. \A a \in N : a < split \/ a = split \/ a > split
        BY <1>10
  <2>10. addsLeaf => other \in N /\ other # split /\ other > split /\ other # top + 1
         BY <1>2, <1>10 DEF N, other
  <2>11. split >= top + 1 /\ top + 1 \in Nat /\ top + 1 # old
         BY <1>2, <1>6, <1>10, <1>11 DEF split
  <2>12. \A a \in (N \cup {old}) \ D :
           /\ NodeFine(h[a], 1 .. t)
           /\ Hold(h, root, a) \subseteq
                (Hold(heap, root, old) \cup N \cup ({old} \ D)) \ {top + 1, a}
    <3> SUFFICES ASSUME NEW a \in N \cup {old}
                 PROVE  /\ NodeFine(h[a], 1 .. t)
                        /\ Hold(h, root, a) \subseteq (N \cup {old}) \ {top + 1, a}
        BY <2>8
    <3>1. CASE a = old
          BY <2>7, <3>1
    <3>2. CASE a \in N /\ a < split
      <4>1. a + 1 # top + 1 /\ a + 1 # a
            BY <1>2, <2>4, <3>2
      <4> QED BY <2>4, <3>2, <4>1
    <3>3. CASE a = split
          BY <1>10, <1>11, <2>5, <2>10, <2>11, <3>3
    <3>4. CASE a \in N /\ a > split
          BY <2>6, <3>4
    <3> QED BY <2>9, <3>1, <3>2, <3>3, <3>4
  <2>13. \A a, u \in (N \cup {old}) \ D :
           a # u => Hold(h, root, a) \cap Hold(h, root, u) = {}
    <3> SUFFICES ASSUME NEW a \in N \cup {old}, NEW u \in N \cup {old}, a # u
                 PROVE  Hold(h, root, a) \cap Hold(h, root, u) = {}
        BY <2>8
    <3>1. CASE a = old \/ u = old
          BY <2>7, <3>1
    <3>2. CASE a \in N /\ u \in N /\ a < split /\ u < split
      <4>1. a + 1 # u + 1
            BY <2>4, <3>2
      <4> QED BY <2>4, <3>2, <4>1
    <3>3. ASSUME NEW x \in N, x < split
          PROVE  Hold(h, root, x) \cap Hold(h, root, split) = {}
      <4>1. x + 1 \in N /\ x + 1 <= split /\ x \in Nat
            BY <1>10, <2>4, <3>3
      <4>2. x + 1 # old /\ (addsLeaf => x + 1 # other)
            BY <1>10, <1>11, <2>10, <4>1
      <4> QED BY <2>4, <2>5, <3>3, <4>2
    <3>4. CASE a \in N /\ u \in N /\ (a > split \/ u > split)
          BY <2>6, <3>4
    <3>5. CASE a \in N /\ u \in N /\ (a = split \/ u = split)
          BY <2>9, <3>3, <3>4, <3>5
    <3> QED BY <2>9, <3>1, <3>2, <3>4, <3>5
  <2>14. DOMAIN h = (DOMAIN heap \cup N) \ D
         BY <2>3
  <2>15. \A a \in DOMAIN heap \ {old} : h[a] = heap[a]
         BY <2>3
  <2>16. N \subseteq top + 1 .. t
         BY DEF N
  <2> HIDE DEF D
  <2>17. PICK s : s = top + 1
         OBVIOUS
  <2>18. TreeInv(heap', root', t)
    <3>1. /\ s \in N /\ Replace(h, s)
          /\ \A a \in (N \cup {old}) \ D :
               /\ NodeFine(h[a], 1 .. t)
               /\ Hold(h, root, a) \subseteq
                    (Hold(heap, root, old) \cup N \cup ({old} \ D)) \ {s, a}
          BY <1>10, <2>1, <2>12, <2>17
    <3> QED BY <1>1, <1>10, <2>8, <2>13, <2>14, <2>15, <2>16, <3>1, Graft DEF old
  <2>19. Gain
    <3>1. /\ DOMAIN heap' = DOMAIN h /\ Leaves(heap') = Leaves(h)
          /\ \A a \in Leaves(h) : heap'[a] = h[a]
      <4>1. /\ s \in 1 .. t /\ s \notin DOMAIN heap /\ Replace(h, s)
            /\ DOMAIN heap \subseteq DOMAIN h \cup {old}
            BY <1>2, <1>10, <1>11, <2>1, <2>3, <2>17
      <4> QED BY <1>1, <1>10, <2>15, <4>1, ReplaceLeaves DEF old
    <3>2. ASSUME NEW a \in N, a <= split PROVE ~ IsLeaf(h[a])
      <4>1. CASE a = split
            BY <1>10, <2>2, <2>3, <4>1 DEF new
      <4>2. CASE a < split
            BY <2>4, <3>2, <4>2
      <4> QED BY <2>9, <1>10, <3>2, <4>1, <4>2
    <3>3. Leaves(h) \cap DOMAIN heap = Leaves(heap)
          BY <2>3 DEF Leaves
    <3>4. CASE addsLeaf
      <4>1. other \in N /\ other \notin DOMAIN heap /\ other > split
            BY <1>11, <2>10, <3>4
      <4>2. h[other] = MakeLeaf(key) /\ IsLeaf(h[other])
        <5>1. ~ (other < split) /\ other # split
              BY <1>10, <4>1
        <5> QED BY <2>3, <4>1, <5>1 DEF new, MakeLeaf, IsLeaf
      <4>3. \A a \in N : a <= split \/ a = other
            BY <1>10, <3>4 DEF N, other
      <4>4. Leaves(h) = Leaves(heap) \cup {other}
            BY <2>3, <3>2, <3>3, <4>1, <4>2, <4>3 DEF Leaves
      <4>5. NewLeaf(other)
            BY <2>3, <3>1, <4>1, <4>2, <4>4 DEF NewLeaf, Leaves, Kept
      <4> QED BY <2>3, <3>1, <4>1, <4>5 DEF Gain
    <3>5. CASE ~ addsLeaf
      <4>1. \A a \in N : a <= split
            BY <1>10, <3>5 DEF N
      <4>2. Leaves(h) = Leaves(heap)
            BY <2>3, <3>2, <3>3, <4>1 DEF Leaves
      <4> QED BY <2>3, <3>1, <4>2 DEF Gain, SameLeaves, Leaves, Kept
    <3> QED BY <3>4, <3>5
  <2> QED BY <1>1, <2>1, <2>18, <2>19, Returned
<1> QED BY <1>18, <1>19

-----------------------------------------------------------------------------
(* Nothing is counted twice.                                               *)

OfLength(h, n) == {a \in Leaves(h) : h[a].key_len = n}
KeysOfLength(n) == {k \in Keys : Len(k) = n}
Seen(h, n) == SumFunctionOnSet([a \in OfLength(h, n) |-> h[a].count + 1],
                               OfLength(h, n))
Given(f, n) == SumFunctionOnSet([k \in KeysOfLength(n) |-> f[k]], KeysOfLength(n))

CountInv == \A n \in {Len(k) : k \in Keys} : Seen(heap, n) <= Given(inserts, n)

LEMMA CountInvIs == CountInv <=> NeverOvercounts
<1>1. \A n : LeavesOfLength(n) = OfLength(heap, n)
      BY DEF LeavesOfLength, OfLength, Leaves
<1> QED BY <1>1 DEF CountInv, NeverOvercounts, Seen, Given, KeysOfLength, SumFunction

LEMMA LeavesType ==
  ASSUME IInv, NEW n
  PROVE  /\ IsFiniteSet(OfLength(heap, n))
         /\ \A a \in OfLength(heap, n) : heap[a].count + 1 \in Nat
         /\ Seen(heap, n) \in Nat
<1>1. /\ top \in Nat /\ DOMAIN heap \subseteq 1 .. top
      /\ \A a \in DOMAIN heap : NodeFine(heap[a], 1 .. top)
      BY DEF IInv, TreeInv
<1>2. IsFiniteSet(1 .. top)
      BY <1>1, FS_Interval
<1>3. OfLength(heap, n) \subseteq 1 .. top
      BY <1>1 DEF OfLength, Leaves
<1>4. IsFiniteSet(OfLength(heap, n))
      BY <1>2, <1>3, FS_Subset
<1>5. \A a \in OfLength(heap, n) : heap[a].count \in Nat
      BY <1>1, NodeKinds DEF OfLength, Leaves
<1>6. \A a \in OfLength(heap, n) : heap[a].count + 1 \in Nat
      BY <1>5
<1> QED BY <1>4, <1>6, SumType DEF Seen

LEMMA GivenMore ==
  ASSUME IInv, pc = "insert", Return, NEW n
  PROVE  /\ Given(inserts, n) \in Nat
         /\ Given(inserts', n) = Given(inserts, n) + (IF n = Len(key) THEN 1 ELSE 0)
<1> DEFINE K == KeysOfLength(n)
           f == [k \in K |-> inserts[k]]
           g == [k \in K |-> inserts'[k]]
<1>1. /\ key \in Keys /\ inserts \in [Keys -> Nat] /\ K \subseteq Keys
      /\ inserts' = [inserts EXCEPT ![key] = @ + 1]
      BY DEF IInv, WalkInv, Return, KeysOfLength
<1>2. IsFiniteSet(K)
      BY <1>1, FS_Subset, TreeAssumption
<1>3. \A k \in K : f[k] \in Nat
      BY <1>1
<1>4. SumFunctionOnSet(f, K) \in Nat
      BY <1>2, <1>3, SumType
<1>5. CASE n = Len(key)
  <2>1. key \in K
        BY <1>1, <1>5 DEF KeysOfLength
  <2>2. /\ f[key] \in Nat /\ g[key] = f[key] + 1 /\ g[key] \in Nat
        /\ \A k \in K \ {key} : g[k] = f[k]
        BY <1>1, <2>1
  <2>3. SumFunctionOnSet(g, K) + f[key] = SumFunctionOnSet(f, K) + g[key]
    <3> HIDE DEF f, g, K
    <3> QED BY <1>2, <1>3, <2>1, <2>2, SumChange
  <2>4. SumFunctionOnSet(g, K) \in Nat
    <3>1. \A k \in K : g[k] \in Nat
          BY <1>3, <2>2
    <3> HIDE DEF f, g, K
    <3> QED BY <1>2, <3>1, SumType
  <2>5. SumFunctionOnSet(g, K) = SumFunctionOnSet(f, K) + 1
    <3> HIDE DEF f, g, K
    <3> QED BY <1>4, <2>2, <2>3, <2>4
  <2> QED BY <1>4, <1>5, <2>5 DEF Given
<1>6. CASE n # Len(key)
  <2>1. \A k \in K : g[k] = f[k]
        BY <1>1, <1>6 DEF KeysOfLength
  <2>2. SumFunctionOnSet(g, K) = SumFunctionOnSet(f, K)
    <3> HIDE DEF f, g, K
    <3> QED BY <1>2, <2>1, SumSame
  <2> QED BY <1>4, <1>6, <2>2 DEF Given
<1> QED BY <1>5, <1>6

LEMMA SeenMore ==
  ASSUME IInv, Gain, NEW n
  PROVE  /\ Seen(heap', n) <= Seen(heap, n) + (IF n = Len(key) THEN 1 ELSE 0)
         /\ Seen(heap', n) \in Nat
<1> DEFINE L == OfLength(heap, n)
           M == OfLength(heap', n)
           f == [a \in L |-> heap[a].count + 1]
           g == [a \in M |-> heap'[a].count + 1]
<1>1. /\ IsFiniteSet(L) /\ SumFunctionOnSet(f, L) \in Nat
      /\ \A a \in L : f[a] \in Nat
      BY LeavesType DEF Seen
<1>2. CASE SameLeaves
  <2>1. M = L /\ \A a \in L : g[a] = f[a]
        BY <1>2 DEF SameLeaves, Kept, OfLength
  <2>2. SumFunctionOnSet(g, M) = SumFunctionOnSet(f, L)
    <3> HIDE DEF f, g, L, M
    <3> QED BY <1>1, <2>1, SumSame
  <2> QED BY <1>1, <2>2 DEF Seen
<1>3. ASSUME NEW x \in DOMAIN heap', NewLeaf(x)
      PROVE  /\ Seen(heap', n) <= Seen(heap, n) + (IF n = Len(key) THEN 1 ELSE 0)
             /\ Seen(heap', n) \in Nat
  <2>1. heap'[x].key_len = Len(key) /\ heap'[x].count = 0
        BY <1>3 DEF NewLeaf, MakeLeaf
  <2>2. CASE n = Len(key)
    <3>1. M = L \cup {x} /\ x \notin L
          BY <1>3, <2>1, <2>2 DEF NewLeaf, Kept, OfLength
    <3>2. g[x] = 1 /\ g[x] \in Nat /\ \A a \in L : g[a] = f[a]
          BY <1>3, <2>1, <3>1 DEF NewLeaf, Kept, OfLength
    <3>3. SumFunctionOnSet(g, M) = SumFunctionOnSet(f, L) + g[x]
      <4> HIDE DEF f, g, L, M
      <4> QED BY <1>1, <3>1, <3>2, SumAdd
    <3> QED BY <1>1, <2>2, <3>2, <3>3 DEF Seen
  <2>3. CASE n # Len(key)
    <3>1. M = L /\ \A a \in L : g[a] = f[a]
          BY <1>3, <2>1, <2>3 DEF NewLeaf, Kept, OfLength
    <3>2. SumFunctionOnSet(g, M) = SumFunctionOnSet(f, L)
      <4> HIDE DEF f, g, L, M
      <4> QED BY <1>1, <3>1, SumSame
    <3> QED BY <1>1, <2>3, <3>2 DEF Seen
  <2> QED BY <2>2, <2>3
<1>4. ASSUME NEW x \in DOMAIN heap', HitLeaf(x)
      PROVE  /\ Seen(heap', n) <= Seen(heap, n) + (IF n = Len(key) THEN 1 ELSE 0)
             /\ Seen(heap', n) \in Nat
  <2>1. M = L
        BY <1>4 DEF HitLeaf, OfLength
  <2>2. CASE n = Len(key)
    <3>1. x \in L
          BY <1>4, <2>2 DEF HitLeaf, OfLength
    <3>2. heap[x].count \in Nat
      <4>1. x \in DOMAIN heap
            BY <1>4 DEF HitLeaf, Leaves
      <4> QED BY <4>1, NodeKinds DEF IInv, TreeInv
    <3>3. /\ g[x] = f[x] + 1 /\ g[x] \in Nat /\ f[x] \in Nat
          /\ \A a \in L \ {x} : g[a] = f[a]
      <4>1. x \in M /\ heap'[x].count = heap[x].count + 1
            BY <1>4, <2>1, <3>1 DEF HitLeaf
      <4>2. g[x] = (heap[x].count + 1) + 1 /\ f[x] = heap[x].count + 1
            BY <3>1, <4>1
      <4>3. \A a \in L \ {x} : a \in M /\ heap'[a] = heap[a]
            BY <1>4, <2>1 DEF HitLeaf, OfLength
      <4>4. \A a \in L \ {x} : g[a] = f[a]
            BY <4>3
      <4> HIDE DEF f, g
      <4> QED BY <3>2, <4>2, <4>4
    <3>4. SumFunctionOnSet(g, L) + f[x] = SumFunctionOnSet(f, L) + g[x]
      <4> HIDE DEF f, g, L, M
      <4> QED BY <1>1, <3>1, <3>3, SumChange
    <3>5. SumFunctionOnSet(g, L) = SumFunctionOnSet(f, L) + 1
      <4>1. \A a \in L : g[a] \in Nat
            BY <1>1, <3>3
      <4>2. SumFunctionOnSet(g, L) \in Nat
        <5> HIDE DEF f, g, L, M
        <5> QED BY <1>1, <4>1, SumType
      <4> QED BY <1>1, <3>3, <3>4, <4>2
    <3> QED BY <1>1, <2>1, <2>2, <3>5 DEF Seen
  <2>3. CASE n # Len(key)
    <3>1. x \notin L
          BY <1>4, <2>3 DEF HitLeaf, OfLength
    <3>2. \A a \in L : g[a] = f[a]
          BY <1>4, <2>1, <3>1 DEF HitLeaf, OfLength
    <3>3. SumFunctionOnSet(g, M) = SumFunctionOnSet(f, L)
      <4> HIDE DEF f, g, L, M
      <4> QED BY <1>1, <2>1, <3>2, SumSame
    <3> QED BY <1>1, <2>3, <3>3 DEF Seen
  <2> QED BY <2>2, <2>3
<1> QED BY <1>2, <1>3, <1>4 DEF Gain

LEMMA CountInvStep ==
  ASSUME IInv, pc = "insert", Return, Gain, CountInv
  PROVE  CountInv'
<1> SUFFICES ASSUME NEW k \in Keys
             PROVE  Seen(heap', Len(k)) <= Given(inserts', Len(k))
    BY DEF CountInv, Seen, Given
<1> DEFINE n == Len(k)
           d == IF n = Len(key) THEN 1 ELSE 0
<1>1. /\ Seen(heap', n) <= Seen(heap, n) + d
      /\ Given(inserts', n) = Given(inserts, n) + d /\ Given(inserts, n) \in Nat
      /\ Seen(heap, n) \in Nat
      BY SeenMore, GivenMore, LeavesType
<1>2. Seen(heap, n) <= Given(inserts, n) /\ Seen(heap', n) \in Nat
      BY SeenMore DEF CountInv
<1>3. d \in {0, 1}
      OBVIOUS
<1> HIDE DEF n, d
<1>4. Seen(heap', n) <= Given(inserts', n)
      BY <1>1, <1>2, <1>3
<1> QED BY <1>4 DEF n

-----------------------------------------------------------------------------
(* What the invariant says of the tree.                                    *)

LEMMA InnerIs ==
  ASSUME IInv, NEW a \in DOMAIN heap, ~ IsLeaf(heap[a])
  PROVE  /\ IsInnerNode(heap[a], 1 .. top) /\ Layout(heap[a]) /\ Single(heap[a])
         /\ Null \notin 1 .. top /\ a # Null /\ a \in Owners(heap)
         /\ Hold(heap, root, a) = Kids(heap[a])
<1>1. /\ Null \notin Nat /\ top \in Nat /\ DOMAIN heap \subseteq 1 .. top
      /\ NodeFine(heap[a], 1 .. top)
      BY TreeAssumption DEF IInv, TreeInv
<1>2. InnerFine(heap[a], 1 .. top)
      BY <1>1, NodeKinds
<1>3. a \in Nat /\ Null \notin 1 .. top
      BY <1>1
<1>4. a # Null
      BY <1>1, <1>3
<1>5. Hold(heap, root, a) = Kids(heap[a])
      BY <1>4 DEF Hold
<1> QED BY <1>2, <1>3, <1>4, <1>5 DEF InnerFine, Owners

LEMMA TypesHold == IInv => TypeOK
<1> SUFFICES ASSUME IInv PROVE TypeOK
    OBVIOUS
<1>1. ASSUME NEW a \in DOMAIN heap
      PROVE  /\ \/ \E k \in Keys : heap[a] = [MakeLeaf(k) EXCEPT !.count = heap[a].count]
                \/ IsInnerNode(heap[a], 1 .. top)
             /\ heap[a].count \in Nat /\ Len(heap[a].prefix) <= PrefixSize
  <2>1. NodeFine(heap[a], 1 .. top)
        BY DEF IInv, TreeInv
  <2>2. CASE LeafFine(heap[a])
    <3>1. PICK k \in Keys, c \in Nat :
            heap[a] = [flags |-> "LEAF", key_len |-> Len(k), key |-> k, arr |-> <<>>,
                       prefix |-> <<>>, count |-> c]
          BY <2>2 DEF LeafFine
    <3>2. heap[a] = [MakeLeaf(k) EXCEPT !.count = heap[a].count]
          BY <3>1 DEF MakeLeaf
    <3>3. Len(<<>>) = 0
          OBVIOUS
    <3> QED BY <3>1, <3>2, <3>3, TreeAssumption
  <2>3. CASE InnerFine(heap[a], 1 .. top)
        BY <2>1, <2>3, NodeKinds DEF InnerFine
  <2> QED BY <2>1, <2>2, <2>3 DEF NodeFine
<1>2. /\ top \in Nat /\ DOMAIN heap \subseteq 1 .. top
      /\ pc \in {"idle", "insert", "aborted"}
      /\ key \in Keys \cup {<<>>} /\ depth \in 0 .. Len(key)
      /\ inserts \in [Keys -> Nat]
      BY DEF IInv, TreeInv, WalkInv
<1> QED BY <1>1, <1>2 DEF TypeOK

(* A link that holds a node is held by the node's one owner, and the owner *)
(* and the node determine the link.                                        *)
LEMMA LinkHolds ==
  ASSUME IInv, NEW l \in Occupied
  PROVE  \E o \in Owners(heap) :
           /\ Target(l) \in Hold(heap, root, o)
           /\ \/ l = RootLink /\ o = Null
              \/ /\ o \in DOMAIN heap /\ o # Null /\ ~ IsLeaf(heap[o])
                 /\ \E b \in Byte : /\ l = [parent |-> o, slot |-> FindChild(heap[o], b)]
                                  /\ Child(heap[o], b) = Target(l)
                                  /\ Target(l) # Null
<1>1. CASE l = RootLink
  <2>1. Target(l) = root /\ root # Null
        BY <1>1 DEF Occupied, Target
  <2>2. Target(l) \in Hold(heap, root, Null) /\ Null \in Owners(heap)
        BY <2>1 DEF Hold, Owners
  <2> QED BY <1>1, <2>2
<1>2. CASE l # RootLink
  <2>1. PICK a \in LiveInner, i \in 0 .. MaxByte : l = [parent |-> a, slot |-> i]
        BY <1>2 DEF Occupied, Links, Slot
  <2>2. l.parent = a /\ l.slot = i /\ a \in DOMAIN heap /\ ~ IsLeaf(heap[a])
        BY <2>1 DEF LiveInner
  <2>3. i \in DOMAIN heap[a].arr /\ Target(l) = heap[a].arr[i] /\ Target(l) # Null
        BY <1>2, <2>2 DEF Occupied, Links, Target
  <2>4. /\ IsInnerNode(heap[a], 1 .. top) /\ Layout(heap[a])
        /\ a # Null /\ a \in Owners(heap)
        /\ Hold(heap, root, a) = Kids(heap[a])
        BY <2>2, InnerIs
  <2>5. PICK b \in Byte : FindChild(heap[a], b) = i /\ Child(heap[a], b) = heap[a].arr[i]
        BY <2>3, <2>4, SlotHasByte
  <2>6. Target(l) \in Hold(heap, root, a)
        BY <2>3, <2>4, <2>5 DEF Kids
  <2> QED BY <2>1, <2>2, <2>3, <2>4, <2>5, <2>6
<1> QED BY <1>1, <1>2

LEMMA ShapeHolds == IInv => TreeShape
<1> SUFFICES ASSUME IInv PROVE TreeShape
    OBVIOUS
<1>1. Hung(heap, root)
      BY DEF IInv, TreeInv
<1>2. NodesLaidOut
      BY InnerIs DEF NodesLaidOut, LiveInner
<1>3. ASSUME NEW l \in Occupied PROVE Target(l) \in DOMAIN heap
      BY <1>1, LinkHolds DEF Hung
<1>4. ASSUME NEW l \in Occupied, NEW m \in Occupied, Target(l) = Target(m)
      PROVE  l = m
  <2>1. PICK o \in Owners(heap) :
           /\ Target(l) \in Hold(heap, root, o)
           /\ \/ l = RootLink /\ o = Null
              \/ /\ o \in DOMAIN heap /\ o # Null /\ ~ IsLeaf(heap[o])
                 /\ \E b \in Byte : /\ l = [parent |-> o, slot |-> FindChild(heap[o], b)]
                                  /\ Child(heap[o], b) = Target(l)
                                  /\ Target(l) # Null
        BY LinkHolds
  <2>2. PICK u \in Owners(heap) :
           /\ Target(m) \in Hold(heap, root, u)
           /\ \/ m = RootLink /\ u = Null
              \/ /\ u \in DOMAIN heap /\ u # Null /\ ~ IsLeaf(heap[u])
                 /\ \E b \in Byte : /\ m = [parent |-> u, slot |-> FindChild(heap[u], b)]
                                  /\ Child(heap[u], b) = Target(m)
                                  /\ Target(m) # Null
        BY LinkHolds
  <2>3. o = u
        BY <1>1, <1>4, <2>1, <2>2 DEF Hung
  <2>4. CASE o = Null
        BY <2>1, <2>2, <2>3, <2>4
  <2>5. CASE o # Null
    <3>1. Single(heap[o])
          BY <2>1, <2>5, InnerIs
    <3>2. PICK b \in Byte : /\ l = [parent |-> o, slot |-> FindChild(heap[o], b)]
                          /\ Child(heap[o], b) = Target(l) /\ Target(l) # Null
          BY <2>1, <2>5
    <3>3. PICK c \in Byte : /\ m = [parent |-> o, slot |-> FindChild(heap[o], c)]
                          /\ Child(heap[o], c) = Target(m)
          BY <2>2, <2>3, <2>5
    <3>4. b = c
          BY <1>4, <3>1, <3>2, <3>3 DEF Single
    <3> QED BY <3>2, <3>3, <3>4
  <2> QED BY <2>4, <2>5
<1>5. link \in Links
  <2>1. CASE link = RootLink
        BY <2>1 DEF Links, Slot
  <2>2. CASE link # RootLink
    <3>1. PICK a \in DOMAIN heap, b \in Byte :
            /\ ~ IsLeaf(heap[a]) /\ Child(heap[a], b) # Null
            /\ link = [parent |-> a, slot |-> FindChild(heap[a], b)]
          BY <2>2 DEF IInv, WalkInv, LinkFine
    <3>2. /\ IsInnerNode(heap[a], 1 .. top) /\ Layout(heap[a])
          /\ Null \notin 1 .. top
          BY <3>1, InnerIs
    <3>3. /\ FindChild(heap[a], b) \in Slots(heap[a].flags)
          /\ heap[a].arr \in [Slots(heap[a].flags) -> (1 .. top) \cup {Null}]
          BY <3>1, <3>2, SlotOK, InnerFields
    <3>4. FindChild(heap[a], b) \in DOMAIN heap[a].arr /\ DOMAIN heap[a].arr \subseteq Byte
          BY <3>2, <3>3, KidsType
    <3>5. link \in Slot
          BY <3>1, <3>4 DEF Slot, LiveInner, Byte
    <3>6. link.parent = a /\ link.slot = FindChild(heap[a], b)
          BY <3>1
    <3> QED BY <3>4, <3>5, <3>6 DEF Links
  <2> QED BY <2>1, <2>2
<1>6. ASSUME link # RootLink PROVE link \in Occupied
  <2>1. root # Null
        BY <1>6 DEF IInv, WalkInv
  <2>2. Target(link) # Null
        BY <1>6, <2>1, Holder
  <2> QED BY <1>5, <2>2 DEF Occupied
<1> QED BY <1>2, <1>3, <1>4, <1>5, <1>6 DEF TreeShape

-----------------------------------------------------------------------------
(* The theorems.                                                           *)

LEMMA StutterOK ==
  ASSUME IInv, UNCHANGED vars
  PROVE  IInv' /\ (CountInv => CountInv') /\ (AbortsPastKeyEnd => AbortsPastKeyEnd')
<1>1. UNCHANGED <<heap, top, root, pc, key, link, depth, inserts>>
      BY DEF vars
<1>2. IInv'
  <2>1. WalkInv'
        BY <1>1 DEF IInv, WalkInv, LinkFine
  <2>2. TreeInv(heap, root, top)' /\ (inserts \in [Keys -> Nat])'
        BY <1>1 DEF IInv
  <2> QED BY <2>1, <2>2 DEF IInv
<1>3. CountInv => CountInv'
      BY <1>1 DEF CountInv
<1>4. AbortsPastKeyEnd => AbortsPastKeyEnd'
      BY <1>1 DEF AbortsPastKeyEnd, Cur, Target, CheckPrefix
<1> QED BY <1>2, <1>3, <1>4

(* One step of the program: the invariant, the counts and the aborts.      *)
LEMMA StepOK ==
  ASSUME IInv, CountInv, AbortsPastKeyEnd, [Next]_vars
  PROVE  IInv' /\ CountInv' /\ AbortsPastKeyEnd'
<1>1. ASSUME pc = "insert", Return, Gain PROVE CountInv' /\ AbortsPastKeyEnd'
      BY <1>1, CountInvStep DEF Return, AbortsPastKeyEnd
<1>2. ASSUME UNCHANGED <<heap, inserts>> PROVE CountInv'
      BY <1>2 DEF CountInv
<1>3. CASE \E k \in Keys : Start(k)
      BY <1>2, <1>3, StartOK DEF Start, AbortsPastKeyEnd
<1>4. CASE InsertRoot
      BY <1>1, <1>4, InsertRootOK DEF InsertRoot
<1>5. CASE LeafHit
      BY <1>1, <1>5, LeafHitOK DEF LeafHit, AtLeaf
<1>6. CASE LeafSplit
  <2>1. pc = "insert"
        BY <1>6 DEF LeafSplit, AtLeaf
  <2>2. IInv' /\ ((Return /\ Gain) \/ (Abort /\ AbortsPastKeyEnd'))
        BY <1>6, LeafSplitOK
  <2> QED BY <1>1, <1>2, <2>1, <2>2 DEF Abort
<1>7. CASE PrefixMismatch
  <2>1. pc = "insert"
        BY <1>7 DEF PrefixMismatch, AtInner
  <2>2. IInv' /\ ((Return /\ Gain) \/ (Abort /\ AbortsPastKeyEnd'))
        BY <1>7, PrefixMismatchOK
  <2> QED BY <1>1, <1>2, <2>1, <2>2 DEF Abort
<1>8. CASE Consumed
      BY <1>1, <1>8, ConsumedOK DEF Consumed, AtInner
<1>9. CASE Descend
      BY <1>2, <1>9, DescendOK DEF Descend, AtInner, AbortsPastKeyEnd
<1>10. CASE AddLeaf
       BY <1>1, <1>10, AddLeafOK DEF AddLeaf, AtInner
<1>11. CASE UNCHANGED vars
       BY <1>11, StutterOK
<1> QED BY <1>3, <1>4, <1>5, <1>6, <1>7, <1>8, <1>9, <1>10, <1>11
        DEF Next, InsertStep

THEOREM IInvAlways == Spec => [](IInv /\ CountInv /\ AbortsPastKeyEnd)
<1>1. Init => IInv /\ CountInv /\ AbortsPastKeyEnd
  <2> SUFFICES ASSUME Init PROVE IInv /\ CountInv /\ AbortsPastKeyEnd
      OBVIOUS
  <2>1. IInv /\ AbortsPastKeyEnd
        BY InitOK DEF Init, AbortsPastKeyEnd
  <2>2. ASSUME NEW n PROVE Seen(heap, n) = 0 /\ Given(inserts, n) \in Nat
    <3>1. OfLength(heap, n) = {}
          BY DEF OfLength, Leaves, Init
    <3>2. Seen(heap, n) = 0
          BY <3>1, SumEmpty DEF Seen
    <3>3. IsFiniteSet(KeysOfLength(n))
          BY FS_Subset, TreeAssumption DEF KeysOfLength
    <3>4. \A k \in KeysOfLength(n) : [x \in KeysOfLength(n) |-> inserts[x]][k] \in Nat
          BY DEF Init, KeysOfLength
    <3> QED BY <3>2, <3>3, <3>4, SumType DEF Given
  <2> QED BY <2>1, <2>2 DEF CountInv
<1>2. (IInv /\ CountInv /\ AbortsPastKeyEnd) /\ [Next]_vars
        => (IInv /\ CountInv /\ AbortsPastKeyEnd)'
      BY StepOK
<1> QED BY <1>1, <1>2, PTL DEF Spec

(* Type correctness, and no prefix outgrows prefix[].                      *)
THEOREM TypeCorrect == Spec => []TypeOK
<1> QED BY IInvAlways, TypesHold, PTL

(* However the tree was split, chained and grown, it is a tree in memory:  *)
(* no dangling link, no node with two links, and _node stays valid.        *)
THEOREM TreeStaysTree == Spec => []TreeShape
<1> QED BY IInvAlways, ShapeHolds, PTL

(* Where an assertion can fail, and that no growth makes one fail.         *)
THEOREM AbortsOnlyPastKeyEnd == Spec => []AbortsPastKeyEnd
<1> QED BY IInvAlways, PTL

(* The leaves never stand for more sightings than there were insertions.   *)
THEOREM NothingCountedTwice == Spec => []NeverOvercounts
<1> QED BY IInvAlways, CountInvIs, PTL
=============================================================================
