---------------------------- MODULE RBTreeProofs -----------------------------
(***************************************************************************)
(* Proofs about the red-black tree, for every set of structures and every  *)
(* sequence of insertions and erasures: types, that no store makes a loop, *)
(* the loop invariants, balance, order, and the iterations.                *)
(*                                                                         *)
(* The inductive invariant speaks about the stores that are still to be    *)
(* made: they lead through trees without loops to a tree as it should be   *)
(* at this point of the call.  So it is enough to look at a step of a loop *)
(* when it puts its stores into op.stores; what it puts there is in        *)
(* RBTreeLemmas.                                                           *)
(***************************************************************************)
EXTENDS RBTreeLemmas

-----------------------------------------------------------------------------
(* The inductive invariant: the stores that are pending lead, through      *)
(* trees without loops, to a tree as it should be at this point of the     *)
(* call.                                                                   *)

Calls == [pc : {"idle", "insert", "erase", "done"}, node : Ptr, parent : Ptr,
          stores : Seq(StoreSet)]

UnderWay(t, o, mem) ==
  /\ o \in Calls
  /\ o.pc \in {"idle", "done"} => o.node = Nil /\ o.parent = Nil
  /\ o.pc = "idle" => o.stores = <<>>
  /\ o.pc = "erase" => o.parent # Nil
  /\ \E u : Leads(t, o.stores, u) /\ Head_(u, o.pc, o.node, o.parent, mem)

IInv == UnderWay(tree, op, members)

LEMMA HeadType ==
  ASSUME NEW u, NEW pc, NEW node, NEW parent, NEW mem, Head_(u, pc, node, parent, mem)
  PROVE  /\ mem \subseteq Nodes /\ IsFiniteSet(mem)
         /\ pc = "insert" => node \in mem /\ parent \in mem \cup {Nil}
         /\ pc = "erase" => node \in mem \cup {Nil} /\ parent \in mem
<1>1. PICK pos, sub, bh : /\ Shape(u, mem, sub, pos)
                          /\ Colours(u, pc, node, parent, mem, bh)
      BY DEF Head_
<1>2. /\ mem \subseteq Nodes
      /\ \A n \in mem : Up(u, n) \in mem \cup {Nil}
      /\ \A n \in mem, s \in Sides : Kid(u, n, s) \in mem \cup {Nil}
      BY <1>1, SubKids
<1>3. pc = "insert" => node \in mem /\ parent \in mem \cup {Nil}
      BY <1>1, <1>2 DEF Colours
<1>4. pc = "erase" => node \in mem \cup {Nil} /\ parent \in mem
      BY <1>1, <1>2 DEF Colours
<1> QED BY <1>2, <1>3, <1>4 DEF Head_

LEMMA GoesUnderWay ==
  ASSUME NEW stores, NEW pc \in {"insert", "erase", "done"}, NEW node, NEW parent, NEW mem,
         Goes(stores, pc, node, parent, mem),
         pc = "done" => node = Nil /\ parent = Nil,
         NEW o, o = [pc |-> pc, node |-> node, parent |-> parent, stores |-> stores]
  PROVE  UnderWay(tree, o, mem)
<1>1. PICK u : Leads(tree, stores, u) /\ Head_(u, pc, node, parent, mem)
      BY DEF Goes
<1>2. stores \in Seq(StoreSet)
      BY <1>1, LeadsNow
<1>3. node \in Ptr /\ parent \in Ptr /\ (pc = "erase" => parent # Nil)
  <2>1. /\ mem \subseteq Nodes
        /\ pc = "insert" => node \in mem /\ parent \in mem \cup {Nil}
        /\ pc = "erase" => node \in mem \cup {Nil} /\ parent \in mem
        BY <1>1, HeadType
  <2> QED BY <2>1, NilIsNoNode DEF Ptr
<1>4. o \in Calls /\ o.pc = pc /\ o.node = node /\ o.parent = parent /\ o.stores = stores
  <2>1. o \in Calls
        BY <1>2, <1>3 DEF Calls
  <2> QED BY <2>1
<1>5. pc # "idle"
      OBVIOUS
<1> QED BY <1>1, <1>3, <1>4, <1>5 DEF UnderWay

LEMMA ContinueKeeps ==
  ASSUME NEW stores, NEW pc \in {"insert", "erase", "done"}, NEW node, NEW parent,
         Goes(stores, pc, node, parent, members),
         pc = "done" => node = Nil /\ parent = Nil,
         Continue(pc, node, parent, stores)
  PROVE  IInv'
<1>1. PICK o : o = [pc |-> pc, node |-> node, parent |-> parent, stores |-> stores]
      OBVIOUS
<1>2. UnderWay(tree, o, members)
      BY <1>1, GoesUnderWay
<1>3. tree' = tree /\ members' = members /\ op' = o
      BY <1>1 DEF Continue
<1> QED BY <1>2, <1>3 DEF IInv

(* When no store is pending, memory is as it should be.                    *)
LEMMA AtHead ==
  ASSUME IInv, op.stores = <<>>
  PROVE  /\ tree \in Trees /\ Ranked(tree)
         /\ Head_(tree, op.pc, op.node, op.parent, members)
<1>1. PICK u : /\ Leads(tree, op.stores, u)
               /\ Head_(u, op.pc, op.node, op.parent, members)
      BY DEF IInv, UnderWay
<1>2. tree \in Trees /\ Ranked(tree) /\ tree = u
      BY <1>1, LeadsNow
<1> QED BY <1>1, <1>2

LEMMA StoreKeeps ==
  ASSUME IInv, Store
  PROVE  IInv'
<1>1. PICK u : /\ Leads(tree, op.stores, u)
               /\ Head_(u, op.pc, op.node, op.parent, members)
      BY DEF IInv, UnderWay
<1>2. PICK s : s = op.stores
      OBVIOUS
<1>3. s # <<>> /\ tree' = Exec(tree, Head(s)) /\ members' = members
      BY <1>2, ExecutedIs DEF Store
<1>4. Leads(tree', Tail(s), u)
  <2>1. Leads(tree, s, u)
        BY <1>1, <1>2
  <2>2. Leads(Exec(tree, Head(s)), Tail(s), u)
        BY <1>3, <2>1, LeadsTail
  <2> QED BY <1>3, <2>2
<1>5. PICK q : q = Tail(s)
      OBVIOUS
<1>6. Leads(tree', q, u) /\ q \in Seq(StoreSet)
      BY <1>4, <1>5, LeadsNow
<1>7. op' = [op EXCEPT !.stores = q]
      BY <1>2, <1>5 DEF Store
<1>8. op \in Calls /\ op.pc # "idle"
      BY <1>2, <1>3 DEF IInv, UnderWay
<1>9. /\ op' \in Calls /\ op'.pc = op.pc /\ op'.node = op.node /\ op'.parent = op.parent
      /\ op'.stores = q
      BY <1>6, <1>7, <1>8 DEF Calls
<1>10. UnderWay(tree', op', members')
  <2>1. PICK o, t : o = op' /\ t = tree'
        OBVIOUS
  <2>2. /\ o \in Calls /\ o.pc = op.pc /\ o.node = op.node /\ o.parent = op.parent
        /\ o.stores = q /\ Leads(t, q, u)
        BY <1>6, <1>9, <2>1
  <2>3. UnderWay(tree, op, members)
        BY DEF IInv
  <2>4. UnderWay(t, o, members)
        BY <1>1, <1>8, <2>2, <2>3 DEF UnderWay
  <2> QED BY <1>3, <2>1, <2>4
<1> QED BY <1>10 DEF IInv

(* A node that has returned to its owner is cleared.                       *)
LEMMA ReturnKeeps ==
  ASSUME IInv, Return
  PROVE  IInv'
<1>1. op.pc = "done" /\ op.stores = <<>> /\ op' = Idle /\ members' = members
      BY DEF Return
<1>2. /\ tree \in Trees /\ Ranked(tree)
      /\ Head_(tree, "done", Nil, Nil, members)
  <2>1. op.node = Nil /\ op.parent = Nil
        BY <1>1 DEF IInv, UnderWay
  <2> QED BY <1>1, <2>1, AtHead
<1>3. PICK pos, sub, bh : /\ Shape(tree, members, sub, pos)
                          /\ Keyed => Sorted(members, pos)
                          /\ LeftmostOf(tree, members, pos)
                          /\ Colours(tree, "done", Nil, Nil, members, bh)
      BY <1>2 DEF Head_
<1>4. PICK N : N = [n \in Nodes |-> IF n \in members THEN tree.node[n] ELSE Unlinked]
      OBVIOUS
<1>5. PICK t : t = [tree EXCEPT !.node = N]
      OBVIOUS
<1>6. tree' = t
      BY <1>4, <1>5 DEF Return
<1>7. /\ N \in [Nodes -> [left : Ptr, right : Ptr, parent : Ptr, red : BOOLEAN]]
      /\ \A n \in members : n \in Nodes => N[n] = tree.node[n]
      /\ \A n \in Nodes \ members : N[n] = Unlinked
  <2>1. Unlinked \in [left : Ptr, right : Ptr, parent : Ptr, red : BOOLEAN]
        BY DEF Unlinked, Ptr
  <2>2. \A n \in Nodes : tree.node[n] \in [left : Ptr, right : Ptr, parent : Ptr, red : BOOLEAN]
        BY <1>2 DEF Trees
  <2> HIDE DEF Unlinked
  <2> QED BY <1>4, <2>1, <2>2
<1>8. t \in Trees /\ t.node = N /\ t.root = tree.root /\ t.leftmost = tree.leftmost
      BY <1>2, <1>5, <1>7 DEF Trees
<1>9. /\ members \subseteq Nodes /\ Nil \notin Nodes
      /\ \A m \in members, s \in Sides : Kid(tree, m, s) \in members \cup {Nil}
      BY <1>3, SubKids
<1>10. /\ \A m \in members, s \in Sides : Kid(t, m, s) = Kid(tree, m, s)
       /\ \A m \in members : Up(t, m) = Up(tree, m) /\ Hue(t, m) = Hue(tree, m)
       BY <1>7, <1>8, <1>9 DEF Kid, Up, Hue
<1>11. \A m \in Nodes \ members, s \in Sides : Kid(t, m, s) = Nil
  <2>1. Unlinked.left = Nil /\ Unlinked.right = Nil
        BY DEF Unlinked
  <2>2. \A m \in Nodes \ members : t.node[m] = Unlinked
        BY <1>7, <1>8
  <2>3. \A m \in Nodes \ members : t.node[m].left = Nil /\ t.node[m].right = Nil
        BY <2>1, <2>2
  <2> QED BY <2>3 DEF Kid, Sides
<1>12. Ranked(t)
  <2>1. PICK r \in [Nodes -> Nat] : Ranks(r, tree)
        BY <1>2 DEF Ranked
  <2>2. Ranks(r, t)
        BY <1>9, <1>10, <1>11, <2>1 DEF Ranks
  <2> QED BY <2>2, RanksRanked
<1>13. \E sub2 : Shape(t, members, sub2, pos)
  <2>1. ASSUME NEW m \in members PROVE LinksAt(t, members, m) /\ SplitAt(t, sub, pos, m)
    <3>1. LinksAt(tree, members, m) /\ SplitAt(tree, sub, pos, m)
          BY <1>3 DEF Shape
    <3>2. SplitAt(t, sub, pos, m)
          BY <1>10, <3>1, OtherSide DEF SplitAt
    <3>3. LinksAt(t, members, m)
      <4>1. \A s \in Sides : Kid(tree, m, s) # Nil => Kid(tree, m, s) \in members
            BY <1>9
      <4> QED BY <1>8, <1>10, <3>1, <4>1 DEF LinksAt
    <3> QED BY <3>2, <3>3
  <2>2. Shape(t, members, sub, pos)
    <3>1. tree.root # Nil => tree.root \in members
          BY <1>3 DEF Shape
    <3> QED BY <1>3, <1>8, <1>10, <2>1, <3>1 DEF Shape
  <2> QED BY <2>2
<1>14. PICK idle : idle = "idle"
       OBVIOUS
<1>15. Colours(t, idle, Nil, Nil, members, bh)
  <2>1. /\ Bal(tree, members, bh, Nil, "left") /\ NoRedRed(tree, members, Nil)
        /\ ~ Red(tree, tree.root) /\ tree.root \in members \cup {Nil}
        BY <1>3 DEF Colours, Shape
  <2>2. \A m \in members \cup {Nil} : Red(t, m) <=> Red(tree, m)
        BY <1>10 DEF Red
  <2>3. Bal(t, members, bh, Nil, "left")
        BY <1>10, <2>1 DEF Bal
  <2>4. NoRedRed(t, members, Nil)
        BY <1>9, <1>10, <2>1, <2>2 DEF NoRedRed
  <2>5. ~ Red(t, t.root)
        BY <1>8, <2>1, <2>2
  <2> QED BY <1>14, <2>3, <2>4, <2>5 DEF Colours
<1>16. Head_(t, idle, Nil, Nil, members)
  <2>1. Loose(t, idle, members)
        BY <1>11 DEF Loose
  <2>2. LeftmostOf(t, members, pos)
        BY <1>3, <1>8 DEF LeftmostOf
  <2>3. IsFiniteSet(members)
        BY <1>2 DEF Head_
  <2> QED BY <1>3, <1>13, <1>15, <2>1, <2>2, <2>3 DEF Head_
<1>17. Leads(t, <<>>, t)
       BY <1>8, <1>12, LeadsNil
<1>18. PICK o : o = op'
       OBVIOUS
<1>19. o \in Calls /\ o.pc = idle /\ o.node = Nil /\ o.parent = Nil /\ o.stores = <<>>
  <2>1. o = [pc |-> "idle", node |-> Nil, parent |-> Nil, stores |-> <<>>]
        BY <1>1, <1>18 DEF Idle
  <2>2. Nil \in Ptr /\ <<>> \in Seq(StoreSet)
        BY DEF Ptr
  <2> QED BY <1>14, <2>1, <2>2 DEF Calls
<1>20. UnderWay(t, o, members)
       BY <1>14, <1>16, <1>17, <1>19 DEF UnderWay
<1> QED BY <1>1, <1>6, <1>18, <1>20 DEF IInv

-----------------------------------------------------------------------------
(* Every action keeps the invariant.                                       *)

LEMMA InitInv == Init => IInv
<1> SUFFICES ASSUME Init PROVE IInv
    OBVIOUS
<1>1. tree = EmptyTree /\ op = Idle /\ members = {}
      BY DEF Init
<1>2. Nil \in Ptr /\ Nil \notin Nodes /\ Nodes \subseteq Ptr
      BY NilIsNoNode DEF Ptr
<1>3. PICK N : N = [n \in Nodes |-> Unlinked]
      OBVIOUS
<1>4. PICK t : t = tree
      OBVIOUS
<1>5. /\ N \in [Nodes -> [left : Ptr, right : Ptr, parent : Ptr, red : BOOLEAN]]
      /\ \A n \in Nodes : N[n] = Unlinked
  <2>1. Unlinked \in [left : Ptr, right : Ptr, parent : Ptr, red : BOOLEAN]
        BY <1>2 DEF Unlinked
  <2> HIDE DEF Unlinked
  <2> QED BY <1>3, <2>1
<1>6. t \in Trees /\ t.root = Nil /\ t.leftmost = Nil /\ t.node = N
  <2>1. t = [root |-> Nil, leftmost |-> Nil, node |-> N]
        BY <1>1, <1>3, <1>4 DEF EmptyTree
  <2> QED BY <1>2, <1>5, <2>1 DEF Trees
<1>7. \A m \in Nodes, s \in Sides : Kid(t, m, s) = Nil
  <2>1. Unlinked.left = Nil /\ Unlinked.right = Nil
        BY DEF Unlinked
  <2>2. \A m \in Nodes : t.node[m].left = Nil /\ t.node[m].right = Nil
        BY <1>5, <1>6, <2>1
  <2> QED BY <2>2 DEF Kid, Sides
<1>8. PICK pos, sub, bh, r :
        /\ pos = [n \in Nodes |-> 0] /\ sub = [n \in Ptr |-> {}] /\ bh = [n \in Ptr |-> 0]
        /\ r = [n \in Nodes |-> 0]
      OBVIOUS
<1>9. Ranked(t)
  <2>1. Ranks(r, t)
        BY <1>2, <1>7, <1>8 DEF Ranks
  <2> QED BY <2>1, RanksRanked
<1>10. PICK mem : mem = members
       OBVIOUS
<1>11. mem = {}
       BY <1>1, <1>10
<1>12. Shape(t, mem, sub, pos)
       BY <1>2, <1>6, <1>8, <1>11 DEF Shape
<1>13. LeftmostOf(t, mem, pos) /\ Sorted(mem, pos)
       BY <1>6, <1>11 DEF LeftmostOf, Sorted
<1>14. PICK idle : idle = "idle"
       OBVIOUS
<1>15. Colours(t, idle, Nil, Nil, mem, bh)
  <2>1. Bal(t, mem, bh, Nil, "left")
        BY <1>2, <1>8, <1>11 DEF Bal
  <2>2. NoRedRed(t, mem, Nil) /\ ~ Red(t, t.root)
        BY <1>6, <1>11 DEF NoRedRed, Red
  <2> QED BY <1>14, <2>1, <2>2 DEF Colours
<1>16. Head_(t, idle, Nil, Nil, mem)
  <2>1. Loose(t, idle, mem)
        BY <1>7 DEF Loose
  <2>2. IsFiniteSet(mem)
        BY <1>11, FS_EmptySet
  <2> QED BY <1>12, <1>13, <1>15, <2>1, <2>2 DEF Head_
<1>17. PICK o : o = op
       OBVIOUS
<1>18. o \in Calls /\ o.pc = idle /\ o.node = Nil /\ o.parent = Nil /\ o.stores = <<>>
  <2>1. o = [pc |-> "idle", node |-> Nil, parent |-> Nil, stores |-> <<>>]
        BY <1>1, <1>17 DEF Idle
  <2>2. <<>> \in Seq(StoreSet)
        OBVIOUS
  <2> QED BY <1>2, <1>14, <2>1, <2>2 DEF Calls
<1>19. Leads(t, <<>>, t)
       BY <1>6, <1>9, LeadsNil
<1>20. UnderWay(t, o, mem)
       BY <1>14, <1>16, <1>18, <1>19 DEF UnderWay
<1> QED BY <1>4, <1>10, <1>17, <1>20 DEF IInv

LEMMA AddKeeps ==
  ASSUME IInv, NEW n \in Nodes \ members, Add(n)
  PROVE  IInv'
<1>1. PICK at : at = Search(n)
      OBVIOUS
<1>2. /\ op.pc = "idle" /\ at.found = Nil /\ members' = members \cup {n} /\ tree' = tree
      /\ op' = [pc |-> "insert", node |-> n, parent |-> at.parent, stores |-> Link(n, at)]
      BY <1>1 DEF Add
<1>3. op.stores = <<>>
      BY <1>2 DEF IInv, UnderWay
<1>4. /\ tree \in Trees /\ Ranked(tree)
      /\ Head_(tree, "idle", op.node, op.parent, members)
      BY <1>2, <1>3, AtHead
<1>5. PICK q, p, mem : q = Link(n, at) /\ p = at.parent /\ mem = members \cup {n}
      OBVIOUS
<1>6. Goes(q, "insert", n, p, mem)
  <2>1. Goes(Link(n, at), "insert", n, at.parent, members \cup {n})
        BY <1>1, <1>2, <1>4, AddGoes
  <2> QED BY <1>5, <2>1
<1>7. PICK o : o = op'
      OBVIOUS
<1>8. o = [pc |-> "insert", node |-> n, parent |-> p, stores |-> q]
      BY <1>2, <1>5, <1>7
<1>9. UnderWay(tree, o, mem)
      BY <1>6, <1>8, GoesUnderWay
<1> QED BY <1>2, <1>5, <1>7, <1>9 DEF IInv

LEMMA EraseKeeps ==
  ASSUME IInv, NEW n \in members, Erase(n)
  PROVE  IInv'
<1>1. PICK erased : erased = IF Nil \in {Child(n, "left"), Child(n, "right")}
                             THEN Bypass(n) ELSE Replace(n)
      OBVIOUS
<1>2. PICK first : first = IF tree.leftmost = n
                           THEN <<[field |-> "leftmost", to |-> Next_(n)]>> ELSE <<>>
      OBVIOUS
<1>3. PICK up, pc, q : /\ up = erased.rebalance
                       /\ pc = IF up = Nil THEN "done" ELSE "erase"
                       /\ q = first \o erased.stores
      OBVIOUS
<1>4. /\ op.pc = "idle" /\ members' = members \ {n} /\ tree' = tree
      /\ op' = [pc |-> pc, node |-> Nil, parent |-> up, stores |-> q]
      BY <1>1, <1>2, <1>3, Zenon DEF Erase
<1>5. op.stores = <<>>
      BY <1>4 DEF IInv, UnderWay
<1>6. /\ tree \in Trees /\ Ranked(tree)
      /\ Head_(tree, "idle", op.node, op.parent, members)
      BY <1>4, <1>5, AtHead
<1>7. Goes(q, pc, Nil, up, members \ {n})
  <2>1. CASE Nil \in {Child(n, "left"), Child(n, "right")}
    <3>1. erased = Bypass(n)
          BY <1>1, <2>1
    <3>2. \A f, y, w : /\ f = (IF tree.leftmost = n
                               THEN <<[field |-> "leftmost", to |-> Next_(n)]>> ELSE <<>>)
                       /\ y = Bypass(n).rebalance
                       /\ w = (IF y = Nil THEN "done" ELSE "erase")
                       => Goes(f \o Bypass(n).stores, w, Nil, y, members \ {n})
          BY <1>6, <2>1, BypassGoes, Zenon
    <3> QED BY <1>2, <1>3, <3>1, <3>2, Zenon
  <2>2. CASE Nil \notin {Child(n, "left"), Child(n, "right")}
    <3>1. erased = Replace(n)
          BY <1>1, <2>2
    <3>2. \A y, w : /\ y = Replace(n).rebalance
                    /\ w = (IF y = Nil THEN "done" ELSE "erase")
                    => /\ tree.leftmost # n
                       /\ Goes(Replace(n).stores, w, Nil, y, members \ {n})
          BY <1>6, <2>2, ReplaceGoes, Zenon
    <3>3. tree.leftmost # n /\ Goes(erased.stores, pc, Nil, up, members \ {n})
          BY <1>3, <3>1, <3>2, Zenon
    <3>4. PICK s : s = erased.stores
          OBVIOUS
    <3>5. first = <<>> /\ s \in Seq(StoreSet)
      <4>1. \E u : Leads(tree, s, u)
            BY <3>3, <3>4 DEF Goes
      <4> QED BY <1>2, <3>3, <4>1, LeadsNow
    <3>6. q = s
      <4>1. q = <<>> \o s
            BY <1>3, <3>4, <3>5
      <4> QED BY <3>5, <4>1
    <3> QED BY <3>3, <3>4, <3>6
  <2> QED BY <2>1, <2>2
<1>8. pc \in {"erase", "done"} /\ (pc = "done" => up = Nil)
      BY <1>3
<1>9. PICK o, mem, w, y : o = op' /\ mem = members \ {n} /\ w = pc /\ y = up
      OBVIOUS
<1>10. UnderWay(tree, o, mem)
  <2>1. /\ o = [pc |-> w, node |-> Nil, parent |-> y, stores |-> q]
        /\ Goes(q, w, Nil, y, mem) /\ w \in {"insert", "erase", "done"}
        /\ w = "done" => y = Nil
        BY <1>4, <1>7, <1>8, <1>9
  <2> QED BY <2>1, GoesUnderWay
<1> QED BY <1>4, <1>9, <1>10 DEF IInv

-----------------------------------------------------------------------------
(* The steps of the loops.                                                 *)

LEMMA InsertHead ==
  ASSUME IInv, NEW node, NEW parent, Inserting(node, parent)
  PROVE  /\ tree \in Trees /\ Ranked(tree)
         /\ Head_(tree, "insert", node, parent, members)
BY AtHead DEF Inserting

LEMMA EraseHead ==
  ASSUME IInv, NEW node, NEW parent, Recolouring(node, parent)
  PROVE  /\ tree \in Trees /\ Ranked(tree)
         /\ Head_(tree, "erase", node, parent, members)
BY AtHead DEF Recolouring

LEMMA InsertDoneKeeps ==
  ASSUME IInv, NEW node, NEW parent, InsertDone(node, parent)
  PROVE  IInv'
<1>1. PICK q : q = IF parent = Nil THEN SetParentColor(node, Nil, FALSE) ELSE <<>>
      OBVIOUS
<1>2. Inserting(node, parent) /\ ~ Red(tree, parent) /\ Continue("done", Nil, Nil, q)
      BY <1>1, Reads DEF InsertDone
<1>3. Goes(q, "done", Nil, Nil, members)
  <2>1. /\ tree \in Trees /\ Ranked(tree)
        /\ Head_(tree, "insert", node, parent, members)
        BY <1>2, InsertHead
  <2>2. Goes(IF parent = Nil THEN SetParentColor(node, Nil, FALSE) ELSE <<>>,
             "done", Nil, Nil, members)
        BY <1>2, <2>1, InsertDoneGoes
  <2> QED BY <1>1, <2>2
<1> QED BY <1>2, <1>3, ContinueKeeps

(* The grandparent, and the side of it that the parent is on.              *)
LEMMA GparentIs ==
  ASSUME NEW mem, NEW node, NEW parent, Head_(tree, "insert", node, parent, mem),
         Red(tree, parent), NEW g, g = Up(tree, parent),
         NEW side, side = IF parent # Kid(tree, g, "right") THEN "left" ELSE "right"
  PROVE  /\ side \in Sides /\ Kid(tree, g, side) = parent
         /\ \E s \in Sides : Kid(tree, parent, s) = node
<1>1. PICK pos, sub, bh : /\ Shape(tree, mem, sub, pos)
                          /\ Colours(tree, "insert", node, parent, mem, bh)
      BY DEF Head_
<1>2. parent \in mem /\ g # Nil /\ \E s \in Sides : Kid(tree, parent, s) = node
      BY <1>1, InsertAround
<1> QED BY <1>1, <1>2, SideIs

LEMMA InsertFlipKeeps ==
  ASSUME IInv, NEW node, NEW parent, InsertFlip(node, parent)
  PROVE  IInv'
<1>1. PICK g, up : g = Up(tree, parent) /\ up = Up(tree, g)
      OBVIOUS
<1>2. PICK uncle : uncle = IF parent # Kid(tree, g, "right")
                           THEN Kid(tree, g, "right") ELSE Kid(tree, g, "left")
      OBVIOUS
<1>3. PICK q : q = SetParentColor(uncle, g, FALSE) \o SetParentColor(parent, g, FALSE)
                     \o SetParentColor(g, up, TRUE)
      OBVIOUS
<1>4. PICK side : side = IF parent # Kid(tree, g, "right") THEN "left" ELSE "right"
      OBVIOUS
<1>5. /\ Inserting(node, parent) /\ Red(tree, parent) /\ Red(tree, uncle)
      /\ Continue("insert", g, up, q)
      BY <1>1, <1>2, <1>3, Reads, Zenon DEF InsertFlip
<1>6. /\ tree \in Trees /\ Ranked(tree)
      /\ Head_(tree, "insert", node, parent, members)
      BY <1>5, InsertHead
<1>7. side \in Sides /\ Kid(tree, g, side) = parent
      BY <1>1, <1>4, <1>5, <1>6, GparentIs
<1>8. uncle = Kid(tree, g, Other(side))
      BY <1>2, <1>4 DEF Other
<1>9. Goes(q, "insert", g, up, members)
  <2>1. Goes(SetParentColor(uncle, g, FALSE) \o SetParentColor(parent, g, FALSE)
               \o SetParentColor(g, Up(tree, g), TRUE),
             "insert", g, Up(tree, g), members)
        BY <1>1, <1>5, <1>6, <1>7, <1>8, InsertFlipGoes
  <2> QED BY <1>1, <1>3, <2>1
<1> QED BY <1>5, <1>9, ContinueKeeps

LEMMA InsertRotateKeeps ==
  ASSUME IInv, NEW node, NEW parent, InsertRotate(node, parent)
  PROVE  IInv'
<1>1. PICK g : g = Up(tree, parent)
      OBVIOUS
<1>2. PICK side : side = IF parent # Kid(tree, g, "right") THEN "left" ELSE "right"
      OBVIOUS
<1>3. PICK far : far = Other(side)
      OBVIOUS
<1>4. PICK q : q = IF node = Kid(tree, parent, far)
                   THEN RotateAtParent(node, parent, side)
                          \o RotateAtGparent(node, g, side, Kid(tree, node, far))
                   ELSE RotateAtGparent(parent, g, side, Kid(tree, parent, far))
      OBVIOUS
<1>5. /\ Inserting(node, parent) /\ Red(tree, parent) /\ ~ Red(tree, Kid(tree, g, far))
      /\ Continue("done", Nil, Nil, q)
      BY <1>1, <1>2, <1>3, <1>4, Reads, Zenon DEF InsertRotate
<1>6. /\ tree \in Trees /\ Ranked(tree)
      /\ Head_(tree, "insert", node, parent, members)
      BY <1>5, InsertHead
<1>7. /\ side \in Sides /\ Kid(tree, g, side) = parent
      /\ \E s \in Sides : Kid(tree, parent, s) = node
      BY <1>1, <1>2, <1>5, <1>6, GparentIs
<1>8. Goes(q, "done", Nil, Nil, members)
  <2>1. CASE node = Kid(tree, parent, far)
    <3>1. PICK near, inner : near = Kid(tree, node, side) /\ inner = Kid(tree, node, far)
          OBVIOUS
    <3>2. Goes(RotateAtParent(node, parent, side) \o RotateAtGparent(node, g, side, inner),
               "done", Nil, Nil, members)
          BY <1>1, <1>3, <1>5, <1>6, <1>7, <2>1, <3>1, InsertTwiceGoes
    <3> QED BY <1>4, <2>1, <3>1, <3>2, Zenon
  <2>2. CASE node # Kid(tree, parent, far)
    <3>1. PICK inner : inner = Kid(tree, parent, far)
          OBVIOUS
    <3>2. Kid(tree, parent, side) = node
          BY <1>3, <1>7, <2>2, OtherSide
    <3>3. Goes(RotateAtGparent(parent, g, side, inner), "done", Nil, Nil, members)
          BY <1>1, <1>3, <1>5, <1>6, <1>7, <3>1, <3>2, InsertOnceGoes
    <3> QED BY <1>4, <2>2, <3>1, <3>3, Zenon
  <2> QED BY <2>1, <2>2
<1> QED BY <1>5, <1>8, ContinueKeeps

LEMMA EraseRotateSiblingKeeps ==
  ASSUME IInv, NEW node, NEW parent, EraseRotateSibling(node, parent)
  PROVE  IInv'
<1>1. PICK side : side = IF node # Kid(tree, parent, "right") THEN "left" ELSE "right"
      OBVIOUS
<1>2. PICK far : far = Other(side)
      OBVIOUS
<1>3. PICK sibling : sibling = Kid(tree, parent, far)
      OBVIOUS
<1>4. PICK tmp1 : tmp1 = Kid(tree, sibling, side)
      OBVIOUS
<1>5. PICK q : q = SetChild(parent, far, tmp1) \o SetChild(sibling, side, parent)
                     \o SetParentColor(tmp1, parent, FALSE)
                     \o RotateSetParents(parent, sibling, TRUE)
      OBVIOUS
<1>6. side = SideOf(node, parent)
      BY <1>1, Reads DEF SideOf
<1>7. /\ Recolouring(node, parent) /\ Red(tree, sibling)
      /\ Continue("erase", node, parent, q)
      BY <1>2, <1>3, <1>4, <1>5, <1>6, Reads, Zenon DEF EraseRotateSibling
<1>8. /\ tree \in Trees /\ Ranked(tree)
      /\ Head_(tree, "erase", node, parent, members)
      BY <1>7, EraseHead
<1>9. Goes(q, "erase", node, parent, members)
  <2>1. Goes(SetChild(parent, far, tmp1) \o SetChild(sibling, side, parent)
               \o SetParentColor(tmp1, parent, FALSE)
               \o RotateSetParents(parent, sibling, TRUE),
             "erase", node, parent, members)
    <3>1. Red(tree, sibling)
          BY <1>7
    <3> QED BY <1>1, <1>2, <1>3, <1>4, <1>8, <3>1, EraseRotateSiblingGoes, ZenonT(40)
  <2> QED BY <1>5, <2>1
<1> QED BY <1>7, <1>9, ContinueKeeps

LEMMA EraseFlipKeeps ==
  ASSUME IInv, NEW node, NEW parent, EraseFlip(node, parent)
  PROVE  IInv'
<1>1. PICK side : side = IF node # Kid(tree, parent, "right") THEN "left" ELSE "right"
      OBVIOUS
<1>2. PICK sibling : sibling = Kid(tree, parent, Other(side))
      OBVIOUS
<1>3. PICK q, up : q = SetParentColor(sibling, parent, TRUE) /\ up = Up(tree, parent)
      OBVIOUS
<1>4. PICK q2 : q2 = SetParentColor(sibling, parent, TRUE)
                      \o SetParentColor(parent, up, FALSE)
      OBVIOUS
<1>5. side = SideOf(node, parent)
      BY <1>1, Reads DEF SideOf
<1>6. /\ Recolouring(node, parent) /\ ~ Red(tree, sibling)
      /\ ~ Red(tree, Kid(tree, sibling, "left")) /\ ~ Red(tree, Kid(tree, sibling, "right"))
      /\ Red(tree, parent) => Continue("done", Nil, Nil, q2)
      /\ ~ Red(tree, parent) /\ up = Nil => Continue("done", Nil, Nil, q)
      /\ ~ Red(tree, parent) /\ up # Nil => Continue("erase", parent, up, q)
  <2>1. /\ Recolouring(node, parent) /\ ~ Red(tree, sibling)
        /\ ~ Red(tree, Kid(tree, sibling, "left")) /\ ~ Red(tree, Kid(tree, sibling, "right"))
        /\ IF Red(tree, parent) THEN Continue("done", Nil, Nil, q2)
           ELSE IF up = Nil THEN Continue("done", Nil, Nil, q)
           ELSE Continue("erase", parent, up, q)
        BY <1>2, <1>3, <1>4, <1>5, Reads, Zenon DEF EraseFlip
  <2> QED BY <2>1, Zenon
<1>7. /\ tree \in Trees /\ Ranked(tree)
      /\ Head_(tree, "erase", node, parent, members)
      BY <1>6, EraseHead
<1>8. \A s \in Sides : ~ Red(tree, Kid(tree, sibling, s))
      BY <1>6 DEF Sides
<1>9. /\ Red(tree, parent) => Goes(q2, "done", Nil, Nil, members)
      /\ ~ Red(tree, parent) /\ up = Nil => Goes(q, "done", Nil, Nil, members)
      /\ ~ Red(tree, parent) /\ up # Nil => Goes(q, "erase", parent, up, members)
  <2>1. /\ Red(tree, parent) =>
              Goes(SetParentColor(sibling, parent, TRUE)
                     \o SetParentColor(parent, Up(tree, parent), FALSE),
                   "done", Nil, Nil, members)
        /\ ~ Red(tree, parent) /\ Up(tree, parent) = Nil =>
              Goes(SetParentColor(sibling, parent, TRUE), "done", Nil, Nil, members)
        /\ ~ Red(tree, parent) /\ Up(tree, parent) # Nil =>
              Goes(SetParentColor(sibling, parent, TRUE),
                   "erase", parent, Up(tree, parent), members)
        BY <1>1, <1>2, <1>6, <1>7, <1>8, EraseFlipGoes
  <2>2. q2 = SetParentColor(sibling, parent, TRUE)
               \o SetParentColor(parent, Up(tree, parent), FALSE)
        BY <1>3, <1>4
  <2>3. q = SetParentColor(sibling, parent, TRUE) /\ up = Up(tree, parent)
        BY <1>3
  <2>4. Red(tree, parent) => Goes(q2, "done", Nil, Nil, members)
        BY <2>1, <2>2
  <2>5. ~ Red(tree, parent) /\ up = Nil => Goes(q, "done", Nil, Nil, members)
        BY <2>1, <2>3
  <2>6. ~ Red(tree, parent) /\ up # Nil => Goes(q, "erase", parent, up, members)
        BY <2>1, <2>3
  <2> QED BY <2>4, <2>5, <2>6
<1>10. CASE Red(tree, parent)
       BY <1>6, <1>9, <1>10, ContinueKeeps
<1>11. CASE ~ Red(tree, parent) /\ up = Nil
       BY <1>6, <1>9, <1>11, ContinueKeeps
<1>12. CASE ~ Red(tree, parent) /\ up # Nil
       BY <1>6, <1>9, <1>12, ContinueKeeps
<1> QED BY <1>10, <1>11, <1>12

LEMMA EraseRotateKeeps ==
  ASSUME IInv, NEW node, NEW parent, EraseRotate(node, parent)
  PROVE  IInv'
<1>1. PICK side : side = IF node # Kid(tree, parent, "right") THEN "left" ELSE "right"
      OBVIOUS
<1>2. PICK far : far = Other(side)
      OBVIOUS
<1>3. PICK sibling : sibling = Kid(tree, parent, far)
      OBVIOUS
<1>4. PICK outer, inner : outer = Kid(tree, sibling, far) /\ inner = Kid(tree, sibling, side)
      OBVIOUS
<1>5. PICK q : q = SiblingUp(parent, sibling, side, outer, inner)
      OBVIOUS
<1>6. side = SideOf(node, parent)
      BY <1>1, Reads DEF SideOf
<1>7. /\ Recolouring(node, parent) /\ ~ Red(tree, sibling) /\ Red(tree, outer)
      /\ Continue("done", Nil, Nil, q)
      BY <1>2, <1>3, <1>4, <1>5, <1>6, Reads, Zenon DEF EraseRotate
<1>8. /\ tree \in Trees /\ Ranked(tree)
      /\ Head_(tree, "erase", node, parent, members)
      BY <1>7, EraseHead
<1>9. Goes(q, "done", Nil, Nil, members)
  <2>1. Goes(SiblingUp(parent, sibling, side, outer, inner), "done", Nil, Nil, members)
        BY <1>1, <1>2, <1>3, <1>4, <1>7, <1>8, EraseRotateGoes
  <2> QED BY <1>5, <2>1
<1> QED BY <1>7, <1>9, ContinueKeeps

LEMMA EraseRotateTwiceKeeps ==
  ASSUME IInv, NEW node, NEW parent, EraseRotateTwice(node, parent)
  PROVE  IInv'
<1>1. PICK side : side = IF node # Kid(tree, parent, "right") THEN "left" ELSE "right"
      OBVIOUS
<1>2. PICK far : far = Other(side)
      OBVIOUS
<1>3. PICK sibling : sibling = Kid(tree, parent, far)
      OBVIOUS
<1>4. PICK near : near = Kid(tree, sibling, side)
      OBVIOUS
<1>5. PICK tmp1 : tmp1 = Kid(tree, near, far)
      OBVIOUS
<1>6. PICK q : q = SetChild(sibling, side, tmp1) \o SetChild(near, far, sibling)
                     \o SetChild(parent, far, near)
                     \o IfNode(tmp1, SetParentColor(tmp1, sibling, FALSE))
                     \o SiblingUp(parent, near, side, sibling, Kid(tree, near, side))
      OBVIOUS
<1>7. side = SideOf(node, parent)
      BY <1>1, Reads DEF SideOf
<1>8. /\ Recolouring(node, parent) /\ ~ Red(tree, sibling)
      /\ ~ Red(tree, Kid(tree, sibling, far)) /\ Red(tree, near)
      /\ Continue("done", Nil, Nil, q)
      BY <1>2, <1>3, <1>4, <1>5, <1>6, <1>7, Reads, Zenon DEF EraseRotateTwice
<1>9. /\ tree \in Trees /\ Ranked(tree)
      /\ Head_(tree, "erase", node, parent, members)
      BY <1>8, EraseHead
<1>10. Goes(q, "done", Nil, Nil, members)
  <2>1. Goes(TwiceUp(parent, sibling, near, side, far, tmp1), "done", Nil, Nil, members)
        BY <1>1, <1>2, <1>3, <1>4, <1>5, <1>8, <1>9, EraseRotateTwiceGoes
  <2> QED BY <1>6, <2>1 DEF TwiceUp
<1> QED BY <1>8, <1>10, ContinueKeeps

(* The stores that are pending always lead, through trees without loops,   *)
(* to the tree that the code should have at this point of the call: shape, *)
(* colours, order and the cached leftmost node, up to the one flaw that    *)
(* the loop of __rb_insert() or ____rb_erase_color() is about to mend.     *)
THEOREM Invariant == Spec => []IInv
<1>1. Init => IInv
      BY InitInv
<1>2. IInv /\ [Next]_vars => IInv'
  <2> SUFFICES ASSUME IInv, [Next]_vars PROVE IInv'
      OBVIOUS
  <2>1. ASSUME NEW n \in Nodes \ members, Add(n) PROVE IInv'
        BY <2>1, AddKeeps
  <2>2. ASSUME NEW n \in members, Erase(n) PROVE IInv'
        BY <2>2, EraseKeeps
  <2>3. CASE Store
        BY <2>3, StoreKeeps
  <2>4. ASSUME NEW node \in Nodes \cup {Nil}, NEW parent \in Nodes \cup {Nil},
               \/ InsertDone(node, parent)
               \/ InsertFlip(node, parent)
               \/ InsertRotate(node, parent)
               \/ EraseRotateSibling(node, parent)
               \/ EraseFlip(node, parent)
               \/ EraseRotate(node, parent)
               \/ EraseRotateTwice(node, parent)
        PROVE  IInv'
        BY <2>4, InsertDoneKeeps, InsertFlipKeeps, InsertRotateKeeps,
           EraseRotateSiblingKeeps, EraseFlipKeeps, EraseRotateKeeps, EraseRotateTwiceKeeps
  <2>5. CASE Return
        BY <2>5, ReturnKeeps
  <2>6. CASE UNCHANGED vars
        BY <2>6 DEF vars, IInv
  <2> QED BY <2>1, <2>2, <2>3, <2>4, <2>5, <2>6 DEF Next, Step, Rebalance
<1> QED BY <1>1, <1>2, PTL DEF Spec

-----------------------------------------------------------------------------
(* What the invariant gives.                                               *)

LEMMA InvType == IInv => TypeOK
<1> SUFFICES ASSUME IInv PROVE TypeOK
    OBVIOUS
<1>1. PICK u : /\ Leads(tree, op.stores, u)
               /\ Head_(u, op.pc, op.node, op.parent, members)
      BY DEF IInv, UnderWay
<1>2. tree \in Trees
      BY <1>1, LeadsNow
<1>3. members \subseteq Nodes
      BY <1>1, HeadType
<1>4. op \in Calls /\ (op.pc = "erase" => op.parent # Nil)
      BY DEF IInv, UnderWay
<1>5. \A i \in DOMAIN op.stores : op.stores[i].to \in Ptr
  <2>1. op.stores \in Seq(StoreSet)
        BY <1>4 DEF Calls
  <2>2. \A x \in StoreSet : x.to \in Ptr
        BY DEF StoreSet
  <2>3. \A i \in DOMAIN op.stores : op.stores[i] \in StoreSet
        BY <2>1
  <2> QED BY <2>2, <2>3
<1> QED BY <1>2, <1>3, <1>4, <1>5 DEF TypeOK, Trees, Calls, Ptr

(* A loop would have a node of the smallest rank.                          *)
LEMMA InvLoops == IInv => NoLoops
<1> SUFFICES ASSUME IInv, NEW loop, loop \subseteq Nodes,
                    \A n \in loop : {Child(n, "left"), Child(n, "right")} \cap loop # {},
                    loop # {}
             PROVE  FALSE
    BY DEF NoLoops
<1>1. PICK r : Ranks(r, tree)
  <2>1. Ranked(tree)
        BY LeadsNow DEF IInv, UnderWay
  <2> QED BY <2>1 DEF Ranked
<1>2. r \in [Nodes -> Nat]
      BY <1>1 DEF Ranks
<1>3. PICK S : S = {r[n] : n \in loop}
      OBVIOUS
<1>4. S \in SUBSET Nat /\ S # {}
      BY <1>2, <1>3
<1>5. PICK k \in S : \A j \in S : k <= j
      BY <1>4, LeastNatural
<1>6. PICK n \in loop : r[n] = k
      BY <1>3, <1>5
<1>7. PICK side \in Sides : Child(n, side) \in loop
      BY <1>6 DEF Sides
<1>8. r[Child(n, side)] < r[n]
      BY <1>1, <1>6, <1>7, Reads DEF Ranks
<1>9. r[Child(n, side)] \in S /\ r[Child(n, side)] \in Nat /\ k \in Nat
      BY <1>2, <1>3, <1>4, <1>5, <1>7
<1> QED BY <1>5, <1>6, <1>8, <1>9

(* Type correctness of the tree and of the call in progress.               *)
THEOREM TypeCorrect == Spec => []TypeOK
BY Invariant, InvType, PTL

(* No store of any insertion or erasure makes a loop of child pointers,    *)
(* not even one that the next store would undo: a lookup that does not     *)
(* wait for the writer always comes to an end.                             *)
THEOREM NeverLoops == Spec => []NoLoops
BY Invariant, InvLoops, PTL

-----------------------------------------------------------------------------
(* The counts of black nodes, as a solution of their equation.             *)

(* What a step of a path counts.                                           *)
Counted(n, s, p, side) ==
  (IF Red(tree, n) THEN 0 ELSE 1) + (IF n = p /\ s = side THEN 1 ELSE 0)

Counts(f, S, p, side) ==
  \A n \in S, x \in Int :
    x \in f[n] <=> \E s \in Sides : \E c \in f[Kid(tree, n, s)] :
                     x = c + Counted(n, s, p, side)

LEMMA CountsAre ==
  ASSUME tree \in Trees, NEW r, Ranks(r, tree), NEW mem, mem \subseteq Nodes,
         \A n \in Nodes, s \in Sides : Kid(tree, n, s) \in mem \cup {Nil},
         NEW p, NEW side \in Sides, tree.root \in mem \cup {Nil},
         NEW f \in [Ptr -> SUBSET Int], f[Nil] = {0}, Counts(f, mem, p, side)
  PROVE  BlackCounts(p, side) = f[tree.root]
<1> DEFINE Sums(w, n) == UNION {{c + (IF IsRed(n) THEN 0 ELSE 1)
                                   + (IF n = p /\ s = side THEN 1 ELSE 0) :
                                   c \in w[Child(n, s)]} : s \in Sides}
           W(w) == [n \in Nodes \cup {Nil} |-> IF n = Nil THEN {0} ELSE Sums(w, n)]
           counts == CHOOSE w : w = W(w)
<1>1. /\ r \in [Nodes -> Nat] /\ Nil \notin Nodes /\ mem \subseteq Ptr /\ Nil \in Ptr
      /\ \A n \in Nodes, s \in Sides :
           Kid(tree, n, s) \in Nodes => r[Kid(tree, n, s)] < r[n]
      BY NilIsNoNode DEF Ranks, Ptr
<1>2. ASSUME NEW w, NEW n \in Nodes,
             \A s \in Sides : w[Kid(tree, n, s)] \in SUBSET Int
      PROVE  /\ Sums(w, n) \in SUBSET Int
             /\ \A x \in Int :
                  x \in Sums(w, n) <=> \E s \in Sides : \E c \in w[Kid(tree, n, s)] :
                                         x = c + Counted(n, s, p, side)
  <2>1. PICK D : D = [s \in Sides |-> {c + (IF IsRed(n) THEN 0 ELSE 1)
                                        + (IF n = p /\ s = side THEN 1 ELSE 0) :
                                        c \in w[Child(n, s)]}]
        OBVIOUS
  <2>2. \A x : x \in Sums(w, n) <=> \E s \in Sides : x \in D[s]
        BY <2>1
  <2> HIDE DEF Sums
  <2>3. ASSUME NEW s \in Sides
        PROVE  /\ \A x : x \in D[s] <=> \E c \in w[Kid(tree, n, s)] :
                                        x = c + Counted(n, s, p, side)
               /\ D[s] \in SUBSET Int
    <3>1. ASSUME NEW c \in w[Child(n, s)]
          PROVE  /\ c + (IF IsRed(n) THEN 0 ELSE 1) + (IF n = p /\ s = side THEN 1 ELSE 0)
                      = c + Counted(n, s, p, side)
                 /\ c + Counted(n, s, p, side) \in Int
      <4>1. c \in Int
            BY <1>2, Reads
      <4> QED BY <4>1, Reads DEF Counted
    <3>2. D[s] = {c + Counted(n, s, p, side) : c \in w[Child(n, s)]}
          BY <2>1, <3>1
    <3> QED BY <3>1, <3>2, Reads
  <2> QED BY <2>2, <2>3
<1> HIDE DEF Sums
<1>3. \E w : w = W(w)
  <2>1. PICK g : g = [n \in Ptr |-> IF n \in mem \cup {Nil} THEN f[n] ELSE Sums(f, n)]
        OBVIOUS
  <2>2. \A n \in mem \cup {Nil} : g[n] = f[n] /\ f[n] \in SUBSET Int
        BY <1>1, <2>1
  <2>3. ASSUME NEW n \in Nodes PROVE Sums(g, n) = Sums(f, n)
    <3>1. \A s \in Sides : g[Kid(tree, n, s)] = f[Kid(tree, n, s)]
                           /\ f[Kid(tree, n, s)] \in SUBSET Int
          BY <2>2
    <3>2. Sums(g, n) \in SUBSET Int /\ Sums(f, n) \in SUBSET Int
          BY <1>2, <3>1
    <3>3. \A x \in Int : x \in Sums(g, n) <=> x \in Sums(f, n)
          BY <1>2, <3>1
    <3> QED BY <3>2, <3>3
  <2>4. ASSUME NEW n \in mem PROVE Sums(f, n) = f[n]
    <3>1. \A s \in Sides : f[Kid(tree, n, s)] \in SUBSET Int
          BY <2>2
    <3>2. Sums(f, n) \in SUBSET Int /\ f[n] \in SUBSET Int
          BY <1>2, <2>2, <3>1
    <3>3. \A x \in Int : x \in Sums(f, n) <=> x \in f[n]
          BY <1>2, <3>1 DEF Counts
    <3> QED BY <3>2, <3>3
  <2>5. \A n \in Nodes \cup {Nil} : g[n] = IF n = Nil THEN {0} ELSE Sums(g, n)
    <3> SUFFICES ASSUME NEW n \in Nodes \cup {Nil}
                 PROVE  g[n] = IF n = Nil THEN {0} ELSE Sums(g, n)
        OBVIOUS
    <3>1. CASE n = Nil
          BY <2>2, <3>1
    <3>2. CASE n \in mem
          BY <1>1, <2>2, <2>3, <2>4, <3>2
    <3>3. CASE n \notin mem \cup {Nil}
      <4>1. g[n] = Sums(f, n)
            BY <2>1, <3>3 DEF Ptr
      <4> QED BY <2>3, <3>3, <4>1
    <3> QED BY <3>1, <3>2, <3>3
  <2>6. g = W(g)
        BY <2>1, <2>5 DEF Ptr
  <2> QED BY <2>6
<1>4. counts = W(counts)
      BY <1>3
<1>5. BlackCounts(p, side) = counts[tree.root]
      BY DEF BlackCounts, Sums
<1> HIDE DEF counts
<1>6. counts[Nil] = {0} /\ \A n \in Nodes : counts[n] = Sums(counts, n)
      BY <1>1, <1>4
<1> DEFINE Good == {n \in Nodes : n \in mem => counts[n] = f[n]}
<1>7. ASSUME NEW n \in Nodes, \A m \in Nodes : r[m] < r[n] => m \in Good
      PROVE  n \in Good
  <2> SUFFICES ASSUME n \in mem PROVE counts[n] = f[n]
      OBVIOUS
  <2>1. ASSUME NEW s \in Sides
        PROVE  counts[Kid(tree, n, s)] = f[Kid(tree, n, s)]
               /\ f[Kid(tree, n, s)] \in SUBSET Int
    <3>1. PICK c : c = Kid(tree, n, s)
          OBVIOUS
    <3>2. c \in mem \cup {Nil}
          BY <3>1
    <3>3. CASE c = Nil
          BY <1>1, <1>6, <3>1, <3>3
    <3>4. CASE c # Nil
      <4>1. c \in mem /\ c \in Nodes /\ r[c] < r[n]
            BY <1>1, <3>1, <3>2, <3>4
      <4>2. counts[c] = f[c] /\ f[c] \in SUBSET Int
            BY <1>1, <1>7, <4>1
      <4> QED BY <3>1, <4>2
    <3> QED BY <3>3, <3>4
  <2>2. counts[n] = Sums(counts, n)
        BY <1>6
  <2>3. Sums(counts, n) \in SUBSET Int /\ f[n] \in SUBSET Int
        BY <1>1, <1>2, <2>1
  <2>4. \A x \in Int : x \in Sums(counts, n) <=> x \in f[n]
        BY <1>2, <2>1 DEF Counts
  <2> QED BY <2>2, <2>3, <2>4
<1> HIDE DEF Good
<1>8. \A n \in Nodes : n \in Good
      BY <1>1, <1>7, RankInduction
<1>9. CASE tree.root = Nil
      BY <1>5, <1>6, <1>9
<1>10. CASE tree.root # Nil
       BY <1>5, <1>8, <1>10 DEF Good
<1> QED BY <1>9, <1>10

(* Where the black heights are as Bal says, every path counts the same.    *)
LEMMA EvenCounts ==
  ASSUME tree \in Trees, Ranked(tree), NEW mem, NEW pc, Loose(tree, pc, mem),
         NEW sub, NEW pos, Shape(tree, mem, sub, pos),
         NEW p, NEW side \in Sides, NEW bh, Bal(tree, mem, bh, p, side)
  PROVE  Cardinality(BlackCounts(p, side)) = 1
<1>1. PICK r : Ranks(r, tree)
      BY DEF Ranked
<1>2. /\ mem \subseteq Nodes /\ Nil \notin Nodes /\ mem \subseteq Ptr /\ Nil \in Ptr
      /\ tree.root \in mem \cup {Nil}
      /\ \A n \in mem, s \in Sides : Kid(tree, n, s) \in mem \cup {Nil}
      BY SubKids DEF Shape
<1>3. \A n \in Nodes, s \in Sides : Kid(tree, n, s) \in mem \cup {Nil}
      BY <1>2 DEF Loose
<1>4. PICK f : f = [n \in Ptr |-> {bh[n]}]
      OBVIOUS
<1>5. /\ bh \in [Ptr -> Nat] /\ bh[Nil] = 0
      /\ \A n \in mem, s \in Sides :
           bh[n] = bh[Kid(tree, n, s)] + (IF n = p /\ s = side THEN 1 ELSE 0)
                     + (IF Hue(tree, n) THEN 0 ELSE 1)
      BY DEF Bal
<1>6. f \in [Ptr -> SUBSET Int] /\ f[Nil] = {0} /\ \A n \in Ptr : f[n] = {bh[n]}
      BY <1>2, <1>4, <1>5
<1>7. ASSUME NEW n \in mem, NEW s \in Sides
      PROVE  bh[n] = bh[Kid(tree, n, s)] + Counted(n, s, p, side)
  <2>1. Red(tree, n) <=> Hue(tree, n)
        BY <1>2 DEF Red
  <2>2. Kid(tree, n, s) \in Ptr
        BY <1>2
  <2>3. bh[Kid(tree, n, s)] \in Int
        BY <1>5, <2>2
  <2> QED BY <1>5, <2>1, <2>3 DEF Counted
<1>8. Counts(f, mem, p, side)
  <2> SUFFICES ASSUME NEW n \in mem, NEW x \in Int
               PROVE  x \in f[n] <=> \E s \in Sides : \E c \in f[Kid(tree, n, s)] :
                                       x = c + Counted(n, s, p, side)
      BY DEF Counts
  <2>1. f[n] = {bh[n]} /\ \A s \in Sides : f[Kid(tree, n, s)] = {bh[Kid(tree, n, s)]}
        BY <1>2, <1>6
  <2>2. PICK s \in Sides : TRUE
        BY DEF Sides
  <2> QED BY <1>7, <2>1, <2>2
<1>9. BlackCounts(p, side) = {bh[tree.root]}
  <2>1. BlackCounts(p, side) = f[tree.root]
        BY <1>1, <1>2, <1>3, <1>6, <1>8, CountsAre
  <2> QED BY <1>2, <1>6, <2>1
<1> QED BY <1>9, FS_Singleton

LEMMA Shifted ==
  ASSUME NEW S, NEW i \in Int, NEW j \in Int, NEW x \in Int
  PROVE  /\ S = {i} => ((\E c \in S : x = c + j) <=> x = i + j)
         /\ S = {i, i - 1} => ((\E c \in S : x = c + j) <=> x = i + j \/ x = i + j - 1)
<1>1. ASSUME S = {i, i - 1}
      PROVE  (\E c \in S : x = c + j) <=> x = i + j \/ x = i + j - 1
  <2>1. (\E c \in S : x = c + j) <=> x = i + j \/ x = (i - 1) + j
        BY <1>1
  <2> QED BY <2>1
<1> QED BY <1>1

(* Where one path is short, the counts differ.                             *)
LEMMA UnevenCounts ==
  ASSUME tree \in Trees, Ranked(tree), NEW mem, NEW pc, Loose(tree, pc, mem),
         NEW sub, NEW pos, Shape(tree, mem, sub, pos),
         NEW p \in mem, NEW side \in Sides, NEW bh, Bal(tree, mem, bh, p, side)
  PROVE  ~ EvenlyBlack
<1>1. PICK r : Ranks(r, tree)
      BY DEF Ranked
<1>2. /\ mem \subseteq Nodes /\ Nil \notin Nodes /\ mem \subseteq Ptr /\ Nil \in Ptr
      /\ tree.root \in mem \cup {Nil} /\ sub[tree.root] = mem /\ sub[Nil] = {}
      /\ \A n \in mem, s \in Sides :
           /\ Kid(tree, n, s) \in mem \cup {Nil}
           /\ sub[n] = {n} \cup sub[Kid(tree, n, s)] \cup sub[Kid(tree, n, Other(s))]
      BY SubKids DEF Shape
<1>3. \A n \in Nodes, s \in Sides : Kid(tree, n, s) \in mem \cup {Nil}
      BY <1>2 DEF Loose
<1>4. PICK f : f = [n \in Ptr |-> IF p \in sub[n] THEN {bh[n], bh[n] - 1} ELSE {bh[n]}]
      OBVIOUS
<1>5. /\ bh \in [Ptr -> Nat] /\ bh[Nil] = 0
      /\ \A n \in mem, s \in Sides :
           bh[n] = bh[Kid(tree, n, s)] + (IF n = p /\ s = side THEN 1 ELSE 0)
                     + (IF Hue(tree, n) THEN 0 ELSE 1)
      BY DEF Bal
<1>6. /\ f \in [Ptr -> SUBSET Int] /\ f[Nil] = {0}
      /\ \A n \in Ptr : /\ p \in sub[n] => f[n] = {bh[n], bh[n] - 1}
                        /\ p \notin sub[n] => f[n] = {bh[n]}
      BY <1>2, <1>4, <1>5
<1>7. ASSUME NEW n \in mem, NEW s \in Sides
      PROVE  /\ bh[n] - (IF n = p /\ s = side THEN 1 ELSE 0)
                  = bh[Kid(tree, n, s)] + Counted(n, s, Nil, "left")
             /\ bh[n] \in Int /\ bh[Kid(tree, n, s)] \in Int
             /\ Counted(n, s, Nil, "left") \in Int
  <2>1. (Red(tree, n) <=> Hue(tree, n)) /\ n # Nil
        BY <1>2 DEF Red
  <2>2. Kid(tree, n, s) \in Ptr /\ n \in Ptr
        BY <1>2
  <2>3. bh[Kid(tree, n, s)] \in Int /\ bh[n] \in Int
        BY <1>5, <2>2
  <2> QED BY <1>5, <2>1, <2>3 DEF Counted
<1>8. Counts(f, mem, Nil, "left")
  <2> SUFFICES ASSUME NEW n \in mem, NEW x \in Int
               PROVE  x \in f[n] <=> \E s \in Sides : \E c \in f[Kid(tree, n, s)] :
                                       x = c + Counted(n, s, Nil, "left")
      BY DEF Counts
  <2>1. PICK far : far = Other(side)
        OBVIOUS
  <2>2. far \in Sides /\ far # side /\ \A s \in Sides : s = side \/ s = far
        BY <2>1, OtherSide
  <2>3. PICK a, b : a = Kid(tree, n, side) /\ b = Kid(tree, n, far)
        OBVIOUS
  <2>4. a \in Ptr /\ b \in Ptr /\ n \in Ptr /\ sub[n] = {n} \cup sub[a] \cup sub[b]
        BY <1>2, <2>1, <2>2, <2>3
  <2>5. PICK j, k : j = Counted(n, side, Nil, "left") /\ k = Counted(n, far, Nil, "left")
        OBVIOUS
  <2>6. (\E s \in Sides : \E c \in f[Kid(tree, n, s)] : x = c + Counted(n, s, Nil, "left"))
          <=> (\E c \in f[a] : x = c + j) \/ (\E c \in f[b] : x = c + k)
        BY <2>2, <2>3, <2>5
  <2>7. /\ bh[n] \in Int /\ bh[a] \in Int /\ bh[b] \in Int /\ j \in Int /\ k \in Int
        /\ bh[n] - (IF n = p THEN 1 ELSE 0) = bh[a] + j
        /\ bh[n] = bh[b] + k
    <3>1. /\ bh[n] - (IF n = p /\ side = side THEN 1 ELSE 0) = bh[a] + j
          /\ bh[n] \in Int /\ bh[a] \in Int /\ j \in Int
          BY <1>7, <2>3, <2>5
    <3>2. /\ bh[n] - (IF n = p /\ far = side THEN 1 ELSE 0) = bh[b] + k
          /\ bh[b] \in Int /\ k \in Int
          BY <1>7, <2>2, <2>3, <2>5
    <3> QED BY <2>2, <3>1, <3>2
  <2>8. /\ p \in sub[a] => f[a] = {bh[a], bh[a] - 1}
        /\ p \notin sub[a] => f[a] = {bh[a]}
        /\ p \in sub[b] => f[b] = {bh[b], bh[b] - 1}
        /\ p \notin sub[b] => f[b] = {bh[b]}
        /\ p \in sub[n] => f[n] = {bh[n], bh[n] - 1}
        /\ p \notin sub[n] => f[n] = {bh[n]}
        BY <1>6, <2>4
  <2>9. CASE n = p
    <3>1. p \notin sub[a] /\ p \notin sub[b] /\ p \in sub[n]
          BY <2>2, <2>3, <2>4, <2>9, Around
    <3>2. bh[n] - 1 = bh[a] + j
          BY <2>7, <2>9
    <3> QED BY <2>6, <2>7, <2>8, <3>1, <3>2
  <2>10. CASE n # p /\ p \in sub[n]
    <3>1. bh[n] = bh[a] + j
          BY <2>7, <2>10
    <3>2. p \in sub[a] \/ p \in sub[b]
          BY <2>4, <2>10
    <3>3. PICK S, T, i, l, m : /\ S = f[a] /\ T = f[b] /\ i = bh[a] /\ l = bh[b]
                               /\ m = bh[n]
          OBVIOUS
    <3>4. /\ i \in Int /\ l \in Int /\ m \in Int /\ m = i + j /\ m = l + k
          /\ j \in Int /\ k \in Int
          BY <2>7, <3>1, <3>3
    <3>5. (\E c \in f[a] : x = c + j) <=> (x = m \/ (p \in sub[a] /\ x = m - 1))
      <4>1. p \in sub[a] => S = {i, i - 1}
            BY <2>8, <3>3
      <4>2. p \notin sub[a] => S = {i}
            BY <2>8, <3>3
      <4>3. p \in sub[a] => ((\E c \in S : x = c + j) <=> x = i + j \/ x = i + j - 1)
            BY <3>4, <4>1, Shifted
      <4>4. p \notin sub[a] => ((\E c \in S : x = c + j) <=> x = i + j)
            BY <3>4, <4>2, Shifted
      <4>5. (\E c \in S : x = c + j) <=> (x = m \/ (p \in sub[a] /\ x = m - 1))
            BY <3>4, <4>3, <4>4
      <4> QED BY <3>3, <4>5
    <3>6. (\E c \in f[b] : x = c + k) <=> (x = m \/ (p \in sub[b] /\ x = m - 1))
      <4>1. p \in sub[b] => T = {l, l - 1}
            BY <2>8, <3>3
      <4>2. p \notin sub[b] => T = {l}
            BY <2>8, <3>3
      <4>3. p \in sub[b] => ((\E c \in T : x = c + k) <=> x = l + k \/ x = l + k - 1)
            BY <3>4, <4>1, Shifted
      <4>4. p \notin sub[b] => ((\E c \in T : x = c + k) <=> x = l + k)
            BY <3>4, <4>2, Shifted
      <4>5. (\E c \in T : x = c + k) <=> (x = m \/ (p \in sub[b] /\ x = m - 1))
            BY <3>4, <4>3, <4>4
      <4> QED BY <3>3, <4>5
    <3>7. x \in f[n] <=> (x = m \/ x = m - 1)
          BY <2>8, <2>10, <3>3
    <3> QED BY <2>6, <3>2, <3>5, <3>6, <3>7
  <2>11. CASE n # p /\ p \notin sub[n]
    <3>1. bh[n] = bh[a] + j
          BY <2>7, <2>11
    <3>2. p \notin sub[a] /\ p \notin sub[b]
          BY <2>4, <2>11
    <3> QED BY <2>6, <2>7, <2>8, <2>11, <3>1, <3>2
  <2> QED BY <2>9, <2>10, <2>11
<1>9. BlackCounts(Nil, "left") = {bh[tree.root], bh[tree.root] - 1}
  <2>1. PICK left : left = "left"
        OBVIOUS
  <2>2. left \in Sides /\ Counts(f, mem, Nil, left)
        BY <1>8, <2>1 DEF Sides
  <2>3. BlackCounts(Nil, left) = f[tree.root]
        BY <1>1, <1>2, <1>3, <1>6, <2>2, CountsAre
  <2>4. p \in sub[tree.root] /\ tree.root \in Ptr
        BY <1>2
  <2> QED BY <1>6, <2>1, <2>3, <2>4
<1>10. bh[tree.root] \in Int
  <2>1. tree.root \in Ptr
        BY <1>2
  <2> QED BY <1>5, <2>1
<1>11. Cardinality({bh[tree.root], bh[tree.root] - 1}) = 2
  <2>1. PICK i : i = bh[tree.root]
        OBVIOUS
  <2>2. i - 1 \notin {i} /\ {i, i - 1} = {i} \cup {i - 1}
        BY <1>10, <2>1
  <2>3. IsFiniteSet({i}) /\ Cardinality({i}) = 1
        BY FS_Singleton
  <2>4. Cardinality({i} \cup {i - 1}) = Cardinality({i}) + 1
        BY <2>2, <2>3, FS_AddElement
  <2> QED BY <2>1, <2>2, <2>3, <2>4
<1> QED BY <1>9, <1>11 DEF EvenlyBlack

LEMMA InvBalanced == IInv => Balanced
<1> SUFFICES ASSUME IInv, Settled
             PROVE  /\ ~ IsRed(tree.root)
                    /\ \A n \in members : IsRed(n) =>
                         ~ IsRed(Child(n, "left")) /\ ~ IsRed(Child(n, "right"))
                    /\ EvenlyBlack
    BY DEF Balanced
<1>1. PICK idle : idle = "idle"
      OBVIOUS
<1>2. /\ tree \in Trees /\ Ranked(tree)
      /\ Head_(tree, idle, op.node, op.parent, members)
      BY <1>1, AtHead DEF IInv, UnderWay, Settled
<1>3. PICK pos, sub, bh : /\ Shape(tree, members, sub, pos)
                          /\ Colours(tree, idle, op.node, op.parent, members, bh)
                          /\ Loose(tree, idle, members)
      BY <1>2 DEF Head_
<1>4. PICK left : left = "left"
      OBVIOUS
<1>5. /\ Bal(tree, members, bh, Nil, left) /\ NoRedRed(tree, members, Nil)
      /\ ~ Red(tree, tree.root)
      BY <1>1, <1>3, <1>4 DEF Colours
<1>6. Cardinality(BlackCounts(Nil, left)) = 1
      BY <1>2, <1>3, <1>4, <1>5, EvenCounts DEF Sides
<1>7. ASSUME NEW n \in members, NEW s \in Sides, Red(tree, n)
      PROVE  ~ Red(tree, Kid(tree, n, s))
      BY <1>5, <1>7 DEF NoRedRed, Red
<1>8. ASSUME NEW n \in members, IsRed(n)
      PROVE  ~ IsRed(Child(n, "left")) /\ ~ IsRed(Child(n, "right"))
      BY <1>7, <1>8, Reads DEF Sides
<1> QED BY <1>4, <1>5, <1>6, <1>8, Reads DEF EvenlyBlack

LEMMA InvInsertLoop == IInv => InsertLoopInvariant
<1> SUFFICES ASSUME IInv, AtLoop("insert")
             PROVE  /\ IsRed(op.node)
                    /\ op.parent = Parent(op.node)
                    /\ \A n \in members \ {op.node} : IsRed(n) => ~ IsRed(Parent(n))
                    /\ EvenlyBlack
    BY DEF InsertLoopInvariant
<1>1. PICK pc, node, parent : pc = "insert" /\ node = op.node /\ parent = op.parent
      OBVIOUS
<1>2. /\ tree \in Trees /\ Ranked(tree)
      /\ Head_(tree, pc, node, parent, members)
      BY <1>1, AtHead DEF AtLoop
<1>3. PICK pos, sub, bh : /\ Shape(tree, members, sub, pos)
                          /\ Colours(tree, pc, node, parent, members, bh)
                          /\ Loose(tree, pc, members)
      BY <1>2 DEF Head_
<1>4. PICK left : left = "left"
      OBVIOUS
<1>5. /\ Bal(tree, members, bh, Nil, left) /\ NoRedRed(tree, members, node)
      /\ node \in members /\ Hue(tree, node) /\ parent = Up(tree, node)
      BY <1>1, <1>3, <1>4 DEF Colours
<1>6. Cardinality(BlackCounts(Nil, left)) = 1
      BY <1>2, <1>3, <1>4, <1>5, EvenCounts DEF Sides
<1>7. ASSUME NEW n \in members, n # node, Red(tree, n)
      PROVE  ~ Red(tree, Up(tree, n))
  <2> SUFFICES ASSUME Red(tree, Up(tree, n)) PROVE FALSE
      OBVIOUS
  <2>1. PICK p : p = Up(tree, n)
        OBVIOUS
  <2>2. p # Nil /\ Hue(tree, p)
        BY <2>1 DEF Red
  <2>3. p \in members /\ \E s \in Sides : Kid(tree, p, s) = n
        BY <1>3, <2>1, <2>2 DEF Shape, LinksAt
  <2> QED BY <1>5, <1>7, <2>2, <2>3 DEF NoRedRed
<1>8. Red(tree, node)
  <2>1. Nil \notin members
        BY <1>3, SubKids
  <2> QED BY <1>5, <2>1 DEF Red
<1> QED BY <1>1, <1>4, <1>5, <1>6, <1>7, <1>8, Reads DEF EvenlyBlack

LEMMA InvEraseLoop == IInv => EraseLoopInvariant
<1> SUFFICES ASSUME IInv, AtLoop("erase")
             PROVE  /\ ~ IsRed(op.node)
                    /\ Cardinality(BlackCounts(op.parent, SideOf(op.node, op.parent))) = 1
                    /\ ~ EvenlyBlack
    BY DEF EraseLoopInvariant
<1>1. PICK pc, node, parent : pc = "erase" /\ node = op.node /\ parent = op.parent
      OBVIOUS
<1>2. /\ tree \in Trees /\ Ranked(tree)
      /\ Head_(tree, pc, node, parent, members)
      BY <1>1, AtHead DEF AtLoop
<1>3. PICK pos, sub, bh : /\ Shape(tree, members, sub, pos)
                          /\ Colours(tree, pc, node, parent, members, bh)
                          /\ Loose(tree, pc, members)
      BY <1>2 DEF Head_
<1>4. PICK side : side = IF node # Kid(tree, parent, "right") THEN "left" ELSE "right"
      OBVIOUS
<1>5. /\ side \in Sides /\ Bal(tree, members, bh, parent, side)
      /\ ~ Red(tree, node) /\ parent \in members
  <2>1. PICK sibling : sibling = Kid(tree, parent, Other(side))
        OBVIOUS
  <2> QED BY <1>1, <1>3, <1>4, <2>1, EraseAround
<1>6. Cardinality(BlackCounts(parent, side)) = 1
      BY <1>2, <1>3, <1>5, EvenCounts
<1>7. ~ EvenlyBlack
      BY <1>2, <1>3, <1>5, UnevenCounts
<1>8. SideOf(node, parent) = side
      BY <1>4, Reads DEF SideOf
<1> QED BY <1>1, <1>5, <1>6, <1>7, <1>8, Reads

(* Between two calls no red node has a red child, the root is black, and   *)
(* every path from the root down has the same number of black nodes,       *)
(* whatever was inserted and erased before.                                *)
THEOREM StaysBalanced == Spec => []Balanced
BY Invariant, InvBalanced, PTL

(* At the head of the loops of __rb_insert() and ____rb_erase_color() hold *)
(* the loop invariants that the comments there state: only the node of the *)
(* loop may be red below a red parent, and only the paths through it are   *)
(* one black node short.                                                   *)
THEOREM LoopsKeepInvariants == Spec => []LoopInvariants
<1>1. IInv => LoopInvariants
      BY InvInsertLoop, InvEraseLoop DEF LoopInvariants
<1> QED BY <1>1, Invariant, PTL

-----------------------------------------------------------------------------
(* The order of the nodes, as a sequence.                                  *)

LEMMA InJoined ==
  ASSUME NEW S, NEW a \in Seq(S), NEW b \in Seq(S), NEW n \in S,
         NEW s, s = a \o <<n>> \o b
  PROVE  /\ s \in Seq(S) /\ Len(s) = Len(a) + 1 + Len(b)
         /\ \A i \in 1 .. Len(a) : s[i] = a[i]
         /\ s[Len(a) + 1] = n
         /\ \A i \in 1 .. Len(b) : s[Len(a) + 1 + i] = b[i]
<1>1. PICK c, d : c = <<n>> /\ d = a \o c
      OBVIOUS
<1>2. c \in Seq(S) /\ Len(c) = 1 /\ c[1] = n
      BY <1>1
<1>3. /\ d \in Seq(S) /\ Len(d) = Len(a) + 1
      /\ \A i \in 1 .. Len(a) : d[i] = a[i]
      /\ d[Len(a) + 1] = n
      BY <1>1, <1>2
<1>4. s = d \o b
      BY <1>1
<1>5. /\ s \in Seq(S) /\ Len(s) = Len(d) + Len(b)
      /\ \A i \in 1 .. Len(d) : s[i] = d[i]
      /\ \A i \in 1 .. Len(b) : s[Len(d) + i] = b[i]
      BY <1>3, <1>4
<1>6. Len(a) \in Nat /\ Len(b) \in Nat
      OBVIOUS
<1> QED BY <1>3, <1>5, <1>6

LEMMA PostJoined ==
  ASSUME NEW S, NEW a \in Seq(S), NEW b \in Seq(S), NEW n \in S,
         NEW s, s = a \o b \o <<n>>
  PROVE  /\ s \in Seq(S) /\ Len(s) = Len(a) + Len(b) + 1
         /\ \A i \in 1 .. Len(a) : s[i] = a[i]
         /\ \A i \in 1 .. Len(b) : s[Len(a) + i] = b[i]
         /\ s[Len(a) + Len(b) + 1] = n
<1>1. PICK c, d : c = <<n>> /\ d = a \o b
      OBVIOUS
<1>2. c \in Seq(S) /\ Len(c) = 1 /\ c[1] = n
      BY <1>1
<1>3. /\ d \in Seq(S) /\ Len(d) = Len(a) + Len(b)
      /\ \A i \in 1 .. Len(a) : d[i] = a[i]
      /\ \A i \in 1 .. Len(b) : d[Len(a) + i] = b[i]
      BY <1>1
<1>4. s = d \o c
      BY <1>1
<1>5. /\ s \in Seq(S) /\ Len(s) = Len(d) + 1
      /\ \A i \in 1 .. Len(d) : s[i] = d[i]
      /\ s[Len(d) + 1] = n
      BY <1>2, <1>3, <1>4
<1>6. Len(a) \in Nat /\ Len(b) \in Nat
      OBVIOUS
<1> QED BY <1>3, <1>5, <1>6

Joined(a, n, b, mid) == IF mid THEN a \o <<n>> \o b ELSE a \o b \o <<n>>

LEMMA OrderExists ==
  ASSUME tree \in Trees, NEW r, Ranks(r, tree), NEW k \in Nat, \A m \in Nodes : r[m] < k,
         NEW mid \in BOOLEAN
  PROVE  \E f \in [Ptr -> Seq(Nodes)] :
           /\ f[Nil] = <<>>
           /\ \A n \in Nodes :
                f[n] = Joined(f[Kid(tree, n, "left")], n, f[Kid(tree, n, "right")], mid)
<1>1. /\ r \in [Nodes -> Nat] /\ Nil \notin Nodes /\ Ptr = Nodes \cup {Nil}
      /\ \A n \in Nodes, s \in Sides :
           Kid(tree, n, s) \in Nodes => r[Kid(tree, n, s)] < r[n]
      BY NilIsNoNode DEF Ranks, Ptr
<1>2. PICK L, R : /\ L = [n \in Nodes |-> Kid(tree, n, "left")]
                  /\ R = [n \in Nodes |-> Kid(tree, n, "right")]
      OBVIOUS
<1>3. /\ \A n \in Nodes : L[n] \in Ptr /\ R[n] \in Ptr
      /\ \A n \in Nodes : L[n] \in Nodes => r[L[n]] < r[n]
      /\ \A n \in Nodes : R[n] \in Nodes => r[R[n]] < r[n]
      BY <1>1, <1>2, TreeType DEF Sides
<1>4. \A n \in Nodes, a, b \in Seq(Nodes) : Joined(a, n, b, mid) \in Seq(Nodes)
      BY DEF Joined
<1> DEFINE Good == {j \in Nat : \E w \in [Ptr -> Seq(Nodes)] :
                      /\ w[Nil] = <<>>
                      /\ \A n \in Nodes : r[n] < j => w[n] = Joined(w[L[n]], n, w[R[n]], mid)}
<1>5. 0 \in Good
  <2>1. PICK e : e = <<>>
        OBVIOUS
  <2>2. e \in Seq(Nodes)
        BY <2>1
  <2>3. PICK w : w = [n \in Ptr |-> e]
        OBVIOUS
  <2>4. w \in [Ptr -> Seq(Nodes)] /\ w[Nil] = <<>>
        BY <1>1, <2>1, <2>2, <2>3
  <2>5. \A n \in Nodes : ~ (r[n] < 0)
        BY <1>1
  <2> QED BY <2>4, <2>5
<1>6. ASSUME NEW j \in Nat, j \in Good PROVE j + 1 \in Good
  <2>1. PICK w \in [Ptr -> Seq(Nodes)] :
          /\ w[Nil] = <<>>
          /\ \A n \in Nodes : r[n] < j => w[n] = Joined(w[L[n]], n, w[R[n]], mid)
        BY <1>6
  <2>2. PICK v : v = [n \in Ptr |-> IF n = Nil THEN w[n]
                                   ELSE Joined(w[L[n]], n, w[R[n]], mid)]
        OBVIOUS
  <2>3. v \in [Ptr -> Seq(Nodes)]
    <3>1. ASSUME NEW n \in Ptr PROVE v[n] \in Seq(Nodes)
      <4>1. CASE n = Nil
            BY <1>1, <2>1, <2>2, <4>1
      <4>2. CASE n # Nil
        <5>1. n \in Nodes /\ w[L[n]] \in Seq(Nodes) /\ w[R[n]] \in Seq(Nodes)
              BY <1>1, <1>3, <2>1, <4>2
        <5> QED BY <1>4, <2>2, <4>2, <5>1
      <4> QED BY <4>1, <4>2
    <3> QED BY <2>2, <3>1
  <2>4. v[Nil] = <<>> /\ \A n \in Nodes : v[n] = Joined(w[L[n]], n, w[R[n]], mid)
        BY <1>1, <2>1, <2>2
  <2>5. \A n \in Nodes : r[n] < j => v[n] = w[n]
        BY <2>1, <2>4
  <2>6. ASSUME NEW n \in Nodes, r[n] < j + 1
        PROVE  v[L[n]] = w[L[n]] /\ v[R[n]] = w[R[n]]
    <3>1. ASSUME NEW c \in Ptr, c \in Nodes => r[c] < r[n] PROVE v[c] = w[c]
      <4>1. CASE c = Nil
            BY <2>1, <2>4, <4>1
      <4>2. CASE c # Nil
        <5>1. c \in Nodes /\ r[c] < r[n] /\ r[c] \in Nat /\ r[n] \in Nat
              BY <1>1, <3>1, <4>2
        <5>2. r[c] < j
              BY <2>6, <5>1
        <5> QED BY <2>5, <5>1, <5>2
      <4> QED BY <4>1, <4>2
    <3> QED BY <1>3, <3>1
  <2>7. \A n \in Nodes : r[n] < j + 1 => v[n] = Joined(v[L[n]], n, v[R[n]], mid)
        BY <2>4, <2>6
  <2>8. j + 1 \in Nat
        OBVIOUS
  <2> QED BY <2>3, <2>4, <2>7, <2>8
<1> HIDE DEF Good
<1>7. \A j \in Nat : j \in Good => j + 1 \in Good
      BY <1>6
<1>8. k \in Good
      BY <1>5, <1>7, NatSetInduction
<1>9. PICK w \in [Ptr -> Seq(Nodes)] :
        /\ w[Nil] = <<>>
        /\ \A n \in Nodes : r[n] < k => w[n] = Joined(w[L[n]], n, w[R[n]], mid)
      BY <1>8 DEF Good
<1> QED BY <1>2, <1>9

LEMMA InOrderIs ==
  ASSUME tree \in Trees, NEW r, Ranks(r, tree), NEW k \in Nat, \A m \in Nodes : r[m] < k
  PROVE  /\ InOrder[Nil] = <<>> /\ \A n \in Ptr : InOrder[n] \in Seq(Nodes)
         /\ \A n \in Nodes : InOrder[n] = InOrder[Kid(tree, n, "left")] \o <<n>>
                                            \o InOrder[Kid(tree, n, "right")]
<1> DEFINE W(w) == [n \in Nodes \cup {Nil} |->
                      IF n = Nil THEN <<>>
                      ELSE w[Child(n, "left")] \o <<n>> \o w[Child(n, "right")]]
           order == CHOOSE w : w = W(w)
<1>1. PICK mid : mid = TRUE
      OBVIOUS
<1>2. PICK f \in [Ptr -> Seq(Nodes)] :
        /\ f[Nil] = <<>>
        /\ \A n \in Nodes :
             f[n] = Joined(f[Kid(tree, n, "left")], n, f[Kid(tree, n, "right")], mid)
      BY <1>1, OrderExists
<1>3. \A n \in Nodes : f[n] = f[Child(n, "left")] \o <<n>> \o f[Child(n, "right")]
      BY <1>1, <1>2, Reads DEF Joined
<1>4. f = W(f)
      BY <1>2, <1>3, NilIsNoNode DEF Ptr
<1>5. order = W(order)
      BY <1>4
<1>6. InOrder = order
      BY DEF InOrder
<1> HIDE DEF order
<1>7. /\ order[Nil] = <<>>
      /\ \A n \in Nodes : order[n] = order[Kid(tree, n, "left")] \o <<n>>
                                       \o order[Kid(tree, n, "right")]
      BY <1>5, Reads, NilIsNoNode
<1> DEFINE Good == {n \in Nodes : order[n] \in Seq(Nodes)}
<1>8. ASSUME NEW n \in Nodes, \A m \in Nodes : r[m] < r[n] => m \in Good
      PROVE  n \in Good
  <2>1. ASSUME NEW s \in Sides PROVE order[Kid(tree, n, s)] \in Seq(Nodes)
    <3>1. Kid(tree, n, s) \in Nodes \cup {Nil}
          BY TreeType DEF Ptr
    <3>2. Kid(tree, n, s) \in Nodes => r[Kid(tree, n, s)] < r[n]
          BY DEF Ranks
    <3>3. <<>> \in Seq(Nodes)
          OBVIOUS
    <3> QED BY <1>7, <1>8, <3>1, <3>2, <3>3
  <2>2. PICK a, b : a = order[Kid(tree, n, "left")] /\ b = order[Kid(tree, n, "right")]
        OBVIOUS
  <2>3. a \in Seq(Nodes) /\ b \in Seq(Nodes)
        BY <2>1, <2>2 DEF Sides
  <2>4. order[n] = a \o <<n>> \o b
        BY <1>7, <2>2
  <2>5. PICK s : s = order[n]
        OBVIOUS
  <2>6. s \in Seq(Nodes)
        BY <2>3, <2>4, <2>5, InJoined
  <2> QED BY <2>5, <2>6
<1> HIDE DEF Good
<1>9. r \in [Nodes -> Nat]
      BY DEF Ranks
<1>10. \A n \in Nodes : n \in Good
       BY <1>8, <1>9, RankInduction
<1>11. \A n \in Ptr : order[n] \in Seq(Nodes)
  <2>1. <<>> \in Seq(Nodes)
        OBVIOUS
  <2> QED BY <1>7, <1>10, <2>1 DEF Good, Ptr
<1> QED BY <1>6, <1>7, <1>11

(* s lists the members of X from left to right.                            *)
Lists(s, X, pos) ==
  /\ s \in Seq(X)
  /\ \A x \in X : \E i \in 1 .. Len(s) : s[i] = x
  /\ \A i, j \in 1 .. Len(s) : i < j => pos[s[i]] < pos[s[j]]

LEMMA ListsJoin ==
  ASSUME NEW pos \in [Nodes -> Int], NEW A, NEW B, NEW n \in Nodes,
         A \subseteq Nodes, B \subseteq Nodes,
         NEW X, X = {n} \cup A \cup B,
         \A x \in A : pos[x] < pos[n], \A x \in B : pos[n] < pos[x],
         NEW a, NEW b, Lists(a, A, pos), Lists(b, B, pos),
         NEW s, s = a \o <<n>> \o b
  PROVE  Lists(s, X, pos)
<1>1. a \in Seq(A) /\ b \in Seq(B) /\ Len(a) \in Nat /\ Len(b) \in Nat
      BY DEF Lists
<1>2. a \in Seq(X) /\ b \in Seq(X) /\ n \in X
      BY <1>1
<1>3. /\ s \in Seq(X) /\ Len(s) = Len(a) + 1 + Len(b)
      /\ \A i \in 1 .. Len(a) : s[i] = a[i]
      /\ s[Len(a) + 1] = n
      /\ \A i \in 1 .. Len(b) : s[Len(a) + 1 + i] = b[i]
      BY <1>2, InJoined
<1>4. PICK p, q : p = Len(a) /\ q = Len(b)
      OBVIOUS
<1>5. /\ p \in Nat /\ q \in Nat /\ Len(s) = p + 1 + q
      /\ \A i \in 1 .. p : s[i] = a[i] /\ a[i] \in A
      /\ s[p + 1] = n
      /\ \A i \in 1 .. q : s[p + 1 + i] = b[i] /\ b[i] \in B
      BY <1>1, <1>3, <1>4
<1>6. ASSUME NEW x \in X PROVE \E i \in 1 .. Len(s) : s[i] = x
  <2>1. CASE x = n
    <3>1. p + 1 \in 1 .. Len(s)
          BY <1>5
    <3> QED BY <1>5, <2>1, <3>1
  <2>2. CASE x \in A
    <3>1. PICK i \in 1 .. p : a[i] = x
          BY <1>4, <2>2 DEF Lists
    <3>2. i \in 1 .. Len(s)
          BY <1>5
    <3> QED BY <1>5, <3>1, <3>2
  <2>3. CASE x \in B
    <3>1. PICK i \in 1 .. q : b[i] = x
          BY <1>4, <2>3 DEF Lists
    <3>2. p + 1 + i \in 1 .. Len(s)
          BY <1>5
    <3> QED BY <1>5, <3>1, <3>2
  <2> QED BY <2>1, <2>2, <2>3
<1>7. ASSUME NEW i \in 1 .. Len(s), NEW j \in 1 .. Len(s), i < j
      PROVE  pos[s[i]] < pos[s[j]]
  <2>1. \A l \in 1 .. Len(s) : l \in 1 .. p \/ l = p + 1 \/ \E m \in 1 .. q : l = p + 1 + m
    <3> SUFFICES ASSUME NEW l \in 1 .. Len(s), l \notin 1 .. p, l # p + 1
                 PROVE  \E m \in 1 .. q : l = p + 1 + m
        OBVIOUS
    <3>1. l - (p + 1) \in 1 .. q /\ l = p + 1 + (l - (p + 1))
          BY <1>5
    <3> QED BY <3>1
  <2>2. \A x \in A : pos[x] \in Int /\ pos[x] < pos[n]
        OBVIOUS
  <2>3. \A x \in B : pos[x] \in Int /\ pos[n] < pos[x]
        OBVIOUS
  <2>4. pos[n] \in Int
        OBVIOUS
  <2>5. CASE i \in 1 .. p
    <3>1. s[i] \in A /\ s[i] = a[i]
          BY <1>5, <2>5
    <3>2. CASE j \in 1 .. p
          BY <1>4, <1>5, <1>7, <2>5, <3>2 DEF Lists
    <3>3. CASE j = p + 1
          BY <1>5, <2>2, <3>1, <3>3
    <3>4. ASSUME NEW m \in 1 .. q, j = p + 1 + m PROVE pos[s[i]] < pos[s[j]]
      <4>1. s[j] \in B
            BY <1>5, <3>4
      <4> QED BY <2>2, <2>3, <2>4, <3>1, <4>1
    <3> QED BY <2>1, <3>2, <3>3, <3>4
  <2>6. CASE i = p + 1
    <3>1. s[i] = n
          BY <1>5, <2>6
    <3>2. PICK m \in 1 .. q : j = p + 1 + m
          BY <1>5, <1>7, <2>1, <2>6
    <3> QED BY <1>5, <2>3, <3>1, <3>2
  <2>7. ASSUME NEW l \in 1 .. q, i = p + 1 + l PROVE pos[s[i]] < pos[s[j]]
    <3>1. PICK m \in 1 .. q : j = p + 1 + m
          BY <1>5, <1>7, <2>1, <2>7
    <3>2. l < m /\ s[i] = b[l] /\ s[j] = b[m]
      <4>1. p + 1 + l < p + 1 + m /\ l \in Nat /\ m \in Nat
            BY <1>5, <1>7, <2>7, <3>1
      <4>2. l < m
            BY <1>5, <4>1
      <4>3. s[p + 1 + l] = b[l] /\ s[p + 1 + m] = b[m]
            BY <1>5
      <4> QED BY <2>7, <3>1, <4>2, <4>3
    <3> QED BY <1>4, <3>2 DEF Lists
  <2> QED BY <2>1, <2>5, <2>6, <2>7
<1> QED BY <1>3, <1>6, <1>7 DEF Lists

LEMMA ListLength ==
  ASSUME NEW pos \in [Nodes -> Int], NEW X \in SUBSET Nodes, NEW s, Lists(s, X, pos)
  PROVE  Len(s) = Cardinality(X) /\ Range(s) = X
<1>1. /\ s \in [1 .. Len(s) -> X] /\ Len(s) \in Nat /\ DOMAIN s = 1 .. Len(s)
      /\ \A x \in X : \E i \in 1 .. Len(s) : s[i] = x
      BY DEF Lists
<1>2. \A i, j \in 1 .. Len(s) : s[i] = s[j] => i = j
  <2> SUFFICES ASSUME NEW i \in 1 .. Len(s), NEW j \in 1 .. Len(s), s[i] = s[j], i < j
               PROVE  FALSE
    <3>1. \A i, j \in 1 .. Len(s) : s[i] = s[j] /\ i < j => FALSE
          OBVIOUS
    <3>2. \A i, j \in 1 .. Len(s) : i = j \/ i < j \/ j < i
          BY <1>1
    <3> QED BY <3>1, <3>2
  <2>1. pos[s[i]] < pos[s[i]] /\ s[i] \in Nodes
        BY <1>1 DEF Lists
  <2> QED BY <2>1
<1>3. s \in Bijection(1 .. Len(s), X)
      BY <1>1, <1>2 DEF Bijection, Injection, Surjection, IsInjective
<1>4. Len(s) = Cardinality(X)
      BY <1>1, <1>3, FS_CountingElements DEF ExistsBijection
<1> QED BY <1>1, <1>4 DEF Range

LEMMA InOrderLists ==
  ASSUME tree \in Trees, NEW r, Ranks(r, tree), NEW k \in Nat, \A m \in Nodes : r[m] < k,
         NEW mem, NEW sub, NEW pos, Shape(tree, mem, sub, pos)
  PROVE  \A n \in mem \cup {Nil} : Lists(InOrder[n], sub[n], pos)
<1>1. /\ mem \subseteq Nodes /\ Nil \notin Nodes /\ pos \in [Nodes -> Int]
      /\ sub \in [Ptr -> SUBSET mem] /\ sub[Nil] = {} /\ mem \subseteq Ptr /\ Nil \in Ptr
      BY SubKids
<1>2. r \in [Nodes -> Nat] /\ \A n \in Nodes, s \in Sides :
                                Kid(tree, n, s) \in Nodes => r[Kid(tree, n, s)] < r[n]
      BY DEF Ranks
<1>3. PICK order : order = InOrder
      OBVIOUS
<1>4. /\ order[Nil] = <<>>
      /\ \A n \in Nodes : order[n] = order[Kid(tree, n, "left")] \o <<n>>
                                       \o order[Kid(tree, n, "right")]
      BY <1>3, InOrderIs
<1>5. Lists(order[Nil], sub[Nil], pos)
  <2>1. order[Nil] \in Seq({}) /\ Len(order[Nil]) = 0
        BY <1>4
  <2> QED BY <1>1, <2>1 DEF Lists
<1> DEFINE Good == {n \in Nodes : n \in mem => Lists(order[n], sub[n], pos)}
<1>6. ASSUME NEW n \in Nodes, \A m \in Nodes : r[m] < r[n] => m \in Good
      PROVE  n \in Good
  <2> SUFFICES ASSUME n \in mem PROVE Lists(order[n], sub[n], pos)
      OBVIOUS
  <2>1. PICK l, rt : l = Kid(tree, n, "left") /\ rt = Kid(tree, n, "right")
        OBVIOUS
  <2>2. PICK A, B : A = sub[l] /\ B = sub[rt]
        OBVIOUS
  <2>3. /\ l \in mem \cup {Nil} /\ rt \in mem \cup {Nil}
        /\ sub[n] = {n} \cup A \cup B
        /\ \A x \in A : pos[x] < pos[n]
        /\ \A x \in B : pos[n] < pos[x]
    <3>1. \A s \in Sides :
              /\ Kid(tree, n, s) \in mem \cup {Nil}
              /\ sub[n] = {n} \cup sub[Kid(tree, n, s)] \cup sub[Kid(tree, n, Other(s))]
              /\ \A x \in sub[Kid(tree, n, s)] : Toward(pos, s, x, n)
          BY SubKids
    <3> QED BY <2>1, <2>2, <3>1 DEF Sides, Other, Toward
  <2>4. ASSUME NEW c \in mem \cup {Nil}, NEW s \in Sides, c = Kid(tree, n, s)
        PROVE  Lists(order[c], sub[c], pos)
    <3>1. CASE c = Nil
          BY <1>5, <3>1
    <3>2. CASE c # Nil
      <4>1. c \in mem /\ c \in Nodes /\ r[c] < r[n]
            BY <1>1, <1>2, <2>4, <3>2
      <4> QED BY <1>6, <4>1
    <3> QED BY <3>1, <3>2
  <2>5. PICK a, b, X, y : a = order[l] /\ b = order[rt] /\ X = sub[n] /\ y = order[n]
        OBVIOUS
  <2>6. Lists(a, A, pos) /\ Lists(b, B, pos)
        BY <2>1, <2>2, <2>3, <2>4, <2>5 DEF Sides
  <2>7. A \subseteq Nodes /\ B \subseteq Nodes
        BY <1>1, <2>2, <2>3
  <2>8. y = a \o <<n>> \o b
        BY <1>4, <2>1, <2>5
  <2>9. Lists(y, X, pos)
        BY <1>1, <2>3, <2>5, <2>6, <2>7, <2>8, ListsJoin
  <2> QED BY <2>5, <2>9
<1> HIDE DEF Good
<1>7. \A n \in Nodes : n \in Good
      BY <1>2, <1>6, RankInduction
<1> QED BY <1>1, <1>3, <1>5, <1>7 DEF Good

LEMMA InvOrdered ==
  ASSUME Keyed
  PROVE  IInv => Ordered
<1> SUFFICES ASSUME IInv, op.stores = <<>>
             PROVE  LET order == InOrder[tree.root]
                    IN  /\ Range(order) = members /\ Len(order) = Cardinality(members)
                        /\ \A i, j \in DOMAIN order : i < j => Cmp(order[j], order[i]) = -1
    BY DEF Ordered
<1>1. PICK pc, node, parent : pc = op.pc /\ node = op.node /\ parent = op.parent
      OBVIOUS
<1>2. /\ tree \in Trees /\ Ranked(tree)
      /\ Head_(tree, pc, node, parent, members)
      BY <1>1, AtHead
<1>3. PICK pos, sub : /\ Shape(tree, members, sub, pos) /\ Sorted(members, pos)
                      /\ Loose(tree, pc, members) /\ IsFiniteSet(members)
      BY <1>2 DEF Head_
<1>4. PICK r, k : Ranks(r, tree) /\ k \in Nat /\ \A n \in Nodes : r[n] < k
      BY <1>2, <1>3, BoundedRank
<1>5. PICK order : order = InOrder[tree.root]
      OBVIOUS
<1>6. /\ tree.root \in members \cup {Nil} /\ sub[tree.root] = members
      /\ members \in SUBSET Nodes /\ pos \in [Nodes -> Int]
      BY <1>3 DEF Shape
<1>7. Lists(order, members, pos)
      BY <1>2, <1>3, <1>4, <1>5, <1>6, InOrderLists
<1>8. Len(order) = Cardinality(members) /\ Range(order) = members
      BY <1>6, <1>7, ListLength
<1>9. ASSUME NEW i \in DOMAIN order, NEW j \in DOMAIN order, i < j
      PROVE  Cmp(order[j], order[i]) = -1
  <2>1. order[i] \in members /\ order[j] \in members /\ pos[order[i]] < pos[order[j]]
    <3>1. order \in Seq(members) /\ DOMAIN order = 1 .. Len(order)
          BY <1>7 DEF Lists
    <3>2. i \in 1 .. Len(order) /\ j \in 1 .. Len(order)
          BY <3>1
    <3>3. pos[order[i]] < pos[order[j]]
          BY <1>7, <1>9, <3>2 DEF Lists
    <3> QED BY <3>1, <3>2, <3>3
  <2> QED BY <1>3, <2>1 DEF Sorted
<1> QED BY <1>5, <1>8, <1>9

(* If the caller's comparison is that of a key, the tree holds exactly the *)
(* members, each once and in the order of their keys, whenever a loop      *)
(* begins, goes on or ends, whatever was inserted and erased before.       *)
THEOREM StaysOrdered ==
  ASSUME Keyed
  PROVE  Spec => []Ordered
BY Invariant, InvOrdered, PTL

-----------------------------------------------------------------------------
(* The walks, one step at a time.                                          *)

LEMMA AscendStep ==
  ASSUME tree \in Trees, NEW r, Ranks(r, tree), NEW k \in Nat, \A m \in Nodes : r[m] < k,
         NEW n \in Nodes, NEW side \in Sides
  PROVE  Ascend(n, side) = IF Parent(n) # Nil /\ n = Child(Parent(n), side)
                           THEN Ascend(Parent(n), side) ELSE Parent(n)
<1> DEFINE W(w) == [m \in Nodes |-> IF Parent(m) # Nil /\ m = Child(Parent(m), side)
                                    THEN w[Parent(m)] ELSE Parent(m)]
           walk == CHOOSE w : w = W(w)
<1>1. /\ r \in [Nodes -> Nat]
      /\ \A m \in Nodes, s \in Sides :
           Kid(tree, m, s) \in Nodes => r[Kid(tree, m, s)] < r[m]
      BY DEF Ranks
<1>2. \E w : w = W(w)
  <2>1. PICK stop, base, next, step, q :
          /\ stop = {m \in Nodes : ~ (Parent(m) # Nil /\ m = Child(Parent(m), side))}
          /\ base = [m \in Nodes |-> Parent(m)]
          /\ next = [m \in Nodes |-> Parent(m)]
          /\ step = [m \in Nodes |-> [v \in Ptr |-> v]]
          /\ q = [m \in Nodes |-> k - r[m]]
        OBVIOUS
  <2>2. q \in [Nodes -> Nat] /\ \A m \in Nodes : q[m] < k + 1
    <3>1. \A m \in Nodes : r[m] \in Nat /\ r[m] < k
          BY <1>1
    <3>2. \A m \in Nodes : k - r[m] \in Nat /\ k - r[m] < k + 1
          BY <3>1
    <3> QED BY <2>1, <3>2
  <2>3. ASSUME NEW m \in Nodes, m \notin stop
        PROVE  /\ next[m] \in Nodes /\ q[next[m]] < q[m]
               /\ step[m] \in [Ptr -> Ptr]
    <3>1. PICK p : p = Parent(m)
          OBVIOUS
    <3>2. p \in Nodes /\ Kid(tree, p, side) = m
          BY <2>1, <2>3, <3>1, TreeType, Reads DEF Ptr
    <3>3. r[m] < r[p] /\ r[m] \in Nat /\ r[p] \in Nat
          BY <1>1, <3>2
    <3>4. q[p] = k - r[p] /\ q[m] = k - r[m] /\ next[m] = p
          BY <2>1, <3>1, <3>2
    <3>5. q[p] < q[m]
          BY <3>3, <3>4
    <3> QED BY <2>1, <3>2, <3>4, <3>5
  <2>4. \A m \in Nodes : m \in stop => base[m] \in Ptr
        BY <2>1, TreeType, Reads
  <2>5. k + 1 \in Nat
        OBVIOUS
  <2>6. PICK f \in [Nodes -> Ptr] : IsWalk(f, Nodes, stop, base, step, next)
    <3> HIDE DEF W
    <3> QED BY <2>2, <2>3, <2>4, <2>5, WalkExists
  <2>7. \A m \in Nodes : f[m] = IF Parent(m) # Nil /\ m = Child(Parent(m), side)
                                THEN f[Parent(m)] ELSE Parent(m)
    <3> SUFFICES ASSUME NEW m \in Nodes
                 PROVE  f[m] = IF Parent(m) # Nil /\ m = Child(Parent(m), side)
                               THEN f[Parent(m)] ELSE Parent(m)
        OBVIOUS
    <3>1. f[m] = IF m \in stop THEN base[m] ELSE step[m][f[next[m]]]
          BY <2>6 DEF IsWalk
    <3>2. CASE m \in stop
          BY <2>1, <3>1, <3>2
    <3>3. CASE m \notin stop
      <4>1. next[m] \in Nodes /\ f[next[m]] \in Ptr /\ next[m] = Parent(m)
            BY <2>1, <2>3, <2>6, <3>3
      <4> QED BY <2>1, <3>1, <3>3, <4>1
    <3> QED BY <3>2, <3>3
  <2>8. f = W(f)
        BY <2>7
  <2> QED BY <2>8
<1>3. walk = W(walk)
      BY <1>2
<1>4. Ascend(n, side) = walk[n] /\ Ascend(Parent(n), side) = walk[Parent(n)]
      BY DEF Ascend
<1> HIDE DEF walk
<1> QED BY <1>3, <1>4

LEMMA OutermostStep ==
  ASSUME tree \in Trees, NEW r, Ranks(r, tree), NEW k \in Nat, \A m \in Nodes : r[m] < k,
         NEW n \in Nodes, NEW side \in Sides
  PROVE  Outermost(n, side) = IF Child(n, side) = Nil THEN n
                              ELSE Outermost(Child(n, side), side)
<1> DEFINE W(w) == [m \in Nodes |-> IF Child(m, side) = Nil THEN m
                                    ELSE w[Child(m, side)]]
           walk == CHOOSE w : w = W(w)
<1>1. /\ r \in [Nodes -> Nat]
      /\ \A m \in Nodes, s \in Sides :
           Kid(tree, m, s) \in Nodes => r[Kid(tree, m, s)] < r[m]
      BY DEF Ranks
<1>2. \E w : w = W(w)
  <2>1. PICK stop, base, next, step :
          /\ stop = {m \in Nodes : Child(m, side) = Nil}
          /\ base = [m \in Nodes |-> m]
          /\ next = [m \in Nodes |-> Child(m, side)]
          /\ step = [m \in Nodes |-> [v \in Nodes |-> v]]
        OBVIOUS
  <2>2. \A m \in Nodes : m \notin stop =>
          /\ next[m] \in Nodes /\ r[next[m]] < r[m]
          /\ step[m] \in [Nodes -> Nodes]
        BY <1>1, <2>1, TreeType, Reads DEF Ptr
  <2>3. \A m \in Nodes : m \in stop => base[m] \in Nodes
        BY <2>1
  <2>4. PICK f \in [Nodes -> Nodes] : IsWalk(f, Nodes, stop, base, step, next)
        BY <1>1, <2>2, <2>3, WalkExists
  <2>5. \A m \in Nodes : f[m] = IF Child(m, side) = Nil THEN m ELSE f[Child(m, side)]
        BY <2>1, <2>2, <2>4 DEF IsWalk
  <2>6. f = W(f)
        BY <2>5
  <2> QED BY <2>6
<1>3. walk = W(walk)
      BY <1>2
<1>4. Outermost(n, side) = walk[n] /\ Outermost(Child(n, side), side) = walk[Child(n, side)]
      BY DEF Outermost
<1> HIDE DEF walk
<1> QED BY <1>3, <1>4

LEMMA LeftDeepestStep ==
  ASSUME tree \in Trees, NEW r, Ranks(r, tree), NEW k \in Nat, \A m \in Nodes : r[m] < k,
         NEW n \in Nodes
  PROVE  LeftDeepest(n) = IF Child(n, "left") # Nil THEN LeftDeepest(Child(n, "left"))
                          ELSE IF Child(n, "right") # Nil THEN LeftDeepest(Child(n, "right"))
                          ELSE n
<1> DEFINE W(w) == [m \in Nodes |-> IF Child(m, "left") # Nil THEN w[Child(m, "left")]
                                    ELSE IF Child(m, "right") # Nil
                                    THEN w[Child(m, "right")]
                                    ELSE m]
           walk == CHOOSE w : w = W(w)
<1>1. /\ r \in [Nodes -> Nat]
      /\ \A m \in Nodes, s \in Sides :
           Kid(tree, m, s) \in Nodes => r[Kid(tree, m, s)] < r[m]
      BY DEF Ranks
<1>2. \E w : w = W(w)
  <2>1. PICK stop, base, next, step :
          /\ stop = {m \in Nodes : Child(m, "left") = Nil /\ Child(m, "right") = Nil}
          /\ base = [m \in Nodes |-> m]
          /\ next = [m \in Nodes |-> IF Child(m, "left") # Nil THEN Child(m, "left")
                                     ELSE Child(m, "right")]
          /\ step = [m \in Nodes |-> [v \in Nodes |-> v]]
        OBVIOUS
  <2>2. \A m \in Nodes : m \notin stop =>
          /\ next[m] \in Nodes /\ r[next[m]] < r[m]
          /\ step[m] \in [Nodes -> Nodes]
        BY <1>1, <2>1, TreeType, Reads DEF Ptr, Sides
  <2>3. \A m \in Nodes : m \in stop => base[m] \in Nodes
        BY <2>1
  <2>4. PICK f \in [Nodes -> Nodes] : IsWalk(f, Nodes, stop, base, step, next)
        BY <1>1, <2>2, <2>3, WalkExists
  <2>5. \A m \in Nodes : f[m] = IF Child(m, "left") # Nil THEN f[Child(m, "left")]
                                ELSE IF Child(m, "right") # Nil THEN f[Child(m, "right")]
                                ELSE m
        BY <2>1, <2>2, <2>4 DEF IsWalk
  <2>6. f = W(f)
        BY <2>5
  <2> QED BY <2>6
<1>3. walk = W(walk)
      BY <1>2
<1>4. \A m : LeftDeepest(m) = walk[m]
      BY DEF LeftDeepest
<1> HIDE DEF walk
<1> QED BY <1>3, <1>4

-----------------------------------------------------------------------------
(* Each member of s follows the one before it by R.                        *)
Chain(R, s, first, last) ==
  /\ s \in Seq(Nodes) /\ Len(s) > 0 /\ s[1] = first /\ s[Len(s)] = last
  /\ \A i \in 1 .. Len(s) : i > 1 => <<s[i - 1], s[i]>> \in R

LEMMA ChainOne ==
  ASSUME NEW R, NEW n \in Nodes
  PROVE  Chain(R, <<n>>, n, n)
BY DEF Chain

LEMMA ChainJoin ==
  ASSUME NEW R, NEW a, NEW b, NEW f, NEW l, NEW g, NEW m,
         Chain(R, a, f, l), Chain(R, b, g, m), <<l, g>> \in R,
         NEW s, s = a \o b
  PROVE  Chain(R, s, f, m)
<1>1. a \in Seq(Nodes) /\ b \in Seq(Nodes)
      BY DEF Chain
<1>2. PICK p, q : p = Len(a) /\ q = Len(b)
      OBVIOUS
<1>3. /\ s \in Seq(Nodes) /\ Len(s) = p + q /\ p \in Nat /\ q \in Nat
      /\ \A i \in 1 .. p : s[i] = a[i]
      /\ \A i \in 1 .. q : s[p + i] = b[i]
      BY <1>1, <1>2
<1>4. p > 0 /\ q > 0 /\ a[1] = f /\ a[p] = l /\ b[1] = g /\ b[q] = m
      BY <1>2 DEF Chain
<1>5. s[1] = f /\ s[p] = l /\ s[p + 1] = g /\ s[p + q] = m
  <2>1. 1 \in 1 .. p /\ p \in 1 .. p /\ 1 \in 1 .. q /\ q \in 1 .. q
        BY <1>3, <1>4
  <2>2. s[1] = a[1] /\ s[p] = a[p] /\ s[p + 1] = b[1] /\ s[p + q] = b[q]
        BY <1>3, <2>1
  <2> QED BY <1>4, <2>2
<1>6. ASSUME NEW i \in 1 .. Len(s), i > 1 PROVE <<s[i - 1], s[i]>> \in R
  <2>1. CASE i \in 1 .. p
    <3>1. <<a[i - 1], a[i]>> \in R
          BY <1>2, <1>6, <2>1 DEF Chain
    <3>2. i - 1 \in 1 .. p
          BY <1>3, <1>6, <2>1
    <3> QED BY <1>3, <2>1, <3>1, <3>2
  <2>2. CASE i = p + 1
    <3>1. i - 1 = p
          BY <1>3, <2>2
    <3> QED BY <1>5, <2>2, <3>1
  <2>3. CASE i > p + 1
    <3>1. PICK j : j = i - p
          OBVIOUS
    <3>2. j \in 1 .. q /\ j > 1 /\ j - 1 \in 1 .. q /\ i = p + j /\ i - 1 = p + (j - 1)
          BY <1>3, <2>3, <3>1
    <3>3. <<b[j - 1], b[j]>> \in R
          BY <1>2, <3>2 DEF Chain
    <3>4. s[i] = b[j] /\ s[i - 1] = b[j - 1]
          BY <1>3, <3>2
    <3> QED BY <3>3, <3>4
  <2>4. i \in 1 .. p \/ i = p + 1 \/ i > p + 1
        BY <1>3
  <2> QED BY <2>1, <2>2, <2>3, <2>4
<1>7. Len(s) > 0 /\ s[Len(s)] = m
      BY <1>3, <1>4, <1>5
<1> QED BY <1>3, <1>5, <1>6, <1>7 DEF Chain

(* The walks forwards and backwards, over the part below each node.        *)
LEMMA WalkBelow ==
  ASSUME tree \in Trees, NEW r, Ranks(r, tree), NEW k \in Nat, \A m \in Nodes : r[m] < k,
         NEW mem, NEW sub, NEW pos, Shape(tree, mem, sub, pos),
         NEW R, R = {x \in Nodes \X Nodes : Next_(x[1]) = x[2] /\ Prev(x[2]) = x[1]}
  PROVE  \A n \in mem :
           /\ Chain(R, InOrder[n], Outermost(n, "left"), Outermost(n, "right"))
           /\ Next_(Outermost(n, "right")) = Ascend(n, "right")
           /\ Prev(Outermost(n, "left")) = Ascend(n, "left")
<1>1. mem \subseteq Nodes /\ Nil \notin Nodes
      BY SubKids
<1>2. r \in [Nodes -> Nat] /\ \A n \in Nodes, s \in Sides :
                                Kid(tree, n, s) \in Nodes => r[Kid(tree, n, s)] < r[n]
      BY DEF Ranks
<1>3. PICK order : order = InOrder
      OBVIOUS
<1>4. /\ order[Nil] = <<>>
      /\ \A n \in Nodes : order[n] = order[Kid(tree, n, "left")] \o <<n>>
                                       \o order[Kid(tree, n, "right")]
      /\ \A n \in Ptr : order[n] \in Seq(Nodes)
      BY <1>3, InOrderIs
<1> DEFINE Goal(n) == /\ Chain(R, order[n], Outermost(n, "left"), Outermost(n, "right"))
                      /\ Next_(Outermost(n, "right")) = Ascend(n, "right")
                      /\ Prev(Outermost(n, "left")) = Ascend(n, "left")
           Good == {n \in Nodes : n \in mem => Goal(n)}
<1>5. ASSUME NEW n \in Nodes, \A m \in Nodes : r[m] < r[n] => m \in Good
      PROVE  n \in Good
  <2> SUFFICES ASSUME n \in mem PROVE Goal(n)
      OBVIOUS
  <2>1. PICK left, right : left = "left" /\ right = "right"
        OBVIOUS
  <2>2. left \in Sides /\ right \in Sides /\ left # right /\ Other(left) = right
        BY <2>1 DEF Sides, Other
  <2>3. PICK a, b : a = Kid(tree, n, left) /\ b = Kid(tree, n, right)
        OBVIOUS
  <2>4. /\ a \in mem \cup {Nil} /\ b \in mem \cup {Nil}
        /\ a # Nil => Up(tree, a) = n /\ a # b
        /\ b # Nil => Up(tree, b) = n
        /\ n # Nil
        BY <2>2, <2>3, Around
  <2>5. /\ a # Nil => Goal(a) /\ a \in Nodes
        /\ b # Nil => Goal(b) /\ b \in Nodes
        BY <1>1, <1>2, <1>5, <2>2, <2>3, <2>4
  <2> HIDE DEF Goal, Good
  <2>6. /\ Outermost(n, left) = IF a = Nil THEN n ELSE Outermost(a, left)
        /\ Outermost(n, right) = IF b = Nil THEN n ELSE Outermost(b, right)
        BY <2>2, <2>3, OutermostStep, Reads
  <2>7. /\ a # Nil => Ascend(a, right) = n /\ Ascend(a, left) = Ascend(n, left)
        /\ b # Nil => Ascend(b, left) = n /\ Ascend(b, right) = Ascend(n, right)
    <3>1. ASSUME NEW c \in Nodes, NEW s \in Sides, Up(tree, c) = n
          PROVE  Ascend(c, s) = IF c = Kid(tree, n, s) THEN Ascend(n, s) ELSE n
          BY <2>4, <3>1, AscendStep, Reads
    <3> QED BY <2>2, <2>3, <2>4, <2>5, <3>1
  <2>8. Next_(n) = IF b # Nil THEN Outermost(b, left) ELSE Ascend(n, right)
        BY <2>1, <2>3, Reads DEF Next_
  <2>9. Prev(n) = IF a # Nil THEN Outermost(a, right) ELSE Ascend(n, left)
        BY <2>1, <2>3, Reads DEF Prev
  <2>10. /\ a # Nil => /\ Chain(R, order[a], Outermost(a, left), Outermost(a, right))
                       /\ Next_(Outermost(a, right)) = n
                       /\ Prev(Outermost(a, left)) = Ascend(n, left)
         /\ b # Nil => /\ Chain(R, order[b], Outermost(b, left), Outermost(b, right))
                       /\ Next_(Outermost(b, right)) = Ascend(n, right)
                       /\ Prev(Outermost(b, left)) = n
         BY <2>1, <2>5, <2>7 DEF Goal
  <2>11. PICK one, p, q, s, c : /\ one = <<n>> /\ p = order[a] /\ q = order[b] /\ s = order[n]
                                /\ c = p \o one
         OBVIOUS
  <2>12. s = c \o q /\ p \in Seq(Nodes) /\ q \in Seq(Nodes) /\ one \in Seq(Nodes)
         /\ (a = Nil => p = <<>>) /\ (b = Nil => q = <<>>)
    <3>1. a \in Ptr /\ b \in Ptr
          BY <1>1, <2>4 DEF Ptr
    <3>2. order[n] = order[Kid(tree, n, left)] \o <<n>> \o order[Kid(tree, n, right)]
          BY <1>4, <2>1
    <3>3. s = c \o q
          BY <2>3, <2>11, <3>2
    <3>4. p \in Seq(Nodes) /\ q \in Seq(Nodes)
          BY <1>4, <2>11, <3>1
    <3>5. one \in Seq(Nodes)
          BY <2>11
    <3>6. (a = Nil => p = <<>>) /\ (b = Nil => q = <<>>)
          BY <1>4, <2>11
    <3> QED BY <3>3, <3>4, <3>5, <3>6
  <2>13. Chain(R, c, Outermost(n, left), n)
    <3>1. Chain(R, one, n, n)
          BY <2>11, ChainOne
    <3>2. CASE a = Nil
      <4>1. c = one
        <5>1. c = <<>> \o one /\ one \in Seq(Nodes)
              BY <2>11, <2>12, <3>2
        <5> QED BY <5>1
      <4> QED BY <2>6, <3>1, <3>2, <4>1
    <3>3. CASE a # Nil
      <4>1. PICK l : l = Outermost(a, right)
            OBVIOUS
      <4>2. Chain(R, p, Outermost(a, left), l)
            BY <2>10, <2>11, <3>3, <4>1
      <4>3. l \in Nodes
        <5>1. p \in Seq(Nodes) /\ Len(p) > 0 /\ p[Len(p)] = l
              BY <4>2 DEF Chain
        <5> QED BY <5>1
      <4>4. <<l, n>> \in R
        <5>1. Next_(l) = n /\ Prev(n) = l
              BY <2>9, <2>10, <3>3, <4>1
        <5>2. PICK x : x = <<l, n>>
              OBVIOUS
        <5>3. x \in Nodes \X Nodes /\ x[1] = l /\ x[2] = n
              BY <4>3, <5>2
        <5>4. Next_(x[1]) = x[2] /\ Prev(x[2]) = x[1]
              BY <5>1, <5>3
        <5> QED BY <5>2, <5>3, <5>4
      <4>5. Chain(R, c, Outermost(a, left), n)
            BY <2>11, <3>1, <4>2, <4>4, ChainJoin
      <4> QED BY <2>6, <3>3, <4>5
    <3> QED BY <3>2, <3>3
  <2>14. Chain(R, s, Outermost(n, left), Outermost(n, right))
    <3>1. CASE b = Nil
      <4>1. s = c
        <5>1. c \in Seq(Nodes)
              BY <2>11, <2>12
        <5> QED BY <2>12, <3>1, <5>1
      <4> QED BY <2>6, <2>13, <3>1, <4>1
    <3>2. CASE b # Nil
      <4>1. PICK g : g = Outermost(b, left)
            OBVIOUS
      <4>2. Chain(R, q, g, Outermost(b, right))
            BY <2>10, <2>11, <3>2, <4>1
      <4>3. g \in Nodes
        <5>1. q \in Seq(Nodes) /\ Len(q) > 0 /\ q[1] = g
              BY <4>2 DEF Chain
        <5> QED BY <5>1
      <4>4. <<n, g>> \in R
        <5>1. Next_(n) = g /\ Prev(g) = n
              BY <2>8, <2>10, <3>2, <4>1
        <5>2. PICK x : x = <<n, g>>
              OBVIOUS
        <5>3. x \in Nodes \X Nodes /\ x[1] = n /\ x[2] = g
              BY <4>3, <5>2
        <5>4. Next_(x[1]) = x[2] /\ Prev(x[2]) = x[1]
              BY <5>1, <5>3
        <5> QED BY <5>2, <5>3, <5>4
      <4>5. Chain(R, s, Outermost(n, left), Outermost(b, right))
            BY <2>12, <2>13, <4>2, <4>4, ChainJoin
      <4> QED BY <2>6, <3>2, <4>5
    <3> QED BY <3>1, <3>2
  <2>15. Next_(Outermost(n, right)) = Ascend(n, right)
         BY <2>6, <2>8, <2>10
  <2>16. Prev(Outermost(n, left)) = Ascend(n, left)
         BY <2>6, <2>9, <2>10
  <2> QED BY <2>1, <2>11, <2>14, <2>15, <2>16 DEF Goal
<1> HIDE DEF Good, Goal
<1>6. \A n \in Nodes : n \in Good
      BY <1>2, <1>5, RankInduction
<1> QED BY <1>1, <1>3, <1>6 DEF Good, Goal

(* The walk that visits the children first.                                *)
LEMMA PostBelow ==
  ASSUME tree \in Trees, NEW r, Ranks(r, tree), NEW k \in Nat, \A m \in Nodes : r[m] < k,
         NEW mem, NEW sub, NEW pos, Shape(tree, mem, sub, pos),
         NEW R, R = {x \in Nodes \X Nodes : NextPostorder(x[1]) = x[2]},
         NEW post, post[Nil] = <<>>,
         \A n \in Ptr : post[n] \in Seq(Nodes),
         \A n \in Nodes : post[n] = post[Kid(tree, n, "left")]
                                      \o post[Kid(tree, n, "right")] \o <<n>>
  PROVE  \A n \in mem : Chain(R, post[n], LeftDeepest(n), n)
<1>1. mem \subseteq Nodes /\ Nil \notin Nodes
      BY SubKids
<1>2. r \in [Nodes -> Nat] /\ \A n \in Nodes, s \in Sides :
                                Kid(tree, n, s) \in Nodes => r[Kid(tree, n, s)] < r[n]
      BY DEF Ranks
<1> DEFINE Good == {n \in Nodes : n \in mem => Chain(R, post[n], LeftDeepest(n), n)}
<1>3. ASSUME NEW n \in Nodes, \A m \in Nodes : r[m] < r[n] => m \in Good
      PROVE  n \in Good
  <2> SUFFICES ASSUME n \in mem PROVE Chain(R, post[n], LeftDeepest(n), n)
      OBVIOUS
  <2>1. PICK left, right : left = "left" /\ right = "right"
        OBVIOUS
  <2>2. left \in Sides /\ right \in Sides /\ left # right /\ Other(left) = right
        BY <2>1 DEF Sides, Other
  <2>3. PICK a, b : a = Kid(tree, n, left) /\ b = Kid(tree, n, right)
        OBVIOUS
  <2>4. /\ a \in mem \cup {Nil} /\ b \in mem \cup {Nil}
        /\ a # Nil => Up(tree, a) = n /\ a # b
        /\ b # Nil => Up(tree, b) = n
        /\ n # Nil
        BY <2>2, <2>3, Around
  <2>5. /\ a # Nil => Chain(R, post[a], LeftDeepest(a), a) /\ a \in Nodes
        /\ b # Nil => Chain(R, post[b], LeftDeepest(b), b) /\ b \in Nodes
        BY <1>1, <1>2, <1>3, <2>2, <2>3, <2>4
  <2> HIDE DEF Good
  <2>6. LeftDeepest(n) = IF a # Nil THEN LeftDeepest(a)
                         ELSE IF b # Nil THEN LeftDeepest(b) ELSE n
        BY <2>1, <2>3, LeftDeepestStep, Reads
  <2>7. /\ a # Nil => NextPostorder(a) = IF b # Nil THEN LeftDeepest(b) ELSE n
        /\ b # Nil => NextPostorder(b) = n
    <3>1. ASSUME NEW c \in Nodes, Up(tree, c) = n
          PROVE  NextPostorder(c) = IF c = a /\ b # Nil THEN LeftDeepest(b) ELSE n
          BY <2>1, <2>3, <2>4, <3>1, Reads DEF NextPostorder
    <3> QED BY <2>4, <2>5, <3>1
  <2>8. ASSUME NEW x \in Nodes, NEW y \in Nodes, NextPostorder(x) = y
        PROVE  <<x, y>> \in R
    <3>1. PICK z : z = <<x, y>>
          OBVIOUS
    <3>2. z \in Nodes \X Nodes /\ z[1] = x /\ z[2] = y
          BY <3>1
    <3>3. NextPostorder(z[1]) = z[2]
          BY <2>8, <3>2
    <3> QED BY <3>1, <3>2, <3>3
  <2>9. PICK one, p, q, s, c : /\ one = <<n>> /\ p = post[a] /\ q = post[b] /\ s = post[n]
                               /\ c = q \o one
        OBVIOUS
  <2>10. /\ s = p \o c /\ p \in Seq(Nodes) /\ q \in Seq(Nodes) /\ one \in Seq(Nodes)
         /\ (a = Nil => p = <<>>) /\ (b = Nil => q = <<>>)
    <3>1. a \in Ptr /\ b \in Ptr
          BY <1>1, <2>4 DEF Ptr
    <3>2. p \in Seq(Nodes) /\ q \in Seq(Nodes)
          BY <2>9, <3>1
    <3>3. one \in Seq(Nodes)
          BY <2>9
    <3>4. s = p \o q \o one
      <4>1. post[n] = post[Kid(tree, n, left)] \o post[Kid(tree, n, right)] \o <<n>>
            BY <2>1
      <4> QED BY <2>3, <2>9, <4>1
    <3>5. s = p \o c
      <4>1. (p \o q) \o one = p \o (q \o one)
            BY <3>2, <3>3
      <4> QED BY <2>9, <3>4, <4>1
    <3>6. (a = Nil => p = <<>>) /\ (b = Nil => q = <<>>)
          BY <2>9
    <3> QED BY <3>2, <3>3, <3>5, <3>6
  <2>11. PICK g : g = IF b = Nil THEN n ELSE LeftDeepest(b)
         OBVIOUS
  <2>12. Chain(R, c, g, n)
    <3>1. Chain(R, one, n, n)
          BY <2>9, ChainOne
    <3>2. CASE b = Nil
      <4>1. c = one
        <5>1. c = <<>> \o one /\ one \in Seq(Nodes)
              BY <2>9, <2>10, <3>2
        <5> QED BY <5>1
      <4> QED BY <2>11, <3>1, <3>2, <4>1
    <3>3. CASE b # Nil
      <4>1. Chain(R, q, g, b)
            BY <2>5, <2>9, <2>11, <3>3
      <4>2. <<b, n>> \in R
            BY <2>5, <2>7, <2>8, <3>3
      <4> QED BY <2>9, <3>1, <4>1, <4>2, ChainJoin
    <3> QED BY <3>2, <3>3
  <2>13. g \in Nodes /\ c \in Seq(Nodes)
    <3>1. c \in Seq(Nodes) /\ Len(c) > 0 /\ c[1] = g
          BY <2>12 DEF Chain
    <3> QED BY <3>1
  <2>14. CASE a = Nil
    <3>1. s = c
          BY <2>10, <2>13, <2>14
    <3>2. LeftDeepest(n) = g
          BY <2>6, <2>11, <2>14
    <3> QED BY <2>9, <2>12, <3>1, <3>2
  <2>15. CASE a # Nil
    <3>1. Chain(R, p, LeftDeepest(a), a)
          BY <2>5, <2>9, <2>15
    <3>2. <<a, g>> \in R
          BY <2>5, <2>7, <2>8, <2>11, <2>13, <2>15
    <3>3. Chain(R, s, LeftDeepest(a), n)
          BY <2>10, <2>12, <3>1, <3>2, ChainJoin
    <3> QED BY <2>6, <2>9, <2>15, <3>3
  <2> QED BY <2>14, <2>15
<1> HIDE DEF Good
<1>4. \A n \in Nodes : n \in Good
      BY <1>2, <1>3, RankInduction
<1> QED BY <1>1, <1>4 DEF Good

-----------------------------------------------------------------------------

(* What is known between two calls.                                        *)
LEMMA SettledShape ==
  ASSUME IInv, Settled
  PROVE  /\ tree \in Trees
         /\ \E pos, sub, r, k : /\ Shape(tree, members, sub, pos)
                                /\ LeftmostOf(tree, members, pos)
                                /\ Ranks(r, tree) /\ k \in Nat /\ \A m \in Nodes : r[m] < k
<1>1. PICK pc, node, parent : pc = op.pc /\ node = op.node /\ parent = op.parent
      OBVIOUS
<1>2. op.stores = <<>>
      BY DEF IInv, UnderWay, Settled
<1>3. /\ tree \in Trees /\ Ranked(tree)
      /\ Head_(tree, pc, node, parent, members)
      BY <1>1, <1>2, AtHead
<1>4. PICK pos, sub : /\ Shape(tree, members, sub, pos) /\ LeftmostOf(tree, members, pos)
                      /\ Loose(tree, pc, members) /\ IsFiniteSet(members)
      BY <1>3 DEF Head_
<1>5. PICK r, k : Ranks(r, tree) /\ k \in Nat /\ \A n \in Nodes : r[n] < k
      BY <1>3, <1>4, BoundedRank
<1> QED BY <1>3, <1>4, <1>5

LEMMA InvParents == IInv => ParentsAgree
<1> SUFFICES ASSUME IInv, Settled
             PROVE  /\ tree.root # Nil => Parent(tree.root) = Nil
                    /\ \A n \in members : \A side \in Sides :
                         Child(n, side) # Nil => Parent(Child(n, side)) = n
    BY DEF ParentsAgree
<1>1. PICK pos, sub : Shape(tree, members, sub, pos)
      BY SettledShape
<1>2. tree.root # Nil => Up(tree, tree.root) = Nil
      BY <1>1 DEF Shape
<1>3. \A n \in members, s \in Sides : Kid(tree, n, s) # Nil => Up(tree, Kid(tree, n, s)) = n
      BY <1>1, SubKids
<1> QED BY <1>2, <1>3, Reads

LEMMA InvLeftmost == IInv => LeftmostIsFirst
<1> SUFFICES ASSUME IInv, Settled PROVE tree.leftmost = First
    BY DEF LeftmostIsFirst
<1>1. tree \in Trees
      BY SettledShape
<1>2. PICK pos, sub, r, k : /\ Shape(tree, members, sub, pos)
                            /\ LeftmostOf(tree, members, pos)
                            /\ Ranks(r, tree) /\ k \in Nat /\ \A m \in Nodes : r[m] < k
      BY SettledShape
<1>3. /\ tree.root \in members \cup {Nil} /\ sub[tree.root] = members /\ sub[Nil] = {}
      /\ members \subseteq Nodes /\ pos \in [Nodes -> Int]
      BY <1>2 DEF Shape
<1>4. CASE tree.root = Nil
      BY <1>2, <1>3, <1>4 DEF LeftmostOf, First
<1>5. CASE tree.root # Nil
  <2>1. PICK left : left = "left"
        OBVIOUS
  <2>2. left \in Sides
        BY <2>1 DEF Sides
  <2>3. PICK f : f = Outermost(tree.root, left)
        OBVIOUS
  <2>4. /\ f \in members
        /\ \A x \in members : x # f => Toward(pos, left, f, x)
        BY <1>1, <1>2, <1>3, <1>5, <2>2, <2>3, OutermostIs
  <2>5. \A x \in members : x # f => pos[f] < pos[x]
        BY <2>1, <2>4 DEF Toward
  <2>6. tree.leftmost \in members /\ (f # tree.leftmost => pos[tree.leftmost] < pos[f])
        BY <1>2, <2>4 DEF LeftmostOf
  <2>7. pos[f] \in Int /\ pos[tree.leftmost] \in Int
        BY <1>3, <2>4, <2>6
  <2>8. f = tree.leftmost
        BY <2>5, <2>6, <2>7
  <2> QED BY <1>5, <2>1, <2>3, <2>8 DEF First
<1> QED BY <1>4, <1>5

LEMMA InvWalks == IInv => WalksInOrder
<1> DEFINE At(order, i) == IF i \in DOMAIN order THEN order[i] ELSE Nil
<1> SUFFICES ASSUME IInv, Settled
             PROVE  LET order == InOrder[tree.root]
                    IN  /\ First = At(order, 1) /\ Last_ = At(order, Len(order))
                        /\ \A i \in DOMAIN order :
                             /\ Next_(order[i]) = At(order, i + 1)
                             /\ Prev(order[i]) = At(order, i - 1)
    BY DEF WalksInOrder
<1>1. tree \in Trees
      BY SettledShape
<1>2. PICK pos, sub, r, k : /\ Shape(tree, members, sub, pos)
                            /\ Ranks(r, tree) /\ k \in Nat /\ \A m \in Nodes : r[m] < k
      BY SettledShape
<1>3. /\ tree.root \in members \cup {Nil} /\ members \subseteq Nodes
      /\ tree.root # Nil => Up(tree, tree.root) = Nil
      BY <1>2 DEF Shape
<1>4. PICK order : order = InOrder[tree.root]
      OBVIOUS
<1>5. CASE tree.root = Nil
  <2>1. order = <<>>
        BY <1>1, <1>2, <1>4, <1>5, InOrderIs
  <2>2. Len(order) = 0 /\ DOMAIN order = {}
        BY <2>1
  <2> QED BY <1>4, <1>5, <2>2 DEF First, Last_
<1>6. CASE tree.root # Nil
  <2>1. PICK R : R = {x \in Nodes \X Nodes : Next_(x[1]) = x[2] /\ Prev(x[2]) = x[1]}
        OBVIOUS
  <2>2. PICK left, right : left = "left" /\ right = "right"
        OBVIOUS
  <2>3. /\ tree.root \in members /\ tree.root \in Nodes /\ left \in Sides /\ right \in Sides
        BY <1>3, <1>6, <2>2 DEF Sides
  <2>4. PICK f, l : f = Outermost(tree.root, left) /\ l = Outermost(tree.root, right)
        OBVIOUS
  <2>5. /\ Chain(R, order, f, l)
        /\ Next_(l) = Ascend(tree.root, right) /\ Prev(f) = Ascend(tree.root, left)
    <3>1. /\ Chain(R, InOrder[tree.root], Outermost(tree.root, "left"),
                   Outermost(tree.root, "right"))
          /\ Next_(Outermost(tree.root, "right")) = Ascend(tree.root, "right")
          /\ Prev(Outermost(tree.root, "left")) = Ascend(tree.root, "left")
          BY <1>1, <1>2, <2>1, <2>3, WalkBelow
    <3> QED BY <1>4, <2>2, <2>4, <3>1
  <2>6. Next_(l) = Nil /\ Prev(f) = Nil
    <3>1. \A s \in Sides : Ascend(tree.root, s) = Nil
      <4>1. Parent(tree.root) = Nil
            BY <1>3, <1>6, Reads
      <4> QED BY <1>1, <1>2, <2>3, <4>1, AscendStep
    <3> QED BY <2>3, <2>5, <3>1
  <2>7. PICK len : len = Len(order)
        OBVIOUS
  <2>8. /\ len \in Nat /\ len > 0 /\ DOMAIN order = 1 .. len
        /\ order[1] = f /\ order[len] = l
        /\ \A i \in 1 .. len : i > 1 => <<order[i - 1], order[i]>> \in R
    <3>1. order \in Seq(Nodes)
          BY <2>5 DEF Chain
    <3> QED BY <2>5, <2>7, <3>1 DEF Chain
  <2>9. First = f /\ Last_ = l
        BY <1>6, <2>2, <2>4 DEF First, Last_
  <2>10. First = At(order, 1) /\ Last_ = At(order, len)
         BY <2>8, <2>9
  <2>11. ASSUME NEW i \in 1 .. len, i > 1
         PROVE  Next_(order[i - 1]) = order[i] /\ Prev(order[i]) = order[i - 1]
    <3>1. PICK x : x = <<order[i - 1], order[i]>>
          OBVIOUS
    <3>2. x \in R /\ x[1] = order[i - 1] /\ x[2] = order[i]
          BY <2>8, <2>11, <3>1
    <3>3. Next_(x[1]) = x[2] /\ Prev(x[2]) = x[1]
          BY <2>1, <3>2
    <3> QED BY <3>2, <3>3
  <2>12. ASSUME NEW i \in 1 .. len
         PROVE  Next_(order[i]) = At(order, i + 1)
    <3>1. CASE i = len
      <4>1. i + 1 \notin 1 .. len
            BY <2>8, <3>1
      <4> QED BY <2>6, <2>8, <3>1, <4>1
    <3>2. CASE i # len
      <4>1. PICK j : j = i + 1
            OBVIOUS
      <4>2. j \in 1 .. len /\ j > 1 /\ j - 1 = i
            BY <2>8, <3>2, <4>1
      <4> QED BY <2>8, <2>11, <4>1, <4>2
    <3> QED BY <3>1, <3>2
  <2>13. ASSUME NEW i \in 1 .. len
         PROVE  Prev(order[i]) = At(order, i - 1)
    <3>1. CASE i = 1
      <4>1. i - 1 \notin 1 .. len
            BY <2>8, <3>1
      <4> QED BY <2>6, <2>8, <3>1, <4>1
    <3>2. CASE i # 1
      <4>1. i > 1 /\ i - 1 \in 1 .. len
            BY <2>8, <3>2
      <4> QED BY <2>8, <2>11, <4>1
    <3> QED BY <3>1, <3>2
  <2> HIDE DEF At
  <2> QED BY <1>4, <2>7, <2>8, <2>10, <2>12, <2>13
<1> QED BY <1>5, <1>6

LEMMA InvPostorder == IInv => PostorderChildrenFirst
<1> DEFINE W(w) == [n \in Nodes \cup {Nil} |->
                      IF n = Nil THEN <<>>
                      ELSE w[Child(n, "left")] \o w[Child(n, "right")] \o <<n>>]
           post == CHOOSE w : w = W(w)
           At(order, i) == IF i \in DOMAIN order THEN order[i] ELSE Nil
<1> SUFFICES ASSUME IInv, Settled
             PROVE  /\ FirstPostorder = At(post[tree.root], 1)
                    /\ \A i \in DOMAIN post[tree.root] :
                         NextPostorder(post[tree.root][i]) = At(post[tree.root], i + 1)
    BY DEF PostorderChildrenFirst
<1>1. tree \in Trees
      BY SettledShape
<1>2. PICK pos, sub, r, k : /\ Shape(tree, members, sub, pos)
                            /\ Ranks(r, tree) /\ k \in Nat /\ \A m \in Nodes : r[m] < k
      BY SettledShape
<1>3. /\ tree.root \in members \cup {Nil} /\ members \subseteq Nodes
      /\ tree.root # Nil => Up(tree, tree.root) = Nil
      BY <1>2 DEF Shape
<1>4. PICK mid : mid = FALSE
      OBVIOUS
<1>5. PICK w \in [Ptr -> Seq(Nodes)] :
        /\ w[Nil] = <<>>
        /\ \A n \in Nodes :
             w[n] = Joined(w[Kid(tree, n, "left")], n, w[Kid(tree, n, "right")], mid)
  <2> HIDE DEF post
  <2> QED BY <1>1, <1>2, <1>4, OrderExists
<1>6. \A n \in Nodes : w[n] = w[Child(n, "left")] \o w[Child(n, "right")] \o <<n>>
      BY <1>4, <1>5, Reads DEF Joined
<1>7. w = W(w)
      BY <1>5, <1>6, NilIsNoNode DEF Ptr
<1>8. post = W(post)
      BY <1>7
<1> HIDE DEF post
<1>9. /\ post[Nil] = <<>>
      /\ \A n \in Nodes : post[n] = post[Kid(tree, n, "left")]
                                      \o post[Kid(tree, n, "right")] \o <<n>>
      BY <1>8, Reads, NilIsNoNode
<1> HIDE DEF W
<1> DEFINE Good == {n \in Nodes : post[n] \in Seq(Nodes)}
<1>10. ASSUME NEW n \in Nodes, \A m \in Nodes : r[m] < r[n] => m \in Good
       PROVE  n \in Good
  <2>1. ASSUME NEW s \in Sides PROVE post[Kid(tree, n, s)] \in Seq(Nodes)
    <3>1. Kid(tree, n, s) \in Nodes \cup {Nil}
          BY <1>1, TreeType DEF Ptr
    <3>2. Kid(tree, n, s) \in Nodes => r[Kid(tree, n, s)] < r[n]
          BY <1>2 DEF Ranks
    <3>3. <<>> \in Seq(Nodes)
          OBVIOUS
    <3> QED BY <1>9, <1>10, <3>1, <3>2, <3>3
  <2>2. PICK a, b : a = post[Kid(tree, n, "left")] /\ b = post[Kid(tree, n, "right")]
        OBVIOUS
  <2>3. a \in Seq(Nodes) /\ b \in Seq(Nodes)
        BY <2>1, <2>2 DEF Sides
  <2>4. post[n] = a \o b \o <<n>>
        BY <1>9, <2>2
  <2>5. PICK s : s = post[n]
        OBVIOUS
  <2>6. s \in Seq(Nodes)
        BY <2>3, <2>4, <2>5, PostJoined
  <2> QED BY <2>5, <2>6
<1> HIDE DEF Good
<1>11. r \in [Nodes -> Nat]
       BY <1>2 DEF Ranks
<1>12. \A n \in Nodes : n \in Good
       BY <1>10, <1>11, RankInduction
<1>13. \A n \in Ptr : post[n] \in Seq(Nodes)
  <2>1. <<>> \in Seq(Nodes)
        OBVIOUS
  <2> QED BY <1>9, <1>12, <2>1 DEF Good, Ptr
<1>14. PICK order : order = post[tree.root]
       OBVIOUS
<1>15. CASE tree.root = Nil
  <2>1. DOMAIN order = {}
        BY <1>9, <1>14, <1>15
  <2> QED BY <1>14, <1>15, <2>1 DEF FirstPostorder
<1>16. CASE tree.root # Nil
  <2>1. PICK R : R = {x \in Nodes \X Nodes : NextPostorder(x[1]) = x[2]}
        OBVIOUS
  <2>2. PICK f : f = LeftDeepest(tree.root)
        OBVIOUS
  <2>3. tree.root \in members
        BY <1>3, <1>16
  <2>4. Chain(R, order, f, tree.root)
    <3>1. PICK q : q = post
          OBVIOUS
    <3>2. /\ q[Nil] = <<>> /\ \A n \in Ptr : q[n] \in Seq(Nodes)
          /\ \A n \in Nodes : q[n] = q[Kid(tree, n, "left")]
                                       \o q[Kid(tree, n, "right")] \o <<n>>
          BY <1>9, <1>13, <3>1
    <3>3. Chain(R, q[tree.root], LeftDeepest(tree.root), tree.root)
          BY <1>1, <1>2, <2>1, <2>3, <3>2, PostBelow
    <3> QED BY <1>14, <2>2, <3>1, <3>3
  <2>5. NextPostorder(tree.root) = Nil
        BY <1>3, <1>16, Reads DEF NextPostorder
  <2>6. PICK len : len = Len(order)
        OBVIOUS
  <2>7. /\ len \in Nat /\ len > 0 /\ DOMAIN order = 1 .. len
        /\ order[1] = f /\ order[len] = tree.root
        /\ \A i \in 1 .. len : i > 1 => <<order[i - 1], order[i]>> \in R
    <3>1. order \in Seq(Nodes)
          BY <2>4 DEF Chain
    <3> QED BY <2>4, <2>6, <3>1 DEF Chain
  <2>8. FirstPostorder = At(order, 1)
        BY <1>16, <2>2, <2>7 DEF FirstPostorder
  <2>9. ASSUME NEW i \in 1 .. len
        PROVE  NextPostorder(order[i]) = At(order, i + 1)
    <3>1. CASE i = len
      <4>1. i + 1 \notin 1 .. len
            BY <2>7, <3>1
      <4> QED BY <2>5, <2>7, <3>1, <4>1
    <3>2. CASE i # len
      <4>1. PICK j : j = i + 1
            OBVIOUS
      <4>2. j \in 1 .. len /\ j > 1 /\ j - 1 = i
            BY <2>7, <3>2, <4>1
      <4>3. PICK x : x = <<order[i], order[j]>>
            OBVIOUS
      <4>4. x \in R /\ x[1] = order[i] /\ x[2] = order[j]
            BY <2>7, <4>2, <4>3
      <4>5. NextPostorder(x[1]) = x[2]
            BY <2>1, <4>4
      <4> QED BY <2>7, <4>1, <4>2, <4>4, <4>5
    <3> QED BY <3>1, <3>2
  <2> HIDE DEF At
  <2> QED BY <1>14, <2>7, <2>8, <2>9
<1> QED BY <1>15, <1>16

(* Between two calls rb_first(), rb_next(), rb_last() and rb_prev() visit  *)
(* the nodes in order, the post-order walk visits children before their    *)
(* parents, the cached leftmost node is the first, and each parent pointer *)
(* is the inverse of a child pointer.                                      *)
THEOREM WalksAgree == Spec => []IterationsAgree
<1>1. IInv => IterationsAgree
      BY InvParents, InvLeftmost, InvWalks, InvPostorder DEF IterationsAgree
<1> QED BY <1>1, Invariant, PTL

-----------------------------------------------------------------------------
(* What a client of the tree needs.                                        *)

(* The rest of a call keeps the invariant.                                 *)
LEMMA StepKeeps ==
  ASSUME IInv, Step
  PROVE  IInv'
<1>1. ASSUME NEW node \in Nodes \cup {Nil}, NEW parent \in Nodes \cup {Nil},
             \/ InsertDone(node, parent)
             \/ InsertFlip(node, parent)
             \/ InsertRotate(node, parent)
             \/ EraseRotateSibling(node, parent)
             \/ EraseFlip(node, parent)
             \/ EraseRotate(node, parent)
             \/ EraseRotateTwice(node, parent)
      PROVE  IInv'
      BY <1>1, InsertDoneKeeps, InsertFlipKeeps, InsertRotateKeeps,
         EraseRotateSiblingKeeps, EraseFlipKeeps, EraseRotateKeeps, EraseRotateTwiceKeeps
<1> QED BY <1>1, StoreKeeps, ReturnKeeps DEF Step, Rebalance

LEMMA IdleIs ==
  ASSUME IInv, Settled
  PROVE  op = Idle
<1>1. /\ op \in Calls /\ op.node = Nil /\ op.parent = Nil /\ op.stores = <<>>
      /\ op.pc = "idle"
      BY DEF IInv, UnderWay, Settled
<1> QED BY <1>1 DEF Calls, Idle

LEMMA MembersAre == ASSUME IInv PROVE members \subseteq Nodes /\ IsFiniteSet(members)
BY HeadType DEF IInv, UnderWay

(* What the search finds is in the tree, and the search ends at a node     *)
(* that is asked for.                                                      *)
LEMMA SearchFound ==
  ASSUME tree \in Trees, NEW r, Ranks(r, tree), NEW mem, NEW sub, NEW pos,
         Shape(tree, mem, sub, pos), NEW n, NEW f, IsSearch(f, n)
  PROVE  \A z \in mem : f[z].found # Nil => f[z].found \in mem /\ Cmp(f[z].found, n) = 0
<1> DEFINE Good == {z \in Nodes : z \in mem /\ f[z].found # Nil =>
                                    f[z].found \in mem /\ Cmp(f[z].found, n) = 0}
<1>1. /\ r \in [Nodes -> Nat]
      /\ \A m \in Nodes, s \in Sides :
           Kid(tree, m, s) \in Nodes => r[Kid(tree, m, s)] < r[m]
      BY DEF Ranks
<1>2. ASSUME NEW z \in Nodes, \A m \in Nodes : r[m] < r[z] => m \in Good
      PROVE  z \in Good
  <2> SUFFICES ASSUME z \in mem, f[z].found # Nil
               PROVE  f[z].found \in mem /\ Cmp(f[z].found, n) = 0
      OBVIOUS
  <2>1. PICK c : c = Kid(tree, z, Way(z, n))
        OBVIOUS
  <2>2. IF Cmp(z, n) = 0 THEN f[z].found = z
        ELSE IF c = Nil THEN f[z].found = Nil
        ELSE f[z].found = f[c].found
        BY <2>1 DEF IsSearch
  <2>3. CASE Cmp(z, n) = 0
        BY <2>2, <2>3
  <2>4. CASE Cmp(z, n) # 0
    <3>1. c # Nil /\ f[z].found = f[c].found
          BY <2>2, <2>4
    <3>2. Way(z, n) \in Sides
          BY DEF Way, Sides
    <3>3. c \in mem /\ c \in Nodes
          BY <2>1, <3>1, <3>2, SubKids
    <3>4. c \in Good
          BY <1>1, <1>2, <2>1, <3>2, <3>3
    <3> QED BY <3>1, <3>3, <3>4
  <2> QED BY <2>3, <2>4
<1> HIDE DEF Good
<1>3. \A z \in Nodes : z \in Good
      BY <1>1, <1>2, RankInduction
<1>4. mem \subseteq Nodes
      BY SubKids
<1> QED BY <1>3, <1>4 DEF Good

(* Between two calls, a search finds a node of the tree that is asked for, *)
(* or there is none.                                                       *)
LEMMA SearchRight ==
  ASSUME Keyed, IInv, Settled, NEW n \in Nodes, NEW found, found = Search(n).found
  PROVE  /\ found # Nil => found \in members /\ Cmp(found, n) = 0
         /\ found = Nil => \A m \in members : Cmp(m, n) # 0
<1>1. op.stores = <<>>
      BY DEF IInv, UnderWay, Settled
<1>2. PICK pc, node, parent : pc = op.pc /\ node = op.node /\ parent = op.parent
      OBVIOUS
<1>3. /\ tree \in Trees /\ Ranked(tree)
      /\ Head_(tree, pc, node, parent, members)
      BY <1>1, <1>2, AtHead
<1>4. PICK pos, sub : /\ Shape(tree, members, sub, pos) /\ Sorted(members, pos)
                      /\ Loose(tree, pc, members) /\ IsFiniteSet(members)
      BY <1>3 DEF Head_
<1>5. PICK r, k : Ranks(r, tree) /\ k \in Nat /\ \A m \in Nodes : r[m] < k
      BY <1>3, <1>4, BoundedRank
<1>6. tree.root \in members \cup {Nil} /\ sub[tree.root] = members /\ sub[Nil] = {}
      BY <1>4 DEF Shape
<1>7. CASE tree.root = Nil
      BY <1>6, <1>7 DEF Search
<1>8. CASE tree.root # Nil
  <2>1. PICK f : IsSearch(f, n) /\ SearchFrom(n) = f[tree.root]
        BY <1>3, <1>5, SearchIs
  <2>2. PICK z \in members : z = tree.root
        BY <1>6, <1>8
  <2>3. found = f[z].found
        BY <1>8, <2>1, <2>2 DEF Search
  <2>4. found # Nil => found \in members /\ Cmp(found, n) = 0
        BY <1>3, <1>4, <1>5, <2>1, <2>3, SearchFound
  <2>5. ASSUME found = Nil, NEW m \in members PROVE Cmp(m, n) # 0
    <3>1. PICK p, side, left : p = f[z].parent /\ side = f[z].side /\ left = f[z].leftmost
          OBVIOUS
    <3>2. Place(n, p, side, left, members, members, pos)
      <4>1. Place(n, f[z].parent, f[z].side, f[z].leftmost, sub[z], members, pos)
            BY <1>3, <1>4, <1>5, <2>1, <2>3, <2>5, SearchEnds
      <4> QED BY <1>6, <2>2, <3>1, <4>1
    <3>3. PICK key : IsKey(key)
          BY DEF Keyed
    <3>4. key[n] < key[m] \/ key[m] < key[n]
          BY <1>4, <3>2, <3>3 DEF Place, Apart
    <3>5. /\ m \in Nodes /\ key[m] \in Int /\ key[n] \in Int
          /\ Cmp(m, n) = IF key[m] < key[n] THEN -1 ELSE IF key[m] > key[n] THEN 1 ELSE 0
          BY <1>4, <3>3, SubKids DEF IsKey
    <3> QED BY <3>4, <3>5
  <2> QED BY <2>4, <2>5
<1> QED BY <1>7, <1>8

(* The loop over rb_first() and rb_next() that a client counts with, from  *)
(* a node on.                                                              *)
LEMMA CountLoop ==
  ASSUME Keyed, IInv, Settled, \A n \in Nodes \ members : tree.node[n] = Unlinked,
         NEW from, from = CHOOSE f : f = [n \in Nodes \cup {Nil} |->
                                            IF n = Nil THEN 0 ELSE 1 + f[Next_(n)]]
  PROVE  from[First] = Cardinality(members)
<1> DEFINE W(f) == [n \in Nodes \cup {Nil} |-> IF n = Nil THEN 0 ELSE 1 + f[Next_(n)]]
<1>1. op.stores = <<>>
      BY DEF IInv, UnderWay, Settled
<1>2. PICK pc, node, parent : pc = op.pc /\ node = op.node /\ parent = op.parent
      OBVIOUS
<1>3. /\ tree \in Trees /\ Ranked(tree)
      /\ Head_(tree, pc, node, parent, members)
      BY <1>1, <1>2, AtHead
<1>4. PICK r, k : Ranks(r, tree) /\ k \in Nat /\ \A m \in Nodes : r[m] < k
  <2>1. PICK pos, sub : /\ Shape(tree, members, sub, pos)
                        /\ Loose(tree, pc, members) /\ IsFiniteSet(members)
        BY <1>3 DEF Head_
  <2> QED BY <1>3, <2>1, BoundedRank
<1>5. PICK order : order = InOrder[tree.root]
      OBVIOUS
<1>6. PICK len : len = Len(order)
      OBVIOUS
<1>7. /\ order \in Seq(Nodes) /\ len \in Nat /\ DOMAIN order = 1 .. len
      /\ len = Cardinality(members)
      /\ \A m : m \in members <=> \E i \in 1 .. len : order[i] = m
      /\ \A i, j \in 1 .. len : i < j => Cmp(order[j], order[i]) = -1
  <2>1. tree.root \in Ptr
        BY <1>3, TreeType
  <2>2. order \in Seq(Nodes)
        BY <1>3, <1>4, <1>5, <2>1, InOrderIs
  <2>3. /\ Range(order) = members /\ Len(order) = Cardinality(members)
        /\ \A i, j \in DOMAIN order : i < j => Cmp(order[j], order[i]) = -1
        BY <1>1, <1>5, InvOrdered DEF Ordered
  <2>4. len \in Nat /\ DOMAIN order = 1 .. len
        BY <1>6, <2>2
  <2> QED BY <1>6, <2>2, <2>3, <2>4 DEF Range
<1>8. /\ First = IF 1 \in 1 .. len THEN order[1] ELSE Nil
      /\ \A i \in 1 .. len : Next_(order[i]) = IF i + 1 \in 1 .. len THEN order[i + 1] ELSE Nil
      BY <1>5, <1>7, InvWalks DEF WalksInOrder
<1>9. Nil \notin Nodes /\ members \subseteq Nodes
      BY NilIsNoNode, MembersAre
<1>10. ASSUME NEW n \in Nodes \ members PROVE Next_(n) = Nil
  <2>1. Child(n, "right") = Nil /\ Parent(n) = Nil
        BY <1>10 DEF Child, Parent, Unlinked
  <2>2. "right" \in Sides
        BY DEF Sides
  <2>3. Ascend(n, "right") = Nil
        BY <1>3, <1>4, <2>1, <2>2, AscendStep
  <2> QED BY <2>1, <2>3 DEF Next_
<1>11. \A i, j \in 1 .. len : order[i] = order[j] => i = j
  <2>1. PICK key : IsKey(key)
        BY DEF Keyed
  <2>2. ASSUME NEW i \in 1 .. len, NEW j \in 1 .. len, i < j PROVE order[i] # order[j]
    <3>1. Cmp(order[j], order[i]) = -1 /\ order[i] \in Nodes
          BY <1>7, <2>2
    <3>2. key[order[i]] \in Int /\ Cmp(order[i], order[i]) = 0
          BY <2>1, <3>1 DEF IsKey
    <3> QED BY <3>1, <3>2
  <2> QED BY <2>2, <1>7
<1>12. \E f : f = W(f)
  <2>1. PICK at : at = [n \in members |-> CHOOSE i \in 1 .. len : order[i] = n]
        OBVIOUS
  <2>2. \A i \in 1 .. len : order[i] \in members /\ at[order[i]] = i
    <3>1. ASSUME NEW i \in 1 .. len PROVE order[i] \in members /\ at[order[i]] = i
      <4>1. order[i] \in members
            BY <1>7
      <4>2. at[order[i]] = CHOOSE j \in 1 .. len : order[j] = order[i]
            BY <2>1, <4>1
      <4> QED BY <1>11, <4>1, <4>2
    <3> QED BY <3>1
  <2>3. PICK f : f = [n \in Nodes \cup {Nil} |-> IF n = Nil THEN 0
                        ELSE IF n \in members THEN len + 1 - at[n] ELSE 1]
        OBVIOUS
  <2>4. ASSUME NEW n \in Nodes \cup {Nil}
        PROVE  f[n] = IF n = Nil THEN 0 ELSE 1 + f[Next_(n)]
    <3>1. CASE n = Nil
          BY <2>3, <3>1
    <3>2. CASE n \in Nodes \ members
          BY <1>9, <1>10, <2>3, <3>2
    <3>3. CASE n \in members
      <4>1. PICK i \in 1 .. len : n = order[i]
            BY <1>7, <3>3
      <4>2. f[n] = len + 1 - i
            BY <1>9, <2>2, <2>3, <3>3, <4>1
      <4>3. CASE i = len
        <5>1. Next_(n) = Nil
              BY <1>7, <1>8, <4>1, <4>3
        <5> QED BY <1>7, <1>9, <2>3, <3>3, <4>2, <4>3, <5>1
      <4>4. CASE i # len
        <5>1. PICK j : j = i + 1
              OBVIOUS
        <5>2. j \in 1 .. len /\ Next_(n) = order[j]
              BY <1>7, <1>8, <4>1, <4>4, <5>1
        <5>3. f[order[j]] = len + 1 - j
              BY <1>9, <2>2, <2>3, <5>2
        <5> QED BY <1>7, <1>9, <3>3, <4>2, <5>1, <5>2, <5>3
      <4> QED BY <4>3, <4>4
    <3> QED BY <3>1, <3>2, <3>3
  <2> QED BY <2>3, <2>4
<1>13. from = W(from)
       BY <1>12
<1>14. from[Nil] = 0 /\ \A n \in Nodes : from[n] = 1 + from[Next_(n)]
       BY <1>9, <1>13
<1> HIDE DEF W
<1> DEFINE Good == {j \in Nat : j < len => from[order[len - j]] = 1 + j}
<1>15. 0 \in Good
  <2>1. SUFFICES ASSUME 0 < len PROVE from[order[len]] = 1
        BY <1>7
  <2>2. len \in 1 .. len /\ order[len] \in Nodes /\ len + 1 \notin 1 .. len
        BY <1>7, <2>1
  <2>3. Next_(order[len]) = Nil
        BY <1>8, <2>2
  <2> QED BY <1>14, <2>2, <2>3
<1>16. ASSUME NEW j \in Nat, j \in Good PROVE j + 1 \in Good
  <2>1. SUFFICES ASSUME j + 1 < len PROVE from[order[len - (j + 1)]] = 1 + (j + 1)
        OBVIOUS
  <2>2. PICK i : i = len - (j + 1)
        OBVIOUS
  <2>3. /\ i \in 1 .. len /\ i + 1 \in 1 .. len /\ i + 1 = len - j /\ j < len
        /\ order[i] \in Nodes
        BY <1>7, <2>1, <2>2
  <2>4. from[order[len - j]] = 1 + j
        BY <1>16, <2>3
  <2>5. Next_(order[i]) = order[len - j]
        BY <1>8, <2>3
  <2>6. from[order[i]] = 1 + (1 + j)
        BY <1>14, <2>3, <2>4, <2>5
  <2>7. 1 + (1 + j) = 1 + (j + 1)
        OBVIOUS
  <2> QED BY <2>2, <2>6, <2>7
<1>17. \A j \in Nat : j \in Good
  <2> HIDE DEF Good
  <2>1. \A j \in Nat : j \in Good => j + 1 \in Good
        BY <1>16
  <2> QED BY <1>15, <2>1, NatSetInduction
<1>18. CASE len = 0
       BY <1>7, <1>8, <1>14, <1>18
<1>19. CASE len # 0
  <2>1. PICK j : j = len - 1
        OBVIOUS
  <2>2. j \in Nat /\ j < len /\ len - j = 1 /\ 1 + j = len /\ 1 \in 1 .. len
        BY <1>7, <1>19, <2>1
  <2>3. from[order[len - j]] = 1 + j
        BY <1>17, <2>2
  <2> QED BY <1>7, <1>8, <2>2, <2>3
<1> QED BY <1>18, <1>19

(* What a client sees of the steps of a call.                              *)
LEMMA AddEffect ==
  ASSUME NEW n, Add(n)
  PROVE  /\ op.pc = "idle" /\ op'.pc = "insert"
         /\ Search(n).found = Nil
         /\ members' = members \cup {n}
BY DEF Add

LEMMA RebalanceEffect ==
  ASSUME IInv, Rebalance
  PROVE  op.pc # "idle" /\ op'.pc # "idle" /\ members' = members
<1>1. CASE Store
  <2>1. op \in Calls /\ op.pc # "idle"
        BY <1>1 DEF IInv, UnderWay, Store
  <2>2. op' = [op EXCEPT !.stores = Tail(@)] /\ members' = members
        BY <1>1 DEF Store
  <2>3. op'.pc = op.pc
        BY <2>1, <2>2 DEF Calls
  <2> QED BY <2>1, <2>2, <2>3
<1>2. ASSUME NEW node, NEW parent,
             \/ InsertDone(node, parent)
             \/ InsertFlip(node, parent)
             \/ InsertRotate(node, parent)
             \/ EraseRotateSibling(node, parent)
             \/ EraseFlip(node, parent)
             \/ EraseRotate(node, parent)
             \/ EraseRotateTwice(node, parent)
      PROVE  op.pc # "idle" /\ op'.pc # "idle" /\ members' = members
  <2>1. CASE InsertDone(node, parent)
        BY <2>1 DEF InsertDone, Inserting, Continue
  <2>2. CASE InsertFlip(node, parent)
        BY <2>2 DEF InsertFlip, Inserting, Continue
  <2>3. CASE InsertRotate(node, parent)
    <3>1. Inserting(node, parent) /\ \E q : Continue("done", Nil, Nil, q)
          BY <2>3, Zenon DEF InsertRotate
    <3> QED BY <3>1 DEF Inserting, Continue
  <2>4. CASE EraseRotateSibling(node, parent)
        BY <2>4 DEF EraseRotateSibling, Recolouring, Continue
  <2>5. CASE EraseFlip(node, parent)
    <3>1. /\ Recolouring(node, parent)
          /\ \/ \E q : Continue("done", Nil, Nil, q)
             \/ \E q : Continue("erase", parent, Parent(parent), q)
          BY <2>5, Zenon DEF EraseFlip
    <3> QED BY <3>1 DEF Recolouring, Continue
  <2>6. CASE EraseRotate(node, parent)
        BY <2>6 DEF EraseRotate, Recolouring, Continue
  <2>7. CASE EraseRotateTwice(node, parent)
        BY <2>7 DEF EraseRotateTwice, Recolouring, Continue
  <2> QED BY <1>2, <2>1, <2>2, <2>3, <2>4, <2>5, <2>6, <2>7
<1> QED BY <1>1, <1>2 DEF Rebalance

LEMMA ReturnEffect ==
  ASSUME IInv, Return
  PROVE  /\ op.pc = "done" /\ op' = Idle /\ op'.pc = "idle"
         /\ members' = members
         /\ \A n \in Nodes \ members : tree'.node[n] = Unlinked
<1>1. /\ op.pc = "done" /\ op.stores = <<>> /\ op' = Idle /\ members' = members
      /\ tree' = [tree EXCEPT !.node =
                    [n \in Nodes |-> IF n \in members THEN @[n] ELSE Unlinked]]
      BY DEF Return
<1>2. tree \in Trees
      BY <1>1, AtHead
<1>3. tree'.node = [n \in Nodes |-> IF n \in members THEN tree.node[n] ELSE Unlinked]
      BY <1>1, <1>2 DEF Trees
<1> QED BY <1>1, <1>3 DEF Idle
=============================================================================
